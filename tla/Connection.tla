----------------------------- MODULE Connection -----------------------------
(***************************************************************************)
(* The connection of one CodexService to the official client: start, stop  *)
(* and #ensureRunning of src/codex/codex-service.ts over the WebSocket of  *)
(* src/codex/cdp-client.ts.                                                *)
(*                                                                         *)
(* The orchestrator starts the service once and stops it once.  A request  *)
(* that finds it disconnected starts it again, requests that come          *)
(* meanwhile join that start, and whichever start fails stops the service. *)
(* step is the await the start is in; what follows in microtasks belongs   *)
(* to the same action.                                                     *)
(*                                                                         *)
(* A socket that is closed stays "closing" until its close event, whose    *)
(* handler is the client's and not the socket's: it rejects every pending  *)
(* command and reports a disconnection, whichever socket they are on.      *)
(***************************************************************************)
EXTENDS Naturals, FiniteSets

CONSTANTS
  Clients,      \* calls of CodexService.request that may be under way
  MaxSockets,   \* bound: sockets created
  MaxAsked      \* bound: requests made

ASSUME ConnectionAssumption == MaxSockets \in Nat /\ MaxAsked \in Nat

Sockets == 1..MaxSockets
NoSocket == 0

VARIABLES
  owner,      \* the orchestrator: "new", "starting", "up", "gone"
  step,       \* the await of start: "idle" when none is under way
  socket,     \* CdpClient.#socket
  sockets,    \* every socket created
  serving,    \* CodexService.#running
  polls,      \* #pollTimer is set
  listening,  \* #onDisconnect is registered
  appServer,  \* the app-server client: "open", or "closed" for good
  follows,    \* #watched has a task: "never", "yes", "lost"
  call,       \* the calls of request
  asked,      \* bound: requests so far
  \* history
  served,     \* the first start has succeeded
  overrun,    \* the service was stopped while a start was under way
  revived,    \* a request has started it again after it was stopped
  failed,     \* a start has failed
  stale       \* the close event of a former socket has cut the present one off

connectionVars == <<owner, step, socket, sockets, serving, polls, listening, appServer, follows,
                    call, asked, served, overrun, revived, failed, stale>>

StartSteps == {"idle", "rules", "discover", "open", "runtime", "page", "sessions", "appServer", "provider"}

ConnectionTypeOK ==
  /\ owner \in {"new", "starting", "up", "gone"} /\ step \in StartSteps
  /\ socket \in Sockets \cup {NoSocket}
  /\ sockets \in [Sockets -> {"none", "opening", "open", "closing", "closed"}]
  /\ serving \in BOOLEAN /\ polls \in BOOLEAN /\ listening \in BOOLEAN
  /\ appServer \in {"open", "closed"} /\ follows \in {"never", "yes", "lost"}
  /\ call \in [Clients -> {"idle", "joining", "ready", "pending"}]
  /\ asked \in 0..MaxAsked
  /\ served \in BOOLEAN /\ overrun \in BOOLEAN /\ revived \in BOOLEAN /\ failed \in BOOLEAN /\ stale \in BOOLEAN

Connected == socket # NoSocket /\ sockets[socket] = "open"
Live == {s \in Sockets : sockets[s] \in {"opening", "open"}}
\* A command of the start itself is pending, or its socket's handshake.
OnSocket == step \in {"open", "runtime", "page"}

----------------------------------------------------------------------------
(* What stop, a failed start and a close event do *)

\* Mutant: close leaves a handshake alone.
ShutOnceOpen(f) == [s \in Sockets |-> IF s = socket /\ f[s] = "open" THEN "closing" ELSE f[s]]
\* close of CdpClient: an open socket says goodbye, a handshake is aborted.
Shut(f) == [s \in Sockets |-> IF s # socket THEN f[s]
                              ELSE IF f[s] = "open" THEN "closing"
                              ELSE IF f[s] = "opening" THEN "closed" ELSE f[s]]
Without(waits) == [c \in Clients |-> IF call[c] \in waits THEN "idle" ELSE call[c]]

StopService(f) ==
  /\ serving' = FALSE /\ polls' = FALSE /\ listening' = FALSE
  /\ follows' = IF follows = "yes" THEN "lost" ELSE follows
  /\ socket' = NoSocket /\ sockets' = Shut(f)
  /\ appServer' = "closed"

\* The catch of start, and of the orchestrator around the first one.
StartFails(f, o) ==
  /\ StopService(f)
  /\ step' = "idle"
  /\ call' = Without({"joining", "pending"})
  /\ owner' = IF o = "starting" THEN "gone" ELSE o
  /\ failed' = TRUE
  /\ UNCHANGED <<asked, served, overrun, revived, stale>>

\* #handleClose for the socket s.
HandleClose(s, f) ==
  IF step \in {"runtime", "page"}
  THEN StartFails(f, owner)
  ELSE /\ sockets' = f
       /\ call' = Without({"pending"})
       /\ serving' = (serving /\ ~listening)
       /\ polls' = (polls /\ ~listening)
       /\ stale' = (stale \/ (s # socket /\ listening /\ polls))
       /\ UNCHANGED <<owner, step, socket, listening, appServer, follows, asked, served, overrun,
                      revived, failed>>

----------------------------------------------------------------------------
(* start *)

OwnerStarts ==
  /\ owner = "new"
  /\ owner' = "starting" /\ step' = "rules"
  /\ UNCHANGED <<socket, sockets, serving, polls, listening, appServer, follows, call, asked,
                 served, overrun, revived, failed, stale>>

StepFails(at) == step = at /\ StartFails(sockets, owner)
Passes(from, to) ==
  /\ step = from /\ step' = to
  /\ UNCHANGED <<owner, socket, sockets, serving, polls, appServer, follows, call, asked, served,
                 overrun, revived, failed, stale>>

\* connect returns at once while the socket is open.
RulesLoaded ==
  \/ Connected /\ Passes("rules", "sessions") /\ listening' = TRUE
  \/ ~Connected /\ Passes("rules", "discover") /\ UNCHANGED listening

NextSocket(s) == sockets[s] = "none" /\ \A t \in Sockets : sockets[t] = "none" => s <= t
Discovered ==
  \/ StepFails("discover")
  \/ /\ step = "discover"
     /\ \E s \in Sockets : /\ NextSocket(s)
                           /\ socket' = s
                           /\ sockets' = [sockets EXCEPT ![s] = "opening"]
     /\ step' = "open"
     /\ UNCHANGED <<owner, serving, polls, listening, appServer, follows, call, asked, served,
                    overrun, revived, failed, stale>>

\* The handshake fails, times out, or succeeds; Runtime.enable is sent.
SocketOpens ==
  \/ StepFails("open")
  \/ /\ step = "open" /\ sockets[socket] = "opening"
     /\ sockets' = [sockets EXCEPT ![socket] = "open"]
     /\ step' = "runtime"
     /\ UNCHANGED <<owner, socket, serving, polls, listening, appServer, follows, call, asked, served,
                    overrun, revived, failed, stale>>

PageEnabled ==
  \/ StepFails("runtime") \/ StepFails("page")
  \/ Passes("runtime", "page") /\ UNCHANGED listening
  \/ Passes("page", "sessions") /\ listening' = TRUE

SessionsListed == StepFails("sessions") \/ (Passes("sessions", "appServer") /\ UNCHANGED listening)
AppServerConnects == Passes("appServer", "provider") /\ UNCHANGED listening

\* The start has succeeded, whatever became of the connection meanwhile; who
\* joined it throws when there is none.
StartSucceeds ==
  /\ step = "provider"
  /\ step' = "idle" /\ serving' = TRUE /\ polls' = TRUE
  /\ owner' = IF owner = "starting" THEN "up" ELSE owner
  /\ served' = (served \/ owner = "starting")
  /\ call' = [c \in Clients |-> IF call[c] # "joining" THEN call[c] ELSE IF Connected THEN "ready" ELSE "idle"]
  /\ stale' = FALSE
  /\ UNCHANGED <<socket, sockets, listening, appServer, follows, asked, overrun, revived, failed>>

StartGoesOn ==
  RulesLoaded \/ Discovered \/ SocketOpens \/ PageEnabled \/ SessionsListed \/ AppServerConnects \/ StartSucceeds

----------------------------------------------------------------------------
(* stop, requests, and the official client *)

\* The connection's part of a start fails with it; any other await of the start
\* goes on.
OwnerStops ==
  /\ owner \in {"starting", "up"}
  /\ \/ OnSocket /\ StartFails(sockets, "starting")
     \/ /\ ~OnSocket
        /\ StopService(sockets)
        /\ owner' = "gone"
        /\ overrun' = (overrun \/ step # "idle")
        /\ call' = Without({"pending"})
        /\ UNCHANGED <<step, asked, served, revived, failed, stale>>

\* A request of the local server, which exists once the first start has
\* succeeded; its suspended handlers may still ask after the stop.
Ask(c) ==
  /\ served /\ call[c] = "idle" /\ asked < MaxAsked
  /\ asked' = asked + 1
  /\ IF serving /\ Connected
     THEN call' = [call EXCEPT ![c] = "ready"] /\ UNCHANGED <<step, revived>>
     ELSE /\ call' = [call EXCEPT ![c] = "joining"]
          /\ step' = IF step = "idle" THEN "rules" ELSE step
          /\ revived' = (revived \/ (step = "idle" /\ owner = "gone"))
  /\ UNCHANGED <<owner, socket, sockets, serving, polls, listening, appServer, follows, served,
                 overrun, failed, stale>>

\* The operation sends a command, which is refused without a connection, or is
\* answered without one; thread/resume follows the task.
Operate(c) ==
  /\ call[c] = "ready"
  /\ \/ call' = [call EXCEPT ![c] = IF Connected THEN "pending" ELSE "idle"] /\ UNCHANGED follows
     \/ call' = [call EXCEPT ![c] = "idle"] /\ follows' \in {follows, "yes"}
  /\ UNCHANGED <<owner, step, socket, sockets, serving, polls, listening, appServer, asked, served,
                 overrun, revived, failed, stale>>

\* The answer to a command, or its timeout.
Answered(c) ==
  /\ call[c] = "pending"
  /\ call' = [call EXCEPT ![c] = "idle"]
  /\ UNCHANGED <<owner, step, socket, sockets, serving, polls, listening, appServer, follows, asked,
                 served, overrun, revived, failed, stale>>

PageCloses(s) == sockets[s] = "open" /\ HandleClose(s, [sockets EXCEPT ![s] = "closed"])
CloseEvent(s) == sockets[s] = "closing" /\ HandleClose(s, [sockets EXCEPT ![s] = "closed"])

----------------------------------------------------------------------------

ConnectionInit ==
  /\ owner = "new" /\ step = "idle" /\ socket = NoSocket /\ sockets = [s \in Sockets |-> "none"]
  /\ serving = FALSE /\ polls = FALSE /\ listening = FALSE /\ appServer = "open" /\ follows = "never"
  /\ call = [c \in Clients |-> "idle"] /\ asked = 0
  /\ served = FALSE /\ overrun = FALSE /\ revived = FALSE /\ failed = FALSE /\ stale = FALSE

ConnectionNext ==
  \/ OwnerStarts \/ OwnerStops \/ StartGoesOn
  \/ \E c \in Clients : Ask(c) \/ Operate(c) \/ Answered(c)
  \/ \E s \in Sockets : PageCloses(s) \/ CloseEvent(s)

\* Every await of start has a timeout, every command one of 12 s.
ConnectionWork ==
  \/ StartGoesOn
  \/ \E c \in Clients : Operate(c) \/ Answered(c)
  \/ \E s \in Sockets : CloseEvent(s)

ConnectionSpec == ConnectionInit /\ [][ConnectionNext]_connectionVars /\ WF_connectionVars(ConnectionWork)

----------------------------------------------------------------------------
(* Properties *)

\* Only the socket the client knows is ever open: no second connection to the
\* page beside it, and none left behind by a failed or overtaken start.
OneSocket == Live \subseteq {socket}

\* While the service is up and no start is under way, a service that has a
\* connection polls the tasks it follows, unless the late close event of a former
\* socket has ended that; and nothing is polled by a service that does not run.
ConnectedIsPolled ==
  /\ owner = "up" /\ step = "idle" /\ Connected => polls \/ stale
  /\ polls <=> serving

\* A service that was stopped, or whose first start failed at whichever step, has
\* no timer, no connection and no app-server, unless it was stopped during a start
\* or a late request has started it again.
StoppedIsDown ==
  owner = "gone" /\ ~overrun /\ ~revived =>
    ~polls /\ Live = {} /\ appServer = "closed" /\ step = "idle"

\* A disconnection costs nothing for good: the app-server stays available and the
\* tasks followed, unless a reconnection has failed.
ReconnectionKeeps == owner = "up" /\ ~failed => appServer = "open" /\ follows # "lost"

ConnectionIsOwned == OneSocket /\ ConnectedIsPolled /\ StoppedIsDown /\ ReconnectionKeeps

\* Every request is answered: who joins a start does not wait for ever.
Asking == \E c \in Clients : call[c] # "idle"
CallsReturn == Asking ~> ~Asking
=============================================================================
