----------------------------- MODULE Lifecycle -----------------------------
(***************************************************************************)
(* Starting, stopping and recovering remote control:                       *)
(* src/desktop/main.ts over src/app/orchestrator.ts and the start and stop *)
(* of CodexService and RemoteCodexServer.                                  *)
(*                                                                         *)
(* The main process is an event loop.  An actor is one suspended call:     *)
(* startCodex of the window, of the relay and of the recovery, stopCodex,  *)
(* and recoverHybridControl itself.  pc names the await it is in; the code *)
(* between two awaits is one action.  Starting, closing and asking the     *)
(* official client are awaited calls that succeed or fail as they like.    *)
(*                                                                         *)
(* A runtime or server that is being started when it is stopped goes on    *)
(* starting (its stop finds nothing to close yet) and may still come up.   *)
(***************************************************************************)
EXTENDS Naturals, FiniteSets

CONSTANTS
  Callers,   \* who calls startCodex: the window or the tray menu, the relay
  Relay,     \* the caller that is the relay's start command
  Ids,       \* identities of runtimes and servers
  MaxOps     \* bound: calls of startCodex, stopCodex and recoveries

Recovery == "recovery"   \* recoverHybridControl
Inner == "inner"         \* the startCodex that ends it
Stop == "stop"           \* stopCodex
Starts == Callers \cup {Inner}
Actors == Starts \cup {Recovery, Stop}
NoId == 0

ASSUME LifecycleAssumption ==
  /\ Relay \in Callers
  /\ Callers \cap {"recovery", "inner", "stop"} = {}
  /\ Ids \subseteq Nat \ {0}
  /\ MaxOps \in Nat

VARIABLES
  codexState,   \* status.codexState
  orch,         \* ApplicationOrchestrator.codexState
  codex,        \* ApplicationOrchestrator.#codex
  runtimes,     \* every CodexRuntime: "none" (absent, closed), "starting", "up"
  server,       \* remoteServer
  servers,      \* every RemoteCodexServer, likewise
  actor,        \* the suspended calls
  relayOn,      \* relayClient?.running
  reported,     \* the service state the hub was told last
  inspecting,   \* monitorOfficialClientCompatibility is suspended
  failures,     \* cdpHealthFailures
  click,        \* a request of the window that is under way
  ops,          \* bound: operations begun
  \* history
  overlapped,   \* two operations have overlapped
  crossedRuntime,  \* starting and stopping a runtime have overlapped
  crossedServer    \* a server was created or stopped while another or it was in use

desktopVars == <<codexState, orch, codex, runtimes, server, servers, actor, relayOn,
                 reported, inspecting, failures, click, ops, overlapped, crossedRuntime, crossedServer>>

Idle == [pc |-> "idle", srv |-> NoId, rt |-> NoId]
ServiceStates == {"stopped", "starting", "running", "stopping", "failed"}
Steps == {"idle", "access", "pair", "client", "runtime", "verify", "serve",
          "closeServer", "closeRuntime", "check"}

LifecycleTypeOK ==
  /\ codexState \in ServiceStates /\ orch \in ServiceStates
  /\ codex \in Ids \cup {NoId} /\ server \in Ids \cup {NoId}
  /\ runtimes \in [Ids -> {"none", "starting", "up"}]
  /\ servers \in [Ids -> {"none", "starting", "up"}]
  /\ actor \in [Actors -> [pc : Steps \cup {"inner"}, srv : Ids \cup {NoId}, rt : Ids \cup {NoId}]]
  /\ relayOn \in BOOLEAN /\ reported \in {"standby", "starting", "running", "failed"}
  /\ inspecting \in BOOLEAN /\ failures \in 0..1 /\ click \in {"none", "start", "stop"}
  /\ ops \in 0..MaxOps
  /\ overlapped \in BOOLEAN /\ crossedRuntime \in BOOLEAN /\ crossedServer \in BOOLEAN

Pc(a) == actor[a].pc
\* Awaiting nothing (remoteServer?.stop() without a server) takes a microtask:
\* the actor goes on before any other event is handled.
Immediate == {a \in Actors : \/ Pc(a) = "closeServer" /\ actor[a].srv = NoId
                             \/ Pc(a) = "closeRuntime" /\ actor[a].rt = NoId}
Turn(a) == Immediate \subseteq {a}
Go(a, pc) == [actor EXCEPT ![a].pc = pc]
Busy == {a \in Actors : Pc(a) # "idle"} \ (IF Pc(Recovery) = "inner" THEN {Recovery} ELSE {})
Quiet == Busy = {} /\ Pc(Recovery) = "idle" /\ click = "none" /\ ~inspecting

\* The bookkeeping of an operation that begins.
Begin == /\ ops < MaxOps
         /\ ops' = ops + 1
         /\ overlapped' = (overlapped \/ Busy # {})
Free(f) == {i \in Ids : f[i] = "none" /\ \A a \in Actors : i \notin {actor[a].srv, actor[a].rt}}
Tell(s) == reported' = IF relayOn THEN s ELSE reported

----------------------------------------------------------------------------
(* What stopping a server and a runtime does *)

DownUnlessListening(f, i) == IF i = NoId THEN f ELSE [f EXCEPT ![i] = IF @ = "starting" THEN "none" ELSE @]
Down(f, i) == IF i = NoId THEN f ELSE [f EXCEPT ![i] = IF @ = "up" THEN "none" ELSE @]
Cuts(f, i) == i # NoId /\ f[i] = "starting"

\* remoteServer?.stop() of this actor ends, remoteServer = undefined, and
\* orchestrator.stopCodex() runs to its await.
StopOrchestrator(a, rest) ==
  /\ servers' = Down(servers, actor[a].srv)
  /\ server' = NoId
  /\ IF orch \in {"stopped", "stopping"}
     THEN actor' = [actor EXCEPT ![a] = [pc |-> rest, srv |-> NoId, rt |-> NoId]] /\ UNCHANGED orch
     ELSE /\ orch' = "stopping"
          /\ actor' = [actor EXCEPT ![a] = [pc |-> "closeRuntime", srv |-> NoId, rt |-> codex]]
  /\ crossedRuntime' = (crossedRuntime \/ (orch \notin {"stopped", "stopping"} /\ Cuts(runtimes, codex)))

\* #codex.stop() of orchestrator.stopCodex ends.
OrchestratorStopped(a, rest) ==
  /\ runtimes' = Down(runtimes, actor[a].rt)
  /\ codex' = NoId /\ orch' = "stopped"
  /\ actor' = [actor EXCEPT ![a] = [pc |-> rest, srv |-> NoId, rt |-> NoId]]

\* Calling remoteServer?.stop(): the server that is there now.
StopServerFrom(a, act) ==
  /\ actor' = [act EXCEPT ![a] = [pc |-> "closeServer", srv |-> server, rt |-> NoId]]
  /\ crossedServer' = (crossedServer \/ Cuts(servers, server))

----------------------------------------------------------------------------
(* startCodex *)

\* Called: the guard of the first line.  The relay's command is answered when
\* startCodex returns, also when it returns at once because a start is under way.
StartCall(c) ==
  IF codexState \in {"running", "starting"}
  THEN /\ reported' = IF c = Relay /\ relayOn THEN "running" ELSE reported
       /\ overlapped' = (overlapped \/ Busy # {})
       /\ UNCHANGED <<actor, ops>>
  ELSE /\ Begin
       /\ actor' = Go(c, "access")
       /\ UNCHANGED reported

\* The window and the tray menu offer start and stop only as the state they
\* were last sent allows; the request arrives some time after the click.
Click ==
  /\ click = "none" /\ ops < MaxOps
  /\ codexState \notin {"starting", "stopping"}
  /\ click' = IF codexState = "running" THEN "stop" ELSE "start"
  /\ UNCHANGED <<codexState, orch, codex, runtimes, server, servers, actor, relayOn, reported,
                 inspecting, failures, ops, overlapped, crossedRuntime, crossedServer>>

StartByWindow(c) ==
  /\ c # Relay /\ click = "start" /\ Pc(c) = "idle"
  /\ click' = "none"
  /\ StartCall(c)
  /\ UNCHANGED <<codexState, orch, codex, runtimes, server, servers, relayOn, inspecting, failures,
                 crossedRuntime, crossedServer>>

StartByRelay ==
  /\ relayOn /\ Pc(Relay) = "idle" /\ ops < MaxOps
  /\ StartCall(Relay)
  /\ UNCHANGED <<codexState, orch, codex, runtimes, server, servers, relayOn, inspecting, failures,
                 click, crossedRuntime, crossedServer>>

\* configureCodex throws while a runtime is starting or running.
MayConfigureWhileRunning == orch # "starting"
MayConfigure == orch \notin {"running", "starting"}

\* The end of startCodex, and what its caller does next: the relay client sends
\* the result of the command, the recovery ends or goes to its own catch.
Return(c, ok) ==
  /\ actor' = [actor EXCEPT ![c] = Idle,
                            ![Recovery] = IF c = Inner THEN IF ok THEN Idle ELSE [Idle EXCEPT !.pc = "check"]
                                                       ELSE @]
AnswerAlwaysRunning(c, ok, told) == reported' = IF relayOn /\ c = Relay THEN "running" ELSE told
Answer(c, ok, told) ==
  reported' = IF ~relayOn THEN reported
              ELSE IF ok THEN "running"
              ELSE IF c \in {Relay, Inner} THEN "failed"
              ELSE told

\* access() of the executable, outside the try: a failure leaves the state.
\* With a pairing code the relay client is started on the way to the next await.
StandbyRelay(c) ==
  /\ relayOn' = TRUE
  /\ reported' = "starting"
  /\ actor' = Go(c, "client")

StartAccess(c) ==
  /\ Pc(c) = "access"
  /\ \/ /\ Return(c, FALSE)
        /\ Answer(c, FALSE, reported)
        /\ UNCHANGED <<codexState, relayOn>>
     \/ /\ codexState' = "starting"
        /\ \/ StandbyRelay(c)
           \/ ~relayOn /\ actor' = Go(c, "pair") /\ UNCHANGED <<relayOn, reported>>
  /\ UNCHANGED <<orch, codex, runtimes, server, servers, inspecting, failures, click, ops,
                 overlapped, crossedRuntime, crossedServer>>

\* A throw inside the try: the catch calls remoteServer?.stop().
Throw(c) == StopServerFrom(c, actor)

StartPair(c) ==
  /\ Pc(c) = "pair"
  /\ \/ StandbyRelay(c) /\ codexState' = "starting" /\ UNCHANGED crossedServer
     \/ Throw(c) /\ UNCHANGED <<relayOn, reported, codexState>>
  /\ UNCHANGED <<orch, codex, runtimes, server, servers, inspecting, failures, click, ops,
                 overlapped, crossedRuntime>>

\* The official client has been inspected, restarted or launched:
\* orchestrator.startCodex creates the next runtime, if configureCodex lets it.
StartClient(c) ==
  /\ Pc(c) = "client"
  /\ \/ /\ Throw(c)
        /\ UNCHANGED <<codexState, orch, codex, runtimes, crossedRuntime>>
     \/ /\ ~MayConfigure
        /\ codexState' = "starting"
        /\ Throw(c)
        /\ UNCHANGED <<orch, codex, runtimes, crossedRuntime>>
     \/ /\ MayConfigure
        /\ codexState' = "starting" /\ orch' = "starting"
        /\ \E r \in Free(runtimes) :
             /\ codex' = r
             /\ runtimes' = [runtimes EXCEPT ![r] = "starting"]
             /\ actor' = [actor EXCEPT ![c] = [pc |-> "runtime", srv |-> NoId, rt |-> r]]
        /\ crossedRuntime' = (crossedRuntime \/ \E a \in Actors : Pc(a) = "closeRuntime")
        /\ UNCHANGED crossedServer
  /\ UNCHANGED <<server, servers, relayOn, reported, inspecting, failures, click, ops, overlapped>>

\* The start of the runtime ends.  After a failure the catch of
\* orchestrator.startCodex stops whatever #codex is by now and throws before it
\* sets the state when there is none; after a success service.codex throws
\* unless the orchestrator still has one.
StartRuntime(c) ==
  /\ Pc(c) = "runtime"
  /\ \/ /\ runtimes' = [runtimes EXCEPT ![actor[c].rt] = "up"]
        /\ orch' = "running"
        /\ IF codex = NoId THEN Throw(c)
           ELSE actor' = [actor EXCEPT ![c] = [pc |-> "verify", srv |-> NoId, rt |-> NoId]] /\ UNCHANGED crossedServer
        /\ UNCHANGED <<codex, crossedRuntime>>
     \/ /\ runtimes' = Down([runtimes EXCEPT ![actor[c].rt] = "none"], codex)
        /\ crossedRuntime' = (crossedRuntime \/ (codex # actor[c].rt /\ Cuts(runtimes, codex)))
        /\ orch' = IF codex = NoId THEN orch ELSE "failed"
        /\ codex' = NoId
        /\ Throw(c)
  /\ UNCHANGED <<codexState, server, servers, relayOn, reported, inspecting, failures, click, ops,
                 overlapped>>

\* The compatibility check ends; the server is created for service.codex.
StartVerify(c) ==
  /\ Pc(c) = "verify"
  /\ \/ Throw(c) /\ UNCHANGED <<server, servers>>
     \/ /\ orch = "running" /\ codex # NoId
        /\ \E s \in Free(servers) :
             /\ server' = s
             /\ servers' = [servers EXCEPT ![s] = "starting"]
             /\ actor' = [actor EXCEPT ![c] = [pc |-> "serve", srv |-> s, rt |-> NoId]]
        /\ crossedServer' = (crossedServer \/ server # NoId \/ \E a \in Actors : Pc(a) = "closeServer")
  /\ UNCHANGED <<codexState, orch, codex, runtimes, relayOn, reported, inspecting, failures, click,
                 ops, overlapped, crossedRuntime>>

\* The start of the server ends: its fixed port can be held by one server only.
\* setStatus reads remoteServer.accessUrls, which throws when the server has
\* been taken away.
StartServer(c) ==
  /\ Pc(c) = "serve"
  /\ \/ /\ servers' = [servers EXCEPT ![actor[c].srv] = "none"]
        /\ actor' = [actor EXCEPT ![c] = [pc |-> "closeServer", srv |-> server, rt |-> NoId]]
        /\ crossedServer' = (crossedServer \/ (server # actor[c].srv /\ Cuts(servers, server)))
        /\ UNCHANGED <<codexState, reported>>
     \/ /\ \A s \in Ids : servers[s] # "up"
        /\ servers' = [servers EXCEPT ![actor[c].srv] = "up"]
        /\ Tell("running")
        /\ IF server = NoId
           THEN Throw(c) /\ UNCHANGED codexState
           ELSE codexState' = "running" /\ Return(c, TRUE) /\ UNCHANGED crossedServer
  /\ UNCHANGED <<orch, codex, runtimes, server, relayOn, inspecting, failures, click, ops,
                 overlapped, crossedRuntime>>

CatchServer(c) ==
  /\ Pc(c) = "closeServer"
  /\ StopOrchestrator(c, "check")
  /\ Tell("failed")
  /\ UNCHANGED <<codexState, codex, runtimes, relayOn, inspecting, failures, click, ops,
                 overlapped, crossedServer>>

CatchRuntime(c) ==
  /\ Pc(c) = "closeRuntime"
  /\ OrchestratorStopped(c, "check")
  /\ UNCHANGED <<codexState, server, servers, relayOn, reported, inspecting, failures, click, ops,
                 overlapped, crossedRuntime, crossedServer>>

\* The update check after an incompatibility, if there was one, has ended.
CatchEnd(c) ==
  /\ Pc(c) = "check"
  /\ codexState' = "failed"
  /\ Return(c, FALSE)
  /\ Answer(c, FALSE, reported)
  /\ UNCHANGED <<orch, codex, runtimes, server, servers, relayOn, inspecting, failures, click, ops,
                 overlapped, crossedRuntime, crossedServer>>

----------------------------------------------------------------------------
(* stopCodex *)

StopByWindow ==
  /\ click = "stop" /\ Pc(Stop) = "idle"
  /\ click' = "none"
  /\ IF codexState \in {"stopped", "stopping"}
     THEN UNCHANGED <<codexState, actor, ops, overlapped, crossedServer>>
     ELSE Begin /\ codexState' = "stopping" /\ StopServerFrom(Stop, actor)
  /\ UNCHANGED <<orch, codex, runtimes, server, servers, relayOn, reported, inspecting, failures,
                 crossedRuntime>>

StoppedSilently == UNCHANGED codexState /\ Tell("standby")
Stopped == codexState' = "stopped" /\ Tell("standby")

StopServer ==
  /\ Pc(Stop) = "closeServer"
  /\ StopOrchestrator(Stop, "idle")
  /\ IF orch \in {"stopped", "stopping"} THEN Stopped ELSE UNCHANGED <<codexState, reported>>
  /\ UNCHANGED <<codex, runtimes, relayOn, inspecting, failures, click, ops, overlapped, crossedServer>>

StopRuntime ==
  /\ Pc(Stop) = "closeRuntime"
  /\ OrchestratorStopped(Stop, "idle")
  /\ Stopped
  /\ UNCHANGED <<server, servers, relayOn, inspecting, failures, click, ops, overlapped, crossedRuntime,
                 crossedServer>>

----------------------------------------------------------------------------
(* The monitor and recoverHybridControl, in hybrid mode *)

MonitorTick ==
  /\ ~inspecting
  /\ IF codexState = "running"
     THEN ops < MaxOps /\ inspecting' = TRUE /\ UNCHANGED failures
     ELSE failures # 0 /\ failures' = 0 /\ UNCHANGED inspecting
  /\ UNCHANGED <<codexState, orch, codex, runtimes, server, servers, actor, relayOn, reported, click,
                 ops, overlapped, crossedRuntime, crossedServer>>

MonitorHealthy ==
  /\ inspecting
  /\ inspecting' = FALSE /\ failures' = 0
  /\ UNCHANGED <<codexState, orch, codex, runtimes, server, servers, actor, relayOn, reported, click,
                 ops, overlapped, crossedRuntime, crossedServer>>

\* Mutant: the failures that are waited for are never enough.
Tolerant == failures <= 1
Tolerated == failures = 0
\* The second failure in a row starts the recovery, whatever the state is by now.
MonitorUnhealthy ==
  /\ inspecting
  /\ inspecting' = FALSE
  /\ IF Tolerated
     THEN failures' = failures + 1 /\ UNCHANGED <<codexState, actor, reported, ops, overlapped, crossedServer>>
     ELSE /\ failures' = 0
          /\ IF Pc(Recovery) # "idle"
             THEN UNCHANGED <<codexState, actor, reported, ops, overlapped, crossedServer>>
             ELSE /\ Begin
                  /\ Tell("starting")
                  /\ codexState' = "starting"
                  /\ StopServerFrom(Recovery, actor)
  /\ UNCHANGED <<orch, codex, runtimes, server, servers, relayOn, click, crossedRuntime>>

\* The old server and runtime are gone: the state is set to stopped and
\* startCodex is called in the same step, up to its first await.
Restart == [pc |-> "access", srv |-> NoId, rt |-> NoId]

RecoverServer ==
  /\ Pc(Recovery) = "closeServer"
  /\ IF orch \in {"stopped", "stopping"}
     THEN /\ servers' = Down(servers, actor[Recovery].srv) /\ server' = NoId
          /\ codexState' = "stopped"
          /\ actor' = [actor EXCEPT ![Recovery] = [Idle EXCEPT !.pc = "inner"], ![Inner] = Restart]
          /\ UNCHANGED <<orch, crossedRuntime>>
     ELSE StopOrchestrator(Recovery, "idle") /\ UNCHANGED codexState
  /\ UNCHANGED <<codex, runtimes, relayOn, reported, inspecting, failures, click, ops, overlapped,
                 crossedServer>>

RecoverRuntime ==
  /\ Pc(Recovery) = "closeRuntime"
  /\ runtimes' = Down(runtimes, actor[Recovery].rt)
  /\ codex' = NoId /\ orch' = "stopped" /\ codexState' = "stopped"
  /\ actor' = [actor EXCEPT ![Recovery] = [Idle EXCEPT !.pc = "inner"], ![Inner] = Restart]
  /\ UNCHANGED <<server, servers, relayOn, reported, inspecting, failures, click, ops, overlapped,
                 crossedRuntime, crossedServer>>

\* The catch of the recovery, after its update check.
RecoverFailed ==
  /\ Pc(Recovery) = "check"
  /\ codexState' = "failed"
  /\ actor' = [actor EXCEPT ![Recovery] = Idle]
  /\ UNCHANGED <<orch, codex, runtimes, server, servers, relayOn, reported, inspecting, failures,
                 click, ops, overlapped, crossedRuntime, crossedServer>>

\* Another instance takes the device over: close code 4009 ends the relay client.
RelayReplaced ==
  /\ relayOn /\ Pc(Relay) = "idle"
  /\ relayOn' = FALSE
  /\ UNCHANGED <<codexState, orch, codex, runtimes, server, servers, actor, reported, inspecting,
                 failures, click, ops, overlapped, crossedRuntime, crossedServer>>

----------------------------------------------------------------------------

DesktopInit ==
  /\ codexState = "stopped" /\ orch = "stopped" /\ codex = NoId /\ server = NoId
  /\ runtimes = [i \in Ids |-> "none"] /\ servers = [i \in Ids |-> "none"]
  /\ actor = [a \in Actors |-> Idle]
  /\ relayOn \in BOOLEAN /\ reported = "standby"
  /\ inspecting = FALSE /\ failures = 0 /\ click = "none" /\ ops = 0
  /\ overlapped = FALSE /\ crossedRuntime = FALSE /\ crossedServer = FALSE

StartStep(c) ==
  /\ Turn(c)
  /\ \/ StartAccess(c) \/ StartPair(c) \/ StartClient(c) \/ StartRuntime(c) \/ StartVerify(c)
     \/ StartServer(c) \/ CatchServer(c) \/ CatchRuntime(c) \/ CatchEnd(c)
RecoveryStep == Turn(Recovery) /\ (RecoverServer \/ RecoverRuntime \/ RecoverFailed)
StopStep == Turn(Stop) /\ (StopServer \/ StopRuntime)
Arrival == Immediate = {} /\ (StopByWindow \/ \E c \in Callers : StartByWindow(c))
Event == Immediate = {} /\ (Click \/ StartByRelay \/ RelayReplaced
                           \/ MonitorTick \/ MonitorHealthy \/ MonitorUnhealthy)

DesktopNext ==
  \/ Event \/ Arrival \/ StopStep \/ RecoveryStep
  \/ \E c \in Starts : StartStep(c)

\* Every awaited call ends (each has a timeout), the user answers the dialog, and
\* requests of the window arrive.
DesktopWork == Arrival \/ StopStep \/ RecoveryStep \/ \E c \in Starts : StartStep(c)

DesktopSpec == DesktopInit /\ [][DesktopNext]_desktopVars /\ WF_desktopVars(DesktopWork)

----------------------------------------------------------------------------
(* Properties *)

Serving == /\ orch = "running" /\ codex # NoId /\ runtimes[codex] = "up"
           /\ server # NoId /\ servers[server] = "up"
Alive(f) == {i \in Ids : f[i] # "none"}

\* When operations have not overlapped and none is under way, what the state
\* says is what is there: a running service has exactly its one runtime and its
\* one server, and a stopped or failed one has left nothing behind, whichever
\* step of the start failed (the catch of startCodex, orchestrator.stopCodex).
SettledAsShown ==
  Quiet /\ ~overlapped =>
    IF codexState = "running" THEN Serving /\ Alive(runtimes) = {codex} /\ Alive(servers) = {server}
    ELSE Alive(runtimes) = {} /\ Alive(servers) = {} /\ server = NoId /\ orch # "running"

\* However operations overlap, a runtime that nobody owns is left behind only
\* where the start and the stop of a runtime overlapped, and a server only where
\* it was stopped while starting or another was created beside it ("Owns exactly
\* one Codex runtime").
StrayOnlyWhenCrossed ==
  Quiet => /\ crossedRuntime \/ Alive(runtimes) \subseteq {codex} \ {NoId}
           /\ crossedServer \/ Alive(servers) \subseteq {server} \ {NoId}

\* The hub, which offers a device to browsers by what it was told last, is told
\* that the device runs exactly when it does.
HubToldTheState == Quiet /\ relayOn /\ ~overlapped => (reported = "running" <=> codexState = "running")

\* "starting" and "stopping", in which every button is disabled, never last.
TransitionsEnd == codexState \in {"starting", "stopping"} ~> codexState \notin {"starting", "stopping"}
=============================================================================
