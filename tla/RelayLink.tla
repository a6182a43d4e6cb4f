----------------------------- MODULE RelayLink -----------------------------
(***************************************************************************)
(* The link between the desktop applications of one device, the hub and    *)
(* its browsers: RemoteRelayClient (src/remote/remote-relay-client.ts) and *)
(* the WebSocket part of the hub (backend/src/server.mjs).                 *)
(*                                                                         *)
(* A connection is a pair of ordered channels.  "accepted" is the upgrade  *)
(* response and "bye" the close frame or, on a connection that was cut,    *)
(* the end of what arrives.  Two instances run with the credentials of one *)
(* device (the desktop and a leftover of it, say).  What is persisted over *)
(* the link is in QueueRecovery.                                           *)
(***************************************************************************)
EXTENDS Naturals, Sequences, FiniteSets

CONSTANTS
  Instances,    \* running copies of the desktop application
  Conns,        \* connections of instances to the hub that exist at once
  Browsers,     \* connections of browsers
  MaxMessages,  \* bound: messages of a browser, and of the local server to it
  MaxEvents     \* bound: events that nothing in the system brings about, a fault counting double

NoConn == 0
Nobody == "nobody"

ASSUME RelayLinkAssumption ==
  /\ Nobody \notin Instances
  /\ NoConn \notin Conns
  /\ MaxMessages \in Nat /\ MaxEvents \in Nat

VARIABLES
  \* the hub
  agent,       \* agents.get(deviceId)
  hubState,    \* agentStates.get(deviceId): whether the device runs
  browser,     \* browsers: the entry and the socket of each connection
  heard,       \* what was sent on the socket of the browser
  \* the connections
  conn,
  \* the instances
  instance,    \* #relay, #stopped, #reconnectTimer, #serviceStatus, a command under way
  local,       \* #locals: the socket to the local server for a browser, and its messages waiting
  took,        \* what the local server has received for a browser
  typed, said, \* what the browser and the local server have sent
  events,      \* bound: such events so far
  \* history
  ghost,       \* a replaced connection has spoken last
  unpurged,    \* the browsers of a closing connection were kept when it was replaced
  late         \* a connection was accepted that its client had given up

linkVars == <<agent, hubState, browser, heard, conn, instance, local, took, typed,
              said, events, ghost, unpurged, late>>
hubVars == <<agent, hubState, browser, heard, ghost, unpurged, late>>
appVars == <<instance, local, took, said>>

Happens == events < MaxEvents /\ events' = events + 1
Breaks == events + 2 <= MaxEvents /\ events' = events + 2

Closed == [of |-> Nobody, app |-> "closed", hub |-> "closed", up |-> <<>>, down |-> <<>>, cut |-> FALSE]
NewInstance == [relay |-> NoConn, stopped |-> TRUE, fired |-> FALSE, timer |-> FALSE, runs |-> FALSE, command |-> FALSE]
NoLocal == [host |-> Nobody, mapped |-> FALSE, socket |-> "none", waiting |-> <<>>]

LinkTypeOK ==
  /\ agent \in Conns \cup {NoConn}
  /\ hubState \in {"none", "other", "starting", "running"}
  /\ browser \in [Browsers -> [entered : BOOLEAN, socket : {"none", "open", "closing", "closed"},
                               chunks : SUBSET ((1..MaxMessages) \X {1, 2})]]
  /\ \A b \in Browsers : /\ heard[b] \in Seq(1..MaxMessages) /\ took[b] \in Seq(1..MaxMessages)
                         /\ typed[b] \in 0..MaxMessages /\ said[b] \in 0..MaxMessages
                         /\ local[b].host \in Instances \cup {Nobody} /\ local[b].mapped \in BOOLEAN
                         /\ local[b].socket \in {"none", "connecting", "open", "closing", "closed"}
  /\ \A c \in Conns : /\ conn[c].of \in Instances \cup {Nobody}
                      /\ conn[c].app \in {"connecting", "open", "closed"}
                      /\ conn[c].hub \in {"verifying", "open", "closing", "ended", "closed"}
  /\ instance \in [Instances -> [relay : Conns \cup {NoConn}, stopped : BOOLEAN, fired : BOOLEAN,
                                 timer : BOOLEAN, runs : BOOLEAN, command : BOOLEAN]]
  /\ events \in 0..MaxEvents
  /\ {ghost, unpurged, late} \subseteq BOOLEAN

----------------------------------------------------------------------------
(* Sending: dropped unless the socket is open, and lost on a cut connection *)

M(type, b, n, k) == [type |-> type, b |-> b, n |-> n, k |-> k]
Frame(type) == M(type, Nobody, 0, 0)
Bye == "bye"

\* #send of instance i, over its relay.
Up(cs, i, ms) ==
  LET c == instance[i].relay
  IN  IF c # NoConn /\ cs[c].app = "open" /\ ~cs[c].cut THEN [cs EXCEPT ![c].up = @ \o ms] ELSE cs

\* send of the hub, to connection c.
Down(cs, c, m) ==
  IF c # NoConn /\ cs[c].hub = "open" /\ ~cs[c].cut THEN [cs EXCEPT ![c].down = Append(@, m)] ELSE cs

\* A connection both ends of which are closed is forgotten.
Tidy(cs) == [c \in Conns |-> IF cs[c].app = "closed" /\ cs[c].hub = "closed" THEN Closed ELSE cs[c]]
AppClosed(cs, c) == Tidy([cs EXCEPT ![c].app = "closed", ![c].down = <<>>,
                                    ![c].up = IF cs[c].cut THEN @ ELSE Append(@, Frame(Bye))])

----------------------------------------------------------------------------
(* The hub and its agents *)

KeptAll(bs) == bs
Purged(bs) == [b \in Browsers |-> IF bs[b].entered
                 THEN [entered |-> FALSE, chunks |-> {}, socket |-> IF bs[b].socket = "open" THEN "closing" ELSE bs[b].socket]
                 ELSE bs[b]]
\* verifyDevice has found the device, and the connection handler runs.  An open
\* predecessor loses its browsers and is told
\* that it has been replaced (4009); one that is closing keeps them.
Attach(c) ==
  /\ conn[c].hub = "verifying"
  /\ \/ /\ conn[c].up # <<>>       \* the client has given up, and the hub sees it
        /\ conn' = Tidy([conn EXCEPT ![c].hub = "closed", ![c].up = <<>>])
        /\ UNCHANGED hubVars
     \/ LET replaces == agent # NoConn /\ conn[agent].hub = "open"
            open == [conn EXCEPT ![c].hub = "open",
                                 ![c].down = IF conn[c].cut THEN @ ELSE Append(@, Frame("accepted"))]
            told == Down(open, agent, Frame("replaced"))
        IN  /\ browser' = IF replaces THEN Purged(browser) ELSE browser
            /\ conn' = IF replaces THEN [told EXCEPT ![agent].hub = "closing"] ELSE open
            /\ agent' = c /\ hubState' = "other" /\ ghost' = FALSE
            /\ unpurged' = (unpurged \/ (agent # NoConn /\ ~replaces))
            /\ late' = (late \/ conn[c].up # <<>>)
            /\ UNCHANGED <<heard>>
  /\ UNCHANGED <<appVars, typed, events>>

\* The socket's close event; that of a replaced connection changes nothing.
HubClosed(c) ==
  /\ conn[c].hub = "ended"
  /\ conn' = Tidy([conn EXCEPT ![c].hub = "closed", ![c].up = <<>>])
  /\ IF agent = c
     THEN agent' = NoConn /\ hubState' = "none" /\ ghost' = FALSE /\ browser' = Purged(browser)
     ELSE UNCHANGED <<agent, hubState, ghost, browser>>
  /\ UNCHANGED <<heard, unpurged, late, appVars, typed, events>>

\* handleBrowserMessageChunk: a message is sent on when its last piece is there.
Deliver(b, n) == heard' = IF browser[b].socket = "open" THEN [heard EXCEPT ![b] = Append(@, n)] ELSE heard
Chunk(m) ==
  LET pieces == browser[m.b].chunks \cup {<<m.n, m.k>>}
  IN  IF {<<m.n, 1>>, <<m.n, 2>>} \subseteq pieces
      THEN /\ browser' = [browser EXCEPT ![m.b].chunks = {p \in pieces : p[1] # m.n}]
           /\ Deliver(m.b, m.n)
      ELSE browser' = [browser EXCEPT ![m.b].chunks = pieces] /\ UNCHANGED heard

ChunkTimeout(b) ==
  /\ browser[b].chunks # {} /\ browser[b].socket = "open"
  /\ Breaks
  /\ browser' = [browser EXCEPT ![b].chunks = {}, ![b].socket = "closing"]
  /\ UNCHANGED <<agent, hubState, heard, ghost, unpurged, late, appVars, typed, conn>>

\* Mutant: what is for no browser is taken for a state.
ForNoBrowser(m) == m.b \notin Browsers
TellsState(m) == m.type \in {"running", "other"}

\* handleAgentMessage, for whatever connection of the device, open or closing;
\* a frame "bye" ends the connection.
FromAgent(c) ==
  /\ conn[c].hub \in {"open", "closing"} /\ conn[c].up # <<>>
  /\ LET m == Head(conn[c].up)
         known == m.b \in Browsers /\ browser[m.b].entered
     IN  /\ conn' = [conn EXCEPT ![c].up = Tail(@), ![c].hub = IF m.type = Bye THEN "ended" ELSE @]
         /\ \/ /\ TellsState(m)
               /\ hubState' = m.type /\ ghost' = (c # agent)
               /\ UNCHANGED <<browser, heard>>
            \/ /\ m.type = "message" /\ known
               /\ Deliver(m.b, m.n)
               /\ UNCHANGED <<browser, hubState, ghost>>
            \/ /\ m.type = "chunk" /\ known
               /\ Chunk(m)
               /\ UNCHANGED <<hubState, ghost>>
            \/ /\ m.type = "close" /\ known
               /\ browser' = [browser EXCEPT ![m.b].socket = IF @ = "open" THEN "closing" ELSE @]
               /\ UNCHANGED <<heard, hubState, ghost>>
            \/ /\ m.type = Bye \/ (m.type \in {"message", "chunk", "close"} /\ ~known)
               /\ UNCHANGED <<browser, heard, hubState, ghost>>
  /\ UNCHANGED <<agent, unpurged, late, appVars, typed, events>>

----------------------------------------------------------------------------
(* The hub, its browsers and its HTTP handlers *)

\* The upgrade of a browser: refused unless the agent is open.
BrowserOpens(b) ==
  /\ Happens /\ browser[b].socket = "none" /\ agent # NoConn /\ conn[agent].hub = "open"
  /\ browser' = [browser EXCEPT ![b] = [entered |-> TRUE, socket |-> "open", chunks |-> {}]]
  /\ conn' = Down(conn, agent, M("open", b, 0, 0))
  /\ UNCHANGED <<agent, hubState, heard, ghost, unpurged, late, appVars, typed>>

BrowserTypes(b) ==
  /\ Happens /\ browser[b].socket \in {"open", "closing"} /\ typed[b] < MaxMessages
  /\ typed' = [typed EXCEPT ![b] = @ + 1]
  /\ conn' = Down(conn, agent, M("message", b, typed[b] + 1, 0))
  /\ UNCHANGED <<hubVars, appVars>>

\* The close event of a browser's socket, whoever closed it.
BrowserClosed(b) ==
  /\ \/ browser[b].socket = "open" /\ Happens
     \/ browser[b].socket = "closing" /\ UNCHANGED events
  /\ browser' = [browser EXCEPT ![b] = [entered |-> FALSE, socket |-> "closed", chunks |-> {}]]
  /\ conn' = Down(conn, agent, M("close", b, 0, 0))
  /\ UNCHANGED <<agent, hubState, heard, ghost, unpurged, late, appVars, typed>>

\* POST /api/devices/<id>/start
StartCommand ==
  /\ Happens /\ agent # NoConn /\ conn[agent].hub = "open" /\ hubState \notin {"running", "starting"}
  /\ hubState' = "starting" /\ ghost' = FALSE
  /\ conn' = Down(conn, agent, Frame("command"))
  /\ UNCHANGED <<agent, browser, heard, unpurged, late, appVars, typed>>

----------------------------------------------------------------------------
(* The relay client of an instance *)

Connect(i) ==
  \E c \in Conns :
    /\ conn[c] = Closed /\ \A d \in Conns : d < c => conn[d] # Closed
    /\ conn' = [conn EXCEPT ![c] = [Closed EXCEPT !.of = i, !.app = "connecting", !.hub = "verifying"]]
    /\ instance' = [instance EXCEPT ![i] = [@ EXCEPT !.relay = c, !.stopped = FALSE, !.timer = FALSE]]

\* start, by startStandbyRelay: an application is started by its user, or, told
\* that it was replaced, by its start button.
Start(i) ==
  /\ Happens /\ instance[i].stopped /\ ~instance[i].fired
  /\ Connect(i)
  /\ UNCHANGED <<hubVars, local, took, said, typed>>

Reconnect(i) ==
  /\ instance[i].timer
  /\ Connect(i)
  /\ UNCHANGED <<hubVars, local, took, said, typed, events>>

\* The relay's close event: every local socket is closed and forgotten, those
\* that connect abort.
Drop(ls, i) == [b \in Browsers |->
  IF ls[b].mapped /\ ls[b].host = i
  THEN [ls[b] EXCEPT !.mapped = FALSE, !.waiting = <<>>, !.socket = IF @ = "open" THEN "closing" ELSE "closed"]
  ELSE ls[b]]
FiredByAnyClose(i, replaced) == [instance[i] EXCEPT !.relay = NoConn, !.stopped = TRUE, !.fired = TRUE]
AfterClose(i, replaced) ==
  IF replaced
  THEN [instance[i] EXCEPT !.relay = NoConn, !.stopped = TRUE, !.fired = TRUE]
  ELSE [instance[i] EXCEPT !.relay = NoConn, !.timer = TRUE]

HandshakeTimesOut(i) ==
  LET c == instance[i].relay
  IN  /\ c # NoConn /\ conn[c].app = "connecting"
      /\ Breaks
      /\ conn' = AppClosed(conn, c)
      /\ instance' = [instance EXCEPT ![i] = AfterClose(i, FALSE)]
      /\ UNCHANGED <<hubVars, local, took, said, typed>>

\* #handleRelayMessage, and the events "open" and "close".
AcceptedSilently(i) ==
  conn' = [conn EXCEPT ![instance[i].relay].app = "open", ![instance[i].relay].down = Tail(@)]
Accepted(i) ==
  conn' = Up([conn EXCEPT ![instance[i].relay].app = "open", ![instance[i].relay].down = Tail(@)], i,
             <<Frame(IF instance[i].runs THEN "running" ELSE "other")>>)

OpenLocal(i, b) ==
  IF instance[i].runs
  THEN local' = [local EXCEPT ![b] = [host |-> i, mapped |-> TRUE, socket |-> "connecting", waiting |-> <<>>]]
  ELSE UNCHANGED local
CloseLocal(i, b) ==
  IF local[b].mapped /\ local[b].host = i
  THEN [local EXCEPT ![b].mapped = FALSE, ![b].waiting = <<>>, ![b].socket = IF @ = "open" THEN "closing" ELSE "closed"]
  ELSE local

DroppedUntilOpen(b, n) == UNCHANGED local
KeptUntilOpen(b, n) == local' = [local EXCEPT ![b].waiting = Append(@, n)]

FromHub(i) ==
  LET c == instance[i].relay
      m == Head(conn[c].down)
      rest == [conn EXCEPT ![c].down = Tail(@)]
  IN  /\ c # NoConn /\ conn[c].down # <<>>
      /\ \/ /\ m.type = "accepted" /\ Accepted(i)
            /\ UNCHANGED <<instance, local, took>>
         \/ /\ m.type \in {Bye, "replaced"}
            /\ conn' = AppClosed(conn, c)
            /\ instance' = [instance EXCEPT ![i] = AfterClose(i, m.type = "replaced")]
            /\ local' = Drop(local, i)
            /\ UNCHANGED took
         \/ /\ m.type = "command"
            /\ instance' = [instance EXCEPT ![i].command = TRUE]
            /\ conn' = rest
            /\ UNCHANGED <<local, took>>
         \/ /\ m.type = "open" /\ OpenLocal(i, m.b)
            /\ conn' = IF instance[i].runs THEN rest ELSE Up(rest, i, <<M("close", m.b, 0, 0)>>)
            /\ UNCHANGED <<instance, took>>
         \/ /\ m.type = "message" /\ conn' = rest
            /\ IF local[m.b].mapped /\ local[m.b].host = i /\ local[m.b].socket = "open"
               THEN took' = [took EXCEPT ![m.b] = Append(@, m.n)] /\ UNCHANGED local
               ELSE /\ UNCHANGED took
                    /\ IF local[m.b].mapped /\ local[m.b].host = i /\ local[m.b].socket = "connecting"
                       THEN KeptUntilOpen(m.b, m.n) ELSE UNCHANGED local
            /\ UNCHANGED instance
         \/ /\ m.type = "close" /\ conn' = rest
            /\ local' = CloseLocal(i, m.b)
            /\ UNCHANGED <<instance, took>>
  /\ UNCHANGED <<hubVars, said, typed, events>>

\* updateServiceState
SetService(i, runs) ==
  /\ instance' = [instance EXCEPT ![i].runs = runs, ![i].command = FALSE]
  /\ conn' = Up(conn, i, <<Frame(IF runs THEN "running" ELSE "other")>>)
  /\ UNCHANGED <<hubVars, local, took, said, typed>>
CommandDone(i) ==
  /\ instance[i].command /\ UNCHANGED events
  /\ \E runs \in BOOLEAN : (runs \/ ~instance[i].runs) /\ SetService(i, runs)
Switch(i) ==
  /\ ~instance[i].stopped /\ ~instance[i].command /\ Happens
  /\ SetService(i, ~instance[i].runs)

----------------------------------------------------------------------------
(* The sockets to the local server *)

LocalOpens(b) ==
  /\ local[b].socket = "connecting" /\ local[b].mapped
  /\ local' = [local EXCEPT ![b].socket = "open", ![b].waiting = <<>>]
  /\ took' = [took EXCEPT ![b] = @ \o local[b].waiting]
  /\ UNCHANGED <<hubVars, conn, instance, said, typed, events>>

\* #forwardLocalMessage: at once, in pieces, or, too large, not at all.
LocalSays(b) ==
  LET i == local[b].host
      n == said[b] + 1
  IN  /\ Happens /\ local[b].socket \in {"open", "closing"} /\ said[b] < MaxMessages
      /\ said' = [said EXCEPT ![b] = n]
      /\ \/ conn' = Up(conn, i, <<M("message", b, n, 0)>>) /\ UNCHANGED local
         \/ conn' = Up(conn, i, <<M("chunk", b, n, 1), M("chunk", b, n, 2)>>) /\ UNCHANGED local
         \/ conn' = Up(conn, i, <<M("close", b, 0, 0)>>) /\ local' = CloseLocal(i, b)
      /\ UNCHANGED <<hubVars, instance, took, typed>>

\* The close event of a local socket, after an error or not.
LocalClosed(b) ==
  /\ \/ local[b].socket \in {"connecting", "open"} /\ Happens
     \/ local[b].socket = "closing" /\ UNCHANGED events
  /\ local' = [local EXCEPT ![b].mapped = FALSE, ![b].waiting = <<>>, ![b].socket = "closed"]
  /\ conn' = Up(conn, local[b].host, <<M("close", b, 0, 0)>>)
  /\ UNCHANGED <<hubVars, instance, took, said, typed>>

----------------------------------------------------------------------------
(* What breaks *)

\* The network loses a connection: what is under way arrives up to some point.
Cut(c) ==
  /\ conn[c].app # "closed" /\ conn[c].hub \in {"verifying", "open", "closing"} /\ ~conn[c].cut /\ Breaks
  /\ \E k \in 0..Len(conn[c].up), l \in 0..Len(conn[c].down) :
       conn' = [conn EXCEPT ![c].cut = TRUE,
                            ![c].up = Append(SubSeq(@, 1, k), Frame(Bye)),
                            ![c].down = Append(SubSeq(@, 1, l), Frame(Bye))]
  /\ UNCHANGED <<hubVars, appVars, typed>>

\* The application quits: relayClient.stop().
Quit(i) ==
  /\ ~instance[i].stopped
  /\ Breaks
  /\ instance' = [instance EXCEPT ![i] = NewInstance]
  /\ conn' = IF instance[i].relay = NoConn THEN conn ELSE AppClosed(conn, instance[i].relay)
  /\ local' = Drop(local, i)
  /\ UNCHANGED <<hubVars, took, said, typed>>

----------------------------------------------------------------------------

LinkInit ==
  /\ agent = NoConn /\ hubState = "none"
  /\ browser = [b \in Browsers |-> [entered |-> FALSE, socket |-> "none", chunks |-> {}]]
  /\ heard = [b \in Browsers |-> <<>>] /\ took = [b \in Browsers |-> <<>>]
  /\ typed = [b \in Browsers |-> 0] /\ said = [b \in Browsers |-> 0]
  /\ conn = [c \in Conns |-> Closed]
  /\ instance \in [Instances -> {NewInstance, [NewInstance EXCEPT !.runs = TRUE]}]
  /\ local = [b \in Browsers |-> NoLocal]
  /\ events = 0 /\ ghost = FALSE /\ unpurged = FALSE /\ late = FALSE

HubStep(c) == Attach(c) \/ HubClosed(c) \/ FromAgent(c)
AppStep(i) == Reconnect(i) \/ FromHub(i)

LinkNext ==
  \/ \E c \in Conns : HubStep(c) \/ Cut(c)
  \/ \E i \in Instances : AppStep(i) \/ Start(i) \/ HandshakeTimesOut(i) \/ CommandDone(i) \/ Switch(i) \/ Quit(i)
  \/ \E b \in Browsers : \/ ChunkTimeout(b) \/ BrowserOpens(b) \/ BrowserTypes(b) \/ BrowserClosed(b)
                         \/ LocalOpens(b) \/ LocalSays(b) \/ LocalClosed(b)
  \/ StartCommand

----------------------------------------------------------------------------
(* Properties *)

Silent == \A c \in Conns : /\ conn[c].up = <<>> /\ conn[c].down = <<>>
                        /\ conn[c].hub \in {"open", "closed"}
InOrder(s) == s = [k \in 1..Len(s) |-> k]

\* What a browser and the local server hear of each other is what the other has
\* said, from the first message on, whole, in order and without gaps, whatever
\* breaks; only browsers that the hub has kept for a replaced connection may get
\* stray messages.
StreamsArePrefixes == unpurged \/ \A b \in Browsers : InOrder(heard[b]) /\ InOrder(took[b])

\* When nothing is under way, a browser that the hub keeps connected has its
\* local socket in the instance that is the agent.
BrowserHasItsLocal ==
  Silent /\ ~unpurged => \A b \in Browsers :
    browser[b].entered /\ browser[b].socket = "open" =>
      local[b].mapped /\ agent # NoConn /\ conn[agent].of = local[b].host

\* When nothing is under way the hub takes the device for running exactly when
\* the instance that is connected runs, unless a replaced connection spoke last.
HubShowsTheInstance ==
  Silent /\ ~ghost /\ agent # NoConn /\ hubState # "starting" =>
    (hubState = "running" <=> instance[conn[agent].of].runs)

\* Instances of one device do not put each other out of service: of those that
\* were replaced and not restarted one at least goes on, unless the hub accepted
\* a connection its client had given up.
OneInstanceStays ==
  ~late /\ (\E i \in Instances : instance[i].fired) => \E i \in Instances : ~instance[i].fired
=============================================================================
