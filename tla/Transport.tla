----------------------------- MODULE Transport -----------------------------
(***************************************************************************)
(* The app-server transport: OfficialAppServerClient                       *)
(* (src/codex/thread-metadata-client.ts) over LineRpcClient                *)
(* (src/runtime/line-rpc-client.ts), one child process at a time.          *)
(*                                                                         *)
(* A connection is a child with its LineRpcClient: #child and #rpc are set *)
(* and cleared together.  Closing a connection rejects its requests; each  *)
(* of them continues in a microtask of its own, before the next event, and *)
(* only then does the attempt to connect fail for those that wait for it.  *)
(***************************************************************************)
EXTENDS Naturals, FiniteSets

CONSTANTS
  Requests,    \* calls of request
  MaxChildren, \* bound: child processes, which are numbered
  MaxFaults    \* bound: exits and timeouts

ASSUME TransportAssumption == MaxFaults \in Nat /\ MaxChildren \in Nat

Children == 1..MaxChildren

VARIABLES
  rpc,          \* #rpc and #child, 0 without
  connecting,   \* #connecting: the child being initialized, 0 without
  alive,        \* the child runs
  initialize,   \* its initialize request: "none", "sent", "failed", "done"
  request,      \* the calls of request
  closedClient, \* #closed
  faults,       \* bound: exits and timeouts so far
  \* history
  ran,          \* the children that have executed a request
  blame         \* the child of the last exit or timeout

transportVars == <<rpc, connecting, alive, initialize, request, closedClient, faults, ran, blame>>

RequestSteps == {"new", "waiting", "sent", "rejected", "answered", "failed"}
TransportTypeOK ==
  /\ rpc \in Children \cup {0} /\ connecting \in Children \cup {0}
  /\ alive \in [Children -> BOOLEAN]
  /\ initialize \in [Children -> {"none", "sent", "failed", "done"}]
  /\ request \in [Requests -> [at : RequestSteps, child : Children \cup {0}, attempt : {1, 2}]]
  /\ closedClient \in BOOLEAN /\ faults \in 0..MaxFaults
  /\ ran \in [Requests -> SUBSET Children] /\ blame \in Children \cup {0}

On(c) == {r \in Requests : request[r].at = "sent" /\ request[r].child = c}
Rejected == {r \in Requests : request[r].at = "rejected"}
Doomed == connecting # 0 /\ initialize[connecting] = "failed"
EventMayCome == Rejected = {} /\ ~Doomed
Unused == {c \in Children : initialize[c] = "none"}

\* #reset of the current connection: the rpc client is closed, which rejects
\* its requests, and the child is killed.
Now == [rpc |-> rpc, alive |-> alive, initialize |-> initialize, request |-> request]
AfterResetWithoutKill(c) ==
  [rpc |-> 0,
   alive |-> alive,
   initialize |-> [initialize EXCEPT ![c] = IF @ = "sent" THEN "failed" ELSE @],
   request |-> [r \in Requests |-> IF r \in On(c) THEN [request[r] EXCEPT !.at = "rejected"] ELSE request[r]]]
AfterReset(c) ==
  [rpc |-> 0,
   alive |-> [alive EXCEPT ![c] = FALSE],
   initialize |-> [initialize EXCEPT ![c] = IF @ = "sent" THEN "failed" ELSE @],
   request |-> [r \in Requests |-> IF r \in On(c) THEN [request[r] EXCEPT !.at = "rejected"] ELSE request[r]]]
Become(s) == rpc' = s.rpc /\ alive' = s.alive /\ initialize' = s.initialize /\ request' = s.request
Reset(c) == Become(AfterReset(c))

\* request, from the call or the retry to its next await, in the state s that
\* the code before has left: connect returns at once when there is a connection,
\* initialized or not, joins the attempt under way, or spawns a child.
At(at, child, attempt) == [at |-> at, child |-> child, attempt |-> attempt]
Send(s, r, attempt) ==
  IF s.rpc # 0
  THEN Become([s EXCEPT !.request[r] = At("sent", s.rpc, attempt)]) /\ UNCHANGED connecting
  ELSE IF connecting # 0
  THEN Become([s EXCEPT !.request[r] = At("waiting", 0, attempt)]) /\ UNCHANGED connecting
  ELSE \E c \in Unused :
         /\ \A d \in Unused : c <= d
         /\ connecting' = c
         /\ Become([s EXCEPT !.rpc = c, !.alive[c] = TRUE, !.initialize[c] = "sent",
                             !.request[r] = At("waiting", 0, attempt)])

Request(r) ==
  /\ EventMayCome /\ request[r].at = "new"
  /\ IF closedClient
     THEN /\ request' = [request EXCEPT ![r].at = "failed"]
          /\ UNCHANGED <<rpc, connecting, alive, initialize>>
     ELSE Send(Now, r, 1)
  /\ UNCHANGED <<closedClient, faults, ran, blame>>

\* The answer to initialize: everyone who waits for the connection sends.
Initialized ==
  /\ EventMayCome /\ connecting # 0 /\ initialize[connecting] = "sent" /\ alive[connecting]
  /\ initialize' = [initialize EXCEPT ![connecting] = "done"]
  /\ connecting' = 0
  /\ request' = [r \in Requests |-> IF request[r].at = "waiting"
                                    THEN [request[r] EXCEPT !.at = "sent", !.child = rpc] ELSE request[r]]
  /\ UNCHANGED <<rpc, alive, closedClient, faults, ran, blame>>

\* The attempt to connect has failed for all who wait for it.
ConnectFails ==
  /\ Rejected = {} /\ Doomed
  /\ connecting' = 0
  /\ request' = [r \in Requests |-> IF request[r].at = "waiting"
                                    THEN [request[r] EXCEPT !.at = "failed"] ELSE request[r]]
  /\ UNCHANGED <<rpc, alive, initialize, closedClient, faults, ran, blame>>

\* The catch of request: a first attempt closes the connection it used, if that
\* is still the current one, and is repeated once.
GivesUp(r) == request[r].attempt = 2 \/ closedClient
IsCurrentOrNot(r) == rpc # 0
IsCurrent(r) == rpc = request[r].child

Retry(r) ==
  /\ request[r].at = "rejected"
  /\ IF GivesUp(r)
     THEN /\ request' = [request EXCEPT ![r].at = "failed"]
          /\ UNCHANGED <<rpc, connecting, alive, initialize>>
     ELSE Send(IF IsCurrent(r) THEN AfterReset(rpc) ELSE Now, r, 2)
  /\ UNCHANGED <<closedClient, faults, ran, blame>>

----------------------------------------------------------------------------
(* The child process *)

Execute(r) ==
  /\ EventMayCome /\ request[r].at = "sent" /\ alive[request[r].child]
  /\ request[r].child \notin ran[r]
  /\ ran' = [ran EXCEPT ![r] = @ \cup {request[r].child}]
  /\ UNCHANGED <<rpc, connecting, alive, initialize, request, closedClient, faults, blame>>

\* A reply, or an error reply, which is not retried.
Reply(r) ==
  /\ EventMayCome /\ request[r].at = "sent" /\ alive[request[r].child]
  /\ \/ request[r].child \in ran[r] /\ request' = [request EXCEPT ![r].at = "answered"]
     \/ request' = [request EXCEPT ![r].at = "failed"]
  /\ UNCHANGED <<rpc, connecting, alive, initialize, closedClient, faults, ran, blame>>

Fault(c) == faults < MaxFaults /\ faults' = faults + 1 /\ blame' = c

ChildExits(c) ==
  /\ EventMayCome /\ alive[c] /\ Fault(c)
  /\ alive' = [alive EXCEPT ![c] = FALSE]
  /\ UNCHANGED <<rpc, connecting, initialize, request, closedClient, ran>>

\* The exit, the end of its output or a failed write is noticed.
ExitNoticedOnceReady(c) ==
  /\ EventMayCome /\ rpc = c /\ ~alive[c] /\ initialize[c] = "done"
  /\ Reset(c)
  /\ UNCHANGED <<connecting, closedClient, faults, ran, blame>>
ExitNoticed(c) ==
  /\ EventMayCome /\ rpc = c /\ ~alive[c]
  /\ Reset(c)
  /\ UNCHANGED <<connecting, closedClient, faults, ran, blame>>

\* The 15 s of a request, or of initialize, are over.
RequestTimesOut(r) ==
  /\ EventMayCome /\ request[r].at = "sent" /\ Fault(request[r].child)
  /\ request' = [request EXCEPT ![r].at = "rejected"]
  /\ UNCHANGED <<rpc, connecting, alive, initialize, closedClient, ran>>

InitializeTimesOut ==
  /\ EventMayCome /\ connecting # 0 /\ Fault(connecting)
  /\ rpc = connecting /\ Reset(rpc)
  /\ UNCHANGED <<connecting, closedClient, ran>>

CloseClient ==
  /\ EventMayCome /\ ~closedClient
  /\ closedClient' = TRUE
  /\ IF rpc = 0 THEN UNCHANGED <<rpc, alive, initialize, request>> ELSE Reset(rpc)
  /\ UNCHANGED <<connecting, faults, ran, blame>>

----------------------------------------------------------------------------

TransportInit ==
  /\ rpc = 0 /\ connecting = 0
  /\ alive = [c \in Children |-> FALSE] /\ initialize = [c \in Children |-> "none"]
  /\ request = [r \in Requests |-> [at |-> "new", child |-> 0, attempt |-> 1]]
  /\ closedClient = FALSE /\ faults = 0
  /\ ran = [r \in Requests |-> {}] /\ blame = 0

Progress(r) == Retry(r) \/ Execute(r) \/ Reply(r)
Connection == Initialized \/ ConnectFails \/ (\E c \in Children : ExitNoticed(c))

TransportNext ==
  \/ \E r \in Requests : Request(r) \/ Progress(r) \/ RequestTimesOut(r)
  \/ \E c \in Children : ChildExits(c)
  \/ Connection \/ InitializeTimesOut \/ CloseClient

\* The event loop runs what is ready, an exit is noticed, and a child that does
\* not answer is timed out, which is an answer of its own here.
TransportWork == Connection \/ \E r \in Requests : Progress(r)

TransportSpec == TransportInit /\ [][TransportNext]_transportVars /\ WF_transportVars(TransportWork)

----------------------------------------------------------------------------
(* Properties *)

\* A child that runs is the current connection, and none runs after close.
NoOrphanChild ==
  /\ \A c \in Children : alive[c] => c = rpc
  /\ closedClient => \A c \in Children : ~alive[c]

\* A request is executed again only once it has been repeated, on another child.
RunsAgainOnlyAfterLoss ==
  \A r \in Requests : /\ Cardinality(ran[r]) <= 2
                      /\ Cardinality({c \in ran[r] : alive[c]}) <= 1
                      /\ request[r].attempt = 1 => Cardinality(ran[r]) <= 1

\* The client never leaves a process behind, before or after close, and a request
\* that was executed before its connection broke is executed again at most once,
\* and never while the first process lives (#reset, request).
OneChildServes == NoOrphanChild /\ RunsAgainOnlyAfterLoss

\* A late failure never tears down a newer healthy connection: a running child
\* is killed only by its own exit or timeout, or by close.
LateFailureSparesNewer ==
  [][\A c \in Children : alive[c] /\ ~alive'[c] => closedClient' \/ blame' = c]_transportVars

\* Every request is settled: those under way come to an end.
UnderWay == \E r \in Requests : request[r].at \in {"waiting", "sent", "rejected"}
RequestsSettle == UnderWay ~> ~UnderWay
=============================================================================
