---------------------------- MODULE DesktopProofs ----------------------------
(***************************************************************************)
(* Theorems about the desktop application, for any number of requests,     *)
(* children, calls, blocks, operations and sockets: about the transport,   *)
(* the updates, the lifecycle and the connection to the official client,   *)
(* each by itself, and then that they hold of the application that         *)
(* consists of them: a step of the application is one of theirs, or leaves *)
(* their variables alone.                                                  *)
(***************************************************************************)
EXTENDS Desktop, FiniteSetTheorems, TLAPS

-----------------------------------------------------------------------------
(* The app-server transport: its types, that one child serves, and that a     *)
(* late failure spares a newer connection                                     *)

\* A child that is being initialized is the connection and the attempt under way.
OneAttempt ==
  /\ \A c \in Children : initialize[c] = "sent" => c = connecting /\ c = rpc
  /\ rpc # 0 => initialize[rpc] \in {"sent", "done"}
  /\ connecting # 0 => initialize[connecting] \in {"sent", "failed"}

\* What runs is the connection; after close there is none.
OneChild ==
  /\ \A c \in Children : alive[c] => c = rpc
  /\ closedClient => rpc = 0

\* A request knows the child it was sent to, and only children that were started
\* have executed it: one for each attempt.
Traced(r) ==
  /\ request[r].at = "new" => ran[r] = {}
  /\ request[r].at \in {"new", "waiting"} => request[r].child = 0
  /\ request[r].at \in {"sent", "rejected"} => request[r].child # 0
  /\ request[r].child # 0 => initialize[request[r].child] # "none"
  /\ \A c \in ran[r] : initialize[c] # "none"
  /\ request[r].attempt = 1 => ran[r] \subseteq {request[r].child}
  /\ \E c \in Children \cup {0} : ran[r] \subseteq {c, request[r].child}

\* A request rejected on the connection that still stands blames its child.
Blamed(r) == request[r].at = "rejected" /\ request[r].child = rpc => blame = rpc

TransportInv ==
  /\ TransportTypeOK /\ OneAttempt /\ OneChild
  /\ \A r \in Requests : Traced(r) /\ Blamed(r)

-----------------------------------------------------------------------------

\* What Send does to a state s, in its three cases.
LEMMA SendCases ==
  ASSUME NEW r \in Requests, NEW n \in {1, 2}, NEW p, NEW a, NEW i, NEW q,
         Send([rpc |-> p, alive |-> a, initialize |-> i, request |-> q], r, n)
  PROVE  \/ /\ p # 0
            /\ rpc' = p /\ alive' = a /\ initialize' = i /\ connecting' = connecting
            /\ request' = [q EXCEPT ![r] = At("sent", p, n)]
         \/ /\ p = 0 /\ connecting # 0
            /\ rpc' = p /\ alive' = a /\ initialize' = i /\ connecting' = connecting
            /\ request' = [q EXCEPT ![r] = At("waiting", 0, n)]
         \/ /\ p = 0 /\ connecting = 0
            /\ \E c \in Unused :
                 /\ rpc' = c /\ connecting' = c
                 /\ alive' = [a EXCEPT ![c] = TRUE] /\ initialize' = [i EXCEPT ![c] = "sent"]
                 /\ request' = [q EXCEPT ![r] = At("waiting", 0, n)]
BY DEF Send, Become

\* A state in which the invariant holds but for the request r itself, which is not
\* sent and is about to be, for the first or second time.
SendReady(p, a, i, q, r, n) ==
  /\ p \in Children \cup {0} /\ a \in [Children -> BOOLEAN]
  /\ i \in [Children -> {"none", "sent", "failed", "done"}]
  /\ q \in [Requests -> [at : RequestSteps, child : Children \cup {0}, attempt : {1, 2}]]
  /\ \A c \in Children : i[c] = "none" <=> initialize[c] = "none"
  /\ \A c \in Children : i[c] = "sent" => c = connecting /\ c = p
  /\ p # 0 => i[p] \in {"sent", "done"}
  /\ connecting # 0 => i[connecting] \in {"sent", "failed"}
  /\ \A c \in Children : a[c] => c = p
  /\ \A s \in Requests :
       /\ q[s].at = "new" => ran[s] = {}
       /\ q[s].at \in {"new", "waiting"} => q[s].child = 0
       /\ q[s].at \in {"sent", "rejected"} => q[s].child # 0
       /\ q[s].child # 0 => i[q[s].child] # "none"
       /\ \A c \in ran[s] : i[c] # "none"
       /\ q[s].attempt = 1 => ran[s] \subseteq {q[s].child}
       /\ \E c \in Children \cup {0} : ran[s] \subseteq {c, q[s].child}
       /\ s # r /\ q[s].at = "rejected" /\ q[s].child = p => blame = p
  /\ \E c \in Children \cup {0} : ran[r] \subseteq {c}
  /\ n = 1 => ran[r] = {}

LEMMA SendKeeps ==
  ASSUME NEW r \in Requests, NEW n \in {1, 2}, NEW p, NEW a, NEW i, NEW q,
         TransportTypeOK, ~closedClient, SendReady(p, a, i, q, r, n),
         Send([rpc |-> p, alive |-> a, initialize |-> i, request |-> q], r, n),
         UNCHANGED <<closedClient, faults, ran, blame>>
  PROVE  TransportInv'
<1> USE DEF SendReady
<1>1. CASE p # 0 /\ rpc' = p /\ alive' = a /\ initialize' = i /\ connecting' = connecting
           /\ request' = [q EXCEPT ![r] = At("sent", p, n)]
  <2>1. request'[r] = At("sent", p, n) /\ \A s \in Requests \ {r} : request'[s] = q[s]
    BY <1>1
  <2>2. TransportTypeOK'
    BY <1>1 DEF TransportTypeOK, At, RequestSteps
  <2>3. OneAttempt' /\ OneChild'
    BY <1>1 DEF OneAttempt, OneChild
  <2>4. ASSUME NEW s \in Requests PROVE Traced(s)' /\ Blamed(s)'
    <3>1. CASE s = r
      BY <1>1, <2>1, <3>1 DEF Traced, Blamed, At
    <3>2. CASE s # r
      BY <1>1, <2>1, <3>2 DEF Traced, Blamed
    <3> QED
      BY <3>1, <3>2
  <2> QED
    BY <2>2, <2>3, <2>4 DEF TransportInv
<1>2. CASE p = 0 /\ connecting # 0 /\ rpc' = p /\ alive' = a /\ initialize' = i /\ connecting' = connecting
           /\ request' = [q EXCEPT ![r] = At("waiting", 0, n)]
  <2>1. request'[r] = At("waiting", 0, n) /\ \A s \in Requests \ {r} : request'[s] = q[s]
    BY <1>2
  <2>2. TransportTypeOK'
    BY <1>2 DEF TransportTypeOK, At, RequestSteps
  <2>3. OneAttempt' /\ OneChild'
    BY <1>2 DEF OneAttempt, OneChild
  <2>4. ASSUME NEW s \in Requests PROVE Traced(s)' /\ Blamed(s)'
    <3>1. CASE s = r
      BY <1>2, <2>1, <3>1 DEF Traced, Blamed, At
    <3>2. CASE s # r
      BY <1>2, <2>1, <3>2 DEF Traced, Blamed
    <3> QED
      BY <3>1, <3>2
  <2> QED
    BY <2>2, <2>3, <2>4 DEF TransportInv
<1>3. ASSUME p = 0, connecting = 0, NEW d \in Unused,
             rpc' = d, connecting' = d,
             alive' = [a EXCEPT ![d] = TRUE], initialize' = [i EXCEPT ![d] = "sent"],
             request' = [q EXCEPT ![r] = At("waiting", 0, n)]
      PROVE  TransportInv'
  <2>0. d \in Children /\ i[d] = "none" /\ d # 0
    BY <1>3, TransportAssumption DEF Unused, Children, TransportAssumption
  <2>1. request'[r] = At("waiting", 0, n) /\ \A s \in Requests \ {r} : request'[s] = q[s]
    BY <1>3
  <2>2. /\ initialize'[d] = "sent" /\ \A c \in Children \ {d} : initialize'[c] = i[c]
        /\ alive'[d] = TRUE /\ \A c \in Children \ {d} : alive'[c] = a[c]
    BY <1>3, <2>0
  <2>3. TransportTypeOK'
    BY <1>3, <2>0 DEF TransportTypeOK, At, RequestSteps
  <2>4. OneAttempt' /\ OneChild'
    <3>1. \A c \in Children \ {d} : i[c] # "sent" /\ ~a[c]
      BY <1>3, TransportAssumption DEF Children, TransportAssumption
    <3>2. OneAttempt'
      BY <1>3, <2>0, <2>2, <3>1 DEF OneAttempt
    <3>3. OneChild'
      BY <1>3, <2>0, <2>2, <3>1 DEF OneChild
    <3> QED
      BY <3>2, <3>3
  <2>5. ASSUME NEW s \in Requests PROVE Traced(s)' /\ Blamed(s)'
    <3>1. CASE s = r
      BY <1>3, <2>0, <2>1, <2>2, <3>1 DEF Traced, Blamed, At, TransportTypeOK
    <3>2. CASE s # r
      BY <1>3, <2>0, <2>1, <2>2, <3>2 DEF Traced, Blamed, TransportTypeOK
    <3> QED
      BY <3>1, <3>2
  <2> QED
    BY <2>3, <2>4, <2>5 DEF TransportInv
<1> QED
  BY SendCases, <1>1, <1>2, <1>3

-----------------------------------------------------------------------------

\* A reset of the connection: its requests are rejected, and it is gone.
LEMMA ResetState ==
  ASSUME TransportInv, rpc # 0
  PROVE  /\ AfterReset(rpc).rpc = 0
         /\ AfterReset(rpc).alive \in [Children -> BOOLEAN]
         /\ \A c \in Children : ~AfterReset(rpc).alive[c]
         /\ AfterReset(rpc).initialize \in [Children -> {"none", "sent", "failed", "done"}]
         /\ \A c \in Children :
              AfterReset(rpc).initialize[c] = IF c = rpc /\ initialize[c] = "sent" THEN "failed" ELSE initialize[c]
         /\ AfterReset(rpc).request \in [Requests -> [at : RequestSteps, child : Children \cup {0}, attempt : {1, 2}]]
         /\ \A r \in Requests :
              /\ AfterReset(rpc).request[r].child = request[r].child
              /\ AfterReset(rpc).request[r].attempt = request[r].attempt
              /\ AfterReset(rpc).request[r].at =
                   IF request[r].at = "sent" /\ request[r].child = rpc THEN "rejected" ELSE request[r].at
<1>1. rpc \in Children
  BY DEF TransportInv, TransportTypeOK
<1>2. AfterReset(rpc).request =
        [r \in Requests |-> IF r \in On(rpc) THEN [request[r] EXCEPT !.at = "rejected"] ELSE request[r]]
  BY DEF AfterReset
<1>3. AfterReset(rpc).alive = [alive EXCEPT ![rpc] = FALSE] /\ AfterReset(rpc).rpc = 0
  BY DEF AfterReset
<1>4. AfterReset(rpc).initialize = [initialize EXCEPT ![rpc] = IF @ = "sent" THEN "failed" ELSE @]
  BY DEF AfterReset
<1>5. /\ alive \in [Children -> BOOLEAN] /\ \A c \in Children : alive[c] => c = rpc
      /\ initialize \in [Children -> {"none", "sent", "failed", "done"}]
      /\ request \in [Requests -> [at : RequestSteps, child : Children \cup {0}, attempt : {1, 2}]]
  BY DEF TransportInv, TransportTypeOK, OneChild
<1>6. \A r \in Requests : r \in On(rpc) <=> request[r].at = "sent" /\ request[r].child = rpc
  BY DEF On
<1>7. \A c \in Children :
        AfterReset(rpc).initialize[c] = IF c = rpc /\ initialize[c] = "sent" THEN "failed" ELSE initialize[c]
  BY <1>1, <1>4, <1>5
<1>8. \A r \in Requests :
        /\ AfterReset(rpc).request[r] \in [at : RequestSteps, child : Children \cup {0}, attempt : {1, 2}]
        /\ AfterReset(rpc).request[r].child = request[r].child
        /\ AfterReset(rpc).request[r].attempt = request[r].attempt
        /\ AfterReset(rpc).request[r].at =
             IF request[r].at = "sent" /\ request[r].child = rpc THEN "rejected" ELSE request[r].at
  BY <1>2, <1>5, <1>6 DEF RequestSteps
<1>9. AfterReset(rpc).initialize \in [Children -> {"none", "sent", "failed", "done"}]
  BY <1>1, <1>4, <1>5
<1>10. AfterReset(rpc).alive \in [Children -> BOOLEAN] /\ \A c \in Children : ~AfterReset(rpc).alive[c]
  BY <1>1, <1>3, <1>5
<1> QED
  BY <1>2, <1>3, <1>7, <1>8, <1>9, <1>10

LEMMA ResetKeeps ==
  ASSUME TransportInv, rpc # 0, Reset(rpc), closedClient' \in BOOLEAN,
         faults' \in 0..MaxFaults, blame' \in Children \cup {0}, UNCHANGED <<connecting, ran>>
  PROVE  TransportInv'
<1>1. /\ rpc' = AfterReset(rpc).rpc /\ alive' = AfterReset(rpc).alive
      /\ initialize' = AfterReset(rpc).initialize /\ request' = AfterReset(rpc).request
  BY DEF Reset, Become
<1>2. TransportTypeOK'
  BY <1>1, ResetState DEF TransportTypeOK, TransportInv
<1>3. OneAttempt' /\ OneChild'
  BY <1>1, ResetState DEF OneAttempt, OneChild, TransportInv, TransportTypeOK
<1>4. ASSUME NEW r \in Requests PROVE Traced(r)' /\ Blamed(r)'
  <2>1. /\ request'[r].child = request[r].child /\ request'[r].attempt = request[r].attempt
        /\ request'[r].at \in {"sent", "rejected"} => request[r].at \in {"sent", "rejected"}
        /\ request'[r].at = "new" => request[r].at = "new"
        /\ request'[r].at = "waiting" => request[r].at = "waiting"
    BY <1>1, ResetState
  <2>2. \A c \in Children : initialize'[c] = "none" <=> initialize[c] = "none"
    BY <1>1, ResetState
  <2>3. Traced(r) /\ request[r].child \in Children \cup {0} /\ ran[r] \subseteq Children
    BY DEF TransportInv, TransportTypeOK
  <2>4. Traced(r)'
    BY <2>1, <2>2, <2>3 DEF Traced
  <2>5. Blamed(r)'
    BY <1>1, <2>1, <2>4, ResetState DEF Blamed, Traced
  <2> QED
    BY <2>4, <2>5
<1> QED
  BY <1>2, <1>3, <1>4 DEF TransportInv

LEMMA RequestKeeps ==
  ASSUME TransportInv, NEW r \in Requests, Request(r)
  PROVE  TransportInv'
<1>1. CASE closedClient
  <2>1. /\ request' = [request EXCEPT ![r].at = "failed"]
        /\ UNCHANGED <<rpc, connecting, alive, initialize, closedClient, faults, ran, blame>>
    BY <1>1 DEF Request
  <2> QED
    BY <2>1 DEF TransportInv, TransportTypeOK, OneAttempt, OneChild, Traced, Blamed, RequestSteps
<1>2. CASE ~closedClient
  <2>1. Send([rpc |-> rpc, alive |-> alive, initialize |-> initialize, request |-> request], r, 1)
    BY <1>2 DEF Request, Now
  <2>2. request[r].at = "new" /\ UNCHANGED <<closedClient, faults, ran, blame>>
    BY DEF Request
  <2>3. ran[r] = {} /\ \A s \in Requests : Traced(s) /\ Blamed(s)
    BY <2>2 DEF TransportInv, Traced
  <2>4. TransportTypeOK /\ OneAttempt /\ OneChild
    BY DEF TransportInv
  <2>5. SendReady(rpc, alive, initialize, request, r, 1)
    BY <2>3, <2>4 DEF SendReady, TransportTypeOK, OneAttempt, OneChild, Traced, Blamed
  <2> QED
    BY <1>2, <2>1, <2>2, <2>4, <2>5, SendKeeps
<1> QED
  BY <1>1, <1>2

\* The retry of a rejected request, which resets the connection it used if that
\* still stands: what is reset has been blamed.
LEMMA RetryKeeps ==
  ASSUME TransportInv, NEW r \in Requests, Retry(r)
  PROVE  /\ TransportInv'
         /\ \A c \in Children : alive[c] /\ ~alive'[c] => blame' = c
<1>1. /\ request[r].at = "rejected" /\ Traced(r) /\ Blamed(r)
      /\ UNCHANGED <<closedClient, faults, ran, blame>>
      /\ \A s \in Requests : Traced(s) /\ Blamed(s)
      /\ TransportTypeOK /\ OneAttempt /\ OneChild
  BY DEF Retry, TransportInv
<1>2. CASE GivesUp(r)
  <2>1. /\ request' = [request EXCEPT ![r].at = "failed"]
        /\ UNCHANGED <<rpc, connecting, alive, initialize>>
    BY <1>2 DEF Retry
  <2> QED
    BY <1>1, <2>1 DEF TransportInv, TransportTypeOK, OneAttempt, OneChild, Traced, Blamed, RequestSteps
<1>3. ASSUME ~GivesUp(r)
      PROVE  ~closedClient /\ request[r].attempt = 1 /\ ran[r] \subseteq {request[r].child}
  BY <1>1, <1>3 DEF GivesUp, TransportTypeOK, Traced
<1>4. CASE ~GivesUp(r) /\ IsCurrent(r)
  <2>1. rpc = request[r].child /\ rpc # 0 /\ blame = rpc /\ rpc \in Children
    BY <1>1, <1>4 DEF IsCurrent, Traced, Blamed, TransportTypeOK
  <2> DEFINE s == AfterReset(rpc)
  <2>2. s = [rpc |-> s.rpc, alive |-> s.alive, initialize |-> s.initialize, request |-> s.request]
    BY DEF AfterReset
  <2>3. Send([rpc |-> s.rpc, alive |-> s.alive, initialize |-> s.initialize, request |-> s.request], r, 2)
    BY <1>4, <2>2 DEF Retry
  <2>4. SendReady(s.rpc, s.alive, s.initialize, s.request, r, 2)
    <3> HIDE DEF s
    <3>1. /\ s.rpc = 0
          /\ s.alive \in [Children -> BOOLEAN]
          /\ \A c \in Children : ~s.alive[c]
          /\ s.initialize \in [Children -> {"none", "sent", "failed", "done"}]
          /\ \A c \in Children :
               s.initialize[c] = IF c = rpc /\ initialize[c] = "sent" THEN "failed" ELSE initialize[c]
          /\ s.request \in [Requests -> [at : RequestSteps, child : Children \cup {0}, attempt : {1, 2}]]
          /\ \A t \in Requests :
               /\ s.request[t].child = request[t].child
               /\ s.request[t].attempt = request[t].attempt
               /\ s.request[t].at =
                    IF request[t].at = "sent" /\ request[t].child = rpc THEN "rejected" ELSE request[t].at
      BY <2>1, ResetState DEF s
    <3>2. \A c \in Children : s.initialize[c] = "none" <=> initialize[c] = "none"
      BY <3>1
    <3>3. /\ \A c \in Children : s.initialize[c] # "sent"
          /\ connecting # 0 => s.initialize[connecting] \in {"sent", "failed"}
      BY <1>1, <3>1 DEF OneAttempt, TransportTypeOK
    <3>4. ASSUME NEW t \in Requests
          PROVE  /\ s.request[t].at = "new" => ran[t] = {}
                 /\ s.request[t].at \in {"new", "waiting"} => s.request[t].child = 0
                 /\ s.request[t].at \in {"sent", "rejected"} => s.request[t].child # 0
                 /\ s.request[t].child # 0 => s.initialize[s.request[t].child] # "none"
                 /\ \A c \in ran[t] : s.initialize[c] # "none"
                 /\ s.request[t].attempt = 1 => ran[t] \subseteq {s.request[t].child}
                 /\ \E c \in Children \cup {0} : ran[t] \subseteq {c, s.request[t].child}
                 /\ s.request[t].at = "rejected" => s.request[t].child # 0
      <4>1. Traced(t) /\ request[t].child \in Children \cup {0} /\ ran[t] \subseteq Children
        BY <1>1 DEF TransportTypeOK
      <4> QED
        BY <3>1, <3>2, <4>1 DEF Traced
    <3>5. \E c \in Children \cup {0} : ran[r] \subseteq {c}
      BY <1>3, <1>4, <2>1
    <3> QED
      BY <3>1, <3>2, <3>3, <3>4, <3>5 DEF SendReady
  <2>5. TransportInv'
    <3> HIDE DEF s
    <3> QED
      BY <1>1, <1>3, <1>4, <2>3, <2>4, SendKeeps
  <2> QED
    BY <1>1, <2>1, <2>5 DEF OneChild
<1>5. CASE ~GivesUp(r) /\ ~IsCurrent(r)
  <2>1. Send([rpc |-> rpc, alive |-> alive, initialize |-> initialize, request |-> request], r, 2)
    BY <1>5 DEF Retry, Now
  <2>2. \E c \in Children \cup {0} : ran[r] \subseteq {c}
    BY <1>1, <1>3, <1>5 DEF TransportTypeOK
  <2>3. SendReady(rpc, alive, initialize, request, r, 2)
    BY <1>1, <2>2 DEF SendReady, TransportTypeOK, OneAttempt, OneChild, Traced, Blamed
  <2>4. TransportInv'
    BY <1>1, <1>3, <1>5, <2>1, <2>3, SendKeeps
  <2>5. \A c \in Children : alive[c] => alive'[c]
    BY <1>1, <2>1, SendCases DEF TransportTypeOK
  <2> QED
    BY <2>4, <2>5
<1> QED
  BY <1>2, <1>4, <1>5

\* The answers to initialize, and what is told to those who wait for it.
LEMMA ConnectionKeeps ==
  ASSUME TransportInv, Initialized \/ ConnectFails
  PROVE  TransportInv' /\ UNCHANGED alive
<1>0. /\ \A s \in Requests : Traced(s) /\ Blamed(s)
      /\ TransportTypeOK /\ OneAttempt /\ OneChild
  BY DEF TransportInv
<1>1. CASE Initialized
  <2>1. /\ connecting \in Children /\ initialize[connecting] = "sent" /\ rpc = connecting /\ rpc # 0
        /\ initialize' = [initialize EXCEPT ![connecting] = "done"] /\ connecting' = 0
        /\ UNCHANGED <<rpc, alive, closedClient, faults, ran, blame>>
        /\ Rejected = {}
    BY <1>0, <1>1 DEF Initialized, EventMayCome, OneChild, TransportTypeOK
  <2>2. \A s \in Requests : request'[s] = IF request[s].at = "waiting"
                                          THEN [request[s] EXCEPT !.at = "sent", !.child = rpc] ELSE request[s]
    BY <1>1 DEF Initialized
  <2>3. request' \in [Requests -> [at : RequestSteps, child : Children \cup {0}, attempt : {1, 2}]]
    <3>1. request \in [Requests -> [at : RequestSteps, child : Children \cup {0}, attempt : {1, 2}]]
      BY <1>0 DEF TransportTypeOK
    <3>2. \A s \in Requests : request'[s] \in [at : RequestSteps, child : Children \cup {0}, attempt : {1, 2}]
      BY <2>1, <2>2, <3>1 DEF RequestSteps
    <3> QED
      BY <1>1, <3>2 DEF Initialized
  <2>4. TransportTypeOK'
    BY <1>0, <2>1, <2>3 DEF TransportTypeOK
  <2>5. OneAttempt' /\ OneChild'
    BY <1>0, <2>1 DEF OneAttempt, OneChild, TransportTypeOK
  <2>6. ASSUME NEW s \in Requests PROVE Traced(s)' /\ Blamed(s)'
    <3>1. Traced(s) /\ request[s].at # "rejected" /\ ran[s] \subseteq Children
          /\ request[s] \in [at : RequestSteps, child : Children \cup {0}, attempt : {1, 2}]
      BY <1>0, <2>1 DEF Rejected, TransportTypeOK
    <3>2. CASE request[s].at = "waiting"
      <4>1. request'[s].at = "sent" /\ request'[s].child = rpc /\ request'[s].attempt = request[s].attempt
        BY <2>2, <3>1, <3>2
      <4>2. request[s].child = 0 /\ 0 \notin ran[s]
        BY <3>1, <3>2, TransportAssumption DEF Traced, Children, TransportAssumption
      <4> QED
        BY <2>1, <3>1, <4>1, <4>2 DEF Traced, Blamed
    <3>3. CASE request[s].at # "waiting"
      BY <1>0, <2>1, <2>2, <3>1, <3>3 DEF Traced, Blamed, TransportTypeOK
    <3> QED
      BY <3>2, <3>3
  <2> QED
    BY <2>1, <2>4, <2>5, <2>6 DEF TransportInv
<1>2. CASE ConnectFails
  <2>1. /\ connecting' = 0 /\ initialize[connecting] = "failed" /\ connecting # 0
        /\ UNCHANGED <<rpc, alive, initialize, closedClient, faults, ran, blame>>
    BY <1>2 DEF ConnectFails, Doomed
  <2>2. \A s \in Requests : request'[s] = IF request[s].at = "waiting"
                                          THEN [request[s] EXCEPT !.at = "failed"] ELSE request[s]
    BY <1>2 DEF ConnectFails
  <2>3. request' \in [Requests -> [at : RequestSteps, child : Children \cup {0}, attempt : {1, 2}]]
    BY <1>0, <1>2 DEF ConnectFails, TransportTypeOK, RequestSteps
  <2>4. TransportTypeOK'
    BY <1>0, <2>1, <2>3 DEF TransportTypeOK
  <2>5. OneAttempt' /\ OneChild'
    BY <1>0, <2>1 DEF OneAttempt, OneChild, TransportTypeOK
  <2>6. ASSUME NEW s \in Requests PROVE Traced(s)' /\ Blamed(s)'
    <3>1. Traced(s) /\ Blamed(s) /\ request[s] \in [at : RequestSteps, child : Children \cup {0}, attempt : {1, 2}]
      BY <1>0 DEF TransportTypeOK
    <3>2. /\ request'[s].child = request[s].child /\ request'[s].attempt = request[s].attempt
          /\ request'[s].at = IF request[s].at = "waiting" THEN "failed" ELSE request[s].at
      BY <2>2, <3>1
    <3> QED
      BY <2>1, <3>1, <3>2 DEF Traced, Blamed
  <2> QED
    BY <2>1, <2>4, <2>5, <2>6 DEF TransportInv
<1> QED
  BY <1>1, <1>2

\* What the child does to one request: execute it, answer it, or not in time.
LEMMA AnswerKeeps ==
  ASSUME TransportInv, NEW r \in Requests, Execute(r) \/ Reply(r) \/ RequestTimesOut(r)
  PROVE  TransportInv' /\ UNCHANGED alive
<1>0. /\ \A s \in Requests : Traced(s) /\ Blamed(s)
      /\ TransportTypeOK /\ OneAttempt /\ OneChild
  BY DEF TransportInv
<1>1. request[r].at = "sent" /\ request[r].child \in Children /\ Rejected = {}
  BY <1>0 DEF Execute, Reply, RequestTimesOut, EventMayCome, Traced, TransportTypeOK
<1>2. CASE Execute(r)
  <2>1. /\ ran' = [ran EXCEPT ![r] = @ \cup {request[r].child}]
        /\ UNCHANGED <<rpc, connecting, alive, initialize, request, closedClient, faults, blame>>
    BY <1>2 DEF Execute
  <2>2. \A s \in Requests : ran'[s] = IF s = r THEN ran[s] \cup {request[s].child} ELSE ran[s]
    BY <1>0, <2>1 DEF TransportTypeOK
  <2> QED
    BY <1>0, <1>1, <2>1, <2>2 DEF TransportInv, TransportTypeOK, OneAttempt, OneChild, Traced, Blamed
<1>3. ASSUME NEW a \in {"answered", "failed", "rejected"},
             request' = [request EXCEPT ![r].at = a],
             UNCHANGED <<rpc, connecting, alive, initialize, closedClient, ran>>,
             faults' \in 0..MaxFaults, blame' \in Children \cup {0},
             a = "rejected" => blame' = request[r].child
      PROVE  TransportInv'
  <2>1. request \in [Requests -> [at : RequestSteps, child : Children \cup {0}, attempt : {1, 2}]]
    BY <1>0 DEF TransportTypeOK
  <2>2. \A s \in Requests : /\ request'[s].child = request[s].child /\ request'[s].attempt = request[s].attempt
                           /\ request'[s].at = IF s = r THEN a ELSE request[s].at
    BY <1>3, <2>1
  <2>3. \A s \in Requests : request[s].at # "rejected"
    BY <1>1 DEF Rejected
  <2>4. TransportTypeOK'
    BY <1>0, <1>3 DEF TransportTypeOK, RequestSteps
  <2>5. OneAttempt' /\ OneChild'
    BY <1>0, <1>3 DEF OneAttempt, OneChild
  <2>6. ASSUME NEW s \in Requests PROVE Traced(s)' /\ Blamed(s)'
    BY <1>0, <1>1, <1>3, <2>2, <2>3 DEF Traced, Blamed
  <2> QED
    BY <2>4, <2>5, <2>6 DEF TransportInv
<1>4. CASE Reply(r)
  <2>1. faults \in 0..MaxFaults /\ blame \in Children \cup {0}
    BY <1>0 DEF TransportTypeOK
  <2> QED
    BY <1>3, <1>4, <2>1 DEF Reply
<1>5. CASE RequestTimesOut(r)
  <2>1. faults' \in 0..MaxFaults /\ blame' = request[r].child
    BY <1>0, <1>5, TransportAssumption DEF RequestTimesOut, Fault, TransportTypeOK, TransportAssumption
  <2> QED
    BY <1>1, <1>3, <1>5, <2>1 DEF RequestTimesOut
<1> QED
  BY <1>2, <1>4, <1>5 DEF Execute

\* A child that exits, and connections that are reset.
LEMMA ChildKeeps ==
  ASSUME TransportInv,
         (\E c \in Children : ChildExits(c) \/ ExitNoticed(c)) \/ InitializeTimesOut \/ CloseClient
  PROVE  /\ TransportInv'
         /\ \A c \in Children : alive[c] /\ ~alive'[c] => closedClient' \/ blame' = c
<1>0. /\ \A s \in Requests : Traced(s) /\ Blamed(s) /\ request[s].at # "rejected"
      /\ TransportTypeOK /\ OneAttempt /\ OneChild
  BY DEF TransportInv, ChildExits, ExitNoticed, InitializeTimesOut, CloseClient, EventMayCome, Rejected
<1>1. ASSUME NEW c \in Children, ChildExits(c)
      PROVE  TransportInv' /\ \A d \in Children : alive[d] /\ ~alive'[d] => blame' = d
  <2>1. faults' \in 0..MaxFaults /\ blame' = c /\ alive' = [alive EXCEPT ![c] = FALSE]
        /\ UNCHANGED <<rpc, connecting, initialize, request, closedClient, ran>>
    BY <1>0, <1>1, TransportAssumption DEF ChildExits, Fault, TransportTypeOK, TransportAssumption
  <2>2. \A d \in Children : alive'[d] = IF d = c THEN FALSE ELSE alive[d]
    BY <1>0, <2>1 DEF TransportTypeOK
  <2>3. TransportTypeOK' /\ OneAttempt' /\ OneChild'
    BY <1>0, <2>1, <2>2 DEF TransportTypeOK, OneAttempt, OneChild
  <2>4. ASSUME NEW s \in Requests PROVE Traced(s)' /\ Blamed(s)'
    BY <1>0, <2>1 DEF Traced, Blamed
  <2> QED
    BY <2>1, <2>2, <2>3, <2>4 DEF TransportInv
<1>2. ASSUME rpc # 0, Reset(rpc), UNCHANGED <<connecting, ran>>, closedClient' \in BOOLEAN,
             faults' \in 0..MaxFaults, blame' \in Children \cup {0}
      PROVE  TransportInv' /\ \A d \in Children : alive[d] /\ ~alive'[d] => d = rpc
  BY <1>0, <1>2, ResetKeeps DEF OneChild
<1>3. ASSUME NEW c \in Children, ExitNoticed(c)
      PROVE  TransportInv' /\ \A d \in Children : ~alive[d]
  <2>1. rpc = c /\ c # 0 /\ Reset(rpc) /\ ~alive[c] /\ UNCHANGED <<connecting, closedClient, faults, ran, blame>>
    BY <1>3, TransportAssumption DEF ExitNoticed, Children, TransportAssumption
  <2>2. closedClient \in BOOLEAN /\ faults \in 0..MaxFaults /\ blame \in Children \cup {0}
    BY <1>0 DEF TransportTypeOK
  <2> QED
    BY <1>0, <1>2, <2>1, <2>2 DEF OneChild
<1>4. CASE InitializeTimesOut
  <2>1. faults' \in 0..MaxFaults /\ blame' = rpc /\ rpc # 0 /\ rpc \in Children /\ Reset(rpc)
        /\ UNCHANGED <<connecting, closedClient, ran>>
    BY <1>0, <1>4, TransportAssumption DEF InitializeTimesOut, Fault, TransportTypeOK, TransportAssumption
  <2>2. closedClient \in BOOLEAN
    BY <1>0 DEF TransportTypeOK
  <2> QED
    BY <1>2, <2>1, <2>2
<1>5. CASE CloseClient
  <2>1. closedClient' = TRUE /\ UNCHANGED <<connecting, faults, ran, blame>>
        /\ faults \in 0..MaxFaults /\ blame \in Children \cup {0}
    BY <1>0, <1>5 DEF CloseClient, TransportTypeOK
  <2>2. CASE rpc # 0
    <3>1. Reset(rpc)
      BY <1>5, <2>2 DEF CloseClient
    <3> QED
      BY <1>2, <2>1, <2>2, <3>1
  <2>3. CASE rpc = 0
    <3>1. UNCHANGED <<rpc, alive, initialize, request>>
      BY <1>5, <2>3 DEF CloseClient
    <3> QED
      BY <1>0, <2>1, <2>3, <3>1 DEF TransportInv, TransportTypeOK, OneAttempt, OneChild, Traced, Blamed
  <2> QED
    BY <2>1, <2>2, <2>3
<1> QED
  BY <1>1, <1>3, <1>4, <1>5

LEMMA TransportStep ==
  ASSUME TransportInv, TransportNext
  PROVE  /\ TransportInv'
         /\ \A c \in Children : alive[c] /\ ~alive'[c] => closedClient' \/ blame' = c
<1>1. ASSUME NEW r \in Requests, Request(r)
      PROVE  TransportInv' /\ \A c \in Children : alive[c] => alive'[c]
  <2>1. CASE closedClient
    BY <1>1, <2>1, RequestKeeps DEF Request
  <2>2. CASE ~closedClient
    <3>1. Send([rpc |-> rpc, alive |-> alive, initialize |-> initialize, request |-> request], r, 1)
      BY <1>1, <2>2 DEF Request, Now
    <3>2. \A c \in Children : alive[c] => alive'[c]
      BY <3>1, SendCases DEF TransportInv, TransportTypeOK
    <3> QED
      BY <1>1, <3>2, RequestKeeps
  <2> QED
    BY <2>1, <2>2
<1>2. ASSUME NEW r \in Requests, Retry(r) PROVE TransportInv' /\ \A c \in Children : alive[c] /\ ~alive'[c] => blame' = c
  BY <1>2, RetryKeeps
<1>3. ASSUME NEW r \in Requests, Execute(r) \/ Reply(r) \/ RequestTimesOut(r) PROVE TransportInv' /\ UNCHANGED alive
  BY <1>3, AnswerKeeps
<1>4. CASE Initialized \/ ConnectFails
  BY <1>4, ConnectionKeeps
<1>5. CASE (\E c \in Children : ChildExits(c) \/ ExitNoticed(c)) \/ InitializeTimesOut \/ CloseClient
  BY <1>5, ChildKeeps
<1> QED
  BY <1>1, <1>2, <1>3, <1>4, <1>5 DEF TransportNext, Progress, Connection

LEMMA TransportStutters == TransportInv /\ UNCHANGED transportVars => TransportInv'
BY DEF TransportInv, TransportTypeOK, OneAttempt, OneChild, Traced, Blamed, transportVars

LEMMA TransportStarts == TransportInit => TransportInv
<1> SUFFICES ASSUME TransportInit PROVE TransportInv
  OBVIOUS
<1>1. TransportTypeOK
  <2>1. \A c \in Children : alive[c] = FALSE /\ initialize[c] = "none"
    BY DEF TransportInit
  <2>2. /\ alive \in [Children -> BOOLEAN]
        /\ initialize \in [Children -> {"none", "sent", "failed", "done"}]
        /\ request \in [Requests -> [at : RequestSteps, child : Children \cup {0}, attempt : {1, 2}]]
        /\ ran \in [Requests -> SUBSET Children]
    BY <2>1 DEF TransportInit, RequestSteps
  <2>3. faults \in 0..MaxFaults
    BY TransportAssumption DEF TransportInit, TransportAssumption
  <2> QED
    BY <2>2, <2>3 DEF TransportInit, TransportTypeOK
<1>2. OneAttempt /\ OneChild
  BY DEF TransportInit, OneAttempt, OneChild
<1>3. ASSUME NEW r \in Requests PROVE Traced(r) /\ Blamed(r)
  <2>1. request[r].at = "new" /\ request[r].child = 0 /\ ran[r] = {}
    BY DEF TransportInit
  <2> QED
    BY <2>1 DEF Traced, Blamed
<1> QED
  BY <1>1, <1>2, <1>3 DEF TransportInv

LEMMA OneAtMost ==
  ASSUME NEW x, NEW S, S \subseteq {x}
  PROVE  Cardinality(S) <= 1
<1>1. IsFiniteSet({x}) /\ Cardinality({x}) = 1
  BY FS_Singleton
<1>2. Cardinality(S) <= Cardinality({x})
  BY <1>1, FS_Subset
<1>3. IsFiniteSet(S) /\ Cardinality(S) \in Nat
  BY <1>1, FS_Subset, FS_CardinalityType
<1> QED
  BY <1>1, <1>2, <1>3

LEMMA TwoAtMost ==
  ASSUME NEW x, NEW y, NEW S, S \subseteq {x, y}
  PROVE  Cardinality(S) <= 2
<1>1. IsFiniteSet({x}) /\ Cardinality({x}) = 1 /\ {x} \cup {y} = {x, y}
  BY FS_Singleton
<1>2. IsFiniteSet({x, y}) /\ Cardinality({x, y}) \in {1, 2}
  BY <1>1, FS_AddElement
<1>3. Cardinality(S) <= Cardinality({x, y}) /\ Cardinality(S) \in Nat
  BY <1>2, FS_Subset, FS_CardinalityType
<1> QED
  BY <1>2, <1>3

\* Only children that were started have executed a request, at most one for each
\* of its two attempts, and only the connection runs.
LEMMA TransportInvServes == TransportInv => OneChildServes
<1> SUFFICES ASSUME TransportInv PROVE NoOrphanChild /\ RunsAgainOnlyAfterLoss
  BY DEF OneChildServes
<1>1. NoOrphanChild
  BY TransportAssumption DEF NoOrphanChild, TransportInv, OneChild, Children, TransportAssumption
<1>2. ASSUME NEW r \in Requests
      PROVE  /\ Cardinality(ran[r]) <= 2
             /\ Cardinality({c \in ran[r] : alive[c]}) <= 1
             /\ request[r].attempt = 1 => Cardinality(ran[r]) <= 1
  <2>1. Traced(r) /\ ran[r] \subseteq Children
    BY DEF TransportInv, TransportTypeOK
  <2>2. PICK c \in Children \cup {0} : ran[r] \subseteq {c, request[r].child}
    BY <2>1 DEF Traced
  <2>3. ASSUME NEW S, S \subseteq {c, request[r].child} PROVE Cardinality(S) <= 2
    BY <2>3, TwoAtMost
  <2>4. Cardinality(ran[r]) <= 2
    BY <2>2, <2>3
  <2>5. {d \in ran[r] : alive[d]} \subseteq {rpc}
    BY <2>1 DEF TransportInv, OneChild
  <2>6. Cardinality({d \in ran[r] : alive[d]}) <= 1
    BY <2>5, OneAtMost
  <2>7. request[r].attempt = 1 => ran[r] \subseteq {request[r].child}
    BY <2>1 DEF Traced
  <2> QED
    BY <2>4, <2>6, <2>7, OneAtMost
<1> QED
  BY <1>1, <1>2 DEF RunsAgainOnlyAfterLoss

-----------------------------------------------------------------------------

\* The states of the transport are of their types, however requests, exits,
\* timeouts, retries and close come together.
THEOREM TransportTyped == TransportSpec => []TransportTypeOK
<1>1. TransportInv /\ [TransportNext]_transportVars => TransportInv'
  BY TransportStep, TransportStutters
<1>2. TransportInv => TransportTypeOK
  BY DEF TransportInv
<1> QED
  BY <1>1, <1>2, TransportStarts, PTL DEF TransportSpec

\* The client leaves no process behind, and a request is executed again at most
\* once, never while the process that executed it first is running.
THEOREM OneChildHolds == TransportSpec => []OneChildServes
<1>1. TransportInv /\ [TransportNext]_transportVars => TransportInv'
  BY TransportStep, TransportStutters
<1> QED
  BY <1>1, TransportInvServes, TransportStarts, PTL DEF TransportSpec

\* A running child is stopped only by its own exit or timeout, or by close: what
\* a request learns late of an older connection does not touch a newer one.
THEOREM LateFailuresSpare == TransportSpec => LateFailureSparesNewer
<1>1. TransportInv /\ [TransportNext]_transportVars => TransportInv'
  BY TransportStep, TransportStutters
<1>2. TransportInv /\ [TransportNext]_transportVars =>
        [\A c \in Children : alive[c] /\ ~alive'[c] => closedClient' \/ blame' = c]_transportVars
  BY TransportStep
<1> QED
  BY <1>1, <1>2, TransportStarts, PTL DEF TransportSpec, LateFailureSparesNewer

-----------------------------------------------------------------------------
(* The updates: the installer that is offered and the one that runs are       *)
(* whole, and a phase that disables the button has a call that ends it        *)

Calls == [step : {"idle", "access", "check", "nested", "prepare", "fetch", "write", "rename"},
          version : Versions \cup {0}, inode : Inodes \cup {0}, got : 0..Blocks, wants : BOOLEAN]

\* The calls that have a file open.
Writing == {w \in Workers : Step(w) \in {"write", "rename"}}

\* A call that downloads knows its version, and one that writes its file; one
\* that has received everything renames.
Held ==
  \A w \in Workers :
    /\ Step(w) \in {"prepare", "fetch", "write", "rename"} => worker[w].version \in Versions
    /\ Step(w) \in {"write", "rename"} => worker[w].inode \in Inodes
    /\ Step(w) \in {"prepare", "fetch"} => worker[w].got = 0
    /\ Step(w) = "rename" => worker[w].got = Blocks

\* The one that opened the .partial file last is still at work on it, and what it
\* has received since is in the file.  (A file opened for writing is emptied, and
\* whoever ends takes the name away.)
WrittenBy(v, w) ==
  /\ Step(w) \in {"write", "rename"} /\ worker[w].version = v /\ worker[w].inode = partial[v]
  /\ 1..worker[w].got \subseteq blocks[partial[v]]
Fresh == Running => \A v \in Versions : partial[v] # 0 => \E w \in Workers : WrittenBy(v, w)

\* A file has one .partial name.
OneName == \A u, v \in Versions : partial[u] # 0 /\ partial[u] = partial[v] => u = v

\* The file that is offered is whole once nobody has a file open.
Offered ==
  /\ phase = "downloaded" => downloaded \in Versions
  /\ phase = "downloaded" /\ Running /\ Writing = {} => Whole(downloaded)
  /\ phase = "downloaded" /\ ~shared => Whole(downloaded)

\* Two at work, or one at work on a file that is offered, have been noted.
Alone ==
  ~shared => /\ \A w, x \in Downloading : w = x
             /\ phase = "downloaded" => Downloading = {}

\* The file the installer was started for stays whole while nobody downloads.
Handed ==
  /\ installer \in {"checked", "spawned"} /\ ~late => target \in Versions /\ Whole(target) /\ Downloading = {}
  /\ installer = "broken" => late

\* Once the application has quit nothing happens any more.
Rested == ~Running => press = "none" /\ \A w \in Workers : worker[w] = Resting

UpdatesInv ==
  /\ UpdatesTypeOK /\ Held /\ Fresh /\ OneName /\ Offered /\ Alone /\ Handed /\ Rested /\ PhaseHasItsWorker

-----------------------------------------------------------------------------
(* How one call of the update manager goes on *)

Becomes(w, r) ==
  /\ worker' \in [Workers -> Calls] /\ worker'[w] = r
  /\ \A x \in Workers \ {w} : worker'[x] = worker[x]

LEMMA CallTypes == UpdatesTypeOK => worker \in [Workers -> Calls]
BY DEF UpdatesTypeOK, Calls

LEMMA OneBecomes ==
  ASSUME UpdatesTypeOK, NEW w \in Workers, NEW r \in Calls, worker' = [worker EXCEPT ![w] = r]
  PROVE  Becomes(w, r)
BY CallTypes DEF Becomes

LEMMA RestingCalls == UpdatesAssumption => Resting \in Calls
BY DEF Resting, Calls, UpdatesAssumption

LEMMA EndBecomes ==
  ASSUME UpdatesTypeOK, NEW w \in Workers, Ends(w)
  PROVE  Becomes(w, Resting)
BY UpdatesAssumption, RestingCalls, OneBecomes DEF Ends

LEMMA Counted ==
  ASSUME NEW w \in Workers, NEW r, Becomes(w, r)
  PROVE  /\ Downloading' = IF r.step \in {"prepare", "fetch", "write", "rename"}
                           THEN Downloading \cup {w} ELSE Downloading \ {w}
         /\ Writing' = IF r.step \in {"write", "rename"} THEN Writing \cup {w} ELSE Writing \ {w}
BY DEF Downloading, Writing, Step, Becomes

\* Before the application has quit the calls are not resting.
LEMMA NotResting ==
  ASSUME UpdatesInv, NEW w \in Workers, Step(w) # "idle"
  PROVE  Running
BY DEF UpdatesInv, Rested, Step, Resting

-----------------------------------------------------------------------------
(* Calls that begin, go on or end without a file: check and the way into *)
(* download                                                              *)

WithoutFile == {"idle", "access", "check", "nested"}

Turns(w, r) ==
  /\ w \in Workers /\ Step(w) \in WithoutFile /\ Running /\ r \in Calls /\ Becomes(w, r)
  /\ UNCHANGED <<partial, final, blocks, installer, target, stuck>>
  /\ downloaded' \in Versions \cup {0} /\ artifact' \in Versions \cup {0} /\ autoUpdate' \in BOOLEAN
  /\ press' \in {"none", "check", "download", "install"} /\ checks' \in 0..MaxChecks
  /\ \/ /\ r.step = "prepare" /\ r.version \in Versions /\ r.got = 0 /\ phase' = "downloading"
        /\ shared' = (shared \/ Downloading \ {w} # {}) /\ late' = (late \/ installer # "idle")
     \/ r.step \in {"check", "nested"} /\ phase' = "checking" /\ UNCHANGED <<shared, late>>
     \/ /\ r.step = "idle" /\ phase' \in {"unsupported", "up-to-date", "available", "error"}
        /\ UNCHANGED <<shared, late>>
     \/ /\ r.step \in {"idle", "access"} /\ Step(w) \in {"idle", "access"}
        /\ UNCHANGED <<phase, downloaded, shared, late>>

LEMMA TurnsKeep ==
  ASSUME UpdatesInv, NEW w, NEW r, Turns(w, r)
  PROVE  UpdatesInv'
<1> w \in Workers /\ r \in Calls /\ Becomes(w, r)
  BY DEF Turns
<1> r.step \in {"idle", "access", "check", "nested", "prepare"}
  BY DEF Turns
<1>a. /\ worker'[w] = r /\ worker' \in [Workers -> Calls]
      /\ \A x \in Workers \ {w} : worker'[x] = worker[x]
  BY DEF Becomes
<1>b. Writing' = Writing
  BY Counted DEF Turns, WithoutFile, Writing
<1>c. Downloading' = IF r.step = "prepare" THEN Downloading \cup {w} ELSE Downloading
  BY Counted DEF Turns, WithoutFile, Downloading
<1>r. Running /\ Running'
  BY DEF Turns, Running
<1>1. UpdatesTypeOK'
  <2>1. phase' \in Phases
    BY DEF Turns, Phases, UpdatesInv, UpdatesTypeOK
  <2>2. shared' \in BOOLEAN /\ late' \in BOOLEAN
    BY DEF Turns, UpdatesInv, UpdatesTypeOK
  <2> QED
    BY <1>a, <2>1, <2>2 DEF Turns, UpdatesInv, UpdatesTypeOK, Calls
<1>2. Held'
  BY <1>a DEF Held, UpdatesInv, Turns, Step
<1>3. Fresh'
  <2> SUFFICES ASSUME NEW v \in Versions, partial[v] # 0
               PROVE  \E x \in Workers : WrittenBy(v, x)'
    BY DEF Fresh, Turns
  <2>1. PICK x \in Workers : WrittenBy(v, x)
    BY <1>r DEF UpdatesInv, Fresh
  <2>2. x # w
    BY <2>1 DEF WrittenBy, Turns, WithoutFile
  <2>3. worker'[x] = worker[x] /\ UNCHANGED <<partial, blocks>>
    BY <1>a, <2>2 DEF Turns
  <2> QED
    BY <2>1, <2>3 DEF WrittenBy, Step
<1>4. OneName'
  BY DEF OneName, UpdatesInv, Turns
<1>5. Offered'
  BY <1>b, <1>r DEF Offered, UpdatesInv, Turns, Whole
<1>6. Alone'
  <2>1. CASE r.step = "prepare"
    BY <1>c, <2>1 DEF Alone, Turns
  <2>2. CASE r.step # "prepare"
    BY <1>c, <2>2 DEF Alone, UpdatesInv, Turns
  <2> QED
    BY <2>1, <2>2
<1>7. Handed'
  <2>1. CASE r.step = "prepare"
    BY <1>c, <2>1 DEF Handed, UpdatesInv, Turns
  <2>2. CASE r.step # "prepare"
    BY <1>c, <2>2 DEF Handed, UpdatesInv, Turns, Whole
  <2> QED
    BY <2>1, <2>2
<1>8. Rested'
  BY <1>r DEF Rested
<1>9. PhaseHasItsWorker'
  <2>1. CASE r.step = "prepare"
    BY <1>c, <2>1 DEF PhaseHasItsWorker, Turns
  <2>2. CASE r.step \in {"check", "nested"}
    BY <1>a, <2>2 DEF PhaseHasItsWorker, Turns, Step
  <2>3. CASE r.step \in {"idle", "access"} /\ phase' \in {"unsupported", "up-to-date", "available", "error"}
    BY <2>3 DEF PhaseHasItsWorker
  <2>4. CASE r.step \in {"idle", "access"} /\ Step(w) \in {"idle", "access"} /\ phase' = phase
    BY <1>a, <1>c, <1>r, <2>4 DEF PhaseHasItsWorker, UpdatesInv, Turns, Step
  <2> QED
    BY <2>1, <2>2, <2>3, <2>4 DEF Turns
<1> QED
  BY <1>1, <1>2, <1>3, <1>4, <1>5, <1>6, <1>7, <1>8, <1>9 DEF UpdatesInv

\* What may come of a call of download that has no file to offer.
LEMMA DownloadTurns ==
  ASSUME UpdatesInv, NEW w \in Workers, Step(w) \in {"idle", "access"}, Running, Download(w),
         UNCHANGED <<downloaded, artifact, autoUpdate, partial, final, blocks, installer, target, stuck>>,
         press' \in {"none", "check", "download", "install"}, checks' \in 0..MaxChecks
  PROVE  \E r : Turns(w, r)
<1>t. UpdatesTypeOK
  BY DEF UpdatesInv
<1>u. /\ downloaded' \in Versions \cup {0} /\ artifact' \in Versions \cup {0} /\ autoUpdate' \in BOOLEAN
  BY <1>t DEF UpdatesTypeOK
<1>1. CASE artifact = 0 /\ phase \in {"checking", "downloading", "installing"}
  <2>1. Becomes(w, Resting) /\ Resting \in Calls /\ Resting.step = "idle"
    BY <1>1, <1>t, EndBecomes, RestingCalls, UpdatesAssumption DEF Download, Resting
  <2>2. UNCHANGED <<phase, shared, late>>
    BY <1>1 DEF Download
  <2> QED
    BY <1>u, <2>1, <2>2 DEF Turns, WithoutFile
<1>2. CASE artifact = 0 /\ phase \notin {"checking", "downloading", "installing"}
  <2> DEFINE r == [Resting EXCEPT !.step = "nested"]
  <2>1. r \in Calls /\ r.step = "nested"
    BY RestingCalls, UpdatesAssumption DEF Calls, Resting
  <2>2. worker' = [worker EXCEPT ![w] = r] /\ phase' = "checking" /\ UNCHANGED <<shared, late>>
    BY <1>2 DEF Download
  <2>3. Becomes(w, r)
    BY <1>t, <2>1, <2>2, OneBecomes
  <2> QED
    BY <1>u, <2>1, <2>2, <2>3 DEF Turns, WithoutFile
<1>3. CASE artifact # 0
  <2> DEFINE r == [Resting EXCEPT !.step = "prepare", !.version = artifact]
  <2>0. artifact \in Versions
    BY <1>3, <1>t DEF UpdatesTypeOK
  <2>1. r \in Calls /\ r.step = "prepare" /\ r.version = artifact /\ r.got = 0
    BY <2>0, RestingCalls, UpdatesAssumption DEF Calls, Resting
  <2>2. /\ worker' = [worker EXCEPT ![w] = r] /\ phase' = "downloading"
        /\ shared' = (shared \/ Downloading \ {w} # {}) /\ late' = (late \/ installer # "idle")
    BY <1>3 DEF Download, BeginDownload
  <2>3. Becomes(w, r)
    BY <1>t, <2>1, <2>2, OneBecomes
  <2> QED
    BY <1>u, <2>0, <2>1, <2>2, <2>3 DEF Turns, WithoutFile
<1> QED
  BY <1>1, <1>2, <1>3

LEMMA CheckTurns ==
  ASSUME UpdatesInv, NEW w \in Workers, NEW wants \in BOOLEAN, Step(w) = "idle", Running, BeginCheck(w, wants),
         UNCHANGED <<downloaded, artifact, autoUpdate, partial, final, blocks, installer, target, shared, late, stuck>>,
         press' \in {"none", "check", "download", "install"}, checks' \in 0..MaxChecks
  PROVE  UpdatesInv'
<1>t. UpdatesTypeOK
  BY DEF UpdatesInv
<1>u. /\ downloaded' \in Versions \cup {0} /\ artifact' \in Versions \cup {0} /\ autoUpdate' \in BOOLEAN
  BY <1>t DEF UpdatesTypeOK
<1>1. CASE phase \in {"checking", "downloading", "installing"}
  <2>1. worker[w] \in Calls /\ worker' = worker /\ phase' = phase
    BY <1>1, <1>t, CallTypes DEF BeginCheck
  <2>2. Becomes(w, worker[w])
    BY <2>1, <1>t, CallTypes DEF Becomes
  <2>3. Turns(w, worker[w])
    BY <1>u, <2>1, <2>2 DEF Turns, WithoutFile, Step
  <2> QED
    BY <2>3, TurnsKeep
<1>2. CASE phase \notin {"checking", "downloading", "installing"}
  <2> DEFINE r == [Resting EXCEPT !.step = "check", !.wants = wants]
  <2>1. r \in Calls /\ r.step = "check"
    BY RestingCalls, UpdatesAssumption DEF Calls, Resting
  <2>2. worker' = [worker EXCEPT ![w] = r] /\ phase' = "checking"
    BY <1>2 DEF BeginCheck
  <2>3. Becomes(w, r)
    BY <1>t, <2>1, <2>2, OneBecomes
  <2>4. Turns(w, r)
    BY <1>u, <2>1, <2>2, <2>3 DEF Turns, WithoutFile
  <2> QED
    BY <2>4, TurnsKeep
<1> QED
  BY <1>1, <1>2

LEMMA ChecksCount ==
  ASSUME UpdatesTypeOK, checks < MaxChecks
  PROVE  checks + 1 \in 0..MaxChecks
BY UpdatesAssumption DEF UpdatesTypeOK, UpdatesAssumption

LEMMA TimedCheckKeeps ==
  ASSUME UpdatesInv, NEW w \in Workers, TimedCheck(w)
  PROVE  UpdatesInv'
<1>1. checks' \in 0..MaxChecks /\ press' \in {"none", "check", "download", "install"}
  BY ChecksCount DEF UpdatesInv, TimedCheck, UpdatesTypeOK
<1> QED
  BY <1>1, CheckTurns DEF TimedCheck

LEMMA CheckByWindowKeeps ==
  ASSUME UpdatesInv, NEW w \in Workers, CheckByWindow(w)
  PROVE  UpdatesInv'
<1>1. checks' \in 0..MaxChecks
  BY ChecksCount DEF UpdatesInv, CheckByWindow
<1>2. Running
  BY DEF CheckByWindow, UpdatesInv, Rested
<1> QED
  BY <1>1, <1>2, CheckTurns DEF CheckByWindow

LEMMA DownloadByWindowKeeps ==
  ASSUME UpdatesInv, NEW w \in Workers, DownloadByWindow(w)
  PROVE  UpdatesInv'
<1>t. UpdatesTypeOK
  BY DEF UpdatesInv
<1>1. checks' \in 0..MaxChecks
  BY <1>t, ChecksCount DEF DownloadByWindow
<1>2. Running
  BY DEF DownloadByWindow, UpdatesInv, Rested
<1>3. CASE phase = "downloaded" /\ downloaded # 0
  <2> DEFINE r == [Resting EXCEPT !.step = "access", !.version = downloaded]
  <2>1. r \in Calls /\ r.step = "access"
    BY <1>t, RestingCalls, UpdatesAssumption DEF Calls, Resting, UpdatesTypeOK
  <2>2. worker' = [worker EXCEPT ![w] = r] /\ UNCHANGED <<phase, shared, late>>
    BY <1>3 DEF DownloadByWindow
  <2>3. Becomes(w, r)
    BY <1>t, <2>1, <2>2, OneBecomes
  <2>4. Turns(w, r)
    BY <1>1, <1>2, <1>t, <2>1, <2>2, <2>3 DEF Turns, WithoutFile, DownloadByWindow, UpdatesTypeOK
  <2> QED
    BY <2>4, TurnsKeep
<1>4. CASE ~(phase = "downloaded" /\ downloaded # 0)
  <2>1. \E r : Turns(w, r)
    BY <1>1, <1>2, <1>4, DownloadTurns DEF DownloadByWindow
  <2> QED
    BY <2>1, TurnsKeep
<1> QED
  BY <1>3, <1>4

LEMMA AccessDoneKeeps ==
  ASSUME UpdatesInv, NEW w \in Workers, AccessDone(w)
  PROVE  UpdatesInv'
<1>t. UpdatesTypeOK
  BY DEF UpdatesInv
<1>1. /\ checks' \in 0..MaxChecks /\ press' \in {"none", "check", "download", "install"}
      /\ downloaded' \in Versions \cup {0} /\ artifact' \in Versions \cup {0} /\ autoUpdate' \in BOOLEAN
  BY <1>t DEF AccessDone, UpdatesTypeOK
<1>2. Running
  BY NotResting DEF AccessDone
<1>3. CASE final[worker[w].version] # 0
  <2>1. Becomes(w, Resting) /\ Resting \in Calls /\ Resting.step = "idle"
    BY <1>3, <1>t, EndBecomes, RestingCalls, UpdatesAssumption DEF AccessDone, Resting
  <2>2. Turns(w, Resting)
    BY <1>1, <1>2, <1>3, <2>1 DEF Turns, WithoutFile, AccessDone
  <2> QED
    BY <2>2, TurnsKeep
<1>4. CASE ~(final[worker[w].version] # 0)
  <2>1. \E r : Turns(w, r)
    BY <1>1, <1>2, <1>4, DownloadTurns DEF AccessDone
  <2> QED
    BY <2>1, TurnsKeep
<1> QED
  BY <1>3, <1>4

LEMMA ManifestArrivedKeeps ==
  ASSUME UpdatesInv, NEW w \in Workers, ManifestArrived(w)
  PROVE  UpdatesInv'
<1>t. UpdatesTypeOK
  BY DEF UpdatesInv
<1>1. /\ checks' \in 0..MaxChecks /\ press' \in {"none", "check", "download", "install"}
      /\ downloaded' \in Versions \cup {0} /\ artifact' \in Versions \cup {0} /\ autoUpdate' \in BOOLEAN
      /\ UNCHANGED <<partial, final, blocks, installer, target, stuck>>
  BY <1>t DEF ManifestArrived, UpdatesTypeOK, Fails
<1>2. Running
  BY NotResting DEF ManifestArrived
<1>3. Step(w) \in WithoutFile
  BY DEF ManifestArrived, WithoutFile
<1>4. ASSUME Ends(w), UNCHANGED <<shared, late>>,
             phase' \in {"unsupported", "up-to-date", "available", "error"}
      PROVE  UpdatesInv'
  <2>1. Becomes(w, Resting) /\ Resting \in Calls /\ Resting.step = "idle"
    BY <1>4, <1>t, EndBecomes, RestingCalls, UpdatesAssumption DEF Resting
  <2>2. Turns(w, Resting)
    BY <1>1, <1>2, <1>3, <1>4, <2>1 DEF Turns
  <2> QED
    BY <2>2, TurnsKeep
<1>5. ASSUME NEW v \in Versions, BeginDownload(w, v)
      PROVE  UpdatesInv'
  <2> DEFINE r == [Resting EXCEPT !.step = "prepare", !.version = v]
  <2>1. r \in Calls /\ r.step = "prepare" /\ r.version = v /\ r.got = 0
    BY RestingCalls, UpdatesAssumption DEF Calls, Resting
  <2>2. /\ worker' = [worker EXCEPT ![w] = r] /\ phase' = "downloading"
        /\ shared' = (shared \/ Downloading \ {w} # {}) /\ late' = (late \/ installer # "idle")
    BY <1>5 DEF BeginDownload
  <2>3. Becomes(w, r)
    BY <1>t, <2>1, <2>2, OneBecomes
  <2>4. Turns(w, r)
    BY <1>1, <1>2, <1>3, <2>1, <2>2, <2>3 DEF Turns
  <2> QED
    BY <2>4, TurnsKeep
<1> QED
  BY <1>4, <1>5 DEF ManifestArrived, Fails

-----------------------------------------------------------------------------
(* The download itself *)

LEMMA PreparedKeeps ==
  ASSUME UpdatesInv, NEW w \in Workers, Prepared(w)
  PROVE  UpdatesInv'
<1> DEFINE v == worker[w].version
           next == [worker[w] EXCEPT !.step = "fetch"]
<1>t. UpdatesTypeOK /\ worker \in [Workers -> Calls]
  BY CallTypes DEF UpdatesInv
<1>v. v \in Versions
  BY DEF UpdatesInv, Held, Prepared
<1>r. Running /\ Running'
  BY NotResting DEF Prepared, Running
<1>p. partial' \in [Versions -> Inodes \cup {0}] /\ \A u \in Versions : partial'[u] \in {0, partial[u]}
  BY <1>t DEF Prepared, UpdatesTypeOK
<1>b. PICK r \in {Resting, next} : Becomes(w, r) /\ (r = Resting => stuck')
  <2>1. next \in Calls
    BY <1>t DEF Calls
  <2>2. CASE Ends(w) /\ stuck'
    BY <1>t, <2>2, EndBecomes
  <2>3. CASE worker' = [worker EXCEPT ![w].step = "fetch"]
    <3>1. worker' = [worker EXCEPT ![w] = next]
      BY <1>t, <2>3 DEF Calls
    <3>2. next # Resting
      BY <1>t DEF Resting, Calls
    <3> QED
      BY <1>t, <2>1, <3>1, <3>2, OneBecomes
  <2> QED
    BY <2>2, <2>3 DEF Prepared
<1>s. r.step \in {"idle", "fetch"} /\ (r.step = "idle" => stuck') /\ r.version \in Versions \cup {0}
      /\ (r.step = "fetch" => r.version = v /\ r.got = 0)
  <2>1. worker[w].got = 0
    BY DEF UpdatesInv, Held, Prepared
  <2> QED
    BY <1>b, <1>t, <1>v, <2>1 DEF Calls, Resting
<1>a. /\ worker'[w] = r /\ worker' \in [Workers -> Calls]
      /\ \A x \in Workers \ {w} : worker'[x] = worker[x]
  BY <1>b DEF Becomes
<1>c. Writing' = Writing /\ (Downloading' = Downloading \/ Downloading' = Downloading \ {w})
  BY <1>b, <1>s, Counted DEF Prepared, Writing, Downloading
<1>d. /\ UNCHANGED <<phase, downloaded, artifact, autoUpdate, final, blocks, installer, target, press, checks,
                     shared, late>>
      /\ stuck' \in BOOLEAN /\ (stuck => stuck')
  BY <1>t DEF Prepared, UpdatesTypeOK
<1>1. UpdatesTypeOK'
  BY <1>a, <1>d, <1>p, <1>t DEF UpdatesTypeOK, Calls
<1>2. Held'
  BY <1>a, <1>s, <1>v DEF Held, UpdatesInv, Step
<1>3. Fresh'
  <2> SUFFICES ASSUME NEW u \in Versions, partial'[u] # 0
               PROVE  \E x \in Workers : WrittenBy(u, x)'
    BY DEF Fresh
  <2>1. partial'[u] = partial[u]
    BY <1>p
  <2>2. PICK x \in Workers : WrittenBy(u, x)
    BY <1>r, <2>1 DEF UpdatesInv, Fresh
  <2>3. worker'[x] = worker[x]
    BY <1>a, <2>2 DEF WrittenBy, Prepared
  <2> QED
    BY <1>d, <2>1, <2>2, <2>3 DEF WrittenBy, Step
<1>4. OneName'
  BY <1>p DEF OneName, UpdatesInv
<1>5. Offered'
  BY <1>c, <1>d, <1>r DEF Offered, UpdatesInv, Whole
<1>6. Alone'
  BY <1>c, <1>d DEF Alone, UpdatesInv
<1>7. Handed'
  BY <1>c, <1>d DEF Handed, UpdatesInv, Whole
<1>8. Rested'
  BY <1>r DEF Rested
<1>9. PhaseHasItsWorker'
  <2>1. phase = "checking" => \E x \in Workers : Step(x)' \in {"check", "nested"}
    BY <1>a, <1>r DEF PhaseHasItsWorker, UpdatesInv, Step, Prepared
  <2>2. r.step = "fetch" => Downloading' # {}
    BY <1>b, Counted
  <2> QED
    BY <1>d, <1>s, <2>1, <2>2 DEF PhaseHasItsWorker
<1> QED
  BY <1>1, <1>2, <1>3, <1>4, <1>5, <1>6, <1>7, <1>8, <1>9 DEF UpdatesInv

\* A download that ends takes its .partial name away and reports the error.
LEMMA FailureKeeps ==
  ASSUME UpdatesInv, NEW w \in Workers, Step(w) \in {"fetch", "write", "rename"}, Fails(w),
         partial' = [partial EXCEPT ![worker[w].version] = 0],
         UNCHANGED <<downloaded, artifact, autoUpdate, final, blocks, installer, target, press, checks, shared,
                     late, stuck>>
  PROVE  UpdatesInv'
<1>t. UpdatesTypeOK /\ worker \in [Workers -> Calls]
  BY CallTypes DEF UpdatesInv
<1>r. Running /\ Running'
  BY NotResting DEF Running
<1>b. Becomes(w, Resting) /\ Resting.step = "idle"
  BY <1>t, EndBecomes DEF Fails, Resting
<1>a. /\ worker'[w] = Resting /\ worker' \in [Workers -> Calls]
      /\ \A x \in Workers \ {w} : worker'[x] = worker[x]
  BY <1>b DEF Becomes
<1>c. Downloading' = Downloading \ {w}
  BY <1>b, Counted
<1>v. worker[w].version \in Versions
  BY DEF UpdatesInv, Held
<1>p. /\ partial' \in [Versions -> Inodes \cup {0}] /\ partial'[worker[w].version] = 0
      /\ \A u \in Versions : u # worker[w].version => partial'[u] = partial[u]
  BY <1>t, <1>v DEF UpdatesTypeOK
<1>e. phase' = "error"
  BY DEF Fails
<1>1. UpdatesTypeOK'
  BY <1>a, <1>e, <1>p, <1>t DEF UpdatesTypeOK, Calls, Phases
<1>2. Held'
  BY <1>a, <1>b DEF Held, UpdatesInv, Step
<1>3. Fresh'
  <2> SUFFICES ASSUME NEW u \in Versions, partial'[u] # 0
               PROVE  \E x \in Workers : WrittenBy(u, x)'
    BY DEF Fresh
  <2>1. partial'[u] = partial[u] /\ u # worker[w].version
    BY <1>p
  <2>2. PICK x \in Workers : WrittenBy(u, x)
    BY <1>r, <2>1 DEF UpdatesInv, Fresh
  <2>3. worker'[x] = worker[x]
    BY <1>a, <2>1, <2>2 DEF WrittenBy
  <2> QED
    BY <2>1, <2>2, <2>3 DEF WrittenBy, Step
<1>4. OneName'
  BY <1>p DEF OneName, UpdatesInv
<1>5. Offered'
  BY <1>e DEF Offered
<1>6. Alone'
  BY <1>c, <1>e DEF Alone, UpdatesInv
<1>7. Handed'
  BY <1>c DEF Handed, UpdatesInv, Whole
<1>8. Rested'
  BY <1>r DEF Rested
<1>9. PhaseHasItsWorker'
  BY <1>e DEF PhaseHasItsWorker
<1> QED
  BY <1>1, <1>2, <1>3, <1>4, <1>5, <1>6, <1>7, <1>8, <1>9 DEF UpdatesInv

LEMMA OpenedKeeps ==
  ASSUME UpdatesInv, NEW w \in Workers, Opened(w)
  PROVE  UpdatesInv'
<1> DEFINE v == worker[w].version
<1>t. UpdatesTypeOK /\ worker \in [Workers -> Calls]
  BY CallTypes DEF UpdatesInv
<1>v. v \in Versions
  BY DEF UpdatesInv, Held, Opened
<1>r. Running /\ Running'
  BY NotResting DEF Opened, Running
<1>0. PICK i \in Inodes :
        /\ \A u \in Versions : u # v => partial[u] # i
        /\ \A u \in Versions : Downloading = {} => final[u] # i
        /\ partial' = [partial EXCEPT ![v] = i]
        /\ blocks' = [blocks EXCEPT ![i] = {}]
        /\ worker' = [worker EXCEPT ![w].step = "write", ![w].inode = i]
  <2>1. w \in Downloading
    BY DEF Downloading, Opened
  <2>2. CASE partial[v] # 0
    <3>1. partial[v] \in Inodes /\ \A u \in Versions : u # v => partial[u] # partial[v]
      BY <1>t, <1>v, <2>2 DEF UpdatesTypeOK, UpdatesInv, OneName
    <3> QED
      BY <2>1, <2>2, <3>1 DEF Opened
  <2>3. CASE ~(partial[v] # 0)
    BY <2>1, <2>3 DEF Opened
  <2> QED
    BY <2>2, <2>3
<1> DEFINE r == [worker[w] EXCEPT !.step = "write", !.inode = i]
<1>b. Becomes(w, r) /\ r.step = "write" /\ r.version = v /\ r.inode = i /\ r.got = worker[w].got
  <2>1. r \in Calls /\ r.step = "write" /\ r.version = v /\ r.inode = i /\ r.got = worker[w].got
    BY <1>t DEF Calls
  <2>2. worker' = [worker EXCEPT ![w] = r]
    BY <1>0, <1>t DEF Calls
  <2> QED
    BY <1>t, <2>1, <2>2, OneBecomes
<1> HIDE DEF r
<1>a. /\ worker'[w] = r /\ worker' \in [Workers -> Calls]
      /\ \A x \in Workers \ {w} : worker'[x] = worker[x]
  BY <1>b DEF Becomes
<1>c. Downloading' = Downloading /\ w \in Writing'
  BY <1>b, Counted DEF Downloading, Opened
<1>p. /\ partial' \in [Versions -> Inodes \cup {0}] /\ partial'[v] = i
      /\ \A u \in Versions : u # v => partial'[u] = partial[u]
  BY <1>0, <1>t, <1>v DEF UpdatesTypeOK
<1>q. /\ blocks' \in [Inodes -> SUBSET (1..Blocks)] /\ blocks'[i] = {}
      /\ \A j \in Inodes : j # i => blocks'[j] = blocks[j]
  BY <1>0, <1>t DEF UpdatesTypeOK
<1>d. UNCHANGED <<phase, downloaded, artifact, autoUpdate, final, installer, target, press, checks, shared,
                  late, stuck>>
  BY DEF Opened
<1>g. worker[w].got = 0
  BY DEF Opened, UpdatesInv, Held
<1>1. UpdatesTypeOK'
  BY <1>a, <1>d, <1>p, <1>q, <1>t DEF UpdatesTypeOK, Calls
<1>2. Held'
  BY <1>a, <1>b, <1>v DEF Held, UpdatesInv, Step
<1>3. Fresh'
  <2> SUFFICES ASSUME NEW u \in Versions, partial'[u] # 0
               PROVE  \E x \in Workers : WrittenBy(u, x)'
    BY DEF Fresh
  <2>1. CASE u = v
    <3>1. 1..r.got = {}
      BY <1>b, <1>g
    <3> QED
      BY <1>a, <1>b, <1>p, <2>1, <3>1 DEF WrittenBy, Step
  <2>2. CASE u # v
    <3>1. partial'[u] = partial[u] /\ partial[u] # i /\ partial[u] \in Inodes
      BY <1>0, <1>p, <1>t, <2>2 DEF UpdatesTypeOK
    <3>2. PICK x \in Workers : WrittenBy(u, x)
      BY <1>r, <3>1 DEF UpdatesInv, Fresh
    <3>3. worker'[x] = worker[x]
      BY <1>a, <3>2 DEF WrittenBy, Opened
    <3>4. blocks'[partial[u]] = blocks[partial[u]]
      BY <1>q, <3>1
    <3> QED
      BY <3>1, <3>2, <3>3, <3>4 DEF WrittenBy, Step
  <2> QED
    BY <2>1, <2>2
<1>4. OneName'
  BY <1>0, <1>p DEF OneName, UpdatesInv
<1>5. Offered'
  <2>1. w \in Downloading
    BY DEF Downloading, Opened
  <2> QED
    BY <1>c, <1>d, <2>1 DEF Offered, UpdatesInv, Alone
<1>6. Alone'
  BY <1>c, <1>d DEF Alone, UpdatesInv
<1>7. Handed'
  <2>1. w \in Downloading
    BY DEF Downloading, Opened
  <2> QED
    BY <1>c, <1>d, <2>1 DEF Handed, UpdatesInv
<1>8. Rested'
  BY <1>r DEF Rested
<1>9. PhaseHasItsWorker'
  <2>1. phase = "checking" => \E x \in Workers : Step(x)' \in {"check", "nested"}
    BY <1>a, <1>r DEF PhaseHasItsWorker, UpdatesInv, Step, Opened
  <2> QED
    BY <1>c, <1>d, <1>r, <2>1 DEF PhaseHasItsWorker, UpdatesInv
<1> QED
  BY <1>1, <1>2, <1>3, <1>4, <1>5, <1>6, <1>7, <1>8, <1>9 DEF UpdatesInv

LEMMA WrittenKeeps ==
  ASSUME UpdatesInv, NEW w \in Workers, Written(w)
  PROVE  UpdatesInv'
<1> DEFINE n == worker[w].got
           i == worker[w].inode
           r == [worker[w] EXCEPT !.got = n + 1]
<1>t. UpdatesTypeOK /\ worker \in [Workers -> Calls]
  BY CallTypes DEF UpdatesInv
<1>i. i \in Inodes /\ worker[w].version \in Versions /\ Step(w) = "write"
  BY DEF UpdatesInv, Held, Written
<1>n. n \in Nat /\ n < Blocks /\ n + 1 \in 1..Blocks
  BY <1>t, UpdatesAssumption DEF Calls, Written, UpdatesAssumption
<1>r. Running /\ Running'
  BY <1>i, NotResting DEF Written, Running
<1>b. /\ Becomes(w, r) /\ r.step = "write" /\ r.version = worker[w].version /\ r.inode = i /\ r.got = n + 1
  <2>1. r \in Calls /\ r.step = "write" /\ r.version = worker[w].version /\ r.inode = i /\ r.got = n + 1
    BY <1>t, <1>n, <1>i DEF Calls, Step
  <2>2. worker' = [worker EXCEPT ![w] = r]
    BY <1>t DEF Calls, Written
  <2> QED
    BY <1>t, <2>1, <2>2, OneBecomes
<1>q. /\ blocks' \in [Inodes -> SUBSET (1..Blocks)] /\ blocks'[i] = blocks[i] \cup {n + 1}
      /\ \A j \in Inodes : blocks[j] \subseteq blocks'[j]
  BY <1>i, <1>n, <1>t DEF UpdatesTypeOK, Written
<1> HIDE DEF r
<1>a. /\ worker'[w] = r /\ worker' \in [Workers -> Calls]
      /\ \A x \in Workers \ {w} : worker'[x] = worker[x]
  BY <1>b DEF Becomes
<1>c. Downloading' = Downloading /\ w \in Downloading
  BY <1>b, <1>i, Counted DEF Downloading
<1>d. UNCHANGED <<downloaded, artifact, autoUpdate, partial, final, installer, target, press, checks, shared,
                  late, stuck>> /\ phase' = "downloading"
  BY DEF Written
<1>1. UpdatesTypeOK'
  BY <1>a, <1>d, <1>q, <1>t DEF UpdatesTypeOK, Calls, Phases
<1>2. Held'
  BY <1>a, <1>b, <1>i DEF Held, UpdatesInv, Step
<1>3. Fresh'
  <2> SUFFICES ASSUME NEW u \in Versions, partial[u] # 0
               PROVE  \E x \in Workers : WrittenBy(u, x)'
    BY <1>d DEF Fresh
  <2>1. PICK x \in Workers : WrittenBy(u, x)
    BY <1>r DEF UpdatesInv, Fresh
  <2>2. partial[u] \in Inodes /\ blocks[partial[u]] \subseteq blocks'[partial[u]]
    BY <1>q, <1>t DEF UpdatesTypeOK
  <2>3. CASE x = w
    <3>1. 1..(n + 1) = (1..n) \cup {n + 1}
      BY <1>n
    <3>2. 1..(n + 1) \subseteq blocks'[partial[u]]
      BY <1>q, <2>1, <2>2, <2>3, <3>1 DEF WrittenBy
    <3> QED
      BY <1>a, <1>b, <1>d, <2>1, <2>3, <3>2 DEF WrittenBy, Step
  <2>4. CASE x # w
    BY <1>a, <1>d, <2>1, <2>2, <2>4 DEF WrittenBy, Step
  <2> QED
    BY <2>3, <2>4
<1>4. OneName'
  BY <1>d DEF OneName, UpdatesInv
<1>5. Offered'
  BY <1>d DEF Offered
<1>6. Alone'
  BY <1>c, <1>d DEF Alone, UpdatesInv
<1>7. Handed'
  BY <1>c, <1>d DEF Handed, UpdatesInv
<1>8. Rested'
  BY <1>r DEF Rested
<1>9. PhaseHasItsWorker'
  BY <1>c, <1>d DEF PhaseHasItsWorker
<1> QED
  BY <1>1, <1>2, <1>3, <1>4, <1>5, <1>6, <1>7, <1>8, <1>9 DEF UpdatesInv

LEMMA StreamEndsKeeps ==
  ASSUME UpdatesInv, NEW w \in Workers, StreamEnds(w)
  PROVE  UpdatesInv'
<1> DEFINE r == [worker[w] EXCEPT !.step = "rename"]
<1>t. UpdatesTypeOK /\ worker \in [Workers -> Calls]
  BY CallTypes DEF UpdatesInv
<1>i. worker[w].inode \in Inodes /\ worker[w].version \in Versions /\ Step(w) = "write"
  BY DEF UpdatesInv, Held, StreamEnds
<1>0. CASE ~Verified(w)
  BY <1>0, <1>i, FailureKeeps DEF StreamEnds
<1>x. CASE Verified(w)
  <2>r. Running /\ Running'
    BY <1>i, NotResting DEF StreamEnds, Running
  <2>b. /\ Becomes(w, r) /\ r.step = "rename" /\ r.version = worker[w].version /\ r.inode = worker[w].inode
        /\ r.got = worker[w].got /\ r.got = Blocks
    <3>1. /\ r \in Calls /\ r.step = "rename" /\ r.version = worker[w].version /\ r.inode = worker[w].inode
          /\ r.got = worker[w].got /\ r.got = Blocks
      BY <1>t, <1>x DEF Calls, Verified
    <3>2. worker' = [worker EXCEPT ![w] = r]
      BY <1>t, <1>x DEF Calls, StreamEnds
    <3> QED
      BY <1>t, <3>1, <3>2, OneBecomes
  <2>f. final' \in [Versions -> Inodes \cup {0}]
    BY <1>i, <1>t, <1>x DEF UpdatesTypeOK, StreamEnds
  <2> HIDE DEF r
  <2>a. /\ worker'[w] = r /\ worker' \in [Workers -> Calls]
        /\ \A x \in Workers \ {w} : worker'[x] = worker[x]
    BY <2>b DEF Becomes
  <2>c. Downloading' = Downloading /\ w \in Downloading /\ w \in Writing'
    BY <2>b, <1>i, Counted DEF Downloading
  <2>d. UNCHANGED <<phase, downloaded, artifact, autoUpdate, partial, blocks, installer, target, press, checks,
                    shared, late, stuck>>
    BY <1>x DEF StreamEnds
  <2>1. UpdatesTypeOK'
    BY <1>t, <2>a, <2>d, <2>f DEF UpdatesTypeOK, Calls
  <2>2. Held'
    BY <1>i, <2>a, <2>b DEF Held, UpdatesInv, Step
  <2>3. Fresh'
    <3> SUFFICES ASSUME NEW u \in Versions, partial[u] # 0
                 PROVE  \E x \in Workers : WrittenBy(u, x)'
      BY <2>d DEF Fresh
    <3>1. PICK x \in Workers : WrittenBy(u, x)
      BY <2>r DEF UpdatesInv, Fresh
    <3>2. CASE x = w
      BY <2>a, <2>b, <2>d, <3>1, <3>2 DEF WrittenBy, Step
    <3>3. CASE x # w
      BY <2>a, <2>d, <3>1, <3>3 DEF WrittenBy, Step
    <3> QED
      BY <3>2, <3>3
  <2>4. OneName'
    BY <2>d DEF OneName, UpdatesInv
  <2>5. Offered'
    BY <2>c, <2>d DEF Offered, UpdatesInv, Alone
  <2>6. Alone'
    BY <2>c, <2>d DEF Alone, UpdatesInv
  <2>7. Handed'
    BY <2>c, <2>d DEF Handed, UpdatesInv
  <2>8. Rested'
    BY <2>r DEF Rested
  <2>9. PhaseHasItsWorker'
    <3>1. phase = "checking" => \E x \in Workers : Step(x)' \in {"check", "nested"}
      BY <1>i, <2>a, <2>r DEF PhaseHasItsWorker, UpdatesInv, Step
    <3> QED
      BY <2>c, <2>d, <3>1 DEF PhaseHasItsWorker
  <2> QED
    BY <2>1, <2>2, <2>3, <2>4, <2>5, <2>6, <2>7, <2>8, <2>9 DEF UpdatesInv
<1> QED
  BY <1>0, <1>x

\* The one that renames may rename what another has opened again; that one is
\* then still at work.
LEMMA RenamedKeeps ==
  ASSUME UpdatesInv, NEW w \in Workers, Renamed(w)
  PROVE  UpdatesInv'
<1>0. PICK v \in Versions : v = worker[w].version
  BY DEF UpdatesInv, Held, Renamed
<1> DEFINE i == partial[v]
<1>t. UpdatesTypeOK /\ worker \in [Workers -> Calls]
  BY CallTypes DEF UpdatesInv
<1>v. v \in Versions /\ Step(w) = "rename" /\ i # 0 /\ i \in Inodes
  BY <1>0, <1>t DEF UpdatesInv, Held, Renamed, UpdatesTypeOK
<1>r. Running /\ Running'
  BY <1>v, NotResting DEF Renamed, Running
<1>b. Becomes(w, Resting) /\ Resting.step = "idle"
  BY <1>t, EndBecomes DEF Renamed, Resting
<1>a. /\ worker'[w] = Resting /\ worker' \in [Workers -> Calls]
      /\ \A x \in Workers \ {w} : worker'[x] = worker[x]
  BY <1>b DEF Becomes
<1>c. Downloading' = Downloading \ {w} /\ Writing' = Writing \ {w} /\ w \in Downloading
  BY <1>b, <1>v, Counted DEF Downloading
<1>p. /\ partial' \in [Versions -> Inodes \cup {0}] /\ partial'[v] = 0
      /\ \A u \in Versions : u # v => partial'[u] = partial[u]
  BY <1>0, <1>t, <1>v DEF UpdatesTypeOK, Renamed
<1>f. final' \in [Versions -> Inodes \cup {0}] /\ final'[v] = i
  BY <1>0, <1>t, <1>v DEF UpdatesTypeOK, Renamed
<1>d. /\ UNCHANGED <<artifact, autoUpdate, blocks, installer, target, press, checks, shared, late, stuck>>
      /\ downloaded' = v /\ phase' = "downloaded"
  BY <1>0 DEF Renamed
<1>w. Writing' = {} => Whole(v)'
  <2> SUFFICES ASSUME Writing' = {} PROVE Whole(v)'
    OBVIOUS
  <2>1. PICK x \in Workers : WrittenBy(v, x)
    BY <1>r, <1>v DEF UpdatesInv, Fresh
  <2>2. x = w
    BY <1>c, <2>1 DEF WrittenBy, Writing
  <2>3. worker[w].got = Blocks
    BY <1>v DEF UpdatesInv, Held
  <2>4. blocks[i] = 1..Blocks
    BY <1>t, <1>v, <2>1, <2>2, <2>3 DEF WrittenBy, UpdatesTypeOK
  <2>5. final'[v] # 0 /\ blocks'[final'[v]] = 1..Blocks
    BY <1>d, <1>f, <1>v, <2>4
  <2> QED
    BY <2>5 DEF Whole
<1>s. ~shared => Downloading' = {}
  BY <1>c DEF UpdatesInv, Alone
<1>e. Downloading' = {} => Writing' = {}
  BY DEF Downloading, Writing
<1>1. UpdatesTypeOK'
  BY <1>a, <1>d, <1>f, <1>p, <1>t, <1>v DEF UpdatesTypeOK, Calls, Phases
<1>2. Held'
  BY <1>a, <1>b DEF Held, UpdatesInv, Step
<1>3. Fresh'
  <2> SUFFICES ASSUME NEW u \in Versions, partial'[u] # 0
               PROVE  \E x \in Workers : WrittenBy(u, x)'
    BY DEF Fresh
  <2>1. partial'[u] = partial[u] /\ u # v
    BY <1>p
  <2>2. PICK x \in Workers : WrittenBy(u, x)
    BY <1>r, <2>1 DEF UpdatesInv, Fresh
  <2>3. worker'[x] = worker[x]
    BY <1>0, <1>a, <2>1, <2>2 DEF WrittenBy
  <2> QED
    BY <1>d, <2>1, <2>2, <2>3 DEF WrittenBy, Step
<1>4. OneName'
  BY <1>p DEF OneName, UpdatesInv
<1>5. Offered'
  <2>1. Whole(downloaded)' <=> Whole(v)'
    BY <1>d DEF Whole
  <2>2. (phase = "downloaded" => downloaded \in Versions)'
    BY <1>d, <1>v
  <2>3. (phase = "downloaded" /\ Running /\ Writing = {} => Whole(downloaded))'
    BY <1>w, <2>1
  <2>4. (phase = "downloaded" /\ ~shared => Whole(downloaded))'
    BY <1>d, <1>e, <1>s, <1>w, <2>1
  <2> QED
    BY <2>2, <2>3, <2>4 DEF Offered
<1>6. Alone'
  BY <1>d, <1>s DEF Alone
<1>7. Handed'
  BY <1>c, <1>d DEF Handed, UpdatesInv
<1>8. Rested'
  BY <1>r DEF Rested
<1>9. PhaseHasItsWorker'
  BY <1>d DEF PhaseHasItsWorker
<1> QED
  BY <1>1, <1>2, <1>3, <1>4, <1>5, <1>6, <1>7, <1>8, <1>9 DEF UpdatesInv

-----------------------------------------------------------------------------
(* The window and the installer *)

LEMMA WindowKeeps ==
  ASSUME UpdatesInv, Press \/ SetAutoUpdate
  PROVE  UpdatesInv'
<1>1. Running /\ Running'
  BY DEF Press, SetAutoUpdate, Running
<1>2. UNCHANGED <<phase, downloaded, worker, partial, final, blocks, installer, target, shared, late, stuck>>
  BY DEF Press, SetAutoUpdate
<1>3. Downloading' = Downloading /\ Writing' = Writing
  BY <1>2 DEF Downloading, Writing, Step
<1>4. UpdatesTypeOK'
  <2>1. /\ artifact' = artifact /\ checks' = checks /\ autoUpdate' \in BOOLEAN
        /\ press' \in {"none", "check", "download", "install"}
    <3>1. CASE Press
      BY <3>1 DEF Press, UpdatesInv, UpdatesTypeOK
    <3>2. CASE SetAutoUpdate
      BY <3>2 DEF SetAutoUpdate, UpdatesInv, UpdatesTypeOK
    <3> QED
      BY <3>1, <3>2
  <2> QED
    BY <1>2, <2>1 DEF UpdatesInv, UpdatesTypeOK
<1>5. Held' /\ OneName'
  BY <1>2 DEF UpdatesInv, Held, OneName, Step
<1>6. Fresh'
  BY <1>1, <1>2 DEF UpdatesInv, Fresh, WrittenBy, Step
<1>7. Offered' /\ Alone' /\ Handed'
  BY <1>1, <1>2, <1>3 DEF UpdatesInv, Offered, Alone, Handed, Whole
<1>8. Rested'
  BY <1>1 DEF Rested
<1>9. PhaseHasItsWorker'
  BY <1>1, <1>2, <1>3 DEF UpdatesInv, PhaseHasItsWorker, Step
<1> QED
  BY <1>4, <1>5, <1>6, <1>7, <1>8, <1>9 DEF UpdatesInv

\* The installation that is asked for while nobody downloads is of a whole file.
LEMMA InstallerKeeps ==
  ASSUME UpdatesInv, InstallByWindow \/ Spawn
  PROVE  UpdatesInv'
<1>1. Running
  BY DEF InstallByWindow, Spawn, UpdatesInv, Rested, Running
<1>2. Running'
  BY <1>1 DEF InstallByWindow, Spawn, Running
<1>3. /\ UNCHANGED <<downloaded, worker, partial, final, blocks, shared, stuck>>
      /\ phase' \in {phase, "installing"} /\ (late => late')
  <2>1. CASE InstallByWindow
    BY <2>1 DEF InstallByWindow
  <2>2. CASE Spawn
    BY <2>2 DEF Spawn
  <2> QED
    BY <2>1, <2>2
<1>4. Downloading' = Downloading /\ Writing' = Writing
  BY <1>3 DEF Downloading, Writing, Step
<1>5. UpdatesTypeOK'
  <2>1. CASE InstallByWindow
    BY <2>1 DEF UpdatesInv, UpdatesTypeOK, InstallByWindow
  <2>2. CASE Spawn
    BY <2>2 DEF UpdatesInv, UpdatesTypeOK, Spawn, Phases
  <2> QED
    BY <2>1, <2>2
<1>6. Held' /\ OneName'
  BY <1>3 DEF UpdatesInv, Held, OneName, Step
<1>7. Fresh'
  BY <1>1, <1>3 DEF UpdatesInv, Fresh, WrittenBy, Step
<1>8. Offered' /\ Alone'
  BY <1>1, <1>3, <1>4 DEF UpdatesInv, Offered, Alone, Whole
<1>9. Handed'
  <2>1. Downloading = {} => Writing = {}
    BY DEF Downloading, Writing
  <2>2. CASE InstallByWindow
    BY <1>1, <1>3, <1>4, <2>1, <2>2 DEF InstallByWindow, UpdatesInv, Handed, Offered, Whole
  <2>3. CASE Spawn
    BY <1>3, <1>4, <2>3 DEF Spawn, UpdatesInv, Handed, Whole
  <2> QED
    BY <2>2, <2>3
<1>10. Rested'
  BY <1>2 DEF Rested
<1>11. PhaseHasItsWorker'
  BY <1>1, <1>3, <1>4 DEF UpdatesInv, PhaseHasItsWorker, Step
<1> QED
  BY <1>5, <1>6, <1>7, <1>8, <1>9, <1>10, <1>11 DEF UpdatesInv

LEMMA QuitKeeps ==
  ASSUME UpdatesInv, Quit
  PROVE  UpdatesInv'
<1>1. Running /\ ~Running'
  BY DEF Quit, Running
<1>2. /\ UNCHANGED <<phase, downloaded, artifact, autoUpdate, partial, final, blocks, target, checks, shared,
                     late, stuck>>
      /\ press' = "none" /\ \A w \in Workers : worker'[w] = Resting
      /\ installer' = IF Whole(target) THEN "ran" ELSE "broken"
  BY DEF Quit
<1>3. Downloading' = {}
  BY <1>2 DEF Downloading, Step, Resting
<1>4. UpdatesTypeOK'
  <2>1. worker' \in [Workers -> Calls]
    BY RestingCalls, UpdatesAssumption DEF Quit
  <2> QED
    BY <1>2, <2>1 DEF UpdatesInv, UpdatesTypeOK, Calls
<1>5. Held'
  BY <1>2 DEF Held, Step, Resting
<1>6. Fresh' /\ Rested' /\ PhaseHasItsWorker'
  BY <1>1, <1>2 DEF Fresh, Rested, PhaseHasItsWorker
<1>7. OneName'
  BY <1>2 DEF UpdatesInv, OneName
<1>8. Offered' /\ Alone'
  BY <1>1, <1>2, <1>3 DEF UpdatesInv, Offered, Alone, Whole
<1>9. Handed'
  BY <1>2 DEF UpdatesInv, Handed, Quit
<1> QED
  BY <1>4, <1>5, <1>6, <1>7, <1>8, <1>9 DEF UpdatesInv

-----------------------------------------------------------------------------

LEMMA InitUpdates == UpdatesInit => UpdatesInv
<1> SUFFICES ASSUME UpdatesInit PROVE UpdatesInv
  OBVIOUS
<1>1. \A w \in Workers : worker[w] = Resting
  BY DEF UpdatesInit
<1>2. Downloading = {}
  BY <1>1 DEF Downloading, Step, Resting
<1>3. UpdatesTypeOK
  <2>1. worker \in [Workers -> Calls]
    BY RestingCalls, UpdatesAssumption DEF UpdatesInit
  <2>2. checks \in 0..MaxChecks
    BY UpdatesAssumption DEF UpdatesInit, UpdatesAssumption
  <2>3. /\ partial \in [Versions -> Inodes \cup {0}] /\ final \in [Versions -> Inodes \cup {0}]
        /\ blocks \in [Inodes -> SUBSET (1..Blocks)]
    BY DEF UpdatesInit
  <2> QED
    BY <2>1, <2>2, <2>3 DEF UpdatesInit, UpdatesTypeOK, Calls, Phases
<1>4. Held
  BY <1>1 DEF Held, Step, Resting
<1>5. Fresh /\ OneName
  BY DEF Fresh, OneName, UpdatesInit
<1>6. Offered /\ Alone /\ Handed /\ Rested /\ PhaseHasItsWorker
  BY <1>2 DEF Offered, Alone, Handed, Rested, PhaseHasItsWorker, UpdatesInit, Running
<1> QED
  BY <1>3, <1>4, <1>5, <1>6 DEF UpdatesInv

LEMMA StutterUpdates ==
  ASSUME UpdatesInv, UNCHANGED updateVars
  PROVE  UpdatesInv'
<1>1. Downloading' = Downloading /\ Writing' = Writing /\ Running' = Running
  BY DEF updateVars, Downloading, Writing, Running, Step
<1>2. UpdatesTypeOK' /\ Held' /\ OneName'
  BY DEF updateVars, UpdatesInv, UpdatesTypeOK, Held, OneName, Step
<1>3. Fresh'
  BY <1>1 DEF updateVars, UpdatesInv, Fresh, WrittenBy, Step
<1>4. Offered' /\ Alone' /\ Handed'
  BY <1>1 DEF updateVars, UpdatesInv, Offered, Alone, Handed, Whole
<1>5. Rested' /\ PhaseHasItsWorker'
  BY <1>1 DEF updateVars, UpdatesInv, Rested, PhaseHasItsWorker, Step
<1> QED
  BY <1>2, <1>3, <1>4, <1>5 DEF UpdatesInv

LEMMA NextUpdates == UpdatesInv /\ [UpdatesNext]_updateVars => UpdatesInv'
<1> SUFFICES ASSUME UpdatesInv, [UpdatesNext]_updateVars PROVE UpdatesInv'
  OBVIOUS
<1>1. ASSUME NEW w \in Workers, DownloadFails(w) PROVE UpdatesInv'
  BY <1>1, FailureKeeps DEF DownloadFails
<1>2. ASSUME NEW w \in Workers, WorkerStep(w) PROVE UpdatesInv'
  BY <1>1, <1>2, ManifestArrivedKeeps, AccessDoneKeeps, PreparedKeeps, OpenedKeeps, WrittenKeeps,
     StreamEndsKeeps, RenamedKeeps DEF WorkerStep
<1>3. ASSUME NEW w \in Workers, TimedCheck(w) \/ CheckByWindow(w) \/ DownloadByWindow(w) PROVE UpdatesInv'
  BY <1>3, TimedCheckKeeps, CheckByWindowKeeps, DownloadByWindowKeeps
<1> QED
  BY <1>2, <1>3, WindowKeeps, InstallerKeeps, QuitKeeps, StutterUpdates DEF UpdatesNext

\* The argument of the two theorems.
LEMMA UpdatesInvHolds == UpdatesSpec => []UpdatesInv
BY InitUpdates, NextUpdates, PTL DEF UpdatesSpec

LEMMA InvOffered == UpdatesInv => OfferedFileIsWhole
BY DEF UpdatesInv, Offered, Handed, OfferedFileIsWhole

\* While one download runs at a time the file that is offered for installation is
\* complete, and the installer finds it so unless a download was under way
\* (update-manager.ts, download and scheduleInstall).
THEOREM OfferedHolds == UpdatesSpec => []OfferedFileIsWhole
BY UpdatesInvHolds, InvOffered, PTL

\* Every phase that disables the button has a call that will end it, a directory
\* that cannot be prepared excepted (update-manager.ts, check and download).
THEOREM PhaseHolds == UpdatesSpec => []PhaseHasItsWorker
<1>1. UpdatesInv => PhaseHasItsWorker
  BY DEF UpdatesInv
<1> QED
  BY <1>1, UpdatesInvHolds, PTL

-----------------------------------------------------------------------------
(* Starting, stopping and recovering remote control: where a runtime or a     *)
(* server is left behind, and that what is shown is what is there while       *)
(* operations do not overlap                                                  *)

ActorCalls == [pc : Steps \cup {"inner"}, srv : Ids \cup {NoId}, rt : Ids \cup {NoId}]

\* Unless the start and the stop of a runtime have overlapped, the orchestrator's
\* runtime is the only one; a start that awaits one awaits that one, a stop that
\* closes one closes that one, and nobody else does either.
OneRuntime == ~crossedRuntime =>
  /\ Alive(runtimes) \subseteq {codex} \ {NoId}
  /\ \A a \in Actors : Pc(a) = "runtime" =>
       orch = "starting" /\ actor[a].rt = codex /\ codex # NoId /\ runtimes[codex] = "starting"
  /\ \A a \in Actors : Pc(a) = "closeRuntime" =>
       orch = "stopping" /\ actor[a].rt = codex /\ (codex # NoId => runtimes[codex] # "starting")
  /\ \A a, b \in Actors : Pc(a) = Pc(b) /\ Pc(a) \in {"runtime", "closeRuntime"} => a = b
  /\ codex # NoId => orch \in {"starting", "running"} \/ \E a \in Actors : Pc(a) = "closeRuntime"

\* Likewise for servers; who stops one may find it stopped already.
OneServer == ~crossedServer =>
  /\ Alive(servers) \subseteq {server} \ {NoId}
  /\ \A a \in Actors : Pc(a) = "serve" => actor[a].srv = server /\ server # NoId /\ servers[server] = "starting"
  /\ \A a \in Actors : Pc(a) = "closeServer" /\ server # NoId =>
       actor[a].srv = server /\ servers[server] # "starting"
  /\ \A a, b \in Actors : Pc(a) = "serve" /\ Pc(b) = "serve" => a = b

\* The recovery waits for the start it has called.
Nested == Pc(Inner) # "idle" => Pc(Recovery) = "inner"

LifecycleInv == LifecycleTypeOK /\ OneRuntime /\ OneServer /\ Nested

-----------------------------------------------------------------------------

LEMMA ActorTypes == LifecycleTypeOK => actor \in [Actors -> ActorCalls]
BY DEF LifecycleTypeOK, ActorCalls

LEMMA Names ==
  /\ Recovery \in Actors /\ Inner \in Actors /\ Stop \in Actors /\ Starts \subseteq Actors /\ Callers \subseteq Starts
  /\ Recovery \notin Starts /\ Stop \notin Starts /\ Recovery # Stop /\ Inner \in Starts /\ Relay \in Callers
  /\ NoId \notin Ids /\ Inner \notin Callers
BY LifecycleAssumption DEF LifecycleAssumption, Recovery, Inner, Stop, Starts, Actors, NoId

\* What an actor becomes, the others stay.
ActorBecomes(a, r) ==
  /\ actor' \in [Actors -> ActorCalls] /\ actor'[a] = r
  /\ \A x \in Actors \ {a} : actor'[x] = actor[x]

LEMMA OneActorBecomes ==
  ASSUME LifecycleTypeOK, NEW a \in Actors, NEW r \in ActorCalls, actor' = [actor EXCEPT ![a] = r]
  PROVE  ActorBecomes(a, r)
BY ActorTypes DEF ActorBecomes

\* Neither half changes where no actor begins to start or to close one.
LEMMA RuntimeRests ==
  ASSUME OneRuntime, UNCHANGED <<runtimes, codex, orch, crossedRuntime>>,
         \A a \in Actors : actor'[a].pc \in {"runtime", "closeRuntime"} => actor'[a] = actor[a],
         \A a \in Actors : Pc(a) = "closeRuntime" => actor'[a] = actor[a]
  PROVE  OneRuntime'
BY DEF OneRuntime, Alive, Pc

LEMMA ServerRests ==
  ASSUME OneServer, UNCHANGED <<servers, server, crossedServer>>,
         \A a \in Actors : actor'[a].pc \in {"serve", "closeServer"} => actor'[a] = actor[a]
  PROVE  OneServer'
BY DEF OneServer, Alive, Pc

\* Who moves: a start that is under way, one that is called, a stop, or the
\* recovery while it does not wait.
Moves(a) == \/ a \in Starts /\ Pc(a) # "idle"
            \/ a \in Callers \cup {Stop}
            \/ a = Recovery /\ Pc(a) # "inner"

LEMMA NestedRests ==
  ASSUME Nested, NEW a \in Actors, NEW r, ActorBecomes(a, r), Moves(a)
  PROVE  Nested'
BY Names DEF Nested, ActorBecomes, Moves, Pc

\* remoteServer?.stop() is called.
LEMMA StopCalled ==
  ASSUME LifecycleTypeOK, OneServer, NEW a \in Actors, StopServerFrom(a, actor), UNCHANGED <<servers, server>>
  PROVE  /\ OneServer'
         /\ ActorBecomes(a, [pc |-> "closeServer", srv |-> server, rt |-> NoId])
         /\ crossedServer' \in BOOLEAN
         /\ \A x \in Actors : actor'[x].pc \in {"runtime", "closeRuntime"} => actor'[x] = actor[x]
<1> DEFINE r == [pc |-> "closeServer", srv |-> server, rt |-> NoId]
<1>1. r \in ActorCalls
  BY DEF LifecycleTypeOK, ActorCalls, Steps
<1>2. ActorBecomes(a, r)
  BY <1>1, OneActorBecomes DEF StopServerFrom
<1>3. crossedServer' = (crossedServer \/ Cuts(servers, server))
  BY DEF StopServerFrom
<1>4. OneServer'
  <2> SUFFICES ASSUME ~crossedServer' PROVE OneServer'
    BY DEF OneServer
  <2>1. ~crossedServer /\ (server # NoId => servers[server] # "starting")
    BY <1>3 DEF Cuts
  <2>2. \A x \in Actors : Pc(x) # "serve"
    BY <2>1 DEF OneServer
  <2>3. r.pc = "closeServer" /\ r.srv = server
    OBVIOUS
  <2> HIDE DEF r
  <2> QED
    BY <1>2, <2>1, <2>2, <2>3 DEF OneServer, Alive, Pc, ActorBecomes
<1>5. crossedServer' \in BOOLEAN
  BY <1>3 DEF LifecycleTypeOK
<1> QED
  BY <1>2, <1>4, <1>5 DEF ActorBecomes

\* It has ended, and the orchestrator is asked to stop.
LEMMA ServerStopped ==
  ASSUME LifecycleTypeOK, OneServer, OneRuntime, NEW a \in Actors, Pc(a) = "closeServer",
         NEW rest \in {"check", "idle"}, StopOrchestrator(a, rest), UNCHANGED <<codex, runtimes, crossedServer>>
  PROVE  /\ OneServer' /\ OneRuntime'
         /\ servers' \in [Ids -> {"none", "starting", "up"}] /\ server' = NoId /\ orch' \in ServiceStates
         /\ actor' \in [Actors -> ActorCalls] /\ crossedRuntime' \in BOOLEAN
<1> DEFINE r == IF orch \in {"stopped", "stopping"} THEN [pc |-> rest, srv |-> NoId, rt |-> NoId]
                ELSE [pc |-> "closeRuntime", srv |-> NoId, rt |-> codex]
<1>1. r \in ActorCalls
  BY DEF LifecycleTypeOK, ActorCalls, Steps
<1>2. actor' = [actor EXCEPT ![a] = r]
  BY DEF StopOrchestrator
<1>3. ActorBecomes(a, r)
  BY <1>1, <1>2, OneActorBecomes
<1>4. r.pc \in {"check", "idle", "closeRuntime"} /\ (r.pc = "closeRuntime" => r.rt = codex /\ orch' = "stopping" /\ orch \notin {"stopped", "stopping"})
      /\ (r.pc # "closeRuntime" => orch' = orch)
  BY DEF StopOrchestrator
<1> HIDE DEF r
<1>5. /\ servers' = Down(servers, actor[a].srv) /\ server' = NoId
      /\ crossedRuntime' = (crossedRuntime \/ (orch \notin {"stopped", "stopping"} /\ Cuts(runtimes, codex)))
  BY DEF StopOrchestrator
<1>6. /\ servers' \in [Ids -> {"none", "starting", "up"}]
      /\ \A i \in Ids : servers'[i] = IF i = actor[a].srv /\ servers[i] = "up" THEN "none" ELSE servers[i]
  BY <1>5, Names DEF LifecycleTypeOK, Down
<1>7. OneServer'
  <2> SUFFICES ASSUME ~crossedServer PROVE OneServer'
    BY DEF OneServer
  <2>1. \A i \in Ids : servers'[i] = "none"
    BY <1>6, Names DEF OneServer, Alive, LifecycleTypeOK
  <2>2. \A x \in Actors : Pc(x) # "serve"
    BY DEF OneServer
  <2> QED
    BY <1>3, <1>4, <1>5, <2>1, <2>2 DEF OneServer, Alive, Pc, ActorBecomes
<1>8. OneRuntime'
  <2>1. CASE r.pc = "closeRuntime"
    <3> SUFFICES ASSUME ~crossedRuntime' PROVE OneRuntime'
      BY DEF OneRuntime
    <3>1. ~crossedRuntime /\ (codex # NoId => runtimes[codex] # "starting")
      BY <1>4, <1>5, <2>1 DEF Cuts
    <3>2. \A x \in Actors : Pc(x) \notin {"runtime", "closeRuntime"}
      BY <1>4, <2>1, <3>1 DEF OneRuntime
    <3> QED
      BY <1>3, <1>4, <2>1, <3>1, <3>2 DEF OneRuntime, Alive, Pc, ActorBecomes
  <2>2. CASE r.pc # "closeRuntime"
    <3>1. orch \in {"stopped", "stopping"}
      BY <2>2 DEF r
    <3>2. crossedRuntime' = crossedRuntime
      BY <1>5, <3>1 DEF LifecycleTypeOK
    <3> QED
      BY <1>3, <1>4, <2>2, <3>2, RuntimeRests DEF ActorBecomes, Pc
  <2> QED
    BY <2>1, <2>2
<1>9. orch' \in ServiceStates /\ crossedRuntime' \in BOOLEAN
  BY <1>5 DEF StopOrchestrator, LifecycleTypeOK, ServiceStates
<1> QED
  BY <1>3, <1>5, <1>6, <1>7, <1>8, <1>9 DEF ActorBecomes

\* The server is gone, and nobody else begins to stop one.
LEMMA ServerGone ==
  ASSUME LifecycleTypeOK, OneServer, NEW a \in Actors, Pc(a) = "closeServer",
         servers' = Down(servers, actor[a].srv), server' = NoId, UNCHANGED crossedServer,
         \A x \in Actors : actor'[x].pc \in {"serve", "closeServer"} => actor'[x] = actor[x] /\ x # a
  PROVE  OneServer' /\ servers' \in [Ids -> {"none", "starting", "up"}]
<1>1. /\ servers' \in [Ids -> {"none", "starting", "up"}]
      /\ \A i \in Ids : servers'[i] = IF i = actor[a].srv /\ servers[i] = "up" THEN "none" ELSE servers[i]
  BY Names DEF LifecycleTypeOK, Down
<1>2. ASSUME ~crossedServer PROVE \A i \in Ids : servers'[i] = "none"
  BY <1>1, <1>2, Names DEF OneServer, Alive, LifecycleTypeOK
<1>3. ASSUME ~crossedServer, NEW x \in Actors PROVE actor'[x].pc # "serve"
  BY <1>3 DEF OneServer, Pc
<1> QED
  BY <1>1, <1>2, <1>3 DEF OneServer, Alive, Pc

\* The orchestrator has stopped its runtime.
LEMMA RuntimeStopped ==
  ASSUME LifecycleTypeOK, OneRuntime, NEW a \in Actors, Pc(a) = "closeRuntime",
         runtimes' = Down(runtimes, actor[a].rt), codex' = NoId, orch' = "stopped", UNCHANGED crossedRuntime,
         actor' \in [Actors -> ActorCalls],
         \A x \in Actors : actor'[x].pc \in {"runtime", "closeRuntime"} => x # a /\ actor'[x] = actor[x]
  PROVE  OneRuntime' /\ runtimes' \in [Ids -> {"none", "starting", "up"}]
<1>1. /\ runtimes' \in [Ids -> {"none", "starting", "up"}]
      /\ \A i \in Ids : runtimes'[i] = IF i = actor[a].rt /\ runtimes[i] = "up" THEN "none" ELSE runtimes[i]
  BY Names DEF LifecycleTypeOK, Down
<1>2. ASSUME ~crossedRuntime PROVE \A i \in Ids : runtimes'[i] = "none"
  BY <1>1, <1>2, Names DEF OneRuntime, Alive, LifecycleTypeOK
<1>3. ASSUME ~crossedRuntime, NEW x \in Actors PROVE actor'[x].pc \notin {"runtime", "closeRuntime"}
  BY <1>3 DEF OneRuntime, Pc
<1> QED
  BY <1>1, <1>2, <1>3 DEF OneRuntime, Alive, Pc

-----------------------------------------------------------------------------
(* The steps of an operation on the lifecycle *)

LEMMA OpsCounted == LifecycleTypeOK /\ ops < MaxOps => ops + 1 \in 0..MaxOps
BY LifecycleAssumption DEF LifecycleTypeOK, LifecycleAssumption

\* What is neither a runtime nor a server keeps its type in one way or another.
Small ==
  /\ codexState \in ServiceStates /\ relayOn \in BOOLEAN
  /\ reported \in {"standby", "starting", "running", "failed"}
  /\ inspecting \in BOOLEAN /\ failures \in 0..1 /\ click \in {"none", "start", "stop"}
  /\ ops \in 0..MaxOps /\ overlapped \in BOOLEAN
Large ==
  /\ orch \in ServiceStates /\ codex \in Ids \cup {NoId} /\ server \in Ids \cup {NoId}
  /\ runtimes \in [Ids -> {"none", "starting", "up"}] /\ servers \in [Ids -> {"none", "starting", "up"}]
  /\ crossedRuntime \in BOOLEAN /\ crossedServer \in BOOLEAN

LEMMA SmallLarge == LifecycleTypeOK <=> Small /\ Large /\ actor \in [Actors -> ActorCalls]
BY DEF LifecycleTypeOK, Small, Large, ActorCalls

LEMMA Typed ==
  ASSUME Small', Large', actor' \in [Actors -> ActorCalls]
  PROVE  LifecycleTypeOK'
BY DEF LifecycleTypeOK, Small, Large, ActorCalls

LEMMA ReturnEffect ==
  ASSUME LifecycleTypeOK, Nested, NEW c \in Starts, Pc(c) \notin {"idle", "closeRuntime"}, NEW ok \in BOOLEAN,
         Return(c, ok)
  PROVE  /\ actor' \in [Actors -> ActorCalls]
         /\ actor'[c] = Idle
         /\ actor'[Recovery] = IF c = Inner THEN IF ok THEN Idle ELSE [Idle EXCEPT !.pc = "check"] ELSE actor[Recovery]
         /\ \A x \in Actors \ {c, Recovery} : actor'[x] = actor[x]
         /\ \A x \in Actors : actor'[x].pc \in {"runtime", "closeRuntime", "serve", "closeServer"} => actor'[x] = actor[x] /\ x # c
         /\ \A x \in Actors : Pc(x) = "closeRuntime" => actor'[x] = actor[x]
         /\ Nested'
<1>1. Idle \in ActorCalls /\ [Idle EXCEPT !.pc = "check"] \in ActorCalls /\ Idle.pc = "idle" /\ [Idle EXCEPT !.pc = "check"].pc = "check"
  BY DEF Idle, ActorCalls, Steps
<1>2. actor \in [Actors -> ActorCalls] /\ c \in Actors /\ Recovery \in Actors /\ c # Recovery
  BY ActorTypes, Names
<1>3. /\ actor' \in [Actors -> ActorCalls]
      /\ actor'[c] = Idle
      /\ actor'[Recovery] = IF c = Inner THEN IF ok THEN Idle ELSE [Idle EXCEPT !.pc = "check"] ELSE actor[Recovery]
      /\ \A x \in Actors \ {c, Recovery} : actor'[x] = actor[x]
  BY <1>1, <1>2 DEF Return
<1>4. c = Inner => Pc(Recovery) = "inner"
  BY DEF Nested
<1>5. Nested'
  BY <1>1, <1>2, <1>3, Names DEF Nested, Pc
<1>6. \A x \in Actors : Pc(x) = "closeRuntime" => actor'[x] = actor[x]
  BY <1>3, <1>4 DEF Pc
<1> QED
  BY <1>1, <1>3, <1>5, <1>6

\* A throw that leaves everything else to the catch.
LEMMA ThrowKeeps ==
  ASSUME LifecycleInv, NEW c \in Actors, StopServerFrom(c, actor), Moves(c), Pc(c) # "closeRuntime", Small',
         UNCHANGED <<orch, codex, runtimes, server, servers, crossedRuntime>>
  PROVE  LifecycleInv'
<1>1. /\ OneServer' /\ ActorBecomes(c, [pc |-> "closeServer", srv |-> server, rt |-> NoId]) /\ crossedServer' \in BOOLEAN
      /\ \A x \in Actors : actor'[x].pc \in {"runtime", "closeRuntime"} => actor'[x] = actor[x]
  BY StopCalled DEF LifecycleInv
<1>2. OneRuntime'
  BY <1>1, RuntimeRests DEF LifecycleInv, ActorBecomes, Pc
<1>3. Large' /\ actor' \in [Actors -> ActorCalls]
  BY <1>1, SmallLarge DEF LifecycleInv, Large, ActorBecomes
<1>4. Nested'
  BY <1>1, NestedRests DEF LifecycleInv
<1> QED
  BY <1>1, <1>2, <1>3, <1>4, Typed DEF LifecycleInv

\* The steps of startCodex that touch no runtime and no server.
LEMMA StartEndsKeep ==
  ASSUME LifecycleInv, NEW c \in Starts, StartAccess(c) \/ StartPair(c) \/ CatchEnd(c)
  PROVE  LifecycleInv'
<1>t. LifecycleTypeOK /\ c \in Actors /\ actor \in [Actors -> ActorCalls] /\ Small /\ Large
  BY Names, ActorTypes, SmallLarge DEF LifecycleInv
<1>p. Moves(c) /\ Pc(c) \in {"access", "pair", "check"}
  BY DEF StartAccess, StartPair, CatchEnd, Moves
<1>s. Small'
  BY <1>t DEF Small, StartAccess, StartPair, CatchEnd, Answer, StandbyRelay, Throw, ServiceStates
<1>1. CASE StartPair(c) /\ Throw(c)
  BY <1>1, <1>p, <1>s, <1>t, ThrowKeeps DEF StartPair, Throw
<1>2. CASE ~(StartPair(c) /\ Throw(c))
  <2>1. UNCHANGED <<orch, codex, runtimes, server, servers, crossedRuntime, crossedServer>>
    BY <1>2 DEF StartAccess, StartPair, CatchEnd
  <2>2. /\ actor' \in [Actors -> ActorCalls]
        /\ \A x \in Actors : actor'[x].pc \in {"runtime", "closeRuntime", "serve", "closeServer"} => actor'[x] = actor[x]
        /\ \A x \in Actors : Pc(x) = "closeRuntime" => actor'[x] = actor[x]
        /\ Nested'
    <3>1. Return(c, FALSE) \/ (\E pc \in {"client", "pair"} : actor' = [actor EXCEPT ![c].pc = pc])
      BY <1>2 DEF StartAccess, StartPair, CatchEnd, StandbyRelay, Go
    <3>2. CASE Return(c, FALSE)
      BY <1>p, <1>t, <3>2, ReturnEffect DEF LifecycleInv
    <3>3. ASSUME NEW pc \in {"client", "pair"}, actor' = [actor EXCEPT ![c].pc = pc]
          PROVE  /\ actor' \in [Actors -> ActorCalls] /\ actor'[c].pc = pc
                 /\ \A x \in Actors \ {c} : actor'[x] = actor[x]
                 /\ Nested'
      <4>1. /\ actor' \in [Actors -> ActorCalls] /\ actor'[c].pc = pc
            /\ \A x \in Actors \ {c} : actor'[x] = actor[x]
        BY <1>t, <3>3 DEF ActorCalls, Steps
      <4> QED
        <5>1. ActorBecomes(c, actor'[c])
          BY <4>1 DEF ActorBecomes
        <5> QED
          BY <1>p, <1>t, <4>1, <5>1, NestedRests DEF LifecycleInv
    <3> QED
      BY <1>p, <3>1, <3>2, <3>3 DEF Pc
  <2>3. Large'
    BY <1>t, <2>1 DEF Large
  <2>4. OneRuntime' /\ OneServer'
    BY <2>1, <2>2, RuntimeRests, ServerRests DEF LifecycleInv
  <2> QED
    BY <1>s, <2>2, <2>3, <2>4, Typed DEF LifecycleInv
<1> QED
  BY <1>1, <1>2

\* A runtime is created when none is starting or running; where one was being
\* closed that is noted.
LEMMA StartClientKeeps ==
  ASSUME LifecycleInv, NEW c \in Starts, StartClient(c)
  PROVE  LifecycleInv'
<1>t. LifecycleTypeOK /\ c \in Actors /\ Small /\ Large
  BY Names, SmallLarge DEF LifecycleInv
<1>p. Moves(c) /\ Pc(c) = "client"
  BY DEF StartClient, Moves
<1>s. Small'
  <2>1. codexState' \in ServiceStates
    BY <1>t DEF StartClient, Small, ServiceStates
  <2> QED
    BY <1>t, <2>1 DEF Small, StartClient
<1>1. CASE Throw(c) /\ UNCHANGED <<orch, codex, runtimes, crossedRuntime>>
  BY <1>1, <1>p, <1>s, <1>t, ThrowKeeps DEF Throw, StartClient
<1>2. CASE ~(Throw(c) /\ UNCHANGED <<orch, codex, runtimes, crossedRuntime>>)
  <2>0. MayConfigure /\ orch' = "starting" /\ UNCHANGED <<server, servers, crossedServer>>
        /\ crossedRuntime' = (crossedRuntime \/ \E a \in Actors : Pc(a) = "closeRuntime")
    BY <1>2 DEF StartClient
  <2>1. PICK r \in Free(runtimes) : /\ codex' = r /\ runtimes' = [runtimes EXCEPT ![r] = "starting"]
                                   /\ actor' = [actor EXCEPT ![c] = [pc |-> "runtime", srv |-> NoId, rt |-> r]]
    BY <1>2 DEF StartClient
  <2>2. r \in Ids /\ r # NoId
    BY Names DEF Free
  <2> DEFINE n == [pc |-> "runtime", srv |-> NoId, rt |-> r]
  <2>3. ActorBecomes(c, n)
    BY <1>t, <2>1, <2>2, OneActorBecomes DEF ActorCalls, Steps
  <2>4. n.pc = "runtime" /\ n.rt = r
    OBVIOUS
  <2> HIDE DEF n
  <2>5. /\ runtimes' \in [Ids -> {"none", "starting", "up"}] /\ runtimes'[r] = "starting"
        /\ \A i \in Ids : i # r => runtimes'[i] = runtimes[i]
    BY <1>t, <2>1, <2>2 DEF LifecycleTypeOK
  <2>6. OneRuntime'
    <3> SUFFICES ASSUME ~crossedRuntime' PROVE OneRuntime'
      BY DEF OneRuntime
    <3>1. ~crossedRuntime /\ \A x \in Actors : Pc(x) # "closeRuntime"
      BY <2>0
    <3>2. \A x \in Actors : Pc(x) # "runtime"
      BY <2>0, <3>1 DEF LifecycleInv, OneRuntime, MayConfigure
    <3>3. Alive(runtimes)' \subseteq {codex'} \ {NoId}
      <4>1. Alive(runtimes) = {}
        BY <2>0, <3>1 DEF LifecycleInv, OneRuntime, MayConfigure
      <4> QED
        BY <2>1, <2>2, <2>5, <4>1 DEF Alive
    <3> QED
      BY <2>0, <2>1, <2>2, <2>3, <2>4, <2>5, <3>1, <3>2, <3>3 DEF OneRuntime, Pc, ActorBecomes
  <2>7. OneServer'
    BY <2>0, <2>3, <2>4, ServerRests DEF LifecycleInv, ActorBecomes
  <2>8. Large'
    BY <1>t, <2>0, <2>1, <2>2, <2>5 DEF Large, ServiceStates
  <2> QED
    <3>1. Nested'
      BY <1>p, <1>t, <2>3, NestedRests DEF LifecycleInv
    <3>2. actor' \in [Actors -> ActorCalls]
      BY <2>3 DEF ActorBecomes
    <3> QED
      BY <1>s, <2>6, <2>7, <2>8, <3>1, <3>2, Typed DEF LifecycleInv
<1> QED
  BY <1>1, <1>2

\* The runtime is up, or is not and has been taken away.
LEMMA StartRuntimeKeeps ==
  ASSUME LifecycleInv, NEW c \in Starts, StartRuntime(c)
  PROVE  LifecycleInv'
<1>t. LifecycleTypeOK /\ c \in Actors /\ Small /\ Large
  BY Names, SmallLarge DEF LifecycleInv
<1>p. Moves(c) /\ Pc(c) = "runtime"
  BY DEF StartRuntime, Moves
<1>s. Small'
  BY <1>t DEF Small, StartRuntime
<1>u. UNCHANGED <<server, servers>>
  BY DEF StartRuntime
<1> DEFINE verify == [pc |-> "verify", srv |-> NoId, rt |-> NoId]
<1>v. verify \in ActorCalls /\ verify.pc = "verify"
  BY DEF ActorCalls, Steps
<1> HIDE DEF verify
<1>o. Throw(c) \/ (actor' = [actor EXCEPT ![c] = verify] /\ UNCHANGED crossedServer)
  BY DEF StartRuntime, verify
<1>a. /\ actor' \in [Actors -> ActorCalls] /\ \A x \in Actors \ {c} : actor'[x] = actor[x]
      /\ actor'[c].pc \notin {"runtime", "closeRuntime", "serve"}
      /\ OneServer' /\ Nested' /\ crossedServer' \in BOOLEAN
  <2>1. CASE Throw(c)
    <3>1. OneServer' /\ ActorBecomes(c, [pc |-> "closeServer", srv |-> server, rt |-> NoId]) /\ crossedServer' \in BOOLEAN
      BY <1>t, <1>u, <2>1, StopCalled DEF Throw, LifecycleInv
    <3>2. Nested'
      BY <1>p, <1>t, <3>1, NestedRests DEF LifecycleInv
    <3> QED
      BY <3>1, <3>2 DEF ActorBecomes
  <2>2. CASE actor' = [actor EXCEPT ![c] = verify] /\ UNCHANGED crossedServer
    <3>1. ActorBecomes(c, verify)
      BY <1>t, <1>v, <2>2, OneActorBecomes
    <3>2. OneServer'
      BY <1>u, <1>v, <2>2, <3>1, ServerRests DEF LifecycleInv, ActorBecomes
    <3>3. Nested'
      BY <1>p, <1>t, <3>1, NestedRests DEF LifecycleInv
    <3> QED
      BY <1>t, <1>v, <2>2, <3>1, <3>2, <3>3 DEF ActorBecomes, Large
  <2> QED
    BY <1>o, <2>1, <2>2
<1>c. ASSUME ~crossedRuntime
      PROVE  /\ orch = "starting" /\ actor[c].rt = codex /\ codex # NoId /\ codex \in Ids
             /\ \A i \in Ids : i # codex => runtimes[i] = "none"
             /\ \A x \in Actors : actor'[x].pc \notin {"runtime", "closeRuntime"}
  <2>1. orch = "starting" /\ actor[c].rt = codex /\ codex # NoId /\ codex \in Ids
    BY <1>c, <1>p, <1>t DEF LifecycleInv, OneRuntime, Large
  <2>2. \A i \in Ids : i # codex => runtimes[i] = "none"
    BY <1>c DEF LifecycleInv, OneRuntime, Alive
  <2>3. \A x \in Actors : x # c => Pc(x) \notin {"runtime", "closeRuntime"}
    BY <1>c, <1>p, <1>t, <2>1 DEF LifecycleInv, OneRuntime
  <2> QED
    BY <1>a, <2>1, <2>2, <2>3 DEF Pc
<1>1. CASE runtimes' = [runtimes EXCEPT ![actor[c].rt] = "up"] /\ orch' = "running" /\ UNCHANGED <<codex, crossedRuntime>>
  <2>1. OneRuntime'
    <3> SUFFICES ASSUME ~crossedRuntime PROVE OneRuntime'
      BY <1>1 DEF OneRuntime
    <3>1. \A i \in Ids : i # codex => runtimes'[i] = "none"
      BY <1>1, <1>c, <1>t DEF Large
    <3> QED
      BY <1>1, <1>c, <3>1 DEF OneRuntime, Alive, Pc
  <2>2. Large'
    BY <1>1, <1>a, <1>t, <1>u DEF Large, ServiceStates
  <2> QED
    BY <1>a, <1>s, <2>1, <2>2, Typed DEF LifecycleInv
<1>2. CASE /\ runtimes' = Down([runtimes EXCEPT ![actor[c].rt] = "none"], codex)
           /\ crossedRuntime' = (crossedRuntime \/ (codex # actor[c].rt /\ Cuts(runtimes, codex)))
           /\ orch' = (IF codex = NoId THEN orch ELSE "failed") /\ codex' = NoId
  <2>1. /\ runtimes' \in [Ids -> {"none", "starting", "up"}]
        /\ \A i \in Ids : runtimes'[i] \in {runtimes[i], "none"} /\ (i = actor[c].rt => runtimes'[i] = "none")
    BY <1>2, <1>t DEF Large, Down
  <2>2. OneRuntime'
    <3> SUFFICES ASSUME ~crossedRuntime' PROVE OneRuntime'
      BY DEF OneRuntime
    <3>1. ~crossedRuntime
      BY <1>2
    <3>2. \A i \in Ids : runtimes'[i] = "none"
      BY <1>c, <2>1, <3>1
    <3> QED
      BY <1>2, <1>c, <3>1, <3>2 DEF OneRuntime, Alive, Pc
  <2>3. Large'
    <3>1. orch' \in ServiceStates /\ codex' \in Ids \cup {NoId} /\ crossedRuntime' \in BOOLEAN
      BY <1>2, <1>t DEF Large, ServiceStates
    <3> QED
      BY <1>a, <1>t, <1>u, <2>1, <3>1 DEF Large
  <2> QED
    BY <1>a, <1>s, <2>2, <2>3, Typed DEF LifecycleInv
<1> QED
  BY <1>1, <1>2 DEF StartRuntime

\* The server is created for the runtime; what was there beside it is noted.
LEMMA StartVerifyKeeps ==
  ASSUME LifecycleInv, NEW c \in Starts, StartVerify(c)
  PROVE  LifecycleInv'
<1>t. LifecycleTypeOK /\ c \in Actors /\ Small /\ Large
  BY Names, SmallLarge DEF LifecycleInv
<1>p. Moves(c) /\ Pc(c) = "verify"
  BY DEF StartVerify, Moves
<1>s. Small'
  BY <1>t DEF Small, StartVerify
<1>u. UNCHANGED <<orch, codex, runtimes, crossedRuntime>>
  BY DEF StartVerify
<1>1. CASE Throw(c) /\ UNCHANGED <<server, servers>>
  BY <1>1, <1>p, <1>s, <1>t, <1>u, ThrowKeeps DEF Throw
<1>2. CASE ~(Throw(c) /\ UNCHANGED <<server, servers>>)
  <2>0. crossedServer' = (crossedServer \/ server # NoId \/ \E a \in Actors : Pc(a) = "closeServer")
    BY <1>2 DEF StartVerify
  <2>1. PICK s \in Free(servers) : /\ server' = s /\ servers' = [servers EXCEPT ![s] = "starting"]
                                  /\ actor' = [actor EXCEPT ![c] = [pc |-> "serve", srv |-> s, rt |-> NoId]]
    BY <1>2 DEF StartVerify
  <2>2. s \in Ids /\ s # NoId
    BY Names DEF Free
  <2> DEFINE n == [pc |-> "serve", srv |-> s, rt |-> NoId]
  <2>3. ActorBecomes(c, n)
    BY <1>t, <2>1, <2>2, OneActorBecomes DEF ActorCalls, Steps
  <2>4. n.pc = "serve" /\ n.srv = s
    OBVIOUS
  <2> HIDE DEF n
  <2>5. /\ servers' \in [Ids -> {"none", "starting", "up"}] /\ servers'[s] = "starting"
        /\ \A i \in Ids : i # s => servers'[i] = servers[i]
    BY <1>t, <2>1, <2>2 DEF LifecycleTypeOK
  <2>6. OneServer'
    <3> SUFFICES ASSUME ~crossedServer' PROVE OneServer'
      BY DEF OneServer
    <3>1. ~crossedServer /\ server = NoId /\ \A x \in Actors : Pc(x) # "closeServer"
      BY <2>0
    <3>2. \A x \in Actors : Pc(x) # "serve"
      BY <3>1 DEF LifecycleInv, OneServer
    <3>3. Alive(servers)' \subseteq {server'} \ {NoId}
      <4>1. Alive(servers) = {}
        BY <3>1 DEF LifecycleInv, OneServer
      <4> QED
        BY <2>1, <2>2, <2>5, <4>1 DEF Alive
    <3> QED
      BY <2>1, <2>2, <2>3, <2>4, <2>5, <3>1, <3>2, <3>3 DEF OneServer, Pc, ActorBecomes
  <2>7. OneRuntime'
    BY <1>p, <1>u, <2>3, <2>4, RuntimeRests DEF LifecycleInv, ActorBecomes
  <2>8. Large'
    BY <1>t, <1>u, <2>0, <2>1, <2>2, <2>5 DEF Large
  <2>9. Nested'
    BY <1>p, <1>t, <2>3, NestedRests DEF LifecycleInv
  <2> QED
    BY <1>s, <2>3, <2>6, <2>7, <2>8, <2>9, Typed DEF LifecycleInv, ActorBecomes
<1> QED
  BY <1>1, <1>2

\* The start of the server ends.
LEMMA StartServerKeeps ==
  ASSUME LifecycleInv, NEW c \in Starts, StartServer(c)
  PROVE  LifecycleInv'
<1>t. LifecycleTypeOK /\ c \in Actors /\ Small /\ Large
  BY Names, SmallLarge DEF LifecycleInv
<1>p. Moves(c) /\ Pc(c) = "serve"
  BY DEF StartServer, Moves
<1>s. Small'
  BY <1>t DEF Small, StartServer, Tell, ServiceStates
<1>u. UNCHANGED <<orch, codex, runtimes, server, crossedRuntime>>
  BY DEF StartServer
<1>c. ASSUME ~crossedServer
      PROVE  /\ actor[c].srv = server /\ server # NoId /\ server \in Ids /\ servers[server] = "starting"
             /\ \A i \in Ids : i # server => servers[i] = "none"
             /\ \A x \in Actors : x # c => Pc(x) \notin {"serve", "closeServer"}
  <2>1. actor[c].srv = server /\ server # NoId /\ server \in Ids /\ servers[server] = "starting"
    BY <1>c, <1>p, <1>t DEF LifecycleInv, OneServer, Large
  <2>2. \A i \in Ids : i # server => servers[i] = "none"
    BY <1>c DEF LifecycleInv, OneServer, Alive
  <2>3. \A x \in Actors : x # c => Pc(x) \notin {"serve", "closeServer"}
    BY <1>c, <1>p, <1>t, <2>1 DEF LifecycleInv, OneServer
  <2> QED
    BY <2>1, <2>2, <2>3
<1>f. ASSUME NEW state \in {"none", "up"}, servers' = [servers EXCEPT ![actor[c].srv] = state]
      PROVE  /\ servers' \in [Ids -> {"none", "starting", "up"}]
             /\ ~crossedServer => /\ servers'[server] = state
                                  /\ \A i \in Ids : i # server => servers'[i] = "none"
  BY <1>c, <1>f, <1>t DEF Large
<1> DEFINE n == [pc |-> "closeServer", srv |-> server, rt |-> NoId]
<1>n. n \in ActorCalls /\ n.pc = "closeServer" /\ n.srv = server
  BY <1>t DEF ActorCalls, Steps, Large
<1> HIDE DEF n
<1>1. CASE /\ servers' = [servers EXCEPT ![actor[c].srv] = "none"] /\ actor' = [actor EXCEPT ![c] = n]
           /\ crossedServer' = (crossedServer \/ (server # actor[c].srv /\ Cuts(servers, server)))
  <2>1. ActorBecomes(c, n)
    BY <1>1, <1>n, <1>t, OneActorBecomes
  <2>2. OneServer'
    <3> SUFFICES ASSUME ~crossedServer' PROVE OneServer'
      BY DEF OneServer
    <3>1. ~crossedServer
      BY <1>1
    <3>2. \A i \in Ids : servers'[i] = "none"
      BY <1>1, <1>c, <1>f, <3>1
    <3> QED
      BY <1>c, <1>n, <1>u, <2>1, <3>1, <3>2 DEF OneServer, Alive, Pc, ActorBecomes
  <2>3. OneRuntime'
    BY <1>n, <1>p, <1>u, <2>1, RuntimeRests DEF LifecycleInv, ActorBecomes
  <2>4. Large'
    BY <1>1, <1>f, <1>t, <1>u DEF Large
  <2>5. Nested'
    BY <1>p, <1>t, <2>1, NestedRests DEF LifecycleInv
  <2> QED
    BY <1>s, <2>1, <2>2, <2>3, <2>4, <2>5, Typed DEF LifecycleInv, ActorBecomes
<1>2. CASE /\ servers' = [servers EXCEPT ![actor[c].srv] = "up"] /\ server = NoId /\ Throw(c)
  <2>1. ActorBecomes(c, n) /\ (crossedServer => crossedServer') /\ crossedServer' \in BOOLEAN
    BY <1>2, <1>n, <1>t, OneActorBecomes DEF Throw, StopServerFrom, Large, n
  <2>2. OneServer'
    BY <1>2, <1>c, <2>1 DEF OneServer
  <2>3. OneRuntime'
    BY <1>n, <1>p, <1>u, <2>1, RuntimeRests DEF LifecycleInv, ActorBecomes
  <2>4. Large'
    BY <1>2, <1>f, <1>t, <1>u, <2>1 DEF Large
  <2>5. Nested'
    BY <1>p, <1>t, <2>1, NestedRests DEF LifecycleInv
  <2> QED
    BY <1>s, <2>1, <2>2, <2>3, <2>4, <2>5, Typed DEF LifecycleInv, ActorBecomes
<1>3. CASE servers' = [servers EXCEPT ![actor[c].srv] = "up"] /\ Return(c, TRUE) /\ UNCHANGED crossedServer
  <2>1. /\ actor' \in [Actors -> ActorCalls] /\ Nested'
        /\ \A x \in Actors : actor'[x].pc \in {"runtime", "closeRuntime", "serve", "closeServer"} => actor'[x] = actor[x] /\ x # c
        /\ \A x \in Actors : Pc(x) = "closeRuntime" => actor'[x] = actor[x]
    BY <1>3, <1>p, <1>t, ReturnEffect DEF LifecycleInv
  <2>2. OneServer'
    <3> SUFFICES ASSUME ~crossedServer PROVE OneServer'
      BY <1>3 DEF OneServer
    <3>1. \A x \in Actors : actor'[x].pc \notin {"serve", "closeServer"}
      BY <1>c, <2>1 DEF Pc
    <3> QED
      BY <1>3, <1>c, <1>f, <1>u, <3>1 DEF OneServer, Alive, Pc
  <2>3. OneRuntime'
    BY <1>u, <2>1, RuntimeRests DEF LifecycleInv
  <2>4. Large'
    BY <1>3, <1>f, <1>t, <1>u DEF Large
  <2> QED
    BY <1>s, <2>1, <2>2, <2>3, <2>4, Typed DEF LifecycleInv
<1> QED
  BY <1>1, <1>2, <1>3 DEF StartServer, n

\* The catch of a start, stopCodex and the recovery, at the server.
LEMMA ServerStopKeeps ==
  ASSUME LifecycleInv, NEW a \in Actors, Moves(a), Pc(a) = "closeServer", NEW rest \in {"check", "idle"},
         StopOrchestrator(a, rest), UNCHANGED <<codex, runtimes, crossedServer>>, Small'
  PROVE  LifecycleInv'
<1>t. LifecycleTypeOK /\ Large
  BY SmallLarge DEF LifecycleInv
<1>1. /\ OneServer' /\ OneRuntime'
      /\ servers' \in [Ids -> {"none", "starting", "up"}] /\ server' = NoId /\ orch' \in ServiceStates
      /\ actor' \in [Actors -> ActorCalls] /\ crossedRuntime' \in BOOLEAN
  BY ServerStopped DEF LifecycleInv
<1>2. Large'
  BY <1>1, <1>t DEF Large
<1>3. ActorBecomes(a, actor'[a])
  <2>1. \A x \in Actors \ {a} : actor'[x] = actor[x]
    BY <1>t, ActorTypes DEF StopOrchestrator
  <2> QED
    BY <1>1, <2>1 DEF ActorBecomes
<1>4. Nested'
  BY <1>3, NestedRests DEF LifecycleInv
<1> QED
  BY <1>1, <1>2, <1>4, Typed DEF LifecycleInv

LEMMA RuntimeStopKeeps ==
  ASSUME LifecycleInv, NEW a \in Actors, Pc(a) = "closeRuntime",
         runtimes' = Down(runtimes, actor[a].rt), codex' = NoId, orch' = "stopped",
         UNCHANGED <<crossedRuntime, server, servers, crossedServer>>,
         actor' \in [Actors -> ActorCalls], Nested', Small',
         \A x \in Actors : actor'[x].pc \in {"runtime", "closeRuntime", "serve", "closeServer"} => x # a /\ actor'[x] = actor[x]
  PROVE  LifecycleInv'
<1>t. LifecycleTypeOK /\ Large
  BY SmallLarge DEF LifecycleInv
<1>1. OneRuntime' /\ runtimes' \in [Ids -> {"none", "starting", "up"}]
  BY <1>t, RuntimeStopped DEF LifecycleInv
<1>2. OneServer'
  BY ServerRests DEF LifecycleInv
<1>3. Large'
  BY <1>1, <1>t DEF Large, ServiceStates
<1> QED
  BY <1>1, <1>2, <1>3, Typed DEF LifecycleInv

LEMMA StopStepsKeep ==
  ASSUME LifecycleInv,
         \/ \E c \in Starts : CatchServer(c) \/ CatchRuntime(c)
         \/ StopServer \/ StopRuntime
  PROVE  LifecycleInv'
<1>t. LifecycleTypeOK /\ Small /\ Large /\ Starts \subseteq Actors /\ Stop \in Actors
  BY Names, SmallLarge DEF LifecycleInv
<1>1. ASSUME NEW c \in Starts, CatchServer(c) PROVE LifecycleInv'
  <2>1. Small'
    BY <1>1, <1>t DEF CatchServer, Small, Tell
  <2>2. Moves(c) /\ Pc(c) = "closeServer" /\ c \in Actors
    BY <1>1, <1>t DEF CatchServer, Moves
  <2> QED
    BY <1>1, <2>1, <2>2, ServerStopKeeps DEF CatchServer
<1>2. CASE StopServer
  <2>1. Small'
    BY <1>2, <1>t DEF StopServer, Stopped, Small, Tell, ServiceStates
  <2>2. Moves(Stop) /\ Pc(Stop) = "closeServer"
    BY <1>2 DEF StopServer, Moves
  <2> QED
    BY <1>2, <1>t, <2>1, <2>2, ServerStopKeeps DEF StopServer
<1>3. ASSUME NEW a \in Starts \cup {Stop}, NEW rest \in {"check", "idle"}, OrchestratorStopped(a, rest), Pc(a) = "closeRuntime",
             Small', UNCHANGED <<crossedRuntime, server, servers, crossedServer>>
      PROVE  LifecycleInv'
  <2> DEFINE n == [pc |-> rest, srv |-> NoId, rt |-> NoId]
  <2>1. n \in ActorCalls /\ n.pc = rest
    BY DEF ActorCalls, Steps
  <2>2. ActorBecomes(a, n) /\ a \in Actors
    BY <1>3, <1>t, <2>1, OneActorBecomes DEF OrchestratorStopped
  <2>3. Nested'
    BY <1>3, <1>t, <2>2, NestedRests DEF LifecycleInv, Moves
  <2> HIDE DEF n
  <2>4. \A x \in Actors : actor'[x].pc \in {"runtime", "closeRuntime", "serve", "closeServer"} => x # a /\ actor'[x] = actor[x]
    BY <2>1, <2>2 DEF ActorBecomes
  <2> QED
    BY <1>3, <2>2, <2>3, <2>4, RuntimeStopKeeps DEF OrchestratorStopped, ActorBecomes
<1>4. ASSUME NEW c \in Starts, CatchRuntime(c) PROVE LifecycleInv'
  <2>1. Small'
    BY <1>4, <1>t DEF CatchRuntime, Small
  <2> QED
    BY <1>3, <1>4, <2>1 DEF CatchRuntime
<1>5. CASE StopRuntime
  <2>1. Small'
    BY <1>5, <1>t DEF StopRuntime, Stopped, Small, Tell, ServiceStates
  <2> QED
    BY <1>3, <1>5, <2>1 DEF StopRuntime
<1> QED
  BY <1>1, <1>2, <1>4, <1>5

\* The recovery calls startCodex in the step in which the old runtime is gone.
LEMMA RecoveryKeeps ==
  ASSUME LifecycleInv, RecoverServer \/ RecoverRuntime \/ RecoverFailed
  PROVE  LifecycleInv'
<1>t. LifecycleTypeOK /\ Small /\ Large /\ Recovery \in Actors /\ Inner \in Actors /\ Recovery # Inner
  BY Names, SmallLarge DEF LifecycleInv, Recovery, Inner
<1>i. Pc(Recovery) \in {"closeServer", "closeRuntime", "check"} => Pc(Inner) = "idle" /\ Moves(Recovery)
  BY DEF LifecycleInv, Nested, Moves
<1>s. Small'
  BY <1>t DEF RecoverServer, RecoverRuntime, RecoverFailed, Small, ServiceStates
<1> DEFINE waits == [Idle EXCEPT !.pc = "inner"]
<1>w. waits \in ActorCalls /\ waits.pc = "inner" /\ Restart \in ActorCalls /\ Restart.pc = "access" /\ Idle \in ActorCalls /\ Idle.pc = "idle"
  BY DEF Idle, Restart, ActorCalls, Steps
<1> HIDE DEF waits
<1>b. ASSUME actor' = [actor EXCEPT ![Recovery] = waits, ![Inner] = Restart], Pc(Inner) = "idle", Pc(Recovery) \in {"closeServer", "closeRuntime"}
      PROVE  /\ actor' \in [Actors -> ActorCalls] /\ Nested'
             /\ \A x \in Actors : actor'[x].pc \in {"runtime", "closeRuntime", "serve", "closeServer"} => actor'[x] = actor[x] /\ x # Recovery
             /\ \A x \in Actors : Pc(x) = "closeRuntime" /\ Pc(Recovery) # "closeRuntime" => actor'[x] = actor[x]
  <2>1. /\ actor' \in [Actors -> ActorCalls] /\ actor'[Recovery] = waits /\ actor'[Inner] = Restart
        /\ \A x \in Actors \ {Recovery, Inner} : actor'[x] = actor[x]
    BY <1>b, <1>t, <1>w, ActorTypes
  <2>2. Nested'
    BY <1>w, <2>1 DEF Nested, Pc
  <2> QED
    BY <1>b, <1>w, <2>1, <2>2 DEF Pc
<1>1. CASE RecoverServer /\ orch \in {"stopped", "stopping"}
  <2>1. /\ servers' = Down(servers, actor[Recovery].srv) /\ server' = NoId /\ Pc(Recovery) = "closeServer"
        /\ actor' = [actor EXCEPT ![Recovery] = waits, ![Inner] = Restart]
        /\ UNCHANGED <<orch, codex, runtimes, crossedRuntime, crossedServer>>
    BY <1>1 DEF RecoverServer, waits
  <2>2. OneServer' /\ servers' \in [Ids -> {"none", "starting", "up"}]
    BY <1>b, <1>i, <1>t, <2>1, ServerGone DEF LifecycleInv
  <2>3. OneRuntime'
    BY <1>b, <1>i, <2>1, RuntimeRests DEF LifecycleInv
  <2>4. Large'
    BY <1>t, <2>1, <2>2 DEF Large
  <2> QED
    BY <1>b, <1>i, <1>s, <2>1, <2>2, <2>3, <2>4, Typed DEF LifecycleInv
<1>2. CASE RecoverServer /\ orch \notin {"stopped", "stopping"}
  BY <1>2, <1>i, <1>s, <1>t, ServerStopKeeps DEF RecoverServer
<1>3. CASE RecoverRuntime
  <2>1. /\ runtimes' = Down(runtimes, actor[Recovery].rt) /\ codex' = NoId /\ orch' = "stopped"
        /\ actor' = [actor EXCEPT ![Recovery] = waits, ![Inner] = Restart] /\ Pc(Recovery) = "closeRuntime"
        /\ UNCHANGED <<crossedRuntime, server, servers, crossedServer>>
    BY <1>3 DEF RecoverRuntime, waits
  <2> QED
    BY <1>b, <1>i, <1>s, <1>t, <2>1, RuntimeStopKeeps
<1>4. CASE RecoverFailed
  <2>1. /\ UNCHANGED <<orch, codex, runtimes, server, servers, crossedRuntime, crossedServer>>
        /\ ActorBecomes(Recovery, Idle) /\ Pc(Recovery) = "check"
    BY <1>4, <1>t, <1>w, OneActorBecomes DEF RecoverFailed
  <2>2. OneRuntime' /\ OneServer'
    BY <1>w, <2>1, RuntimeRests, ServerRests DEF LifecycleInv, ActorBecomes
  <2>3. Nested'
    BY <1>i, <1>t, <2>1, NestedRests DEF LifecycleInv
  <2>4. Large' /\ actor' \in [Actors -> ActorCalls]
    BY <1>t, <2>1 DEF Large, ActorBecomes
  <2> QED
    BY <1>s, <2>2, <2>3, <2>4, Typed DEF LifecycleInv
<1> QED
  BY <1>1, <1>2, <1>3, <1>4

-----------------------------------------------------------------------------
(* The operations that arrive *)

\* What touches no call, no runtime and no server.
LEMMA RestKeeps ==
  ASSUME LifecycleInv, Small',
         UNCHANGED <<orch, codex, runtimes, server, servers, actor, crossedRuntime, crossedServer>>
  PROVE  LifecycleInv'
<1>1. OneRuntime' /\ OneServer'
  BY RuntimeRests, ServerRests DEF LifecycleInv
<1>2. Nested'
  BY DEF LifecycleInv, Nested, Pc
<1>3. Large' /\ actor' \in [Actors -> ActorCalls]
  BY SmallLarge DEF LifecycleInv, Large
<1> QED
  BY <1>1, <1>2, <1>3, Typed DEF LifecycleInv

LEMMA StartCallKeeps ==
  ASSUME LifecycleInv, NEW c \in Callers, Pc(c) = "idle", StartCall(c),
         click' \in {"none", "start", "stop"},
         UNCHANGED <<codexState, orch, codex, runtimes, server, servers, relayOn, inspecting, failures,
                     crossedRuntime, crossedServer>>
  PROVE  LifecycleInv'
<1>t. LifecycleTypeOK /\ c \in Actors /\ Small /\ Large /\ actor \in [Actors -> ActorCalls]
  BY Names, SmallLarge DEF LifecycleInv
<1>1. Small'
  <2>1. ops' \in 0..MaxOps
    BY <1>t, OpsCounted DEF StartCall, Begin, Small
  <2>2. overlapped' \in BOOLEAN /\ reported' \in {"standby", "starting", "running", "failed"}
    BY <1>t DEF StartCall, Begin, Small
  <2> QED
    BY <1>t, <2>1, <2>2 DEF Small
<1>2. CASE UNCHANGED actor
  BY <1>1, <1>2, RestKeeps
<1>3. CASE actor' = Go(c, "access")
  <2>1. /\ actor' \in [Actors -> ActorCalls] /\ actor'[c].pc = "access"
        /\ \A x \in Actors \ {c} : actor'[x] = actor[x]
    BY <1>t, <1>3 DEF Go, ActorCalls, Steps
  <2>2. OneRuntime' /\ OneServer'
    BY <2>1, RuntimeRests, ServerRests DEF LifecycleInv, Pc
  <2>3. ActorBecomes(c, actor'[c]) /\ Moves(c)
    BY <2>1 DEF ActorBecomes, Moves
  <2>4. Nested'
    BY <1>t, <2>3, NestedRests DEF LifecycleInv
  <2>5. Large'
    BY <1>t DEF Large
  <2> QED
    BY <1>1, <2>1, <2>2, <2>4, <2>5, Typed DEF LifecycleInv
<1> QED
  BY <1>2, <1>3 DEF StartCall

LEMMA ArrivalsKeep ==
  ASSUME LifecycleInv, StopByWindow \/ (\E c \in Callers : StartByWindow(c)) \/ StartByRelay
  PROVE  LifecycleInv'
<1>t. LifecycleTypeOK /\ Small /\ Relay \in Callers /\ Stop \in Actors
  BY Names, SmallLarge DEF LifecycleInv
<1>1. ASSUME NEW c \in Callers, StartByWindow(c) PROVE LifecycleInv'
  BY <1>1, StartCallKeeps DEF StartByWindow
<1>2. CASE StartByRelay
  BY <1>2, <1>t, StartCallKeeps DEF StartByRelay, Small
<1>3. CASE StopByWindow
  <2>1. Small'
    <3>1. ops' \in 0..MaxOps /\ overlapped' \in BOOLEAN
      BY <1>3, <1>t, OpsCounted DEF StopByWindow, Begin, Small
    <3> QED
      BY <1>3, <1>t, <3>1 DEF StopByWindow, Small, ServiceStates
  <2>2. CASE StopServerFrom(Stop, actor)
    BY <1>3, <1>t, <2>1, <2>2, ThrowKeeps DEF StopByWindow, Moves
  <2>3. CASE UNCHANGED <<actor, crossedServer>>
    BY <1>3, <2>1, <2>3, RestKeeps DEF StopByWindow
  <2> QED
    BY <1>3, <2>2, <2>3 DEF StopByWindow
<1> QED
  BY <1>1, <1>2, <1>3

LEMMA EventsKeep ==
  ASSUME LifecycleInv, Click \/ RelayReplaced \/ MonitorTick \/ MonitorHealthy \/ MonitorUnhealthy
  PROVE  LifecycleInv'
<1>t. LifecycleTypeOK /\ Small /\ Recovery \in Actors
  BY Names, SmallLarge DEF LifecycleInv
<1>1. CASE Click \/ RelayReplaced
  <2>1. Small'
    BY <1>1, <1>t DEF Click, RelayReplaced, Small
  <2> QED
    BY <1>1, <2>1, RestKeeps DEF Click, RelayReplaced
<1>2. CASE MonitorTick \/ MonitorHealthy
  <2>1. failures' \in 0..1 /\ inspecting' \in BOOLEAN
    <3>1. failures' = failures \/ failures' = 0
      BY <1>2 DEF MonitorTick, MonitorHealthy
    <3>2. inspecting' \in BOOLEAN
      BY <1>2, <1>t DEF MonitorTick, MonitorHealthy, Small
    <3> QED
      BY <1>t, <3>1, <3>2 DEF Small
  <2>2. Small'
    BY <1>2, <1>t, <2>1 DEF MonitorTick, MonitorHealthy, Small
  <2> QED
    BY <1>2, <2>2, RestKeeps DEF MonitorTick, MonitorHealthy
<1>3. CASE MonitorUnhealthy
  <2>1. Small'
    <3>1. ops' \in 0..MaxOps /\ overlapped' \in BOOLEAN
      BY <1>3, <1>t, OpsCounted DEF MonitorUnhealthy, Begin, Small
    <3>2. failures' \in 0..1
      BY <1>3, <1>t DEF MonitorUnhealthy, Tolerated, Small
    <3>3. reported' \in {"standby", "starting", "running", "failed"} /\ codexState' \in ServiceStates
      BY <1>3, <1>t DEF MonitorUnhealthy, Tell, Small, ServiceStates
    <3> QED
      BY <1>3, <1>t, <3>1, <3>2, <3>3 DEF MonitorUnhealthy, Small
  <2>2. CASE StopServerFrom(Recovery, actor) /\ Pc(Recovery) = "idle"
    BY <1>3, <1>t, <2>1, <2>2, ThrowKeeps DEF MonitorUnhealthy, Moves
  <2>3. CASE UNCHANGED <<actor, crossedServer>>
    BY <1>3, <2>1, <2>3, RestKeeps DEF MonitorUnhealthy
  <2> QED
    BY <1>3, <2>2, <2>3 DEF MonitorUnhealthy
<1> QED
  BY <1>1, <1>2, <1>3

-----------------------------------------------------------------------------
(* The theorems about the lifecycle *)

LEMMA LifecycleStarts == DesktopInit => LifecycleInv
<1> SUFFICES ASSUME DesktopInit PROVE LifecycleInv
  OBVIOUS
<1>1. Idle \in ActorCalls /\ Idle.pc = "idle"
  BY DEF Idle, ActorCalls, Steps
<1>2. \A a \in Actors : Pc(a) = "idle"
  BY <1>1 DEF DesktopInit, Pc
<1>3. OneRuntime /\ OneServer
  BY <1>2 DEF DesktopInit, OneRuntime, OneServer, Alive
<1>4. Nested
  BY <1>2, Names DEF Nested
<1>5. ops \in 0..MaxOps /\ failures \in 0..1
  BY LifecycleAssumption DEF DesktopInit, LifecycleAssumption
<1>6. Small
  BY <1>5 DEF DesktopInit, Small, ServiceStates
<1>7. Large /\ actor \in [Actors -> ActorCalls]
  BY <1>1 DEF DesktopInit, Large, ServiceStates
<1> QED
  BY <1>3, <1>4, <1>6, <1>7, SmallLarge DEF LifecycleInv

LEMMA LifecycleMoves == LifecycleInv /\ [DesktopNext]_desktopVars => LifecycleInv'
<1> SUFFICES ASSUME LifecycleInv, [DesktopNext]_desktopVars PROVE LifecycleInv'
  OBVIOUS
<1>1. CASE Event \/ Arrival
  BY <1>1, ArrivalsKeep, EventsKeep DEF Event, Arrival
<1>2. CASE StopStep
  BY <1>2, StopStepsKeep DEF StopStep
<1>3. CASE RecoveryStep
  BY <1>3, RecoveryKeeps DEF RecoveryStep
<1>4. ASSUME NEW c \in Starts, StartStep(c) PROVE LifecycleInv'
  BY <1>4, StartEndsKeep, StartClientKeeps, StartRuntimeKeeps, StartVerifyKeeps, StartServerKeeps, StopStepsKeep
  DEF StartStep
<1>5. CASE UNCHANGED desktopVars
  <2>1. Small'
    BY <1>5, SmallLarge DEF LifecycleInv, Small, desktopVars
  <2> QED
    BY <1>5, <2>1, RestKeeps DEF desktopVars
<1> QED
  BY <1>1, <1>2, <1>3, <1>4, <1>5 DEF DesktopNext

LEMMA OwnedOrCrossed == LifecycleInv => StrayOnlyWhenCrossed
BY DEF LifecycleInv, OneRuntime, OneServer, StrayOnlyWhenCrossed

\* However many operations overlap, a runtime or a server that nobody owns is
\* left behind only where the start and the stop of one overlapped (startCodex,
\* stopCodex and recoverHybridControl of main.ts over orchestrator.ts).
THEOREM StrayHolds == DesktopSpec => []StrayOnlyWhenCrossed
BY LifecycleStarts, LifecycleMoves, OwnedOrCrossed, PTL DEF DesktopSpec

-----------------------------------------------------------------------------
(* Operations that do not overlap *)

Every(f, i, s) == \A x \in Ids : f[x] = IF x = i THEN s ELSE "none"
Empty == /\ codex = NoId /\ server = NoId /\ orch = "stopped"
         /\ Every(runtimes, NoId, "none") /\ Every(servers, NoId, "none")
RuntimeUp == orch = "running" /\ codex # NoId /\ Every(runtimes, codex, "up")
NoServer == server = NoId /\ Every(servers, NoId, "none")
RuntimeCloses == Every(runtimes, codex, "up") \/ Every(runtimes, codex, "none")
Closable ==
  /\ Every(servers, server, "up") \/ Every(servers, server, "none")
  /\ RuntimeCloses /\ orch \in {"running", "stopped", "failed"} /\ (orch = "stopped" => codex = NoId)

\* What there is at each await of the one operation that is under way.
Phase(a) ==
  /\ Pc(a) = "access" => Empty /\ codexState \in {"stopped", "failed"}
  /\ Pc(a) \in {"pair", "client", "check"} => Empty
  /\ Pc(a) = "runtime" => NoServer /\ codex # NoId /\ actor[a].rt = codex /\ Every(runtimes, codex, "starting")
  /\ Pc(a) = "verify" => NoServer /\ RuntimeUp
  /\ Pc(a) = "serve" => RuntimeUp /\ server # NoId /\ actor[a].srv = server /\ Every(servers, server, "starting")
  /\ Pc(a) = "closeServer" => actor[a].srv = server /\ Closable
  /\ Pc(a) = "closeRuntime" => NoServer /\ actor[a].rt = codex /\ RuntimeCloses

\* One operation is under way; a hub that listens has been told that the device
\* starts, unless it stops.
NotTold == relayOn => reported # "running"
Only(a) ==
  /\ Pc(a) \notin {"idle", "inner"}
  /\ \A x \in Actors \ {a} : Pc(x) = IF a = Inner /\ x = Recovery THEN "inner" ELSE "idle"
  /\ a # Stop => NotTold
  /\ Phase(a)

AtRest ==
  /\ \A x \in Actors : Pc(x) = "idle"
  /\ IF codexState = "running" THEN RuntimeUp /\ server # NoId /\ Every(servers, server, "up")
     ELSE Empty /\ codexState \in {"stopped", "failed"}
  /\ relayOn => (reported = "running" <=> codexState = "running")

\* As long as operations have not overlapped, none is under way or exactly one is.
InTurn == ~overlapped => AtRest \/ \E a \in Actors : Only(a)

LEMMA StillAlone ==
  ASSUME NEW a \in Actors, Only(a), NEW r, ActorBecomes(a, r), r.pc \notin {"idle", "inner"}, Phase(a)',
         a # Stop => NotTold'
  PROVE  InTurn'
<1>1. \A x \in Actors \ {a} : actor'[x].pc = Pc(x)
  BY DEF ActorBecomes, Pc
<1>2. actor'[a].pc \notin {"idle", "inner"}
  BY DEF ActorBecomes
<1>3. \A x \in Actors \ {a} : Pc(x) = IF a = Inner /\ x = Recovery THEN "inner" ELSE "idle"
  BY DEF Only
<1>4. Only(a)'
  BY <1>1, <1>2, <1>3 DEF Only, Pc
<1> QED
  BY <1>4 DEF InTurn

\* A start or the recovery gives up and calls remoteServer?.stop().
LEMMA ThrownAlone ==
  ASSUME LifecycleTypeOK, NEW a \in Actors, Only(a), StopServerFrom(a, actor), server' = server,
         Closable', a # Stop => NotTold'
  PROVE  InTurn'
<1> DEFINE r == [pc |-> "closeServer", srv |-> server, rt |-> NoId]
<1>1. r \in ActorCalls /\ r.pc = "closeServer" /\ r.srv = server
  BY DEF LifecycleTypeOK, ActorCalls, Steps
<1>2. actor' = [actor EXCEPT ![a] = r]
  BY DEF StopServerFrom
<1> HIDE DEF r
<1>3. ActorBecomes(a, r)
  BY <1>1, <1>2, OneActorBecomes
<1>4. Phase(a)'
  BY <1>1, <1>3 DEF Phase, Pc, ActorBecomes
<1> QED
  BY <1>1, <1>3, <1>4, StillAlone

\* A start that returns has failed; the recovery that called it goes to its catch.
LEMMA FailedAlone ==
  ASSUME LifecycleTypeOK, Nested, NEW c \in Starts, Only(c), Pc(c) # "closeRuntime", Return(c, FALSE),
         Empty', codexState' \in {"stopped", "failed"}, NotTold'
  PROVE  InTurn'
<1>1. /\ actor'[c] = Idle
      /\ actor'[Recovery] = IF c = Inner THEN [Idle EXCEPT !.pc = "check"] ELSE actor[Recovery]
      /\ \A x \in Actors \ {c, Recovery} : actor'[x] = actor[x]
  BY ReturnEffect DEF Only
<1>2. Idle.pc = "idle" /\ [Idle EXCEPT !.pc = "check"].pc = "check"
  BY DEF Idle
<1>3. \A x \in Actors \ {c} : Pc(x) = IF c = Inner /\ x = Recovery THEN "inner" ELSE "idle"
  BY DEF Only
<1>4. CASE c = Inner
  <2>1. actor'[Recovery].pc = "check" /\ \A x \in Actors \ {Recovery} : actor'[x].pc = "idle"
    BY <1>1, <1>2, <1>3, <1>4, Names DEF Pc
  <2>2. Phase(Recovery)'
    BY <2>1 DEF Phase, Pc
  <2>3. Only(Recovery)'
    BY <2>1, <2>2, Names DEF Only, Pc
  <2> QED
    BY <2>3, Names DEF InTurn
<1>5. CASE c # Inner
  <2>1. \A x \in Actors : actor'[x].pc = "idle"
    BY <1>1, <1>2, <1>3, <1>5, Names DEF Pc
  <2>2. AtRest'
    BY <2>1 DEF AtRest, Pc, NotTold
  <2> QED
    BY <2>2 DEF InTurn
<1> QED
  BY <1>4, <1>5


LEMMA AccessAlone ==
  ASSUME LifecycleInv, NEW c \in Starts, Only(c), StartAccess(c)
  PROVE  InTurn'
<1>t. LifecycleTypeOK /\ Nested /\ c \in Actors /\ actor \in [Actors -> ActorCalls]
  BY Names, ActorTypes DEF LifecycleInv
<1>1. Pc(c) = "access" /\ Empty /\ codexState \in {"stopped", "failed"} /\ NotTold
  BY Names DEF StartAccess, Only, Phase
<1>2. Empty'
  BY <1>1 DEF StartAccess, Empty, Every
<1>3. CASE Return(c, FALSE) /\ Answer(c, FALSE, reported) /\ UNCHANGED <<codexState, relayOn>>
  <2>1. NotTold' /\ codexState' \in {"stopped", "failed"}
    BY <1>1, <1>3 DEF NotTold, Answer
  <2> QED
    BY <1>1, <1>2, <1>3, <1>t, <2>1, FailedAlone
<1>4. CASE StandbyRelay(c) \/ (~relayOn /\ actor' = Go(c, "pair") /\ UNCHANGED <<relayOn, reported>>)
  <2>1. PICK pc \in {"client", "pair"} : actor' = [actor EXCEPT ![c].pc = pc]
    BY <1>4 DEF StandbyRelay, Go
  <2>2. actor'[c].pc = pc /\ ActorBecomes(c, actor'[c])
    BY <1>t, <2>1 DEF ActorBecomes, ActorCalls, Steps
  <2>3. NotTold'
    BY <1>4 DEF NotTold, StandbyRelay
  <2>4. Phase(c)'
    BY <1>2, <2>2 DEF Phase, Pc
  <2> QED
    BY <1>t, <2>2, <2>3, <2>4, StillAlone
<1> QED
  BY <1>3, <1>4 DEF StartAccess

LEMMA EmptyCloses == Empty => Closable
BY DEF Empty, Closable, Every, RuntimeCloses

LEMMA PairAlone ==
  ASSUME LifecycleInv, NEW c \in Starts, Only(c), StartPair(c)
  PROVE  InTurn'
<1>t. LifecycleTypeOK /\ Nested /\ c \in Actors /\ actor \in [Actors -> ActorCalls]
  BY Names, ActorTypes DEF LifecycleInv
<1>1. Pc(c) = "pair" /\ Empty /\ NotTold
  BY Names DEF StartPair, Only, Phase
<1>2. Empty' /\ Closable'
  <2>1. Empty'
    BY <1>1 DEF StartPair, Empty, Every
  <2> QED
    BY <2>1, EmptyCloses DEF Empty, Closable, Every, RuntimeCloses
<1>3. CASE Throw(c) /\ UNCHANGED <<relayOn, reported>>
  <2>1. NotTold' /\ server' = server
    BY <1>1, <1>3 DEF NotTold, StartPair
  <2> QED
    BY <1>2, <1>3, <1>t, <2>1, ThrownAlone DEF Throw
<1>4. CASE StandbyRelay(c)
  <2>1. actor' = [actor EXCEPT ![c].pc = "client"]
    BY <1>4 DEF StandbyRelay, Go
  <2>2. actor'[c].pc = "client" /\ ActorBecomes(c, actor'[c])
    BY <1>t, <2>1 DEF ActorBecomes, ActorCalls, Steps
  <2>3. NotTold'
    BY <1>4 DEF NotTold, StandbyRelay
  <2>4. Phase(c)'
    BY <1>2, <2>2 DEF Phase, Pc
  <2> QED
    BY <1>t, <2>2, <2>3, <2>4, StillAlone
<1> QED
  BY <1>3, <1>4 DEF StartPair

LEMMA ClientAlone ==
  ASSUME LifecycleInv, NEW c \in Starts, Only(c), StartClient(c)
  PROVE  InTurn'
<1>t. LifecycleTypeOK /\ c \in Actors
  BY Names DEF LifecycleInv
<1>1. Pc(c) = "client" /\ Empty /\ NotTold
  BY Names DEF StartClient, Only, Phase
<1>2. NotTold' /\ server' = server /\ servers' = servers
  BY <1>1 DEF NotTold, StartClient
<1>3. CASE Throw(c) /\ UNCHANGED <<orch, codex, runtimes>>
  <2>1. Closable'
    BY <1>1, <1>2, <1>3 DEF Empty, Closable, Every, RuntimeCloses
  <2> QED
    BY <1>2, <1>3, <1>t, <2>1, ThrownAlone DEF Throw
<1>4. CASE ~(Throw(c) /\ UNCHANGED <<orch, codex, runtimes>>)
  <2>1. PICK r \in Free(runtimes) : /\ codex' = r /\ runtimes' = [runtimes EXCEPT ![r] = "starting"]
                                   /\ actor' = [actor EXCEPT ![c] = [pc |-> "runtime", srv |-> NoId, rt |-> r]]
    BY <1>4 DEF StartClient
  <2>2. r \in Ids /\ r # NoId
    BY Names DEF Free
  <2> DEFINE n == [pc |-> "runtime", srv |-> NoId, rt |-> r]
  <2>3. ActorBecomes(c, n)
    BY <1>t, <2>1, <2>2, OneActorBecomes DEF ActorCalls, Steps
  <2>4. n.pc = "runtime" /\ n.rt = r
    OBVIOUS
  <2> HIDE DEF n
  <2>5. runtimes'[r] = "starting" /\ \A i \in Ids : i # r => runtimes'[i] = "none"
    BY <1>1, <1>t, <2>1, <2>2 DEF LifecycleTypeOK, Empty, Every
  <2>6. Phase(c)'
    BY <1>1, <1>2, <2>1, <2>2, <2>3, <2>4, <2>5 DEF Phase, Pc, ActorBecomes, NoServer, Empty, Every
  <2> QED
    BY <1>2, <1>t, <2>3, <2>4, <2>6, StillAlone
<1> QED
  BY <1>3, <1>4

LEMMA RuntimeAlone ==
  ASSUME LifecycleInv, NEW c \in Starts, Only(c), StartRuntime(c)
  PROVE  InTurn'
<1>t. LifecycleTypeOK /\ c \in Actors
  BY Names DEF LifecycleInv
<1>1. /\ Pc(c) = "runtime" /\ NotTold
      /\ NoServer /\ codex # NoId /\ actor[c].rt = codex /\ Every(runtimes, codex, "starting")
  BY Names DEF StartRuntime, Only, Phase
<1>2. NotTold' /\ server' = server /\ servers' = servers /\ NoServer'
  BY <1>1 DEF NotTold, StartRuntime, NoServer, Every
<1>3. CASE /\ runtimes' = [runtimes EXCEPT ![actor[c].rt] = "up"] /\ orch' = "running" /\ UNCHANGED codex
           /\ actor' = [actor EXCEPT ![c] = [pc |-> "verify", srv |-> NoId, rt |-> NoId]]
  <2> DEFINE n == [pc |-> "verify", srv |-> NoId, rt |-> NoId]
  <2>1. n \in ActorCalls /\ n.pc = "verify"
    BY DEF ActorCalls, Steps
  <2>2. actor' = [actor EXCEPT ![c] = n]
    BY <1>3
  <2> HIDE DEF n
  <2>3. ActorBecomes(c, n)
    BY <1>t, <2>1, <2>2, OneActorBecomes
  <2>4. RuntimeUp'
    BY <1>1, <1>3, <1>t DEF RuntimeUp, Every, LifecycleTypeOK
  <2>5. Phase(c)'
    BY <1>2, <2>1, <2>3, <2>4 DEF Phase, Pc, ActorBecomes
  <2> QED
    BY <1>2, <1>t, <2>1, <2>3, <2>5, StillAlone
<1>4. CASE /\ runtimes' = Down([runtimes EXCEPT ![actor[c].rt] = "none"], codex)
           /\ orch' = (IF codex = NoId THEN orch ELSE "failed") /\ codex' = NoId /\ Throw(c)
  <2>1. Every(runtimes, NoId, "none")'
    BY <1>1, <1>4, <1>t DEF Every, Down, LifecycleTypeOK
  <2>2. Closable'
    BY <1>1, <1>2, <1>4, <2>1 DEF Closable, Every, RuntimeCloses, NoServer
  <2> QED
    BY <1>2, <1>4, <1>t, <2>2, ThrownAlone DEF Throw
<1> QED
  BY <1>1, <1>3, <1>4 DEF StartRuntime

LEMMA VerifyAlone ==
  ASSUME LifecycleInv, NEW c \in Starts, Only(c), StartVerify(c)
  PROVE  InTurn'
<1>t. LifecycleTypeOK /\ c \in Actors
  BY Names DEF LifecycleInv
<1>1. Pc(c) = "verify" /\ NoServer /\ RuntimeUp /\ NotTold
  BY Names DEF StartVerify, Only, Phase
<1>2. NotTold' /\ RuntimeUp'
  BY <1>1 DEF NotTold, StartVerify, RuntimeUp, Every
<1>3. CASE Throw(c) /\ UNCHANGED <<server, servers>>
  <2>1. Closable'
    BY <1>1, <1>2, <1>3 DEF NoServer, RuntimeUp, Closable, Every, RuntimeCloses
  <2> QED
    BY <1>2, <1>3, <1>t, <2>1, ThrownAlone DEF Throw
<1>4. CASE ~(Throw(c) /\ UNCHANGED <<server, servers>>)
  <2>1. PICK s \in Free(servers) : /\ server' = s /\ servers' = [servers EXCEPT ![s] = "starting"]
                                  /\ actor' = [actor EXCEPT ![c] = [pc |-> "serve", srv |-> s, rt |-> NoId]]
    BY <1>4 DEF StartVerify
  <2>2. s \in Ids /\ s # NoId
    BY Names DEF Free
  <2> DEFINE n == [pc |-> "serve", srv |-> s, rt |-> NoId]
  <2>3. ActorBecomes(c, n)
    BY <1>t, <2>1, <2>2, OneActorBecomes DEF ActorCalls, Steps
  <2>4. n.pc = "serve" /\ n.srv = s
    OBVIOUS
  <2> HIDE DEF n
  <2>5. servers'[s] = "starting" /\ \A i \in Ids : i # s => servers'[i] = "none"
    BY <1>1, <1>t, <2>1, <2>2 DEF LifecycleTypeOK, NoServer, Every
  <2>6. Phase(c)'
    BY <1>2, <2>1, <2>2, <2>3, <2>4, <2>5 DEF Phase, Pc, ActorBecomes, Every
  <2> QED
    BY <1>2, <1>t, <2>3, <2>4, <2>6, StillAlone
<1> QED
  BY <1>3, <1>4

LEMMA ServeAlone ==
  ASSUME LifecycleInv, NEW c \in Starts, Only(c), StartServer(c)
  PROVE  InTurn'
<1>t. LifecycleTypeOK /\ Nested /\ c \in Actors
  BY Names DEF LifecycleInv
<1>1. /\ Pc(c) = "serve" /\ NotTold /\ RuntimeUp /\ server # NoId /\ actor[c].srv = server
      /\ Every(servers, server, "starting")
  BY Names DEF StartServer, Only, Phase
<1>2. server' = server /\ RuntimeUp' /\ relayOn' = relayOn
  BY <1>1 DEF StartServer, RuntimeUp, Every
<1>3. CASE /\ servers' = [servers EXCEPT ![actor[c].srv] = "none"] /\ UNCHANGED reported
           /\ actor' = [actor EXCEPT ![c] = [pc |-> "closeServer", srv |-> server, rt |-> NoId]]
           /\ crossedServer' = (crossedServer \/ (server # actor[c].srv /\ Cuts(servers, server)))
  <2> DEFINE n == [pc |-> "closeServer", srv |-> server, rt |-> NoId]
  <2>1. n \in ActorCalls /\ n.pc = "closeServer" /\ n.srv = server
    BY <1>t DEF ActorCalls, Steps, LifecycleTypeOK
  <2>2. actor' = [actor EXCEPT ![c] = n]
    BY <1>3
  <2> HIDE DEF n
  <2>3. ActorBecomes(c, n)
    BY <1>t, <2>1, <2>2, OneActorBecomes
  <2>4. Every(servers, server, "none")'
    BY <1>1, <1>3, <1>t DEF Every, LifecycleTypeOK
  <2>5. Closable'
    BY <1>2, <2>4 DEF Closable, RuntimeCloses, RuntimeUp
  <2>6. Phase(c)'
    BY <1>2, <2>1, <2>3, <2>5 DEF Phase, Pc, ActorBecomes
  <2>7. NotTold'
    BY <1>1, <1>2, <1>3 DEF NotTold
  <2> QED
    BY <1>t, <2>1, <2>3, <2>6, <2>7, StillAlone
<1>4. CASE /\ servers' = [servers EXCEPT ![actor[c].srv] = "up"] /\ Tell("running")
           /\ codexState' = "running" /\ Return(c, TRUE)
  <2>1. /\ actor'[c] = Idle
        /\ actor'[Recovery] = IF c = Inner THEN Idle ELSE actor[Recovery]
        /\ \A x \in Actors \ {c, Recovery} : actor'[x] = actor[x]
    BY <1>1, <1>4, <1>t, ReturnEffect
  <2>2. \A x \in Actors \ {c} : Pc(x) = IF c = Inner /\ x = Recovery THEN "inner" ELSE "idle"
    BY DEF Only
  <2>3. Idle.pc = "idle"
    BY DEF Idle
  <2>4. \A x \in Actors : actor'[x].pc = "idle"
    BY <2>1, <2>2, <2>3, Names DEF Pc
  <2>5. Every(servers, server, "up")'
    BY <1>1, <1>4, <1>2, <1>t DEF Every, LifecycleTypeOK
  <2>6. relayOn' => reported' = "running"
    BY <1>2, <1>4 DEF Tell
  <2>7. AtRest'
    BY <1>1, <1>2, <1>4, <2>4, <2>5, <2>6 DEF AtRest, Pc
  <2> QED
    BY <2>7 DEF InTurn
<1> QED
  BY <1>1, <1>3, <1>4 DEF StartServer


\* The server has been stopped: nothing is left, or the runtime is closed next.
LEMMA ServerClosed ==
  ASSUME LifecycleTypeOK, NEW a \in Actors, Pc(a) = "closeServer", actor[a].srv = server, Closable,
         servers' = Down(servers, actor[a].srv), server' = NoId, UNCHANGED <<codex, runtimes>>
  PROVE  /\ NoServer' /\ RuntimeCloses'
         /\ orch \in {"stopped", "stopping"} /\ orch' = orch => Empty'
<1>1. Every(servers, NoId, "none")'
  <2>1. CASE Every(servers, server, "up")
    BY <2>1, Names DEF Every, Down, LifecycleTypeOK
  <2>2. CASE Every(servers, server, "none")
    BY <2>2, Names DEF Every, Down, LifecycleTypeOK
  <2> QED
    BY <2>1, <2>2 DEF Closable
<1>2. RuntimeCloses'
  BY DEF Closable, RuntimeCloses, Every
<1>3. ASSUME orch \in {"stopped", "stopping"}, orch' = orch PROVE Empty'
  <2>1. orch = "stopped" /\ codex = NoId
    BY <1>3 DEF Closable
  <2> QED
    BY <1>1, <1>2, <1>3, <2>1, Names DEF Empty, Every, RuntimeCloses
<1> QED
  BY <1>1, <1>2, <1>3 DEF NoServer

\* The actor of StopOrchestrator, alone.
LEMMA StopsOrchestrator ==
  ASSUME LifecycleTypeOK, NEW a \in Actors, Only(a), Pc(a) = "closeServer",
         NEW rest \in {"check", "idle"}, StopOrchestrator(a, rest), UNCHANGED <<codex, runtimes>>
  PROVE  /\ orch \notin {"stopped", "stopping"} => ((a # Stop => NotTold') => InTurn')
         /\ orch \in {"stopped", "stopping"} =>
              Empty' /\ ActorBecomes(a, [pc |-> rest, srv |-> NoId, rt |-> NoId])
<1>1. actor[a].srv = server /\ Closable
  BY DEF Only, Phase
<1>2. servers' = Down(servers, actor[a].srv) /\ server' = NoId
  BY DEF StopOrchestrator
<1>3. NoServer' /\ RuntimeCloses' /\ (orch \in {"stopped", "stopping"} /\ orch' = orch => Empty')
  BY <1>1, <1>2, ServerClosed
<1>4. ASSUME orch \notin {"stopped", "stopping"}, a # Stop => NotTold' PROVE InTurn'
  <2> DEFINE r == [pc |-> "closeRuntime", srv |-> NoId, rt |-> codex]
  <2>1. r \in ActorCalls /\ r.pc = "closeRuntime" /\ r.rt = codex
    BY DEF LifecycleTypeOK, ActorCalls, Steps
  <2>2. actor' = [actor EXCEPT ![a] = r]
    BY <1>4 DEF StopOrchestrator
  <2> HIDE DEF r
  <2>3. ActorBecomes(a, r)
    BY <2>1, <2>2, OneActorBecomes
  <2>4. Phase(a)'
    BY <1>3, <2>1, <2>3 DEF Phase, Pc, ActorBecomes
  <2> QED
    BY <1>4, <2>1, <2>3, <2>4, StillAlone
<1>5. ASSUME orch \in {"stopped", "stopping"}
      PROVE  Empty' /\ ActorBecomes(a, [pc |-> rest, srv |-> NoId, rt |-> NoId])
  <2> DEFINE r == [pc |-> rest, srv |-> NoId, rt |-> NoId]
  <2>1. r \in ActorCalls
    BY DEF ActorCalls, Steps
  <2>2. actor' = [actor EXCEPT ![a] = r] /\ orch' = orch
    BY <1>5 DEF StopOrchestrator
  <2> HIDE DEF r
  <2>3. ActorBecomes(a, r)
    BY <2>1, <2>2, OneActorBecomes
  <2> QED
    BY <1>3, <1>5, <2>2, <2>3 DEF r
<1> QED
  BY <1>4, <1>5

\* The runtime has been stopped: nothing is left.
LEMMA RuntimeClosed ==
  ASSUME LifecycleTypeOK, NEW a \in Actors, Only(a), Pc(a) = "closeRuntime",
         runtimes' = Down(runtimes, actor[a].rt), codex' = NoId, orch' = "stopped", UNCHANGED <<server, servers>>
  PROVE  Empty'
<1>1. NoServer /\ actor[a].rt = codex /\ RuntimeCloses
  BY DEF Only, Phase
<1>2. Every(runtimes, NoId, "none")'
  <2>1. CASE Every(runtimes, codex, "up")
    BY <1>1, <2>1, Names DEF Every, Down, LifecycleTypeOK
  <2>2. CASE Every(runtimes, codex, "none")
    BY <1>1, <2>2, Names DEF Every, Down, LifecycleTypeOK
  <2> QED
    BY <1>1, <2>1, <2>2 DEF RuntimeCloses
<1> QED
  BY <1>1, <1>2 DEF Empty, NoServer, Every

\* A start whose catch has closed everything checks for an update next.
LEMMA ChecksAlone ==
  ASSUME NEW a \in Actors, Only(a), a # Stop, NEW r, ActorBecomes(a, r), r.pc = "check", Empty', NotTold'
  PROVE  InTurn'
<1>1. Phase(a)'
  BY DEF Phase, Pc, ActorBecomes
<1> QED
  BY <1>1, StillAlone

LEMMA CatchAlone ==
  ASSUME LifecycleInv, NEW c \in Starts, Only(c), CatchServer(c) \/ CatchRuntime(c) \/ CatchEnd(c)
  PROVE  InTurn'
<1>t. LifecycleTypeOK /\ Nested /\ c \in Actors /\ c # Stop /\ NotTold
  BY Names DEF LifecycleInv, Only
<1> DEFINE r == [pc |-> "check", srv |-> NoId, rt |-> NoId]
<1>r. r.pc = "check" /\ r \in ActorCalls
  BY DEF ActorCalls, Steps
<1>1. CASE CatchServer(c)
  <2>1. NotTold'
    BY <1>1, <1>t DEF CatchServer, NotTold, Tell
  <2>2. Pc(c) = "closeServer" /\ StopOrchestrator(c, "check") /\ UNCHANGED <<codex, runtimes>>
    BY <1>1 DEF CatchServer
  <2>3. CASE orch \in {"stopped", "stopping"}
    <3>1. Empty' /\ ActorBecomes(c, r)
      BY <1>t, <2>2, <2>3, StopsOrchestrator
    <3> HIDE DEF r
    <3> QED
      BY <1>r, <1>t, <2>1, <3>1, ChecksAlone
  <2>4. CASE orch \notin {"stopped", "stopping"}
    BY <1>t, <2>1, <2>2, <2>4, StopsOrchestrator
  <2> QED
    BY <2>3, <2>4
<1>2. CASE CatchRuntime(c)
  <2>1. NotTold'
    BY <1>2, <1>t DEF CatchRuntime, NotTold
  <2>2. Empty'
    BY <1>2, <1>t, RuntimeClosed DEF CatchRuntime, OrchestratorStopped
  <2>3. actor' = [actor EXCEPT ![c] = r]
    BY <1>2 DEF CatchRuntime, OrchestratorStopped
  <2> HIDE DEF r
  <2>4. ActorBecomes(c, r)
    BY <1>r, <1>t, <2>3, OneActorBecomes
  <2> QED
    BY <1>r, <1>t, <2>1, <2>2, <2>4, ChecksAlone
<1>3. CASE CatchEnd(c)
  <2>1. Pc(c) = "check" /\ Empty
    BY <1>3, <1>t DEF CatchEnd, Only, Phase
  <2>2. Empty'
    BY <1>3, <2>1 DEF CatchEnd, Empty, Every
  <2>3. NotTold' /\ codexState' \in {"stopped", "failed"}
    BY <1>3, <1>t DEF CatchEnd, NotTold, Answer
  <2> QED
    BY <1>3, <1>t, <2>1, <2>2, <2>3, FailedAlone DEF CatchEnd
<1> QED
  BY <1>1, <1>2, <1>3

\* stopCodex has ended and has told the hub.
LEMMA StopAlone ==
  ASSUME LifecycleInv, Only(Stop), StopServer \/ StopRuntime
  PROVE  InTurn'
<1>t. LifecycleTypeOK /\ Stop \in Actors
  BY Names DEF LifecycleInv
<1> DEFINE r == [pc |-> "idle", srv |-> NoId, rt |-> NoId]
<1>r. r.pc = "idle" /\ r \in ActorCalls
  BY DEF ActorCalls, Steps
<1>o. \A x \in Actors \ {Stop} : Pc(x) = "idle"
  BY Names DEF Only
<1>1. ASSUME ActorBecomes(Stop, r), Empty', Stopped, UNCHANGED relayOn PROVE InTurn'
  <2> HIDE DEF r
  <2>1. \A x \in Actors : Pc(x)' = "idle"
    BY <1>1, <1>o, <1>r DEF ActorBecomes, Pc
  <2>2. codexState' = "stopped" /\ (relayOn' => reported' # "running")
    BY <1>1 DEF Stopped, Tell
  <2>3. AtRest'
    BY <1>1, <2>1, <2>2 DEF AtRest
  <2> QED
    BY <2>3 DEF InTurn
<1>2. CASE StopServer
  <2>1. Pc(Stop) = "closeServer" /\ StopOrchestrator(Stop, "idle") /\ UNCHANGED <<codex, runtimes, relayOn>>
    BY <1>2 DEF StopServer
  <2>2. CASE orch \in {"stopped", "stopping"}
    <3>1. Empty' /\ ActorBecomes(Stop, r)
      BY <1>t, <2>1, <2>2, StopsOrchestrator
    <3>2. Stopped
      BY <1>2, <2>2 DEF StopServer
    <3> QED
      BY <1>1, <2>1, <3>1, <3>2
  <2>3. CASE orch \notin {"stopped", "stopping"}
    BY <1>t, <2>1, <2>3, StopsOrchestrator
  <2> QED
    BY <2>2, <2>3
<1>3. CASE StopRuntime
  <2>1. Empty'
    BY <1>3, <1>t, RuntimeClosed DEF StopRuntime, OrchestratorStopped
  <2>2. actor' = [actor EXCEPT ![Stop] = r] /\ Stopped /\ UNCHANGED relayOn
    BY <1>3 DEF StopRuntime, OrchestratorStopped
  <2> HIDE DEF r
  <2>3. ActorBecomes(Stop, r)
    BY <1>r, <1>t, <2>2, OneActorBecomes
  <2> QED
    BY <1>1, <2>1, <2>2, <2>3
<1> QED
  BY <1>2, <1>3

\* The recovery has stopped everything and starts again, or has failed.
LEMMA RecoveryAlone ==
  ASSUME LifecycleInv, Only(Recovery), RecoverServer \/ RecoverRuntime \/ RecoverFailed
  PROVE  InTurn'
<1>t. LifecycleTypeOK /\ Recovery \in Actors /\ Inner \in Actors /\ Recovery # Stop /\ Recovery # Inner /\ NotTold
      /\ actor \in [Actors -> ActorCalls]
  BY Names, ActorTypes DEF LifecycleInv, Only
<1>o. \A x \in Actors \ {Recovery} : Pc(x) = "idle"
  BY Names DEF Only
<1>1. ASSUME Empty', codexState' = "stopped", UNCHANGED <<relayOn, reported>>,
             actor' = [actor EXCEPT ![Recovery] = [Idle EXCEPT !.pc = "inner"], ![Inner] = Restart]
      PROVE  InTurn'
  <2>1. [Idle EXCEPT !.pc = "inner"].pc = "inner" /\ Restart.pc = "access"
    BY DEF Idle, Restart
  <2>2. /\ actor'[Recovery].pc = "inner" /\ actor'[Inner].pc = "access"
        /\ \A x \in Actors \ {Recovery, Inner} : actor'[x] = actor[x]
    BY <1>1, <1>t, <2>1
  <2>3. Phase(Inner)'
    BY <1>1, <2>2 DEF Phase, Pc
  <2>4. NotTold'
    BY <1>1, <1>t DEF NotTold
  <2>5. \A x \in Actors \ {Inner} : actor'[x].pc = IF x = Recovery THEN "inner" ELSE "idle"
    BY <1>o, <2>2 DEF Pc
  <2>6. Only(Inner)'
    BY <2>2, <2>3, <2>4, <2>5 DEF Only, Pc
  <2> QED
    BY <1>t, <2>6 DEF InTurn
<1>2. CASE RecoverServer
  <2>1. Pc(Recovery) = "closeServer" /\ UNCHANGED <<codex, runtimes, relayOn, reported>>
    BY <1>2 DEF RecoverServer
  <2>2. CASE orch \in {"stopped", "stopping"}
    <3>1. /\ servers' = Down(servers, actor[Recovery].srv) /\ server' = NoId /\ codexState' = "stopped" /\ orch' = orch
          /\ actor' = [actor EXCEPT ![Recovery] = [Idle EXCEPT !.pc = "inner"], ![Inner] = Restart]
      BY <1>2, <2>2 DEF RecoverServer
    <3>2. actor[Recovery].srv = server /\ Closable
      BY <2>1 DEF Only, Phase
    <3>3. Empty'
      BY <1>t, <2>1, <2>2, <3>1, <3>2, ServerClosed
    <3> QED
      BY <1>1, <2>1, <3>1, <3>3
  <2>3. CASE orch \notin {"stopped", "stopping"}
    <3>1. StopOrchestrator(Recovery, "idle")
      BY <1>2, <2>3 DEF RecoverServer
    <3>2. NotTold'
      BY <1>t, <2>1 DEF NotTold
    <3> QED
      BY <1>t, <2>1, <2>3, <3>1, <3>2, StopsOrchestrator
  <2> QED
    BY <2>2, <2>3
<1>3. CASE RecoverRuntime
  <2>1. Empty'
    BY <1>3, <1>t, RuntimeClosed DEF RecoverRuntime
  <2> QED
    BY <1>1, <1>3, <2>1 DEF RecoverRuntime
<1>4. CASE RecoverFailed
  <2>1. Empty
    BY <1>4 DEF RecoverFailed, Only, Phase
  <2>2. Empty' /\ codexState' = "failed" /\ NotTold'
    BY <1>4, <1>t, <2>1 DEF RecoverFailed, Empty, Every, NotTold
  <2>3. \A x \in Actors : Pc(x)' = "idle"
    BY <1>4, <1>t, <1>o DEF RecoverFailed, Idle, Pc
  <2>4. AtRest'
    BY <2>2, <2>3 DEF AtRest, NotTold
  <2> QED
    BY <2>4 DEF InTurn
<1> QED
  BY <1>2, <1>3, <1>4


\* What changes nothing that is told or owned; a relay client that ends tells nothing.
LEMMA InTurnRests ==
  ASSUME InTurn, UNCHANGED <<codexState, orch, codex, runtimes, server, servers, actor, overlapped>>,
         UNCHANGED <<relayOn, reported>> \/ ~relayOn'
  PROVE  InTurn'
<1>1. ASSUME AtRest PROVE AtRest'
  BY <1>1 DEF AtRest, Pc, RuntimeUp, Every, Empty
<1>2. ASSUME NEW a \in Actors, Only(a) PROVE Only(a)'
  <2>1. Phase(a)'
    BY <1>2 DEF Only, Phase, Pc, Empty, Every, NoServer, RuntimeUp, RuntimeCloses, Closable
  <2>2. NotTold => NotTold'
    BY DEF NotTold
  <2> QED
    BY <1>2, <2>1, <2>2 DEF Only, Pc
<1> QED
  BY <1>1, <1>2 DEF InTurn

\* What begins while another operation is under way overlaps it.
LEMMA AloneIsBusy ==
  ASSUME NEW a \in Actors, Only(a)
  PROVE  Busy # {}
BY DEF Only, Busy

\* An operation that begins where none was under way.
LEMMA BeginsAlone ==
  ASSUME AtRest, NEW a \in Actors, a \notin {Inner}, NEW r, ActorBecomes(a, r), r.pc \notin {"idle", "inner"}, Phase(a)',
         a # Stop => NotTold'
  PROVE  InTurn'
<1>1. \A x \in Actors \ {a} : Pc(x)' = "idle"
  BY DEF AtRest, ActorBecomes, Pc
<1>2. Only(a)'
  BY <1>1 DEF Only, Pc, ActorBecomes
<1> QED
  BY <1>2 DEF InTurn

LEMMA RestingCloses == AtRest => Closable
BY Names DEF AtRest, Closable, RuntimeUp, Empty, Every, RuntimeCloses

\* The stop of the window or the recovery begins with remoteServer?.stop().
LEMMA StopsFromRest ==
  ASSUME LifecycleTypeOK, AtRest, NEW a \in {Stop, Recovery}, StopServerFrom(a, actor),
         UNCHANGED <<orch, codex, runtimes, server, servers>>, a # Stop => NotTold'
  PROVE  InTurn'
<1> DEFINE r == [pc |-> "closeServer", srv |-> server, rt |-> NoId]
<1>t. a \in Actors /\ a # Inner
  BY Names DEF Recovery, Stop, Inner
<1>1. r \in ActorCalls /\ r.pc = "closeServer" /\ r.srv = server
  BY DEF LifecycleTypeOK, ActorCalls, Steps
<1>2. actor' = [actor EXCEPT ![a] = r]
  BY DEF StopServerFrom
<1> HIDE DEF r
<1>3. ActorBecomes(a, r)
  BY <1>1, <1>2, <1>t, OneActorBecomes
<1>4. Closable'
  BY RestingCloses DEF Closable, RuntimeCloses, Every
<1>5. Phase(a)'
  BY <1>1, <1>3, <1>4 DEF Phase, Pc, ActorBecomes
<1> QED
  BY <1>1, <1>3, <1>5, <1>t, BeginsAlone

LEMMA StartCallInTurn ==
  ASSUME LifecycleInv, InTurn, NEW c \in Callers, StartCall(c),
         UNCHANGED <<codexState, orch, codex, runtimes, server, servers, relayOn>>
  PROVE  InTurn'
<1>t. LifecycleTypeOK /\ c \in Actors /\ c # Inner /\ actor \in [Actors -> ActorCalls]
  BY Names, ActorTypes DEF LifecycleInv
<1> SUFFICES ASSUME ~overlapped' PROVE InTurn'
  BY DEF InTurn
<1>1. Busy = {} /\ ~overlapped
  BY DEF StartCall, Begin
<1>2. AtRest
  BY <1>1, AloneIsBusy DEF InTurn
<1>3. CASE codexState \in {"running", "starting"}
  <2>1. codexState = "running" /\ actor' = actor /\ (reported' = reported \/ reported' = "running")
    BY <1>2, <1>3 DEF AtRest, StartCall
  <2>2. AtRest'
    BY <1>2, <2>1 DEF AtRest, Pc, RuntimeUp, Every
  <2> QED
    BY <2>2 DEF InTurn
<1>4. CASE codexState \notin {"running", "starting"}
  <2>1. actor' = [actor EXCEPT ![c].pc = "access"] /\ reported' = reported
    BY <1>4 DEF StartCall, Go
  <2>2. actor'[c].pc = "access" /\ ActorBecomes(c, actor'[c])
    BY <1>t, <2>1 DEF ActorBecomes, ActorCalls, Steps
  <2>3. NotTold' /\ Empty' /\ codexState' \in {"stopped", "failed"}
    BY <1>2, <1>4, <2>1 DEF AtRest, NotTold, Empty, Every
  <2>4. Phase(c)'
    BY <2>2, <2>3 DEF Phase, Pc
  <2> QED
    BY <1>2, <1>t, <2>2, <2>3, <2>4, BeginsAlone
<1> QED
  BY <1>3, <1>4

LEMMA EventsInTurn ==
  ASSUME LifecycleInv, InTurn, Event \/ Arrival
  PROVE  InTurn'
<1>t. LifecycleTypeOK
  BY DEF LifecycleInv
<1>1. CASE Click \/ RelayReplaced \/ MonitorTick \/ MonitorHealthy
  BY <1>1, InTurnRests DEF Click, RelayReplaced, MonitorTick, MonitorHealthy
<1>2. CASE StartByRelay
  BY <1>2, StartCallInTurn, Names DEF StartByRelay
<1>3. ASSUME NEW c \in Callers, StartByWindow(c) PROVE InTurn'
  BY <1>3, StartCallInTurn DEF StartByWindow
<1>4. CASE StopByWindow
  <2>1. CASE codexState \in {"stopped", "stopping"}
    BY <1>4, <2>1, InTurnRests DEF StopByWindow
  <2>2. CASE codexState \notin {"stopped", "stopping"}
    <3> SUFFICES ASSUME ~overlapped' PROVE InTurn'
      BY DEF InTurn
    <3>1. Busy = {} /\ ~overlapped /\ StopServerFrom(Stop, actor)
      BY <1>4, <2>2 DEF StopByWindow, Begin
    <3>2. AtRest
      BY <3>1, AloneIsBusy DEF InTurn
    <3> QED
      BY <1>4, <1>t, <3>1, <3>2, StopsFromRest DEF StopByWindow
  <2> QED
    BY <2>1, <2>2
<1>5. CASE MonitorUnhealthy
  <2>1. UNCHANGED <<orch, codex, runtimes, server, servers, relayOn>>
    BY <1>5 DEF MonitorUnhealthy
  <2>2. CASE UNCHANGED <<codexState, actor, reported, overlapped>>
    BY <2>1, <2>2, InTurnRests
  <2>3. CASE ~UNCHANGED <<codexState, actor, reported, overlapped>>
    <3>1. Begin /\ Tell("starting") /\ StopServerFrom(Recovery, actor)
      BY <1>5, <2>3 DEF MonitorUnhealthy
    <3> SUFFICES ASSUME ~overlapped' PROVE InTurn'
      BY DEF InTurn
    <3>2. Busy = {} /\ ~overlapped
      BY <3>1 DEF Begin
    <3>3. AtRest
      BY <3>2, AloneIsBusy DEF InTurn
    <3>4. NotTold'
      BY <2>1, <3>1 DEF NotTold, Tell
    <3> QED
      BY <1>t, <2>1, <3>1, <3>3, <3>4, StopsFromRest
  <2> QED
    BY <2>2, <2>3
<1> QED
  BY <1>1, <1>2, <1>3, <1>4, <1>5 DEF Event, Arrival

\* The step of an operation that is under way is that of the only one.
LEMMA StepsInTurn ==
  ASSUME LifecycleInv, InTurn, StopStep \/ RecoveryStep \/ \E c \in Starts : StartStep(c)
  PROVE  InTurn'
<1> SUFFICES ASSUME ~overlapped' PROVE InTurn'
  BY DEF InTurn
<1>1. CASE StopStep
  <2>1. ~overlapped /\ Pc(Stop) \in {"closeServer", "closeRuntime"}
    BY <1>1 DEF StopStep, StopServer, StopRuntime
  <2>2. Only(Stop)
    BY <2>1, Names DEF InTurn, AtRest, Only
  <2> QED
    BY <1>1, <2>2, StopAlone DEF StopStep
<1>2. CASE RecoveryStep
  <2>1. ~overlapped /\ Pc(Recovery) \in {"closeServer", "closeRuntime", "check"}
    BY <1>2 DEF RecoveryStep, RecoverServer, RecoverRuntime, RecoverFailed
  <2>2. Only(Recovery)
    BY <2>1, Names DEF InTurn, AtRest, Only
  <2> QED
    BY <1>2, <2>2, RecoveryAlone DEF RecoveryStep
<1>3. ASSUME NEW c \in Starts, StartStep(c) PROVE InTurn'
  <2>1. ~overlapped
    BY <1>3 DEF StartStep, StartAccess, StartPair, StartClient, StartRuntime, StartVerify, StartServer,
                CatchServer, CatchRuntime, CatchEnd
  <2>p. Pc(c) \in {"access", "pair", "client", "runtime", "verify", "serve", "closeServer", "closeRuntime", "check"}
    BY <1>3 DEF StartStep, StartAccess, StartPair, StartClient, StartRuntime, StartVerify, StartServer,
                CatchServer, CatchRuntime, CatchEnd
  <2>2. Only(c)
    BY <2>1, <2>p, Names DEF InTurn, AtRest, Only
  <2> QED
    BY <1>3, <2>2, AccessAlone, PairAlone, ClientAlone, RuntimeAlone, VerifyAlone, ServeAlone, CatchAlone DEF StartStep
<1> QED
  BY <1>1, <1>2, <1>3

LEMMA StartsInTurn == DesktopInit => InTurn
<1> SUFFICES ASSUME DesktopInit PROVE AtRest
  BY DEF InTurn
<1>1. \A a \in Actors : Pc(a) = "idle"
  BY DEF DesktopInit, Pc, Idle
<1>2. Empty
  BY DEF DesktopInit, Empty, Every
<1> QED
  BY <1>1, <1>2 DEF AtRest, DesktopInit

LEMMA MovesInTurn == LifecycleInv /\ InTurn /\ [DesktopNext]_desktopVars => InTurn'
<1>1. CASE UNCHANGED desktopVars
  BY <1>1, InTurnRests DEF desktopVars
<1> QED
  BY <1>1, EventsInTurn, StepsInTurn DEF DesktopNext

\* While nothing has overlapped and nothing is under way, it rests.
LEMMA QuietRests == InTurn /\ Quiet /\ ~overlapped => AtRest
<1> SUFFICES ASSUME InTurn, Quiet, ~overlapped PROVE AtRest
  OBVIOUS
<1>1. \A a \in Actors : ~Only(a)
  BY AloneIsBusy DEF Quiet
<1> QED
  BY <1>1 DEF InTurn

LEMMA RestIsAsShown == LifecycleTypeOK /\ AtRest =>
  IF codexState = "running" THEN Serving /\ Alive(runtimes) = {codex} /\ Alive(servers) = {server}
  ELSE Alive(runtimes) = {} /\ Alive(servers) = {} /\ server = NoId /\ orch # "running"
<1> SUFFICES ASSUME LifecycleTypeOK, AtRest
    PROVE  IF codexState = "running" THEN Serving /\ Alive(runtimes) = {codex} /\ Alive(servers) = {server}
           ELSE Alive(runtimes) = {} /\ Alive(servers) = {} /\ server = NoId /\ orch # "running"
  OBVIOUS
<1>1. CASE codexState = "running"
  <2>1. RuntimeUp /\ server # NoId /\ Every(servers, server, "up") /\ codex \in Ids /\ server \in Ids
    BY <1>1 DEF AtRest, RuntimeUp, LifecycleTypeOK
  <2> QED
    BY <1>1, <2>1 DEF Serving, Alive, Every, RuntimeUp
<1>2. CASE codexState # "running"
  <2>1. Empty
    BY <1>2 DEF AtRest
  <2> QED
    BY <1>2, <2>1 DEF Empty, Alive, Every
<1> QED
  BY <1>1, <1>2

LEMMA InTurnShows == LifecycleInv /\ InTurn => SettledAsShown /\ HubToldTheState
<1>1. LifecycleInv /\ InTurn => SettledAsShown
  BY QuietRests, RestIsAsShown DEF SettledAsShown, LifecycleInv
<1>2. LifecycleInv /\ InTurn => HubToldTheState
  BY QuietRests DEF HubToldTheState, AtRest
<1> QED
  BY <1>1, <1>2

\* When operations have not overlapped and none is under way, what the state
\* says is what is there: a running service has exactly its one runtime and its
\* one server, and a stopped or failed one has left nothing behind, whichever
\* step of startCodex, stopCodex or recoverHybridControl failed.
THEOREM SettledHolds == DesktopSpec => []SettledAsShown
BY InTurnShows, LifecycleStarts, LifecycleMoves, StartsInTurn, MovesInTurn, PTL DEF DesktopSpec

\* Then a hub that listens has been told last that the device runs exactly when
\* it does (setStatus and the answers to the commands of the relay).
THEOREM HubToldHolds == DesktopSpec => []HubToldTheState
BY InTurnShows, LifecycleStarts, LifecycleMoves, StartsInTurn, MovesInTurn, PTL DEF DesktopSpec

-----------------------------------------------------------------------------
(* The connection to the official client: who owns it and what is left of it, *)
(* for any number of requests and sockets                                     *)

\* A handshake is under way only on the client's socket and while the start waits
\* for it; a start that looks for the page has no connection; and there is no start
\* and no request before the owner's.
Opening ==
  /\ \A s \in Sockets : sockets[s] = "opening" => step = "open" /\ s = socket
  /\ step = "discover" => ~Connected
  /\ owner = "new" => step = "idle" /\ ~served

\* Nothing is lost before the first failure, also not before the service is up.
Kept == owner # "gone" /\ ~failed => appServer = "open" /\ follows # "lost"

ConnectionInv ==
  /\ ConnectionTypeOK /\ OneSocket /\ Opening /\ ConnectedIsPolled /\ StoppedIsDown /\ Kept

-----------------------------------------------------------------------------

LEMMA Zero == NoSocket \notin Sockets
BY DEF NoSocket, Sockets

\* What is closed is neither open nor opening, and nothing else changes.
LEMMA ShutSockets ==
  ASSUME ConnectionTypeOK, NEW f \in [Sockets -> {"none", "opening", "open", "closing", "closed"}]
  PROVE  /\ Shut(f) \in [Sockets -> {"none", "opening", "open", "closing", "closed"}]
         /\ \A s \in Sockets : s = socket => Shut(f)[s] \notin {"open", "opening"}
         /\ \A s \in Sockets : s # socket => Shut(f)[s] = f[s]
BY DEF Shut

\* A socket function that has no more open or opening sockets than the present.
Fewer(f) ==
  /\ f \in [Sockets -> {"none", "opening", "open", "closing", "closed"}]
  /\ \A s \in Sockets : f[s] \in {"open", "opening"} => sockets[s] = f[s]

LEMMA StoppedSockets ==
  ASSUME ConnectionInv, NEW f, Fewer(f), StopService(f)
  PROVE  /\ socket' = NoSocket /\ ~Connected'
         /\ sockets' \in [Sockets -> {"none", "opening", "open", "closing", "closed"}]
         /\ Live' = {} /\ \A s \in Sockets : sockets'[s] # "opening"
<1>1. /\ sockets' = Shut(f) /\ socket' = NoSocket
      /\ sockets' \in [Sockets -> {"none", "opening", "open", "closing", "closed"}]
  BY ShutSockets DEF StopService, ConnectionInv, Fewer
<1>2. ASSUME NEW s \in Sockets PROVE sockets'[s] \notin {"open", "opening"}
  <2>1. CASE s = socket
    BY <1>1, <2>1, ShutSockets DEF ConnectionInv, Fewer
  <2>2. CASE s # socket
    BY <1>1, <2>2, ShutSockets DEF ConnectionInv, Fewer, OneSocket, Live
  <2> QED
    BY <2>1, <2>2
<1> QED
  BY <1>1, <1>2 DEF Live, Connected

\* What a stop of the service leaves, whoever stops it.
LEMMA StopKeeps ==
  ASSUME ConnectionInv, NEW f, Fewer(f), StopService(f),
         owner' \in {"starting", "up", "gone"}, step' \in StartSteps, step' # "open",
         call' \in [Clients -> {"idle", "joining", "ready", "pending"}],
         failed' \in BOOLEAN, overrun' \in BOOLEAN,
         owner' = "gone" \/ failed', owner # "new", owner' = "gone" /\ ~overrun' /\ ~revived => step' = "idle",
         UNCHANGED <<asked, served, revived, stale>>
  PROVE  ConnectionInv'
<1>1. /\ socket' = NoSocket /\ ~Connected' /\ Live' = {}
      /\ sockets' \in [Sockets -> {"none", "opening", "open", "closing", "closed"}]
      /\ \A s \in Sockets : sockets'[s] # "opening"
  BY StoppedSockets
<1>2. serving' = FALSE /\ polls' = FALSE /\ listening' = FALSE /\ appServer' = "closed" /\ follows' \in {"never", "yes", "lost"}
  BY DEF StopService, ConnectionInv, ConnectionTypeOK
<1>3. ConnectionTypeOK'
  BY <1>1, <1>2 DEF ConnectionInv, ConnectionTypeOK
<1>4. OneSocket' /\ Opening'
  BY <1>1 DEF OneSocket, Opening
<1>5. ConnectedIsPolled' /\ StoppedIsDown' /\ Kept'
  BY <1>1, <1>2 DEF ConnectedIsPolled, StoppedIsDown, Kept
<1> QED
  BY <1>3, <1>4, <1>5 DEF ConnectionInv

LEMMA WithoutTyped ==
  ASSUME ConnectionTypeOK, NEW waits
  PROVE  Without(waits) \in [Clients -> {"idle", "joining", "ready", "pending"}]
BY DEF ConnectionTypeOK, Without

LEMMA StartFailsKeeps ==
  ASSUME ConnectionInv, NEW f, Fewer(f), step # "idle",
         NEW o \in {owner, "starting"}, StartFails(f, o)
  PROVE  ConnectionInv'
<1>1. owner # "new" /\ owner' \in {"starting", "up", "gone"} /\ step' = "idle" /\ failed' = TRUE
  BY DEF StartFails, ConnectionInv, ConnectionTypeOK, Opening
<1>2. call' \in [Clients -> {"idle", "joining", "ready", "pending"}]
  BY WithoutTyped DEF StartFails, ConnectionInv
<1>3. overrun' \in BOOLEAN /\ step' \in StartSteps
  BY <1>1 DEF StartFails, ConnectionInv, ConnectionTypeOK, StartSteps
<1> QED
  BY <1>1, <1>2, <1>3, StopKeeps DEF StartFails

LEMMA PresentFewer == ConnectionTypeOK => Fewer(sockets)
BY DEF ConnectionTypeOK, Fewer

\* The steps that change no socket but the start's, and let the start go on.
LEMMA PassesKeeps ==
  ASSUME ConnectionInv, NEW from, NEW to \in StartSteps, Passes(from, to),
         from # "idle", from # "open", to \notin {"idle", "open"}, to = "discover" => ~Connected,
         listening' \in BOOLEAN
  PROVE  ConnectionInv'
<1>1. ConnectionTypeOK'
  BY DEF ConnectionInv, ConnectionTypeOK, Passes
<1>2. OneSocket' /\ Opening'
  BY DEF ConnectionInv, OneSocket, Live, Opening, Connected, Passes
<1>3. ConnectedIsPolled' /\ StoppedIsDown' /\ Kept'
  BY DEF ConnectionInv, ConnectedIsPolled, StoppedIsDown, Kept, Passes
<1> QED
  BY <1>1, <1>2, <1>3 DEF ConnectionInv

LEMMA StepFailsKeeps ==
  ASSUME ConnectionInv, NEW at, at # "idle", StepFails(at)
  PROVE  ConnectionInv'
BY PresentFewer, StartFailsKeeps DEF StepFails, ConnectionInv

LEMMA DiscoveredKeeps == ConnectionInv /\ Discovered => ConnectionInv'
<1> SUFFICES ASSUME ConnectionInv, Discovered PROVE ConnectionInv'
  OBVIOUS
<1>1. CASE StepFails("discover")
  BY <1>1, StepFailsKeeps
<1>2. CASE ~StepFails("discover")
  <2>1. PICK n \in Sockets : /\ sockets[n] = "none" /\ socket' = n
                             /\ sockets' = [sockets EXCEPT ![n] = "opening"]
    BY <1>2 DEF Discovered, NextSocket
  <2>2. /\ step = "discover" /\ step' = "open"
        /\ UNCHANGED <<owner, serving, polls, listening, appServer, follows, call, asked, served,
                       overrun, revived, failed, stale>>
    BY <1>2 DEF Discovered
  <2>3. Live = {}
    <3>1. ~Connected /\ \A s \in Sockets : sockets[s] # "opening"
      BY <2>2 DEF ConnectionInv, Opening
    <3>2. \A s \in Sockets : sockets[s] = "open" => s = socket
      BY DEF ConnectionInv, OneSocket, Live
    <3>3. \A s \in Sockets : sockets[s] # "open"
      BY <3>1, <3>2, Zero DEF Connected
    <3> QED
      BY <3>1, <3>3 DEF Live
  <2>4. sockets' \in [Sockets -> {"none", "opening", "open", "closing", "closed"}]
        /\ sockets'[n] = "opening" /\ \A s \in Sockets \ {n} : sockets'[s] = sockets[s]
    BY <2>1 DEF ConnectionInv, ConnectionTypeOK
  <2>5. ConnectionTypeOK'
    BY <2>1, <2>2, <2>4 DEF ConnectionInv, ConnectionTypeOK, StartSteps
  <2>6. OneSocket' /\ Opening'
    BY <2>1, <2>2, <2>3, <2>4 DEF ConnectionInv, OneSocket, Opening, Live
  <2>7. ConnectedIsPolled' /\ StoppedIsDown' /\ Kept'
    BY <2>2 DEF ConnectionInv, ConnectedIsPolled, StoppedIsDown, Kept
  <2> QED
    BY <2>5, <2>6, <2>7 DEF ConnectionInv
<1> QED
  BY <1>1, <1>2

LEMMA SocketOpensKeeps == ConnectionInv /\ SocketOpens => ConnectionInv'
<1> SUFFICES ASSUME ConnectionInv, SocketOpens PROVE ConnectionInv'
  OBVIOUS
<1>1. CASE StepFails("open")
  BY <1>1, StepFailsKeeps
<1>2. CASE ~StepFails("open")
  <2>1. /\ step = "open" /\ step' = "runtime" /\ sockets[socket] = "opening"
        /\ sockets' = [sockets EXCEPT ![socket] = "open"]
        /\ UNCHANGED <<owner, socket, serving, polls, listening, appServer, follows, call, asked, served,
                       overrun, revived, failed, stale>>
    BY <1>2 DEF SocketOpens
  <2>2. /\ sockets' \in [Sockets -> {"none", "opening", "open", "closing", "closed"}]
        /\ \A s \in Sockets : s # socket => sockets'[s] = sockets[s]
        /\ \A s \in Sockets : s = socket => sockets'[s] = "open"
    BY <2>1 DEF ConnectionInv, ConnectionTypeOK
  <2>3. ConnectionTypeOK'
    BY <2>1, <2>2 DEF ConnectionInv, ConnectionTypeOK, StartSteps
  <2>4. OneSocket' /\ Opening'
    BY <2>1, <2>2 DEF ConnectionInv, OneSocket, Opening, Live
  <2>5. ConnectedIsPolled' /\ StoppedIsDown' /\ Kept'
    BY <2>1 DEF ConnectionInv, ConnectedIsPolled, StoppedIsDown, Kept
  <2> QED
    BY <2>3, <2>4, <2>5 DEF ConnectionInv
<1> QED
  BY <1>1, <1>2

LEMMA StartSucceedsKeeps == ConnectionInv /\ StartSucceeds => ConnectionInv'
<1> SUFFICES ASSUME ConnectionInv, StartSucceeds PROVE ConnectionInv'
  OBVIOUS
<1>1. call' \in [Clients -> {"idle", "joining", "ready", "pending"}]
  BY DEF StartSucceeds, ConnectionInv, ConnectionTypeOK
<1>2. ConnectionTypeOK'
  BY <1>1 DEF StartSucceeds, ConnectionInv, ConnectionTypeOK, StartSteps
<1>3. OneSocket' /\ Opening'
  BY DEF StartSucceeds, ConnectionInv, ConnectionTypeOK, OneSocket, Opening, Live, Connected
<1>4. ConnectedIsPolled' /\ StoppedIsDown' /\ Kept'
  BY DEF StartSucceeds, ConnectionInv, ConnectedIsPolled, StoppedIsDown, Kept
<1> QED
  BY <1>2, <1>3, <1>4 DEF ConnectionInv

LEMMA StartKeeps == ConnectionInv /\ StartGoesOn => ConnectionInv'
<1> SUFFICES ASSUME ConnectionInv, StartGoesOn PROVE ConnectionInv'
  OBVIOUS
<1>t. listening \in BOOLEAN
  BY DEF ConnectionInv, ConnectionTypeOK
<1>1. CASE RulesLoaded
  BY <1>t, <1>1, PassesKeeps DEF RulesLoaded, StartSteps
<1>2. CASE PageEnabled
  BY <1>t, <1>2, PassesKeeps, StepFailsKeeps DEF PageEnabled, StartSteps
<1>3. CASE SessionsListed \/ AppServerConnects
  BY <1>t, <1>3, PassesKeeps, StepFailsKeeps DEF SessionsListed, AppServerConnects, StartSteps
<1> QED
  BY <1>1, <1>2, <1>3, DiscoveredKeeps, SocketOpensKeeps, StartSucceedsKeeps DEF StartGoesOn

-----------------------------------------------------------------------------
(* The owner, the requests and the official client *)

LEMMA OwnerKeeps == ConnectionInv /\ (OwnerStarts \/ OwnerStops) => ConnectionInv'
<1> SUFFICES ASSUME ConnectionInv, OwnerStarts \/ OwnerStops PROVE ConnectionInv'
  OBVIOUS
<1>t. ConnectionTypeOK /\ Fewer(sockets)
  BY PresentFewer DEF ConnectionInv
<1>1. CASE OwnerStarts
  <2>1. ConnectionTypeOK'
    BY <1>1, <1>t DEF OwnerStarts, ConnectionTypeOK, StartSteps
  <2>2. OneSocket' /\ Opening'
    BY <1>1, <1>t DEF OwnerStarts, ConnectionInv, OneSocket, Opening, Live, Connected
  <2>3. ConnectedIsPolled' /\ StoppedIsDown' /\ Kept'
    BY <1>1 DEF OwnerStarts, ConnectionInv, ConnectedIsPolled, StoppedIsDown, Kept
  <2> QED
    BY <2>1, <2>2, <2>3 DEF ConnectionInv
<1>2. CASE OwnerStops /\ OnSocket
  BY <1>2, <1>t, StartFailsKeeps DEF OwnerStops, OnSocket
<1>3. CASE OwnerStops /\ ~OnSocket
  <2>1. /\ StopService(sockets) /\ owner' = "gone" /\ owner # "new"
        /\ overrun' = (overrun \/ step # "idle")
        /\ UNCHANGED <<step, asked, served, revived, failed, stale>>
    BY <1>3 DEF OwnerStops
  <2>2. call' \in [Clients -> {"idle", "joining", "ready", "pending"}]
    BY <1>3, <1>t, WithoutTyped DEF OwnerStops
  <2>3. step' \in StartSteps /\ step' # "open" /\ failed' \in BOOLEAN /\ overrun' \in BOOLEAN
    BY <1>3, <1>t, <2>1 DEF OnSocket, ConnectionTypeOK
  <2>4. ~overrun' => step' = "idle"
    BY <2>1
  <2> QED
    BY <1>t, <2>1, <2>2, <2>3, <2>4, StopKeeps
<1> QED
  BY <1>1, <1>2, <1>3

\* Calls alone do not change the connection.
LEMMA CallsKeep ==
  ASSUME ConnectionInv, ConnectionTypeOK', NEW c \in Clients, Operate(c) \/ Answered(c)
  PROVE  ConnectionInv'
<1>1. UNCHANGED <<owner, step, socket, sockets, serving, polls, listening, appServer, asked, served,
                  overrun, revived, failed, stale>>
  BY DEF Operate, Answered
<1>2. follows' = follows \/ follows' = "yes"
  BY DEF Operate, Answered
<1>3. OneSocket' /\ Opening'
  BY <1>1 DEF ConnectionInv, OneSocket, Opening, Live, Connected
<1>4. ConnectedIsPolled' /\ StoppedIsDown' /\ Kept'
  BY <1>1, <1>2 DEF ConnectionInv, ConnectedIsPolled, StoppedIsDown, Kept, Connected, Live
<1> QED
  BY <1>3, <1>4 DEF ConnectionInv

LEMMA RequestsKeep ==
  ASSUME ConnectionInv, NEW c \in Clients, Ask(c) \/ Operate(c) \/ Answered(c)
  PROVE  ConnectionInv'
<1>t. ConnectionTypeOK
  BY DEF ConnectionInv
<1>1. CASE Operate(c) \/ Answered(c)
  <2>1. call' \in [Clients -> {"idle", "joining", "ready", "pending"}]
    BY <1>1, <1>t DEF Operate, Answered, ConnectionTypeOK
  <2>2. ConnectionTypeOK'
    BY <1>1, <1>t, <2>1 DEF Operate, Answered, ConnectionTypeOK
  <2> QED
    BY <1>1, <2>2, CallsKeep
<1>2. CASE Ask(c)
  <2>1. /\ UNCHANGED <<owner, socket, sockets, serving, polls, listening, appServer, follows, served,
                       overrun, failed, stale>>
        /\ served /\ asked < MaxAsked /\ asked' = asked + 1
    BY <1>2 DEF Ask
  <2>2. asked' \in 0..MaxAsked
    BY <1>t, <2>1, ConnectionAssumption DEF ConnectionTypeOK, ConnectionAssumption
  <2>3. call' \in [Clients -> {"idle", "joining", "ready", "pending"}]
    BY <1>2, <1>t DEF Ask, ConnectionTypeOK
  <2>4. \/ step' = step /\ revived' = revived
        \/ step = "idle" /\ step' = "rules" /\ revived' = (revived \/ owner = "gone")
    BY <1>2, <1>t DEF Ask, ConnectionTypeOK
  <2>a. step' \in StartSteps /\ revived' \in BOOLEAN
    BY <1>t, <2>4 DEF ConnectionTypeOK, StartSteps
  <2>b. owner # "new"
    BY <2>1 DEF ConnectionInv, Opening
  <2>c. \A s \in Sockets : sockets[s] = "opening" => step' = "open"
    BY <2>4 DEF ConnectionInv, Opening
  <2>d. step' = "discover" => step = "discover"
    BY <2>4
  <2>5. ConnectionTypeOK'
    BY <1>t, <2>1, <2>2, <2>3, <2>a DEF ConnectionTypeOK
  <2>6. OneSocket' /\ Opening'
    BY <2>1, <2>b, <2>c, <2>d DEF ConnectionInv, OneSocket, Opening, Live, Connected
  <2>7. ConnectedIsPolled' /\ StoppedIsDown' /\ Kept'
    BY <2>1, <2>4 DEF ConnectionInv, ConnectedIsPolled, StoppedIsDown, Kept, Connected, Live
  <2> QED
    BY <2>5, <2>6, <2>7 DEF ConnectionInv
<1> QED
  BY <1>1, <1>2

LEMMA ClosesKeep ==
  ASSUME ConnectionInv, NEW s \in Sockets, PageCloses(s) \/ CloseEvent(s)
  PROVE  ConnectionInv'
<1> DEFINE f == [sockets EXCEPT ![s] = "closed"]
<1>t. ConnectionTypeOK
  BY DEF ConnectionInv
<1>1. f \in [Sockets -> {"none", "opening", "open", "closing", "closed"}] /\ f[s] = "closed"
      /\ \A x \in Sockets \ {s} : f[x] = sockets[x]
  BY <1>t DEF ConnectionTypeOK
<1>2. HandleClose(s, f) /\ sockets[s] # "opening"
  BY DEF PageCloses, CloseEvent
<1> HIDE DEF f
<1>3. CASE step \in {"runtime", "page"}
  BY <1>1, <1>2, <1>3, StartFailsKeeps DEF HandleClose, Fewer
<1>4. CASE step \notin {"runtime", "page"}
  <2>1. /\ sockets' = f
        /\ serving' = (serving /\ ~listening) /\ polls' = (polls /\ ~listening)
        /\ stale' = (stale \/ (s # socket /\ listening /\ polls))
        /\ UNCHANGED <<owner, step, socket, listening, appServer, follows, asked, served, overrun,
                       revived, failed>>
    BY <1>2, <1>4 DEF HandleClose
  <2>2. call' \in [Clients -> {"idle", "joining", "ready", "pending"}]
    BY <1>2, <1>4, <1>t, WithoutTyped DEF HandleClose
  <2>3. ConnectionTypeOK'
    BY <1>1, <1>t, <2>1, <2>2 DEF ConnectionTypeOK
  <2>4. \A x \in Sockets : sockets'[x] \in {"open", "opening"} => sockets'[x] = sockets[x] /\ x # s
    BY <1>1, <2>1
  <2>5. OneSocket' /\ Live' \subseteq Live
    BY <2>1, <2>4 DEF ConnectionInv, OneSocket, Live
  <2>6. Connected' => Connected /\ s # socket
    BY <1>t, <2>1, <2>4, Zero DEF ConnectionTypeOK, Connected
  <2>7. Opening'
    BY <1>t, <2>1, <2>4, <2>6 DEF ConnectionInv, Opening
  <2>8. ConnectedIsPolled' /\ StoppedIsDown' /\ Kept'
    BY <1>t, <2>1, <2>5, <2>6 DEF ConnectionInv, ConnectionTypeOK, ConnectedIsPolled, StoppedIsDown, Kept
  <2> QED
    BY <2>3, <2>5, <2>7, <2>8 DEF ConnectionInv
<1> QED
  BY <1>3, <1>4

-----------------------------------------------------------------------------
(* The theorems about the lifecycle *)

LEMMA ConnectionStarts == ConnectionInit => ConnectionInv
<1> SUFFICES ASSUME ConnectionInit PROVE ConnectionInv
  OBVIOUS
<1>1. ConnectionTypeOK
  <2>1. asked \in 0..MaxAsked
    BY ConnectionAssumption DEF ConnectionInit, ConnectionAssumption
  <2>2. /\ sockets \in [Sockets -> {"none", "opening", "open", "closing", "closed"}]
        /\ call \in [Clients -> {"idle", "joining", "ready", "pending"}]
    BY DEF ConnectionInit
  <2>3. owner \in {"new", "starting", "up", "gone"} /\ step \in StartSteps /\ socket \in Sockets \cup {NoSocket}
    BY DEF ConnectionInit, StartSteps
  <2>4. /\ serving \in BOOLEAN /\ polls \in BOOLEAN /\ listening \in BOOLEAN
        /\ appServer \in {"open", "closed"} /\ follows \in {"never", "yes", "lost"}
        /\ served \in BOOLEAN /\ overrun \in BOOLEAN /\ revived \in BOOLEAN
        /\ failed \in BOOLEAN /\ stale \in BOOLEAN
    BY DEF ConnectionInit
  <2> QED
    BY <2>1, <2>2, <2>3, <2>4 DEF ConnectionTypeOK
<1>2. OneSocket /\ Opening
  BY DEF ConnectionInit, OneSocket, Opening, Live, Connected
<1>3. ConnectedIsPolled /\ StoppedIsDown /\ Kept
  BY DEF ConnectionInit, ConnectedIsPolled, StoppedIsDown, Kept, Connected
<1> QED
  BY <1>1, <1>2, <1>3 DEF ConnectionInv

LEMMA ConnectionMoves == ConnectionInv /\ [ConnectionNext]_connectionVars => ConnectionInv'
<1> SUFFICES ASSUME ConnectionInv, [ConnectionNext]_connectionVars PROVE ConnectionInv'
  OBVIOUS
<1>1. CASE UNCHANGED connectionVars
  <2>1. ConnectionTypeOK' /\ OneSocket' /\ Opening'
    BY <1>1 DEF connectionVars, ConnectionInv, ConnectionTypeOK, OneSocket, Live, Opening, Connected
  <2>2. ConnectedIsPolled' /\ StoppedIsDown' /\ Kept'
    BY <1>1 DEF connectionVars, ConnectionInv, ConnectedIsPolled, StoppedIsDown, Kept, Connected, Live
  <2> QED
    BY <2>1, <2>2 DEF ConnectionInv
<1>2. CASE ConnectionNext
  BY <1>2, OwnerKeeps, StartKeeps, RequestsKeep, ClosesKeep DEF ConnectionNext
<1> QED
  BY <1>1, <1>2

LEMMA OwnedByInv == ConnectionInv => ConnectionIsOwned
BY DEF ConnectionInv, ConnectionIsOwned, ReconnectionKeeps, Kept

\* However starts, stops, requests and close events interleave, only the socket
\* the client knows is open, a connection of an idle service is polled, a stopped
\* service is down and a reconnection that succeeds loses nothing, but for the
\* overlaps the properties name (codex-service.ts, cdp-client.ts).
THEOREM OwnedHolds == ConnectionSpec => []ConnectionIsOwned
BY ConnectionStarts, ConnectionMoves, OwnedByInv, PTL DEF ConnectionSpec

-----------------------------------------------------------------------------
(* The application *)

PartsInv == LifecycleInv /\ InTurn /\ UpdatesInv /\ TransportInv /\ ConnectionInv

LEMMA DesktopStarts == Init => PartsInv
BY TransportStarts, InitUpdates, LifecycleStarts, StartsInTurn, ConnectionStarts DEF Init, PartsInv

LEMMA TransportMoves == [Next]_vars => [TransportNext]_transportVars
BY DEF Next, vars

LEMMA UpdatesMove == [Next]_vars => [UpdatesNext]_updateVars
BY DEF Next, vars

LEMMA LifecycleStep == [Next]_vars => [DesktopNext]_desktopVars
BY DEF Next, vars

LEMMA ConnectionStep == [Next]_vars => [ConnectionNext]_connectionVars
BY DEF Next, vars

LEMMA DesktopInv == Spec => []PartsInv
<1>1. PartsInv /\ [Next]_vars => PartsInv'
  BY TransportMoves, UpdatesMove, LifecycleStep, ConnectionStep, TransportStep, TransportStutters, NextUpdates,
     LifecycleMoves, MovesInTurn, ConnectionMoves DEF PartsInv
<1> QED
  BY <1>1, DesktopStarts, PTL DEF Spec

\* Every part of the application keeps its state within its types.
THEOREM DesktopTyped == Spec => []TypeOK
<1>1. Init => focus \in Parts
  BY DEF Init
<1>2. focus \in Parts /\ [Next]_vars => (focus \in Parts)'
  BY DEF Next, vars
<1>3. PartsInv /\ focus \in Parts => TypeOK
  BY DEF PartsInv, TypeOK, LifecycleInv, UpdatesInv, TransportInv, ConnectionInv
<1> QED
  BY <1>1, <1>2, <1>3, DesktopInv, PTL DEF Spec

\* The application leaves no child of its own behind, and a request runs again at
\* most once and never beside its first run (thread-metadata-client.ts); what it
\* offers to install, and what the installer finds, is whole, and a phase that
\* disables the button ends (update-manager.ts); a runtime or a server stays
\* behind only where a start and a stop overlapped, and while operations do not
\* overlap what is shown, and what the hub was told, is what is there (main.ts,
\* orchestrator.ts); the one open socket to the client is the one CdpClient knows (cdp-client.ts).
THEOREM DesktopSafe ==
  Spec => [](/\ OneChildServes /\ OfferedFileIsWhole /\ PhaseHasItsWorker
             /\ StrayOnlyWhenCrossed /\ SettledAsShown /\ HubToldTheState /\ ConnectionIsOwned)
<1>1. PartsInv => /\ OneChildServes /\ OfferedFileIsWhole /\ PhaseHasItsWorker
                  /\ StrayOnlyWhenCrossed /\ SettledAsShown /\ HubToldTheState /\ ConnectionIsOwned
  BY TransportInvServes, InvOffered, OwnedOrCrossed, InTurnShows, OwnedByInv DEF PartsInv, UpdatesInv
<1> QED
  BY <1>1, DesktopInv, PTL

\* No failure that is learnt late stops the child a newer request is served by
\* (thread-metadata-client.ts, #request and #rpc).
THEOREM DesktopSparesNewer == Spec => LateFailureSparesNewer
<1>1. TransportInv /\ [Next]_vars =>
        [\A c \in Children : alive[c] /\ ~alive'[c] => closedClient' \/ blame' = c]_transportVars
  BY TransportMoves, TransportStep DEF transportVars
<1>2. PartsInv => TransportInv
  BY DEF PartsInv
<1> QED
  BY <1>1, <1>2, DesktopInv, PTL DEF Spec, LateFailureSparesNewer

==============================================================================
