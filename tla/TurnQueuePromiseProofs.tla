----------------------- MODULE TurnQueuePromiseProofs -----------------------
(***************************************************************************)
(* What the turn queue keeps of the messages it has accepted, for every    *)
(* set of threads and messages and every limit and bound: where they are,  *)
(* that their files stay, that none is repeated unasked, that each queue   *)
(* is polled, that they wait for the running turn; and that the queue      *)
(* implements MessageDispatch.                                             *)
(*                                                                         *)
(* The lemmas about the fields of a queue after each kind of change come   *)
(* first; every invariant below reads a step through them.                 *)
(***************************************************************************)
EXTENDS TurnQueuePromise, TurnQueueProofs

-----------------------------------------------------------------------------
(* The fields of a queue after a change                                    *)

LEMMA WatchedFields ==
  ASSUME NEW s \in QueueState, NEW t
  PROVE  /\ Watched(s, t).items = s.items
         /\ Watched(s, t).activeTurn = s.activeTurn
         /\ Watched(s, t).blocked = s.blocked
         /\ Watched(s, t).draining = s.draining
         /\ Watched(s, t).watcher = IF ~Live(s) THEN NoThread
                                    ELSE IF s.watcher = NoThread THEN t ELSE s.watcher
BY DEF Watched, QueueState

\* A drain that starts or fails at once leaves the items, the active turn and
\* the interval alone and never unblocks a queue.
LEMMA DrainedFields ==
  ASSUME NEW s \in QueueState, NEW up
  PROVE  /\ Drained(s, up).items = s.items
         /\ Drained(s, up).activeTurn = s.activeTurn
         /\ Drained(s, up).watcher = s.watcher
         /\ s.blocked => Drained(s, up).blocked
BY DEF Drained, QueueState

LEMMA EmptyFields ==
  /\ EmptyQueue.items = <<>> /\ EmptyQueue.activeTurn = NoTurn /\ ~EmptyQueue.blocked
  /\ EmptyQueue.watcher = NoThread /\ ~EmptyQueue.draining /\ ~Live(EmptyQueue)
BY DEF EmptyQueue, Live

\* The calls D after drainQueue(t) on calls C with queue o in state s: at most
\* one new call, that of the first item of a queue free to send it.
StartsHead(C, D, s, t, o) ==
  \/ D = C
  \/ \E h \in Msgs : /\ s.items # <<>> /\ h = Head(s.items) /\ Has(s.items, h)
                     /\ s.activeTurn = NoTurn /\ ~s.blocked /\ ~s.draining
                     /\ D = [C EXCEPT ![h] = NewCall(t, o, TRUE)]

LEMMA HeadIsIn ==
  ASSUME NEW s \in Seq(Msgs), s # <<>>
  PROVE  Head(s) \in Msgs /\ Head(s) = s[1] /\ 1 \in DOMAIN s /\ Has(s, Head(s))
<1>1. Head(s) \in Msgs /\ Head(s) = s[1] /\ 1 \in DOMAIN s
  BY HeadTailProperties, LenProperties, EmptySeq
<1> QED
  BY <1>1 DEF Has

LEMMA LaunchedStartsHead ==
  ASSUME NEW C, NEW s \in QueueState, NEW t, NEW o, NEW up
  PROVE  StartsHead(C, Launched(C, s, t, o, up), s, t, o)
<1>1. CASE Starts(s, up)
  <2>1. s.items \in Seq(Msgs) /\ s.items # <<>>
    BY <1>1, FieldTypes DEF Starts, CanDrain
  <2>2. Head(s.items) \in Msgs /\ Has(s.items, Head(s.items))
    BY <2>1, HeadIsIn
  <2>3. s.activeTurn = NoTurn /\ ~s.blocked /\ ~s.draining
    BY <1>1 DEF Starts, CanDrain
  <2> QED
    BY <1>1, <2>1, <2>2, <2>3 DEF StartsHead, Launched
<1>2. CASE ~Starts(s, up)
  BY <1>2 DEF StartsHead, Launched
<1> QED
  BY <1>1, <1>2

\* broadcastQueue and drainQueue with the queue of thread t in state s.
LEMMA PublishFields ==
  ASSUME TypeOK, NEW t \in Threads, NEW s \in QueueState, NEW up, Publish(t, s, up)
  PROVE  /\ q'[slot[t]].items = s.items
         /\ q'[slot[t]].activeTurn = s.activeTurn
         /\ q'[slot[t]].watcher = IF ~Live(s) THEN NoThread
                                  ELSE IF s.watcher = NoThread THEN t ELSE s.watcher
         /\ s.blocked => q'[slot[t]].blocked
         /\ \A o \in Objs : o # slot[t] => q'[o] = q[o]
         /\ StartsHead(call, call', s, t, slot[t])
<1> DEFINE w == Watched(s, t)
<1>1. w \in QueueState
  BY WatchedType
<1>2. /\ w.items = s.items /\ w.activeTurn = s.activeTurn /\ w.blocked = s.blocked
      /\ w.draining = s.draining
      /\ w.watcher = IF ~Live(s) THEN NoThread
                     ELSE IF s.watcher = NoThread THEN t ELSE s.watcher
  BY WatchedFields
<1>3. q' = [q EXCEPT ![slot[t]] = Drained(w, up)] /\ call' = Launched(call, w, t, slot[t], up)
  BY DEF Publish
<1>4. slot[t] \in Objs /\ q \in [Objs -> QueueState]
  BY DEF TypeOK
<1> HIDE DEF w
<1>5. /\ Drained(w, up).items = w.items /\ Drained(w, up).activeTurn = w.activeTurn
      /\ Drained(w, up).watcher = w.watcher
      /\ w.blocked => Drained(w, up).blocked
  BY <1>1, DrainedFields
<1>6. q'[slot[t]] = Drained(w, up) /\ \A o \in Objs : o # slot[t] => q'[o] = q[o]
  BY <1>3, <1>4
<1>7. StartsHead(call, call', w, t, slot[t])
  BY <1>1, <1>3, LaunchedStartsHead
<1>8. StartsHead(call, call', s, t, slot[t])
  BY <1>2, <1>7 DEF StartsHead
<1> QED
  BY <1>2, <1>5, <1>6, <1>8

\* State object o learns that turn n is active.
LEMMA HeardFields ==
  ASSUME NEW Q \in [Objs -> QueueState], NEW o \in Objs, NEW n \in 0..MaxTurn, NEW t \in Threads
  PROVE  LET R == Heard(Q, o, n, t) IN
         /\ R \in [Objs -> QueueState]
         /\ \A p \in Objs : p # o => R[p] = Q[p]
         /\ R[o].items = Q[o].items /\ R[o].activeTurn = n
         /\ R[o].blocked = Q[o].blocked /\ R[o].draining = Q[o].draining
         /\ R[o].watcher = IF Q[o].items = <<>> /\ n = NoTurn THEN NoThread
                           ELSE IF Q[o].watcher = NoThread THEN t ELSE Q[o].watcher
<1> DEFINE s == [Q[o] EXCEPT !.activeTurn = n]
<1>1. /\ s \in QueueState /\ s.items = Q[o].items /\ s.activeTurn = n
      /\ s.blocked = Q[o].blocked /\ s.draining = Q[o].draining /\ s.watcher = Q[o].watcher
  BY DEF QueueState
<1>2. Heard(Q, o, n, t) = [Q EXCEPT ![o] = Watched(s, t)]
  BY DEF Heard
<1> HIDE DEF s
<1>3. /\ Watched(s, t) \in QueueState
      /\ Watched(s, t).items = s.items /\ Watched(s, t).activeTurn = s.activeTurn
      /\ Watched(s, t).blocked = s.blocked /\ Watched(s, t).draining = s.draining
      /\ Watched(s, t).watcher = IF ~Live(s) THEN NoThread
                                 ELSE IF s.watcher = NoThread THEN t ELSE s.watcher
  BY <1>1, WatchedType, WatchedFields
<1>4. Live(s) <=> ~(Q[o].items = <<>> /\ n = NoTurn)
  BY <1>1 DEF Live
<1> QED
  BY <1>1, <1>2, <1>3, <1>4

\* State object x is told that turn n is active, and the interval of the queue of
\* thread t is refreshed.
Told(x, n, t) ==
  [[q EXCEPT ![x].activeTurn = n] EXCEPT ![slot[t]] = Watched(@, t)]

LEMMA ToldFields ==
  ASSUME TypeOK, NEW x \in Objs, NEW n \in 0..MaxTurn, NEW t \in Threads
  PROVE  LET R == Told(x, n, t)
             a == IF x = slot[t] THEN n ELSE q[slot[t]].activeTurn
         IN
         /\ R \in [Objs -> QueueState]
         /\ \A p \in Objs : /\ R[p].items = q[p].items /\ R[p].blocked = q[p].blocked
                            /\ R[p].draining = q[p].draining
                            /\ R[p].activeTurn = IF p = x THEN n ELSE q[p].activeTurn
                            /\ p # slot[t] => R[p].watcher = q[p].watcher
                            /\ p # slot[t] /\ p # x => R[p] = q[p]
         /\ R[slot[t]].watcher =
              IF q[slot[t]].items = <<>> /\ a = NoTurn THEN NoThread
              ELSE IF q[slot[t]].watcher = NoThread THEN t ELSE q[slot[t]].watcher
<1> DEFINE told == [q EXCEPT ![x].activeTurn = n]
           s == told[slot[t]]
<1>1. q \in [Objs -> QueueState] /\ slot[t] \in Objs
  BY DEF TypeOK
<1>2. told \in [Objs -> QueueState]
  BY <1>1, FieldTypes
<1>3. \A p \in Objs : /\ told[p].items = q[p].items /\ told[p].blocked = q[p].blocked
                      /\ told[p].draining = q[p].draining /\ told[p].watcher = q[p].watcher
                      /\ told[p].activeTurn = IF p = x THEN n ELSE q[p].activeTurn
                      /\ p # x => told[p] = q[p]
  BY <1>1 DEF QueueState
<1>4. Told(x, n, t) = [told EXCEPT ![slot[t]] = Watched(s, t)]
  BY DEF Told
<1> HIDE DEF told
<1>5. s \in QueueState
  BY <1>1, <1>2
<1>6. /\ Watched(s, t) \in QueueState
      /\ Watched(s, t).items = s.items /\ Watched(s, t).activeTurn = s.activeTurn
      /\ Watched(s, t).blocked = s.blocked /\ Watched(s, t).draining = s.draining
      /\ Watched(s, t).watcher = IF ~Live(s) THEN NoThread
                                 ELSE IF s.watcher = NoThread THEN t ELSE s.watcher
  BY <1>5, WatchedType, WatchedFields
<1>7. Live(s) <=> ~(q[slot[t]].items = <<>>
                    /\ (IF x = slot[t] THEN n ELSE q[slot[t]].activeTurn) = NoTurn)
  BY <1>1, <1>3 DEF Live
<1> QED
  BY <1>1, <1>2, <1>3, <1>4, <1>6, <1>7

LEMMA LearntIsTold ==
  ASSUME NEW x, NEW n, NEW t
  PROVE  Learnt(x, n, t) = IF q[x].activeTurn = n THEN q ELSE Told(x, n, t)
BY DEF Learnt, Told

LEMMA LearntFields ==
  ASSUME TypeOK, NEW x \in Objs, NEW n \in 0..MaxTurn, NEW t \in Threads
  PROVE  LET R == Learnt(x, n, t)
             a == IF x = slot[t] THEN n ELSE q[slot[t]].activeTurn
         IN
         /\ R \in [Objs -> QueueState]
         /\ \A p \in Objs : /\ R[p].items = q[p].items /\ R[p].blocked = q[p].blocked
                            /\ R[p].draining = q[p].draining
                            /\ R[p].activeTurn = IF p = x THEN n ELSE q[p].activeTurn
                            /\ p # slot[t] => R[p].watcher = q[p].watcher
                            /\ p # slot[t] /\ p # x => R[p] = q[p]
         /\ \/ R[slot[t]].watcher = q[slot[t]].watcher /\ q[x].activeTurn = n
            \/ R[slot[t]].watcher =
                 IF q[slot[t]].items = <<>> /\ a = NoTurn THEN NoThread
                 ELSE IF q[slot[t]].watcher = NoThread THEN t ELSE q[slot[t]].watcher
<1>1. CASE q[x].activeTurn = n
  <2>1. Learnt(x, n, t) = q /\ q \in [Objs -> QueueState]
    BY <1>1 DEF Learnt, TypeOK
  <2> QED
    BY <1>1, <2>1
<1>2. CASE q[x].activeTurn # n
  <2>1. Learnt(x, n, t) = Told(x, n, t)
    BY <1>2, LearntIsTold
  <2> QED
    BY <2>1, ToldFields
<1> QED
  BY <1>1, <1>2

\* Where a poll that is under way looks.
LEMMA PollPlace ==
  ASSUME TypeOK, NEW o \in Objs, poll[o].pc # "idle"
  PROVE  poll[o].thread \in Threads /\ slot[poll[o].thread] \in Objs
BY PollTypes, SlotType

\* A poll that finds its thread idle: object x forgets its turn, and the queue of
\* the thread is drained.
LEMMA PollGoesOnFields ==
  ASSUME TypeOK, NEW o \in Objs, NEW x \in Objs, poll[o].pc # "idle", PollGoesOn(o, x)
  PROVE  LET t == poll[o].thread
             y == slot[t]
             a == IF x = y THEN NoTurn ELSE q[y].activeTurn
         IN
         /\ t \in Threads /\ y \in Objs
         /\ \A p \in Objs : /\ q'[p].items = q[p].items
                            /\ q[p].blocked => q'[p].blocked
                            /\ q'[p].activeTurn = IF p = x THEN NoTurn ELSE q[p].activeTurn
                            /\ p # y => q'[p].watcher = q[p].watcher
                            /\ p # y /\ p # x => q'[p] = q[p]
         /\ \/ q'[y].watcher = q[y].watcher /\ q[x].activeTurn = NoTurn
            \/ q'[y].watcher = IF q[y].items = <<>> /\ a = NoTurn THEN NoThread
                               ELSE IF q[y].watcher = NoThread THEN t ELSE q[y].watcher
         /\ StartsHead(call, call', [q[y] EXCEPT !.activeTurn = a], t, y)
<1> DEFINE t == poll[o].thread
           y == slot[t]
           a == IF x = y THEN NoTurn ELSE q[y].activeTurn
           idle == Learnt(x, NoTurn, t)
<1>1. t \in Threads /\ y \in Objs /\ q[y] \in QueueState
  BY PollTypes, SlotType
<1>2. NoTurn \in 0..MaxTurn
  BY ConstantsAssumption DEF NoTurn, ConstantsAssumption
<1>3. /\ idle \in [Objs -> QueueState]
      /\ \A p \in Objs : /\ idle[p].items = q[p].items /\ idle[p].blocked = q[p].blocked
                         /\ idle[p].draining = q[p].draining
                         /\ idle[p].activeTurn = IF p = x THEN NoTurn ELSE q[p].activeTurn
                         /\ p # y => idle[p].watcher = q[p].watcher
                         /\ p # y /\ p # x => idle[p] = q[p]
      /\ \/ idle[y].watcher = q[y].watcher /\ q[x].activeTurn = NoTurn
         \/ idle[y].watcher = IF q[y].items = <<>> /\ a = NoTurn THEN NoThread
                              ELSE IF q[y].watcher = NoThread THEN t ELSE q[y].watcher
  BY <1>1, <1>2, LearntFields
<1>4. \/ q' = idle /\ call' = call
      \/ /\ q' = [idle EXCEPT ![y] = Drained(idle[y], files')]
         /\ call' = Launched(call, idle[y], t, y, files')
  BY DEF PollGoesOn
<1> DEFINE s == [q[y] EXCEPT !.activeTurn = a]
<1>5. /\ s.items = q[y].items /\ s.activeTurn = a /\ s.blocked = q[y].blocked
      /\ s.draining = q[y].draining
  BY <1>1 DEF QueueState
<1> HIDE DEF idle, t, s
<1>6. CASE q' = idle /\ call' = call
  <2>1. StartsHead(call, call', s, t, y)
    BY <1>6 DEF StartsHead
  <2> QED
    BY <1>1, <1>3, <1>6, <2>1 DEF t, s
<1>7. CASE /\ q' = [idle EXCEPT ![y] = Drained(idle[y], files')]
           /\ call' = Launched(call, idle[y], t, y, files')
  <2>1. /\ idle[y] \in QueueState
        /\ Drained(idle[y], files').items = idle[y].items
        /\ Drained(idle[y], files').activeTurn = idle[y].activeTurn
        /\ Drained(idle[y], files').watcher = idle[y].watcher
        /\ idle[y].blocked => Drained(idle[y], files').blocked
    BY <1>1, <1>3, DrainedFields
  <2>2. StartsHead(call, call', idle[y], t, y)
    BY <1>7, <2>1, LaunchedStartsHead
  <2>3. StartsHead(call, call', s, t, y)
    BY ZenonT(60), <1>1, <1>3, <1>5, <2>2 DEF StartsHead
  <2>4. q'[y] = Drained(idle[y], files') /\ \A p \in Objs : p # y => q'[p] = idle[p]
    BY <1>1, <1>3, <1>7
  <2> HIDE DEF y, a
  <2>5. \A p \in Objs : /\ q'[p].items = q[p].items
                        /\ q[p].blocked => q'[p].blocked
                        /\ q'[p].activeTurn = IF p = x THEN NoTurn ELSE q[p].activeTurn
                        /\ q'[p].watcher = idle[p].watcher
                        /\ p # y /\ p # x => q'[p] = q[p]
    BY <1>1, <1>3, <2>1, <2>4
  <2> QED
    BY <1>1, <1>3, <2>3, <2>5 DEF t, s, y, a
<1> QED
  BY <1>4, <1>6, <1>7

\* A drain whose message could not be sent.
LEMMA DrainFailedFields ==
  ASSUME TypeOK, DispatchInv, NEW m \in Msgs, DrainFailed(m)
  PROVE  LET o == call[m].obj
             y == slot[call[m].thread]
         IN
         /\ call[m].pc # "idle" /\ call[m].thread \in Threads /\ o \in Objs /\ y \in Objs
         /\ Has(q[o].items, m)
         /\ q'[o].items = InsertAt(Without(q[o].items, m), 1, m) /\ q'[o].blocked
         /\ \A p \in Objs : /\ \A x : Has(q'[p].items, x) <=> Has(q[p].items, x)
                            /\ q'[p].items = <<>> <=> q[p].items = <<>>
                            /\ p # o => q'[p].items = q[p].items /\ q'[p].blocked = q[p].blocked
                            /\ q'[p].activeTurn = q[p].activeTurn
                            /\ p # y => q'[p].watcher = q[p].watcher
                            /\ p # o /\ p # y => q'[p] = q[p]
         /\ q'[y].watcher = IF q[y].items = <<>> /\ q[y].activeTurn = NoTurn THEN NoThread
                            ELSE IF q[y].watcher = NoThread THEN call[m].thread ELSE q[y].watcher
<1> DEFINE o == call[m].obj
           t == call[m].thread
           y == slot[t]
           s == PutBack(q[o], m)
           back == [q EXCEPT ![o] = s]
<1>1. call[m].pc # "idle" /\ call[m].drain /\ t \in Threads /\ o \in Objs /\ y \in Objs
  BY CallTypes, SlotType DEF DrainFailed, CanFail
<1>2. q \in [Objs -> QueueState] /\ q[o] \in QueueState
  BY <1>1 DEF TypeOK
<1>3. Has(q[o].items, m)
  BY <1>1, DrainInFlight
<1>4. /\ s \in QueueState /\ s.items = InsertAt(Without(q[o].items, m), 1, m)
      /\ s.activeTurn = q[o].activeTurn /\ s.watcher = q[o].watcher /\ s.blocked
  <2>1. s \in QueueState
    BY <1>2, PutBackType
  <2> QED
    BY <1>2, <2>1 DEF PutBack, QueueState
<1>5. q[o].items \in Seq(Msgs) /\ Without(q[o].items, m) \in Seq(Msgs)
      /\ 1 \in 1..Len(Without(q[o].items, m)) + 1
  <2>1. q[o].items \in Seq(Msgs)
    BY <1>2, FieldTypes
  <2>2. Without(q[o].items, m) \in Seq(Msgs)
    BY <2>1, WithoutProperties
  <2>3. Len(Without(q[o].items, m)) \in Nat
    BY <2>2, LenProperties
  <2> QED
    BY <2>1, <2>2, <2>3
<1>6. \A x : Has(s.items, x) <=> Has(q[o].items, x)
  <2>1. \A x : Has(s.items, x) <=> Has(Without(q[o].items, m), x) \/ x = m
    BY <1>4, <1>5, InsertAtProperties
  <2> QED
    BY <1>3, <1>5, <2>1, WithoutProperties
<1>7. s.items # <<>> /\ q[o].items # <<>>
  BY <1>3, <1>6 DEF Has
<1>8. q' = [back EXCEPT ![y] = Watched(back[y], t)]
  BY DEF DrainFailed
<1> HIDE DEF s
<1>9. /\ back \in [Objs -> QueueState] /\ back[o] = s
      /\ \A p \in Objs : p # o => back[p] = q[p]
  BY <1>1, <1>2, <1>4
<1> HIDE DEF back, t
<1>10. /\ back[y] \in QueueState
       /\ Watched(back[y], t).items = back[y].items
       /\ Watched(back[y], t).activeTurn = back[y].activeTurn
       /\ Watched(back[y], t).blocked = back[y].blocked
       /\ Watched(back[y], t).watcher = IF ~Live(back[y]) THEN NoThread
                                        ELSE IF back[y].watcher = NoThread THEN t ELSE back[y].watcher
  BY <1>1, <1>9, WatchedFields
<1>11. q'[y] = Watched(back[y], t) /\ \A p \in Objs : p # y => q'[p] = back[p]
  BY <1>1, <1>8, <1>9
<1> HIDE DEF y, o
<1>12. Live(back[y]) <=> ~(q[y].items = <<>> /\ q[y].activeTurn = NoTurn)
  BY <1>1, <1>4, <1>7, <1>9 DEF Live
<1>13. \A p \in Objs : q'[p].items = back[p].items /\ q'[p].activeTurn = back[p].activeTurn
                       /\ q'[p].blocked = back[p].blocked
  BY <1>10, <1>11
<1>14. q'[y].watcher = IF q[y].items = <<>> /\ q[y].activeTurn = NoTurn THEN NoThread
                       ELSE IF q[y].watcher = NoThread THEN t ELSE q[y].watcher
  BY <1>1, <1>4, <1>9, <1>10, <1>11, <1>12
<1>15. \A p \in Objs : /\ \A x : Has(q'[p].items, x) <=> Has(q[p].items, x)
                       /\ q'[p].items = <<>> <=> q[p].items = <<>>
                       /\ p # o => q'[p].items = q[p].items /\ q'[p].blocked = q[p].blocked
                       /\ q'[p].activeTurn = q[p].activeTurn
  BY <1>4, <1>6, <1>7, <1>9, <1>13
<1>16. \A p \in Objs : /\ p # y => q'[p].watcher = q[p].watcher
                       /\ p # o /\ p # y => q'[p] = q[p]
  BY <1>4, <1>9, <1>11
<1>17. q'[o].items = InsertAt(Without(q[o].items, m), 1, m) /\ q'[o].blocked
  BY <1>1, <1>4, <1>9, <1>13
<1> QED
  BY <1>1, <1>3, <1>14, <1>15, <1>16, <1>17 DEF o, y, t

\* A direct start that failed: its thread's queue may be drained.
LEMMA DirectFailedFields ==
  ASSUME TypeOK, NEW m \in Msgs, DirectFailed(m)
  PROVE  LET t == call[m].thread
             y == slot[t]
         IN
         /\ call[m].pc # "idle" /\ ~call[m].drain
         /\ t \in Threads /\ y \in Objs /\ call[m].obj \in Objs
         /\ \A p \in Objs : /\ q'[p].items = q[p].items
                            /\ q[p].blocked => q'[p].blocked
                            /\ q'[p].activeTurn = q[p].activeTurn /\ q'[p].watcher = q[p].watcher
                            /\ p # call[m].obj /\ p # y => q'[p] = q[p]
         /\ StartsHead([call EXCEPT ![m] = NoCall], call', q[y], t, y)
<1> DEFINE t == call[m].thread
           o == call[m].obj
           y == slot[t]
           up == files \ {m}
           reset == [q EXCEPT ![o].starting = FALSE]
           done == [call EXCEPT ![m] = NoCall]
<1>1. call[m].pc # "idle" /\ ~call[m].drain /\ t \in Threads /\ o \in Objs /\ y \in Objs
  BY CallTypes, SlotType DEF DirectFailed, CanFail
<1>2. q \in [Objs -> QueueState]
  BY DEF TypeOK
<1>3. /\ reset \in [Objs -> QueueState]
      /\ \A p \in Objs : /\ reset[p].items = q[p].items /\ reset[p].blocked = q[p].blocked
                         /\ reset[p].activeTurn = q[p].activeTurn
                         /\ reset[p].watcher = q[p].watcher
                         /\ reset[p].draining = q[p].draining
                         /\ p # o => reset[p] = q[p]
  <2>1. FALSE \in BOOLEAN
    OBVIOUS
  <2>2. [q[o] EXCEPT !.starting = FALSE] \in QueueState
    BY <1>1, <1>2, <2>1, FieldTypes
  <2> QED
    BY <1>1, <1>2, <2>2 DEF QueueState
<1>4. \/ q' = reset /\ call' = done
      \/ /\ q' = [reset EXCEPT ![y] = Drained(reset[y], up)]
         /\ call' = Launched(done, reset[y], t, y, up)
  BY DEF DirectFailed
<1> HIDE DEF reset, done, t
<1>5. CASE q' = reset /\ call' = done
  <2>1. StartsHead(done, call', q[y], t, y)
    BY <1>5 DEF StartsHead
  <2> QED
    BY <1>1, <1>3, <1>5, <2>1 DEF done, t
<1>6. CASE /\ q' = [reset EXCEPT ![y] = Drained(reset[y], up)]
           /\ call' = Launched(done, reset[y], t, y, up)
  <2>1. /\ reset[y] \in QueueState
        /\ Drained(reset[y], up).items = reset[y].items
        /\ Drained(reset[y], up).activeTurn = reset[y].activeTurn
        /\ Drained(reset[y], up).watcher = reset[y].watcher
        /\ reset[y].blocked => Drained(reset[y], up).blocked
    BY <1>1, <1>3, DrainedFields
  <2>2. StartsHead(done, call', reset[y], t, y)
    BY <1>6, <2>1, LaunchedStartsHead
  <2>3. StartsHead(done, call', q[y], t, y)
    BY <1>1, <1>3, <2>2 DEF StartsHead
  <2>4. q'[y] = Drained(reset[y], up) /\ \A p \in Objs : p # y => q'[p] = reset[p]
    BY <1>1, <1>3, <1>6
  <2> HIDE DEF y, up
  <2>5. \A p \in Objs : /\ q'[p].items = q[p].items
                        /\ q[p].blocked => q'[p].blocked
                        /\ q'[p].activeTurn = q[p].activeTurn /\ q'[p].watcher = q[p].watcher
                        /\ p # o /\ p # y => q'[p] = q[p]
    BY <1>1, <1>3, <2>1, <2>4
  <2> QED
    BY <1>1, <2>3, <2>5 DEF done, t, y
<1> QED
  BY <1>4, <1>5, <1>6

\* A confirmed start: its turn is active on the state the canonical thread had and
\* on the state it has now, and a drain drops its message.
LEMMA TurnStartedFields ==
  ASSUME TypeOK, NEW m \in Msgs, TurnStarted(m)
  PROVE  LET c == call[m]
             old == slot[c.canon]
             new == slot'[c.canon]
         IN
         /\ c.thread \in Threads /\ c.canon \in Threads /\ c.obj \in Objs /\ c.turn \in 0..MaxTurn
         /\ old \in Objs /\ new \in Objs
         /\ \A p \in Objs :
              /\ q'[p].items = IF p = c.obj /\ c.drain THEN Without(q[p].items, m) ELSE q[p].items
              /\ q'[p].blocked = q[p].blocked
              /\ q'[p].activeTurn = IF p \in {old, new} THEN c.turn ELSE q[p].activeTurn
              /\ p \notin {old, new} => q'[p].watcher = q[p].watcher
              /\ p \in {old, new} /\ c.turn # NoTurn =>
                   q'[p].watcher = IF q[p].watcher = NoThread THEN c.canon ELSE q[p].watcher
              /\ p \notin {old, new, c.obj} => q'[p] = q[p]
<1> DEFINE c == call[m]
           old == slot[c.canon]
           new == slot'[c.canon]
           A == Heard(q, old, c.turn, c.canon)
           B == Heard(A, new, c.turn, c.canon)
<1>1. /\ c.thread \in Threads /\ c.canon \in Threads /\ c.obj \in Objs
      /\ c.turn \in 0..MaxTurn
  BY CallTypes DEF TurnStarted
<1>2. slot' = MovedSlot(c.thread, c.canon)
  BY DEF TurnStarted
<1>3. q' = [B EXCEPT ![c.obj] = IF c.drain THEN Dropped(B[c.obj], m)
                                 ELSE [B[c.obj] EXCEPT !.starting = FALSE]]
  BY DEF TurnStarted
<1> HIDE DEF c
<1>4. old \in Objs /\ new \in Objs
  BY <1>1, <1>2, ObjTypes DEF TypeOK, MovedSlot
<1>5. q \in [Objs -> QueueState]
  BY DEF TypeOK
<1> HIDE DEF old, new
<1>6. /\ A \in [Objs -> QueueState] /\ \A p \in Objs : p # old => A[p] = q[p]
      /\ A[old].items = q[old].items /\ A[old].activeTurn = c.turn
      /\ A[old].blocked = q[old].blocked
      /\ A[old].watcher = IF q[old].items = <<>> /\ c.turn = NoTurn THEN NoThread
                          ELSE IF q[old].watcher = NoThread THEN c.canon ELSE q[old].watcher
  BY <1>1, <1>4, <1>5, HeardFields
<1> HIDE DEF A
<1>7. /\ B \in [Objs -> QueueState] /\ \A p \in Objs : p # new => B[p] = A[p]
      /\ B[new].items = A[new].items /\ B[new].activeTurn = c.turn
      /\ B[new].blocked = A[new].blocked
      /\ B[new].watcher = IF A[new].items = <<>> /\ c.turn = NoTurn THEN NoThread
                          ELSE IF A[new].watcher = NoThread THEN c.canon ELSE A[new].watcher
  BY <1>1, <1>4, <1>6, HeardFields
<1> HIDE DEF B
<1>8. ASSUME NEW p \in Objs
      PROVE  /\ B[p].items = q[p].items /\ B[p].blocked = q[p].blocked
             /\ B[p].activeTurn = IF p \in {old, new} THEN c.turn ELSE q[p].activeTurn
             /\ p \notin {old, new} => B[p] = q[p]
             /\ p \in {old, new} /\ c.turn # NoTurn =>
                  B[p].watcher = IF q[p].watcher = NoThread THEN c.canon ELSE q[p].watcher
  <2>1. NoThread \notin Threads
    BY ConstantsAssumption DEF ConstantsAssumption
  <2>2. CASE p = new
    BY <1>4, <1>6, <1>7, <2>1, <2>2
  <2>3. CASE p # new
    BY <1>4, <1>6, <1>7, <2>3
  <2> QED
    BY <2>2, <2>3
<1>9. /\ q'[c.obj].items = IF c.drain THEN Without(B[c.obj].items, m) ELSE B[c.obj].items
      /\ q'[c.obj].blocked = B[c.obj].blocked
      /\ q'[c.obj].activeTurn = B[c.obj].activeTurn
      /\ q'[c.obj].watcher = B[c.obj].watcher
      /\ \A p \in Objs : p # c.obj => q'[p] = B[p]
  <2>1. B[c.obj] \in QueueState
    BY <1>1, <1>7
  <2>2. CASE c.drain
    <3>1. q'[c.obj] = Dropped(B[c.obj], m) /\ \A p \in Objs : p # c.obj => q'[p] = B[p]
      BY <1>1, <1>3, <1>7, <2>2
    <3> QED
      BY <2>1, <2>2, <3>1 DEF Dropped, QueueState
  <2>3. CASE ~c.drain
    <3>1. q'[c.obj] = [B[c.obj] EXCEPT !.starting = FALSE]
          /\ \A p \in Objs : p # c.obj => q'[p] = B[p]
      BY <1>1, <1>3, <1>7, <2>3
    <3> QED
      BY <2>1, <2>3, <3>1 DEF QueueState
  <2> QED
    BY <2>2, <2>3
<1>10. ASSUME NEW p \in Objs
       PROVE  /\ q'[p].items = IF p = c.obj /\ c.drain THEN Without(q[p].items, m) ELSE q[p].items
              /\ q'[p].blocked = q[p].blocked
              /\ q'[p].activeTurn = IF p \in {old, new} THEN c.turn ELSE q[p].activeTurn
              /\ p \notin {old, new} => q'[p].watcher = q[p].watcher
              /\ p \in {old, new} /\ c.turn # NoTurn =>
                   q'[p].watcher = IF q[p].watcher = NoThread THEN c.canon ELSE q[p].watcher
              /\ p \notin {old, new, c.obj} => q'[p] = q[p]
  <2>1. CASE p = c.obj
    BY <1>1, <1>8, <1>9, <2>1
  <2>2. CASE p # c.obj
    BY <1>1, <1>8, <1>9, <2>2
  <2> QED
    BY <2>1, <2>2
<1> QED
  BY <1>1, <1>4, <1>10 DEF c, old, new

-----------------------------------------------------------------------------
(* Where the queues and their messages are                                 *)

\* A call whose turn runs under another thread id than it was sent to.
Migrates(m) == call[m].pc = "accepted" /\ call[m].thread # call[m].canon
Home(t) == [thread |-> t, gen |-> 0]

\* The state objects #turnQueues holds: every thread has one of its own, and a
\* thread no client can name has its first one; a draft leaves its first one to
\* one canonical thread only.
SlotsApart ==
  /\ \A t, u \in Threads : slot[t] = slot[u] => t = u
  /\ \A t \in Threads : slot[t].gen = 1 => t \in known \ drafts
  /\ \A t \in Threads : slot[t].gen = 1 \/ t \in Drafts => slot[t].thread = t
  /\ \A t \in Threads : t \notin known => slot[t] = Home(t)
  /\ drafts \subseteq known

\* The accepted first turns of drafts: one for each draft, each under an id that
\* no client has seen yet and no other first turn runs under.
FirstTurnsApart ==
  /\ \A m \in Msgs : call[m].pc # "idle" => call[m].thread \in known
  /\ \A m \in Msgs : Migrates(m) =>
       /\ call[m].thread \in Drafts \ drafts /\ slot[call[m].thread].gen = 0
       /\ call[m].canon \notin known \cup Drafts /\ run[call[m].canon] # Asleep
  /\ \A m, n \in Msgs : Migrates(m) /\ Migrates(n) /\ m # n =>
       call[m].thread # call[n].thread /\ call[m].canon # call[n].canon

\* A queue with messages is the one of a thread that clients can name, and a
\* queued message is in a queue.
QueuesKept ==
  /\ \A o \in Objs : q[o].items # <<>> => \E t \in known : slot[t] = o
  /\ \A m \in Msgs : stage[m] = "queued" => \E o \in Objs : Has(q[o].items, m)

PlacesInv == SlotsApart /\ FirstTurnsApart /\ QueuesKept

LEMMA OwnItems ==
  ASSUME TypeOK, PlacesInv, NEW t \in Threads, q[slot[t]].items # <<>>
  PROVE  t \in known
BY DEF TypeOK, PlacesInv, SlotsApart, QueuesKept

\* Most steps move no queue and accept no turn.
LEMMA PlacesStay ==
  ASSUME TypeOK, PlacesInv, UNCHANGED <<slot, known, drafts>>,
         \A t \in Threads : run[t] # Asleep => run'[t] # Asleep,
         \A x \in Msgs : call'[x].pc # "idle" => call'[x].thread \in known,
         \A x \in Msgs : call'[x].pc = "accepted" => call'[x] = call[x],
         \A o \in Objs : q'[o].items # <<>> => \E t \in known : slot[t] = o,
         \A x \in Msgs : stage'[x] = "queued" => \E o \in Objs : Has(q'[o].items, x)
  PROVE  PlacesInv'
<1>1. SlotsApart'
  BY DEF PlacesInv, SlotsApart, Home
<1>2. \A x \in Msgs : Migrates(x)' => Migrates(x) /\ call'[x] = call[x]
  BY DEF Migrates
<1>3. \A x \in Msgs : Migrates(x) => call[x].canon \in Threads
  BY CallTypes DEF Migrates
<1>4. FirstTurnsApart'
  BY <1>2, <1>3 DEF PlacesInv, FirstTurnsApart
<1>5. QueuesKept'
  BY DEF QueuesKept
<1> QED
  BY <1>1, <1>4, <1>5 DEF PlacesInv

\* A drain calls for its own thread, for the first message of its queue.
LEMMA StartsHeadCalls ==
  ASSUME NEW C \in [Msgs -> CallState], NEW t \in Threads, NEW s, NEW o, NEW D,
         StartsHead(C, D, s, t, o)
  PROVE  \A x \in Msgs : D[x] = C[x] \/ ( /\ s.items # <<>> /\ x = Head(s.items)
                                          /\ s.activeTurn = NoTurn /\ ~s.blocked /\ ~s.draining
                                          /\ D[x].pc = "usage" /\ D[x].thread = t
                                          /\ D[x].drain /\ D[x].obj = o )
BY NewCallType DEF StartsHead, NewCall

\* A step that leaves every queue its items, ends some calls and may drain one.
LEMMA PlacesDrained ==
  ASSUME TypeOK, PlacesInv, UNCHANGED <<slot, known, drafts, run>>,
         \A o \in Objs : q'[o].items = q[o].items,
         NEW C \in [Msgs -> CallState], \A x \in Msgs : C[x] = call[x] \/ C[x].pc = "idle",
         NEW t \in Threads, NEW s, s.items = q[slot[t]].items, StartsHead(C, call', s, t, slot[t]),
         \A x \in Msgs : stage'[x] = "queued" => stage[x] = "queued"
  PROVE  PlacesInv'
<1>0. \A x \in Msgs : call'[x] = C[x]
                       \/ (call'[x].pc = "usage" /\ call'[x].thread = t /\ s.items # <<>>)
  BY StartsHeadCalls
<1>1. \A x \in Msgs : call'[x].pc # "idle" => call'[x].thread \in known
  <2> SUFFICES ASSUME NEW x \in Msgs, call'[x].pc # "idle"
               PROVE  call'[x].thread \in known
    OBVIOUS
  <2>1. CASE call'[x] = C[x]
    <3>1. call'[x] = call[x]
      BY <2>1
    <3> QED
      BY <3>1 DEF PlacesInv, FirstTurnsApart
  <2>2. CASE call'[x].thread = t /\ s.items # <<>>
    BY <2>2, OwnItems
  <2> QED
    BY <1>0, <2>1, <2>2
<1>2. \A x \in Msgs : call'[x].pc = "accepted" => call'[x] = call[x]
  BY <1>0
<1>3. \A o \in Objs : q'[o].items # <<>> => \E u \in known : slot[u] = o
  BY DEF PlacesInv, QueuesKept
<1>4. \A x \in Msgs : stage'[x] = "queued" => \E o \in Objs : Has(q'[o].items, x)
  BY DEF PlacesInv, QueuesKept
<1> QED
  BY <1>1, <1>2, <1>3, <1>4, PlacesStay

\* A handler that publishes the queue of t with other items: t is known, and the
\* messages that are still queued are where they were or in the new items.
LEMMA PlacesPublished ==
  ASSUME TypeOK, PlacesInv, UNCHANGED <<slot, known, drafts, run>>,
         NEW t \in Threads, NEW s \in QueueState, NEW up, Publish(t, s, up),
         s.items # <<>> => t \in known,
         \A x \in Msgs : stage'[x] = "queued" =>
           \/ Has(s.items, x)
           \/ \E o \in Objs : o # slot[t] /\ Has(q[o].items, x)
  PROVE  PlacesInv'
<1>1. /\ q'[slot[t]].items = s.items
      /\ \A o \in Objs : o # slot[t] => q'[o] = q[o]
      /\ StartsHead(call, call', s, t, slot[t])
  BY PublishFields
<1>2. call \in [Msgs -> CallState] /\ slot[t] \in Objs
  BY DEF TypeOK
<1>3. \A x \in Msgs : call'[x] = call[x]
                       \/ (call'[x].pc = "usage" /\ call'[x].thread = t /\ s.items # <<>>)
  BY <1>1, <1>2, StartsHeadCalls
<1>4. \A x \in Msgs : call'[x].pc # "idle" => call'[x].thread \in known
  BY <1>3 DEF PlacesInv, FirstTurnsApart
<1>5. \A x \in Msgs : call'[x].pc = "accepted" => call'[x] = call[x]
  BY <1>3
<1>6. \A o \in Objs : q'[o].items # <<>> => \E u \in known : slot[u] = o
  BY <1>1 DEF PlacesInv, QueuesKept
<1>7. \A x \in Msgs : stage'[x] = "queued" => \E o \in Objs : Has(q'[o].items, x)
  BY <1>1, <1>2
<1> QED
  BY <1>4, <1>5, <1>6, <1>7, PlacesStay

\* A step that touches neither the places of messages nor calls that run.
LEMMA PlacesUntouched ==
  ASSUME TypeOK, PlacesInv, UNCHANGED <<slot, known, drafts>>,
         \A t \in Threads : run[t] # Asleep => run'[t] # Asleep,
         \A o \in Objs : q'[o].items = q[o].items,
         \A x \in Msgs : call'[x] = call[x] \/ call'[x].pc = "idle"
                         \/ /\ call[x].pc # "idle" /\ call'[x].thread = call[x].thread
                            /\ call'[x].pc # "accepted",
         \A x \in Msgs : stage'[x] = "queued" => stage[x] = "queued"
  PROVE  PlacesInv'
<1>1. \A x \in Msgs : call'[x].pc # "idle" => call'[x].thread \in known
  BY DEF PlacesInv, FirstTurnsApart
<1>2. \A x \in Msgs : call'[x].pc = "accepted" => call'[x] = call[x]
  OBVIOUS
<1>3. \A o \in Objs : q'[o].items # <<>> => \E t \in known : slot[t] = o
  BY DEF PlacesInv, QueuesKept
<1>4. \A x \in Msgs : stage'[x] = "queued" => \E o \in Objs : Has(q'[o].items, x)
  BY DEF PlacesInv, QueuesKept
<1> QED
  BY <1>1, <1>2, <1>3, <1>4, PlacesStay

LEMMA AppendHas ==
  ASSUME NEW S, NEW s \in Seq(S), NEW m \in S
  PROVE  \A x : Has(Append(s, m), x) <=> Has(s, x) \/ x = m
<1>1. Len(s) \in Nat /\ DOMAIN s = 1..Len(s)
  BY LenProperties
<1>2. /\ Append(s, m) \in Seq(S) /\ Len(Append(s, m)) = Len(s) + 1
      /\ \A i \in 1..Len(s) : Append(s, m)[i] = s[i]
      /\ Append(s, m)[Len(s) + 1] = m
  BY AppendProperties
<1>3. DOMAIN Append(s, m) = 1..Len(s) + 1
  BY <1>2, LenProperties
<1>4. \A i \in 1..Len(s) + 1 : i \in 1..Len(s) \/ i = Len(s) + 1
  BY <1>1
<1>5. Len(s) + 1 \in 1..Len(s) + 1 /\ \A i \in 1..Len(s) : i \in 1..Len(s) + 1
  BY <1>1
<1> QED
  BY <1>1, <1>2, <1>3, <1>4, <1>5 DEF Has

\* What the two edits that change the items make of them.
LEMMA EditedItems ==
  ASSUME TypeOK, NEW t \in Threads, NEW m \in Msgs, Has(q[slot[t]].items, m),
         NEW i \in DOMAIN q[slot[t]].items
  PROVE  LET s == q[slot[t]].items
             w == Without(s, m)
         IN
         /\ s \in Seq(Msgs) /\ w \in Seq(Msgs) /\ InsertAt(w, i, m) \in Seq(Msgs)
         /\ \A x : Has(w, x) => Has(s, x)
         /\ \A x : Has(s, x) /\ x # m => Has(w, x)
         /\ \A x : Has(InsertAt(w, i, m), x) <=> Has(s, x)
<1> DEFINE s == q[slot[t]].items
           w == Without(s, m)
<1>1. s \in Seq(Msgs)
  BY SlotType, FieldTypes
<1>2. /\ w \in Seq(Msgs) /\ Len(w) = Len(s) - 1
      /\ \A x : Has(w, x) => Has(s, x)
      /\ \A x : Has(s, x) /\ x # m => Has(w, x)
  BY <1>1, WithoutProperties
<1>3. DOMAIN s = 1..Len(s) /\ Len(s) \in Nat
  BY <1>1, LenProperties
<1> HIDE DEF w
<1>4. i \in 1..Len(w) + 1
  BY <1>2, <1>3
<1>5. /\ InsertAt(w, i, m) \in Seq(Msgs)
      /\ \A x : Has(InsertAt(w, i, m), x) <=> Has(w, x) \/ x = m
  BY <1>2, <1>4, InsertAtDef, InsertAtProperties
<1> QED
  BY <1>1, <1>2, <1>5 DEF w

LEMMA PlacesClientStep ==
  ASSUME TypeOK, DispatchInv, PlacesInv, ClientStep
  PROVE  PlacesInv'
<1>1. /\ q \in [Objs -> QueueState] /\ call \in [Msgs -> CallState]
      /\ stage \in [Msgs -> Stages]
  BY DEF TypeOK
<1>2. ASSUME NEW t \in Threads, NEW m \in Msgs, StartTurn(t, m)
      PROVE  PlacesInv'
  <2>1. /\ t \in known /\ call' = [call EXCEPT ![m] = NewCall(t, slot[t], FALSE)]
        /\ q' = [q EXCEPT ![slot[t]].starting = TRUE]
        /\ stage' = [stage EXCEPT ![m] = "direct"]
        /\ UNCHANGED <<slot, known, drafts, run>>
    BY <1>2 DEF StartTurn, codexVars
  <2>2. \A o \in Objs : q'[o].items = q[o].items
    BY <1>1, <2>1 DEF QueueState
  <2>3. \A x \in Msgs : /\ call'[x].pc # "idle" => call'[x].thread \in known
                        /\ call'[x].pc = "accepted" => call'[x] = call[x]
    BY <1>1, <2>1 DEF NewCall, PlacesInv, FirstTurnsApart
  <2>4. \A x \in Msgs : stage'[x] = "queued" => \E o \in Objs : Has(q'[o].items, x)
    BY <1>1, <2>1, <2>2 DEF PlacesInv, QueuesKept
  <2>5. \A o \in Objs : q'[o].items # <<>> => \E u \in known : slot[u] = o
    BY <2>2 DEF PlacesInv, QueuesKept
  <2> QED
    BY <2>1, <2>3, <2>4, <2>5, PlacesStay
<1>3. ASSUME NEW t \in Threads, NEW m \in Msgs, QueueTurn(t, m)
      PROVE  PlacesInv'
  <2> DEFINE s == [q[slot[t]] EXCEPT !.items = Append(@, m)]
  <2>1. s \in QueueState /\ s.items = Append(q[slot[t]].items, m)
        /\ q[slot[t]].items \in Seq(Msgs)
    <3>1. q[slot[t]].items \in Seq(Msgs) /\ q[slot[t]] \in QueueState
      BY SlotType, FieldTypes
    <3>2. Append(q[slot[t]].items, m) \in Seq(Msgs)
      BY <3>1, AppendProperties
    <3> QED
      BY <3>1, <3>2, FieldTypes DEF QueueState
  <2>2. /\ t \in known /\ Publish(t, s, files) /\ stage' = [stage EXCEPT ![m] = "queued"]
        /\ UNCHANGED <<slot, known, drafts, run>>
    BY <1>3 DEF QueueTurn, codexVars
  <2> HIDE DEF s
  <2>3. \A x \in Msgs : stage'[x] = "queued" =>
          Has(s.items, x) \/ \E o \in Objs : o # slot[t] /\ Has(q[o].items, x)
    BY <1>1, <2>1, <2>2, AppendHas DEF PlacesInv, QueuesKept
  <2> QED
    BY <2>1, <2>2, <2>3, PlacesPublished
<1>4. ASSUME NEW t \in Threads, NEW m \in Msgs, NEW items \in Seq(Msgs), NEW up,
             Edit(t, m, items, up), \A x \in Msgs : stage'[x] = "queued" => stage[x] = "queued",
             \A x \in Msgs : stage'[x] = "queued" /\ Has(q[slot[t]].items, x) => Has(items, x)
      PROVE  PlacesInv'
  <2> DEFINE s == [q[slot[t]] EXCEPT !.items = items, !.blocked = FALSE]
  <2>1. s \in QueueState /\ s.items = items
    <3>1. slot[t] \in Objs /\ q[slot[t]] \in QueueState
      BY SlotType
    <3>2. s \in QueueState
      BY <3>1, FieldTypes
    <3> QED
      BY <3>1, <3>2 DEF QueueState
  <2>2. /\ t \in known /\ Publish(t, s, up) /\ UNCHANGED <<slot, known, drafts, run>>
    BY <1>4 DEF Edit, codexVars
  <2> HIDE DEF s
  <2>3. \A x \in Msgs : stage'[x] = "queued" =>
          Has(s.items, x) \/ \E o \in Objs : o # slot[t] /\ Has(q[o].items, x)
    BY <1>4, <2>1 DEF PlacesInv, QueuesKept
  <2> QED
    BY <2>1, <2>2, <2>3, PlacesPublished
<1>5. ASSUME NEW t \in Threads, NEW m \in Msgs, RemoveQueuedTurn(t, m)
      PROVE  PlacesInv'
  <2>1. /\ Edit(t, m, Without(q[slot[t]].items, m), files \ {m})
        /\ stage' = [stage EXCEPT ![m] = "removed"] /\ Has(q[slot[t]].items, m)
    BY <1>5 DEF RemoveQueuedTurn, Edit
  <2>2. /\ Without(q[slot[t]].items, m) \in Seq(Msgs)
        /\ \A x : Has(q[slot[t]].items, x) /\ x # m => Has(Without(q[slot[t]].items, m), x)
    <3>1. q[slot[t]].items \in Seq(Msgs)
      BY SlotType, FieldTypes
    <3> QED
      BY <3>1, WithoutProperties
  <2>3. \A x \in Msgs : stage'[x] = "queued" => stage[x] = "queued" /\ x # m
    BY <1>1, <2>1
  <2> QED
    BY <1>4, <2>1, <2>2, <2>3
<1>6. ASSUME NEW t \in Threads, NEW m \in Msgs, UpdateQueuedTurn(t, m)
      PROVE  PlacesInv'
  <2>1. q[slot[t]].items \in Seq(Msgs)
    BY SlotType, FieldTypes
  <2> QED
    BY <1>4, <1>6, <2>1 DEF UpdateQueuedTurn
<1>7. ASSUME NEW t \in Threads, NEW m \in Msgs, ReorderQueuedTurn(t, m)
      PROVE  PlacesInv'
  <2>1. PICK i \in DOMAIN q[slot[t]].items :
          Edit(t, m, InsertAt(Without(q[slot[t]].items, m), i, m), files) /\ UNCHANGED stage
    BY <1>7 DEF ReorderQueuedTurn
  <2>2. Has(q[slot[t]].items, m)
    BY <2>1 DEF Edit
  <2>3. /\ InsertAt(Without(q[slot[t]].items, m), i, m) \in Seq(Msgs)
        /\ \A x : Has(InsertAt(Without(q[slot[t]].items, m), i, m), x) <=> Has(q[slot[t]].items, x)
    BY <2>2, EditedItems
  <2> QED
    BY <1>4, <2>1, <2>3
<1>8. ASSUME NEW t \in Threads, CreateThread(t)
      PROVE  PlacesInv'
  <2>1. /\ t \in Drafts \ known /\ known' = known \cup {t} /\ drafts' = drafts \cup {t}
        /\ UNCHANGED <<q, slot, call, run, stage>>
    BY <1>8 DEF CreateThread, historyVars
  <2>2. slot[t].gen = 0
    <3>1. slot[t] = [thread |-> t, gen |-> 0]
      BY <2>1 DEF PlacesInv, SlotsApart, Home
    <3> QED
      BY <3>1
  <2>3. SlotsApart'
    BY <2>1, <2>2 DEF PlacesInv, SlotsApart, Home
  <2>4. \A x \in Msgs : Migrates(x) => call[x].thread # t /\ call[x].canon # t
    BY <2>1 DEF PlacesInv, FirstTurnsApart, Migrates
  <2>5. FirstTurnsApart'
    BY <2>1, <2>4 DEF PlacesInv, FirstTurnsApart, Migrates
  <2>6. QueuesKept'
    BY <2>1 DEF PlacesInv, QueuesKept
  <2> QED
    BY <2>3, <2>5, <2>6 DEF PlacesInv
<1>9. ASSUME NEW m \in Msgs, QueueRefused(m) \/ RemoveAttachment(m) \/ PurgeExpiredUpload(m)
      PROVE  PlacesInv'
  <2>1. /\ UNCHANGED <<q, slot, call, run, known, drafts>>
        /\ \A x \in Msgs : stage'[x] = "queued" => stage[x] = "queued"
    BY <1>1, <1>9 DEF QueueRefused, RemoveAttachment, PurgeExpiredUpload, codexVars, historyVars
  <2> QED
    BY <2>1, PlacesUntouched
<1>10. ASSUME NEW t \in Threads, OpenThread(t)
       PROVE  PlacesInv'
  <2>1. UNCHANGED <<q, slot, call, run, known, drafts, stage>>
    BY <1>10 DEF OpenThread, codexVars
  <2> QED
    BY <2>1, PlacesUntouched
<1>11. ASSUME NEW t \in Threads, NEW n \in Turns, SteerTurn(t, n)
       PROVE  PlacesInv'
  <2>1. /\ q' = Heard(q, slot[t], n, t) /\ UNCHANGED <<slot, call, run, known, drafts, stage>>
    BY <1>11 DEF SteerTurn, codexVars
  <2>2. n \in 0..MaxTurn /\ slot[t] \in Objs
    BY <1>11, SlotType, ConstantsAssumption DEF Turns, ConstantsAssumption
  <2> DEFINE R == Heard(q, slot[t], n, t)
  <2>3. \A o \in Objs : R[o].items = q[o].items
    <3>1. R[slot[t]].items = q[slot[t]].items /\ \A p \in Objs : p # slot[t] => R[p] = q[p]
      BY <1>1, <2>2, HeardFields
    <3> QED
      BY <3>1
  <2> QED
    BY <2>1, <2>3, PlacesUntouched
<1> QED
  BY <1>2, <1>3, <1>5, <1>6, <1>7, <1>8, <1>9, <1>10, <1>11 DEF ClientStep

LEMMA PlacesInit == Init => PlacesInv
<1> SUFFICES ASSUME Init
             PROVE  PlacesInv
  OBVIOUS
<1>1. \A t \in Threads : slot[t] = Home(t) /\ slot[t].gen = 0 /\ slot[t].thread = t
  BY DEF Init, Home
<1>2. SlotsApart
  <2>1. \A t, u \in Threads : slot[t] = slot[u] => t = u
    <3> SUFFICES ASSUME NEW t \in Threads, NEW u \in Threads, slot[t] = slot[u]
                 PROVE  t = u
      OBVIOUS
    <3>1. slot[t].thread = t /\ slot[u].thread = u
      BY <1>1
    <3> QED
      BY <3>1
  <2> QED
    BY <1>1, <2>1 DEF Init, SlotsApart
<1>3. \A m \in Msgs : call[m].pc = "idle"
  BY DEF Init, NoCall
<1>4. \A o \in Objs : q[o].items = <<>>
  BY DEF Init, EmptyQueue
<1>5. \A m \in Msgs : stage[m] # "queued"
  BY DEF Init
<1> QED
  BY <1>2, <1>3, <1>4, <1>5 DEF PlacesInv, FirstTurnsApart, QueuesKept, Migrates

\* The step that moves a draft's queue to its canonical thread.
LEMMA PlacesTurnStarted ==
  ASSUME TypeOK, DispatchInv, PlacesInv, NEW m \in Msgs, TurnStarted(m)
  PROVE  PlacesInv'
<1> DEFINE c == call[m]
           t == c.thread
           n == c.canon
<1>1. /\ t \in Threads /\ n \in Threads /\ c.obj \in Objs /\ t \in known
      /\ c.pc = "accepted" /\ slot \in [Threads -> Objs]
      /\ call \in [Msgs -> CallState] /\ stage \in [Msgs -> Stages]
  BY CallTypes DEF TurnStarted, TypeOK, PlacesInv, FirstTurnsApart
<1>2. /\ slot' = MovedSlot(t, n) /\ known' = known \cup {n} /\ UNCHANGED <<drafts, run>>
      /\ call' = [call EXCEPT ![m] = NoCall] /\ stage' = [stage EXCEPT ![m] = "sent"]
  BY DEF TurnStarted
<1>3. \A p \in Objs : q'[p].items = IF p = c.obj /\ c.drain THEN Without(q[p].items, m)
                                    ELSE q[p].items
  BY TurnStartedFields
<1>4. t # n => /\ t \in Drafts \ drafts /\ slot[t].gen = 0
               /\ n \notin known \cup Drafts
  BY <1>1 DEF PlacesInv, FirstTurnsApart, Migrates
<1> HIDE DEF c
<1>5. call'[m].pc = "idle" /\ \A x \in Msgs : x # m => call'[x] = call[x]
  BY <1>1, <1>2 DEF NoCall
<1>6. \A x \in Msgs : Migrates(x)' => x # m /\ Migrates(x) /\ call'[x] = call[x]
  BY <1>5 DEF Migrates
<1>7. \A x \in Msgs : Migrates(x) => call[x].canon \in Threads /\ call[x].thread \in Threads
  BY CallTypes DEF Migrates
<1>8. \A p \in Objs, x \in Msgs : /\ Has(q'[p].items, x) => Has(q[p].items, x)
                                  /\ Has(q[p].items, x) /\ x # m => Has(q'[p].items, x)
  <2>1. \A p \in Objs : q[p].items \in Seq(Msgs)
    BY FieldTypes DEF TypeOK
  <2> QED
    BY <1>3, <2>1, WithoutProperties
<1>9. \A p \in Objs : q'[p].items # <<>> => q[p].items # <<>>
  <2>1. \A p \in Objs : q[p].items \in Seq(Msgs)
    BY FieldTypes DEF TypeOK
  <2>2. \A p \in Objs : q[p].items = <<>> => Without(q[p].items, m) = <<>>
    BY DEF Without, Has
  <2> QED
    BY <1>3, <2>2
<1>10. \A x \in Msgs : stage'[x] = "queued" => \E o \in Objs : Has(q'[o].items, x)
  BY <1>1, <1>2, <1>8 DEF PlacesInv, QueuesKept
<1>11. CASE t = n
  <2>1. slot' = slot /\ known' = known
    BY <1>1, <1>2, <1>11 DEF MovedSlot
  <2>2. SlotsApart'
    BY <1>2, <2>1 DEF PlacesInv, SlotsApart, Home
  <2>3. FirstTurnsApart'
    BY <1>2, <1>5, <1>6, <2>1 DEF PlacesInv, FirstTurnsApart
  <2>4. QueuesKept'
    BY <1>9, <1>10, <2>1 DEF PlacesInv, QueuesKept
  <2> QED
    BY <2>2, <2>3, <2>4 DEF PlacesInv
<1>12. CASE t # n
  <2> DEFINE g == [thread |-> t, gen |-> 1]
  <2>1. /\ slot'[n] = slot[t] /\ slot'[t] = g
        /\ \A u \in Threads : u # t /\ u # n => slot'[u] = slot[u]
    BY <1>1, <1>2, <1>12 DEF MovedSlot
  <2>2. g.gen = 1 /\ g.thread = t
    OBVIOUS
  <2> HIDE DEF g
  <2>3. slot[t].gen = 0 /\ slot[t].thread = t /\ slot[n] = Home(n)
    BY <1>1, <1>4, <1>12 DEF PlacesInv, SlotsApart
  <2>4. \A u \in Threads : slot[u].gen = 1 => slot[u].thread = u
    BY DEF PlacesInv, SlotsApart
  <2>5. \A u, v \in Threads : slot'[u] = slot'[v] => u = v
    <3> SUFFICES ASSUME NEW u \in Threads, NEW v \in Threads, u # v, slot'[u] = slot'[v]
                 PROVE  FALSE
      OBVIOUS
    <3>1. \A w \in Threads : w # t /\ w # n => slot[w] # slot[t] /\ slot[w] # g
      <4>1. \A w \in Threads : w # t => slot[w] # slot[t]
        BY <1>1 DEF PlacesInv, SlotsApart
      <4>2. \A w \in Threads : slot[w] = g => w = t
        BY <2>2, <2>4
      <4> QED
        BY <4>1, <4>2
    <3>2. slot[t] # g
      BY <2>2, <2>3
    <3>3. \A w, z \in Threads : w # z => slot[w] # slot[z]
      BY DEF PlacesInv, SlotsApart
    <3> QED
      BY <1>1, <1>12, <2>1, <3>1, <3>2, <3>3
  <2>6. SlotsApart'
    <3>1. \A u \in Threads : slot'[u].gen = 1 => u \in known' \ drafts'
      BY <1>1, <1>2, <1>4, <1>12, <2>1, <2>3 DEF PlacesInv, SlotsApart
    <3>2. \A u \in Threads : slot'[u].gen = 1 \/ u \in Drafts => slot'[u].thread = u
      BY <1>1, <1>4, <1>12, <2>1, <2>2, <2>3 DEF PlacesInv, SlotsApart
    <3>3. \A u \in Threads : u \notin known' => slot'[u] = Home(u)
      BY <1>1, <1>2, <1>4, <2>1 DEF PlacesInv, SlotsApart
    <3>4. drafts' \subseteq known'
      BY <1>2 DEF PlacesInv, SlotsApart
    <3> QED
      BY <2>5, <3>1, <3>2, <3>3, <3>4 DEF SlotsApart, Home
  <2>7. ASSUME NEW x \in Msgs, Migrates(x), x # m
        PROVE  call[x].thread # t /\ call[x].canon # n /\ call[x].thread # n /\ call[x].canon # t
    <3>1. Migrates(m)
      BY <1>1, <1>12 DEF Migrates, c
    <3>2. call[x].thread # call[m].thread /\ call[x].canon # call[m].canon
      BY <2>7, <3>1 DEF PlacesInv, FirstTurnsApart
    <3>3. call[x].thread \in known /\ call[x].canon \notin known
      BY <2>7 DEF PlacesInv, FirstTurnsApart, Migrates
    <3> QED
      BY <1>1, <1>4, <1>12, <3>2, <3>3 DEF c
  <2>8. FirstTurnsApart'
    <3>1. \A x \in Msgs : call'[x].pc # "idle" => call'[x].thread \in known'
      BY <1>2, <1>5 DEF PlacesInv, FirstTurnsApart
    <3>2. \A x \in Msgs : Migrates(x)' =>
            /\ call'[x].thread \in Drafts' \ drafts' /\ slot'[call'[x].thread].gen = 0
            /\ call'[x].canon \notin known' \cup Drafts /\ run'[call'[x].canon] # Asleep
      <4> SUFFICES ASSUME NEW x \in Msgs, Migrates(x)'
                   PROVE  /\ call'[x].thread \in Drafts \ drafts'
                          /\ slot'[call'[x].thread].gen = 0
                          /\ call'[x].canon \notin known' \cup Drafts
                          /\ run'[call'[x].canon] # Asleep
        OBVIOUS
      <4>1. x # m /\ Migrates(x) /\ call'[x] = call[x]
        BY <1>6
      <4>2. /\ call[x].thread \in Drafts \ drafts /\ slot[call[x].thread].gen = 0
            /\ call[x].canon \notin known \cup Drafts /\ run[call[x].canon] # Asleep
        BY <4>1 DEF PlacesInv, FirstTurnsApart
      <4>3. call[x].thread # t /\ call[x].canon # n /\ call[x].thread # n
        BY <2>7, <4>1
      <4>4. slot'[call[x].thread] = slot[call[x].thread]
        BY <1>7, <2>1, <4>1, <4>3
      <4> QED
        BY <1>2, <4>1, <4>2, <4>3, <4>4
    <3>3. \A x, y \in Msgs : Migrates(x)' /\ Migrates(y)' /\ x # y =>
            call'[x].thread # call'[y].thread /\ call'[x].canon # call'[y].canon
      BY <1>6 DEF PlacesInv, FirstTurnsApart
    <3> QED
      BY <3>1, <3>2, <3>3 DEF FirstTurnsApart
  <2>9. \A o \in Objs : q'[o].items # <<>> => \E u \in known' : slot'[u] = o
    <3> SUFFICES ASSUME NEW o \in Objs, q'[o].items # <<>>
                 PROVE  \E u \in known' : slot'[u] = o
      OBVIOUS
    <3>1. PICK u \in known : slot[u] = o
      BY <1>9 DEF PlacesInv, QueuesKept
    <3>2. u \in Threads
      BY DEF TypeOK
    <3>3. u # n
      BY <1>4, <1>12
    <3>4. CASE u = t
      BY <1>2, <2>1, <3>1, <3>4
    <3>5. CASE u # t
      BY <1>2, <2>1, <3>1, <3>2, <3>3, <3>5
    <3> QED
      BY <3>4, <3>5
  <2> QED
    BY <1>10, <2>6, <2>8, <2>9 DEF PlacesInv, QueuesKept
<1> QED
  BY <1>11, <1>12

LEMMA PlacesCallStep ==
  ASSUME TypeOK, DispatchInv, PlacesInv, NEW m \in Msgs, CallStep(m)
  PROVE  PlacesInv'
<1>1. /\ q \in [Objs -> QueueState] /\ call \in [Msgs -> CallState]
      /\ stage \in [Msgs -> Stages]
  BY DEF TypeOK
<1>2. ASSUME UsageAllows(m) \/ Resumed(m)
      PROVE  PlacesInv'
  <2>1. /\ call[m].pc # "idle"
        /\ \/ call' = [call EXCEPT ![m].pc = "resume"]
           \/ call' = [call EXCEPT ![m].pc = "sent"]
        /\ UNCHANGED <<q, slot, run, known, drafts, stage>>
    BY <1>2 DEF UsageAllows, Resumed, codexVars
  <2>2. call[m] \in Calls
    BY <2>1, CallTypes
  <2>3. \A x \in Msgs : \/ call'[x] = call[x]
                        \/ /\ call[x].pc # "idle" /\ call'[x].thread = call[x].thread
                           /\ call'[x].pc # "accepted"
    BY <1>1, <2>1, <2>2 DEF Calls
  <2> QED
    BY <2>1, <2>3, PlacesUntouched
<1>3. ASSUME DrainFailed(m)
      PROVE  PlacesInv'
  <2>1. \A p \in Objs : /\ \A x : Has(q'[p].items, x) <=> Has(q[p].items, x)
                        /\ q'[p].items = <<>> <=> q[p].items = <<>>
    BY <1>3, DrainFailedFields
  <2>2. call' = [call EXCEPT ![m] = NoCall] /\ UNCHANGED <<slot, run, known, drafts, stage>>
    BY <1>3 DEF DrainFailed, codexVars, historyVars
  <2>3. \A x \in Msgs : /\ call'[x].pc # "idle" => call'[x].thread \in known
                        /\ call'[x].pc = "accepted" => call'[x] = call[x]
    BY <1>1, <2>2 DEF NoCall, PlacesInv, FirstTurnsApart
  <2>4. \A o \in Objs : q'[o].items # <<>> => \E t \in known : slot[t] = o
    BY <2>1 DEF PlacesInv, QueuesKept
  <2>5. \A x \in Msgs : stage'[x] = "queued" => \E o \in Objs : Has(q'[o].items, x)
    BY <2>1, <2>2 DEF PlacesInv, QueuesKept
  <2> QED
    BY <2>2, <2>3, <2>4, <2>5, PlacesStay
<1>4. ASSUME DirectFailed(m)
      PROVE  PlacesInv'
  <2> DEFINE t == call[m].thread
             C == [call EXCEPT ![m] = NoCall]
  <2>1. /\ t \in Threads /\ \A p \in Objs : q'[p].items = q[p].items
        /\ StartsHead(C, call', q[slot[t]], t, slot[t])
    BY <1>4, DirectFailedFields
  <2>2. stage' = [stage EXCEPT ![m] = "refused"] /\ UNCHANGED <<slot, run, known, drafts>>
    BY <1>4 DEF DirectFailed, codexVars
  <2>3. C \in [Msgs -> CallState] /\ \A x \in Msgs : C[x] = call[x] \/ C[x].pc = "idle"
    BY <1>1, ObjTypes DEF NoCall
  <2>4. \A x \in Msgs : stage'[x] = "queued" => stage[x] = "queued"
    BY <1>1, <2>2
  <2> HIDE DEF C, t
  <2> DEFINE s == q[slot[t]]
  <2>5. s.items = q[slot[t]].items /\ StartsHead(C, call', s, t, slot[t])
    BY <2>1
  <2> HIDE DEF s
  <2> QED
    BY <2>1, <2>2, <2>3, <2>4, <2>5, PlacesDrained
<1> QED
  BY <1>2, <1>3, <1>4, PlacesTurnStarted DEF CallStep

LEMMA PlacesPollStep ==
  ASSUME TypeOK, DispatchInv, PlacesInv, NEW o \in Objs, PollStep(o)
  PROVE  PlacesInv'
<1>1. call \in [Msgs -> CallState]
  BY DEF TypeOK
<1>2. ASSUME PollSeesTurn(o)
      PROVE  PlacesInv'
  <2>1. poll[o].thread \in Threads /\ poll[o].seen \in Run
    BY <1>2, PollTypes DEF PollSeesTurn
  <2>2. PICK a \in Answers(poll[o].seen, poll[o].thread) :
          q' = Learnt(o, a.turn, poll[o].thread)
    BY <1>2 DEF PollSeesTurn
  <2>3. \A p \in Objs : Learnt(o, a.turn, poll[o].thread)[p].items = q[p].items
    BY <2>1, AnswerTypes, LearntFields
  <2>4. UNCHANGED <<slot, run, known, drafts, call, stage>>
    BY <1>2 DEF PollSeesTurn, codexVars, historyVars
  <2> QED
    BY <2>2, <2>3, <2>4, PlacesUntouched
<1>3. ASSUME NEW x \in Objs, poll[o].pc # "idle", PollGoesOn(o, x)
      PROVE  PlacesInv'
  <2> DEFINE t == poll[o].thread
             s == [q[slot[t]] EXCEPT !.activeTurn =
                     IF x = slot[t] THEN NoTurn ELSE q[slot[t]].activeTurn]
  <2>1. /\ t \in Threads /\ \A p \in Objs : q'[p].items = q[p].items
        /\ StartsHead(call, call', s, t, slot[t])
    BY <1>3, PollGoesOnFields
  <2>2. UNCHANGED <<slot, run, known, drafts, stage>>
    BY <1>3 DEF PollGoesOn, codexVars, historyVars
  <2>3. s.items = q[slot[t]].items
    BY <2>1, SlotType DEF QueueState
  <2> HIDE DEF s, t
  <2> QED
    BY <1>1, <2>1, <2>2, <2>3, PlacesDrained
<1>4. ASSUME PollSeesIdle(o)
      PROVE  PlacesInv'
  BY <1>3, <1>4 DEF PollSeesIdle
<1>5. ASSUME StatusIdle(o)
      PROVE  PlacesInv'
  <2>1. poll[o].pc # "idle" /\ slot[poll[o].thread] \in Objs
    BY <1>5, PollTypes, SlotType DEF StatusIdle
  <2> QED
    BY <1>3, <1>5, <2>1 DEF StatusIdle
<1>6. ASSUME PollFallsBack(o) \/ StatusSettlesNothing(o)
      PROVE  PlacesInv'
  <2>1. UNCHANGED <<q, slot, run, known, drafts, call, stage>>
    BY <1>6 DEF PollFallsBack, StatusSettlesNothing, codexVars, historyVars
  <2> QED
    BY <2>1, PlacesUntouched
<1> QED
  BY <1>2, <1>4, <1>5, <1>6 DEF PollStep

LEMMA PlacesThreadStep ==
  ASSUME TypeOK, DispatchInv, PlacesInv, NEW t \in Threads, ThreadStep(t)
  PROVE  PlacesInv'
<1>1. q \in [Objs -> QueueState] /\ slot[t] \in Objs /\ q[slot[t]] \in QueueState
  BY SlotType DEF TypeOK
<1>2. ASSUME NoteStarted(t)
      PROVE  PlacesInv'
  <2> DEFINE R == Heard(q, slot[t], Head(notes[t]).turn, t)
  <2>1. \A o \in Objs : R[o].items = q[o].items
    <3>1. R[slot[t]].items = q[slot[t]].items /\ \A p \in Objs : p # slot[t] => R[p] = q[p]
      BY <1>1, <1>2, NoteTypes, HeardFields DEF NoteStarted
    <3> QED
      BY <3>1
  <2>2. q' = R /\ UNCHANGED <<slot, call, run, known, drafts, stage>>
    BY <1>2 DEF NoteStarted, historyVars
  <2> HIDE DEF R
  <2> QED
    BY <2>1, <2>2, PlacesUntouched
<1>3. ASSUME NEW n \in 0..MaxTurn, NEW up, UNCHANGED <<slot, run, known, drafts, stage>>,
             Publish(t, [q[slot[t]] EXCEPT !.activeTurn = n], up)
      PROVE  PlacesInv'
  <2> DEFINE s == [q[slot[t]] EXCEPT !.activeTurn = n]
  <2>1. s \in QueueState /\ s.items = q[slot[t]].items /\ Publish(t, s, up)
    BY <1>1, <1>3, FieldTypes DEF QueueState
  <2> HIDE DEF s
  <2>2. s.items # <<>> => t \in known
    BY <2>1, OwnItems
  <2>3. \A x \in Msgs : stage'[x] = "queued" =>
          Has(s.items, x) \/ \E o \in Objs : o # slot[t] /\ Has(q[o].items, x)
    BY <1>3, <2>1 DEF PlacesInv, QueuesKept
  <2> QED
    BY <1>3, <2>1, <2>2, <2>3, PlacesPublished
<1>4. ASSUME NoteCompleted(t)
      PROVE  PlacesInv'
  <2> DEFINE n == IF q[slot[t]].activeTurn = Head(notes[t]).turn THEN NoTurn
                  ELSE q[slot[t]].activeTurn
  <2>1. n \in 0..MaxTurn
    <3>1. q[slot[t]].activeTurn \in 0..MaxTurn
      BY <1>1, FieldTypes
    <3>2. NoTurn \in 0..MaxTurn
      BY ConstantsAssumption DEF NoTurn, ConstantsAssumption
    <3> QED
      BY <3>1, <3>2
  <2>2. Publish(t, [q[slot[t]] EXCEPT !.activeTurn = n], files')
        /\ UNCHANGED <<slot, run, known, drafts, stage>>
    BY <1>4 DEF NoteCompleted, historyVars
  <2> HIDE DEF n
  <2> QED
    BY <1>3, <2>1, <2>2
<1>5. ASSUME SynchronizeActiveTurn(t)
      PROVE  PlacesInv'
  <2>1. read[t].seen \in Run
    BY DEF TypeOK, ReadState
  <2>2. PICK a \in Answers(read[t].seen, t) :
          Publish(t, [q[slot[t]] EXCEPT !.activeTurn = IF a.active THEN a.turn ELSE NoTurn],
                  files')
    BY <1>5 DEF SynchronizeActiveTurn
  <2>3. (IF a.active THEN a.turn ELSE NoTurn) \in 0..MaxTurn
    BY <2>1, AnswerTypes, ConstantsAssumption DEF NoTurn, ConstantsAssumption
  <2>4. UNCHANGED <<slot, run, known, drafts, stage>>
    BY <1>5 DEF SynchronizeActiveTurn, codexVars, historyVars
  <2> QED
    BY <1>3, <2>2, <2>3, <2>4
<1>6. ASSUME PollQueue(t) \/ ReadFailed(t)
      PROVE  PlacesInv'
  <2>1. UNCHANGED <<q, slot, run, known, drafts, call, stage>>
    BY <1>6 DEF PollQueue, ReadFailed, codexVars, historyVars
  <2> QED
    BY <2>1, PlacesUntouched
<1> QED
  BY <1>2, <1>4, <1>5, <1>6 DEF ThreadStep

LEMMA PlacesSteered ==
  ASSUME TypeOK, DispatchInv, PlacesInv, SteerAccepted \/ SteerFailed
  PROVE  PlacesInv'
<1>1. CASE SteerAccepted
  <2>1. UNCHANGED <<q, slot, run, known, drafts, call, stage>>
    BY <1>1 DEF SteerAccepted, codexVars, historyVars
  <2> QED
    BY <2>1, PlacesUntouched
<1>2. CASE SteerFailed
  <2>1. steer.thread \in Threads /\ steer.obj \in Objs /\ steer.previous \in 0..MaxTurn
    BY <1>2, SteerTypes DEF SteerFailed
  <2>2. q' = Told(steer.obj, steer.previous, steer.thread)
        /\ UNCHANGED <<slot, run, known, drafts, call, stage>>
    BY <1>2 DEF SteerFailed, Told, codexVars, historyVars
  <2>3. \A p \in Objs : Told(steer.obj, steer.previous, steer.thread)[p].items = q[p].items
    BY <2>1, ToldFields
  <2> QED
    BY <2>2, <2>3, PlacesUntouched
<1> QED
  BY <1>1, <1>2

LEMMA PlacesOfficialStep ==
  ASSUME TypeOK, DispatchInv, PlacesInv, "earlyId" \notin Faults, OfficialStep
  PROVE  PlacesInv'
<1>1. run \in [Threads -> Run] /\ turns \in 0..MaxTurn /\ MaxTurn \in Nat
  BY ConstantsAssumption DEF TypeOK, ConstantsAssumption
<1>2. \A t \in Threads : Begin(t) => \A u \in Threads : /\ run[u] # Asleep => run'[u] # Asleep
                                                        /\ run'[t] # Asleep
  BY <1>1 DEF Begin, Asleep
<1>3. ASSUME NEW m \in Msgs, AcceptTurn(m)
      PROVE  PlacesInv'
  <2>1. call[m] \in Calls /\ call \in [Msgs -> CallState] /\ call[m].pc = "sent"
    BY <1>3, CallTypes DEF AcceptTurn, TypeOK
  <2>2. PICK c \in Threads :
          /\ \/ /\ call[m].thread \in drafts /\ c \notin known \cup Drafts /\ run[c] = Asleep
                /\ drafts' = drafts \ {call[m].thread} /\ known' = known
             \/ /\ call[m].thread \notin Drafts /\ c = call[m].thread
                /\ UNCHANGED <<drafts, known>>
          /\ Begin(c)
          /\ call' = [call EXCEPT ![m].pc = "accepted", ![m].turn = turns', ![m].canon = c]
    BY <1>3 DEF AcceptTurn
  <2>3. /\ call'[m].pc = "accepted" /\ call'[m].thread = call[m].thread /\ call'[m].canon = c
        /\ \A x \in Msgs : x # m => call'[x] = call[x]
    BY <2>1, <2>2 DEF Calls
  <2>4. UNCHANGED <<q, slot, stage>>
    BY <1>3 DEF AcceptTurn
  <2>5. known' = known /\ drafts' \subseteq drafts
    BY <2>2
  <2>6. SlotsApart'
    <3>1. \A t \in Threads : slot'[t].gen = 1 => t \in known' \ drafts'
      BY <2>4, <2>5 DEF PlacesInv, SlotsApart
    <3> QED
      BY <2>4, <2>5, <3>1 DEF PlacesInv, SlotsApart, Home
  <2>7. QueuesKept'
    BY <2>4, <2>5 DEF PlacesInv, QueuesKept
  <2>8. \A x \in Msgs : x # m => (Migrates(x)' <=> Migrates(x))
    BY <2>3 DEF Migrates
  <2>9. ASSUME Migrates(m)'
        PROVE  /\ call[m].thread \in drafts /\ c \notin known \cup Drafts /\ run[c] = Asleep
               /\ drafts' = drafts \ {call[m].thread}
    BY <2>2, <2>3, <2>9 DEF Migrates
  <2>10. ASSUME NEW x \in Msgs, Migrates(x)'
         PROVE  /\ call'[x].thread \in Drafts \ drafts' /\ slot'[call'[x].thread].gen = 0
                /\ call'[x].canon \notin known' \cup Drafts /\ run'[call'[x].canon] # Asleep
    <3>1. CASE x = m
      <4>1. call[m].thread \in drafts /\ c \notin known \cup Drafts /\ run'[c] # Asleep
            /\ drafts' = drafts \ {call[m].thread}
        BY <1>2, <2>2, <2>9, <2>10, <3>1
      <4>2. call[m].thread \in Drafts /\ call[m].thread \in Threads
        BY <4>1, ConstantsAssumption DEF TypeOK, ConstantsAssumption
      <4>3. slot[call[m].thread].gen = 0
        <5>1. slot[call[m].thread] \in Objs
          BY <4>2 DEF TypeOK
        <5>2. slot[call[m].thread].gen # 1
          BY <4>1, <4>2 DEF PlacesInv, SlotsApart
        <5> QED
          BY <5>1, <5>2 DEF Objs
      <4> QED
        BY <2>3, <2>4, <2>5, <3>1, <4>1, <4>2, <4>3
    <3>2. CASE x # m
      <4>1. Migrates(x) /\ call'[x] = call[x]
        BY <2>3, <2>8, <2>10, <3>2
      <4>2. call[x].canon \in Threads
        BY <4>1, CallTypes DEF Migrates
      <4>3. /\ call[x].thread \in Drafts \ drafts /\ slot[call[x].thread].gen = 0
            /\ call[x].canon \notin known \cup Drafts /\ run[call[x].canon] # Asleep
        BY <4>1 DEF PlacesInv, FirstTurnsApart
      <4>4. run'[call[x].canon] # Asleep
        BY <1>2, <2>2, <4>2, <4>3
      <4> QED
        BY <2>4, <2>5, <4>1, <4>3, <4>4
    <3> QED
      BY <3>1, <3>2
  <2>11. ASSUME NEW x \in Msgs, Migrates(x), x # m, Migrates(m)'
         PROVE  call[x].thread # call[m].thread /\ call[x].canon # c
    BY <2>9, <2>11 DEF PlacesInv, FirstTurnsApart
  <2>12. FirstTurnsApart'
    <3>1. \A x \in Msgs : call'[x].pc # "idle" => call'[x].thread \in known'
      BY <2>1, <2>3, <2>5 DEF PlacesInv, FirstTurnsApart
    <3>2. ASSUME NEW x \in Msgs, NEW y \in Msgs, Migrates(x)', Migrates(y)', x # y
          PROVE  call'[x].thread # call'[y].thread /\ call'[x].canon # call'[y].canon
      <4>1. CASE x = m
        BY <2>3, <2>8, <2>11, <3>2, <4>1
      <4>2. CASE y = m
        BY <2>3, <2>8, <2>11, <3>2, <4>2
      <4>3. CASE x # m /\ y # m
        BY <2>3, <2>8, <3>2, <4>3 DEF PlacesInv, FirstTurnsApart
      <4> QED
        BY <4>1, <4>2, <4>3
    <3> QED
      BY <2>10, <3>1, <3>2 DEF FirstTurnsApart
  <2> QED
    BY <2>6, <2>7, <2>12 DEF PlacesInv
<1>4. ASSUME NEW t \in Threads, OfficialTurn(t) \/ CompleteTurn(t) \/ LoseNote(t)
      PROVE  PlacesInv'
  <2>1. UNCHANGED <<q, slot, call, known, drafts, stage>>
    BY <1>4 DEF OfficialTurn, CompleteTurn, LoseNote, serverVars, historyVars
  <2>2. \A u \in Threads : run[u] # Asleep => run'[u] # Asleep
    <3>1. CASE OfficialTurn(t)
      BY <1>2, <3>1 DEF OfficialTurn
    <3>2. CASE CompleteTurn(t)
      <4>1. run[t].active /\ run' = [run EXCEPT ![t].active = FALSE]
        BY <3>2 DEF CompleteTurn
      <4>2. run[t] \in [turn: Turns, active: {TRUE}]
        BY <1>1, <4>1 DEF Run
      <4>3. run[t].turn # NoTurn /\ run'[t].turn = run[t].turn
        BY <1>1, <4>1, <4>2 DEF Turns, NoTurn
      <4>4. \A u \in Threads : u # t => run'[u] = run[u]
        BY <1>1, <4>1
      <4> QED
        BY <4>3, <4>4 DEF Asleep
    <3>3. CASE LoseNote(t)
      BY <3>3 DEF LoseNote
    <3> QED
      BY <1>4, <3>1, <3>2, <3>3
  <2> QED
    BY <2>1, <2>2, PlacesUntouched
<1> QED
  BY <1>3, <1>4 DEF OfficialStep

LEMMA PlacesNext ==
  ASSUME TypeOK, DispatchInv, PlacesInv, "earlyId" \notin Faults, [Next]_vars
  PROVE  PlacesInv'
<1>1. CASE Next
  BY <1>1, PlacesClientStep, PlacesSteered, PlacesCallStep, PlacesPollStep,
     PlacesThreadStep, PlacesOfficialStep DEF Next
<1>2. CASE UNCHANGED vars
  <2>1. UNCHANGED <<q, slot, call, run, known, drafts, stage>>
    BY <1>2 DEF vars, serverVars, codexVars, historyVars
  <2> QED
    BY <2>1, PlacesUntouched
<1> QED
  BY <1>1, <1>2

\* Every thread keeps a queue of its own through the id migrations of drafts, and
\* each queue that holds messages belongs to a thread that clients can name, as
\* long as no client names a new thread before its first turn is confirmed.
THEOREM PlacesKept ==
  ASSUME "earlyId" \notin Faults
  PROVE  Spec => []PlacesInv
<1>1. TypeOK /\ DispatchInv /\ PlacesInv /\ [Next]_vars => PlacesInv'
  BY PlacesNext
<1> QED
  BY <1>1, PlacesInit, TypeCorrect, DispatchSafe, PTL DEF Spec

LEMMA PlacesImply ==
  ASSUME TypeOK, DispatchInv, PlacesInv
  PROVE  QueuedExactlyOnce
<1> SUFFICES ASSUME NEW m \in Msgs
             PROVE  IF stage[m] = "queued"
                    THEN \E t \in Threads : \E i \in DOMAIN q[slot[t]].items :
                           /\ q[slot[t]].items[i] = m
                           /\ \A u \in Threads : \A j \in DOMAIN q[slot[u]].items :
                                q[slot[u]].items[j] = m => slot[u] = slot[t] /\ i = j
                    ELSE \A o \in Objs : ~Has(q[o].items, m)
  BY DEF QueuedExactlyOnce
<1>1. CASE stage[m] # "queued"
  BY <1>1 DEF DispatchInv, WellDispatched
<1>2. CASE stage[m] = "queued"
  <2>1. PICK o \in Objs : Has(q[o].items, m)
    BY <1>2 DEF PlacesInv, QueuesKept
  <2>2. PICK i \in DOMAIN q[o].items : q[o].items[i] = m
    BY <2>1 DEF Has
  <2>3. PICK t \in known : slot[t] = o
    <3>1. q[o].items # <<>>
      BY <2>1 DEF Has
    <3> QED
      BY <3>1 DEF PlacesInv, QueuesKept
  <2>4. t \in Threads
    BY DEF TypeOK
  <2>5. ASSUME NEW u \in Threads, NEW j \in DOMAIN q[slot[u]].items, q[slot[u]].items[j] = m
        PROVE  slot[u] = slot[t] /\ i = j
    <3>1. slot[u] \in Objs /\ Has(q[slot[u]].items, m)
      BY <2>5 DEF TypeOK, Has
    <3>2. slot[u] = o
      BY <2>1, <3>1 DEF DispatchInv, WellDispatched
    <3>3. NoDup(q[o].items)
      BY DEF DispatchInv, WellDispatched
    <3> QED
      BY <2>2, <2>3, <2>5, <3>2, <3>3 DEF NoDup
  <2>6. /\ q[slot[t]].items[i] = m
        /\ \A u \in Threads : \A j \in DOMAIN q[slot[u]].items :
             q[slot[u]].items[j] = m => slot[u] = slot[t] /\ i = j
        /\ i \in DOMAIN q[slot[t]].items
    BY <2>2, <2>3, <2>5
  <2> QED
    BY <1>2, <2>4, <2>6
<1> QED
  BY <1>1, <1>2

\* A queued message is once in exactly one queue that a thread maps to, until it
\* is confirmed or taken back.
THEOREM QueuedExactlyOnceHolds ==
  ASSUME "earlyId" \notin Faults
  PROVE  Spec => []QueuedExactlyOnce
BY PlacesKept, PlacesImply, TypeCorrect, DispatchSafe, PTL

-----------------------------------------------------------------------------
(* The files of the queued messages                                        *)

\* Files are released only with the turns of messages that were sent.
SentFilesOnly == \A t \in Threads, m \in Msgs : m \in turnFiles[t] => stage[m] = "sent"

FilesInv == SentFilesOnly /\ QueuedFilesAreKept

LEMMA FilesUntouched ==
  ASSUME FilesInv, UNCHANGED <<files, turnFiles, stage>>
  PROVE  FilesInv'
BY DEF FilesInv, SentFilesOnly, QueuedFilesAreKept

\* The end of a turn: the files released are not those of a queued message.
LEMMA FilesReleased ==
  ASSUME TypeOK, FilesInv, UNCHANGED stage, NEW t \in Threads,
         Release(t) \/ UNCHANGED <<files, turnFiles>>
  PROVE  FilesInv'
<1>1. CASE Release(t)
  <2>1. files' = files \ turnFiles[t] /\ turnFiles' = [turnFiles EXCEPT ![t] = {}]
    BY <1>1 DEF Release
  <2>2. turnFiles \in [Threads -> SUBSET WithFiles] /\ WithFiles \subseteq Msgs
    BY ConstantsAssumption DEF TypeOK, ConstantsAssumption
  <2>3. \A m \in Msgs : stage[m] = "queued" => m \notin turnFiles[t]
    BY DEF FilesInv, SentFilesOnly
  <2> QED
    BY <2>1, <2>2, <2>3 DEF FilesInv, SentFilesOnly, QueuedFilesAreKept
<1> QED
  BY <1>1, FilesUntouched

\* A message that leaves the state it is in, not yet sent, for one in which it is
\* not queued may take its files with it.
LEMMA FilesLeave ==
  ASSUME TypeOK, FilesInv, NEW m \in Msgs, NEW g, stage' = [stage EXCEPT ![m] = g],
         stage[m] # "sent", g # "queued", files \ {m} \subseteq files', UNCHANGED turnFiles
  PROVE  FilesInv'
<1>1. /\ stage \in [Msgs -> Stages] /\ WithFiles \subseteq Msgs
      /\ \A t \in Threads : turnFiles[t] \subseteq WithFiles
  BY ConstantsAssumption DEF TypeOK, ConstantsAssumption
<1>2. SentFilesOnly'
  BY <1>1 DEF FilesInv, SentFilesOnly
<1>3. QueuedFilesAreKept'
  BY <1>1 DEF FilesInv, QueuedFilesAreKept
<1> QED
  BY <1>2, <1>3 DEF FilesInv

LEMMA FilesClientStep ==
  ASSUME TypeOK, DispatchInv, PlacesInv, FilesInv, ClientStep
  PROVE  FilesInv'
<1>1. stage \in [Msgs -> Stages] /\ WithFiles \subseteq Msgs
      /\ \A t \in Threads : turnFiles[t] \subseteq WithFiles
  BY ConstantsAssumption DEF TypeOK, ConstantsAssumption
<1>2. ASSUME NEW t \in Threads, NEW m \in Msgs, StartTurn(t, m)
      PROVE  FilesInv'
  BY <1>2, FilesLeave DEF StartTurn
<1>3. ASSUME NEW t \in Threads, NEW m \in Msgs, QueueTurn(t, m)
      PROVE  FilesInv'
  <2>1. /\ stage[m] = "new" /\ stage' = [stage EXCEPT ![m] = "queued"]
        /\ FilesReady(m, files) /\ UNCHANGED <<files, turnFiles>>
    BY <1>3 DEF QueueTurn
  <2>2. SentFilesOnly'
    BY <1>1, <2>1 DEF FilesInv, SentFilesOnly
  <2>3. QueuedFilesAreKept'
    BY <1>1, <2>1 DEF FilesInv, QueuedFilesAreKept, FilesReady
  <2> QED
    BY <2>2, <2>3 DEF FilesInv
<1>4. ASSUME NEW t \in Threads, NEW m \in Msgs, RemoveQueuedTurn(t, m)
      PROVE  FilesInv'
  <2>1. /\ slot[t] \in Objs /\ Has(q[slot[t]].items, m) /\ files' = files \ {m}
        /\ stage' = [stage EXCEPT ![m] = "removed"] /\ UNCHANGED turnFiles
    BY <1>4, SlotType DEF RemoveQueuedTurn, Edit
  <2>2. stage[m] = "queued"
    BY <2>1 DEF DispatchInv, WellDispatched
  <2> QED
    BY <2>1, <2>2, FilesLeave
<1>5. ASSUME NEW t \in Threads, NEW m \in Msgs, UpdateQueuedTurn(t, m) \/ ReorderQueuedTurn(t, m)
      PROVE  FilesInv'
  BY <1>5, FilesUntouched DEF UpdateQueuedTurn, ReorderQueuedTurn, Edit
<1>6. ASSUME NEW m \in Msgs, QueueRefused(m)
      PROVE  FilesInv'
  BY <1>6, FilesLeave DEF QueueRefused
<1>7. ASSUME NEW m \in Msgs, RemoveAttachment(m)
      PROVE  FilesInv'
  <2>1. "remove" \in Faults /\ UNCHANGED <<stage, turnFiles>>
    BY <1>7 DEF RemoveAttachment, historyVars
  <2> QED
    BY <2>1 DEF FilesInv, SentFilesOnly, QueuedFilesAreKept
<1>8. ASSUME NEW m \in Msgs, PurgeExpiredUpload(m)
      PROVE  FilesInv'
  <2>1. /\ files' = files \ {m} /\ UNCHANGED <<stage, turnFiles>>
        /\ \A t \in Threads : ~Has(q[slot[t]].items, m)
    BY <1>8 DEF PurgeExpiredUpload, historyVars
  <2>2. stage[m] # "queued"
    <3>1. QueuedExactlyOnce
      BY PlacesImply
    <3> QED
      BY <2>1, <3>1 DEF QueuedExactlyOnce, Has
  <2> QED
    BY <2>1, <2>2 DEF FilesInv, SentFilesOnly, QueuedFilesAreKept
<1>9. ASSUME NEW t \in Threads, CreateThread(t) \/ OpenThread(t) \/ \E n \in Turns : SteerTurn(t, n)
      PROVE  FilesInv'
  BY <1>9, FilesUntouched DEF CreateThread, OpenThread, SteerTurn, historyVars
<1> QED
  BY <1>2, <1>3, <1>4, <1>5, <1>6, <1>7, <1>8, <1>9 DEF ClientStep

LEMMA FilesCallStep ==
  ASSUME TypeOK, DispatchInv, FilesInv, NEW m \in Msgs, CallStep(m)
  PROVE  FilesInv'
<1>1. CASE UsageAllows(m) \/ Resumed(m) \/ DrainFailed(m)
  BY <1>1, FilesUntouched DEF UsageAllows, Resumed, DrainFailed, historyVars
<1>2. CASE TurnStarted(m)
  <2>1. /\ turnFiles' = MovedFiles(call[m].thread, call[m].canon, m)
        /\ stage' = [stage EXCEPT ![m] = "sent"] /\ UNCHANGED files
    BY <1>2 DEF TurnStarted
  <2>2. /\ stage \in [Msgs -> Stages] /\ WithFiles \subseteq Msgs
        /\ turnFiles \in [Threads -> SUBSET WithFiles]
    BY ConstantsAssumption DEF TypeOK, ConstantsAssumption
  <2>3. \A t \in Threads, x \in Msgs : x \in turnFiles'[t] =>
          x = m \/ \E u \in Threads : x \in turnFiles[u]
    <3> DEFINE t == call[m].thread
               c == call[m].canon
               moved == IF t # c /\ turnFiles[t] # {}
                        THEN [turnFiles EXCEPT ![c] = turnFiles[t], ![t] = {}] ELSE turnFiles
    <3>1. t \in Threads /\ c \in Threads
      BY <1>2, CallTypes DEF TurnStarted
    <3>2. turnFiles' = IF m \in WithFiles THEN [moved EXCEPT ![c] = {m}] ELSE moved
      BY <2>1 DEF MovedFiles
    <3> HIDE DEF t, c
    <3>3. /\ DOMAIN moved = Threads
          /\ \A u \in Threads, x \in Msgs : x \in moved[u] => \E v \in Threads : x \in turnFiles[v]
      BY <2>2, <3>1
    <3> HIDE DEF moved
    <3> QED
      BY <3>1, <3>2, <3>3
  <2>4. SentFilesOnly'
    BY <2>1, <2>2, <2>3 DEF FilesInv, SentFilesOnly
  <2>5. QueuedFilesAreKept'
    BY <2>1, <2>2 DEF FilesInv, QueuedFilesAreKept
  <2> QED
    BY <2>4, <2>5 DEF FilesInv
<1>3. CASE DirectFailed(m)
  <2>1. /\ call[m].pc # "idle" /\ ~call[m].drain /\ files' = files \ {m}
        /\ stage' = [stage EXCEPT ![m] = "refused"] /\ UNCHANGED turnFiles
    BY <1>3 DEF DirectFailed, CanFail
  <2>2. stage[m] = "direct"
    BY <2>1 DEF DispatchInv, WellDispatched
  <2> QED
    BY <2>1, <2>2, FilesLeave
<1> QED
  BY <1>1, <1>2, <1>3 DEF CallStep

LEMMA FilesPollStep ==
  ASSUME TypeOK, FilesInv, NEW o \in Objs, PollStep(o)
  PROVE  FilesInv'
<1>1. CASE PollSeesTurn(o) \/ PollFallsBack(o) \/ StatusSettlesNothing(o)
  BY <1>1, FilesUntouched DEF PollSeesTurn, PollFallsBack, StatusSettlesNothing, historyVars
<1>2. CASE PollSeesIdle(o) \/ StatusIdle(o)
  <2>1. PICK x \in {o, slot[poll[o].thread]} : poll[o].pc # "idle" /\ PollGoesOn(o, x)
    BY <1>2 DEF PollSeesIdle, StatusIdle
  <2>2. poll[o].thread \in Threads
    BY <2>1, PollTypes
  <2>3. Release(poll[o].thread) \/ UNCHANGED <<files, turnFiles>>
    BY <2>1 DEF PollGoesOn
  <2>4. UNCHANGED stage
    BY <2>1 DEF PollGoesOn, historyVars
  <2> QED
    BY <2>2, <2>3, <2>4, FilesReleased
<1> QED
  BY <1>1, <1>2 DEF PollStep

LEMMA FilesThreadStep ==
  ASSUME TypeOK, FilesInv, NEW t \in Threads, ThreadStep(t)
  PROVE  FilesInv'
<1>1. CASE NoteStarted(t) \/ PollQueue(t) \/ ReadFailed(t)
  BY <1>1, FilesUntouched DEF NoteStarted, PollQueue, ReadFailed, historyVars
<1>2. CASE NoteCompleted(t) \/ SynchronizeActiveTurn(t)
  <2>1. (Release(t) \/ UNCHANGED <<files, turnFiles>>) /\ UNCHANGED stage
    BY <1>2 DEF NoteCompleted, SynchronizeActiveTurn, historyVars
  <2> QED
    BY <2>1, FilesReleased
<1> QED
  BY <1>1, <1>2 DEF ThreadStep

LEMMA FilesNext ==
  ASSUME TypeOK, DispatchInv, PlacesInv, FilesInv, [Next]_vars
  PROVE  FilesInv'
<1>1. ASSUME SteerAccepted \/ SteerFailed \/ OfficialStep \/ UNCHANGED vars
      PROVE  FilesInv'
  <2>1. UNCHANGED <<files, turnFiles, stage>>
    BY <1>1 DEF SteerAccepted, SteerFailed, OfficialStep, AcceptTurn, OfficialTurn, CompleteTurn,
                LoseNote, vars, serverVars, historyVars
  <2> QED
    BY <2>1, FilesUntouched
<1> QED
  BY <1>1, FilesClientStep, FilesCallStep, FilesPollStep, FilesThreadStep DEF Next

\* The attachments of a queued message stay on disk, whatever turns end meanwhile
\* and however old the upload is, unless a client removes them.
THEOREM QueuedFilesKept ==
  ASSUME "earlyId" \notin Faults
  PROVE  Spec => []QueuedFilesAreKept
<1>1. Init => FilesInv
  BY DEF Init, FilesInv, SentFilesOnly, QueuedFilesAreKept
<1>2. TypeOK /\ DispatchInv /\ PlacesInv /\ FilesInv /\ [Next]_vars => FilesInv'
  BY FilesNext
<1>3. FilesInv => QueuedFilesAreKept
  BY DEF FilesInv
<1> QED
  BY <1>1, <1>2, <1>3, TypeCorrect, DispatchSafe, PlacesKept, PTL DEF Spec

-----------------------------------------------------------------------------
(* What is sent again                                                      *)

\* Message m may still go out without another edit: its start is in flight, it is
\* new, or it waits in a queue that has not stopped behind an error.
MayGo(m) ==
  \/ call[m].pc \in {"usage", "resume"}
  \/ stage[m] = "new"
  \/ call[m].pc = "idle" /\ \E o \in Objs : Has(q[o].items, m) /\ ~q[o].blocked

\* Each message has one start, and one more for each edit; a turn runs only for a
\* start, and without lost answers only once.
RetryInv ==
  \A m \in Msgs :
    /\ sent[m] + (IF MayGo(m) THEN 1 ELSE 0) <= 1 + edits
    /\ accepted[m] + (IF call[m].pc = "sent" THEN 1 ELSE 0) <= sent[m]
    /\ "ackLoss" \in Faults \/ accepted[m] <= IF call[m].pc = "accepted" \/ stage[m] = "sent"
                                              THEN 1 ELSE 0

\* A step that sends nothing and gives no message another start without an edit.
LEMMA RetryStay ==
  ASSUME TypeOK, RetryInv, UNCHANGED <<sent, accepted>>, edits' = edits \/ edits' = edits + 1,
         edits' = edits => \A x \in Msgs : MayGo(x)' => MayGo(x),
         \A x \in Msgs : call'[x].pc = "sent" => call[x].pc = "sent",
         \A x \in Msgs : call[x].pc = "accepted" \/ stage[x] = "sent" =>
           call'[x].pc = "accepted" \/ stage'[x] = "sent" \/ "ackLoss" \in Faults
  PROVE  RetryInv'
<1> SUFFICES ASSUME NEW m \in Msgs
             PROVE  /\ sent'[m] + (IF MayGo(m)' THEN 1 ELSE 0) <= 1 + edits'
                    /\ accepted'[m] + (IF call'[m].pc = "sent" THEN 1 ELSE 0) <= sent'[m]
                    /\ \/ "ackLoss" \in Faults
                       \/ accepted'[m] <= IF call'[m].pc = "accepted" \/ stage'[m] = "sent"
                                          THEN 1 ELSE 0
  BY DEF RetryInv
<1>1. sent[m] \in Nat /\ accepted[m] \in Nat /\ edits \in Nat
  BY ConstantsAssumption DEF TypeOK, ConstantsAssumption
<1>2. /\ sent[m] + (IF MayGo(m) THEN 1 ELSE 0) <= 1 + edits
      /\ accepted[m] + (IF call[m].pc = "sent" THEN 1 ELSE 0) <= sent[m]
      /\ "ackLoss" \in Faults \/ accepted[m] <= IF call[m].pc = "accepted" \/ stage[m] = "sent"
                                                THEN 1 ELSE 0
  BY DEF RetryInv
<1>3. edits' = edits => (MayGo(m)' => MayGo(m))
  OBVIOUS
<1>4. sent'[m] = sent[m] /\ accepted'[m] = accepted[m]
  OBVIOUS
<1>5. sent'[m] + (IF MayGo(m)' THEN 1 ELSE 0) <= 1 + edits'
  <2>1. CASE edits' = edits + 1
    BY <1>1, <1>2, <1>4, <2>1
  <2>2. CASE edits' = edits
    BY <1>1, <1>2, <1>3, <1>4, <2>2
  <2> QED
    BY <2>1, <2>2
<1>6. accepted'[m] + (IF call'[m].pc = "sent" THEN 1 ELSE 0) <= sent'[m]
  BY <1>1, <1>2, <1>4
<1>7. \/ "ackLoss" \in Faults
      \/ accepted'[m] <= IF call'[m].pc = "accepted" \/ stage'[m] = "sent" THEN 1 ELSE 0
  BY <1>1, <1>2, <1>4
<1> QED
  BY <1>5, <1>6, <1>7

\* A queued message whose queue is not draining is in nobody's hands.
LEMMA HeadIsIdle ==
  ASSUME TypeOK, DispatchInv, NEW y \in Objs, NEW h \in Msgs, Has(q[y].items, h),
         ~q[y].draining
  PROVE  call[h].pc = "idle"
<1> SUFFICES ASSUME call[h].pc # "idle"
             PROVE  FALSE
  OBVIOUS
<1>1. call[h].obj \in Objs
  BY CallTypes
<1>2. stage[h] = "queued"
  BY DEF DispatchInv, WellDispatched
<1>3. call[h].drain
  BY <1>2 DEF DispatchInv, WellDispatched
<1>4. q[call[h].obj].sending = h
  BY <1>1, <1>3 DEF DispatchInv, WellDispatched, Sends
<1>5. call[h].obj = y
  BY <1>1, <1>4 DEF DispatchInv, WellDispatched
<1>6. q[y].sending = NoMsg
  BY DEF DispatchInv, WellDispatched
<1> QED
  BY <1>4, <1>5, <1>6, ConstantsAssumption DEF ConstantsAssumption

\* A step that leaves the queues their items, refuses some direct starts and may
\* drain one queue.
LEMMA RetryDrained ==
  ASSUME TypeOK, DispatchInv, RetryInv, UNCHANGED <<sent, accepted, edits>>,
         \A o \in Objs : q'[o].items = q[o].items /\ (q[o].blocked => q'[o].blocked),
         NEW C \in [Msgs -> CallState],
         \A x \in Msgs : \/ C[x] = call[x] /\ stage'[x] = stage[x]
                         \/ /\ C[x].pc = "idle" /\ stage[x] = "direct" /\ stage'[x] = "refused"
                            /\ call[x].pc # "accepted" \/ "ackLoss" \in Faults,
         NEW t \in Threads, NEW s, NEW y \in Objs, StartsHead(C, call', s, t, y),
         s.items = q[y].items, s.blocked = q[y].blocked, s.draining = q[y].draining
  PROVE  RetryInv'
<1>1. \A x \in Msgs : call'[x] = C[x]
                       \/ /\ q[y].items # <<>> /\ x = Head(q[y].items)
                          /\ ~q[y].blocked /\ ~q[y].draining /\ call'[x].pc = "usage"
  BY StartsHeadCalls
<1>2. ASSUME NEW x \in Msgs, call'[x] # C[x]
      PROVE  Has(q[y].items, x) /\ call[x].pc = "idle" /\ C[x] = call[x] /\ stage'[x] = stage[x]
  <2>1. q[y].items \in Seq(Msgs) /\ q[y].items # <<>> /\ x = Head(q[y].items) /\ ~q[y].draining
    BY <1>1, <1>2, FieldTypes DEF TypeOK
  <2>2. Has(q[y].items, x)
    BY <2>1, HeadIsIn
  <2>3. call[x].pc = "idle"
    BY <2>1, <2>2, HeadIsIdle
  <2>4. stage[x] = "queued"
    BY <2>2 DEF DispatchInv, WellDispatched
  <2> QED
    BY <2>2, <2>3, <2>4
<1>3. ASSUME NEW x \in Msgs, MayGo(x)'
      PROVE  MayGo(x)
  <2>1. CASE call'[x] # C[x]
    BY <1>1, <1>2, <2>1 DEF MayGo
  <2>2. CASE call'[x] = C[x]
    <3>1. ASSUME NEW o \in Objs, Has(q'[o].items, x)
          PROVE  stage[x] = "queued"
      <4>1. Has(q[o].items, x)
        BY <3>1
      <4> QED
        BY <4>1 DEF DispatchInv, WellDispatched
    <3>2. C[x] = call[x] /\ stage'[x] = stage[x]
      BY <1>3, <2>2, <3>1 DEF MayGo
    <3> QED
      BY <1>3, <2>2, <3>2 DEF MayGo
  <2> QED
    BY <2>1, <2>2
<1>4. \A x \in Msgs : call'[x].pc = "sent" => call[x].pc = "sent"
  BY <1>1
<1>5. \A x \in Msgs : call[x].pc = "accepted" \/ stage[x] = "sent" =>
        call'[x].pc = "accepted" \/ stage'[x] = "sent" \/ "ackLoss" \in Faults
  BY <1>1, <1>2
<1> QED
  BY <1>3, <1>4, <1>5, RetryStay

\* A handler that publishes the queue of t after news of its active turn.
LEMMA RetryNews ==
  ASSUME TypeOK, DispatchInv, RetryInv, UNCHANGED <<sent, accepted, edits, stage>>,
         NEW t \in Threads, NEW n \in 0..MaxTurn, NEW up,
         Publish(t, [q[slot[t]] EXCEPT !.activeTurn = n], up)
  PROVE  RetryInv'
<1> DEFINE s == [q[slot[t]] EXCEPT !.activeTurn = n]
<1>1. slot[t] \in Objs /\ call \in [Msgs -> CallState] /\ q[slot[t]] \in QueueState
  BY SlotType DEF TypeOK
<1>2. /\ s \in QueueState /\ s.items = q[slot[t]].items /\ s.blocked = q[slot[t]].blocked
      /\ s.draining = q[slot[t]].draining /\ Publish(t, s, up)
  BY <1>1, FieldTypes DEF QueueState
<1> HIDE DEF s
<1>3. /\ q'[slot[t]].items = s.items
      /\ s.blocked => q'[slot[t]].blocked
      /\ \A o \in Objs : o # slot[t] => q'[o] = q[o]
      /\ StartsHead(call, call', s, t, slot[t])
  BY <1>2, PublishFields
<1>4. \A o \in Objs : q'[o].items = q[o].items /\ (q[o].blocked => q'[o].blocked)
  BY <1>2, <1>3
<1> QED
  BY <1>1, <1>2, <1>3, <1>4, RetryDrained

\* Steps that change no call and no place of a message.
LEMMA RetryUntouched ==
  ASSUME TypeOK, RetryInv, UNCHANGED <<call, stage, sent, accepted, edits>>,
         \A o \in Objs : q'[o].items = q[o].items /\ q'[o].blocked = q[o].blocked
  PROVE  RetryInv'
<1>1. \A x \in Msgs : MayGo(x)' => MayGo(x)
  BY DEF MayGo
<1> QED
  BY <1>1, RetryStay

LEMMA RetryClientStep ==
  ASSUME TypeOK, DispatchInv, RetryInv, ClientStep
  PROVE  RetryInv'
<1>1. /\ q \in [Objs -> QueueState] /\ call \in [Msgs -> CallState]
      /\ stage \in [Msgs -> Stages]
  BY DEF TypeOK
<1>2. ASSUME NEW t \in Threads, NEW m \in Msgs, StartTurn(t, m)
      PROVE  RetryInv'
  <2>1. /\ stage[m] = "new" /\ call' = [call EXCEPT ![m] = NewCall(t, slot[t], FALSE)]
        /\ q' = [q EXCEPT ![slot[t]].starting = TRUE]
        /\ stage' = [stage EXCEPT ![m] = "direct"]
        /\ UNCHANGED <<sent, accepted, edits>>
    BY <1>2 DEF StartTurn
  <2>2. \A o \in Objs : q'[o].items = q[o].items /\ q'[o].blocked = q[o].blocked
    BY <1>1, <2>1 DEF QueueState
  <2>3. call[m].pc = "idle"
    BY <2>1 DEF DispatchInv, WellDispatched
  <2>4. call'[m].pc = "usage" /\ \A x \in Msgs : x # m => call'[x] = call[x]
    BY <1>1, <2>1 DEF NewCall
  <2>5. \A x \in Msgs : MayGo(x)' => MayGo(x)
    BY <1>1, <2>1, <2>2, <2>4 DEF MayGo
  <2>6. \A x \in Msgs : call'[x].pc = "sent" => call[x].pc = "sent"
    BY <2>4
  <2>7. \A x \in Msgs : call[x].pc = "accepted" \/ stage[x] = "sent" =>
          call'[x].pc = "accepted" \/ stage'[x] = "sent"
    BY <1>1, <2>1, <2>3, <2>4
  <2> QED
    BY <2>1, <2>5, <2>6, <2>7, RetryStay
<1>3. ASSUME NEW t \in Threads, NEW m \in Msgs, QueueTurn(t, m)
      PROVE  RetryInv'
  <2> DEFINE y == slot[t]
             s == [q[y] EXCEPT !.items = Append(@, m)]
  <2>1. /\ s \in QueueState /\ s.items = Append(q[y].items, m) /\ q[y].items \in Seq(Msgs)
        /\ s.blocked = q[y].blocked /\ s.draining = q[y].draining /\ y \in Objs
    <3>1. q[y].items \in Seq(Msgs) /\ q[y] \in QueueState
      BY SlotType, FieldTypes
    <3>2. Append(q[y].items, m) \in Seq(Msgs)
      BY <3>1, AppendProperties
    <3> QED
      BY <3>1, <3>2, SlotType, FieldTypes DEF QueueState
  <2>2. /\ Publish(t, s, files) /\ stage[m] = "new"
        /\ stage' = [stage EXCEPT ![m] = "queued"] /\ UNCHANGED <<sent, accepted, edits>>
    BY <1>3 DEF QueueTurn
  <2> HIDE DEF s
  <2>3. /\ q'[y].items = s.items
        /\ s.blocked => q'[y].blocked
        /\ \A o \in Objs : o # y => q'[o] = q[o]
        /\ StartsHead(call, call', s, t, y)
    BY <2>1, <2>2, PublishFields
  <2>4. \A x \in Msgs : call'[x] = call[x]
                         \/ /\ s.items # <<>> /\ x = Head(s.items)
                            /\ ~s.blocked /\ ~s.draining /\ call'[x].pc = "usage"
    BY <1>1, <2>3, StartsHeadCalls
  <2> HIDE DEF y
  <2>5. \A x \in Msgs : x # m /\ Has(s.items, x) => Has(q[y].items, x)
    BY <2>1, AppendHas
  <2>6. ASSUME NEW x \in Msgs, call'[x] # call[x]
        PROVE  x = m \/ (Has(q[y].items, x) /\ call[x].pc = "idle" /\ ~q[y].blocked)
    <3>1. s.items \in Seq(Msgs) /\ s.items # <<>> /\ x = Head(s.items) /\ ~s.draining /\ ~s.blocked
      BY <2>1, <2>4, <2>6, FieldTypes
    <3>2. Has(s.items, x)
      BY <3>1, HeadIsIn
    <3>3. x # m => Has(q[y].items, x) /\ ~q[y].draining /\ ~q[y].blocked
      BY <2>1, <2>5, <3>1, <3>2
    <3>4. x # m => call[x].pc = "idle"
      BY <2>1, <3>3, HeadIsIdle
    <3> QED
      BY <3>3, <3>4
  <2>7. ASSUME NEW x \in Msgs, MayGo(x)'
        PROVE  MayGo(x)
    <3>1. CASE x = m
      BY <2>2, <3>1 DEF MayGo
    <3>2. CASE x # m /\ call'[x] # call[x]
      BY <2>1, <2>6, <3>2 DEF MayGo
    <3>3. CASE x # m /\ call'[x] = call[x]
      <4>1. \A o \in Objs : Has(q'[o].items, x) /\ ~q'[o].blocked
                              => Has(q[o].items, x) /\ ~q[o].blocked
        BY <2>1, <2>3, <2>5, <3>3
      <4> QED
        BY <1>1, <2>2, <2>7, <3>3, <4>1 DEF MayGo
    <3> QED
      BY <3>1, <3>2, <3>3
  <2>8. \A x \in Msgs : call'[x].pc = "sent" => call[x].pc = "sent"
    BY <2>4
  <2>9. call[m].pc = "idle"
    BY <2>2 DEF DispatchInv, WellDispatched
  <2>10. \A x \in Msgs : call[x].pc = "accepted" \/ stage[x] = "sent" =>
           call'[x].pc = "accepted" \/ stage'[x] = "sent"
    BY <1>1, <2>2, <2>6, <2>9
  <2> QED
    BY <2>2, <2>7, <2>8, <2>10, RetryStay
<1>4. ASSUME NEW t \in Threads, NEW m \in Msgs, NEW items \in Seq(Msgs), NEW up,
             Edit(t, m, items, up), \A x \in Msgs : Has(items, x) => Has(q[slot[t]].items, x),
             \A x \in Msgs : stage[x] = "sent" => stage'[x] = "sent"
      PROVE  RetryInv'
  <2> DEFINE y == slot[t]
             s == [q[y] EXCEPT !.items = items, !.blocked = FALSE]
  <2>1. s \in QueueState /\ s.items = items /\ s.draining = q[y].draining /\ y \in Objs
    <3>1. slot[t] \in Objs /\ q[slot[t]] \in QueueState
      BY SlotType
    <3>2. s \in QueueState
      BY <3>1, FieldTypes
    <3> QED
      BY <3>1, <3>2 DEF QueueState
  <2>2. Publish(t, s, up) /\ edits' = edits + 1 /\ UNCHANGED <<sent, accepted>>
    BY <1>4 DEF Edit
  <2> HIDE DEF s
  <2>3. StartsHead(call, call', s, t, y)
    BY <2>1, <2>2, PublishFields
  <2>4. \A x \in Msgs : call'[x] = call[x]
                         \/ /\ s.items # <<>> /\ x = Head(s.items)
                            /\ ~s.draining /\ call'[x].pc = "usage"
    BY <1>1, <2>3, StartsHeadCalls
  <2>5. ASSUME NEW x \in Msgs, call'[x] # call[x]
        PROVE  call[x].pc = "idle"
    <3>1. items \in Seq(Msgs) /\ items # <<>> /\ x = Head(items) /\ ~q[y].draining
      BY <2>1, <2>4, <2>5
    <3>2. Has(items, x)
      BY <3>1, HeadIsIn
    <3> QED
      BY <1>4, <2>1, <3>1, <3>2, HeadIsIdle
  <2>6. \A x \in Msgs : call'[x].pc = "sent" => call[x].pc = "sent"
    BY <2>4
  <2>7. \A x \in Msgs : call[x].pc = "accepted" \/ stage[x] = "sent" =>
          call'[x].pc = "accepted" \/ stage'[x] = "sent"
    BY <1>4, <2>5
  <2>8. edits' # edits
    BY <2>2, ConstantsAssumption DEF TypeOK, ConstantsAssumption
  <2> QED
    BY <2>2, <2>6, <2>7, <2>8, RetryStay
<1>5. ASSUME NEW t \in Threads, NEW m \in Msgs, RemoveQueuedTurn(t, m)
      PROVE  RetryInv'
  <2>1. /\ Edit(t, m, Without(q[slot[t]].items, m), files \ {m})
        /\ stage' = [stage EXCEPT ![m] = "removed"] /\ Has(q[slot[t]].items, m)
        /\ slot[t] \in Objs
    BY <1>5, SlotType DEF RemoveQueuedTurn, Edit
  <2>2. /\ Without(q[slot[t]].items, m) \in Seq(Msgs)
        /\ \A x : Has(Without(q[slot[t]].items, m), x) => Has(q[slot[t]].items, x)
    <3>1. q[slot[t]].items \in Seq(Msgs)
      BY SlotType, FieldTypes
    <3> QED
      BY <3>1, WithoutProperties
  <2>3. stage[m] = "queued"
    BY <2>1 DEF DispatchInv, WellDispatched
  <2>4. \A x \in Msgs : stage[x] = "sent" => stage'[x] = "sent"
    BY <1>1, <2>1, <2>3
  <2> QED
    BY <1>4, <2>1, <2>2, <2>4
<1>6. ASSUME NEW t \in Threads, NEW m \in Msgs, UpdateQueuedTurn(t, m)
      PROVE  RetryInv'
  <2>1. q[slot[t]].items \in Seq(Msgs)
    BY SlotType, FieldTypes
  <2> QED
    BY <1>4, <1>6, <2>1 DEF UpdateQueuedTurn
<1>7. ASSUME NEW t \in Threads, NEW m \in Msgs, ReorderQueuedTurn(t, m)
      PROVE  RetryInv'
  <2>1. PICK i \in DOMAIN q[slot[t]].items :
          Edit(t, m, InsertAt(Without(q[slot[t]].items, m), i, m), files) /\ UNCHANGED stage
    BY <1>7 DEF ReorderQueuedTurn
  <2>2. Has(q[slot[t]].items, m)
    BY <2>1 DEF Edit
  <2>3. /\ InsertAt(Without(q[slot[t]].items, m), i, m) \in Seq(Msgs)
        /\ \A x : Has(InsertAt(Without(q[slot[t]].items, m), i, m), x) <=> Has(q[slot[t]].items, x)
    BY <2>2, EditedItems
  <2> QED
    BY <1>4, <2>1, <2>3
<1>8. ASSUME NEW m \in Msgs, QueueRefused(m)
      PROVE  RetryInv'
  <2>1. /\ stage[m] = "new" /\ stage' = [stage EXCEPT ![m] = "refused"]
        /\ UNCHANGED <<q, call, sent, accepted, edits>>
    BY <1>8 DEF QueueRefused
  <2>2. \A x \in Msgs : MayGo(x)' => MayGo(x)
    BY <1>1, <2>1 DEF MayGo
  <2> QED
    BY <1>1, <2>1, <2>2, RetryStay
<1>9. ASSUME NEW m \in Msgs, RemoveAttachment(m) \/ PurgeExpiredUpload(m)
      PROVE  RetryInv'
  BY <1>9, RetryUntouched DEF RemoveAttachment, PurgeExpiredUpload, historyVars
<1>10. ASSUME NEW t \in Threads, CreateThread(t) \/ OpenThread(t)
       PROVE  RetryInv'
  BY <1>10, RetryUntouched DEF CreateThread, OpenThread, historyVars
<1>11. ASSUME NEW t \in Threads, NEW n \in Turns, SteerTurn(t, n)
       PROVE  RetryInv'
  <2>1. q' = Heard(q, slot[t], n, t) /\ UNCHANGED <<call, stage, sent, accepted, edits>>
    BY <1>11 DEF SteerTurn
  <2>2. n \in 0..MaxTurn /\ slot[t] \in Objs
    BY <1>11, SlotType, ConstantsAssumption DEF Turns, ConstantsAssumption
  <2> DEFINE R == Heard(q, slot[t], n, t)
  <2>3. \A o \in Objs : R[o].items = q[o].items /\ R[o].blocked = q[o].blocked
    <3>1. /\ R[slot[t]].items = q[slot[t]].items /\ R[slot[t]].blocked = q[slot[t]].blocked
          /\ \A p \in Objs : p # slot[t] => R[p] = q[p]
      BY <1>1, <2>2, HeardFields
    <3> QED
      BY <3>1
  <2> QED
    BY <2>1, <2>3, RetryUntouched
<1> QED
  BY <1>2, <1>3, <1>5, <1>6, <1>7, <1>8, <1>9, <1>10, <1>11 DEF ClientStep

LEMMA RetryCallStep ==
  ASSUME TypeOK, DispatchInv, DispatchInv', RetryInv, NEW m \in Msgs, CallStep(m)
  PROVE  RetryInv'
<1>1. /\ q \in [Objs -> QueueState] /\ call \in [Msgs -> CallState]
      /\ stage \in [Msgs -> Stages] /\ sent \in [Msgs -> Nat]
  BY DEF TypeOK
<1>2. ASSUME call[m].pc \in {"usage", "resume"}, call' = [call EXCEPT ![m].pc = "sent"],
             sent' = [sent EXCEPT ![m] = @ + 1], UNCHANGED <<q, stage, accepted, edits>>
      PROVE  RetryInv'
  <2>1. call[m] \in Calls
    BY <1>2, CallTypes
  <2>2. call'[m].pc = "sent" /\ \A x \in Msgs : x # m => call'[x] = call[x]
    BY <1>1, <1>2, <2>1 DEF Calls
  <2>3. stage[m] \in {"queued", "direct"}
    BY <1>2 DEF DispatchInv, WellDispatched
  <2>4. MayGo(m) /\ ~MayGo(m)'
    BY <1>2, <2>2, <2>3 DEF MayGo
  <2>5. \A x \in Msgs : x # m => /\ MayGo(x)' => MayGo(x)
                                 /\ sent'[x] = sent[x]
    BY <1>1, <1>2, <2>2 DEF MayGo
  <2>6. sent'[m] = sent[m] + 1
    BY <1>1, <1>2
  <2>7. \A x \in Msgs : sent[x] \in Nat /\ accepted[x] \in Nat /\ edits \in Nat
    BY ConstantsAssumption DEF TypeOK, ConstantsAssumption
  <2> SUFFICES ASSUME NEW x \in Msgs
               PROVE  /\ sent'[x] + (IF MayGo(x)' THEN 1 ELSE 0) <= 1 + edits'
                      /\ accepted'[x] + (IF call'[x].pc = "sent" THEN 1 ELSE 0) <= sent'[x]
                      /\ \/ "ackLoss" \in Faults
                         \/ accepted'[x] <= IF call'[x].pc = "accepted" \/ stage'[x] = "sent"
                                            THEN 1 ELSE 0
    BY DEF RetryInv
  <2>8. /\ sent[x] + (IF MayGo(x) THEN 1 ELSE 0) <= 1 + edits
        /\ accepted[x] + (IF call[x].pc = "sent" THEN 1 ELSE 0) <= sent[x]
        /\ "ackLoss" \in Faults \/ accepted[x] <= IF call[x].pc = "accepted" \/ stage[x] = "sent"
                                                  THEN 1 ELSE 0
    BY DEF RetryInv
  <2>9. CASE x = m
    BY <1>2, <2>2, <2>4, <2>6, <2>7, <2>8, <2>9
  <2>10. CASE x # m
    BY <1>2, <2>2, <2>5, <2>7, <2>8, <2>10
  <2> QED
    BY <2>9, <2>10
<1>3. ASSUME UsageAllows(m) \/ Resumed(m)
      PROVE  RetryInv'
  <2>1. CASE /\ call[m].pc = "usage" /\ call' = [call EXCEPT ![m].pc = "resume"]
             /\ UNCHANGED <<q, stage, sent, accepted, edits>>
    <3>1. call[m] \in Calls
      BY <2>1, CallTypes
    <3>2. call'[m].pc = "resume" /\ \A x \in Msgs : x # m => call'[x] = call[x]
      BY <1>1, <2>1, <3>1 DEF Calls
    <3>3. \A x \in Msgs : MayGo(x)' => MayGo(x)
      BY <2>1, <3>2 DEF MayGo
    <3> QED
      BY <2>1, <3>2, <3>3, RetryStay
  <2> QED
    BY <1>2, <1>3, <2>1 DEF UsageAllows, Resumed
<1>4. ASSUME TurnStarted(m)
      PROVE  RetryInv'
  <2>1. /\ call' = [call EXCEPT ![m] = NoCall] /\ stage' = [stage EXCEPT ![m] = "sent"]
        /\ UNCHANGED <<sent, accepted, edits>>
    BY <1>4 DEF TurnStarted
  <2>2. \A p \in Objs : /\ q'[p].items = IF p = call[m].obj /\ call[m].drain
                                         THEN Without(q[p].items, m) ELSE q[p].items
                        /\ q'[p].blocked = q[p].blocked
    BY <1>4, TurnStartedFields
  <2>3. \A p \in Objs, x \in Msgs : Has(q'[p].items, x) => Has(q[p].items, x)
    <3>1. \A p \in Objs : q[p].items \in Seq(Msgs)
      BY FieldTypes DEF TypeOK
    <3> QED
      BY <2>2, <3>1, WithoutProperties
  <2>4. \A p \in Objs : ~Has(q'[p].items, m)
    <3>1. stage'[m] # "queued"
      BY <1>1, <2>1
    <3> QED
      BY <3>1 DEF DispatchInv, WellDispatched
  <2>5. call'[m].pc = "idle" /\ stage'[m] = "sent"
        /\ \A x \in Msgs : x # m => call'[x] = call[x] /\ stage'[x] = stage[x]
    BY <1>1, <2>1 DEF NoCall
  <2>6. \A x \in Msgs : MayGo(x)' => MayGo(x)
    BY <2>2, <2>3, <2>4, <2>5 DEF MayGo
  <2> QED
    BY <2>1, <2>5, <2>6, RetryStay
<1>5. ASSUME DrainFailed(m)
      PROVE  RetryInv'
  <2>1. /\ call' = [call EXCEPT ![m] = NoCall] /\ UNCHANGED <<stage, sent, accepted, edits>>
        /\ call[m].drain /\ CanFail(m)
    BY <1>5 DEF DrainFailed, historyVars
  <2>2. /\ call[m].pc # "idle" /\ call[m].obj \in Objs /\ Has(q[call[m].obj].items, m)
        /\ q'[call[m].obj].blocked
        /\ \A p \in Objs : /\ \A x : Has(q'[p].items, x) <=> Has(q[p].items, x)
                           /\ p # call[m].obj => q'[p].blocked = q[p].blocked
    BY <1>5, DrainFailedFields
  <2>3. stage[m] = "queued"
    BY <2>2 DEF DispatchInv, WellDispatched
  <2>4. \A p \in Objs : Has(q[p].items, m) => p = call[m].obj
    BY <2>2 DEF DispatchInv, WellDispatched
  <2>5. call'[m].pc = "idle" /\ \A x \in Msgs : x # m => call'[x] = call[x]
    BY <1>1, <2>1 DEF NoCall
  <2>6. \A x \in Msgs : MayGo(x)' => MayGo(x)
    BY <2>1, <2>2, <2>3, <2>4, <2>5 DEF MayGo
  <2>7. call[m].pc = "accepted" => "ackLoss" \in Faults
    BY <2>1 DEF CanFail
  <2> QED
    BY <2>1, <2>3, <2>5, <2>6, <2>7, RetryStay
<1>6. ASSUME DirectFailed(m)
      PROVE  RetryInv'
  <2> DEFINE C == [call EXCEPT ![m] = NoCall]
             y == slot[call[m].thread]
             s == q[y]
  <2>1. /\ call[m].thread \in Threads /\ y \in Objs /\ call[m].pc # "idle" /\ ~call[m].drain
        /\ \A p \in Objs : q'[p].items = q[p].items /\ (q[p].blocked => q'[p].blocked)
        /\ StartsHead(C, call', s, call[m].thread, y)
    BY <1>6, DirectFailedFields
  <2>2. /\ stage' = [stage EXCEPT ![m] = "refused"] /\ UNCHANGED <<sent, accepted, edits>>
        /\ CanFail(m)
    BY <1>6 DEF DirectFailed
  <2>3. C \in [Msgs -> CallState]
    BY <1>1, ObjTypes
  <2>4. stage[m] = "direct"
    BY <2>1 DEF DispatchInv, WellDispatched
  <2>5. call[m].pc # "accepted" \/ "ackLoss" \in Faults
    BY <2>2 DEF CanFail
  <2>6. \A x \in Msgs : \/ C[x] = call[x] /\ stage'[x] = stage[x]
                        \/ /\ C[x].pc = "idle" /\ stage[x] = "direct" /\ stage'[x] = "refused"
                           /\ call[x].pc # "accepted" \/ "ackLoss" \in Faults
    BY <1>1, <2>2, <2>4, <2>5 DEF NoCall
  <2>7. s.items = q[y].items /\ s.blocked = q[y].blocked /\ s.draining = q[y].draining
    OBVIOUS
  <2> HIDE DEF C, y, s
  <2> QED
    BY <2>1, <2>2, <2>3, <2>6, <2>7, RetryDrained
<1> QED
  BY <1>3, <1>4, <1>5, <1>6 DEF CallStep

LEMMA RetryPollStep ==
  ASSUME TypeOK, DispatchInv, RetryInv, NEW o \in Objs, PollStep(o)
  PROVE  RetryInv'
<1>1. ASSUME PollSeesTurn(o)
      PROVE  RetryInv'
  <2>1. poll[o].thread \in Threads /\ poll[o].seen \in Run
    BY <1>1, PollTypes DEF PollSeesTurn
  <2>2. PICK a \in Answers(poll[o].seen, poll[o].thread) :
          q' = Learnt(o, a.turn, poll[o].thread)
    BY <1>1 DEF PollSeesTurn
  <2>3. \A p \in Objs : /\ Learnt(o, a.turn, poll[o].thread)[p].items = q[p].items
                        /\ Learnt(o, a.turn, poll[o].thread)[p].blocked = q[p].blocked
    BY <2>1, AnswerTypes, LearntFields
  <2>4. UNCHANGED <<call, stage, sent, accepted, edits>>
    BY <1>1 DEF PollSeesTurn, historyVars
  <2> QED
    BY <2>2, <2>3, <2>4, RetryUntouched
<1>2. ASSUME PollSeesIdle(o) \/ StatusIdle(o)
      PROVE  RetryInv'
  <2>1. PICK x \in {o, slot[poll[o].thread]} : poll[o].pc # "idle" /\ PollGoesOn(o, x)
    BY <1>2 DEF PollSeesIdle, StatusIdle
  <2> DEFINE t == poll[o].thread
             y == slot[t]
             a == IF x = y THEN NoTurn ELSE q[y].activeTurn
             s == [q[y] EXCEPT !.activeTurn = a]
  <2>2. t \in Threads /\ y \in Objs /\ x \in Objs
    <3>1. t \in Threads /\ y \in Objs
      BY <2>1, PollPlace
    <3> QED
      BY <2>1, <3>1
  <2>3. /\ \A p \in Objs : q'[p].items = q[p].items /\ (q[p].blocked => q'[p].blocked)
        /\ StartsHead(call, call', s, t, y)
    BY <2>1, <2>2, PollGoesOnFields
  <2>4. UNCHANGED <<stage, sent, accepted, edits>>
    BY <2>1 DEF PollGoesOn, historyVars
  <2>5. s.items = q[y].items /\ s.blocked = q[y].blocked /\ s.draining = q[y].draining
    BY <2>2 DEF TypeOK, QueueState
  <2>6. call \in [Msgs -> CallState]
    BY DEF TypeOK
  <2> HIDE DEF s, y, t
  <2> QED
    BY <2>2, <2>3, <2>4, <2>5, <2>6, RetryDrained
<1>3. ASSUME PollFallsBack(o) \/ StatusSettlesNothing(o)
      PROVE  RetryInv'
  BY <1>3, RetryUntouched DEF PollFallsBack, StatusSettlesNothing, historyVars
<1> QED
  BY <1>1, <1>2, <1>3 DEF PollStep

LEMMA RetryThreadStep ==
  ASSUME TypeOK, DispatchInv, RetryInv, NEW t \in Threads, ThreadStep(t)
  PROVE  RetryInv'
<1>1. q \in [Objs -> QueueState] /\ slot[t] \in Objs /\ q[slot[t]] \in QueueState
  BY SlotType DEF TypeOK
<1>2. NoTurn \in 0..MaxTurn
  BY ConstantsAssumption DEF NoTurn, ConstantsAssumption
<1>3. ASSUME NoteStarted(t)
      PROVE  RetryInv'
  <2> DEFINE R == Heard(q, slot[t], Head(notes[t]).turn, t)
  <2>1. \A o \in Objs : R[o].items = q[o].items /\ R[o].blocked = q[o].blocked
    <3>1. /\ R[slot[t]].items = q[slot[t]].items /\ R[slot[t]].blocked = q[slot[t]].blocked
          /\ \A p \in Objs : p # slot[t] => R[p] = q[p]
      BY <1>1, <1>3, NoteTypes, HeardFields DEF NoteStarted
    <3> QED
      BY <3>1
  <2>2. q' = R /\ UNCHANGED <<call, stage, sent, accepted, edits>>
    BY <1>3 DEF NoteStarted, historyVars
  <2> HIDE DEF R
  <2> QED
    BY <2>1, <2>2, RetryUntouched
<1>4. ASSUME NoteCompleted(t)
      PROVE  RetryInv'
  <2> DEFINE n == IF q[slot[t]].activeTurn = Head(notes[t]).turn THEN NoTurn
                  ELSE q[slot[t]].activeTurn
  <2>1. n \in 0..MaxTurn
    <3>1. q[slot[t]].activeTurn \in 0..MaxTurn
      BY <1>1, FieldTypes
    <3> QED
      BY <1>2, <3>1
  <2>2. Publish(t, [q[slot[t]] EXCEPT !.activeTurn = n], files')
        /\ UNCHANGED <<stage, sent, accepted, edits>>
    BY <1>4 DEF NoteCompleted, historyVars
  <2> HIDE DEF n
  <2> QED
    BY <2>1, <2>2, RetryNews
<1>5. ASSUME SynchronizeActiveTurn(t)
      PROVE  RetryInv'
  <2>1. read[t].seen \in Run
    BY DEF TypeOK, ReadState
  <2>2. PICK a \in Answers(read[t].seen, t) :
          Publish(t, [q[slot[t]] EXCEPT !.activeTurn = IF a.active THEN a.turn ELSE NoTurn],
                  files')
    BY <1>5 DEF SynchronizeActiveTurn
  <2>3. (IF a.active THEN a.turn ELSE NoTurn) \in 0..MaxTurn
    BY <1>2, <2>1, AnswerTypes
  <2>4. UNCHANGED <<stage, sent, accepted, edits>>
    BY <1>5 DEF SynchronizeActiveTurn, historyVars
  <2> QED
    BY <2>2, <2>3, <2>4, RetryNews
<1>6. ASSUME PollQueue(t) \/ ReadFailed(t)
      PROVE  RetryInv'
  BY <1>6, RetryUntouched DEF PollQueue, ReadFailed, historyVars
<1> QED
  BY <1>3, <1>4, <1>5, <1>6 DEF ThreadStep

LEMMA RetrySteered ==
  ASSUME TypeOK, RetryInv, SteerAccepted \/ SteerFailed
  PROVE  RetryInv'
<1>1. CASE SteerAccepted
  BY <1>1, RetryUntouched DEF SteerAccepted, historyVars
<1>2. CASE SteerFailed
  <2>1. steer.thread \in Threads /\ steer.obj \in Objs /\ steer.previous \in 0..MaxTurn
    BY <1>2, SteerTypes DEF SteerFailed
  <2>2. q' = Told(steer.obj, steer.previous, steer.thread)
        /\ UNCHANGED <<call, stage, sent, accepted, edits>>
    BY <1>2 DEF SteerFailed, Told, historyVars
  <2>3. \A p \in Objs : /\ Told(steer.obj, steer.previous, steer.thread)[p].items = q[p].items
                        /\ Told(steer.obj, steer.previous, steer.thread)[p].blocked = q[p].blocked
    BY <2>1, ToldFields
  <2> QED
    BY <2>2, <2>3, RetryUntouched
<1> QED
  BY <1>1, <1>2

LEMMA RetryOfficialStep ==
  ASSUME TypeOK, DispatchInv, RetryInv, OfficialStep
  PROVE  RetryInv'
<1>1. ASSUME NEW t \in Threads, OfficialTurn(t) \/ CompleteTurn(t) \/ LoseNote(t)
      PROVE  RetryInv'
  BY <1>1, RetryUntouched DEF OfficialTurn, CompleteTurn, LoseNote, serverVars, historyVars
<1>2. ASSUME NEW m \in Msgs, AcceptTurn(m)
      PROVE  RetryInv'
  <2>1. call[m] \in Calls /\ call \in [Msgs -> CallState] /\ call[m].pc = "sent"
    BY <1>2, CallTypes DEF AcceptTurn, TypeOK
  <2>2. PICK c \in Threads :
          call' = [call EXCEPT ![m].pc = "accepted", ![m].turn = turns', ![m].canon = c]
    BY <1>2 DEF AcceptTurn
  <2>3. call'[m].pc = "accepted" /\ \A x \in Msgs : x # m => call'[x] = call[x]
    BY <2>1, <2>2 DEF Calls
  <2>4. /\ UNCHANGED <<q, stage, sent, edits>> /\ accepted' = [accepted EXCEPT ![m] = @ + 1]
    BY <1>2 DEF AcceptTurn
  <2>5. \A x \in Msgs : MayGo(x)' => MayGo(x)
    BY <2>3, <2>4 DEF MayGo
  <2>6. accepted'[m] = accepted[m] + 1 /\ \A x \in Msgs : x # m => accepted'[x] = accepted[x]
    BY <2>4 DEF TypeOK
  <2>7. stage[m] # "sent"
    BY <2>1 DEF DispatchInv, WellDispatched
  <2>8. \A x \in Msgs : sent[x] \in Nat /\ accepted[x] \in Nat /\ edits \in Nat
    BY ConstantsAssumption DEF TypeOK, ConstantsAssumption
  <2> SUFFICES ASSUME NEW x \in Msgs
               PROVE  /\ sent'[x] + (IF MayGo(x)' THEN 1 ELSE 0) <= 1 + edits'
                      /\ accepted'[x] + (IF call'[x].pc = "sent" THEN 1 ELSE 0) <= sent'[x]
                      /\ \/ "ackLoss" \in Faults
                         \/ accepted'[x] <= IF call'[x].pc = "accepted" \/ stage'[x] = "sent"
                                            THEN 1 ELSE 0
    BY DEF RetryInv
  <2>9. /\ sent[x] + (IF MayGo(x) THEN 1 ELSE 0) <= 1 + edits
        /\ accepted[x] + (IF call[x].pc = "sent" THEN 1 ELSE 0) <= sent[x]
        /\ "ackLoss" \in Faults \/ accepted[x] <= IF call[x].pc = "accepted" \/ stage[x] = "sent"
                                                  THEN 1 ELSE 0
    BY DEF RetryInv
  <2>10. CASE x = m
    BY <2>1, <2>3, <2>4, <2>5, <2>6, <2>7, <2>8, <2>9, <2>10
  <2>11. CASE x # m
    BY <2>3, <2>4, <2>5, <2>6, <2>8, <2>9, <2>11
  <2> QED
    BY <2>10, <2>11
<1> QED
  BY <1>1, <1>2 DEF OfficialStep

LEMMA RetryNext ==
  ASSUME TypeOK, DispatchInv, DispatchInv', RetryInv, [Next]_vars
  PROVE  RetryInv'
<1>1. CASE UNCHANGED vars
  BY <1>1, RetryUntouched DEF vars, serverVars, historyVars
<1>2. CASE Next
  BY <1>2, RetryClientStep, RetrySteered, RetryCallStep, RetryPollStep, RetryThreadStep,
     RetryOfficialStep DEF Next
<1> QED
  BY <1>1, <1>2

\* A message is sent again only after an edit of the queue and, unless an answer
\* got lost, runs once at most: no poll, notification, refused direct start or
\* migration repeats a start that failed.
THEOREM RetriesFollowEdits == Spec => []RetriedOnlyAfterEdit
<1>1. Init => RetryInv
  BY ConstantsAssumption DEF Init, RetryInv, MayGo, NoCall, EmptyQueue, ConstantsAssumption
<1>2. TypeOK /\ DispatchInv /\ DispatchInv' /\ RetryInv /\ [Next]_vars => RetryInv'
  BY RetryNext
<1>3. TypeOK /\ RetryInv => RetriedOnlyAfterEdit
  <2> SUFFICES ASSUME TypeOK, RetryInv, NEW m \in Msgs
               PROVE  /\ sent[m] <= 1 + edits
                      /\ accepted[m] <= IF "ackLoss" \in Faults THEN 1 + edits ELSE 1
    BY DEF RetriedOnlyAfterEdit
  <2>1. sent[m] \in Nat /\ accepted[m] \in Nat /\ edits \in Nat
    BY ConstantsAssumption DEF TypeOK, ConstantsAssumption
  <2>2. /\ sent[m] + (IF MayGo(m) THEN 1 ELSE 0) <= 1 + edits
        /\ accepted[m] + (IF call[m].pc = "sent" THEN 1 ELSE 0) <= sent[m]
        /\ "ackLoss" \in Faults \/ accepted[m] <= IF call[m].pc = "accepted" \/ stage[m] = "sent"
                                                  THEN 1 ELSE 0
    BY DEF RetryInv
  <2> QED
    BY <2>1, <2>2
<1> QED
  BY <1>1, <1>2, <1>3, TypeCorrect, DispatchSafe, PTL DEF Spec

-----------------------------------------------------------------------------
(* Who polls a queue                                                       *)

\* A state object in use where S gives each thread its queue: the second one of a
\* thread is that thread's queue.
GivenOut(S, o) == o.gen = 1 => S[o.thread] = o

\* Any other thread than t that object o is the queue of got it in a migration.
MovedFrom(S, o, t) == \A u \in Threads : S[u] = o /\ u # t => S[u].thread # u

\* Everything that refers to a state object, and every changed object.
ObjectsGiven ==
  /\ \A o \in Objs : q[o] # EmptyQueue => GivenOut(slot, o)
  /\ \A o \in Objs : poll[o].pc # "idle" => GivenOut(slot, o) /\ MovedFrom(slot, o, poll[o].thread)
  /\ steer.asked => GivenOut(slot, steer.obj) /\ MovedFrom(slot, steer.obj, steer.thread)
  /\ \A m \in Msgs : call[m].pc # "idle" => GivenOut(slot, call[m].obj)
  /\ \A m \in Msgs : call[m].pc = "accepted" => call[m].turn # NoTurn

\* A thread with a queue of its own has an interval exactly when it needs one.  One
\* that got its queue from a draft is polled by the interval of the object it had
\* before, which heard of the first turn and which no handler touches any more.
Polled(t) ==
  IF slot[t].thread = t
  THEN /\ q[slot[t]].watcher \in {NoThread, t}
       /\ Live(q[slot[t]]) => q[slot[t]].watcher = t
  ELSE q[Home(t)].watcher = t /\ \A u \in Threads : slot[u] # Home(t)

PolledInv == ObjectsGiven /\ \A t \in Threads : Polled(t)

LEMMA SlotGiven ==
  ASSUME TypeOK, PlacesInv, NEW t \in Threads
  PROVE  GivenOut(slot, slot[t]) /\ MovedFrom(slot, slot[t], t)
BY DEF PlacesInv, SlotsApart, GivenOut, MovedFrom

\* The steps that move no queue: each interval is refreshed for its own thread or
\* left alone, and new calls, polls and steers refer to queues of threads.
LEMMA PolledStay ==
  ASSUME TypeOK, PlacesInv, PolledInv, UNCHANGED slot,
         \A t \in Threads : slot[t].thread = t =>
           \/ /\ q'[slot[t]].watcher = q[slot[t]].watcher
              /\ Live(q'[slot[t]]) => Live(q[slot[t]])
           \/ q'[slot[t]].watcher = IF ~Live(q'[slot[t]]) THEN NoThread
                                    ELSE IF q[slot[t]].watcher = NoThread THEN t
                                    ELSE q[slot[t]].watcher,
         \A p \in Objs : (\A t \in Threads : slot[t] # p) => q'[p].watcher = q[p].watcher,
         \A p \in Objs : q'[p] = q[p] \/ GivenOut(slot, p),
         \A x \in Msgs : call'[x].pc # "idle" => \/ call[x].pc # "idle" /\ call'[x].obj = call[x].obj
                                                 \/ \E t \in Threads : call'[x].obj = slot[t],
         \A x \in Msgs : call'[x].pc = "accepted" => call'[x].turn # NoTurn,
         \A o \in Objs : poll'[o].pc # "idle" =>
           \/ poll[o].pc # "idle" /\ poll'[o].thread = poll[o].thread
           \/ poll'[o].thread \in Threads /\ slot[poll'[o].thread] = o,
         \/ steer' = steer
         \/ steer'.asked => steer'.thread \in Threads /\ steer'.obj = slot[steer'.thread]
  PROVE  PolledInv'
<1>1. \A t \in Threads : GivenOut(slot, slot[t]) /\ MovedFrom(slot, slot[t], t)
  BY SlotGiven
<1>3. ObjectsGiven'
  <2>1. \A o \in Objs : q'[o] # EmptyQueue => GivenOut(slot', o)
    BY DEF PolledInv, ObjectsGiven
  <2>2. \A o \in Objs : poll'[o].pc # "idle" =>
          GivenOut(slot', o) /\ MovedFrom(slot', o, poll'[o].thread)
    BY <1>1 DEF PolledInv, ObjectsGiven
  <2>3. steer'.asked => GivenOut(slot', steer'.obj) /\ MovedFrom(slot', steer'.obj, steer'.thread)
    BY <1>1 DEF PolledInv, ObjectsGiven
  <2>4. \A x \in Msgs : call'[x].pc # "idle" => GivenOut(slot', call'[x].obj)
    BY <1>1 DEF PolledInv, ObjectsGiven
  <2> QED
    BY <2>1, <2>2, <2>3, <2>4 DEF ObjectsGiven
<1>4. ASSUME NEW t \in Threads
      PROVE  Polled(t)'
  <2>1. Polled(t)
    BY DEF PolledInv
  <2>2. CASE slot[t].thread = t
    <3>1. q[slot[t]].watcher \in {NoThread, t} /\ (Live(q[slot[t]]) => q[slot[t]].watcher = t)
      BY <2>1, <2>2 DEF Polled
    <3> DEFINE w == q'[slot[t]]
    <3>2. w.watcher \in {NoThread, t} /\ (Live(w) => w.watcher = t)
      BY <2>2, <3>1
    <3> HIDE DEF w
    <3> QED
      BY <2>2, <3>2 DEF Polled, w
  <2>3. CASE slot[t].thread # t
    <3>1. q[Home(t)].watcher = t /\ \A u \in Threads : slot[u] # Home(t)
      BY <2>1, <2>3 DEF Polled
    <3>2. Home(t) \in Objs
      BY ObjTypes DEF Home
    <3>3. q'[Home(t)].watcher = t
      BY <3>1, <3>2
    <3> QED
      BY <2>3, <3>1, <3>3 DEF Polled, Home
  <2> QED
    BY <2>2, <2>3
<1> QED
  BY <1>3, <1>4 DEF PolledInv

\* The same when one queue at most, that of thread u, has its interval refreshed
\* and no other queue of a thread's own gets work.
LEMMA PolledRefreshed ==
  ASSUME TypeOK, PlacesInv, PolledInv, UNCHANGED slot, NEW u \in Threads,
         \A p \in Objs : p # slot[u] => q'[p].watcher = q[p].watcher,
         \A t \in Threads : slot[t].thread = t /\ t # u /\ Live(q'[slot[t]]) => Live(q[slot[t]]),
         \/ /\ q'[slot[u]].watcher = q[slot[u]].watcher
            /\ Live(q'[slot[u]]) => Live(q[slot[u]])
         \/ q'[slot[u]].watcher = IF ~Live(q'[slot[u]]) THEN NoThread
                                  ELSE IF q[slot[u]].watcher = NoThread THEN u
                                  ELSE q[slot[u]].watcher,
         \A p \in Objs : q'[p] = q[p] \/ GivenOut(slot, p),
         \A x \in Msgs : call'[x].pc # "idle" => \/ call[x].pc # "idle" /\ call'[x].obj = call[x].obj
                                                 \/ \E t \in Threads : call'[x].obj = slot[t],
         \A x \in Msgs : call'[x].pc = "accepted" => call'[x].turn # NoTurn,
         \A o \in Objs : poll'[o].pc # "idle" =>
           \/ poll[o].pc # "idle" /\ poll'[o].thread = poll[o].thread
           \/ poll'[o].thread \in Threads /\ slot[poll'[o].thread] = o,
         \/ steer' = steer
         \/ steer'.asked => steer'.thread \in Threads /\ steer'.obj = slot[steer'.thread]
  PROVE  PolledInv'
<1>1. \A t \in Threads : t # u => slot[t] # slot[u] /\ slot[t] \in Objs
  BY DEF PlacesInv, SlotsApart, TypeOK
<1>2. \A t \in Threads : slot[t].thread = t =>
        \/ /\ q'[slot[t]].watcher = q[slot[t]].watcher
           /\ Live(q'[slot[t]]) => Live(q[slot[t]])
        \/ q'[slot[t]].watcher = IF ~Live(q'[slot[t]]) THEN NoThread
                                 ELSE IF q[slot[t]].watcher = NoThread THEN t
                                 ELSE q[slot[t]].watcher
  <2> SUFFICES ASSUME NEW t \in Threads, slot[t].thread = t
               PROVE  \/ /\ q'[slot[t]].watcher = q[slot[t]].watcher
                         /\ Live(q'[slot[t]]) => Live(q[slot[t]])
                      \/ q'[slot[t]].watcher = IF ~Live(q'[slot[t]]) THEN NoThread
                                               ELSE IF q[slot[t]].watcher = NoThread THEN t
                                               ELSE q[slot[t]].watcher
    OBVIOUS
  <2>1. CASE t = u
    BY <2>1
  <2>2. CASE t # u
    BY <1>1, <2>2
  <2> QED
    BY <2>1, <2>2
<1>3. \A p \in Objs : (\A t \in Threads : slot[t] # p) => q'[p].watcher = q[p].watcher
  OBVIOUS
<1> QED
  BY <1>2, <1>3, PolledStay

\* A handler that publishes the queue of thread u.
LEMMA PolledPublished ==
  ASSUME TypeOK, PlacesInv, PolledInv, UNCHANGED <<slot, poll, steer>>,
         NEW u \in Threads, NEW s \in QueueState, NEW up, Publish(u, s, up),
         s.watcher = q[slot[u]].watcher
  PROVE  PolledInv'
<1>1. /\ q'[slot[u]].items = s.items /\ q'[slot[u]].activeTurn = s.activeTurn
      /\ q'[slot[u]].watcher = IF ~Live(s) THEN NoThread
                               ELSE IF s.watcher = NoThread THEN u ELSE s.watcher
      /\ \A o \in Objs : o # slot[u] => q'[o] = q[o]
      /\ StartsHead(call, call', s, u, slot[u])
  BY PublishFields
<1>2. call \in [Msgs -> CallState] /\ slot[u] \in Objs /\ GivenOut(slot, slot[u])
  BY SlotGiven DEF TypeOK
<1>3. Live(q'[slot[u]]) <=> Live(s)
  BY <1>1 DEF Live
<1>4. q'[slot[u]].watcher = IF ~Live(q'[slot[u]]) THEN NoThread
                            ELSE IF q[slot[u]].watcher = NoThread THEN u
                            ELSE q[slot[u]].watcher
  BY <1>1, <1>3
<1>5. \A x \in Msgs : call'[x] = call[x] \/ (call'[x].pc = "usage" /\ call'[x].obj = slot[u])
  BY <1>1, <1>2, StartsHeadCalls
<1>6. /\ \A x \in Msgs : call'[x].pc # "idle" =>
           \/ call[x].pc # "idle" /\ call'[x].obj = call[x].obj
           \/ \E t \in Threads : call'[x].obj = slot[t]
      /\ \A x \in Msgs : call'[x].pc = "accepted" => call'[x].turn # NoTurn
  BY <1>5 DEF PolledInv, ObjectsGiven
<1>7. \A o \in Objs : poll'[o].pc # "idle" =>
        \/ poll[o].pc # "idle" /\ poll'[o].thread = poll[o].thread
        \/ poll'[o].thread \in Threads /\ slot[poll'[o].thread] = o
  OBVIOUS
<1>8. /\ \A p \in Objs : p # slot[u] => q'[p].watcher = q[p].watcher
      /\ \A t \in Threads : slot[t].thread = t /\ t # u /\ Live(q'[slot[t]]) => Live(q[slot[t]])
      /\ \A p \in Objs : q'[p] = q[p] \/ GivenOut(slot, p)
  BY <1>1, <1>2 DEF PlacesInv, SlotsApart, TypeOK
<1> QED
  BY <1>4, <1>6, <1>7, <1>8, PolledRefreshed

\* News of an active turn for the queue of thread u.
LEMMA PolledHeard ==
  ASSUME TypeOK, PlacesInv, PolledInv, UNCHANGED <<slot, call, poll>>,
         NEW u \in Threads, NEW n \in 0..MaxTurn, q' = Heard(q, slot[u], n, u),
         \/ steer' = steer
         \/ steer'.asked => steer'.thread \in Threads /\ steer'.obj = slot[steer'.thread]
  PROVE  PolledInv'
<1> DEFINE R == Heard(q, slot[u], n, u)
<1>1. q \in [Objs -> QueueState] /\ slot[u] \in Objs /\ GivenOut(slot, slot[u])
  BY SlotGiven DEF TypeOK
<1>2. /\ \A p \in Objs : p # slot[u] => R[p] = q[p]
      /\ R[slot[u]].items = q[slot[u]].items /\ R[slot[u]].activeTurn = n
      /\ R[slot[u]].watcher = IF q[slot[u]].items = <<>> /\ n = NoTurn THEN NoThread
                              ELSE IF q[slot[u]].watcher = NoThread THEN u ELSE q[slot[u]].watcher
  BY <1>1, HeardFields
<1>3. q' = R
  OBVIOUS
<1> HIDE DEF R
<1>4. q'[slot[u]].watcher = IF ~Live(q'[slot[u]]) THEN NoThread
                            ELSE IF q[slot[u]].watcher = NoThread THEN u
                            ELSE q[slot[u]].watcher
  BY <1>2, <1>3 DEF Live
<1>5. /\ \A p \in Objs : p # slot[u] => q'[p].watcher = q[p].watcher
      /\ \A t \in Threads : slot[t].thread = t /\ t # u /\ Live(q'[slot[t]]) => Live(q[slot[t]])
      /\ \A p \in Objs : q'[p] = q[p] \/ GivenOut(slot, p)
  BY <1>1, <1>2, <1>3 DEF PlacesInv, SlotsApart, TypeOK
<1>6. /\ \A x \in Msgs : call'[x].pc # "idle" =>
           \/ call[x].pc # "idle" /\ call'[x].obj = call[x].obj
           \/ \E t \in Threads : call'[x].obj = slot[t]
      /\ \A x \in Msgs : call'[x].pc = "accepted" => call'[x].turn # NoTurn
  BY DEF PolledInv, ObjectsGiven
<1> QED
  BY <1>4, <1>5, <1>6, PolledRefreshed

\* State object x, which another thread than u can only have got in a migration,
\* is told that turn n is active, and the queue of thread u has its interval
\* refreshed.
LEMMA PolledTold ==
  ASSUME TypeOK, PlacesInv, PolledInv, UNCHANGED <<slot, call>>,
         NEW u \in Threads, NEW x \in Objs, NEW n \in 0..MaxTurn,
         q' = q \/ q' = Told(x, n, u), GivenOut(slot, x), MovedFrom(slot, x, u),
         \A o \in Objs : poll'[o].pc # "idle" => poll'[o] = poll[o],
         \/ steer' = steer
         \/ steer'.asked => steer'.thread \in Threads /\ steer'.obj = slot[steer'.thread]
  PROVE  PolledInv'
<1> DEFINE R == Told(x, n, u)
           a == IF x = slot[u] THEN n ELSE q[slot[u]].activeTurn
<1>1. slot[u] \in Objs /\ GivenOut(slot, slot[u])
  BY SlotGiven DEF TypeOK
<1>2. /\ \A p \in Objs : /\ R[p].items = q[p].items
                         /\ R[p].activeTurn = IF p = x THEN n ELSE q[p].activeTurn
                         /\ p # slot[u] => R[p].watcher = q[p].watcher
                         /\ p # slot[u] /\ p # x => R[p] = q[p]
      /\ R[slot[u]].watcher =
              IF q[slot[u]].items = <<>> /\ a = NoTurn THEN NoThread
              ELSE IF q[slot[u]].watcher = NoThread THEN u ELSE q[slot[u]].watcher
  BY ToldFields
<1> HIDE DEF R
<1>3. /\ \A p \in Objs : p # slot[u] => R[p].watcher = q[p].watcher
      /\ \A p \in Objs : R[p] = q[p] \/ GivenOut(slot, p)
  BY <1>1, <1>2
<1>4. \A t \in Threads : slot[t].thread = t /\ t # u /\ Live(R[slot[t]]) => Live(q[slot[t]])
  <2> SUFFICES ASSUME NEW t \in Threads, slot[t].thread = t, t # u, Live(R[slot[t]])
               PROVE  Live(q[slot[t]])
    OBVIOUS
  <2>1. slot[t] # x /\ slot[t] # slot[u] /\ slot[t] \in Objs
    BY DEF MovedFrom, PlacesInv, SlotsApart, TypeOK
  <2> QED
    BY <1>2, <2>1
<1>5. R[slot[u]].watcher = IF ~Live(R[slot[u]]) THEN NoThread
                           ELSE IF q[slot[u]].watcher = NoThread THEN u
                           ELSE q[slot[u]].watcher
  BY <1>1, <1>2 DEF Live
<1>6. /\ \A m \in Msgs : call'[m].pc # "idle" =>
           \/ call[m].pc # "idle" /\ call'[m].obj = call[m].obj
           \/ \E t \in Threads : call'[m].obj = slot[t]
      /\ \A m \in Msgs : call'[m].pc = "accepted" => call'[m].turn # NoTurn
      /\ \A o \in Objs : poll'[o].pc # "idle" =>
           \/ poll[o].pc # "idle" /\ poll'[o].thread = poll[o].thread
           \/ poll'[o].thread \in Threads /\ slot[poll'[o].thread] = o
  BY DEF PolledInv, ObjectsGiven
<1>7. CASE q' = q
  BY <1>6, <1>7, PolledRefreshed
<1>8. CASE q' = R
  BY <1>3, <1>4, <1>5, <1>6, <1>8, PolledRefreshed
<1> QED
  BY <1>7, <1>8 DEF R

\* Steps that leave the queues' work and intervals alone.
LEMMA PolledUntouched ==
  ASSUME TypeOK, PlacesInv, PolledInv, UNCHANGED <<slot, steer>>,
         \A p \in Objs : q'[p] = q[p] \/ ( /\ q'[p].watcher = q[p].watcher /\ GivenOut(slot, p)
                                           /\ Live(q'[p]) => Live(q[p]) ),
         \A x \in Msgs : call'[x].pc # "idle" => \/ call[x].pc # "idle" /\ call'[x].obj = call[x].obj
                                                 \/ \E t \in Threads : call'[x].obj = slot[t],
         \A x \in Msgs : call'[x].pc = "accepted" => call'[x].turn # NoTurn,
         \A o \in Objs : poll'[o].pc # "idle" =>
           \/ poll[o].pc # "idle" /\ poll'[o].thread = poll[o].thread
           \/ poll'[o].thread \in Threads /\ slot[poll'[o].thread] = o
  PROVE  PolledInv'
<1>1. \A t \in Threads : /\ q'[slot[t]].watcher = q[slot[t]].watcher
                         /\ Live(q'[slot[t]]) => Live(q[slot[t]])
  BY DEF TypeOK
<1>2. \A p \in Objs : q'[p].watcher = q[p].watcher /\ (q'[p] = q[p] \/ GivenOut(slot, p))
  OBVIOUS
<1> QED
  BY <1>1, <1>2, PolledStay

LEMMA PolledClientStep ==
  ASSUME TypeOK, PlacesInv, PolledInv, ClientStep
  PROVE  PolledInv'
<1>1. q \in [Objs -> QueueState] /\ call \in [Msgs -> CallState]
  BY DEF TypeOK
<1>2. ASSUME NEW t \in Threads, NEW m \in Msgs, StartTurn(t, m)
      PROVE  PolledInv'
  <2>1. /\ call' = [call EXCEPT ![m] = NewCall(t, slot[t], FALSE)]
        /\ q' = [q EXCEPT ![slot[t]].starting = TRUE]
        /\ UNCHANGED <<slot, poll, steer>> /\ GivenOut(slot, slot[t])
    BY <1>2, SlotGiven DEF StartTurn
  <2>2. \A p \in Objs : q'[p] = q[p] \/ ( /\ q'[p].watcher = q[p].watcher /\ GivenOut(slot, p)
                                          /\ Live(q'[p]) => Live(q[p]) )
    BY <1>1, <2>1 DEF QueueState, Live
  <2>3. call'[m].pc = "usage" /\ call'[m].obj = slot[t]
        /\ \A x \in Msgs : x # m => call'[x] = call[x]
    BY <1>1, <2>1 DEF NewCall
  <2>4. /\ \A x \in Msgs : call'[x].pc # "idle" =>
             \/ call[x].pc # "idle" /\ call'[x].obj = call[x].obj
             \/ \E u \in Threads : call'[x].obj = slot[u]
        /\ \A x \in Msgs : call'[x].pc = "accepted" => call'[x].turn # NoTurn
    BY <2>3 DEF PolledInv, ObjectsGiven
  <2> QED
    BY <2>1, <2>2, <2>4, PolledUntouched
<1>3. ASSUME NEW t \in Threads, NEW m \in Msgs, QueueTurn(t, m)
      PROVE  PolledInv'
  <2> DEFINE s == [q[slot[t]] EXCEPT !.items = Append(@, m)]
  <2>1. s \in QueueState /\ s.watcher = q[slot[t]].watcher
    <3>1. q[slot[t]].items \in Seq(Msgs) /\ q[slot[t]] \in QueueState
      BY SlotType, FieldTypes
    <3>2. Append(q[slot[t]].items, m) \in Seq(Msgs)
      BY <3>1, AppendProperties
    <3> QED
      BY <3>1, <3>2, FieldTypes DEF QueueState
  <2>2. Publish(t, s, files) /\ UNCHANGED <<slot, poll, steer>>
    BY <1>3 DEF QueueTurn
  <2> HIDE DEF s
  <2> QED
    BY <2>1, <2>2, PolledPublished
<1>4. ASSUME NEW t \in Threads, NEW m \in Msgs, NEW items \in Seq(Msgs), NEW up,
             Edit(t, m, items, up)
      PROVE  PolledInv'
  <2> DEFINE s == [q[slot[t]] EXCEPT !.items = items, !.blocked = FALSE]
  <2>1. s \in QueueState /\ s.watcher = q[slot[t]].watcher
    <3>1. q[slot[t]] \in QueueState
      BY SlotType
    <3> QED
      BY <3>1, FieldTypes DEF QueueState
  <2>2. Publish(t, s, up) /\ UNCHANGED <<slot, poll, steer>>
    BY <1>4 DEF Edit
  <2> HIDE DEF s
  <2> QED
    BY <2>1, <2>2, PolledPublished
<1>5. ASSUME NEW t \in Threads, NEW m \in Msgs, \/ RemoveQueuedTurn(t, m)
                                                \/ UpdateQueuedTurn(t, m)
                                                \/ ReorderQueuedTurn(t, m)
      PROVE  PolledInv'
  <2>1. q[slot[t]].items \in Seq(Msgs)
    BY SlotType, FieldTypes
  <2>2. Without(q[slot[t]].items, m) \in Seq(Msgs)
    BY <2>1, WithoutProperties
  <2>3. CASE RemoveQueuedTurn(t, m)
    BY <1>4, <2>2, <2>3 DEF RemoveQueuedTurn
  <2>4. CASE UpdateQueuedTurn(t, m)
    BY <1>4, <2>1, <2>4 DEF UpdateQueuedTurn
  <2>5. CASE ReorderQueuedTurn(t, m)
    <3>1. PICK i \in DOMAIN q[slot[t]].items :
            Edit(t, m, InsertAt(Without(q[slot[t]].items, m), i, m), files)
      BY <2>5 DEF ReorderQueuedTurn
    <3>2. Has(q[slot[t]].items, m)
      BY <3>1 DEF Edit
    <3>3. InsertAt(Without(q[slot[t]].items, m), i, m) \in Seq(Msgs)
      BY <3>2, EditedItems
    <3> QED
      BY <1>4, <3>1, <3>3
  <2> QED
    BY <1>5, <2>3, <2>4, <2>5
<1>6. ASSUME NEW m \in Msgs, QueueRefused(m) \/ RemoveAttachment(m) \/ PurgeExpiredUpload(m)
      PROVE  PolledInv'
  <2>1. UNCHANGED <<q, slot, call, poll, steer>>
    BY <1>6 DEF QueueRefused, RemoveAttachment, PurgeExpiredUpload
  <2>2. /\ \A x \in Msgs : call'[x].pc # "idle" =>
             \/ call[x].pc # "idle" /\ call'[x].obj = call[x].obj
             \/ \E u \in Threads : call'[x].obj = slot[u]
        /\ \A x \in Msgs : call'[x].pc = "accepted" => call'[x].turn # NoTurn
    BY <2>1 DEF PolledInv, ObjectsGiven
  <2> QED
    BY <2>1, <2>2, PolledUntouched
<1>7. ASSUME NEW t \in Threads, CreateThread(t) \/ OpenThread(t)
      PROVE  PolledInv'
  <2>1. UNCHANGED <<q, slot, call, poll, steer>>
    BY <1>7 DEF CreateThread, OpenThread
  <2>2. /\ \A x \in Msgs : call'[x].pc # "idle" =>
             \/ call[x].pc # "idle" /\ call'[x].obj = call[x].obj
             \/ \E u \in Threads : call'[x].obj = slot[u]
        /\ \A x \in Msgs : call'[x].pc = "accepted" => call'[x].turn # NoTurn
    BY <2>1 DEF PolledInv, ObjectsGiven
  <2> QED
    BY <2>1, <2>2, PolledUntouched
<1>8. ASSUME NEW t \in Threads, NEW n \in Turns, SteerTurn(t, n)
      PROVE  PolledInv'
  <2>1. /\ q' = Heard(q, slot[t], n, t) /\ UNCHANGED <<slot, call, poll>>
        /\ steer'.thread = t /\ steer'.obj = slot[t]
    BY <1>8 DEF SteerTurn
  <2>2. n \in 0..MaxTurn
    BY <1>8, ConstantsAssumption DEF Turns, ConstantsAssumption
  <2> QED
    BY <2>1, <2>2, PolledHeard
<1> QED
  BY <1>2, <1>3, <1>5, <1>6, <1>7, <1>8 DEF ClientStep

\* The end of the first turn's start gives the draft a new object and the thread
\* the draft's, and leaves the thread's old object to poll it.
LEMMA PolledTurnStarted ==
  ASSUME TypeOK, PlacesInv, PolledInv, NEW m \in Msgs, TurnStarted(m)
  PROVE  PolledInv'
<1> DEFINE c == call[m]
           t == c.thread
           n == c.canon
           old == slot[n]
           new == slot'[n]
<1>1. /\ t \in Threads /\ n \in Threads /\ c.obj \in Objs /\ c.pc = "accepted"
      /\ slot \in [Threads -> Objs] /\ call \in [Msgs -> CallState] /\ c.turn # NoTurn
  BY CallTypes DEF TurnStarted, TypeOK, PolledInv, ObjectsGiven
<1>2. /\ slot' = MovedSlot(t, n) /\ call' = [call EXCEPT ![m] = NoCall]
      /\ poll' = Released(m) /\ UNCHANGED steer
  BY DEF TurnStarted
<1>3. /\ old \in Objs /\ new \in Objs
      /\ \A p \in Objs :
              /\ q'[p].items = IF p = c.obj /\ c.drain THEN Without(q[p].items, m) ELSE q[p].items
              /\ q'[p].activeTurn = IF p \in {old, new} THEN c.turn ELSE q[p].activeTurn
              /\ p \notin {old, new} => q'[p].watcher = q[p].watcher
              /\ p \in {old, new} =>
                   q'[p].watcher = IF q[p].watcher = NoThread THEN n ELSE q[p].watcher
              /\ p \notin {old, new, c.obj} => q'[p] = q[p]
  BY <1>1, TurnStartedFields
<1>4. \A p \in Objs : p \notin {old, new} /\ Live(q'[p]) => Live(q[p])
  <2>1. \A p \in Objs : q[p].items = <<>> => Without(q[p].items, m) = <<>>
    BY DEF Without, Has
  <2> QED
    BY <1>3, <2>1 DEF Live
<1>5. \A x \in Msgs : call'[x].pc # "idle" => call'[x] = call[x]
  BY <1>1, <1>2 DEF NoCall
<1>6. \A o \in Objs : poll'[o].pc # "idle" => poll'[o] = poll[o]
  BY <1>2 DEF Released, NoPoll
<1>7. GivenOut(slot, c.obj) /\ GivenOut(slot, old)
  BY <1>1, SlotGiven DEF PolledInv, ObjectsGiven
<1>8. \A u \in Threads : Polled(u)
  BY DEF PolledInv
<1>9. q[old].watcher \in {NoThread, n} \/ slot[n].thread # n
  BY <1>1, <1>8 DEF Polled
<1>10. CASE t = n
  <2>1. slot' = slot /\ new = old
    BY <1>1, <1>2, <1>10 DEF MovedSlot
  <2> HIDE DEF c
  <2>2. \A p \in Objs : q'[p] = q[p] \/ GivenOut(slot, p)
    BY <1>3, <1>7, <2>1
  <2>3. \A p \in Objs : p # slot[n] => q'[p].watcher = q[p].watcher
    BY <1>3, <2>1
  <2>4. \A u \in Threads : slot[u].thread = u /\ u # n /\ Live(q'[slot[u]]) => Live(q[slot[u]])
    <3>1. \A u \in Threads : u # n => slot[u] # old /\ slot[u] \in Objs
      BY <1>1 DEF PlacesInv, SlotsApart
    <3> QED
      BY <1>4, <2>1, <3>1
  <2>5. q'[slot[n]].watcher = IF ~Live(q'[slot[n]]) THEN NoThread
                              ELSE IF q[slot[n]].watcher = NoThread THEN n
                              ELSE q[slot[n]].watcher
    BY <1>1, <1>3, <2>1 DEF Live
  <2>6. /\ \A x \in Msgs : call'[x].pc # "idle" =>
             \/ call[x].pc # "idle" /\ call'[x].obj = call[x].obj
             \/ \E u \in Threads : call'[x].obj = slot[u]
        /\ \A x \in Msgs : call'[x].pc = "accepted" => call'[x].turn # NoTurn
        /\ \A o \in Objs : poll'[o].pc # "idle" =>
             \/ poll[o].pc # "idle" /\ poll'[o].thread = poll[o].thread
             \/ poll'[o].thread \in Threads /\ slot[poll'[o].thread] = o
    BY <1>5, <1>6 DEF PolledInv, ObjectsGiven
  <2> HIDE DEF t, n
  <2> QED
    BY <1>1, <1>2, <2>1, <2>2, <2>3, <2>4, <2>5, <2>6, PolledRefreshed
<1>11. CASE t # n
  <2> DEFINE g == [thread |-> t, gen |-> 1]
  <2>1. /\ new = slot[t] /\ slot'[t] = g
        /\ \A u \in Threads : u # t /\ u # n => slot'[u] = slot[u]
    BY <1>1, <1>2, <1>11 DEF MovedSlot
  <2>2. g.gen = 1 /\ g.thread = t /\ g \in Objs
    BY <1>1, ObjTypes
  <2> HIDE DEF g, c
  <2>3. Migrates(m)
    BY <1>1, <1>11 DEF Migrates, c
  <2>4. /\ t \in Drafts /\ slot[t].gen = 0 /\ n \notin known
    BY <2>3 DEF PlacesInv, FirstTurnsApart, c
  <2>5. slot[n] = Home(n) /\ slot[t].thread = t
    BY <1>1, <2>4 DEF PlacesInv, SlotsApart
  <2>6. Home(n).gen = 0 /\ Home(n).thread = n
    BY DEF Home
  <2>7. \A o \in Objs : GivenOut(slot, o) => GivenOut(slot', o) /\ o # g
    <3> SUFFICES ASSUME NEW o \in Objs, GivenOut(slot, o)
                 PROVE  GivenOut(slot', o) /\ o # g
      OBVIOUS
    <3>1. CASE o.gen # 1
      BY <2>2, <3>1 DEF GivenOut
    <3>2. CASE o.gen = 1
      <4>1. slot[o.thread] = o
        BY <3>2 DEF GivenOut
      <4>2. o.thread # t /\ o.thread # n
        BY <2>4, <2>5, <2>6, <3>2, <4>1
      <4>3. slot'[o.thread] = slot[o.thread]
        BY <2>1, <4>2 DEF Objs
      <4> QED
        BY <2>2, <4>1, <4>2, <4>3 DEF GivenOut
    <3> QED
      BY <3>1, <3>2
  <2>8. \A o \in Objs : \A v : GivenOut(slot, o) /\ MovedFrom(slot, o, v) => MovedFrom(slot', o, v)
    <3> SUFFICES ASSUME NEW o \in Objs, NEW v, GivenOut(slot, o), MovedFrom(slot, o, v),
                        NEW u \in Threads, slot'[u] = o, u # v
                 PROVE  slot'[u].thread # u
      BY DEF MovedFrom
    <3>1. CASE u = n
      BY <1>11, <2>1, <2>5, <3>1
    <3>2. CASE u = t
      BY <2>1, <2>7, <3>2
    <3>3. CASE u # t /\ u # n
      BY <2>1, <3>3 DEF MovedFrom
    <3> QED
      BY <3>1, <3>2, <3>3
  <2>9. GivenOut(slot, new)
    BY <1>1, <2>1, SlotGiven
  <2>10. ObjectsGiven'
    <3>1. \A o \in Objs : q'[o] # EmptyQueue => GivenOut(slot', o)
      BY <1>3, <1>7, <2>7, <2>9 DEF PolledInv, ObjectsGiven
    <3>2. \A o \in Objs : poll'[o].pc # "idle" =>
            GivenOut(slot', o) /\ MovedFrom(slot', o, poll'[o].thread)
      BY <1>6, <2>7, <2>8 DEF PolledInv, ObjectsGiven
    <3>3. steer'.asked => GivenOut(slot', steer'.obj) /\ MovedFrom(slot', steer'.obj, steer'.thread)
      BY <1>2, <2>7, <2>8, SteerTypes DEF PolledInv, ObjectsGiven
    <3>4. \A x \in Msgs : call'[x].pc # "idle" => GivenOut(slot', call'[x].obj)
      BY <1>5, <2>7, CallTypes DEF PolledInv, ObjectsGiven
    <3>5. \A x \in Msgs : call'[x].pc = "accepted" => call'[x].turn # NoTurn
      BY <1>5 DEF PolledInv, ObjectsGiven
    <3> QED
      BY <3>1, <3>2, <3>3, <3>4, <3>5 DEF ObjectsGiven
  <2>11. q'[g].watcher = NoThread /\ ~Live(q'[g])
    <3>1. ~GivenOut(slot, g)
      BY <2>2, <2>7
    <3>2. q[g] = EmptyQueue
      BY <2>2, <3>1 DEF PolledInv, ObjectsGiven
    <3>3. q'[g] = q[g]
      BY <1>3, <1>7, <2>2, <2>9, <3>1
    <3> QED
      BY <3>2, <3>3, EmptyFields
  <2>12. ASSUME NEW u \in Threads
         PROVE  Polled(u)'
    <3>1. Polled(u)
      BY <1>8
    <3>2. CASE u = t
      BY <2>1, <2>2, <2>11, <3>2 DEF Polled
    <3>3. CASE u = n
      <4>1. slot'[u] = slot[t] /\ slot'[u].thread # u
        BY <1>11, <2>1, <2>5, <3>3
      <4>2. q'[Home(n)].watcher = n
        BY <1>1, <1>3, <1>9, <2>5, <2>6
      <4>3. \A v \in Threads : slot'[v] # Home(n)
        <5>1. \A v \in Threads : v # n => slot[v] # Home(n)
          BY <1>1, <2>5 DEF PlacesInv, SlotsApart
        <5>2. g # Home(n) /\ slot[t] # Home(n)
          BY <1>1, <1>11, <2>2, <2>6, <5>1
        <5> QED
          BY <1>11, <2>1, <3>3, <4>1, <5>1, <5>2
      <4>4. q'[Home(u)].watcher = u /\ \A v \in Threads : slot'[v] # Home(u)
        BY <3>3, <4>2, <4>3
      <4> HIDE DEF n, t
      <4> QED
        BY <4>1, <4>4 DEF Polled, Home
    <3>4. CASE u # t /\ u # n
      <4>1. slot'[u] = slot[u] /\ slot[u] \in Objs /\ slot[u] # old /\ slot[u] # new
        BY <1>1, <2>1, <3>4 DEF PlacesInv, SlotsApart
      <4>2. q'[slot[u]].watcher = q[slot[u]].watcher /\ (Live(q'[slot[u]]) => Live(q[slot[u]]))
        BY <1>3, <1>4, <4>1
      <4>3. CASE slot[u].thread = u
        <5>1. q[slot[u]].watcher \in {NoThread, u} /\ (Live(q[slot[u]]) => q[slot[u]].watcher = u)
          BY <3>1, <4>3 DEF Polled
        <5> DEFINE w == q'[slot[u]]
        <5>2. w.watcher \in {NoThread, u} /\ (Live(w) => w.watcher = u)
          BY <4>2, <5>1
        <5> HIDE DEF w
        <5> QED
          BY <4>1, <4>3, <5>2 DEF Polled, w
      <4>4. CASE slot[u].thread # u
        <5>1. q[Home(u)].watcher = u /\ \A v \in Threads : slot[v] # Home(u)
          BY <3>1, <4>4 DEF Polled
        <5>2. Home(u) \in Objs /\ Home(u).gen = 0 /\ Home(u) # old /\ Home(u) # new
          BY <1>1, <2>1, <5>1, ObjTypes DEF Home
        <5>3. q'[Home(u)].watcher = u
          BY <1>3, <5>1, <5>2
        <5>4. \A v \in Threads : slot'[v] # Home(u)
          BY <1>1, <2>1, <2>2, <5>1, <5>2
        <5> QED
          BY <4>1, <4>4, <5>3, <5>4 DEF Polled, Home
      <4> QED
        BY <4>3, <4>4
    <3> QED
      BY <3>2, <3>3, <3>4
  <2> QED
    BY <2>10, <2>12 DEF PolledInv
<1> QED
  BY <1>10, <1>11

LEMMA PolledCallStep ==
  ASSUME TypeOK, DispatchInv, PlacesInv, PolledInv, NEW m \in Msgs, CallStep(m)
  PROVE  PolledInv'
<1>1. /\ q \in [Objs -> QueueState] /\ call \in [Msgs -> CallState]
  BY DEF TypeOK
<1>2. ASSUME UsageAllows(m) \/ Resumed(m)
      PROVE  PolledInv'
  <2>1. /\ call[m].pc # "idle"
        /\ \/ call' = [call EXCEPT ![m].pc = "resume"]
           \/ call' = [call EXCEPT ![m].pc = "sent"]
        /\ UNCHANGED <<q, slot, poll, steer>>
    BY <1>2 DEF UsageAllows, Resumed
  <2>2. call[m] \in Calls
    BY <2>1, CallTypes
  <2>3. /\ call'[m].pc # "accepted" /\ call'[m].obj = call[m].obj
        /\ \A x \in Msgs : x # m => call'[x] = call[x]
    BY <1>1, <2>1, <2>2 DEF Calls
  <2>4. /\ \A x \in Msgs : call'[x].pc # "idle" =>
             \/ call[x].pc # "idle" /\ call'[x].obj = call[x].obj
             \/ \E u \in Threads : call'[x].obj = slot[u]
        /\ \A x \in Msgs : call'[x].pc = "accepted" => call'[x].turn # NoTurn
    BY <2>1, <2>3 DEF PolledInv, ObjectsGiven
  <2> QED
    BY <2>1, <2>4, PolledUntouched
<1>3. ASSUME DrainFailed(m)
      PROVE  PolledInv'
  <2> DEFINE t == call[m].thread
             o == call[m].obj
             y == slot[t]
  <2>1. /\ call[m].pc # "idle" /\ t \in Threads /\ o \in Objs /\ y \in Objs
        /\ \A p \in Objs : /\ q'[p].items = <<>> <=> q[p].items = <<>>
                           /\ q'[p].activeTurn = q[p].activeTurn
                           /\ p # y => q'[p].watcher = q[p].watcher
                           /\ p # o /\ p # y => q'[p] = q[p]
        /\ q'[y].watcher = IF q[y].items = <<>> /\ q[y].activeTurn = NoTurn THEN NoThread
                           ELSE IF q[y].watcher = NoThread THEN t ELSE q[y].watcher
    BY <1>3, DrainFailedFields
  <2>2. GivenOut(slot, o) /\ GivenOut(slot, y)
    BY <2>1, SlotGiven DEF PolledInv, ObjectsGiven
  <2>3. /\ call' = [call EXCEPT ![m] = NoCall] /\ poll' = Released(m)
        /\ UNCHANGED <<slot, steer>>
    BY <1>3 DEF DrainFailed
  <2>4. \A x \in Msgs : call'[x].pc # "idle" => call'[x] = call[x]
    BY <1>1, <2>3 DEF NoCall
  <2>5. \A p \in Objs : poll'[p].pc # "idle" => poll'[p] = poll[p]
    BY <2>3 DEF Released, NoPoll
  <2> HIDE DEF o, t
  <2>6. /\ \A x \in Msgs : call'[x].pc # "idle" =>
             \/ call[x].pc # "idle" /\ call'[x].obj = call[x].obj
             \/ \E u \in Threads : call'[x].obj = slot[u]
        /\ \A x \in Msgs : call'[x].pc = "accepted" => call'[x].turn # NoTurn
        /\ \A p \in Objs : poll'[p].pc # "idle" =>
             \/ poll[p].pc # "idle" /\ poll'[p].thread = poll[p].thread
             \/ poll'[p].thread \in Threads /\ slot[poll'[p].thread] = p
    BY <2>4, <2>5 DEF PolledInv, ObjectsGiven
  <2>7. /\ \A p \in Objs : p # slot[t] => q'[p].watcher = q[p].watcher
        /\ \A p \in Objs : Live(q'[p]) => Live(q[p])
        /\ \A p \in Objs : q'[p] = q[p] \/ GivenOut(slot, p)
    BY <2>1, <2>2 DEF Live
  <2>8. q'[slot[t]].watcher = IF ~Live(q'[slot[t]]) THEN NoThread
                              ELSE IF q[slot[t]].watcher = NoThread THEN t
                              ELSE q[slot[t]].watcher
    BY <2>1 DEF Live
  <2>9. \A u \in Threads : slot[u] \in Objs
    BY DEF TypeOK
  <2>10. \A u \in Threads : slot[u].thread = u /\ u # t /\ Live(q'[slot[u]]) => Live(q[slot[u]])
    BY <2>7, <2>9
  <2> QED
    BY <2>1, <2>3, <2>6, <2>7, <2>8, <2>10, PolledRefreshed
<1>4. ASSUME DirectFailed(m)
      PROVE  PolledInv'
  <2> DEFINE C == [call EXCEPT ![m] = NoCall]
             t == call[m].thread
             s == q[slot[t]]
  <2>1. /\ t \in Threads /\ slot[t] \in Objs /\ call[m].pc # "idle" /\ call[m].obj \in Objs
        /\ \A p \in Objs : /\ q'[p].items = q[p].items
                           /\ q'[p].activeTurn = q[p].activeTurn /\ q'[p].watcher = q[p].watcher
                           /\ p # call[m].obj /\ p # slot[t] => q'[p] = q[p]
        /\ StartsHead(C, call', s, t, slot[t])
    BY <1>4, DirectFailedFields
  <2>2. GivenOut(slot, call[m].obj) /\ GivenOut(slot, slot[t])
    BY <2>1, SlotGiven DEF PolledInv, ObjectsGiven
  <2>3. C \in [Msgs -> CallState] /\ \A x \in Msgs : C[x] = call[x] \/ C[x].pc = "idle"
    BY <1>1, ObjTypes DEF NoCall
  <2>4. UNCHANGED <<slot, poll, steer>>
    BY <1>4 DEF DirectFailed
  <2> HIDE DEF C, s, t
  <2>5. \A x \in Msgs : call'[x] = C[x] \/ (call'[x].pc = "usage" /\ call'[x].obj = slot[t])
    BY <2>1, <2>3, StartsHeadCalls
  <2>6. /\ \A x \in Msgs : call'[x].pc # "idle" =>
             \/ call[x].pc # "idle" /\ call'[x].obj = call[x].obj
             \/ \E u \in Threads : call'[x].obj = slot[u]
        /\ \A x \in Msgs : call'[x].pc = "accepted" => call'[x].turn # NoTurn
    <3>1. \A x \in Msgs : call'[x].pc # "idle" =>
            \/ call[x].pc # "idle" /\ call'[x] = call[x]
            \/ call'[x].pc = "usage" /\ call'[x].obj = slot[t]
      BY <2>3, <2>5
    <3> QED
      BY <2>1, <3>1 DEF PolledInv, ObjectsGiven
  <2>7. \A p \in Objs : q'[p] = q[p] \/ ( /\ q'[p].watcher = q[p].watcher /\ GivenOut(slot, p)
                                          /\ Live(q'[p]) => Live(q[p]) )
    BY <2>1, <2>2 DEF Live
  <2> QED
    BY <2>4, <2>6, <2>7, PolledUntouched
<1> QED
  BY <1>2, <1>3, <1>4, PolledTurnStarted DEF CallStep

LEMMA PollKeepsThread ==
  ASSUME NEW r \in PollState
  PROVE  \A p, h, e : /\ [r EXCEPT !.pc = p, !.seen = e].thread = r.thread
                      /\ [r EXCEPT !.pc = p, !.msg = h, !.seen = e].thread = r.thread
<1>1. CASE r = NoPoll
  BY <1>1 DEF NoPoll
<1>2. CASE r # NoPoll
  BY <1>2 DEF PollState
<1> QED
  BY <1>1, <1>2

LEMMA PolledPollStep ==
  ASSUME TypeOK, PlacesInv, PolledInv, NEW o \in Objs, PollStep(o)
  PROVE  PolledInv'
<1>1. call \in [Msgs -> CallState] /\ poll \in [Objs -> PollState] /\ q \in [Objs -> QueueState]
  BY DEF TypeOK
<1>2. ASSUME PollSeesTurn(o)
      PROVE  PolledInv'
  <2>1. poll[o].pc # "idle" /\ poll[o].thread \in Threads /\ poll[o].seen \in Run
    BY <1>2, PollTypes DEF PollSeesTurn
  <2>2. PICK a \in Answers(poll[o].seen, poll[o].thread) :
          q' = Learnt(o, a.turn, poll[o].thread)
    BY <1>2 DEF PollSeesTurn
  <2>3. a.turn \in 0..MaxTurn
    BY <2>1, AnswerTypes
  <2>4. q' = q \/ q' = Told(o, a.turn, poll[o].thread)
    BY <2>2, LearntIsTold
  <2>5. GivenOut(slot, o) /\ MovedFrom(slot, o, poll[o].thread)
    BY <2>1 DEF PolledInv, ObjectsGiven
  <2>6. /\ UNCHANGED <<slot, call, steer>> /\ poll' = [poll EXCEPT ![o] = NoPoll]
    BY <1>2 DEF PollSeesTurn
  <2>7. \A p \in Objs : poll'[p].pc # "idle" => poll'[p] = poll[p]
    BY <1>1, <2>6 DEF NoPoll
  <2> QED
    BY <2>1, <2>3, <2>4, <2>5, <2>6, <2>7, PolledTold
<1>3. ASSUME PollSeesIdle(o) \/ StatusIdle(o)
      PROVE  PolledInv'
  <2> DEFINE t == poll[o].thread
             y == slot[t]
  <2>1. PICK x \in {o, y} : poll[o].pc # "idle" /\ PollGoesOn(o, x)
    BY <1>3 DEF PollSeesIdle, StatusIdle
  <2> DEFINE a == IF x = y THEN NoTurn ELSE q[y].activeTurn
             s == [q[y] EXCEPT !.activeTurn = a]
  <2>2. t \in Threads /\ y \in Objs /\ x \in Objs
    <3>1. t \in Threads
      BY <2>1, PollTypes
    <3>2. y \in Objs
      BY <3>1, SlotType
    <3> QED
      BY <2>1, <3>1, <3>2
  <2>3. /\ \A p \in Objs : /\ q'[p].items = q[p].items
                           /\ q'[p].activeTurn = IF p = x THEN NoTurn ELSE q[p].activeTurn
                           /\ p # y => q'[p].watcher = q[p].watcher
                           /\ p # y /\ p # x => q'[p] = q[p]
        /\ \/ q'[y].watcher = q[y].watcher /\ q[x].activeTurn = NoTurn
           \/ q'[y].watcher = IF q[y].items = <<>> /\ a = NoTurn THEN NoThread
                              ELSE IF q[y].watcher = NoThread THEN t ELSE q[y].watcher
        /\ StartsHead(call, call', s, t, y)
    BY <2>1, <2>2, PollGoesOnFields
  <2>4. /\ UNCHANGED <<slot, steer>>
        /\ \A p \in Objs : p # o => poll'[p] = poll[p]
    BY <1>1, <2>1 DEF PollGoesOn
  <2>5. poll'[o].pc # "idle" => poll'[o].thread = t
    <3>1. PICK h : \/ poll' = [poll EXCEPT ![o] = NoPoll]
                   \/ poll' = [poll EXCEPT ![o] = [@ EXCEPT !.pc = "drain", !.msg = h, !.seen = Asleep]]
      BY <2>1 DEF PollGoesOn
    <3> DEFINE r == [poll[o] EXCEPT !.pc = "drain", !.msg = h, !.seen = Asleep]
    <3>2. r.thread = t
      BY <1>1, PollKeepsThread
    <3>3. poll'[o] = NoPoll \/ poll'[o] = r
      BY <1>1, <3>1
    <3> HIDE DEF r
    <3> QED
      BY <3>2, <3>3 DEF NoPoll
  <2>6. GivenOut(slot, o) /\ GivenOut(slot, y)
    BY <2>1, <2>2, SlotGiven DEF PolledInv, ObjectsGiven
  <2> HIDE DEF s
  <2>7. \A m \in Msgs : call'[m] = call[m] \/ (call'[m].pc = "usage" /\ call'[m].obj = y)
    BY <1>1, <2>2, <2>3, StartsHeadCalls
  <2>8. /\ \A m \in Msgs : call'[m].pc # "idle" =>
             \/ call[m].pc # "idle" /\ call'[m].obj = call[m].obj
             \/ \E u \in Threads : call'[m].obj = slot[u]
        /\ \A m \in Msgs : call'[m].pc = "accepted" => call'[m].turn # NoTurn
        /\ \A p \in Objs : poll'[p].pc # "idle" =>
             \/ poll[p].pc # "idle" /\ poll'[p].thread = poll[p].thread
             \/ poll'[p].thread \in Threads /\ slot[poll'[p].thread] = p
    BY <2>1, <2>2, <2>4, <2>5, <2>7 DEF PolledInv, ObjectsGiven
  <2>9. /\ \A p \in Objs : p # slot[t] => q'[p].watcher = q[p].watcher
        /\ \A p \in Objs : Live(q'[p]) => Live(q[p])
        /\ \A p \in Objs : q'[p] = q[p] \/ GivenOut(slot, p)
    BY <2>1, <2>3, <2>6 DEF Live
  <2>10. \/ q'[slot[t]].watcher = q[slot[t]].watcher /\ (Live(q'[slot[t]]) => Live(q[slot[t]]))
         \/ q'[slot[t]].watcher = IF ~Live(q'[slot[t]]) THEN NoThread
                                  ELSE IF q[slot[t]].watcher = NoThread THEN t
                                  ELSE q[slot[t]].watcher
    <3>1. q'[y].activeTurn = a /\ q'[y].items = q[y].items
      BY <2>2, <2>3
    <3>2. Live(q'[y]) <=> ~(q[y].items = <<>> /\ a = NoTurn)
      BY <3>1 DEF Live
    <3> QED
      BY <2>2, <2>3, <2>9, <3>2
  <2>11. \A u \in Threads : slot[u].thread = u /\ u # t /\ Live(q'[slot[u]]) => Live(q[slot[u]])
    BY <2>9 DEF TypeOK
  <2> HIDE DEF t
  <2> QED
    BY <2>2, <2>4, <2>8, <2>9, <2>10, <2>11, PolledRefreshed
<1>4. ASSUME PollFallsBack(o) \/ StatusSettlesNothing(o)
      PROVE  PolledInv'
  <2>1. /\ UNCHANGED <<q, slot, call, steer>> /\ poll[o].pc # "idle"
        /\ \/ poll' = [poll EXCEPT ![o] = NoPoll]
           \/ poll' = [poll EXCEPT ![o] = [@ EXCEPT !.pc = "status", !.seen = Seen(poll[o].thread)]]
    BY <1>4 DEF PollFallsBack, StatusSettlesNothing
  <2> DEFINE r == [poll[o] EXCEPT !.pc = "status", !.seen = Seen(poll[o].thread)]
  <2>2. r.thread = poll[o].thread
    BY <1>1, PollKeepsThread
  <2>3. \A p \in Objs : poll'[p].pc # "idle" =>
          \/ poll[p].pc # "idle" /\ poll'[p].thread = poll[p].thread
          \/ poll'[p].thread \in Threads /\ slot[poll'[p].thread] = p
    <3>1. \/ poll' = [poll EXCEPT ![o] = NoPoll]
          \/ poll' = [poll EXCEPT ![o] = r]
      BY <2>1
    <3> HIDE DEF r
    <3>2. /\ poll'[o] = NoPoll \/ poll'[o] = r
          /\ \A p \in Objs : p # o => poll'[p] = poll[p]
      BY <1>1, <3>1
    <3> QED
      BY <2>1, <2>2, <3>2 DEF NoPoll
  <2>4. /\ \A x \in Msgs : call'[x].pc # "idle" =>
             \/ call[x].pc # "idle" /\ call'[x].obj = call[x].obj
             \/ \E u \in Threads : call'[x].obj = slot[u]
        /\ \A x \in Msgs : call'[x].pc = "accepted" => call'[x].turn # NoTurn
    BY <2>1 DEF PolledInv, ObjectsGiven
  <2> QED
    BY <2>1, <2>3, <2>4, PolledUntouched
<1> QED
  BY <1>2, <1>3, <1>4 DEF PollStep

LEMMA PolledThreadStep ==
  ASSUME TypeOK, PlacesInv, PolledInv, NEW t \in Threads, ThreadStep(t)
  PROVE  PolledInv'
<1>1. q \in [Objs -> QueueState] /\ slot[t] \in Objs /\ q[slot[t]] \in QueueState
      /\ poll \in [Objs -> PollState]
  BY SlotType DEF TypeOK
<1>2. NoTurn \in 0..MaxTurn
  BY ConstantsAssumption DEF NoTurn, ConstantsAssumption
<1>3. ASSUME NoteStarted(t)
      PROVE  PolledInv'
  BY <1>3, NoteTypes, PolledHeard DEF NoteStarted
<1>4. ASSUME NEW n \in 0..MaxTurn, NEW up, UNCHANGED <<slot, poll, steer>>,
             Publish(t, [q[slot[t]] EXCEPT !.activeTurn = n], up)
      PROVE  PolledInv'
  <2> DEFINE s == [q[slot[t]] EXCEPT !.activeTurn = n]
  <2>1. s \in QueueState /\ s.watcher = q[slot[t]].watcher /\ Publish(t, s, up)
    BY <1>1, <1>4, FieldTypes DEF QueueState
  <2> HIDE DEF s
  <2> QED
    BY <1>4, <2>1, PolledPublished
<1>5. ASSUME NoteCompleted(t)
      PROVE  PolledInv'
  <2> DEFINE n == IF q[slot[t]].activeTurn = Head(notes[t]).turn THEN NoTurn
                  ELSE q[slot[t]].activeTurn
  <2>1. n \in 0..MaxTurn
    <3>1. q[slot[t]].activeTurn \in 0..MaxTurn
      BY <1>1, FieldTypes
    <3> QED
      BY <1>2, <3>1
  <2>2. Publish(t, [q[slot[t]] EXCEPT !.activeTurn = n], files')
        /\ UNCHANGED <<slot, poll, steer>>
    BY <1>5 DEF NoteCompleted
  <2> HIDE DEF n
  <2> QED
    BY <1>4, <2>1, <2>2
<1>6. ASSUME SynchronizeActiveTurn(t)
      PROVE  PolledInv'
  <2>1. read[t].seen \in Run
    BY DEF TypeOK, ReadState
  <2>2. PICK a \in Answers(read[t].seen, t) :
          Publish(t, [q[slot[t]] EXCEPT !.activeTurn = IF a.active THEN a.turn ELSE NoTurn],
                  files')
    BY <1>6 DEF SynchronizeActiveTurn
  <2>3. (IF a.active THEN a.turn ELSE NoTurn) \in 0..MaxTurn
    BY <1>2, <2>1, AnswerTypes
  <2>4. UNCHANGED <<slot, poll, steer>>
    BY <1>6 DEF SynchronizeActiveTurn
  <2> QED
    BY <1>4, <2>2, <2>3, <2>4
<1>7. ASSUME PollQueue(t) \/ ReadFailed(t)
      PROVE  PolledInv'
  <2>1. /\ UNCHANGED <<q, slot, call, steer>>
        /\ \/ poll' = poll
           \/ poll' = [poll EXCEPT ![slot[t]] =
                         [pc |-> "list", thread |-> t, msg |-> NoMsg, seen |-> Seen(t)]]
    BY <1>7 DEF PollQueue, ReadFailed
  <2>2. \A p \in Objs : poll'[p].pc # "idle" =>
          \/ poll[p].pc # "idle" /\ poll'[p].thread = poll[p].thread
          \/ poll'[p].thread \in Threads /\ slot[poll'[p].thread] = p
    BY <1>1, <2>1
  <2>3. /\ \A x \in Msgs : call'[x].pc # "idle" =>
             \/ call[x].pc # "idle" /\ call'[x].obj = call[x].obj
             \/ \E u \in Threads : call'[x].obj = slot[u]
        /\ \A x \in Msgs : call'[x].pc = "accepted" => call'[x].turn # NoTurn
    BY <2>1 DEF PolledInv, ObjectsGiven
  <2> QED
    BY <2>1, <2>2, <2>3, PolledUntouched
<1> QED
  BY <1>3, <1>5, <1>6, <1>7 DEF ThreadStep

LEMMA PolledSteered ==
  ASSUME TypeOK, PlacesInv, PolledInv, SteerAccepted \/ SteerFailed
  PROVE  PolledInv'
<1>1. steer.asked /\ ~steer'.asked /\ UNCHANGED <<slot, call, poll>>
  BY DEF SteerAccepted, SteerFailed, NoSteer
<1>2. steer.thread \in Threads /\ steer.obj \in Objs /\ steer.previous \in 0..MaxTurn
  BY <1>1, SteerTypes
<1>3. GivenOut(slot, steer.obj) /\ MovedFrom(slot, steer.obj, steer.thread)
  BY <1>1 DEF PolledInv, ObjectsGiven
<1>4. q' = q \/ q' = Told(steer.obj, steer.previous, steer.thread)
  BY DEF SteerAccepted, SteerFailed, Told
<1> QED
  BY <1>1, <1>2, <1>3, <1>4, PolledTold

LEMMA PolledOfficialStep ==
  ASSUME TypeOK, PlacesInv, PolledInv, OfficialStep
  PROVE  PolledInv'
<1>1. UNCHANGED <<q, slot, poll, steer>>
  BY DEF OfficialStep, AcceptTurn, OfficialTurn, CompleteTurn, LoseNote, serverVars
<1>2. ASSUME NEW m \in Msgs, AcceptTurn(m)
      PROVE  /\ \A x \in Msgs : call'[x].pc # "idle" =>
                  call[x].pc # "idle" /\ call'[x].obj = call[x].obj
             /\ \A x \in Msgs : call'[x].pc = "accepted" => call'[x].turn # NoTurn
  <2>1. call[m] \in Calls /\ call \in [Msgs -> CallState] /\ call[m].pc = "sent"
    BY <1>2, CallTypes DEF AcceptTurn, TypeOK
  <2>2. PICK c \in Threads :
          Begin(c) /\ call' = [call EXCEPT ![m].pc = "accepted", ![m].turn = turns', ![m].canon = c]
    BY <1>2 DEF AcceptTurn
  <2>3. /\ call'[m].obj = call[m].obj /\ call'[m].turn = turns'
        /\ \A x \in Msgs : x # m => call'[x] = call[x]
    BY <2>1, <2>2 DEF Calls
  <2>4. turns' # NoTurn
    BY <2>2, ConstantsAssumption DEF Begin, TypeOK, NoTurn, ConstantsAssumption
  <2> QED
    BY <2>1, <2>3, <2>4 DEF PolledInv, ObjectsGiven
<1>3. ASSUME NEW t \in Threads, OfficialTurn(t) \/ CompleteTurn(t) \/ LoseNote(t)
      PROVE  /\ \A x \in Msgs : call'[x].pc # "idle" =>
                  call[x].pc # "idle" /\ call'[x].obj = call[x].obj
             /\ \A x \in Msgs : call'[x].pc = "accepted" => call'[x].turn # NoTurn
  BY <1>3 DEF OfficialTurn, CompleteTurn, LoseNote, serverVars, PolledInv, ObjectsGiven
<1>4. /\ \A x \in Msgs : call'[x].pc # "idle" =>
           \/ call[x].pc # "idle" /\ call'[x].obj = call[x].obj
           \/ \E u \in Threads : call'[x].obj = slot[u]
      /\ \A x \in Msgs : call'[x].pc = "accepted" => call'[x].turn # NoTurn
  BY <1>2, <1>3 DEF OfficialStep
<1> QED
  BY <1>1, <1>4, PolledUntouched

LEMMA PolledNext ==
  ASSUME TypeOK, DispatchInv, PlacesInv, PolledInv, [Next]_vars
  PROVE  PolledInv'
<1>1. CASE Next
  BY <1>1, PolledClientStep, PolledSteered, PolledCallStep, PolledPollStep, PolledThreadStep,
     PolledOfficialStep DEF Next
<1>2. CASE UNCHANGED vars
  <2>1. UNCHANGED <<q, slot, call, poll, steer>>
    BY <1>2 DEF vars, serverVars
  <2>2. /\ \A x \in Msgs : call'[x].pc # "idle" =>
             \/ call[x].pc # "idle" /\ call'[x].obj = call[x].obj
             \/ \E u \in Threads : call'[x].obj = slot[u]
        /\ \A x \in Msgs : call'[x].pc = "accepted" => call'[x].turn # NoTurn
    BY <2>1 DEF PolledInv, ObjectsGiven
  <2> QED
    BY <2>1, <2>2, PolledUntouched
<1> QED
  BY <1>1, <1>2

\* Everything that refers to a queue refers to one in use, and each thread's queue
\* has the interval it needs.
THEOREM PolledKept ==
  ASSUME "earlyId" \notin Faults
  PROVE  Spec => []PolledInv
<1>1. Init => PolledInv
  <2> SUFFICES ASSUME Init
               PROVE  PolledInv
    OBVIOUS
  <2>1. \A t \in Threads : slot[t].thread = t /\ slot[t] \in Objs
    BY ObjTypes DEF Init
  <2>2. \A o \in Objs : q[o] = EmptyQueue /\ poll[o].pc = "idle"
    BY DEF Init, NoPoll
  <2>3. ~steer.asked /\ \A m \in Msgs : call[m].pc = "idle"
    BY DEF Init, NoSteer, NoCall
  <2>4. ObjectsGiven
    BY <2>2, <2>3 DEF ObjectsGiven
  <2>5. ASSUME NEW t \in Threads
        PROVE  Polled(t)
    <3>1. q[slot[t]].watcher = NoThread /\ ~Live(q[slot[t]])
      BY <2>1, <2>2, EmptyFields
    <3> QED
      BY <2>1, <3>1 DEF Polled
  <2> QED
    BY <2>4, <2>5 DEF PolledInv
<1>2. TypeOK /\ DispatchInv /\ PlacesInv /\ PolledInv /\ [Next]_vars => PolledInv'
  BY PolledNext
<1> QED
  BY <1>1, <1>2, TypeCorrect, DispatchSafe, PlacesKept, PTL DEF Spec

\* A queue that may still have work is polled under its own thread id, after the
\* id migration of a draft too.
THEOREM QueuesArePolled ==
  ASSUME "earlyId" \notin Faults
  PROVE  Spec => []LiveQueuesArePolled
<1>1. TypeOK /\ PolledInv => LiveQueuesArePolled
  <2> SUFFICES ASSUME TypeOK, PolledInv, NEW t \in Threads, Live(q[slot[t]])
               PROVE  \E o \in Objs : q[o].watcher = t
    BY DEF LiveQueuesArePolled
  <2>1. Polled(t)
    BY DEF PolledInv
  <2>2. slot[t] \in Objs /\ Home(t) \in Objs
    BY ObjTypes DEF TypeOK, Home
  <2>3. CASE slot[t].thread = t
    BY <2>1, <2>2, <2>3 DEF Polled
  <2>4. CASE slot[t].thread # t
    BY <2>1, <2>2, <2>4 DEF Polled
  <2> QED
    BY <2>3, <2>4
<1> QED
  BY <1>1, TypeCorrect, PolledKept, PTL

-----------------------------------------------------------------------------
(* Queued work waits for the running turn                                  *)

\* The environment tells the truth, in time: this is what the property is about.
\* A stale answer, a lost notification or a steer that is rolled back can each
\* make the server believe that a thread is idle while its turn runs.
TruthfulNews == Faults \cap {"staleAnswer", "noteLoss", "steerError", "earlyId"} = {}

\* The server knows of the running turn of t, or the news is the last on its way.
Heeded(t) ==
  run[t].active =>
    /\ t \notin Drafts
    /\ IF notes[t] = <<>> THEN q[slot[t]].activeTurn # NoTurn
       ELSE notes[t][Len(notes[t])] = [kind |-> "started", turn |-> run[t].turn]

\* A poll of a thread that is no draft asks about the queue's own thread.
PollsOwn == \A o \in Objs, t \in Threads :
  poll[o].pc = "list" /\ poll[o].thread \notin Drafts /\ slot[t] = o => t = poll[o].thread

NewsInv == PollsOwn /\ \A t \in Threads : Heeded(t)

LEMMA RunTurns ==
  ASSUME TypeOK, NEW t \in Threads, run[t].active
  PROVE  run[t].turn # NoTurn /\ run[t].turn \in 0..MaxTurn
<1>1. run[t] \in [turn: Turns, active: {TRUE}]
  BY DEF TypeOK, Run
<1>2. run[t].turn \in 1..MaxTurn /\ MaxTurn \in Nat
  BY <1>1, ConstantsAssumption DEF Turns, ConstantsAssumption
<1> QED
  BY <1>2 DEF NoTurn

LEMMA TrueAnswers ==
  ASSUME TypeOK, TruthfulNews, NEW t \in Threads, NEW seen, NEW a \in Answers(seen, t)
  PROVE  a = run[t] /\ (a.active => a.turn # NoTurn /\ a.turn \in 0..MaxTurn)
<1>1. a = run[t]
  BY DEF TruthfulNews, Answers
<1> QED
  BY <1>1, RunTurns

LEMMA PollsStay ==
  ASSUME TypeOK, PlacesInv, NewsInv, UNCHANGED slot,
         \A o \in Objs : poll'[o].pc = "list" =>
           \/ poll'[o] = poll[o]
           \/ poll'[o].thread \in Threads /\ slot[poll'[o].thread] = o
  PROVE  PollsOwn'
<1> SUFFICES ASSUME NEW o \in Objs, NEW t \in Threads,
                    poll'[o].pc = "list", poll'[o].thread \notin Drafts, slot[t] = o
             PROVE  t = poll'[o].thread
  BY DEF PollsOwn
<1>1. CASE poll'[o] = poll[o]
  BY <1>1 DEF NewsInv, PollsOwn
<1>2. CASE poll'[o].thread \in Threads /\ slot[poll'[o].thread] = o
  BY <1>2 DEF PlacesInv, SlotsApart
<1> QED
  BY <1>1, <1>2

\* Steps of the server that hear no notification and forget no running turn.
LEMMA NewsStay ==
  ASSUME TypeOK, PlacesInv, NewsInv, UNCHANGED <<slot, run, notes>>,
         \A t \in Threads : run[t].active /\ q[slot[t]].activeTurn # NoTurn =>
           q'[slot[t]].activeTurn # NoTurn,
         \A o \in Objs : poll'[o].pc = "list" =>
           \/ poll'[o] = poll[o]
           \/ poll'[o].thread \in Threads /\ slot[poll'[o].thread] = o
  PROVE  NewsInv'
<1>1. PollsOwn'
  BY PollsStay
<1>2. ASSUME NEW t \in Threads
      PROVE  Heeded(t)'
  BY DEF NewsInv, Heeded
<1> QED
  BY <1>1, <1>2 DEF NewsInv

LEMMA EditsAreEdits ==
  ASSUME TypeOK, NEW t \in Threads, NEW m \in Msgs,
         RemoveQueuedTurn(t, m) \/ UpdateQueuedTurn(t, m) \/ ReorderQueuedTurn(t, m)
  PROVE  \E items \in Seq(Msgs), up \in {files, files \ {m}} : Edit(t, m, items, up)
<1>1. q[slot[t]].items \in Seq(Msgs)
  BY SlotType, FieldTypes
<1>2. Without(q[slot[t]].items, m) \in Seq(Msgs)
  BY <1>1, WithoutProperties
<1>3. CASE RemoveQueuedTurn(t, m)
  BY <1>2, <1>3 DEF RemoveQueuedTurn
<1>4. CASE UpdateQueuedTurn(t, m)
  BY <1>1, <1>4 DEF UpdateQueuedTurn
<1>5. CASE ReorderQueuedTurn(t, m)
  <2>1. PICK i \in DOMAIN q[slot[t]].items :
          Edit(t, m, InsertAt(Without(q[slot[t]].items, m), i, m), files)
    BY <1>5 DEF ReorderQueuedTurn
  <2>2. Has(q[slot[t]].items, m)
    BY <2>1 DEF Edit
  <2>3. InsertAt(Without(q[slot[t]].items, m), i, m) \in Seq(Msgs)
    BY <2>2, EditedItems
  <2> QED
    BY <2>1, <2>3
<1> QED
  BY <1>3, <1>4, <1>5

LEMMA NewsClientStep ==
  ASSUME TypeOK, PlacesInv, NewsInv, ClientStep
  PROVE  NewsInv'
<1>1. q \in [Objs -> QueueState] /\ \A t \in Threads : slot[t] \in Objs
  BY DEF TypeOK
<1>2. UNCHANGED <<slot, run, notes, poll>>
  <2>1. ASSUME NEW t \in Threads, NEW m \in Msgs, \/ RemoveQueuedTurn(t, m)
                                                  \/ UpdateQueuedTurn(t, m)
                                                  \/ ReorderQueuedTurn(t, m)
        PROVE  UNCHANGED <<slot, run, notes, poll>>
    <3>1. PICK items \in Seq(Msgs), up \in {files, files \ {m}} : Edit(t, m, items, up)
      BY <2>1, EditsAreEdits
    <3> QED
      BY <3>1 DEF Edit, codexVars
  <2>2. ASSUME NEW t \in Threads, NEW m \in Msgs, StartTurn(t, m) \/ QueueTurn(t, m)
        PROVE  UNCHANGED <<slot, run, notes, poll>>
    BY <2>2 DEF StartTurn, QueueTurn, codexVars
  <2>3. ASSUME NEW t \in Threads, CreateThread(t) \/ OpenThread(t) \/ \E n \in Turns : SteerTurn(t, n)
        PROVE  UNCHANGED <<slot, run, notes, poll>>
    BY <2>3 DEF CreateThread, OpenThread, SteerTurn, codexVars
  <2>4. ASSUME NEW m \in Msgs, QueueRefused(m) \/ RemoveAttachment(m) \/ PurgeExpiredUpload(m)
        PROVE  UNCHANGED <<slot, run, notes, poll>>
    BY <2>4 DEF QueueRefused, RemoveAttachment, PurgeExpiredUpload, codexVars
  <2> QED
    BY <2>1, <2>2, <2>3, <2>4 DEF ClientStep
<1>3. ASSUME NEW t \in Threads, NEW m \in Msgs, StartTurn(t, m)
      PROVE  \A p \in Objs : q'[p].activeTurn = q[p].activeTurn
  BY <1>1, <1>3 DEF StartTurn, QueueState
<1>4. ASSUME NEW t \in Threads, NEW s \in QueueState, NEW up, Publish(t, s, up),
             s.activeTurn = q[slot[t]].activeTurn
      PROVE  \A p \in Objs : q'[p].activeTurn = q[p].activeTurn
  BY <1>4, PublishFields
<1>5. ASSUME NEW t \in Threads, NEW m \in Msgs, QueueTurn(t, m)
      PROVE  \A p \in Objs : q'[p].activeTurn = q[p].activeTurn
  <2> DEFINE s == [q[slot[t]] EXCEPT !.items = Append(@, m)]
  <2>1. s \in QueueState /\ s.activeTurn = q[slot[t]].activeTurn
    <3>1. q[slot[t]].items \in Seq(Msgs) /\ q[slot[t]] \in QueueState
      BY SlotType, FieldTypes
    <3>2. Append(q[slot[t]].items, m) \in Seq(Msgs)
      BY <3>1, AppendProperties
    <3> QED
      BY <3>1, <3>2, FieldTypes DEF QueueState
  <2>2. Publish(t, s, files)
    BY <1>5 DEF QueueTurn
  <2> HIDE DEF s
  <2> QED
    BY <1>4, <2>1, <2>2
<1>6. ASSUME NEW t \in Threads, NEW m \in Msgs, NEW items \in Seq(Msgs), NEW up,
             Edit(t, m, items, up)
      PROVE  \A p \in Objs : q'[p].activeTurn = q[p].activeTurn
  <2> DEFINE s == [q[slot[t]] EXCEPT !.items = items, !.blocked = FALSE]
  <2>1. s \in QueueState /\ s.activeTurn = q[slot[t]].activeTurn
    <3>1. q[slot[t]] \in QueueState
      BY SlotType
    <3> QED
      BY <3>1, FieldTypes DEF QueueState
  <2>2. Publish(t, s, up)
    BY <1>6 DEF Edit
  <2> HIDE DEF s
  <2> QED
    BY <1>4, <2>1, <2>2
<1>7. ASSUME NEW t \in Threads, NEW m \in Msgs, \/ RemoveQueuedTurn(t, m)
                                                \/ UpdateQueuedTurn(t, m)
                                                \/ ReorderQueuedTurn(t, m)
      PROVE  \A p \in Objs : q'[p].activeTurn = q[p].activeTurn
  <2>1. PICK items \in Seq(Msgs), up \in {files, files \ {m}} : Edit(t, m, items, up)
    BY <1>7, EditsAreEdits
  <2> QED
    BY <1>6, <2>1
<1>8. ASSUME NEW t \in Threads, NEW n \in Turns, SteerTurn(t, n)
      PROVE  \A p \in Objs : q'[p].activeTurn = q[p].activeTurn \/ q'[p].activeTurn # NoTurn
  <2> DEFINE R == Heard(q, slot[t], n, t)
  <2>1. n \in 0..MaxTurn /\ n # NoTurn
    BY <1>8, ConstantsAssumption DEF Turns, NoTurn, ConstantsAssumption
  <2>2. R[slot[t]].activeTurn = n /\ \A p \in Objs : p # slot[t] => R[p] = q[p]
    BY <1>1, <2>1, HeardFields
  <2>3. q' = R
    BY <1>8 DEF SteerTurn
  <2> HIDE DEF R
  <2> QED
    BY <2>1, <2>2, <2>3
<1>9. ASSUME \/ \E m \in Msgs : QueueRefused(m) \/ RemoveAttachment(m) \/ PurgeExpiredUpload(m)
             \/ \E t \in Threads : CreateThread(t) \/ OpenThread(t)
      PROVE  UNCHANGED q
  BY <1>9 DEF QueueRefused, RemoveAttachment, PurgeExpiredUpload, CreateThread, OpenThread
<1>10. \A p \in Objs : q'[p].activeTurn = q[p].activeTurn \/ q'[p].activeTurn # NoTurn
  BY <1>3, <1>5, <1>7, <1>8, <1>9 DEF ClientStep
<1> QED
  BY <1>1, <1>2, <1>10, NewsStay

LEMMA NewsCallStep ==
  ASSUME TypeOK, DispatchInv, PlacesInv, PolledInv, NewsInv, NEW m \in Msgs, CallStep(m)
  PROVE  NewsInv'
<1>1. UNCHANGED <<run, notes>> /\ \A t \in Threads : slot[t] \in Objs
  BY DEF CallStep, UsageAllows, Resumed, TurnStarted, DrainFailed, DirectFailed, codexVars, TypeOK
<1>2. ASSUME poll' = poll \/ poll' = Released(m), NEW o \in Objs, poll'[o].pc = "list"
      PROVE  poll'[o] = poll[o]
  BY <1>2 DEF Released, NoPoll
<1>3. CASE UsageAllows(m) \/ Resumed(m)
  <2>1. UNCHANGED <<q, slot, poll>>
    BY <1>3 DEF UsageAllows, Resumed
  <2> QED
    BY <1>1, <2>1, NewsStay
<1>4. CASE DrainFailed(m)
  <2>1. \A p \in Objs : q'[p].activeTurn = q[p].activeTurn
    BY <1>4, DrainFailedFields
  <2>2. slot' = slot /\ poll' = Released(m)
    BY <1>4 DEF DrainFailed
  <2> QED
    BY <1>1, <1>2, <2>1, <2>2, NewsStay
<1>5. CASE DirectFailed(m)
  <2>1. \A p \in Objs : q'[p].activeTurn = q[p].activeTurn
    BY <1>5, DirectFailedFields
  <2>2. slot' = slot /\ poll' = poll
    BY <1>5 DEF DirectFailed
  <2> QED
    BY <1>1, <2>1, <2>2, NewsStay
<1>6. CASE TurnStarted(m)
  <2> DEFINE c == call[m]
             t == c.thread
             n == c.canon
             old == slot[n]
             new == slot'[n]
  <2>1. /\ t \in Threads /\ n \in Threads /\ c.turn # NoTurn
        /\ old \in Objs /\ new \in Objs
        /\ \A p \in Objs : q'[p].activeTurn = IF p \in {old, new} THEN c.turn ELSE q[p].activeTurn
    BY <1>6, TurnStartedFields DEF TurnStarted, PolledInv, ObjectsGiven
  <2>2. slot' = MovedSlot(t, n) /\ poll' = Released(m) /\ c.pc = "accepted"
        /\ slot \in [Threads -> Objs]
    BY <1>6 DEF TurnStarted, TypeOK
  <2>3. \A o \in Objs : poll'[o].pc = "list" => poll'[o] = poll[o]
    BY <1>2, <2>2
  <2> HIDE DEF c
  <2>4. CASE t = n
    <3>1. slot' = slot
      BY <2>2, <2>4 DEF MovedSlot
    <3>2. \A p \in Objs : q[p].activeTurn # NoTurn => q'[p].activeTurn # NoTurn
      BY <2>1
    <3> HIDE DEF t, n, old, new
    <3> QED
      BY <1>1, <2>3, <3>1, <3>2, NewsStay
  <2>5. CASE t # n
    <3> DEFINE g == [thread |-> t, gen |-> 1]
    <3>1. /\ new = slot[t] /\ slot'[t] = g
          /\ \A u \in Threads : u # t /\ u # n => slot'[u] = slot[u]
      BY <2>1, <2>2, <2>5 DEF MovedSlot
    <3>2. g.gen = 1 /\ g.thread = t /\ g \in Objs
      BY <2>1, ObjTypes
    <3> HIDE DEF g
    <3>3. Migrates(m)
      BY <2>2, <2>5 DEF Migrates, c
    <3>4. t \in Drafts /\ slot[t].gen = 0
      BY <3>3 DEF PlacesInv, FirstTurnsApart, c
    <3>5. poll[g].pc = "idle"
      <4>1. ~GivenOut(slot, g)
        BY <2>1, <3>2, <3>4 DEF GivenOut
      <4> QED
        BY <3>2, <4>1 DEF PolledInv, ObjectsGiven
    <3>6. PollsOwn'
      <4> SUFFICES ASSUME NEW o \in Objs, NEW u \in Threads, slot'[u] = o,
                          poll'[o].pc = "list", poll'[o].thread \notin Drafts
                   PROVE  u = poll'[o].thread
        BY DEF PollsOwn
      <4>1. poll'[o] = poll[o]
        BY <2>3
      <4>2. CASE u = t
        BY <3>1, <3>5, <4>1, <4>2
      <4>3. CASE u = n
        <5>1. slot[t] = o
          BY <3>1, <4>3
        <5>2. t = poll[o].thread
          BY <2>1, <4>1, <5>1 DEF NewsInv, PollsOwn
        <5> QED
          BY <3>4, <4>1, <5>2
      <4>4. CASE u # t /\ u # n
        BY <3>1, <4>1, <4>4 DEF NewsInv, PollsOwn
      <4> QED
        BY <4>2, <4>3, <4>4
    <3>7. ASSUME NEW u \in Threads
          PROVE  Heeded(u)'
      <4>1. Heeded(u)
        BY DEF NewsInv
      <4>2. CASE u = t
        BY <1>1, <3>4, <4>1, <4>2 DEF Heeded
      <4>3. CASE u = n
        <5>1. q'[slot'[u]].activeTurn # NoTurn
          BY <2>1, <4>3
        <5> QED
          BY <1>1, <4>1, <5>1 DEF Heeded
      <4>4. CASE u # t /\ u # n
        <5>1. slot'[u] = slot[u] /\ slot[u] # old /\ slot[u] # new /\ slot[u] \in Objs
          BY <2>1, <2>2, <3>1, <4>4 DEF PlacesInv, SlotsApart
        <5>2. q'[slot'[u]].activeTurn = q[slot[u]].activeTurn
          BY <2>1, <5>1
        <5> QED
          BY <1>1, <4>1, <5>2 DEF Heeded
      <4> QED
        BY <4>2, <4>3, <4>4
    <3> QED
      BY <3>6, <3>7 DEF NewsInv
  <2> QED
    BY <2>4, <2>5
<1> QED
  BY <1>3, <1>4, <1>5, <1>6 DEF CallStep

LEMMA PollLeavesList ==
  ASSUME NEW r \in PollState
  PROVE  /\ NoPoll.pc # "list"
         /\ \A h, e : [r EXCEPT !.pc = "drain", !.msg = h, !.seen = e].pc # "list"
         /\ \A e : [r EXCEPT !.pc = "status", !.seen = e].pc # "list"
<1>1. CASE r = NoPoll
  BY <1>1 DEF NoPoll
<1>2. CASE r # NoPoll
  BY <1>2 DEF PollState, NoPoll
<1> QED
  BY <1>1, <1>2

LEMMA NewsPollStep ==
  ASSUME TypeOK, TruthfulNews, PlacesInv, NewsInv, NEW o \in Objs, PollStep(o)
  PROVE  NewsInv'
<1>1. /\ UNCHANGED <<slot, run, notes>> /\ \A t \in Threads : slot[t] \in Objs
      /\ poll \in [Objs -> PollState]
  BY DEF PollStep, PollSeesTurn, PollSeesIdle, PollFallsBack, StatusIdle, StatusSettlesNothing,
         PollGoesOn, codexVars, TypeOK
<1>2. ASSUME NEW p \in Objs, poll'[p].pc = "list"
      PROVE  poll'[p] = poll[p]
  <2>1. \/ poll' = [poll EXCEPT ![o] = NoPoll]
        \/ \E h : poll' = [poll EXCEPT ![o] = [@ EXCEPT !.pc = "drain", !.msg = h, !.seen = Asleep]]
        \/ \E r : poll' = [poll EXCEPT ![o] = [@ EXCEPT !.pc = "status", !.seen = r]]
    BY DEF PollStep, PollSeesTurn, PollSeesIdle, PollFallsBack, StatusIdle, StatusSettlesNothing,
           PollGoesOn
  <2>2. PICK h, r : poll' \in { [poll EXCEPT ![o] = NoPoll],
              [poll EXCEPT ![o] = [@ EXCEPT !.pc = "drain", !.msg = h, !.seen = Asleep]],
              [poll EXCEPT ![o] = [@ EXCEPT !.pc = "status", !.seen = r]] }
    BY <2>1
  <2> DEFINE d == [poll[o] EXCEPT !.pc = "drain", !.msg = h, !.seen = Asleep]
             e == [poll[o] EXCEPT !.pc = "status", !.seen = r]
  <2>3. poll' \in {[poll EXCEPT ![o] = NoPoll], [poll EXCEPT ![o] = d], [poll EXCEPT ![o] = e]}
    BY <2>2
  <2>4. NoPoll.pc # "list" /\ d.pc # "list" /\ e.pc # "list"
    <3>1. poll[o] \in PollState
      BY <1>1
    <3> QED
      BY <3>1, PollLeavesList
  <2> HIDE DEF d, e
  <2>5. poll'[o].pc # "list" /\ \A x \in Objs : x # o => poll'[x] = poll[x]
    BY <1>1, <2>3, <2>4
  <2> QED
    BY <1>2, <2>5
<1>3. ASSUME PollSeesTurn(o)
      PROVE  \A p \in Objs : q[p].activeTurn # NoTurn => q'[p].activeTurn # NoTurn
  <2>1. poll[o].thread \in Threads
    BY <1>3, PollTypes DEF PollSeesTurn
  <2>2. PICK a \in Answers(poll[o].seen, poll[o].thread) :
          a.active /\ q' = Learnt(o, a.turn, poll[o].thread)
    BY <1>3 DEF PollSeesTurn
  <2>3. a.turn # NoTurn /\ a.turn \in 0..MaxTurn
    BY <2>1, <2>2, TrueAnswers
  <2>4. \A p \in Objs : Learnt(o, a.turn, poll[o].thread)[p].activeTurn
                          = IF p = o THEN a.turn ELSE q[p].activeTurn
    BY <2>1, <2>3, LearntFields
  <2> QED
    BY <2>2, <2>3, <2>4
<1>4. ASSUME NEW x \in Objs, poll[o].pc # "idle", PollGoesOn(o, x)
      PROVE  \A p \in Objs : q'[p].activeTurn = IF p = x THEN NoTurn ELSE q[p].activeTurn
  <2> DEFINE t == poll[o].thread
             y == slot[t]
             a == IF x = y THEN NoTurn ELSE q[y].activeTurn
  <2>1. /\ t \in Threads /\ y \in Objs
        /\ \A p \in Objs : /\ q'[p].items = q[p].items
                           /\ q[p].blocked => q'[p].blocked
                           /\ q'[p].activeTurn = IF p = x THEN NoTurn ELSE q[p].activeTurn
                           /\ p # y => q'[p].watcher = q[p].watcher
                           /\ p # y /\ p # x => q'[p] = q[p]
        /\ StartsHead(call, call', [q[y] EXCEPT !.activeTurn = a], t, y)
    BY <1>4, PollGoesOnFields
  <2> QED
    BY <2>1
<1>5. ASSUME PollSeesIdle(o), NEW t \in Threads, run[t].active
      PROVE  q'[slot[t]].activeTurn = q[slot[t]].activeTurn
  <2>1. /\ poll[o].pc = "list" /\ poll[o].thread \notin Drafts /\ PollGoesOn(o, o)
        /\ poll[o].thread \in Threads
    BY <1>5, PollTypes DEF PollSeesIdle
  <2>2. ~run[poll[o].thread].active
    BY <1>5, <2>1, TrueAnswers DEF PollSeesIdle
  <2>3. slot[t] # o
    BY <1>5, <2>1, <2>2 DEF NewsInv, PollsOwn
  <2> QED
    BY <1>1, <1>4, <2>1, <2>3
<1>6. ASSUME StatusIdle(o), NEW t \in Threads, run[t].active
      PROVE  q'[slot[t]].activeTurn = q[slot[t]].activeTurn
  <2>1. poll[o].pc # "idle" /\ PollGoesOn(o, slot[poll[o].thread]) /\ poll[o].thread \in Threads
    BY <1>6, PollTypes DEF StatusIdle
  <2>2. ~run[poll[o].thread].active
    BY <1>6, <2>1, TrueAnswers DEF StatusIdle
  <2>3. slot[t] # slot[poll[o].thread]
    BY <1>6, <2>1, <2>2 DEF PlacesInv, SlotsApart
  <2> QED
    BY <1>1, <1>4, <2>1, <2>3
<1>7. ASSUME PollFallsBack(o) \/ StatusSettlesNothing(o)
      PROVE  UNCHANGED q
  BY <1>7 DEF PollFallsBack, StatusSettlesNothing
<1>8. \A t \in Threads : run[t].active /\ q[slot[t]].activeTurn # NoTurn =>
        q'[slot[t]].activeTurn # NoTurn
  BY <1>1, <1>3, <1>5, <1>6, <1>7 DEF PollStep
<1> QED
  BY <1>1, <1>2, <1>8, NewsStay

\* What is left of a thread's notifications once the first one is handled.
LEMMA LastNote ==
  ASSUME NEW s \in Seq(Note), s # <<>>
  PROVE  /\ Tail(s) \in Seq(Note) /\ Head(s) \in Note
         /\ Tail(s) = <<>> => s[Len(s)] = Head(s)
         /\ Tail(s) # <<>> => Tail(s)[Len(Tail(s))] = s[Len(s)]
<1>1. /\ Head(s) \in Note /\ Tail(s) \in Seq(Note) /\ Len(Tail(s)) = Len(s) - 1
      /\ \A i \in 1..Len(Tail(s)) : Tail(s)[i] = s[i + 1]
      /\ Head(s) = s[1] /\ Len(s) \in Nat /\ Len(s) # 0
  BY HeadTailProperties, LenProperties, EmptySeq
<1>2. Tail(s) = <<>> <=> Len(Tail(s)) = 0
  BY <1>1, EmptySeq
<1>3. Tail(s) # <<>> => Len(Tail(s)) \in 1..Len(Tail(s)) /\ Len(Tail(s)) + 1 = Len(s)
  BY <1>1, <1>2
<1> QED
  BY <1>1, <1>2, <1>3

LEMMA NewsThreadStep ==
  ASSUME TypeOK, TruthfulNews, PlacesInv, NewsInv, NEW t \in Threads, ThreadStep(t)
  PROVE  NewsInv'
<1>1. q \in [Objs -> QueueState] /\ slot[t] \in Objs /\ q[slot[t]] \in QueueState
      /\ poll \in [Objs -> PollState] /\ notes \in [Threads -> Seq(Note)]
      /\ \A u \in Threads : slot[u] \in Objs /\ (u # t => slot[u] # slot[t])
  BY SlotType DEF TypeOK, PlacesInv, SlotsApart
<1>2. NoTurn \in 0..MaxTurn
  BY ConstantsAssumption DEF NoTurn, ConstantsAssumption
<1>3. Heeded(t)
  BY DEF NewsInv
<1>4. ASSUME UNCHANGED <<slot, run, poll>>, notes[t] # <<>>,
             notes' = [notes EXCEPT ![t] = Tail(@)],
             \A p \in Objs : p # slot[t] => q'[p] = q[p],
             run[t].active /\ Head(notes[t]).kind = "started" => q'[slot[t]].activeTurn # NoTurn
      PROVE  NewsInv'
  <2>1. PollsOwn'
    BY <1>4, PollsStay
  <2>2. ASSUME NEW u \in Threads, u # t
        PROVE  Heeded(u)'
    BY <1>1, <1>4, <2>2 DEF NewsInv, Heeded
  <2>3. Heeded(t)'
    <3>1. SUFFICES ASSUME run[t].active
                   PROVE  IF notes'[t] = <<>> THEN q'[slot[t]].activeTurn # NoTurn
                          ELSE notes'[t][Len(notes'[t])] = [kind |-> "started", turn |-> run[t].turn]
      BY <1>3, <1>4 DEF Heeded
    <3>2. notes[t][Len(notes[t])] = [kind |-> "started", turn |-> run[t].turn]
      BY <1>3, <1>4, <3>1 DEF Heeded
    <3>3. notes'[t] = Tail(notes[t])
      BY <1>1, <1>4
    <3>4. CASE Tail(notes[t]) = <<>>
      <4>1. notes[t][Len(notes[t])] = Head(notes[t])
        BY <1>1, <1>4, <3>4, LastNote
      <4>2. Head(notes[t]).kind = "started"
        BY <3>2, <4>1
      <4> QED
        BY <1>4, <3>1, <3>3, <3>4, <4>2
    <3>5. CASE Tail(notes[t]) # <<>>
      BY <1>1, <1>4, <3>2, <3>3, <3>5, LastNote
    <3> QED
      BY <3>4, <3>5
  <2> QED
    BY <2>1, <2>2, <2>3 DEF NewsInv
<1>5. ASSUME NoteStarted(t)
      PROVE  NewsInv'
  <2> DEFINE n == Head(notes[t]).turn
             R == Heard(q, slot[t], n, t)
  <2>1. /\ q' = R /\ notes' = [notes EXCEPT ![t] = Tail(@)] /\ notes[t] # <<>>
        /\ UNCHANGED <<slot, run, poll>>
    BY <1>5 DEF NoteStarted
  <2>2. n \in Turns
    <3>1. Head(notes[t]) \in Note
      BY <1>1, <2>1, LastNote
    <3> QED
      BY <3>1 DEF Note
  <2>3. n \in 0..MaxTurn /\ n # NoTurn
    BY <2>2, ConstantsAssumption DEF Turns, NoTurn, ConstantsAssumption
  <2>4. /\ R[slot[t]].items = q[slot[t]].items /\ R[slot[t]].activeTurn = n
        /\ \A p \in Objs : p # slot[t] => R[p] = q[p]
    BY <1>1, <2>3, HeardFields
  <2> HIDE DEF R, n
  <2> QED
    BY <1>4, <2>1, <2>3, <2>4
<1>6. ASSUME NoteCompleted(t)
      PROVE  NewsInv'
  <2> DEFINE n == IF q[slot[t]].activeTurn = Head(notes[t]).turn THEN NoTurn
                  ELSE q[slot[t]].activeTurn
             s == [q[slot[t]] EXCEPT !.activeTurn = n]
  <2>1. /\ Publish(t, s, files')
        /\ notes' = [notes EXCEPT ![t] = Tail(@)] /\ notes[t] # <<>>
        /\ Head(notes[t]).kind = "completed" /\ UNCHANGED <<slot, run, poll>>
    BY <1>6 DEF NoteCompleted
  <2>2. n \in 0..MaxTurn
    <3>1. q[slot[t]].activeTurn \in 0..MaxTurn
      BY <1>1, FieldTypes
    <3> QED
      BY <1>2, <3>1
  <2>3. s \in QueueState
    BY <1>1, <2>2, FieldTypes
  <2> HIDE DEF s
  <2>4. \A p \in Objs : p # slot[t] => q'[p] = q[p]
    BY <2>1, <2>3, PublishFields
  <2> QED
    BY <1>4, <2>1, <2>4
<1>7. ASSUME SynchronizeActiveTurn(t)
      PROVE  NewsInv'
  <2>1. PICK a \in Answers(read[t].seen, t) :
          Publish(t, [q[slot[t]] EXCEPT !.activeTurn = IF a.active THEN a.turn ELSE NoTurn],
                  files')
    BY <1>7 DEF SynchronizeActiveTurn
  <2> DEFINE n == IF a.active THEN a.turn ELSE NoTurn
             s == [q[slot[t]] EXCEPT !.activeTurn = n]
  <2>2. a = run[t] /\ (a.active => n # NoTurn) /\ n \in 0..MaxTurn
    BY <1>2, TrueAnswers
  <2>3. s \in QueueState /\ s.activeTurn = n
    <3>1. q[slot[t]] \in QueueState
      BY <1>1, SlotType
    <3>2. s \in QueueState
      BY <2>2, <3>1, FieldTypes
    <3> QED
      BY <3>1, <3>2 DEF QueueState
  <2>4. Publish(t, s, files')
    BY <2>1
  <2> HIDE DEF s, n
  <2>5. q'[slot[t]].activeTurn = n /\ \A p \in Objs : p # slot[t] => q'[p] = q[p]
    BY <2>3, <2>4, PublishFields
  <2>6. UNCHANGED <<slot, run, notes, poll>>
    BY <1>7 DEF SynchronizeActiveTurn, codexVars
  <2>7. \A u \in Threads : run[u].active /\ q[slot[u]].activeTurn # NoTurn =>
          q'[slot[u]].activeTurn # NoTurn
    BY <1>1, <2>2, <2>5
  <2> QED
    BY <2>6, <2>7, NewsStay
<1>8. ASSUME PollQueue(t)
      PROVE  NewsInv'
  <2>1. /\ UNCHANGED <<q, slot, run, notes>>
        /\ poll' = [poll EXCEPT ![slot[t]] =
                      [pc |-> "list", thread |-> t, msg |-> NoMsg, seen |-> Seen(t)]]
    BY <1>8 DEF PollQueue, codexVars
  <2>2. \A o \in Objs : poll'[o].pc = "list" =>
          \/ poll'[o] = poll[o]
          \/ poll'[o].thread \in Threads /\ slot[poll'[o].thread] = o
    BY <1>1, <2>1
  <2> QED
    BY <2>1, <2>2, NewsStay
<1>9. ASSUME ReadFailed(t)
      PROVE  NewsInv'
  BY <1>9, NewsStay DEF ReadFailed, codexVars
<1> QED
  BY <1>5, <1>6, <1>7, <1>8, <1>9 DEF ThreadStep

LEMMA NewsOfficialStep ==
  ASSUME TypeOK, TruthfulNews, PlacesInv, NewsInv, OfficialStep
  PROVE  NewsInv'
<1>1. /\ notes \in [Threads -> Seq(Note)] /\ run \in [Threads -> Run]
      /\ turns \in 0..MaxTurn /\ MaxTurn \in Nat
  BY ConstantsAssumption DEF TypeOK, ConstantsAssumption
<1>2. ASSUME NEW t \in Threads, t \notin Drafts, Begin(t), UNCHANGED <<q, slot, poll>>
      PROVE  NewsInv'
  <2> DEFINE n == [kind |-> "started", turn |-> turns']
  <2>1. /\ run' = [run EXCEPT ![t] = [turn |-> turns', active |-> TRUE]]
        /\ notes' = [notes EXCEPT ![t] = Append(@, n)] /\ turns' \in Turns
    BY <1>1, <1>2 DEF Begin, Turns
  <2>2. n \in Note
    BY <2>1 DEF Note
  <2>3. n = [kind |-> "started", turn |-> run'[t].turn]
    BY <1>1, <2>1
  <2> HIDE DEF n
  <2>4. /\ notes'[t] = Append(notes[t], n) /\ \A u \in Threads : u # t => notes'[u] = notes[u]
        /\ \A u \in Threads : u # t => run'[u] = run[u]
    BY <1>1, <2>1
  <2>5. notes'[t] # <<>> /\ notes'[t][Len(notes'[t])] = n
    <3>1. notes[t] \in Seq(Note)
      BY <1>1
    <3>2. /\ Append(notes[t], n) # <<>> /\ Len(Append(notes[t], n)) = Len(notes[t]) + 1
          /\ Append(notes[t], n)[Len(notes[t]) + 1] = n
      BY <2>2, <3>1, AppendProperties
    <3> QED
      BY <2>4, <3>2
  <2>6. Heeded(t)'
    BY <1>2, <2>3, <2>5 DEF Heeded
  <2>7. ASSUME NEW u \in Threads, u # t
        PROVE  Heeded(u)'
    BY <1>2, <2>4, <2>7 DEF NewsInv, Heeded
  <2>8. PollsOwn'
    BY <1>2, PollsStay
  <2> QED
    BY <2>6, <2>7, <2>8 DEF NewsInv
<1>3. ASSUME NEW m \in Msgs, AcceptTurn(m)
      PROVE  NewsInv'
  <2>1. PICK c \in Threads :
          /\ \/ c \notin known \cup Drafts
             \/ call[m].thread \notin Drafts /\ c = call[m].thread
          /\ Begin(c)
    BY <1>3 DEF AcceptTurn
  <2>2. UNCHANGED <<q, slot, poll>> /\ c \notin Drafts
    BY <1>3, <2>1 DEF AcceptTurn
  <2> QED
    BY <1>2, <2>1, <2>2
<1>4. ASSUME NEW t \in Threads, OfficialTurn(t)
      PROVE  NewsInv'
  BY <1>2, <1>4 DEF OfficialTurn, serverVars
<1>5. ASSUME NEW t \in Threads, CompleteTurn(t)
      PROVE  NewsInv'
  <2>1. /\ run' = [run EXCEPT ![t].active = FALSE] /\ UNCHANGED <<q, slot, poll>>
        /\ \A u \in Threads : u # t => notes'[u] = notes[u]
    BY <1>1, <1>5 DEF CompleteTurn, serverVars
  <2>2. ~run'[t].active /\ \A u \in Threads : u # t => run'[u] = run[u]
    BY <1>1, <2>1 DEF Run
  <2>3. \A u \in Threads : Heeded(u)'
    BY <2>1, <2>2 DEF NewsInv, Heeded
  <2>4. PollsOwn'
    BY <2>1, PollsStay
  <2> QED
    BY <2>3, <2>4 DEF NewsInv
<1>6. ASSUME NEW t \in Threads, LoseNote(t)
      PROVE  NewsInv'
  BY <1>6 DEF LoseNote, TruthfulNews
<1> QED
  BY <1>3, <1>4, <1>5, <1>6 DEF OfficialStep

LEMMA NewsNext ==
  ASSUME TypeOK, TruthfulNews, DispatchInv, PlacesInv, PolledInv, NewsInv, [Next]_vars
  PROVE  NewsInv'
<1>1. CASE UNCHANGED vars
  BY <1>1, NewsStay DEF vars, serverVars, codexVars
<1>2. CASE SteerAccepted
  BY <1>2, NewsStay DEF SteerAccepted, codexVars
<1>3. ~SteerFailed
  BY DEF SteerFailed, TruthfulNews
<1> QED
  BY <1>1, <1>2, <1>3, NewsClientStep, NewsCallStep, NewsPollStep, NewsThreadStep,
     NewsOfficialStep DEF Next

\* A drain that starts on thread t in this step finds it idle.
LEMMA DispatchesIdle ==
  ASSUME TypeOK, NEW C \in [Msgs -> CallState], NEW u \in Threads, NEW s, NEW o,
         StartsHead(C, call', s, u, o),
         NEW t \in Threads, NEW m \in Msgs, Dispatches(t, m),
         C[m] = call[m] \/ C[m].pc = "idle"
  PROVE  t = u /\ s.activeTurn = NoTurn
<1>1. \/ call'[m] = C[m]
      \/ s.activeTurn = NoTurn /\ call'[m].thread = u
  BY StartsHeadCalls
<1>2. call'[m] # C[m]
  BY DEF Dispatches, InFlight
<1> QED
  BY <1>1, <1>2 DEF Dispatches

LEMMA WaitsStep ==
  ASSUME TypeOK, TruthfulNews, NewsInv, Next, NEW t \in Threads, NEW m \in Msgs,
         Dispatches(t, m), run[t].active
  PROVE  StartUnheard(t)
<1>1. call \in [Msgs -> CallState] /\ call'[m] # call[m] /\ call'[m].pc = "usage" /\ call'[m].drain
      /\ call[m].pc = "idle"
  BY DEF TypeOK, Dispatches, InFlight
<1>2. Heeded(t)
  BY DEF NewsInv
<1>3. notes[t] # <<>> => StartUnheard(t)
  <2>1. notes[t] \in Seq(Note)
    BY DEF TypeOK
  <2>2. notes[t] # <<>> => Len(notes[t]) \in DOMAIN notes[t]
    BY <2>1, LenProperties, EmptySeq
  <2> QED
    BY <1>2, <2>2 DEF Heeded, StartUnheard
<1>4. ASSUME NEW u \in Threads, NEW s \in QueueState, NEW up, Publish(u, s, up),
             s.activeTurn = NoTurn => u # t \/ q[slot[u]].activeTurn = NoTurn \/ notes[t] # <<>>
      PROVE  StartUnheard(t)
  <2>1. StartsHead(call, call', s, u, slot[u])
    BY <1>4, PublishFields
  <2>2. t = u /\ s.activeTurn = NoTurn
    BY <1>1, <2>1, DispatchesIdle
  <2> QED
    BY <1>2, <1>3, <1>4, <2>2 DEF Heeded
<1>5. ASSUME NEW u \in Threads, NEW x \in Msgs, QueueTurn(u, x)
      PROVE  StartUnheard(t)
  <2> DEFINE s == [q[slot[u]] EXCEPT !.items = Append(@, x)]
  <2>1. s \in QueueState /\ s.activeTurn = q[slot[u]].activeTurn
    <3>1. q[slot[u]].items \in Seq(Msgs) /\ q[slot[u]] \in QueueState
      BY SlotType, FieldTypes
    <3>2. Append(q[slot[u]].items, x) \in Seq(Msgs)
      BY <3>1, AppendProperties
    <3> QED
      BY <3>1, <3>2, FieldTypes DEF QueueState
  <2>2. Publish(u, s, files)
    BY <1>5 DEF QueueTurn
  <2> HIDE DEF s
  <2> QED
    BY <1>4, <2>1, <2>2
<1>6. ASSUME NEW u \in Threads, NEW x \in Msgs, \/ RemoveQueuedTurn(u, x)
                                                \/ UpdateQueuedTurn(u, x)
                                                \/ ReorderQueuedTurn(u, x)
      PROVE  StartUnheard(t)
  <2>1. PICK items \in Seq(Msgs), up \in {files, files \ {x}} : Edit(u, x, items, up)
    BY <1>6, EditsAreEdits
  <2> DEFINE s == [q[slot[u]] EXCEPT !.items = items, !.blocked = FALSE]
  <2>2. s \in QueueState /\ s.activeTurn = q[slot[u]].activeTurn
    <3>1. q[slot[u]] \in QueueState
      BY SlotType
    <3> QED
      BY <3>1, FieldTypes DEF QueueState
  <2>3. Publish(u, s, up)
    BY <2>1 DEF Edit
  <2> HIDE DEF s
  <2> QED
    BY <1>4, <2>2, <2>3
<1>7. ASSUME NEW u \in Threads, NEW x \in Msgs, StartTurn(u, x)
      PROVE  FALSE
  <2>1. call' = [call EXCEPT ![x] = NewCall(u, slot[u], FALSE)]
    BY <1>7 DEF StartTurn
  <2>2. ~NewCall(u, slot[u], FALSE).drain
    BY DEF NewCall
  <2>3. call'[m] = NewCall(u, slot[u], FALSE) \/ call'[m] = call[m]
    BY <1>1, <2>1
  <2> QED
    BY <1>1, <2>2, <2>3
<1>8. ASSUME NEW x \in Msgs, CallStep(x)
      PROVE  StartUnheard(t)
  <2>1. CASE UsageAllows(x) \/ Resumed(x) \/ TurnStarted(x) \/ DrainFailed(x)
    <3>1. /\ \/ call' = [call EXCEPT ![x].pc = "resume"] /\ call[x].pc # "idle"
             \/ call' = [call EXCEPT ![x].pc = "sent"] /\ call[x].pc # "idle"
             \/ call' = [call EXCEPT ![x] = NoCall]
      BY <2>1 DEF UsageAllows, Resumed, TurnStarted, DrainFailed
    <3>2. x # m => call'[m] = call[m]
      BY <1>1, <3>1
    <3>3. x = m => call'[m] = NoCall
      BY <1>1, <3>1
    <3> QED
      BY <1>1, <3>2, <3>3 DEF NoCall
  <2>2. CASE DirectFailed(x)
    <3> DEFINE C == [call EXCEPT ![x] = NoCall]
               u == call[x].thread
               y == slot[u]
    <3>1. u \in Threads /\ StartsHead(C, call', q[y], u, y)
      BY <2>2, DirectFailedFields
    <3>2. C \in [Msgs -> CallState] /\ (C[m] = call[m] \/ C[m].pc = "idle")
      BY <1>1, ObjTypes DEF NoCall
    <3> HIDE DEF C, u
    <3> DEFINE s == q[y]
    <3>3. StartsHead(C, call', s, u, y) /\ s = q[slot[u]]
      BY <3>1
    <3> HIDE DEF s, y
    <3>4. t = u /\ s.activeTurn = NoTurn
      BY <3>1, <3>2, <3>3, DispatchesIdle
    <3> QED
      BY <1>2, <1>3, <3>3, <3>4 DEF Heeded
  <2> QED
    BY <1>8, <2>1, <2>2 DEF CallStep
<1>9. ASSUME NEW o \in Objs, PollStep(o)
      PROVE  StartUnheard(t)
  <2>1. CASE PollSeesTurn(o) \/ PollFallsBack(o) \/ StatusSettlesNothing(o)
    BY <1>1, <2>1 DEF PollSeesTurn, PollFallsBack, StatusSettlesNothing
  <2>2. CASE PollSeesIdle(o) \/ StatusIdle(o)
    <3> DEFINE u == poll[o].thread
               y == slot[u]
    <3>1. PICK x \in {o, y}, a \in Answers(poll[o].seen, u) :
            poll[o].pc # "idle" /\ PollGoesOn(o, x) /\ ~a.active
      BY <2>2 DEF PollSeesIdle, StatusIdle
    <3>2. u \in Threads
      BY <3>1, PollTypes
    <3>3. x \in Objs
      BY <3>1, <3>2, SlotType
    <3> DEFINE s == [q[y] EXCEPT !.activeTurn = IF x = y THEN NoTurn ELSE q[y].activeTurn]
    <3>4. StartsHead(call, call', s, u, y)
      BY <3>1, <3>3, PollGoesOnFields
    <3>5. ~run[u].active
      BY <3>1, <3>2, TrueAnswers
    <3> HIDE DEF s, u, y
    <3>6. t = u
      BY <1>1, <3>2, <3>4, DispatchesIdle
    <3> QED
      BY <3>5, <3>6
  <2> QED
    BY <1>9, <2>1, <2>2 DEF PollStep
<1>10. ASSUME NEW u \in Threads, ThreadStep(u)
       PROVE  StartUnheard(t)
  <2>1. q[slot[u]] \in QueueState /\ NoTurn \in 0..MaxTurn
    BY SlotType, ConstantsAssumption DEF NoTurn, ConstantsAssumption
  <2>2. CASE NoteStarted(u) \/ PollQueue(u) \/ ReadFailed(u)
    BY <1>1, <2>2 DEF NoteStarted, PollQueue, ReadFailed
  <2>3. CASE NoteCompleted(u)
    <3> DEFINE n == IF q[slot[u]].activeTurn = Head(notes[u]).turn THEN NoTurn
                    ELSE q[slot[u]].activeTurn
               s == [q[slot[u]] EXCEPT !.activeTurn = n]
    <3>1. n \in 0..MaxTurn
      <4>1. q[slot[u]].activeTurn \in 0..MaxTurn
        BY <2>1, FieldTypes
      <4> QED
        BY <2>1, <4>1
    <3>2. s \in QueueState
      BY <2>1, <3>1, FieldTypes
    <3>3. Publish(u, s, files') /\ notes[u] # <<>>
      BY <2>3 DEF NoteCompleted
    <3> HIDE DEF s
    <3> QED
      BY <1>4, <3>2, <3>3
  <2>4. CASE SynchronizeActiveTurn(u)
    <3>1. PICK a \in Answers(read[u].seen, u) :
            Publish(u, [q[slot[u]] EXCEPT !.activeTurn = IF a.active THEN a.turn ELSE NoTurn],
                    files')
      BY <2>4 DEF SynchronizeActiveTurn
    <3> DEFINE n == IF a.active THEN a.turn ELSE NoTurn
               s == [q[slot[u]] EXCEPT !.activeTurn = n]
    <3>2. a = run[u] /\ (a.active => n # NoTurn) /\ n \in 0..MaxTurn
      BY <2>1, TrueAnswers
    <3>3. s \in QueueState /\ s.activeTurn = n
      <4>1. q[slot[u]] \in QueueState
        BY <2>1, SlotType
      <4>2. s \in QueueState
        BY <3>2, <4>1, FieldTypes
      <4> QED
        BY <4>1, <4>2 DEF QueueState
    <3>4. Publish(u, s, files')
      BY <3>1
    <3> HIDE DEF s, n
    <3>5. s.activeTurn = NoTurn => u # t
      BY <3>2, <3>3
    <3> QED
      BY <1>4, <3>3, <3>4, <3>5
  <2> QED
    BY <1>10, <2>2, <2>3, <2>4 DEF ThreadStep
<1>11. ASSUME OfficialStep
       PROVE  FALSE
  <2>1. ASSUME NEW x \in Msgs, AcceptTurn(x)
        PROVE  FALSE
    <3>1. PICK c \in Threads :
            call' = [call EXCEPT ![x].pc = "accepted", ![x].turn = turns', ![x].canon = c]
      BY <2>1 DEF AcceptTurn
    <3>2. call[x].pc = "sent"
      BY <2>1 DEF AcceptTurn
    <3> QED
      BY <1>1, <3>1, <3>2
  <2> QED
    BY <1>1, <1>11, <2>1 DEF OfficialStep, OfficialTurn, CompleteTurn, LoseNote, serverVars
<1>12. ASSUME SteerAccepted \/ SteerFailed
       PROVE  FALSE
  BY <1>1, <1>12 DEF SteerAccepted, SteerFailed
<1>13. ASSUME \/ \E u \in Threads : CreateThread(u) \/ OpenThread(u) \/ \E n \in Turns : SteerTurn(u, n)
              \/ \E x \in Msgs : QueueRefused(x) \/ RemoveAttachment(x) \/ PurgeExpiredUpload(x)
       PROVE  FALSE
  BY <1>1, <1>13 DEF CreateThread, OpenThread, SteerTurn, QueueRefused, RemoveAttachment,
                     PurgeExpiredUpload
<1> QED
  BY <1>5, <1>6, <1>7, <1>8, <1>9, <1>10, <1>11, <1>12, <1>13 DEF Next, ClientStep

\* While the news of turns is true and is not lost, no queued message is sent
\* during a turn the server has been told of.
THEOREM QueuedWorkWaitsHolds ==
  ASSUME TruthfulNews
  PROVE  Spec => QueuedWorkWaits
<1>1. "earlyId" \notin Faults
  BY DEF TruthfulNews
<1>2. Init => NewsInv
  BY DEF Init, NewsInv, PollsOwn, Heeded, NoPoll, Asleep
<1>3. TypeOK /\ DispatchInv /\ PlacesInv /\ PolledInv /\ NewsInv /\ [Next]_vars => NewsInv'
  BY NewsNext
<1>4. TypeOK /\ NewsInv /\ [Next]_vars =>
        [\A t \in Threads, m \in Msgs : Dispatches(t, m) /\ run[t].active => StartUnheard(t)]_vars
  BY WaitsStep
<1>5. Spec => []PlacesInv /\ []PolledInv
  BY <1>1, PlacesKept, PolledKept
<1> QED
  BY <1>2, <1>3, <1>4, <1>5, TypeCorrect, DispatchSafe, PTL DEF Spec, QueuedWorkWaits

-----------------------------------------------------------------------------
(* The turn queue keeps the promise of MessageDispatch                     *)

LEMMA PromiseWithout ==
  ASSUME NEW s, NEW m
  PROVE  Promise!Without(s, m) = Without(s, m)
<1>1. \A i : Promise!RemoveAt(s, i) = RemoveAt(s, i)
  BY DEF Promise!RemoveAt, RemoveAt
<1> QED
  BY <1>1 DEF Promise!Without, Without, Has, IndexOf

LEMMA PromiseInsertAt ==
  ASSUME NEW s, NEW i, NEW m
  PROVE  Promise!InsertAt(s, i, m) = InsertAt(s, i, m)
BY DEF Promise!InsertAt, InsertAt

LEMMA PromiseWaits ==
  ASSUME TypeOK, NEW t \in Threads, NEW m
  PROVE  Promise!Waits(t, m) <=> Has(q[slot[t]].items, m)
BY DEF Promise!Waits, Lines, Has

LEMMA PutFirst ==
  ASSUME NEW S, NEW s \in Seq(S), NEW e \in S
  PROVE  InsertAt(s, 1, e) = <<e>> \o s
<1> DEFINE r == InsertAt(s, 1, e)
           f == <<e>>
           w == f \o s
<1>1. Len(s) \in Nat /\ 1 \in 1..Len(s) + 1
  BY LenProperties
<1>2. /\ r \in Seq(S) /\ Len(r) = Len(s) + 1
      /\ \A k \in 1..Len(s) + 1 : r[k] = IF k < 1 THEN s[k] ELSE IF k = 1 THEN e ELSE s[k - 1]
  BY <1>1, InsertAtDef
<1>3. f \in Seq(S) /\ Len(f) = 1 /\ f[1] = e
  OBVIOUS
<1> HIDE DEF r, f
<1>4. /\ w \in Seq(S) /\ Len(w) = Len(f) + Len(s)
      /\ \A k \in 1..Len(f) + Len(s) : w[k] = IF k <= Len(f) THEN f[k] ELSE s[k - Len(f)]
  BY <1>3, ConcatProperties
<1> HIDE DEF w
<1>5. Len(r) = Len(w) /\ \A k \in 1..Len(r) : r[k] = w[k]
  BY <1>1, <1>2, <1>3, <1>4
<1>6. r = w
  BY <1>2, <1>4, <1>5, SeqEqual
<1> QED
  BY <1>6 DEF r, f, w

\* A message that is handed over is the one its queue is sending.
LEMMA HandedIsSent ==
  ASSUME TypeOK, DispatchInv, NEW m \in Msgs, m \in HandedOver
  PROVE  \E o \in Objs : q[o].sending = m /\ call[m].obj = o /\ Has(q[o].items, m)
<1>1. call[m].pc # "idle" /\ call[m].drain
  BY DEF HandedOver, InFlight
<1>2. call[m].obj \in Objs
  BY <1>1, CallTypes
<1>3. q[call[m].obj].sending = m
  BY <1>1, <1>2 DEF DispatchInv, WellDispatched, Sends
<1> QED
  BY <1>2, <1>3 DEF DispatchInv, WellDispatched

\* A queued message its queue is not sending is in nobody's hands.
LEMMA EditedIsNotHanded ==
  ASSUME TypeOK, DispatchInv, NEW y \in Objs, NEW m \in Msgs, Has(q[y].items, m), q[y].sending # m
  PROVE  m \notin HandedOver
<1> SUFFICES ASSUME m \in HandedOver
             PROVE  FALSE
  OBVIOUS
<1>1. PICK o \in Objs : q[o].sending = m /\ Has(q[o].items, m)
  BY HandedIsSent
<1>2. o = y
  BY <1>1 DEF DispatchInv, WellDispatched
<1> QED
  BY <1>1, <1>2

\* The drain of thread t on calls C hands over the first message of a line none of
\* whose messages is out.
LEMMA LaunchHandsOver ==
  ASSUME TypeOK, TypeOK', DispatchInv', UNCHANGED slot,
         NEW C \in [Msgs -> CallState], NEW t \in Threads, NEW s,
         StartsHead(C, call', s, t, slot[t]), q'[slot[t]].items = s.items,
         \A x \in Msgs : call'[x] # C[x] => C[x].pc = "idle",
         NEW kept, kept = {x \in Msgs : C[x].pc # "idle" /\ C[x].drain}
  PROVE  /\ Promise!HandsOver(kept)
         /\ Running' = {x \in Msgs : C[x].pc = "accepted"}
<1>1. slot[t] \in Objs
  BY SlotType
<1>2. \A x \in Msgs : call'[x] = C[x] \/ ( /\ s.items # <<>> /\ x = Head(s.items)
                                           /\ s.activeTurn = NoTurn /\ ~s.blocked /\ ~s.draining
                                           /\ call'[x].pc = "usage" /\ call'[x].thread = t
                                           /\ call'[x].drain /\ call'[x].obj = slot[t] )
  BY <1>1, StartsHeadCalls
<1>3. kept \subseteq HandedOver'
  BY <1>2 DEF HandedOver, InFlight
<1>4. ASSUME NEW m \in HandedOver' \ kept
      PROVE  /\ Lines'[t] # <<>> /\ m = Head(Lines'[t])
             /\ \A i \in DOMAIN Lines'[t] : Lines'[t][i] \in HandedOver' => Lines'[t][i] = m
  <2>1. m \in Msgs /\ call'[m] # C[m] /\ call'[m].pc # "idle" /\ call'[m].drain
    BY <1>4 DEF HandedOver, InFlight
  <2>2. s.items # <<>> /\ m = Head(s.items) /\ call'[m].obj = slot[t]
    BY <1>2, <2>1
  <2>3. Lines'[t] = s.items
    BY DEF Lines
  <2>4. q'[slot[t]].sending = m
    BY <1>1, <2>1, <2>2 DEF DispatchInv, WellDispatched, Sends
  <2>5. ASSUME NEW i \in DOMAIN Lines'[t], Lines'[t][i] \in HandedOver'
        PROVE  Lines'[t][i] = m
    <3> DEFINE x == Lines'[t][i]
    <3>1. x \in Msgs /\ call'[x].pc # "idle" /\ call'[x].drain
      BY <2>5 DEF HandedOver, InFlight
    <3>2. Has(q'[slot[t]].items, x)
      BY <2>3, <2>5 DEF Has
    <3> HIDE DEF x
    <3>3. call'[x].obj \in Objs
      BY <3>1, ObjTypes DEF TypeOK, CallState, Calls, NoCall
    <3>4. q'[call'[x].obj].sending = x
      BY <3>1, <3>3 DEF DispatchInv, WellDispatched, Sends
    <3>5. Has(q'[call'[x].obj].items, x)
      BY <3>1, <3>3, <3>4 DEF DispatchInv, WellDispatched
    <3>6. call'[x].obj = slot[t]
      BY <1>1, <3>1, <3>2, <3>3, <3>5 DEF DispatchInv, WellDispatched
    <3> QED
      BY <2>4, <3>4, <3>6 DEF x
  <2> QED
    BY <2>2, <2>3, <2>5
<1>5. Promise!HandsOver(kept)
  BY <1>3, <1>4 DEF Promise!HandsOver
<1>6. Running' = {x \in Msgs : C[x].pc = "accepted"}
  <2>1. \A x \in Msgs : call'[x].pc = "accepted" <=> C[x].pc = "accepted"
    BY <1>2
  <2> QED
    BY <2>1 DEF Running
<1> QED
  BY <1>5, <1>6

\* No call that a drain of an idle queue replaces is in flight.
LEMMA LaunchFindsIdle ==
  ASSUME TypeOK, DispatchInv, NEW C \in [Msgs -> CallState],
         \A x \in Msgs : C[x] = call[x] \/ C[x].pc = "idle",
         NEW t \in Threads, NEW y \in Objs, NEW s, s.items \in Seq(Msgs),
         s.draining = q[y].draining,
         \A x \in Msgs : Has(s.items, x) => Has(q[y].items, x) \/ stage[x] = "new",
         StartsHead(C, call', s, t, y)
  PROVE  \A x \in Msgs : call'[x] # C[x] => C[x].pc = "idle"
<1> SUFFICES ASSUME NEW x \in Msgs, call'[x] # C[x]
             PROVE  C[x].pc = "idle"
  OBVIOUS
<1>1. s.items # <<>> /\ x = Head(s.items) /\ ~s.draining
  BY StartsHeadCalls
<1>2. Has(s.items, x)
  BY <1>1, HeadIsIn
<1>3. CASE stage[x] = "new"
  BY <1>3 DEF DispatchInv, WellDispatched
<1>4. CASE Has(q[y].items, x)
  <2>1. call[x].pc = "idle"
    BY <1>1, <1>4, HeadIsIdle
  <2> QED
    BY <2>1
<1> QED
  BY <1>2, <1>3, <1>4

\* Every handler that publishes the queue of t in state s.
LEMMA PublishPromise ==
  ASSUME TypeOK, TypeOK', DispatchInv, DispatchInv', PlacesInv, UNCHANGED slot,
         NEW t \in Threads, NEW s \in QueueState, NEW up, Publish(t, s, up),
         s.draining = q[slot[t]].draining,
         \A x \in Msgs : Has(s.items, x) => Has(q[slot[t]].items, x) \/ stage[x] = "new"
  PROVE  /\ Promise!HandsOver(HandedOver) /\ Running' = Running
         /\ Lines' = [Lines EXCEPT ![t] = s.items]
<1>1. slot \in [Threads -> Objs] /\ s.items \in Seq(Msgs) /\ call \in [Msgs -> CallState]
  BY FieldTypes DEF TypeOK
<1>2. /\ q'[slot[t]].items = s.items /\ \A o \in Objs : o # slot[t] => q'[o] = q[o]
      /\ StartsHead(call, call', s, t, slot[t])
  BY PublishFields
<1>3. \A x \in Msgs : call'[x] # call[x] => call[x].pc = "idle"
  BY <1>1, <1>2, LaunchFindsIdle
<1>4. HandedOver = {x \in Msgs : call[x].pc # "idle" /\ call[x].drain}
  BY DEF HandedOver, InFlight
<1>5. /\ Promise!HandsOver(HandedOver)
      /\ Running' = {x \in Msgs : call[x].pc = "accepted"}
  BY <1>1, <1>2, <1>3, <1>4, LaunchHandsOver
<1>6. Lines' = [Lines EXCEPT ![t] = s.items]
  <2>1. \A u \in Threads : u # t => slot[u] # slot[t]
    BY DEF PlacesInv, SlotsApart
  <2> QED
    BY <1>1, <1>2, <2>1 DEF Lines
<1> QED
  BY <1>5, <1>6 DEF Running

\* A handler that may drain the queue of a thread but changes none of its items.
LEMMA DrainedPromise ==
  ASSUME TypeOK, TypeOK', DispatchInv, DispatchInv', PlacesInv, UNCHANGED <<slot, stage>>,
         NEW t \in Threads, NEW s, StartsHead(call, call', s, t, slot[t]),
         s.items = q[slot[t]].items, s.draining = q[slot[t]].draining,
         \A o \in Objs : q'[o].items = q[o].items
  PROVE  Promise!Next
<1>1. slot[t] \in Objs /\ q[slot[t]].items \in Seq(Msgs) /\ call \in [Msgs -> CallState]
      /\ \A u \in Threads : slot[u] \in Objs
  BY SlotType, FieldTypes DEF TypeOK
<1>2. \A x \in Msgs : call'[x] # call[x] => call[x].pc = "idle"
  BY <1>1, LaunchFindsIdle
<1>3. HandedOver = {x \in Msgs : call[x].pc # "idle" /\ call[x].drain}
  BY DEF HandedOver, InFlight
<1>4. q'[slot[t]].items = s.items
  BY <1>1
<1>5. /\ Promise!HandsOver(HandedOver)
      /\ Running' = {x \in Msgs : call[x].pc = "accepted"}
  BY <1>1, <1>2, <1>3, <1>4, LaunchHandsOver
<1>6. Lines' = Lines /\ Running' = Running
  BY <1>1, <1>5 DEF Lines, Running
<1> QED
  BY <1>5, <1>6 DEF Promise!Next, Promise!HandOver

LEMMA NewsPromise ==
  ASSUME TypeOK, TypeOK', DispatchInv, DispatchInv', PlacesInv, UNCHANGED <<slot, stage>>,
         NEW t \in Threads, NEW n \in 0..MaxTurn, NEW up,
         Publish(t, [q[slot[t]] EXCEPT !.activeTurn = n], up)
  PROVE  Promise!Next
<1> DEFINE s == [q[slot[t]] EXCEPT !.activeTurn = n]
<1>1. slot[t] \in Objs /\ q[slot[t]] \in QueueState
  BY SlotType
<1>2. /\ s \in QueueState /\ s.items = q[slot[t]].items
      /\ s.draining = q[slot[t]].draining /\ Publish(t, s, up)
  BY <1>1, FieldTypes DEF QueueState
<1> HIDE DEF s
<1>3. /\ q'[slot[t]].items = s.items
      /\ \A o \in Objs : o # slot[t] => q'[o] = q[o]
      /\ StartsHead(call, call', s, t, slot[t])
  BY <1>2, PublishFields
<1>4. \A o \in Objs : q'[o].items = q[o].items
  BY <1>2, <1>3
<1> QED
  BY <1>2, <1>3, <1>4, DrainedPromise

\* Steps the promise does not see.
LEMMA UnseenPromise ==
  ASSUME TypeOK, UNCHANGED <<slot, stage>>, \A o \in Objs : q'[o].items = q[o].items,
         \A x \in Msgs : /\ call'[x].pc # "idle" <=> call[x].pc # "idle"
                         /\ call'[x].pc = "accepted" <=> call[x].pc = "accepted"
                         /\ call'[x].pc # "idle" => call'[x].drain = call[x].drain
  PROVE  UNCHANGED Promise!promiseVars
<1>1. \A t \in Threads : slot[t] \in Objs
  BY SlotType
<1>2. Lines' = Lines
  BY <1>1 DEF Lines
<1>3. HandedOver' = HandedOver
  BY DEF HandedOver, InFlight
<1>4. Running' = Running
  BY DEF Running
<1> QED
  BY <1>2, <1>3, <1>4 DEF Promise!promiseVars

LEMMA PromiseClientStep ==
  ASSUME TypeOK, TypeOK', DispatchInv, DispatchInv', PlacesInv, ClientStep
  PROVE  Promise!Next \/ UNCHANGED Promise!promiseVars
<1>1. /\ q \in [Objs -> QueueState] /\ call \in [Msgs -> CallState]
      /\ \A t \in Threads : slot[t] \in Objs
  BY DEF TypeOK
<1>2. ASSUME NEW t \in Threads, NEW m \in Msgs, StartTurn(t, m)
      PROVE  Promise!Next
  <2> DEFINE c == NewCall(t, slot[t], FALSE)
  <2>1. /\ stage[m] = "new" /\ call' = [call EXCEPT ![m] = c]
        /\ q' = [q EXCEPT ![slot[t]].starting = TRUE]
        /\ stage' = [stage EXCEPT ![m] = "direct"] /\ UNCHANGED slot
    BY <1>2 DEF StartTurn
  <2>2. c.pc = "usage" /\ ~c.drain
    BY DEF NewCall
  <2>3. call[m].pc = "idle"
    BY <2>1 DEF DispatchInv, WellDispatched
  <2> HIDE DEF c
  <2>4. call'[m] = c /\ \A x \in Msgs : x # m => call'[x] = call[x]
    BY <1>1, <2>1
  <2>5. HandedOver' = HandedOver /\ Running' = Running
    BY <2>2, <2>3, <2>4 DEF HandedOver, InFlight, Running
  <2>6. \A o \in Objs : q'[o].items = q[o].items
    BY <1>1, <2>1 DEF QueueState
  <2>7. Lines' = Lines
    BY <1>1, <2>1, <2>6 DEF Lines
  <2>8. Promise!Direct(m)
    BY <2>1, <2>5, <2>7 DEF Promise!Direct, Promise!Becomes
  <2> QED
    BY <2>8 DEF Promise!Next
<1>3. ASSUME NEW t \in Threads, NEW m \in Msgs, QueueTurn(t, m)
      PROVE  Promise!Next
  <2> DEFINE y == slot[t]
             s == [q[y] EXCEPT !.items = Append(@, m)]
  <2>1. /\ s \in QueueState /\ s.items = Append(q[y].items, m) /\ q[y].items \in Seq(Msgs)
        /\ s.draining = q[y].draining
    <3>1. q[y].items \in Seq(Msgs) /\ q[y] \in QueueState
      BY SlotType, FieldTypes
    <3>2. Append(q[y].items, m) \in Seq(Msgs)
      BY <3>1, AppendProperties
    <3> QED
      BY <3>1, <3>2, FieldTypes DEF QueueState
  <2>2. /\ Publish(t, s, files) /\ stage[m] = "new" /\ UNCHANGED slot
        /\ stage' = [stage EXCEPT ![m] = "queued"] /\ Len(q[y].items) < MaxQueued
    BY <1>3 DEF QueueTurn
  <2> HIDE DEF s
  <2>3. \A x \in Msgs : Has(s.items, x) => Has(q[y].items, x) \/ stage[x] = "new"
    BY <2>1, <2>2, AppendHas
  <2>4. /\ Promise!HandsOver(HandedOver) /\ Running' = Running
        /\ Lines' = [Lines EXCEPT ![t] = s.items]
    BY <2>1, <2>2, <2>3, PublishPromise
  <2>5. Lines[t] = q[y].items
    BY DEF Lines
  <2>6. Promise!Queue(t, m)
    BY <2>1, <2>2, <2>4, <2>5 DEF Promise!Queue, Promise!Becomes
  <2> QED
    BY <2>6 DEF Promise!Next
<1>4. ASSUME NEW t \in Threads, NEW m \in Msgs, NEW items \in Seq(Msgs), NEW up,
             Edit(t, m, items, up), \A x \in Msgs : Has(items, x) => Has(q[slot[t]].items, x)
      PROVE  /\ Promise!HandsOver(HandedOver) /\ Running' = Running
             /\ Lines' = [Lines EXCEPT ![t] = items]
             /\ Promise!Waits(t, m) /\ m \notin HandedOver
  <2> DEFINE y == slot[t]
             s == [q[y] EXCEPT !.items = items, !.blocked = FALSE]
  <2>1. s \in QueueState /\ s.items = items /\ s.draining = q[y].draining
    <3>1. q[y] \in QueueState
      BY SlotType
    <3> HIDE DEF y
    <3> QED
      BY <3>1, FieldTypes DEF QueueState
  <2>2. Publish(t, s, up) /\ Has(q[y].items, m) /\ q[y].sending # m /\ UNCHANGED slot
    BY <1>4 DEF Edit
  <2> HIDE DEF s
  <2>3. /\ Promise!HandsOver(HandedOver) /\ Running' = Running
        /\ Lines' = [Lines EXCEPT ![t] = s.items]
    BY <1>4, <2>1, <2>2, PublishPromise
  <2>4. m \notin HandedOver
    BY <1>1, <2>2, EditedIsNotHanded
  <2> QED
    BY <2>1, <2>2, <2>3, <2>4, PromiseWaits
<1>5. ASSUME NEW t \in Threads, NEW m \in Msgs, RemoveQueuedTurn(t, m)
      PROVE  Promise!Next
  <2>1. /\ Edit(t, m, Without(q[slot[t]].items, m), files \ {m})
        /\ stage' = [stage EXCEPT ![m] = "removed"]
    BY <1>5 DEF RemoveQueuedTurn
  <2>2. /\ Without(q[slot[t]].items, m) \in Seq(Msgs)
        /\ \A x : Has(Without(q[slot[t]].items, m), x) => Has(q[slot[t]].items, x)
    <3>1. q[slot[t]].items \in Seq(Msgs)
      BY SlotType, FieldTypes
    <3> QED
      BY <3>1, WithoutProperties
  <2>3. /\ Promise!HandsOver(HandedOver) /\ Running' = Running
        /\ Lines' = [Lines EXCEPT ![t] = Without(q[slot[t]].items, m)]
        /\ Promise!Waits(t, m) /\ m \notin HandedOver
    BY <1>4, <2>1, <2>2
  <2>4. Promise!Without(Lines[t], m) = Without(q[slot[t]].items, m)
    BY PromiseWithout DEF Lines
  <2>5. Promise!TakeBack(t, m)
    BY <2>1, <2>3, <2>4 DEF Promise!TakeBack, Promise!Becomes
  <2> QED
    BY <2>5 DEF Promise!Next
<1>6. ASSUME NEW t \in Threads, NEW m \in Msgs, UpdateQueuedTurn(t, m)
      PROVE  Promise!Next
  <2>1. q[slot[t]].items \in Seq(Msgs)
    BY SlotType, FieldTypes
  <2>2. /\ Promise!HandsOver(HandedOver) /\ Running' = Running
        /\ Lines' = [Lines EXCEPT ![t] = q[slot[t]].items]
    BY <1>4, <1>6, <2>1 DEF UpdateQueuedTurn
  <2>3. Lines' = Lines
    BY <2>2 DEF Lines
  <2>4. UNCHANGED stage
    BY <1>6 DEF UpdateQueuedTurn
  <2> QED
    BY <2>2, <2>3, <2>4 DEF Promise!Next, Promise!HandOver
<1>7. ASSUME NEW t \in Threads, NEW m \in Msgs, ReorderQueuedTurn(t, m)
      PROVE  Promise!Next
  <2> DEFINE s == q[slot[t]].items
  <2>1. PICK i \in DOMAIN s : Edit(t, m, InsertAt(Without(s, m), i, m), files) /\ UNCHANGED stage
    BY <1>7 DEF ReorderQueuedTurn
  <2>2. Has(s, m)
    BY <2>1 DEF Edit
  <2>3. /\ InsertAt(Without(s, m), i, m) \in Seq(Msgs)
        /\ \A x : Has(InsertAt(Without(s, m), i, m), x) <=> Has(s, x)
    BY <2>2, EditedItems
  <2>4. /\ Promise!HandsOver(HandedOver) /\ Running' = Running
        /\ Lines' = [Lines EXCEPT ![t] = InsertAt(Without(s, m), i, m)]
        /\ Promise!Waits(t, m) /\ m \notin HandedOver
    BY <1>4, <2>1, <2>3
  <2>5. Lines[t] = s
    BY DEF Lines
  <2>6. Promise!InsertAt(Promise!Without(Lines[t], m), i, m) = InsertAt(Without(s, m), i, m)
    BY <2>5, PromiseWithout, PromiseInsertAt
  <2> HIDE DEF s
  <2>7. Promise!Move(t, m)
    BY <2>1, <2>4, <2>5, <2>6 DEF Promise!Move
  <2> QED
    BY <2>7 DEF Promise!Next
<1>8. ASSUME NEW m \in Msgs, QueueRefused(m)
      PROVE  Promise!Next
  <2>1. /\ stage[m] = "new" /\ stage' = [stage EXCEPT ![m] = "refused"]
        /\ UNCHANGED <<q, slot, call>>
    BY <1>8 DEF QueueRefused
  <2>2. call[m].pc = "idle"
    BY <2>1 DEF DispatchInv, WellDispatched
  <2>3. Lines' = Lines /\ HandedOver' = HandedOver /\ Running' = Running /\ m \notin Running
    BY <2>1, <2>2 DEF Lines, HandedOver, Running, InFlight
  <2>4. Promise!Refuse(m)
    BY <2>1, <2>3 DEF Promise!Refuse, Promise!Becomes, Promise!HandsOver
  <2> QED
    BY <2>4 DEF Promise!Next
<1>9. ASSUME \/ \E t \in Threads : CreateThread(t) \/ OpenThread(t)
             \/ \E m \in Msgs : RemoveAttachment(m) \/ PurgeExpiredUpload(m)
      PROVE  UNCHANGED Promise!promiseVars
  <2>1. UNCHANGED <<q, slot, call, stage>>
    BY <1>9 DEF CreateThread, OpenThread, RemoveAttachment, PurgeExpiredUpload, historyVars
  <2> QED
    BY <2>1, UnseenPromise
<1>10. ASSUME NEW t \in Threads, NEW n \in Turns, SteerTurn(t, n)
       PROVE  UNCHANGED Promise!promiseVars
  <2> DEFINE R == Heard(q, slot[t], n, t)
  <2>1. n \in 0..MaxTurn
    BY ConstantsAssumption DEF Turns, ConstantsAssumption
  <2>2. R[slot[t]].items = q[slot[t]].items /\ \A o \in Objs : o # slot[t] => R[o] = q[o]
    BY <1>1, <2>1, HeardFields
  <2>3. q' = R /\ UNCHANGED <<slot, call, stage>>
    BY <1>10 DEF SteerTurn
  <2> HIDE DEF R
  <2> QED
    BY <2>2, <2>3, UnseenPromise
<1> QED
  BY <1>2, <1>3, <1>5, <1>6, <1>7, <1>8, <1>9, <1>10 DEF ClientStep

LEMMA PromiseTurnStarted ==
  ASSUME TypeOK, DispatchInv, PlacesInv, NEW m \in Msgs, TurnStarted(m)
  PROVE  Promise!Next
<1> DEFINE c == call[m]
           t == c.thread
           n == c.canon
           rest == [u \in Threads |-> Promise!Without(Lines[u], m)]
<1>1. /\ t \in Threads /\ n \in Threads /\ c.obj \in Objs /\ c.pc = "accepted"
      /\ slot \in [Threads -> Objs] /\ call \in [Msgs -> CallState]
  BY CallTypes DEF TurnStarted, TypeOK
<1>2. /\ slot' = MovedSlot(t, n) /\ call' = [call EXCEPT ![m] = NoCall]
      /\ stage' = [stage EXCEPT ![m] = "sent"]
  BY DEF TurnStarted
<1>3. \A p \in Objs : q'[p].items = Without(q[p].items, m)
  <2>1. \A p \in Objs : q'[p].items = IF p = c.obj /\ c.drain THEN Without(q[p].items, m)
                                      ELSE q[p].items
    BY TurnStartedFields
  <2>2. stage[m] = IF c.drain THEN "queued" ELSE "direct"
    BY <1>1 DEF DispatchInv, WellDispatched
  <2>3. c.drain => q[c.obj].sending = m
    BY <1>1 DEF DispatchInv, WellDispatched, Sends
  <2>4. c.drain => Has(q[c.obj].items, m)
    BY <1>1, <2>3 DEF DispatchInv, WellDispatched
  <2>5. \A p \in Objs : Has(q[p].items, m) => c.drain /\ p = c.obj
    BY <1>1, <2>2, <2>4 DEF DispatchInv, WellDispatched
  <2>6. \A p \in Objs : ~Has(q[p].items, m) => Without(q[p].items, m) = q[p].items
    BY DEF Without
  <2> HIDE DEF c
  <2> QED
    BY <2>1, <2>5, <2>6
<1>4. \A u \in Threads : rest[u] = q'[slot[u]].items
  BY <1>1, <1>3, PromiseWithout DEF Lines
<1>5. m \in Running /\ Running' = Running \ {m} /\ HandedOver' = HandedOver \ {m}
  <2>1. call'[m].pc = "idle" /\ \A x \in Msgs : x # m => call'[x] = call[x]
    BY <1>1, <1>2 DEF NoCall
  <2> QED
    BY <1>1, <2>1 DEF Running, HandedOver, InFlight
<1>6. t # n => /\ t \in Drafts \ drafts /\ slot[t].gen = 0
               /\ n \notin known \cup Drafts
  BY <1>1 DEF PlacesInv, FirstTurnsApart, Migrates
<1> HIDE DEF c, rest
<1>7. CASE t = n
  <2>1. slot' = slot
    BY <1>2, <1>7 DEF MovedSlot
  <2>2. Lines' = rest
    BY <1>4, <2>1 DEF Lines, rest
  <2>3. Promise!Confirm(m, t, n)
    BY <1>2, <1>5, <1>7, <2>2 DEF Promise!Confirm, Promise!Becomes, rest
  <2> QED
    BY <1>1, <2>3 DEF Promise!Next
<1>8. CASE t # n
  <2> DEFINE g == [thread |-> t, gen |-> 1]
  <2>1. /\ slot'[n] = slot[t] /\ slot'[t] = g
        /\ \A u \in Threads : u # t /\ u # n => slot'[u] = slot[u]
    BY <1>1, <1>2, <1>8 DEF MovedSlot
  <2>2. g.gen = 1 /\ g.thread = t /\ g \in Objs
    BY <1>1, ObjTypes
  <2> HIDE DEF g
  <2>3. \A p \in Objs : q[p].items = <<>> => q'[p].items = <<>>
    BY <1>3 DEF Without, Has
  <2>4. rest[n] = <<>>
    <3>1. q[slot[n]].items = <<>>
      BY <1>1, <1>6, <1>8, OwnItems
    <3> QED
      BY <1>1, <1>4, <2>3, <3>1
  <2>5. q'[g].items = <<>>
    <3>1. q[g].items = <<>>
      <4> SUFFICES ASSUME q[g].items # <<>>
                   PROVE  FALSE
        OBVIOUS
      <4>1. PICK u \in known : slot[u] = g
        BY <2>2 DEF PlacesInv, QueuesKept
      <4>2. u = t
        BY <2>2, <4>1 DEF TypeOK, PlacesInv, SlotsApart
      <4> QED
        BY <1>6, <1>8, <2>2, <4>1, <4>2
    <3> QED
      BY <2>2, <2>3, <3>1
  <2>6. Lines' = [rest EXCEPT ![n] = rest[t], ![t] = <<>>]
    <3>1. \A u \in Threads : Lines'[u] = IF u = t THEN <<>> ELSE IF u = n THEN rest[t] ELSE rest[u]
      BY <1>1, <1>4, <1>8, <2>1, <2>5 DEF Lines
    <3> QED
      BY <1>1, <1>8, <3>1 DEF Lines, rest
  <2>7. Promise!Confirm(m, t, n)
    BY <1>2, <1>5, <1>8, <2>4, <2>6 DEF Promise!Confirm, Promise!Becomes, rest
  <2> QED
    BY <1>1, <2>7 DEF Promise!Next
<1> QED
  BY <1>7, <1>8

LEMMA PromiseCallStep ==
  ASSUME TypeOK, TypeOK', DispatchInv, DispatchInv', PlacesInv, NEW m \in Msgs, CallStep(m)
  PROVE  Promise!Next \/ UNCHANGED Promise!promiseVars
<1>1. /\ q \in [Objs -> QueueState] /\ call \in [Msgs -> CallState]
      /\ \A t \in Threads : slot[t] \in Objs
  BY DEF TypeOK
<1>2. ASSUME UsageAllows(m) \/ Resumed(m)
      PROVE  UNCHANGED Promise!promiseVars
  <2>1. /\ call[m].pc \in {"usage", "resume"} /\ UNCHANGED <<q, slot, stage>>
        /\ \/ call' = [call EXCEPT ![m].pc = "resume"]
           \/ call' = [call EXCEPT ![m].pc = "sent"]
    BY <1>2 DEF UsageAllows, Resumed
  <2>2. call[m] \in Calls
    BY <2>1, CallTypes
  <2>3. /\ call'[m].pc \in {"resume", "sent"} /\ call'[m].drain = call[m].drain
        /\ \A x \in Msgs : x # m => call'[x] = call[x]
    BY <1>1, <2>1, <2>2 DEF Calls
  <2>4. \A x \in Msgs : /\ call'[x].pc # "idle" <=> call[x].pc # "idle"
                        /\ call'[x].pc = "accepted" <=> call[x].pc = "accepted"
                        /\ call'[x].pc # "idle" => call'[x].drain = call[x].drain
    BY <2>1, <2>3
  <2> QED
    BY <2>1, <2>4, UnseenPromise
<1>3. ASSUME DrainFailed(m)
      PROVE  Promise!Next
  <2> DEFINE o == call[m].obj
  <2>1. /\ call[m].pc # "idle" /\ o \in Objs /\ Has(q[o].items, m)
        /\ q'[o].items = InsertAt(Without(q[o].items, m), 1, m)
        /\ \A p \in Objs : p # o => q'[p].items = q[p].items
    BY <1>3, DrainFailedFields
  <2>2. /\ CanFail(m) /\ call[m].drain /\ call' = [call EXCEPT ![m] = NoCall]
        /\ UNCHANGED <<slot, stage>>
    BY <1>3 DEF DrainFailed, historyVars
  <2>3. call'[m].pc = "idle" /\ \A x \in Msgs : x # m => call'[x] = call[x]
    BY <1>1, <2>2 DEF NoCall
  <2>4. m \in HandedOver /\ HandedOver' = HandedOver \ {m} /\ Running' = Running \ {m}
    BY <2>1, <2>2, <2>3 DEF HandedOver, Running, InFlight
  <2>5. m \notin Running \/ "ackLoss" \in Faults
    BY <2>2 DEF Running, CanFail
  <2> HIDE DEF o
  <2>6. PICK t \in known : slot[t] = o
    <3>1. q[o].items # <<>>
      BY <2>1 DEF Has
    <3> QED
      BY <2>1, <3>1 DEF PlacesInv, QueuesKept
  <2>7. t \in Threads
    BY DEF TypeOK
  <2>8. Promise!Waits(t, m)
    BY <2>1, <2>6, <2>7, PromiseWaits
  <2>9. InsertAt(Without(q[o].items, m), 1, m) = <<m>> \o Promise!Without(Lines[t], m)
    <3>1. q[o].items \in Seq(Msgs)
      BY <1>1, <2>1, FieldTypes
    <3>2. Without(q[o].items, m) \in Seq(Msgs)
      BY <3>1, WithoutProperties
    <3>3. Promise!Without(Lines[t], m) = Without(q[o].items, m)
      BY <2>6, <2>7, PromiseWithout DEF Lines
    <3> QED
      BY <3>2, <3>3, PutFirst
  <2>10. Lines' = [Lines EXCEPT ![t] = InsertAt(Without(q[o].items, m), 1, m)]
    <3>1. \A u \in Threads : u # t => slot[u] # slot[t]
      BY <2>7 DEF PlacesInv, SlotsApart
    <3> QED
      BY <1>1, <2>1, <2>2, <2>6, <2>7, <3>1 DEF Lines
  <2>11. Promise!GiveBack(m)
    BY <2>2, <2>4, <2>5, <2>7, <2>8, <2>9, <2>10 DEF Promise!GiveBack
  <2> QED
    BY <2>11 DEF Promise!Next
<1>4. ASSUME DirectFailed(m)
      PROVE  Promise!Next
  <2> DEFINE C == [call EXCEPT ![m] = NoCall]
             t == call[m].thread
  <2>1. /\ t \in Threads /\ call[m].pc # "idle" /\ ~call[m].drain
        /\ \A p \in Objs : q'[p].items = q[p].items
        /\ StartsHead(C, call', q[slot[t]], t, slot[t])
    BY <1>4, DirectFailedFields
  <2>2. /\ stage' = [stage EXCEPT ![m] = "refused"] /\ UNCHANGED slot /\ CanFail(m)
    BY <1>4 DEF DirectFailed
  <2>3. C \in [Msgs -> CallState]
    BY <1>1, ObjTypes
  <2>4. C[m].pc = "idle" /\ \A x \in Msgs : x # m => C[x] = call[x]
    BY <1>1 DEF NoCall
  <2>5. stage[m] = "direct"
    BY <2>1 DEF DispatchInv, WellDispatched
  <2>6. m \notin Running \/ "ackLoss" \in Faults
    BY <2>2 DEF Running, CanFail
  <2> HIDE DEF C, t
  <2> DEFINE s == q[slot[t]]
  <2>7. /\ s.items \in Seq(Msgs) /\ q'[slot[t]].items = s.items
        /\ StartsHead(C, call', s, t, slot[t]) /\ slot[t] \in Objs
        /\ s.draining = q[slot[t]].draining
        /\ \A x \in Msgs : Has(s.items, x) => Has(q[slot[t]].items, x)
    BY <1>1, <2>1, FieldTypes
  <2> HIDE DEF s
  <2>8. \A x \in Msgs : call'[x] # C[x] => C[x].pc = "idle"
    <3>1. \A x \in Msgs : C[x] = call[x] \/ C[x].pc = "idle"
      BY <2>4
    <3> QED
      BY <2>1, <2>3, <2>7, <3>1, LaunchFindsIdle
  <2>9. HandedOver = {x \in Msgs : C[x].pc # "idle" /\ C[x].drain}
    BY <2>1, <2>4 DEF HandedOver, InFlight
  <2>10. /\ Promise!HandsOver(HandedOver)
         /\ Running' = {x \in Msgs : C[x].pc = "accepted"}
    BY <2>1, <2>2, <2>3, <2>7, <2>8, <2>9, LaunchHandsOver
  <2>11. Running' = Running \ {m}
    BY <2>4, <2>10 DEF Running
  <2>12. Lines' = Lines
    BY <1>1, <2>1, <2>2 DEF Lines
  <2>13. Promise!Refuse(m)
    BY <2>2, <2>5, <2>6, <2>10, <2>11, <2>12 DEF Promise!Refuse, Promise!Becomes
  <2> QED
    BY <2>13 DEF Promise!Next
<1> QED
  BY <1>2, <1>3, <1>4, PromiseTurnStarted DEF CallStep

LEMMA PromisePollStep ==
  ASSUME TypeOK, TypeOK', DispatchInv, DispatchInv', PlacesInv, NEW o \in Objs, PollStep(o)
  PROVE  Promise!Next \/ UNCHANGED Promise!promiseVars
<1>1. ASSUME PollSeesTurn(o)
      PROVE  UNCHANGED Promise!promiseVars
  <2>1. poll[o].thread \in Threads /\ poll[o].seen \in Run
    BY <1>1, PollTypes DEF PollSeesTurn
  <2>2. PICK a \in Answers(poll[o].seen, poll[o].thread) :
          q' = Learnt(o, a.turn, poll[o].thread)
    BY <1>1 DEF PollSeesTurn
  <2>3. \A p \in Objs : Learnt(o, a.turn, poll[o].thread)[p].items = q[p].items
    BY <2>1, AnswerTypes, LearntFields
  <2>4. UNCHANGED <<slot, call, stage>>
    BY <1>1 DEF PollSeesTurn, historyVars
  <2> QED
    BY <2>2, <2>3, <2>4, UnseenPromise
<1>2. ASSUME PollSeesIdle(o) \/ StatusIdle(o)
      PROVE  Promise!Next
  <2>1. PICK x \in {o, slot[poll[o].thread]} : poll[o].pc # "idle" /\ PollGoesOn(o, x)
    BY <1>2 DEF PollSeesIdle, StatusIdle
  <2> DEFINE t == poll[o].thread
             y == slot[t]
             a == IF x = y THEN NoTurn ELSE q[y].activeTurn
             s == [q[y] EXCEPT !.activeTurn = a]
  <2>2. t \in Threads /\ y \in Objs /\ x \in Objs
    <3>1. t \in Threads /\ y \in Objs
      BY <2>1, PollPlace
    <3> QED
      BY <2>1, <3>1
  <2>3. /\ \A p \in Objs : q'[p].items = q[p].items /\ (q[p].blocked => q'[p].blocked)
        /\ StartsHead(call, call', s, t, y)
    BY <2>1, <2>2, PollGoesOnFields
  <2>4. UNCHANGED <<slot, stage>>
    BY <2>1 DEF PollGoesOn, historyVars
  <2>5. s.items = q[y].items /\ s.draining = q[y].draining
    BY <2>2 DEF TypeOK, QueueState
  <2> HIDE DEF s, t
  <2> QED
    BY <2>2, <2>3, <2>4, <2>5, DrainedPromise
<1>3. ASSUME PollFallsBack(o) \/ StatusSettlesNothing(o)
      PROVE  UNCHANGED Promise!promiseVars
  <2>1. UNCHANGED <<q, slot, call, stage>>
    BY <1>3 DEF PollFallsBack, StatusSettlesNothing, historyVars
  <2> QED
    BY <2>1, UnseenPromise
<1> QED
  BY <1>1, <1>2, <1>3 DEF PollStep

LEMMA PromiseThreadStep ==
  ASSUME TypeOK, TypeOK', DispatchInv, DispatchInv', PlacesInv, NEW t \in Threads, ThreadStep(t)
  PROVE  Promise!Next \/ UNCHANGED Promise!promiseVars
<1>1. q \in [Objs -> QueueState] /\ slot[t] \in Objs /\ q[slot[t]] \in QueueState
  BY SlotType DEF TypeOK
<1>2. NoTurn \in 0..MaxTurn
  BY ConstantsAssumption DEF NoTurn, ConstantsAssumption
<1>3. ASSUME NoteStarted(t)
      PROVE  UNCHANGED Promise!promiseVars
  <2> DEFINE R == Heard(q, slot[t], Head(notes[t]).turn, t)
  <2>1. \A o \in Objs : R[o].items = q[o].items
    <3>1. R[slot[t]].items = q[slot[t]].items /\ \A p \in Objs : p # slot[t] => R[p] = q[p]
      BY <1>1, <1>3, NoteTypes, HeardFields DEF NoteStarted
    <3> QED
      BY <3>1
  <2>2. q' = R /\ UNCHANGED <<slot, call, stage>>
    BY <1>3 DEF NoteStarted, historyVars
  <2> HIDE DEF R
  <2> QED
    BY <2>1, <2>2, UnseenPromise
<1>4. ASSUME NoteCompleted(t)
      PROVE  Promise!Next
  <2> DEFINE n == IF q[slot[t]].activeTurn = Head(notes[t]).turn THEN NoTurn
                  ELSE q[slot[t]].activeTurn
  <2>1. n \in 0..MaxTurn
    <3>1. q[slot[t]].activeTurn \in 0..MaxTurn
      BY <1>1, FieldTypes
    <3> QED
      BY <1>2, <3>1
  <2>2. Publish(t, [q[slot[t]] EXCEPT !.activeTurn = n], files') /\ UNCHANGED <<slot, stage>>
    BY <1>4 DEF NoteCompleted, historyVars
  <2> HIDE DEF n
  <2> QED
    BY <2>1, <2>2, NewsPromise
<1>5. ASSUME SynchronizeActiveTurn(t)
      PROVE  Promise!Next
  <2>1. read[t].seen \in Run
    BY DEF TypeOK, ReadState
  <2>2. PICK a \in Answers(read[t].seen, t) :
          Publish(t, [q[slot[t]] EXCEPT !.activeTurn = IF a.active THEN a.turn ELSE NoTurn],
                  files')
    BY <1>5 DEF SynchronizeActiveTurn
  <2>3. (IF a.active THEN a.turn ELSE NoTurn) \in 0..MaxTurn
    BY <1>2, <2>1, AnswerTypes
  <2>4. UNCHANGED <<slot, stage>>
    BY <1>5 DEF SynchronizeActiveTurn, historyVars
  <2> QED
    BY <2>2, <2>3, <2>4, NewsPromise
<1>6. ASSUME PollQueue(t) \/ ReadFailed(t)
      PROVE  UNCHANGED Promise!promiseVars
  <2>1. UNCHANGED <<q, slot, call, stage>>
    BY <1>6 DEF PollQueue, ReadFailed, historyVars
  <2> QED
    BY <2>1, UnseenPromise
<1> QED
  BY <1>3, <1>4, <1>5, <1>6 DEF ThreadStep

LEMMA PromiseSteered ==
  ASSUME TypeOK, SteerAccepted \/ SteerFailed
  PROVE  UNCHANGED Promise!promiseVars
<1>1. CASE SteerAccepted
  <2>1. UNCHANGED <<q, slot, call, stage>>
    BY <1>1 DEF SteerAccepted, historyVars
  <2> QED
    BY <2>1, UnseenPromise
<1>2. CASE SteerFailed
  <2>1. steer.thread \in Threads /\ steer.obj \in Objs /\ steer.previous \in 0..MaxTurn
    BY <1>2, SteerTypes DEF SteerFailed
  <2>2. q' = Told(steer.obj, steer.previous, steer.thread) /\ UNCHANGED <<slot, call, stage>>
    BY <1>2 DEF SteerFailed, Told, historyVars
  <2>3. \A p \in Objs : Told(steer.obj, steer.previous, steer.thread)[p].items = q[p].items
    BY <2>1, ToldFields
  <2> QED
    BY <2>2, <2>3, UnseenPromise
<1> QED
  BY <1>1, <1>2

LEMMA PromiseOfficialStep ==
  ASSUME TypeOK, DispatchInv, OfficialStep
  PROVE  Promise!Next \/ UNCHANGED Promise!promiseVars
<1>1. ASSUME NEW t \in Threads, OfficialTurn(t) \/ CompleteTurn(t) \/ LoseNote(t)
      PROVE  UNCHANGED Promise!promiseVars
  <2>1. UNCHANGED <<q, slot, call, stage>>
    BY <1>1 DEF OfficialTurn, CompleteTurn, LoseNote, serverVars, historyVars
  <2> QED
    BY <2>1, UnseenPromise
<1>2. ASSUME NEW m \in Msgs, AcceptTurn(m)
      PROVE  Promise!Next
  <2>1. call[m] \in Calls /\ call \in [Msgs -> CallState] /\ call[m].pc = "sent"
    BY <1>2, CallTypes DEF AcceptTurn, TypeOK
  <2>2. PICK c \in Threads :
          call' = [call EXCEPT ![m].pc = "accepted", ![m].turn = turns', ![m].canon = c]
    BY <1>2 DEF AcceptTurn
  <2>3. /\ call'[m].pc = "accepted" /\ call'[m].drain = call[m].drain
        /\ \A x \in Msgs : x # m => call'[x] = call[x]
    BY <2>1, <2>2 DEF Calls
  <2>4. UNCHANGED <<q, slot, stage>>
    BY <1>2 DEF AcceptTurn
  <2>5. HandedOver' = HandedOver /\ Running' = Running \cup {m} /\ m \notin Running
    BY <2>1, <2>3 DEF HandedOver, Running, InFlight
  <2>6. m \in HandedOver \/ stage[m] = "direct"
    BY <2>1 DEF HandedOver, InFlight, DispatchInv, WellDispatched
  <2>7. Lines' = Lines
    BY <2>4 DEF Lines
  <2>8. Promise!Run(m)
    BY <2>4, <2>5, <2>6, <2>7 DEF Promise!Run
  <2> QED
    BY <2>8 DEF Promise!Next
<1> QED
  BY <1>1, <1>2 DEF OfficialStep

\* Every step of the turn queue is one MessageDispatch allows, or a stutter.
LEMMA PromiseStep ==
  ASSUME TypeOK, TypeOK', DispatchInv, DispatchInv', PlacesInv, [Next]_vars
  PROVE  [Promise!Next]_Promise!promiseVars
<1>1. CASE UNCHANGED vars
  <2>1. UNCHANGED <<q, slot, call, stage>>
    BY <1>1 DEF vars, serverVars, historyVars
  <2> QED
    BY <2>1, UnseenPromise
<1>2. CASE Next
  BY <1>2, PromiseClientStep, PromiseSteered, PromiseCallStep, PromisePollStep,
     PromiseThreadStep, PromiseOfficialStep DEF Next
<1> QED
  BY <1>1, <1>2

LEMMA PromiseInit == Init => Promise!Init
<1> SUFFICES ASSUME Init
             PROVE  Promise!Init
  OBVIOUS
<1>1. q = [o \in Objs |-> EmptyQueue] /\ \A t \in Threads : slot[t] \in Objs
  BY ObjTypes DEF Init
<1>2. Lines = [t \in Threads |-> <<>>]
  BY <1>1, EmptyFields DEF Lines
<1>3. \A m \in Msgs : call[m].pc = "idle"
  BY DEF Init, NoCall
<1>4. HandedOver = {} /\ Running = {}
  BY <1>3 DEF HandedOver, InFlight, Running
<1> QED
  BY <1>2, <1>4 DEF Init, Promise!Init

\* The turn queue implements MessageDispatch, provided no client names a thread
\* id before the first turn that creates it has been answered.
THEOREM PromiseKept ==
  ASSUME "earlyId" \notin Faults
  PROVE  Spec => KeepsThePromise
<1>1. Init => Promise!Init
  BY PromiseInit
<1>2. /\ TypeOK /\ TypeOK' /\ DispatchInv /\ DispatchInv' /\ PlacesInv /\ [Next]_vars
      => [Promise!Next]_Promise!promiseVars
  BY PromiseStep
<1>3. Spec => []PlacesInv
  BY PlacesKept
<1> QED
  BY <1>1, <1>2, <1>3, TypeCorrect, DispatchSafe, PTL DEF Spec, KeepsThePromise, Promise!Spec
=============================================================================
