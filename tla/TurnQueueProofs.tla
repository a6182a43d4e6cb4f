--------------------------- MODULE TurnQueueProofs ---------------------------
(***************************************************************************)
(* Theorems about TurnQueue for every set of threads and messages, every   *)
(* limit, every bound and every choice of faults.                          *)
(*                                                                         *)
(* The lemmas come first: what the queue operators return, then what a     *)
(* step of the system does to the queues and the calls.                    *)
(***************************************************************************)
EXTENDS TurnQueue, SequenceTheorems, TLAPS

-----------------------------------------------------------------------------
(* Queues as sequences                                                     *)

\* Taking out the item at position i shifts the items behind it.
LEMMA RemoveAtDef ==
  ASSUME NEW S, NEW s \in Seq(S), NEW i \in 1..Len(s)
  PROVE  /\ RemoveAt(s, i) \in Seq(S)
         /\ Len(RemoveAt(s, i)) = Len(s) - 1
         /\ \A k \in 1..Len(s) - 1 : RemoveAt(s, i)[k] = IF k < i THEN s[k] ELSE s[k + 1]
<1> DEFINE a == SubSeq(s, 1, i - 1)
           b == SubSeq(s, i + 1, Len(s))
<1>1. Len(s) \in Nat /\ \A k \in 1..Len(s) : s[k] \in S
  BY ElementOfSeq, LenProperties
<1>2. /\ a \in Seq(S) /\ Len(a) = i - 1
      /\ \A k \in 1..i - 1 : a[k] = s[k]
  <2>1. \A k \in 1..i - 1 : s[k] \in S
    BY <1>1
  <2> QED
    BY <1>1, <2>1, SubSeqProperties
<1>3. /\ b \in Seq(S) /\ Len(b) = Len(s) - i
      /\ \A k \in 1..Len(s) - i : b[k] = s[k + i]
  <2>1. \A k \in i + 1..Len(s) : s[k] \in S
    BY <1>1
  <2>2. /\ b \in Seq(S)
        /\ Len(b) = IF i + 1 <= Len(s) THEN Len(s) - (i + 1) + 1 ELSE 0
        /\ \A k \in 1..Len(s) - (i + 1) + 1 : b[k] = s[(i + 1) + k - 1]
    BY <1>1, <2>1, SubSeqProperties
  <2> QED
    BY <1>1, <2>2
<1> HIDE DEF a, b
<1>4. /\ a \o b \in Seq(S)
      /\ Len(a \o b) = Len(a) + Len(b)
      /\ \A k \in 1..Len(a) + Len(b) :
           (a \o b)[k] = IF k <= Len(a) THEN a[k] ELSE b[k - Len(a)]
  BY <1>2, <1>3, ConcatProperties
<1>5. RemoveAt(s, i) = a \o b
  BY DEF RemoveAt, a, b
<1>6. ASSUME NEW k \in 1..Len(s) - 1
      PROVE  (a \o b)[k] = IF k < i THEN s[k] ELSE s[k + 1]
  <2>1. CASE k < i
    BY <1>6, <2>1, <1>1, <1>2, <1>3, <1>4
  <2>2. CASE k >= i
    <3>1. k \in 1..Len(a) + Len(b) /\ ~(k <= Len(a)) /\ k - Len(a) \in 1..Len(s) - i
      BY <1>6, <2>2, <1>1, <1>2, <1>3
    <3>2. b[k - Len(a)] = s[k + 1]
      <4>1. (k - Len(a)) + i = k + 1
        BY <1>6, <1>1, <1>2
      <4> QED
        BY <3>1, <4>1, <1>3
    <3>3. ~(k < i)
      BY <1>6, <2>2, <1>1
    <3> QED
      BY <3>1, <3>2, <3>3, <1>4
  <2>3. k < i \/ k >= i
    BY <1>6, <1>1
  <2> QED
    BY <2>1, <2>2, <2>3
<1>7. Len(a \o b) = Len(s) - 1
  BY <1>1, <1>2, <1>3, <1>4
<1> QED
  BY <1>4, <1>5, <1>6, <1>7

\* Putting an item at position i shifts the items from there on.
LEMMA InsertAtDef ==
  ASSUME NEW S, NEW s \in Seq(S), NEW i \in 1..Len(s) + 1, NEW e \in S
  PROVE  /\ InsertAt(s, i, e) \in Seq(S)
         /\ Len(InsertAt(s, i, e)) = Len(s) + 1
         /\ \A k \in 1..Len(s) + 1 :
              InsertAt(s, i, e)[k] = IF k < i THEN s[k] ELSE IF k = i THEN e ELSE s[k - 1]
<1> DEFINE a == SubSeq(s, 1, i - 1)
           b == SubSeq(s, i, Len(s))
<1>1. Len(s) \in Nat /\ \A k \in 1..Len(s) : s[k] \in S
  BY ElementOfSeq, LenProperties
<1>2. /\ a \in Seq(S) /\ Len(a) = i - 1
      /\ \A k \in 1..i - 1 : a[k] = s[k]
  <2>1. \A k \in 1..i - 1 : s[k] \in S
    BY <1>1
  <2> QED
    BY <1>1, <2>1, SubSeqProperties
<1>3. /\ b \in Seq(S) /\ Len(b) = Len(s) - i + 1
      /\ \A k \in 1..Len(s) - i + 1 : b[k] = s[k + i - 1]
  <2>1. \A k \in i..Len(s) : s[k] \in S
    BY <1>1
  <2>2. /\ b \in Seq(S)
        /\ Len(b) = IF i <= Len(s) THEN Len(s) - i + 1 ELSE 0
        /\ \A k \in 1..Len(s) - i + 1 : b[k] = s[i + k - 1]
    BY <1>1, <2>1, SubSeqProperties
  <2> QED
    BY <1>1, <2>2
<1> DEFINE c == a \o <<e>>
<1> HIDE DEF a, b
<1>4. <<e>> \in Seq(S) /\ Len(<<e>>) = 1 /\ <<e>>[1] = e
  OBVIOUS
<1>5. /\ c \in Seq(S)
      /\ Len(c) = i
      /\ \A k \in 1..i : c[k] = IF k < i THEN a[k] ELSE e
  <2>1. /\ a \o <<e>> \in Seq(S)
        /\ Len(a \o <<e>>) = Len(a) + Len(<<e>>)
        /\ \A k \in 1..Len(a) + Len(<<e>>) :
             (a \o <<e>>)[k] = IF k <= Len(a) THEN a[k] ELSE <<e>>[k - Len(a)]
    BY <1>2, <1>4, ConcatProperties
  <2> QED
    BY <1>1, <1>2, <1>4, <2>1
<1> HIDE DEF c
<1>6. /\ c \o b \in Seq(S)
      /\ Len(c \o b) = Len(c) + Len(b)
      /\ \A k \in 1..Len(c) + Len(b) :
           (c \o b)[k] = IF k <= Len(c) THEN c[k] ELSE b[k - Len(c)]
  BY <1>3, <1>5, ConcatProperties
<1>7. InsertAt(s, i, e) = c \o b
  BY DEF InsertAt, a, b, c
<1>8. \A k \in 1..Len(s) + 1 :
        (c \o b)[k] = IF k < i THEN s[k] ELSE IF k = i THEN e ELSE s[k - 1]
  <2> SUFFICES ASSUME NEW k \in 1..Len(s) + 1
               PROVE  (c \o b)[k] = IF k < i THEN s[k] ELSE IF k = i THEN e ELSE s[k - 1]
    OBVIOUS
  <2>1. CASE k < i
    BY <2>1, <1>1, <1>2, <1>3, <1>5, <1>6
  <2>2. CASE k = i
    BY <2>2, <1>1, <1>2, <1>3, <1>5, <1>6
  <2>3. CASE k > i
    BY <2>3, <1>1, <1>2, <1>3, <1>5, <1>6
  <2>4. k < i \/ k = i \/ k > i
    BY <1>1
  <2> QED
    BY <2>1, <2>2, <2>3, <2>4
<1>9. Len(c \o b) = Len(s) + 1
  BY <1>1, <1>3, <1>5, <1>6
<1> QED
  BY <1>6, <1>7, <1>8, <1>9

\* The first occurrence of an item goes; without duplicates the item is gone,
\* everything else stays.
LEMMA WithoutProperties ==
  ASSUME NEW S, NEW s \in Seq(S), NEW m
  PROVE  /\ Without(s, m) \in Seq(S)
         /\ Len(Without(s, m)) = IF Has(s, m) THEN Len(s) - 1 ELSE Len(s)
         /\ \A x : Has(Without(s, m), x) => Has(s, x)
         /\ \A x : Has(s, x) /\ x # m => Has(Without(s, m), x)
         /\ NoDup(s) => NoDup(Without(s, m)) /\ ~Has(Without(s, m), m)
<1>1. CASE ~Has(s, m)
  BY <1>1 DEF Without
<1>2. CASE Has(s, m)
  <2> DEFINE i == IndexOf(s, m)
             w == RemoveAt(s, i)
  <2>1. Len(s) \in Nat /\ DOMAIN s = 1..Len(s)
    BY LenProperties
  <2>2. i \in 1..Len(s) /\ s[i] = m
    BY <1>2, <2>1 DEF Has, IndexOf
  <2> HIDE DEF i
  <2>3. /\ w \in Seq(S) /\ Len(w) = Len(s) - 1
        /\ \A k \in 1..Len(s) - 1 : w[k] = IF k < i THEN s[k] ELSE s[k + 1]
    BY <2>2, RemoveAtDef
  <2>4. Without(s, m) = w
    BY <1>2 DEF Without, i
  <2> HIDE DEF w
  <2>5. DOMAIN w = 1..Len(s) - 1
    BY <2>3, LenProperties
  <2>6. \A x : Has(w, x) => Has(s, x)
    BY <2>1, <2>2, <2>3, <2>5 DEF Has
  <2>7. \A x : Has(s, x) /\ x # m => Has(w, x)
    <3> SUFFICES ASSUME NEW x, NEW k \in 1..Len(s), s[k] = x, x # m
                 PROVE  \E j \in 1..Len(s) - 1 : w[j] = x
      BY <2>1, <2>5 DEF Has
    <3>1. CASE k < i
      BY <3>1, <2>1, <2>2, <2>3
    <3>2. CASE k > i
      <4>1. k - 1 \in 1..Len(s) - 1 /\ ~(k - 1 < i) /\ (k - 1) + 1 = k
        BY <3>2, <2>1, <2>2
      <4> QED
        BY <4>1, <2>3
    <3>3. k # i
      BY <2>2
    <3> QED
      BY <3>1, <3>2, <3>3, <2>1, <2>2
  <2>8. ASSUME NoDup(s)
        PROVE  NoDup(w) /\ ~Has(w, m)
    <3>1. ASSUME NEW j \in 1..Len(s) - 1, NEW k \in 1..Len(s) - 1, w[j] = w[k]
          PROVE  j = k
      <4> DEFINE up(n) == IF n < i THEN n ELSE n + 1
      <4>1. up(j) \in 1..Len(s) /\ up(k) \in 1..Len(s)
        BY <3>1, <2>1, <2>2
      <4>2. s[up(j)] = s[up(k)]
        BY <3>1, <2>3
      <4>3. up(j) = up(k)
        BY <2>8, <4>1, <4>2, <2>1 DEF NoDup
      <4> QED
        BY <3>1, <4>3, <2>1, <2>2
    <3>2. ~Has(w, m)
      BY <2>8, <2>1, <2>2, <2>3, <2>5 DEF NoDup, Has
    <3> QED
      BY <3>1, <3>2, <2>5 DEF NoDup
  <2> QED
    BY <1>2, <2>3, <2>4, <2>6, <2>7, <2>8
<1> QED
  BY <1>1, <1>2

\* Putting a new item at any position adds that item and no duplicate.
LEMMA InsertAtProperties ==
  ASSUME NEW S, NEW s \in Seq(S), NEW i \in 1..Len(s) + 1, NEW e \in S
  PROVE  /\ \A x : Has(InsertAt(s, i, e), x) <=> Has(s, x) \/ x = e
         /\ NoDup(s) /\ ~Has(s, e) => NoDup(InsertAt(s, i, e))
<1> DEFINE r == InsertAt(s, i, e)
<1>1. Len(s) \in Nat /\ DOMAIN s = 1..Len(s)
  BY LenProperties
<1>2. /\ r \in Seq(S) /\ Len(r) = Len(s) + 1
      /\ \A k \in 1..Len(s) + 1 : r[k] = IF k < i THEN s[k] ELSE IF k = i THEN e ELSE s[k - 1]
  BY InsertAtDef
<1> HIDE DEF r
<1>3. DOMAIN r = 1..Len(s) + 1
  BY <1>2, LenProperties
<1>4. ASSUME NEW x, Has(r, x), x # e
      PROVE  Has(s, x)
  <2>1. PICK k \in 1..Len(s) + 1 : r[k] = x
    BY <1>4, <1>3 DEF Has
  <2>2. CASE k < i
    BY <2>1, <2>2, <1>1, <1>2 DEF Has
  <2>3. CASE k > i
    <3>1. k - 1 \in 1..Len(s) /\ r[k] = s[k - 1]
      BY <2>3, <1>1, <1>2
    <3> QED
      BY <2>1, <3>1, <1>1 DEF Has
  <2>4. k # i
    BY <1>4, <2>1, <1>2
  <2> QED
    BY <2>2, <2>3, <2>4, <1>1
<1>5. ASSUME NEW x, Has(s, x) \/ x = e
      PROVE  Has(r, x)
  <2>1. CASE x = e
    BY <2>1, <1>1, <1>2, <1>3 DEF Has
  <2>2. CASE Has(s, x)
    <3>1. PICK k \in 1..Len(s) : s[k] = x
      BY <2>2, <1>1 DEF Has
    <3>2. CASE k < i
      BY <3>1, <3>2, <1>1, <1>2, <1>3 DEF Has
    <3>3. CASE k >= i
      <4>1. k + 1 \in 1..Len(s) + 1 /\ ~(k + 1 < i) /\ k + 1 # i /\ (k + 1) - 1 = k
        BY <3>3, <1>1
      <4> QED
        BY <3>1, <4>1, <1>2, <1>3 DEF Has
    <3> QED
      BY <3>2, <3>3, <1>1
  <2> QED
    BY <1>5, <2>1, <2>2
<1>6. ASSUME NoDup(s), ~Has(s, e)
      PROVE  NoDup(r)
  <2>1. \A k \in 1..Len(s) : s[k] # e
    BY <1>6, <1>1 DEF Has
  <2>2. ASSUME NEW j \in 1..Len(s) + 1, NEW k \in 1..Len(s) + 1, r[j] = r[k]
        PROVE  j = k
    <3> DEFINE down(n) == IF n < i THEN n ELSE n - 1
    <3>1. j = i <=> k = i
      <4>1. \A n \in 1..Len(s) + 1 : n # i => down(n) \in 1..Len(s) /\ r[n] = s[down(n)]
        BY <1>1, <1>2
      <4>2. r[i] = e
        BY <1>2
      <4> QED
        BY <2>2, <4>1, <4>2, <2>1
    <3>2. CASE j # i /\ k # i
      <4>1. /\ down(j) \in 1..Len(s) /\ r[j] = s[down(j)]
            /\ down(k) \in 1..Len(s) /\ r[k] = s[down(k)]
        BY <2>2, <3>2, <1>1, <1>2
      <4>2. down(j) = down(k)
        BY <2>2, <4>1, <1>6, <1>1 DEF NoDup
      <4> QED
        BY <2>2, <3>2, <4>2, <1>1
    <3> QED
      BY <3>1, <3>2
  <2> QED
    BY <2>2, <1>3 DEF NoDup
<1> QED
  BY <1>4, <1>5, <1>6 DEF r

-----------------------------------------------------------------------------
(* Types                                                                   *)

LEMMA ObjTypes ==
  /\ \A t \in Threads, g \in {0, 1} : [thread |-> t, gen |-> g] \in Objs
  /\ NoObj \notin Objs
  /\ EmptyQueue \in QueueState
  /\ NoCall \in CallState /\ NoPoll \in PollState /\ NoSteer \in SteerState
  /\ Asleep \in Run /\ NoRead \in ReadState
BY ConstantsAssumption, SMT
   DEF Objs, NoObj, EmptyQueue, QueueState, NoTurn, CallState, PollState, SteerState,
       Run, Asleep, ReadState, NoRead, ConstantsAssumption

LEMMA WatchedType ==
  ASSUME NEW s \in QueueState, NEW t \in Threads
  PROVE  Watched(s, t) \in QueueState
BY DEF Watched, QueueState

\* Changing one field of a queue to a value of its type.
LEMMA FieldTypes ==
  ASSUME NEW s \in QueueState
  PROVE  /\ \A n \in 0..MaxTurn : [s EXCEPT !.activeTurn = n] \in QueueState
         /\ \A b \in BOOLEAN : [s EXCEPT !.starting = b] \in QueueState
         /\ \A i \in Seq(Msgs) : [s EXCEPT !.items = i] \in QueueState
         /\ \A i \in Seq(Msgs) : [s EXCEPT !.items = i, !.blocked = FALSE] \in QueueState
         /\ s.items \in Seq(Msgs) /\ s.activeTurn \in 0..MaxTurn
BY DEF QueueState

LEMMA HeardType ==
  ASSUME NEW Q \in [Objs -> QueueState], NEW o \in Objs, NEW n \in 0..MaxTurn, NEW t \in Threads
  PROVE  Heard(Q, o, n, t) \in [Objs -> QueueState]
BY WatchedType, FieldTypes DEF Heard

LEMMA DrainedType ==
  ASSUME NEW s \in QueueState, NEW up
  PROVE  Drained(s, up) \in QueueState
<1>1. CanDrain(s) => Head(s.items) \in Msgs
  BY HeadTailProperties DEF CanDrain, QueueState
<1> QED
  BY <1>1 DEF Drained, QueueState

LEMMA NewCallType ==
  ASSUME NEW t \in Threads, NEW o \in Objs, NEW d \in BOOLEAN
  PROVE  NewCall(t, o, d) \in CallState
BY ConstantsAssumption DEF NewCall, CallState, Calls, NoTurn, ConstantsAssumption

LEMMA LaunchedType ==
  ASSUME NEW C \in [Msgs -> CallState], NEW s \in QueueState, NEW t \in Threads,
         NEW o \in Objs, NEW up
  PROVE  Launched(C, s, t, o, up) \in [Msgs -> CallState]
BY NewCallType DEF Launched

LEMMA PutBackType ==
  ASSUME NEW s \in QueueState, NEW m \in Msgs
  PROVE  PutBack(s, m) \in QueueState
<1>1. s.items \in Seq(Msgs)
  BY DEF QueueState
<1>2. Without(s.items, m) \in Seq(Msgs)
  BY <1>1, WithoutProperties
<1>3. InsertAt(Without(s.items, m), 1, m) \in Seq(Msgs)
  BY <1>2, LenProperties, InsertAtDef
<1> QED
  BY <1>3 DEF PutBack, QueueState

LEMMA DroppedType ==
  ASSUME NEW s \in QueueState, NEW m
  PROVE  Dropped(s, m) \in QueueState
<1>1. Without(s.items, m) \in Seq(Msgs)
  BY FieldTypes, WithoutProperties
<1> QED
  BY <1>1 DEF Dropped, QueueState

\* The fields a drain that ends sets.
LEMMA DrainEndFields ==
  ASSUME NEW s \in QueueState, NEW m
  PROVE  /\ PutBack(s, m).items = InsertAt(Without(s.items, m), 1, m)
         /\ PutBack(s, m).sending = NoMsg /\ PutBack(s, m).draining = FALSE
         /\ Dropped(s, m).items = Without(s.items, m)
         /\ Dropped(s, m).sending = NoMsg /\ Dropped(s, m).draining = FALSE
BY DEF PutBack, Dropped, QueueState

LEMMA PublishType ==
  ASSUME q \in [Objs -> QueueState], slot \in [Threads -> Objs],
         call \in [Msgs -> CallState],
         NEW t \in Threads, NEW s \in QueueState, NEW up, Publish(t, s, up)
  PROVE  q' \in [Objs -> QueueState] /\ call' \in [Msgs -> CallState]
BY WatchedType, DrainedType, LaunchedType DEF Publish

LEMMA SlotType ==
  ASSUME TypeOK, NEW t \in Threads
  PROVE  slot[t] \in Objs /\ q[slot[t]] \in QueueState
BY DEF TypeOK

LEMMA TypeInit == Init => TypeOK
BY ObjTypes, ConstantsAssumption
   DEF Init, TypeOK, Objs, Stages, ConstantsAssumption

\* One step per action; the queue and call fields are typed by the lemmas above.
LEMMA TypeClientStep ==
  ASSUME TypeOK, ClientStep
  PROVE  TypeOK'
<1> USE ConstantsAssumption DEF ConstantsAssumption
<1>1. ASSUME NEW t \in Threads, NEW m \in Msgs, StartTurn(t, m)
      PROVE  TypeOK'
  <2>1. q' \in [Objs -> QueueState]
    BY <1>1, SlotType, FieldTypes DEF TypeOK, StartTurn
  <2>2. call' \in [Msgs -> CallState]
    BY <1>1, NewCallType DEF TypeOK, StartTurn
  <2> QED
    BY <1>1, <2>1, <2>2 DEF TypeOK, StartTurn, Stages, codexVars
<1>2. ASSUME NEW t \in Threads, NEW m \in Msgs, QueueTurn(t, m)
      PROVE  TypeOK'
  <2>1. [q[slot[t]] EXCEPT !.items = Append(@, m)] \in QueueState
    BY <1>2, SlotType, FieldTypes, AppendProperties
  <2> QED
    BY <1>2, <2>1, PublishType DEF TypeOK, QueueTurn, Stages, codexVars
<1>3. ASSUME NEW m \in Msgs, QueueRefused(m)
      PROVE  TypeOK'
  BY <1>3 DEF TypeOK, QueueRefused, Stages, codexVars
<1>4. ASSUME NEW t \in Threads, NEW m \in Msgs, NEW items \in Seq(Msgs), NEW up \in SUBSET WithFiles,
             Edit(t, m, items, up), stage' \in [Msgs -> Stages]
      PROVE  TypeOK'
  <2>1. [q[slot[t]] EXCEPT !.items = items, !.blocked = FALSE] \in QueueState
    BY <1>4, SlotType, FieldTypes
  <2>2. q' \in [Objs -> QueueState] /\ call' \in [Msgs -> CallState]
    BY <1>4, <2>1, PublishType DEF TypeOK, Edit
  <2> QED
    BY <1>4, <2>2 DEF TypeOK, Edit, codexVars
<1>5. ASSUME NEW t \in Threads, TypeOK
      PROVE  q[slot[t]].items \in Seq(Msgs)
  BY <1>5 DEF TypeOK, QueueState
<1>6. ASSUME NEW t \in Threads, NEW m \in Msgs, RemoveQueuedTurn(t, m)
      PROVE  TypeOK'
  <2>1. Without(q[slot[t]].items, m) \in Seq(Msgs)
    BY <1>5, WithoutProperties
  <2>2. stage' \in [Msgs -> Stages] /\ files \ {m} \in SUBSET WithFiles
    BY <1>6 DEF TypeOK, RemoveQueuedTurn, Stages
  <2> QED
    BY <1>4, <1>6, <2>1, <2>2 DEF RemoveQueuedTurn
<1>7. ASSUME NEW t \in Threads, NEW m \in Msgs, UpdateQueuedTurn(t, m)
      PROVE  TypeOK'
  BY <1>4, <1>5, <1>7 DEF TypeOK, UpdateQueuedTurn
<1>8. ASSUME NEW t \in Threads, NEW m \in Msgs, ReorderQueuedTurn(t, m)
      PROVE  TypeOK'
  <2>1. PICK i \in DOMAIN q[slot[t]].items :
          /\ Edit(t, m, InsertAt(Without(q[slot[t]].items, m), i, m), files)
          /\ UNCHANGED stage
    BY <1>8 DEF ReorderQueuedTurn
  <2>2. /\ Without(q[slot[t]].items, m) \in Seq(Msgs)
        /\ Len(Without(q[slot[t]].items, m)) = Len(q[slot[t]].items) - 1
    BY <1>5, <2>1, WithoutProperties DEF Edit
  <2>3. i \in 1..Len(Without(q[slot[t]].items, m)) + 1
    <3>1. DOMAIN q[slot[t]].items = 1..Len(q[slot[t]].items) /\ Len(q[slot[t]].items) \in Nat
      BY <1>5, LenProperties
    <3> QED
      BY <2>2, <3>1
  <2>4. InsertAt(Without(q[slot[t]].items, m), i, m) \in Seq(Msgs)
    BY <2>2, <2>3, InsertAtDef
  <2> QED
    BY <1>4, <2>1, <2>4 DEF TypeOK
<1>9. ASSUME NEW t \in Threads, CreateThread(t)
      PROVE  TypeOK'
  BY <1>9 DEF TypeOK, CreateThread, historyVars
<1>10. ASSUME NEW t \in Threads, OpenThread(t)
       PROVE  TypeOK'
  BY <1>10, ObjTypes DEF TypeOK, OpenThread, ReadState, Seen, codexVars
<1>11. ASSUME NEW t \in Threads, NEW n \in Turns, SteerTurn(t, n)
       PROVE  TypeOK'
  <2>1. n \in 0..MaxTurn
    BY <1>11 DEF Turns
  <2>2. q' \in [Objs -> QueueState]
    BY <1>11, <2>1, SlotType, HeardType DEF TypeOK, SteerTurn
  <2>3. steer' \in SteerState
    BY <1>11 DEF TypeOK, SteerTurn, SteerState, QueueState
  <2> QED
    BY <1>11, <2>2, <2>3 DEF TypeOK, SteerTurn, codexVars
<1>12. ASSUME NEW m \in Msgs, RemoveAttachment(m)
       PROVE  TypeOK'
  BY <1>12 DEF TypeOK, RemoveAttachment, codexVars, historyVars
<1>13. ASSUME NEW m \in Msgs, PurgeExpiredUpload(m)
       PROVE  TypeOK'
  BY <1>13 DEF TypeOK, PurgeExpiredUpload, codexVars, historyVars
<1> QED
  BY <1>1, <1>2, <1>3, <1>6, <1>7, <1>8, <1>9, <1>10, <1>11, <1>12, <1>13 DEF ClientStep

\* A call in flight has a thread, a queue and, once accepted, a canonical thread.
LEMMA CallTypes ==
  ASSUME TypeOK, NEW m \in Msgs, call[m].pc # "idle"
  PROVE  /\ call[m] \in Calls
         /\ \A p \in {"resume", "sent"} : [call[m] EXCEPT !.pc = p] \in CallState
         /\ call[m].thread \in Threads /\ call[m].obj \in Objs
         /\ call[m].turn \in 0..MaxTurn /\ call[m].canon \in Threads
<1>1. call[m] \in Calls
  BY DEF TypeOK, CallState, NoCall
<1> QED
  BY <1>1 DEF Calls, CallState

LEMMA ReleasedType ==
  ASSUME TypeOK, NEW m
  PROVE  Released(m) \in [Objs -> PollState]
BY ObjTypes DEF TypeOK, Released

LEMMA TypeCallStep ==
  ASSUME TypeOK, NEW m \in Msgs, CallStep(m)
  PROVE  TypeOK'
<1> USE ConstantsAssumption DEF ConstantsAssumption
<1>1. ASSUME UsageAllows(m)
      PROVE  TypeOK'
  <2>1. call \in [Msgs -> CallState] /\ sent \in [Msgs -> Nat]
    BY DEF TypeOK
  <2>2. call' \in [Msgs -> CallState]
    <3>1. call[m].pc # "idle"
      BY <1>1 DEF UsageAllows
    <3>2. \A p \in {"resume", "sent"} : [call[m] EXCEPT !.pc = p] \in CallState
      BY <3>1, CallTypes
    <3>3. call' = [call EXCEPT ![m].pc = "resume"] \/ call' = [call EXCEPT ![m].pc = "sent"]
      BY <1>1 DEF UsageAllows
    <3> QED
      BY <3>2, <3>3, <2>1
  <2>3. sent' \in [Msgs -> Nat]
    <3>1. sent' = sent \/ sent' = [sent EXCEPT ![m] = @ + 1]
      BY <1>1 DEF UsageAllows
    <3> QED
      BY <3>1, <2>1
  <2> QED
    BY <1>1, <2>2, <2>3 DEF TypeOK, UsageAllows, codexVars
<1>2. ASSUME Resumed(m)
      PROVE  TypeOK'
  <2>1. call' \in [Msgs -> CallState]
    BY <1>2, CallTypes DEF TypeOK, Resumed
  <2>2. loaded' \subseteq Threads
    BY <1>2, CallTypes DEF TypeOK, Resumed
  <2> QED
    BY <1>2, <2>1, <2>2 DEF TypeOK, Resumed, codexVars
<1>3. ASSUME TurnStarted(m)
      PROVE  TypeOK'
  <2> DEFINE c == call[m]
             emitted == Heard(q, slot[c.canon], c.turn, c.canon)
             active == Heard(emitted, slot'[c.canon], c.turn, c.canon)
  <2>1. /\ c.thread \in Threads /\ c.obj \in Objs
        /\ c.turn \in 0..MaxTurn /\ c.canon \in Threads
    BY <1>3, CallTypes DEF TurnStarted
  <2>2. slot' \in [Threads -> Objs]
    BY <1>3, <2>1, ObjTypes DEF TypeOK, TurnStarted, MovedSlot
  <2>3. active \in [Objs -> QueueState]
    <3>1. emitted \in [Objs -> QueueState]
      BY <2>1, SlotType, HeardType DEF TypeOK
    <3> QED
      BY <2>1, <2>2, <3>1, HeardType
  <2>4. q' = [active EXCEPT ![c.obj] =
                IF c.drain THEN Dropped(@, m) ELSE [@ EXCEPT !.starting = FALSE]]
    BY <1>3 DEF TurnStarted
  <2> HIDE DEF active, c
  <2>9. q' \in [Objs -> QueueState]
    BY <2>1, <2>3, <2>4, DroppedType, FieldTypes
  <2>10. turnFiles' \in [Threads -> SUBSET WithFiles]
    BY <1>3, <2>1 DEF TypeOK, TurnStarted, MovedFiles, c
  <2>11. loaded' \subseteq Threads /\ known' \subseteq Threads
    BY <1>3, <2>1 DEF TypeOK, TurnStarted, c
  <2>12. call' \in [Msgs -> CallState] /\ poll' \in [Objs -> PollState]
    BY <1>3, ObjTypes, ReleasedType DEF TypeOK, TurnStarted
  <2>13. stage' \in [Msgs -> Stages]
    BY <1>3 DEF TypeOK, TurnStarted, Stages
  <2> QED
    BY <1>3, <2>2, <2>9, <2>10, <2>11, <2>12, <2>13 DEF TypeOK, TurnStarted
<1>4. ASSUME DrainFailed(m)
      PROVE  TypeOK'
  <2> DEFINE back == [q EXCEPT ![call[m].obj] = PutBack(@, m)]
  <2>1. call[m].thread \in Threads /\ call[m].obj \in Objs
    BY <1>4, CallTypes DEF DrainFailed, CanFail
  <2>2. back \in [Objs -> QueueState]
    BY <2>1, PutBackType DEF TypeOK
  <2>3. q' = [back EXCEPT ![slot[call[m].thread]] = Watched(@, call[m].thread)]
    BY <1>4 DEF DrainFailed
  <2> HIDE DEF back
  <2>4. q' \in [Objs -> QueueState]
    BY <2>1, <2>2, <2>3, SlotType, WatchedType
  <2>5. call' \in [Msgs -> CallState] /\ poll' \in [Objs -> PollState]
    BY <1>4, ObjTypes, ReleasedType DEF TypeOK, DrainFailed
  <2> QED
    BY <1>4, <2>4, <2>5 DEF TypeOK, DrainFailed, codexVars, historyVars
<1>5. ASSUME DirectFailed(m)
      PROVE  TypeOK'
  <2> DEFINE c == call[m]
             reset == [q EXCEPT ![c.obj].starting = FALSE]
             target == slot[c.thread]
             up == files \ {m}
             done == [call EXCEPT ![m] = NoCall]
  <2>1. c.thread \in Threads /\ c.obj \in Objs
    BY <1>5, CallTypes DEF DirectFailed, CanFail
  <2>2. reset \in [Objs -> QueueState]
    BY <2>1, FieldTypes DEF TypeOK
  <2>3. done \in [Msgs -> CallState]
    BY ObjTypes DEF TypeOK
  <2>4. target \in Objs
    BY <2>1, SlotType
  <2>5. /\ q' = reset \/ q' = [reset EXCEPT ![target] = Drained(@, up)]
        /\ call' = done \/ call' = Launched(done, reset[target], c.thread, target, up)
    BY <1>5 DEF DirectFailed
  <2> HIDE DEF reset, target, done, c, up
  <2>6. q' \in [Objs -> QueueState] /\ call' \in [Msgs -> CallState]
    BY <2>1, <2>2, <2>3, <2>4, <2>5, DrainedType, LaunchedType
  <2> QED
    BY <1>5, <2>6 DEF TypeOK, DirectFailed, Stages, codexVars
<1> QED
  BY <1>1, <1>2, <1>3, <1>4, <1>5 DEF CallStep

\* A poll in flight has a thread.
LEMMA PollTypes ==
  ASSUME TypeOK, NEW o \in Objs, poll[o].pc # "idle"
  PROVE  /\ poll[o].thread \in Threads /\ poll[o].seen \in Run
         /\ [poll EXCEPT ![o] = NoPoll] \in [Objs -> PollState]
         /\ \A s \in Run : poll[o].pc = "list" =>
              [poll EXCEPT ![o] = [@ EXCEPT !.pc = "status", !.seen = s]] \in [Objs -> PollState]
         /\ \A m \in Msgs :
              [poll EXCEPT ![o] = [@ EXCEPT !.pc = "drain", !.msg = m, !.seen = Asleep]]
                \in [Objs -> PollState]
<1>1. poll \in [Objs -> PollState] /\ poll[o] \in PollState
  BY DEF TypeOK
<1>2. \/ poll[o] \in [pc: {"list", "status"}, thread: Threads, msg: {NoMsg}, seen: Run]
      \/ poll[o] \in [pc: {"drain"}, thread: Threads, msg: Msgs, seen: {Asleep}]
  BY <1>1 DEF PollState, NoPoll
<1>3. poll[o].thread \in Threads /\ poll[o].seen \in Run
  BY <1>2, ObjTypes
<1>4. \A s \in Run : poll[o].pc = "list" =>
        [poll[o] EXCEPT !.pc = "status", !.seen = s] \in PollState
  BY <1>2 DEF PollState
<1>5. \A m \in Msgs :
        [poll[o] EXCEPT !.pc = "drain", !.msg = m, !.seen = Asleep] \in PollState
  BY <1>2 DEF PollState
<1> QED
  BY <1>1, <1>3, <1>4, <1>5, ObjTypes

LEMMA AnswerTypes ==
  ASSUME TypeOK, NEW t \in Threads, NEW seen \in Run, NEW a \in Answers(seen, t)
  PROVE  a.active \in BOOLEAN /\ a.turn \in 0..MaxTurn
<1>1. Turns \subseteq 0..MaxTurn
  BY ConstantsAssumption DEF Turns, ConstantsAssumption
<1>2. a \in Run
  BY DEF TypeOK, Answers
<1> QED
  BY <1>1, <1>2 DEF Run

LEMMA LearntType ==
  ASSUME TypeOK, NEW x \in Objs, NEW n \in 0..MaxTurn, NEW t \in Threads
  PROVE  Learnt(x, n, t) \in [Objs -> QueueState]
<1> DEFINE told == [q EXCEPT ![x].activeTurn = n]
<1>1. q \in [Objs -> QueueState] /\ slot[t] \in Objs
  BY SlotType DEF TypeOK
<1>2. told \in [Objs -> QueueState]
  BY <1>1, FieldTypes
<1> HIDE DEF told
<1>3. [told EXCEPT ![slot[t]] = Watched(@, t)] \in [Objs -> QueueState]
  BY <1>1, <1>2, WatchedType
<1> QED
  BY <1>1, <1>3 DEF Learnt, told

LEMMA ReleaseType ==
  ASSUME TypeOK, NEW t \in Threads, Release(t) \/ UNCHANGED <<files, turnFiles>>
  PROVE  files' \subseteq WithFiles /\ turnFiles' \in [Threads -> SUBSET WithFiles]
BY DEF TypeOK, Release

LEMMA TypePollGoesOn ==
  ASSUME TypeOK, NEW o \in Objs, NEW x \in Objs, poll[o].pc # "idle", PollGoesOn(o, x)
  PROVE  TypeOK'
<1> DEFINE t == poll[o].thread
           idle == Learnt(x, NoTurn, t)
           s == idle[slot[t]]
<1>1. t \in Threads /\ slot[t] \in Objs
  BY PollTypes, SlotType
<1>2. idle \in [Objs -> QueueState]
  <2>1. NoTurn \in 0..MaxTurn
    BY ConstantsAssumption DEF NoTurn, ConstantsAssumption
  <2> QED
    BY <1>1, <2>1, LearntType
<1>3. Starts(s, files') => Head(s.items) \in Msgs
  BY <1>1, <1>2, FieldTypes, HeadTailProperties DEF Starts, CanDrain
<1>4. files' \subseteq WithFiles /\ turnFiles' \in [Threads -> SUBSET WithFiles]
  BY <1>1, ReleaseType DEF PollGoesOn
<1>5. /\ q' = idle \/ q' = [idle EXCEPT ![slot[t]] = Drained(s, files')]
      /\ call' = call \/ call' = Launched(call, s, t, slot[t], files')
      /\ \/ poll' = [poll EXCEPT ![o] = NoPoll]
         \/ /\ Starts(s, files')
            /\ poll' = [poll EXCEPT ![o] =
                           [@ EXCEPT !.pc = "drain", !.msg = Head(s.items), !.seen = Asleep]]
  BY DEF PollGoesOn
<1>6. call \in [Msgs -> CallState]
  BY DEF TypeOK
<1> HIDE DEF idle, t
<1>7. s \in QueueState
  BY <1>1, <1>2
<1> HIDE DEF s
<1>8. q' \in [Objs -> QueueState]
  BY <1>1, <1>2, <1>5, <1>7, DrainedType
<1>9. call' \in [Msgs -> CallState]
  BY <1>1, <1>5, <1>6, <1>7, LaunchedType
<1>10. poll' \in [Objs -> PollState]
  <2>1. [poll EXCEPT ![o] = NoPoll] \in [Objs -> PollState]
    BY PollTypes
  <2>2. Starts(s, files') =>
          [poll EXCEPT ![o] = [@ EXCEPT !.pc = "drain", !.msg = Head(s.items), !.seen = Asleep]]
             \in [Objs -> PollState]
    BY <1>3, PollTypes
  <2> QED
    BY <1>5, <2>1, <2>2
<1> QED
  BY <1>4, <1>8, <1>9, <1>10 DEF TypeOK, PollGoesOn, codexVars, historyVars

LEMMA TypePollStep ==
  ASSUME TypeOK, NEW o \in Objs, PollStep(o)
  PROVE  TypeOK'
<1>1. ASSUME PollSeesTurn(o)
      PROVE  TypeOK'
  <2>1. poll[o].thread \in Threads /\ poll[o].seen \in Run
    BY <1>1, PollTypes DEF PollSeesTurn
  <2>2. PICK a \in Answers(poll[o].seen, poll[o].thread) :
          q' = Learnt(o, a.turn, poll[o].thread)
    BY <1>1 DEF PollSeesTurn
  <2>3. q' \in [Objs -> QueueState]
    BY <2>1, <2>2, AnswerTypes, LearntType
  <2>4. poll' \in [Objs -> PollState]
    BY <1>1, PollTypes DEF PollSeesTurn
  <2> QED
    BY <1>1, <2>3, <2>4 DEF TypeOK, PollSeesTurn, codexVars, historyVars
<1>2. ASSUME PollSeesIdle(o)
      PROVE  TypeOK'
  BY <1>2, TypePollGoesOn DEF PollSeesIdle
<1>3. ASSUME PollFallsBack(o)
      PROVE  TypeOK'
  <2>1. poll[o].thread \in Threads /\ poll[o].pc = "list"
    BY <1>3, PollTypes DEF PollFallsBack
  <2>2. Seen(poll[o].thread) \in Run
    BY <2>1, ObjTypes DEF TypeOK, Seen
  <2>3. \/ poll' = [poll EXCEPT ![o] = NoPoll]
        \/ poll' = [poll EXCEPT ![o] =
                       [@ EXCEPT !.pc = "status", !.seen = Seen(poll[o].thread)]]
    BY <1>3 DEF PollFallsBack
  <2>4. poll' \in [Objs -> PollState]
    <3>1. poll[o].pc # "idle"
      BY <2>1
    <3>2. [poll EXCEPT ![o] = NoPoll] \in [Objs -> PollState]
      BY <3>1, PollTypes
    <3>3. [poll EXCEPT ![o] = [@ EXCEPT !.pc = "status", !.seen = Seen(poll[o].thread)]]
             \in [Objs -> PollState]
      BY <2>1, <2>2, <3>1, PollTypes
    <3> QED
      BY <2>3, <3>2, <3>3
  <2> QED
    BY <1>3, <2>4 DEF TypeOK, PollFallsBack, codexVars, historyVars
<1>4. ASSUME StatusIdle(o)
      PROVE  TypeOK'
  <2>1. poll[o].pc # "idle" /\ slot[poll[o].thread] \in Objs
    BY <1>4, PollTypes, SlotType DEF StatusIdle
  <2> QED
    BY <1>4, <2>1, TypePollGoesOn DEF StatusIdle
<1>5. ASSUME StatusSettlesNothing(o)
      PROVE  TypeOK'
  <2>1. poll' \in [Objs -> PollState]
    BY <1>5, PollTypes DEF StatusSettlesNothing
  <2> QED
    BY <1>5, <2>1 DEF TypeOK, StatusSettlesNothing, codexVars, historyVars
<1> QED
  BY <1>1, <1>2, <1>3, <1>4, <1>5 DEF PollStep

\* The first notification of a thread, and what is left.
LEMMA NoteTypes ==
  ASSUME TypeOK, NEW t \in Threads, notes[t] # <<>>
  PROVE  /\ Head(notes[t]).turn \in 0..MaxTurn
         /\ [notes EXCEPT ![t] = Tail(@)] \in [Threads -> Seq(Note)]
<1>1. notes[t] \in Seq(Note) /\ notes \in [Threads -> Seq(Note)]
  BY DEF TypeOK
<1>2. Head(notes[t]) \in Note /\ Tail(notes[t]) \in Seq(Note)
  BY <1>1, HeadTailProperties
<1>3. Head(notes[t]).turn \in Turns
  BY <1>2 DEF Note
<1>4. Turns \subseteq 0..MaxTurn
  BY ConstantsAssumption DEF Turns, ConstantsAssumption
<1> QED
  BY <1>1, <1>2, <1>3, <1>4

LEMMA TypeThreadStep ==
  ASSUME TypeOK, NEW t \in Threads, ThreadStep(t)
  PROVE  TypeOK'
<1>1. slot[t] \in Objs /\ q \in [Objs -> QueueState] /\ q[slot[t]] \in QueueState
  BY SlotType DEF TypeOK
<1>2. ASSUME NoteStarted(t)
      PROVE  TypeOK'
  <2>1. q' \in [Objs -> QueueState]
    BY <1>1, <1>2, NoteTypes, HeardType DEF NoteStarted
  <2>2. notes' \in [Threads -> Seq(Note)]
    BY <1>2, NoteTypes DEF NoteStarted
  <2> QED
    BY <1>2, <2>1, <2>2 DEF TypeOK, NoteStarted, historyVars
<1>3. ASSUME NEW n \in 0..MaxTurn, NEW up, Publish(t, [q[slot[t]] EXCEPT !.activeTurn = n], up)
      PROVE  q' \in [Objs -> QueueState] /\ call' \in [Msgs -> CallState]
  <2>1. [q[slot[t]] EXCEPT !.activeTurn = n] \in QueueState
    BY <1>1, FieldTypes
  <2> QED
    BY <1>3, <2>1, PublishType DEF TypeOK
<1>4. NoTurn \in 0..MaxTurn
  BY ConstantsAssumption DEF NoTurn, ConstantsAssumption
<1>5. ASSUME NoteCompleted(t)
      PROVE  TypeOK'
  <2>1. q' \in [Objs -> QueueState] /\ call' \in [Msgs -> CallState]
    <3> DEFINE n == IF q[slot[t]].activeTurn = Head(notes[t]).turn THEN NoTurn
                    ELSE q[slot[t]].activeTurn
    <3>1. n \in 0..MaxTurn
      BY <1>1, <1>4, FieldTypes
    <3>2. Publish(t, [q[slot[t]] EXCEPT !.activeTurn = n], files')
      BY <1>5 DEF NoteCompleted
    <3> HIDE DEF n
    <3> QED
      BY <1>3, <3>1, <3>2
  <2>2. notes' \in [Threads -> Seq(Note)]
    BY <1>5, NoteTypes DEF NoteCompleted
  <2>3. files' \subseteq WithFiles /\ turnFiles' \in [Threads -> SUBSET WithFiles]
    BY <1>5, ReleaseType DEF NoteCompleted
  <2> QED
    BY <1>5, <2>1, <2>2, <2>3 DEF TypeOK, NoteCompleted, historyVars
<1>6. ASSUME PollQueue(t)
      PROVE  TypeOK'
  <2>1. Seen(t) \in Run
    BY ObjTypes DEF TypeOK, Seen
  <2>2. [pc |-> "list", thread |-> t, msg |-> NoMsg, seen |-> Seen(t)] \in PollState
    BY <2>1 DEF PollState
  <2>3. poll' \in [Objs -> PollState]
    BY <1>6, <2>2 DEF TypeOK, PollQueue
  <2> QED
    BY <1>6, <2>3 DEF TypeOK, PollQueue, codexVars, historyVars
<1>7. ASSUME SynchronizeActiveTurn(t)
      PROVE  TypeOK'
  <2>1. read[t].seen \in Run
    BY DEF TypeOK, ReadState
  <2>2. PICK a \in Answers(read[t].seen, t) :
          /\ Release(t) \/ UNCHANGED <<files, turnFiles>>
          /\ Publish(t, [q[slot[t]] EXCEPT !.activeTurn = IF a.active THEN a.turn ELSE NoTurn],
                     files')
    BY <1>7 DEF SynchronizeActiveTurn
  <2>3. (IF a.active THEN a.turn ELSE NoTurn) \in 0..MaxTurn
    BY <1>4, <2>1, AnswerTypes
  <2>4. q' \in [Objs -> QueueState] /\ call' \in [Msgs -> CallState]
    BY <1>3, <2>2, <2>3
  <2>5. files' \subseteq WithFiles /\ turnFiles' \in [Threads -> SUBSET WithFiles]
    BY <2>2, ReleaseType
  <2>6. read' \in [Threads -> ReadState]
    BY <1>7, ObjTypes DEF TypeOK, SynchronizeActiveTurn
  <2> QED
    BY <1>7, <2>4, <2>5, <2>6 DEF TypeOK, SynchronizeActiveTurn, codexVars, historyVars
<1>8. ASSUME ReadFailed(t)
      PROVE  TypeOK'
  <2>1. read' \in [Threads -> ReadState]
    BY <1>8, ObjTypes DEF TypeOK, ReadFailed
  <2> QED
    BY <1>8, <2>1 DEF TypeOK, ReadFailed, codexVars, historyVars
<1> QED
  BY <1>2, <1>5, <1>6, <1>7, <1>8 DEF ThreadStep

LEMMA BeginType ==
  ASSUME TypeOK, NEW t \in Threads, Begin(t)
  PROVE  /\ turns' \in 0..MaxTurn
         /\ run' \in [Threads -> Run]
         /\ notes' \in [Threads -> Seq(Note)]
<1>1. turns' \in 1..MaxTurn
  BY ConstantsAssumption DEF TypeOK, Begin, ConstantsAssumption
<1>2. notes[t] \in Seq(Note) /\ [kind |-> "started", turn |-> turns'] \in Note
  BY <1>1 DEF TypeOK, Note, Turns
<1>3. Append(notes[t], [kind |-> "started", turn |-> turns']) \in Seq(Note)
  BY <1>2, AppendProperties
<1>4. notes' \in [Threads -> Seq(Note)]
  BY <1>3 DEF TypeOK, Begin
<1>5. [turn |-> turns', active |-> TRUE] \in Run
  BY <1>1 DEF Run, Turns
<1>6. run' \in [Threads -> Run]
  BY <1>5 DEF TypeOK, Begin
<1> QED
  BY <1>1, <1>4, <1>6, ConstantsAssumption DEF ConstantsAssumption

LEMMA TypeOfficialStep ==
  ASSUME TypeOK, OfficialStep
  PROVE  TypeOK'
<1>1. ASSUME NEW m \in Msgs, AcceptTurn(m)
      PROVE  TypeOK'
  <2>1. call[m] \in Calls /\ call \in [Msgs -> CallState]
    BY <1>1, CallTypes DEF AcceptTurn, TypeOK
  <2>2. PICK c \in Threads :
          /\ Begin(c)
          /\ drafts' \subseteq drafts /\ known' \subseteq known \cup {c}
          /\ call' = [call EXCEPT ![m].pc = "accepted", ![m].turn = turns', ![m].canon = c]
    BY <1>1 DEF AcceptTurn
  <2>3. [call[m] EXCEPT !.pc = "accepted", !.turn = turns', !.canon = c] \in Calls
    BY <2>1, <2>2, BeginType DEF Calls
  <2>4. call' \in [Msgs -> CallState]
    BY <2>1, <2>2, <2>3 DEF CallState
  <2>5. drafts' \subseteq Drafts /\ known' \subseteq Threads
    BY <2>2 DEF TypeOK
  <2>6. accepted' \in [Msgs -> Nat]
    BY <1>1 DEF TypeOK, AcceptTurn
  <2> QED
    BY <1>1, <2>2, <2>4, <2>5, <2>6, BeginType DEF TypeOK, AcceptTurn
<1>2. ASSUME NEW t \in Threads, OfficialTurn(t)
      PROVE  TypeOK'
  BY <1>2, BeginType DEF TypeOK, OfficialTurn, serverVars, historyVars
<1>3. ASSUME NEW t \in Threads, CompleteTurn(t)
      PROVE  TypeOK'
  <2> DEFINE n == [kind |-> "completed", turn |-> run[t].turn]
  <2>1. run[t] \in Run /\ notes[t] \in Seq(Note) /\ run[t].active
    BY <1>3 DEF TypeOK, CompleteTurn
  <2>2. run[t].turn \in Turns
    BY <2>1 DEF Run
  <2>3. n \in Note
    BY <2>2 DEF Note
  <2>4. Append(notes[t], n) \in Seq(Note)
    BY <2>1, <2>3, AppendProperties
  <2>5. notes' \in [Threads -> Seq(Note)]
    BY <1>3, <2>4 DEF TypeOK, CompleteTurn
  <2>6. [run[t] EXCEPT !.active = FALSE] \in Run
    <3>1. Turns \subseteq 0..MaxTurn
      BY ConstantsAssumption DEF Turns, ConstantsAssumption
    <3> QED
      BY <2>1, <2>2, <3>1 DEF Run
  <2>7. run' \in [Threads -> Run]
    BY <1>3, <2>6 DEF TypeOK, CompleteTurn
  <2> QED
    BY <1>3, <2>5, <2>7 DEF TypeOK, CompleteTurn, serverVars, historyVars
<1>4. ASSUME NEW t \in Threads, LoseNote(t)
      PROVE  TypeOK'
  <2>1. notes' \in [Threads -> Seq(Note)]
    BY <1>4, NoteTypes DEF LoseNote
  <2> QED
    BY <1>4, <2>1 DEF TypeOK, LoseNote, serverVars, historyVars
<1> QED
  BY <1>1, <1>2, <1>3, <1>4 DEF OfficialStep

\* A steer in flight has a thread and a state object.
LEMMA SteerTypes ==
  ASSUME TypeOK, steer.asked
  PROVE  steer.thread \in Threads /\ steer.obj \in Objs /\ steer.previous \in 0..MaxTurn
<1>1. ~NoSteer.asked
  BY DEF NoSteer
<1>2. steer # NoSteer
  BY <1>1
<1>3. steer \in [asked: {TRUE}, thread: Threads, obj: Objs, previous: 0..MaxTurn]
  BY <1>2 DEF TypeOK, SteerState
<1> QED
  BY <1>3

LEMMA TypeSteered ==
  ASSUME TypeOK, SteerAccepted \/ SteerFailed
  PROVE  TypeOK'
<1>1. steer' \in SteerState
  BY ObjTypes DEF SteerAccepted, SteerFailed
<1>2. CASE SteerAccepted
  BY <1>1, <1>2 DEF TypeOK, SteerAccepted, codexVars, historyVars
<1>3. CASE SteerFailed
  <2> DEFINE back == [q EXCEPT ![steer.obj].activeTurn = steer.previous]
  <2>1. steer.thread \in Threads /\ steer.obj \in Objs /\ steer.previous \in 0..MaxTurn
    BY <1>3, SteerTypes DEF SteerFailed
  <2>2. back \in [Objs -> QueueState]
    BY <2>1, FieldTypes DEF TypeOK
  <2>3. q' = [back EXCEPT ![slot[steer.thread]] = Watched(@, steer.thread)]
    BY <1>3 DEF SteerFailed
  <2> HIDE DEF back
  <2>4. q' \in [Objs -> QueueState]
    BY <2>1, <2>2, <2>3, SlotType, WatchedType
  <2> QED
    BY <1>1, <1>3, <2>4 DEF TypeOK, SteerFailed, codexVars, historyVars
<1> QED
  BY <1>2, <1>3

\* Every field of the server, of the environment and of the history keeps its
\* type: in particular a queue holds only messages, a call in flight has a
\* thread and a state object, and turn numbers stay within the bound.
THEOREM TypeCorrect == Spec => []TypeOK
<1>1. Init => TypeOK
  BY TypeInit
<1>2. TypeOK /\ [Next]_vars => TypeOK'
  <2> SUFFICES ASSUME TypeOK, [Next]_vars
               PROVE  TypeOK'
    OBVIOUS
  <2>1. CASE Next
    BY <2>1, TypeClientStep, TypeSteered, TypeCallStep, TypePollStep, TypeThreadStep,
       TypeOfficialStep DEF Next
  <2>2. CASE UNCHANGED vars
    BY <2>2 DEF TypeOK, vars, serverVars, codexVars, historyVars
  <2> QED
    BY <2>1, <2>2
<1> QED
  BY <1>1, <1>2, PTL DEF Spec

-----------------------------------------------------------------------------
(* One dispatcher                                                          *)

\* Only the items and the marks of the drain matter.
LEMMA SameDispatch ==
  ASSUME NEW Q, NEW R, NEW C, NEW G, WellDispatched(Q, C, G),
         \A o \in Objs : /\ R[o].items = Q[o].items
                         /\ R[o].sending = Q[o].sending
                         /\ R[o].draining = Q[o].draining
  PROVE  WellDispatched(R, C, G)
BY Zenon DEF WellDispatched

\* A drain that starts keeps the dispatch in order: its message was idle.
LEMMA LaunchDispatch ==
  ASSUME NEW Q \in [Objs -> QueueState], NEW C \in [Msgs -> CallState], NEW G,
         WellDispatched(Q, C, G), NEW o \in Objs, NEW t \in Threads, NEW up
  PROVE  WellDispatched([Q EXCEPT ![o] = Drained(Q[o], up)], Launched(C, Q[o], t, o, up), G)
<1> DEFINE s == Q[o]
           h == Head(s.items)
           R == [Q EXCEPT ![o] = Drained(s, up)]
           D == Launched(C, s, t, o, up)
<1>0. s \in QueueState
  OBVIOUS
<1>1. CASE ~Starts(s, up)
  <2>1. D = C
    BY <1>1 DEF Launched
  <2>2. /\ Drained(s, up).items = s.items
        /\ Drained(s, up).sending = s.sending
        /\ Drained(s, up).draining = s.draining
    BY <1>0, <1>1 DEF Drained, Starts, QueueState
  <2>3. \A p \in Objs : /\ R[p].items = Q[p].items
                        /\ R[p].sending = Q[p].sending
                        /\ R[p].draining = Q[p].draining
    BY <2>2
  <2> QED
    BY <2>1, <2>3, SameDispatch
<1>2. CASE Starts(s, up)
  <2>1. h \in Msgs /\ Has(s.items, h)
    <3>1. s.items \in Seq(Msgs) /\ s.items # <<>>
      BY <1>0, <1>2, FieldTypes DEF Starts, CanDrain
    <3>2. h \in Msgs /\ h = s.items[1] /\ 1 \in DOMAIN s.items
      BY <3>1, HeadTailProperties, LenProperties, EmptySeq
    <3> QED
      BY <3>2 DEF Has
  <2>2. ~s.draining /\ s.sending = NoMsg
    BY <1>2 DEF Starts, CanDrain, WellDispatched
  <2>3. C[h].pc = "idle"
    <3> SUFFICES ASSUME C[h].pc # "idle"
                 PROVE  FALSE
      OBVIOUS
    <3>1. C[h].drain
      BY <2>1 DEF WellDispatched
    <3>2. C[h] \in Calls /\ C[h].obj \in Objs
      BY <2>1 DEF CallState, NoCall, Calls
    <3>3. Q[C[h].obj].sending = h /\ Has(Q[C[h].obj].items, h)
      BY <2>1, <3>1, <3>2 DEF WellDispatched, Sends
    <3>4. C[h].obj = o
      BY <2>1, <3>2, <3>3 DEF WellDispatched
    <3> QED
      BY <2>1, <2>2, <3>3, <3>4, ConstantsAssumption DEF ConstantsAssumption
  <2>4. D = [C EXCEPT ![h] = NewCall(t, o, TRUE)]
    BY <1>2 DEF Launched
  <2>5. Drained(s, up) = [s EXCEPT !.draining = TRUE, !.sending = h, !.starting = TRUE]
    BY <1>2 DEF Drained, Starts
  <2>6. /\ R[o].items = s.items /\ R[o].sending = h /\ R[o].draining = TRUE
        /\ \A p \in Objs : p # o => R[p] = Q[p]
        /\ \A p \in Objs : R[p].items = Q[p].items
    BY <1>0, <2>5 DEF QueueState
  <2>7. /\ D[h].pc = "usage" /\ D[h].drain = TRUE /\ D[h].obj = o
        /\ \A m \in Msgs : m # h => D[m] = C[m]
    BY <2>1, <2>4 DEF NewCall
  <2> HIDE DEF R, D, h, s
  <2>8. NoMsg \notin Msgs
    BY ConstantsAssumption DEF ConstantsAssumption
  <2>9. ASSUME NEW p \in Objs, NEW m \in Msgs
        PROVE  Sends(D[m], p) <=> R[p].sending = m
    <3>1. CASE m = h /\ p = o
      BY <3>1, <2>6, <2>7 DEF Sends
    <3>2. CASE m = h /\ p # o
      BY <3>2, <2>3, <2>6, <2>7, <2>9 DEF Sends, WellDispatched
    <3>3. CASE m # h /\ p = o
      BY <3>3, <2>2, <2>6, <2>7, <2>8, <2>9 DEF Sends, WellDispatched, s
    <3>4. CASE m # h /\ p # o
      BY <3>4, <2>6, <2>7, <2>9 DEF WellDispatched
    <3> QED
      BY <3>1, <3>2, <3>3, <3>4
  <2>10. \A p \in Objs : R[p].draining <=> R[p].sending # NoMsg
    BY <2>1, <2>6, <2>8 DEF WellDispatched
  <2>11. \A p \in Objs, m \in Msgs : R[p].sending = m => Has(R[p].items, m)
    BY <2>1, <2>6 DEF WellDispatched
  <2>12. \A m \in Msgs : D[m].pc # "idle" => G[m] = IF D[m].drain THEN "queued" ELSE "direct"
    BY <2>1, <2>7 DEF WellDispatched, s
  <2> QED
    BY <2>6, <2>9, <2>10, <2>11, <2>12 DEF WellDispatched, R, D, s
<1> QED
  BY <1>1, <1>2

\* An edit that adds nothing and keeps the message being sent.
LEMMA ReplaceDispatch ==
  ASSUME NEW Q \in [Objs -> QueueState], NEW C, NEW G, WellDispatched(Q, C, G),
         NEW o \in Objs, NEW s \in QueueState,
         s.sending = Q[o].sending, s.draining = Q[o].draining, NoDup(s.items),
         \A x \in Msgs : Has(s.items, x) => Has(Q[o].items, x),
         \A x \in Msgs : s.sending = x => Has(s.items, x)
  PROVE  WellDispatched([Q EXCEPT ![o] = s], C, G)
<1> DEFINE R == [Q EXCEPT ![o] = s]
<1>1. R[o] = s /\ \A p \in Objs : p # o => R[p] = Q[p]
  OBVIOUS
<1> HIDE DEF R
<1>2. \A p \in Objs, x \in Msgs : Has(R[p].items, x) => Has(Q[p].items, x)
  BY <1>1
<1>3. \A p \in Objs : R[p].sending = Q[p].sending /\ R[p].draining = Q[p].draining
  BY <1>1
<1>4. \A p \in Objs, x \in Msgs : R[p].sending = x => Has(R[p].items, x)
  BY <1>1 DEF WellDispatched
<1>5. \A p \in Objs : NoDup(R[p].items)
  BY <1>1 DEF WellDispatched
<1> QED
  BY <1>2, <1>3, <1>4, <1>5 DEF WellDispatched, R

\* A message in no queue and no call can get any stage.
LEMMA GoneDispatch ==
  ASSUME NEW Q, NEW C, NEW G \in [Msgs -> Stages], WellDispatched(Q, C, G),
         NEW m \in Msgs, NEW g, C[m].pc = "idle", \A o \in Objs : ~Has(Q[o].items, m)
  PROVE  WellDispatched(Q, C, [G EXCEPT ![m] = g])
<1>1. \A x \in Msgs : x # m => [G EXCEPT ![m] = g][x] = G[x]
  OBVIOUS
<1> QED
  BY <1>1 DEF WellDispatched

\* A new message joins a queue.
LEMMA AppendDispatch ==
  ASSUME NEW Q \in [Objs -> QueueState], NEW C, NEW G \in [Msgs -> Stages],
         WellDispatched(Q, C, G), NEW o \in Objs, NEW m \in Msgs, G[m] = "new",
         NEW s \in QueueState, s.items = Append(Q[o].items, m),
         s.sending = Q[o].sending, s.draining = Q[o].draining
  PROVE  WellDispatched([Q EXCEPT ![o] = s], C, [G EXCEPT ![m] = "queued"])
<1> DEFINE R == [Q EXCEPT ![o] = s]
           H == [G EXCEPT ![m] = "queued"]
<1>1. R[o] = s /\ \A p \in Objs : p # o => R[p] = Q[p]
  OBVIOUS
<1>2. H[m] = "queued" /\ \A x \in Msgs : x # m => H[x] = G[x]
  OBVIOUS
<1> HIDE DEF R, H
<1>3. \A p \in Objs : ~Has(Q[p].items, m)
  BY DEF WellDispatched
<1>4. C[m].pc = "idle"
  BY DEF WellDispatched
<1>5. Q[o].items \in Seq(Msgs) /\ Len(Q[o].items) \in Nat /\ DOMAIN Q[o].items = 1..Len(Q[o].items)
  <2>1. Q[o].items \in Seq(Msgs)
    BY FieldTypes
  <2> QED
    BY <2>1, LenProperties
<1>6. /\ DOMAIN s.items = 1..Len(Q[o].items) + 1
      /\ \A i \in 1..Len(Q[o].items) : s.items[i] = Q[o].items[i]
      /\ s.items[Len(Q[o].items) + 1] = m
  BY <1>5, AppendProperties, LenProperties
<1>7. \A x : Has(s.items, x) <=> Has(Q[o].items, x) \/ x = m
  <2>1. Len(Q[o].items) + 1 \in 1..Len(Q[o].items) + 1
    BY <1>5
  <2>2. \A i \in 1..Len(Q[o].items) + 1 : i \in 1..Len(Q[o].items) \/ i = Len(Q[o].items) + 1
    BY <1>5
  <2>3. \A i \in 1..Len(Q[o].items) : i \in 1..Len(Q[o].items) + 1
    BY <1>5
  <2> QED
    BY <2>1, <2>2, <2>3, <1>5, <1>6 DEF Has
<1>8. NoDup(s.items)
  <2>1. \A i \in 1..Len(Q[o].items) + 1 : i \in 1..Len(Q[o].items) \/ i = Len(Q[o].items) + 1
    BY <1>5
  <2>2. \A i \in 1..Len(Q[o].items) : Q[o].items[i] # m
    BY <1>3, <1>5 DEF Has
  <2>3. NoDup(Q[o].items)
    BY DEF WellDispatched
  <2> QED
    BY <1>5, <1>6, <2>1, <2>2, <2>3 DEF NoDup
<1>9. \A p \in Objs, x \in Msgs : Has(R[p].items, x) <=> Has(Q[p].items, x) \/ (p = o /\ x = m)
  BY <1>1, <1>7
<1>10. \A p \in Objs : R[p].sending = Q[p].sending /\ R[p].draining = Q[p].draining
  BY <1>1
<1>11. \A p \in Objs : NoDup(R[p].items)
  BY <1>1, <1>8 DEF WellDispatched
<1> QED
  BY <1>2, <1>3, <1>4, <1>9, <1>10, <1>11 DEF WellDispatched, R, H

\* A drain ends: its queue sends nothing any more and has nothing new.
LEMMA DrainEndDispatch ==
  ASSUME NEW Q \in [Objs -> QueueState], NEW C \in [Msgs -> CallState], NEW G,
         WellDispatched(Q, C, G), NEW m \in Msgs, NEW o \in Objs, Sends(C[m], o),
         NEW s \in QueueState, s.sending = NoMsg, ~s.draining, NoDup(s.items),
         \A x \in Msgs : Has(s.items, x) => Has(Q[o].items, x)
  PROVE  WellDispatched([Q EXCEPT ![o] = s], [C EXCEPT ![m] = NoCall], G)
<1> DEFINE R == [Q EXCEPT ![o] = s]
           D == [C EXCEPT ![m] = NoCall]
<1>1. R[o] = s /\ \A p \in Objs : p # o => R[p] = Q[p]
  OBVIOUS
<1>2. D[m].pc = "idle" /\ \A x \in Msgs : x # m => D[x] = C[x]
  BY DEF NoCall
<1> HIDE DEF R, D
<1>3. Q[o].sending = m
  BY DEF WellDispatched
<1>4. NoMsg \notin Msgs
  BY ConstantsAssumption DEF ConstantsAssumption
<1>5. ASSUME NEW p \in Objs, NEW x \in Msgs
      PROVE  Sends(D[x], p) <=> R[p].sending = x
  <2>1. CASE x = m /\ p = o
    BY <2>1, <1>1, <1>2, <1>4 DEF Sends
  <2>2. CASE x = m /\ p # o
    BY <2>2, <1>1, <1>2, <1>5 DEF Sends, WellDispatched
  <2>3. CASE x # m /\ p = o
    BY <2>3, <1>1, <1>2, <1>3, <1>4, <1>5 DEF Sends, WellDispatched
  <2>4. CASE x # m /\ p # o
    BY <2>4, <1>1, <1>2, <1>5 DEF WellDispatched
  <2> QED
    BY <2>1, <2>2, <2>3, <2>4
<1>6. \A p \in Objs : R[p].draining <=> R[p].sending # NoMsg
  BY <1>1 DEF WellDispatched
<1>7. \A p \in Objs, x \in Msgs : R[p].sending = x => Has(R[p].items, x)
  BY <1>1, <1>4 DEF WellDispatched
<1>8. \A p \in Objs : NoDup(R[p].items)
  BY <1>1 DEF WellDispatched
<1>9. \A p \in Objs, x \in Msgs : Has(R[p].items, x) => Has(Q[p].items, x)
  BY <1>1
<1>10. \A x \in Msgs : D[x].pc # "idle" => G[x] = IF D[x].drain THEN "queued" ELSE "direct"
  BY <1>2 DEF WellDispatched
<1> QED
  BY <1>5, <1>6, <1>7, <1>8, <1>9, <1>10 DEF WellDispatched, R, D

\* A direct start begins with a message that is in no queue ...
LEMMA DirectStartDispatch ==
  ASSUME NEW Q, NEW C \in [Msgs -> CallState], NEW G \in [Msgs -> Stages],
         WellDispatched(Q, C, G), NEW m \in Msgs, G[m] = "new", NEW t, NEW o
  PROVE  WellDispatched(Q, [C EXCEPT ![m] = NewCall(t, o, FALSE)], [G EXCEPT ![m] = "direct"])
<1> DEFINE D == [C EXCEPT ![m] = NewCall(t, o, FALSE)]
           H == [G EXCEPT ![m] = "direct"]
<1>1. D[m].drain = FALSE /\ \A x \in Msgs : x # m => D[x] = C[x]
  BY DEF NewCall
<1>2. H[m] = "direct" /\ \A x \in Msgs : x # m => H[x] = G[x]
  OBVIOUS
<1> HIDE DEF D, H
<1>3. C[m].pc = "idle" /\ \A p \in Objs : ~Has(Q[p].items, m)
  BY DEF WellDispatched
<1>4. \A p \in Objs : Q[p].sending # m
  BY <1>3 DEF WellDispatched
<1>5. \A p \in Objs, x \in Msgs : Sends(D[x], p) <=> Q[p].sending = x
  BY <1>1, <1>4 DEF WellDispatched, Sends
<1>6. \A p \in Objs, x \in Msgs : Has(Q[p].items, x) => H[x] = "queued"
  BY <1>2, <1>3 DEF WellDispatched
<1>7. \A x \in Msgs : D[x].pc # "idle" => H[x] = IF D[x].drain THEN "queued" ELSE "direct"
  BY <1>1, <1>2 DEF WellDispatched
<1> QED
  BY <1>5, <1>6, <1>7 DEF WellDispatched, D, H

\* ... and leaves the queues as they are when it ends.
LEMMA DirectEndDispatch ==
  ASSUME NEW Q, NEW C \in [Msgs -> CallState], NEW G \in [Msgs -> Stages],
         WellDispatched(Q, C, G), NEW m \in Msgs, C[m].pc # "idle", ~C[m].drain, NEW g
  PROVE  WellDispatched(Q, [C EXCEPT ![m] = NoCall], [G EXCEPT ![m] = g])
<1> DEFINE D == [C EXCEPT ![m] = NoCall]
<1>1. D[m].pc = "idle" /\ \A x \in Msgs : x # m => D[x] = C[x]
  BY DEF NoCall
<1> HIDE DEF D
<1>2. G[m] = "direct"
  BY DEF WellDispatched
<1>3. \A p \in Objs : ~Has(Q[p].items, m)
  BY <1>2 DEF WellDispatched
<1>4. \A p \in Objs, x \in Msgs : Sends(D[x], p) <=> Q[p].sending = x
  BY <1>1 DEF WellDispatched, Sends
<1>5. \A x \in Msgs : D[x].pc # "idle" => G[x] = IF D[x].drain THEN "queued" ELSE "direct"
  BY <1>1 DEF WellDispatched
<1>6. WellDispatched(Q, D, G)
  BY <1>4, <1>5 DEF WellDispatched
<1> QED
  BY <1>1, <1>3, <1>6, GoneDispatch DEF D

\* A call that only moves on in startTurn keeps the dispatch in order.
LEMMA MovedDispatch ==
  ASSUME NEW Q, NEW C, NEW D, NEW G, WellDispatched(Q, C, G),
         \A m \in Msgs : /\ D[m].pc = "idle" <=> C[m].pc = "idle"
                         /\ D[m].drain = C[m].drain /\ D[m].obj = C[m].obj
  PROVE  WellDispatched(Q, D, G)
<1>1. \A p \in Objs, m \in Msgs : Sends(D[m], p) <=> Sends(C[m], p)
  BY DEF Sends
<1> QED
  BY <1>1 DEF WellDispatched

\* What the server learns about turns touches neither items nor drains.
LEMMA LearningDispatch ==
  ASSUME TypeOK, NEW Q \in [Objs -> QueueState], NEW C, NEW G, WellDispatched(Q, C, G),
         NEW o \in Objs, NEW n \in 0..MaxTurn, NEW t \in Threads
  PROVE  /\ WellDispatched(Heard(Q, o, n, t), C, G)
         /\ WellDispatched([Q EXCEPT ![o] = Watched(Q[o], t)], C, G)
         /\ WellDispatched([Q EXCEPT ![o].activeTurn = n], C, G)
         /\ \A b \in BOOLEAN : WellDispatched([Q EXCEPT ![o].starting = b], C, G)
<1> DEFINE Same(R) == \A p \in Objs : /\ R[p].items = Q[p].items
                                      /\ R[p].sending = Q[p].sending
                                      /\ R[p].draining = Q[p].draining
<1>1. Q[o] \in QueueState
  OBVIOUS
<1>2. Same(Heard(Q, o, n, t))
  BY <1>1 DEF Heard, Watched, QueueState
<1>3. Same([Q EXCEPT ![o] = Watched(Q[o], t)])
  BY <1>1 DEF Watched, QueueState
<1>4. Same([Q EXCEPT ![o].activeTurn = n])
  BY <1>1 DEF QueueState
<1>5. \A b \in BOOLEAN : Same([Q EXCEPT ![o].starting = b])
  BY <1>1 DEF QueueState
<1>6. \A R : Same(R) => WellDispatched(R, C, G)
  BY SameDispatch
<1> HIDE DEF Same
<1> QED
  BY <1>2, <1>3, <1>4, <1>5, <1>6

LEMMA PublishDispatch ==
  ASSUME TypeOK, NEW t \in Threads, NEW s \in QueueState, NEW up, NEW G,
         WellDispatched([q EXCEPT ![slot[t]] = s], call, G), Publish(t, s, up)
  PROVE  WellDispatched(q', call', G)
<1> DEFINE o == slot[t]
           Q == [q EXCEPT ![o] = s]
           w == Watched(s, t)
           R == [Q EXCEPT ![o] = w]
<1>1. o \in Objs /\ q \in [Objs -> QueueState] /\ call \in [Msgs -> CallState]
  BY SlotType DEF TypeOK
<1>2. Q \in [Objs -> QueueState] /\ Q[o] = s /\ NoTurn \in 0..MaxTurn
  BY <1>1, ConstantsAssumption DEF NoTurn, ConstantsAssumption
<1>3. w \in QueueState
  BY WatchedType
<1>4. WellDispatched(R, call, G)
  BY <1>1, <1>2, LearningDispatch
<1>5. R \in [Objs -> QueueState] /\ R[o] = w
  BY <1>1, <1>2, <1>3
<1>6. q' = [R EXCEPT ![o] = Drained(w, up)] /\ call' = Launched(call, w, t, o, up)
  BY <1>1 DEF Publish
<1> HIDE DEF R, w, o
<1>7. WellDispatched([R EXCEPT ![o] = Drained(w, up)], Launched(call, w, t, o, up), G)
  BY <1>1, <1>4, <1>5, LaunchDispatch
<1> QED
  BY <1>6, <1>7

\* The drain a handler starts sends a message of the queue it publishes, and
\* takes nothing out of it.
LEMMA PublishItems ==
  ASSUME TypeOK, NEW t \in Threads, NEW s \in QueueState, NEW up, Publish(t, s, up)
  PROVE  /\ q'[slot[t]].items = s.items
         /\ \A o \in Objs : o # slot[t] => q'[o] = q[o]
         /\ \A m \in Msgs : ~Has(s.items, m) => call'[m] = call[m]
<1> DEFINE w == Watched(s, t)
<1>1. w \in QueueState /\ w.items = s.items
  BY WatchedType DEF Watched, QueueState
<1>2. Drained(w, up).items = w.items
  BY <1>1 DEF Drained, QueueState
<1>3. Starts(w, up) => Has(w.items, Head(w.items))
  <2> SUFFICES ASSUME w.items # <<>>
               PROVE  Has(w.items, Head(w.items))
    BY DEF Starts, CanDrain
  <2>1. w.items \in Seq(Msgs)
    BY <1>1, FieldTypes
  <2> QED
    BY <2>1, HeadTailProperties, LenProperties, EmptySeq DEF Has
<1>4. q' = [q EXCEPT ![slot[t]] = Drained(w, up)] /\ call' = Launched(call, w, t, slot[t], up)
  BY DEF Publish
<1>5. slot[t] \in Objs /\ q \in [Objs -> QueueState] /\ call \in [Msgs -> CallState]
  BY SlotType DEF TypeOK
<1> HIDE DEF w
<1>6. \A m \in Msgs : ~Has(s.items, m) => call'[m] = call[m]
  BY <1>1, <1>3, <1>4, <1>5 DEF Launched
<1> QED
  BY <1>1, <1>2, <1>4, <1>5, <1>6

LEMMA DispatchClientStep ==
  ASSUME TypeOK, DispatchInv, ClientStep
  PROVE  DispatchInv'
<1>1. /\ q \in [Objs -> QueueState] /\ call \in [Msgs -> CallState]
      /\ stage \in [Msgs -> Stages] /\ WellDispatched(q, call, stage)
  BY DEF TypeOK, DispatchInv
<1>2. ASSUME NEW t \in Threads, NEW m \in Msgs, StartTurn(t, m)
      PROVE  DispatchInv'
  <2> DEFINE Q == [q EXCEPT ![slot[t]].starting = TRUE]
  <2>1. WellDispatched(Q, call, stage)
    <3>1. TRUE \in BOOLEAN /\ 0 \in 0..MaxTurn
      BY ConstantsAssumption DEF ConstantsAssumption
    <3> QED
      BY <1>1, <3>1, SlotType, LearningDispatch
  <2> HIDE DEF Q
  <2>2. WellDispatched(Q, [call EXCEPT ![m] = NewCall(t, slot[t], FALSE)],
                       [stage EXCEPT ![m] = "direct"])
    BY <1>1, <1>2, <2>1, DirectStartDispatch DEF StartTurn
  <2> QED
    BY <1>2, <2>2 DEF StartTurn, DispatchInv, Q
<1>3. ASSUME NEW t \in Threads, NEW m \in Msgs, QueueTurn(t, m)
      PROVE  DispatchInv'
  <2> DEFINE s == [q[slot[t]] EXCEPT !.items = Append(@, m)]
  <2>1. s \in QueueState
    BY SlotType, FieldTypes, AppendProperties
  <2>2. s.items = Append(q[slot[t]].items, m) /\ s.sending = q[slot[t]].sending
        /\ s.draining = q[slot[t]].draining
    BY SlotType DEF QueueState
  <2>3. Publish(t, s, files) /\ stage[m] = "new" /\ stage' = [stage EXCEPT ![m] = "queued"]
    BY <1>3 DEF QueueTurn
  <2> HIDE DEF s
  <2>4. WellDispatched([q EXCEPT ![slot[t]] = s], call, stage')
    BY <1>1, <2>1, <2>2, <2>3, SlotType, AppendDispatch
  <2> QED
    BY <2>1, <2>3, <2>4, PublishDispatch DEF DispatchInv
<1>4. ASSUME NEW m \in Msgs, QueueRefused(m)
      PROVE  DispatchInv'
  <2>1. call[m].pc = "idle" /\ \A o \in Objs : ~Has(q[o].items, m)
    BY <1>1, <1>4 DEF QueueRefused, WellDispatched
  <2> QED
    BY <1>1, <1>4, <2>1, GoneDispatch DEF QueueRefused, DispatchInv
<1>5. ASSUME NEW t \in Threads, NEW m \in Msgs, NEW items \in Seq(Msgs), NEW up,
             Edit(t, m, items, up), NoDup(items),
             \A x \in Msgs : Has(items, x) => Has(q[slot[t]].items, x),
             \A x \in Msgs : Has(q[slot[t]].items, x) /\ x # m => Has(items, x)
      PROVE  /\ WellDispatched(q', call', stage)
             /\ \A x \in Msgs : ~Has(items, x) => call'[x] = call[x]
             /\ q'[slot[t]].items = items /\ \A o \in Objs : o # slot[t] => q'[o] = q[o]
  <2> DEFINE s == [q[slot[t]] EXCEPT !.items = items, !.blocked = FALSE]
  <2>1. s \in QueueState /\ slot[t] \in Objs
    BY SlotType, FieldTypes
  <2>2. s.items = items /\ s.sending = q[slot[t]].sending /\ s.draining = q[slot[t]].draining
    BY SlotType DEF QueueState
  <2>3. Publish(t, s, up) /\ q[slot[t]].sending # m
    BY <1>5 DEF Edit
  <2> HIDE DEF s
  <2>4. \A x \in Msgs : s.sending = x => Has(s.items, x)
    BY <1>1, <1>5, <2>1, <2>2, <2>3 DEF WellDispatched
  <2>5. WellDispatched([q EXCEPT ![slot[t]] = s], call, stage)
    BY <1>1, <1>5, <2>1, <2>2, <2>4, ReplaceDispatch
  <2> QED
    BY <2>1, <2>2, <2>3, <2>5, PublishDispatch, PublishItems
<1>6. ASSUME NEW t \in Threads
      PROVE  q[slot[t]].items \in Seq(Msgs) /\ NoDup(q[slot[t]].items)
  BY <1>1, SlotType, FieldTypes DEF WellDispatched
<1>7. ASSUME NEW t \in Threads, NEW m \in Msgs, RemoveQueuedTurn(t, m)
      PROVE  DispatchInv'
  <2> DEFINE w == Without(q[slot[t]].items, m)
  <2>1. /\ w \in Seq(Msgs) /\ NoDup(w) /\ ~Has(w, m)
        /\ \A x : Has(w, x) => Has(q[slot[t]].items, x)
        /\ \A x : Has(q[slot[t]].items, x) /\ x # m => Has(w, x)
    BY <1>6, WithoutProperties
  <2>2. Edit(t, m, w, files \ {m}) /\ stage' = [stage EXCEPT ![m] = "removed"]
    BY <1>7 DEF RemoveQueuedTurn
  <2>3. /\ WellDispatched(q', call', stage)
        /\ \A x \in Msgs : ~Has(w, x) => call'[x] = call[x]
        /\ q'[slot[t]].items = w /\ \A o \in Objs : o # slot[t] => q'[o] = q[o]
    BY <1>5, <2>1, <2>2
  <2> HIDE DEF w
  <2>4. slot[t] \in Objs /\ Has(q[slot[t]].items, m) /\ q[slot[t]].sending # m
    BY <2>2, SlotType DEF Edit
  <2>5. \A o \in Objs : ~Has(q'[o].items, m)
    BY <1>1, <2>1, <2>3, <2>4 DEF WellDispatched
  <2>6. call'[m].pc = "idle"
    <3>1. call[m].pc = "idle"
      <4> SUFFICES ASSUME call[m].pc # "idle"
                   PROVE  FALSE
        OBVIOUS
      <4>1. call[m].obj \in Objs
        BY CallTypes
      <4>2. call[m].drain
        BY <1>1, <2>4 DEF WellDispatched
      <4>3. q[call[m].obj].sending = m /\ Has(q[call[m].obj].items, m)
        BY <1>1, <4>1, <4>2 DEF WellDispatched, Sends
      <4>4. call[m].obj = slot[t]
        BY <1>1, <2>4, <4>1, <4>3 DEF WellDispatched
      <4> QED
        BY <2>4, <4>3, <4>4
    <3> QED
      BY <2>1, <2>3, <3>1
  <2> QED
    BY <1>1, <2>2, <2>3, <2>5, <2>6, GoneDispatch DEF DispatchInv
<1>8. ASSUME NEW t \in Threads, NEW m \in Msgs, UpdateQueuedTurn(t, m)
      PROVE  DispatchInv'
  BY <1>5, <1>6, <1>8 DEF UpdateQueuedTurn, DispatchInv
<1>9. ASSUME NEW t \in Threads, NEW m \in Msgs, ReorderQueuedTurn(t, m)
      PROVE  DispatchInv'
  <2> DEFINE s == q[slot[t]].items
             w == Without(s, m)
  <2>1. PICK i \in DOMAIN s : Edit(t, m, InsertAt(w, i, m), files) /\ UNCHANGED stage
    BY <1>9 DEF ReorderQueuedTurn
  <2>2. Has(s, m) /\ s \in Seq(Msgs) /\ NoDup(s)
    BY <1>6, <2>1 DEF Edit
  <2>3. /\ w \in Seq(Msgs) /\ NoDup(w) /\ ~Has(w, m) /\ Len(w) = Len(s) - 1
        /\ \A x : Has(w, x) => Has(s, x)
        /\ \A x : Has(s, x) /\ x # m => Has(w, x)
    BY <2>2, WithoutProperties
  <2>4. i \in 1..Len(w) + 1
    <3>1. DOMAIN s = 1..Len(s) /\ Len(s) \in Nat
      BY <2>2, LenProperties
    <3> QED
      BY <2>3, <3>1
  <2>5. /\ InsertAt(w, i, m) \in Seq(Msgs) /\ NoDup(InsertAt(w, i, m))
        /\ \A x : Has(InsertAt(w, i, m), x) <=> Has(w, x) \/ x = m
    BY <2>3, <2>4, InsertAtDef, InsertAtProperties
  <2>6. WellDispatched(q', call', stage)
    BY <1>5, <2>1, <2>2, <2>3, <2>5
  <2> QED
    BY <2>1, <2>6 DEF DispatchInv
<1>10. ASSUME NEW t \in Threads, NEW n \in Turns, SteerTurn(t, n)
       PROVE  DispatchInv'
  <2>1. n \in 0..MaxTurn
    BY <1>10, ConstantsAssumption DEF Turns, ConstantsAssumption
  <2>2. WellDispatched(Heard(q, slot[t], n, t), call, stage)
    BY <1>1, <2>1, SlotType, LearningDispatch
  <2> QED
    BY <1>10, <2>2 DEF SteerTurn, DispatchInv
<1>11. ASSUME UNCHANGED <<q, call, stage>>
       PROVE  DispatchInv'
  BY <1>11 DEF DispatchInv
<1> QED
  BY <1>2, <1>3, <1>4, <1>7, <1>8, <1>9, <1>10, <1>11
     DEF ClientStep, CreateThread, OpenThread, RemoveAttachment, PurgeExpiredUpload, historyVars

\* A drain in flight sends the item its queue has marked.
LEMMA DrainInFlight ==
  ASSUME TypeOK, DispatchInv, NEW m \in Msgs, call[m].pc # "idle", call[m].drain
  PROVE  /\ call[m].obj \in Objs /\ Sends(call[m], call[m].obj)
         /\ Has(q[call[m].obj].items, m)
<1>1. call[m].obj \in Objs
  BY CallTypes
<1>2. Sends(call[m], call[m].obj)
  BY DEF Sends
<1>3. q[call[m].obj].sending = m
  BY <1>1, <1>2 DEF DispatchInv, WellDispatched
<1> QED
  BY <1>1, <1>2, <1>3 DEF DispatchInv, WellDispatched

LEMMA DispatchCallStep ==
  ASSUME TypeOK, DispatchInv, NEW m \in Msgs, CallStep(m)
  PROVE  DispatchInv'
<1>1. /\ q \in [Objs -> QueueState] /\ call \in [Msgs -> CallState]
      /\ stage \in [Msgs -> Stages] /\ WellDispatched(q, call, stage)
  BY DEF TypeOK, DispatchInv
<1>2. ASSUME UsageAllows(m) \/ Resumed(m)
      PROVE  DispatchInv'
  <2>1. /\ call[m].pc # "idle"
        /\ \/ call' = [call EXCEPT ![m].pc = "resume"]
           \/ call' = [call EXCEPT ![m].pc = "sent"]
        /\ UNCHANGED <<q, stage>>
    BY <1>2 DEF UsageAllows, Resumed
  <2>2. call[m] \in Calls
    BY <2>1, CallTypes
  <2>3. \A x \in Msgs : /\ call'[x].pc = "idle" <=> call[x].pc = "idle"
                        /\ call'[x].drain = call[x].drain /\ call'[x].obj = call[x].obj
    BY <1>1, <2>1, <2>2 DEF Calls
  <2>4. WellDispatched(q, call', stage)
    BY <1>1, <2>3, MovedDispatch
  <2> QED
    BY <2>1, <2>4 DEF DispatchInv
<1>3. ASSUME TurnStarted(m)
      PROVE  DispatchInv'
  <2> DEFINE c == call[m]
             emitted == Heard(q, slot[c.canon], c.turn, c.canon)
             active == Heard(emitted, slot'[c.canon], c.turn, c.canon)
  <2>1. /\ c.thread \in Threads /\ c.obj \in Objs /\ c.pc # "idle"
        /\ c.turn \in 0..MaxTurn /\ c.canon \in Threads
    BY <1>3, CallTypes DEF TurnStarted
  <2>2. slot' \in [Threads -> Objs] /\ slot[c.canon] \in Objs /\ slot'[c.canon] \in Objs
    BY <1>3, <2>1, ObjTypes DEF TypeOK, TurnStarted, MovedSlot
  <2>3. emitted \in [Objs -> QueueState] /\ WellDispatched(emitted, call, stage)
    BY <1>1, <2>1, <2>2, HeardType, LearningDispatch
  <2> HIDE DEF emitted
  <2>4. active \in [Objs -> QueueState] /\ WellDispatched(active, call, stage)
    BY <2>1, <2>2, <2>3, HeardType, LearningDispatch
  <2>5. /\ q' = [active EXCEPT ![c.obj] =
                   IF c.drain THEN Dropped(@, m) ELSE [@ EXCEPT !.starting = FALSE]]
        /\ call' = [call EXCEPT ![m] = NoCall]
        /\ stage' = [stage EXCEPT ![m] = "sent"]
    BY <1>3 DEF TurnStarted, emitted
  <2> HIDE DEF active, c
  <2>6. CASE c.drain
    <3> DEFINE s == active[c.obj]
               d == Dropped(s, m)
    <3>1. /\ d \in QueueState /\ d.items = Without(s.items, m)
          /\ d.sending = NoMsg /\ ~d.draining
      <4>1. s \in QueueState
        BY <2>1, <2>4
      <4> QED
        BY <4>1, DroppedType, DrainEndFields
    <3>2. s.items \in Seq(Msgs) /\ NoDup(s.items)
      BY <2>1, <2>4, FieldTypes DEF WellDispatched
    <3>3. /\ NoDup(d.items) /\ ~Has(d.items, m)
          /\ \A x : Has(d.items, x) => Has(s.items, x)
      BY <3>1, <3>2, WithoutProperties
    <3>4. Sends(call[m], c.obj)
      BY <2>1, <2>6 DEF Sends, c
    <3> HIDE DEF d, s
    <3>5. WellDispatched([active EXCEPT ![c.obj] = d], call', stage)
      BY <1>1, <2>1, <2>4, <2>5, <3>1, <3>3, <3>4, DrainEndDispatch DEF s
    <3>6. q' = [active EXCEPT ![c.obj] = d]
      BY <2>1, <2>4, <2>5, <2>6 DEF d, s
    <3>7. \A o \in Objs : ~Has(q'[o].items, m)
      <4>1. Has(active[c.obj].items, m)
        BY <2>1, <2>4, <3>4 DEF WellDispatched
      <4> QED
        BY <2>1, <2>4, <3>3, <3>6, <4>1 DEF WellDispatched
    <3>8. call'[m].pc = "idle"
      BY <1>1, <2>5 DEF NoCall
    <3> QED
      BY <1>1, <2>5, <3>5, <3>6, <3>7, <3>8, GoneDispatch DEF DispatchInv
  <2>7. CASE ~c.drain
    <3>1. q' = [active EXCEPT ![c.obj].starting = FALSE]
      BY <2>1, <2>4, <2>5, <2>7
    <3>2. WellDispatched(q', call, stage)
      <4>1. FALSE \in BOOLEAN
        OBVIOUS
      <4> QED
        BY <2>1, <2>4, <3>1, <4>1, LearningDispatch
    <3> QED
      BY <1>1, <2>1, <2>5, <2>7, <3>2, DirectEndDispatch DEF DispatchInv, c
  <2> QED
    BY <2>6, <2>7
<1>4. ASSUME DrainFailed(m)
      PROVE  DispatchInv'
  <2> DEFINE o == call[m].obj
             s == PutBack(q[o], m)
             back == [q EXCEPT ![o] = s]
             t == call[m].thread
  <2>1. call[m].pc # "idle" /\ call[m].drain /\ t \in Threads /\ o \in Objs
    BY <1>4, CallTypes DEF DrainFailed, CanFail
  <2>2. Sends(call[m], o) /\ Has(q[o].items, m)
    BY <2>1, DrainInFlight
  <2>3. /\ s \in QueueState /\ s.sending = NoMsg /\ ~s.draining
        /\ s.items = InsertAt(Without(q[o].items, m), 1, m)
    <3>1. q[o] \in QueueState
      BY <1>1, <2>1
    <3> QED
      BY <3>1, PutBackType, DrainEndFields
  <2>4. q[o].items \in Seq(Msgs) /\ NoDup(q[o].items)
    BY <1>1, <2>1, FieldTypes DEF WellDispatched
  <2>5. /\ Without(q[o].items, m) \in Seq(Msgs) /\ NoDup(Without(q[o].items, m))
        /\ ~Has(Without(q[o].items, m), m)
        /\ \A x : Has(Without(q[o].items, m), x) => Has(q[o].items, x)
        /\ 1 \in 1..Len(Without(q[o].items, m)) + 1
    BY <2>4, WithoutProperties, LenProperties
  <2>6. NoDup(s.items) /\ \A x \in Msgs : Has(s.items, x) => Has(q[o].items, x)
    BY <2>2, <2>3, <2>5, InsertAtProperties
  <2> HIDE DEF o, s, t
  <2>7. WellDispatched(back, [call EXCEPT ![m] = NoCall], stage)
    BY <1>1, <2>1, <2>2, <2>3, <2>6, DrainEndDispatch
  <2>8. back \in [Objs -> QueueState] /\ slot[t] \in Objs /\ NoTurn \in 0..MaxTurn
    BY <1>1, <2>1, <2>3, SlotType, ConstantsAssumption DEF NoTurn, ConstantsAssumption
  <2>9. /\ q' = [back EXCEPT ![slot[t]] = Watched(@, t)]
        /\ call' = [call EXCEPT ![m] = NoCall] /\ stage' = stage
    BY <1>4 DEF DrainFailed, historyVars, o, s, t
  <2> HIDE DEF back
  <2>10. WellDispatched(q', call', stage')
    BY <2>1, <2>7, <2>8, <2>9, LearningDispatch
  <2> QED
    BY <2>10 DEF DispatchInv
<1>5. ASSUME DirectFailed(m)
      PROVE  DispatchInv'
  <2> DEFINE c == call[m]
             reset == [q EXCEPT ![c.obj].starting = FALSE]
             target == slot[c.thread]
             up == files \ {m}
             done == [call EXCEPT ![m] = NoCall]
  <2>1. c.pc # "idle" /\ ~c.drain /\ c.thread \in Threads /\ c.obj \in Objs
    BY <1>5, CallTypes DEF DirectFailed, CanFail
  <2>2. target \in Objs /\ reset \in [Objs -> QueueState] /\ done \in [Msgs -> CallState]
    BY <1>1, <2>1, SlotType, FieldTypes, ObjTypes
  <2>3. WellDispatched(reset, call, stage)
    <3>1. FALSE \in BOOLEAN /\ NoTurn \in 0..MaxTurn
      BY ConstantsAssumption DEF NoTurn, ConstantsAssumption
    <3> QED
      BY <1>1, <2>1, <3>1, LearningDispatch
  <2>4. stage' = [stage EXCEPT ![m] = "refused"]
    BY <1>5 DEF DirectFailed
  <2>5. \/ q' = reset /\ call' = done
        \/ /\ q' = [reset EXCEPT ![target] = Drained(@, up)]
           /\ call' = Launched(done, reset[target], c.thread, target, up)
    BY <1>5 DEF DirectFailed
  <2> HIDE DEF reset
  <2>6. WellDispatched(reset, done, stage')
    BY <1>1, <2>1, <2>3, <2>4, DirectEndDispatch
  <2> HIDE DEF done, c, target, up
  <2>7. WellDispatched([reset EXCEPT ![target] = Drained(@, up)],
                       Launched(done, reset[target], c.thread, target, up), stage')
    BY <2>1, <2>2, <2>6, LaunchDispatch
  <2> QED
    BY <2>5, <2>6, <2>7 DEF DispatchInv
<1> QED
  BY <1>2, <1>3, <1>4, <1>5 DEF CallStep

LEMMA LearntDispatch ==
  ASSUME TypeOK, DispatchInv, NEW x \in Objs, NEW n \in 0..MaxTurn, NEW t \in Threads
  PROVE  WellDispatched(Learnt(x, n, t), call, stage)
<1> DEFINE told == [q EXCEPT ![x].activeTurn = n]
<1>1. /\ q \in [Objs -> QueueState] /\ slot[t] \in Objs
      /\ WellDispatched(q, call, stage)
  BY SlotType DEF TypeOK, DispatchInv
<1>2. told \in [Objs -> QueueState] /\ WellDispatched(told, call, stage)
  BY <1>1, FieldTypes, LearningDispatch
<1> HIDE DEF told
<1>3. WellDispatched([told EXCEPT ![slot[t]] = Watched(@, t)], call, stage)
  BY <1>1, <1>2, LearningDispatch
<1> QED
  BY <1>1, <1>3 DEF Learnt, told

LEMMA DispatchPollStep ==
  ASSUME TypeOK, DispatchInv, NEW o \in Objs, PollStep(o)
  PROVE  DispatchInv'
<1>1. /\ q \in [Objs -> QueueState] /\ call \in [Msgs -> CallState]
      /\ WellDispatched(q, call, stage) /\ NoTurn \in 0..MaxTurn
  BY ConstantsAssumption DEF TypeOK, DispatchInv, NoTurn, ConstantsAssumption
<1>2. ASSUME PollSeesTurn(o)
      PROVE  DispatchInv'
  <2>1. poll[o].thread \in Threads /\ poll[o].seen \in Run
    BY <1>2, PollTypes DEF PollSeesTurn
  <2>2. PICK a \in Answers(poll[o].seen, poll[o].thread) :
          q' = Learnt(o, a.turn, poll[o].thread)
    BY <1>2 DEF PollSeesTurn
  <2>3. WellDispatched(q', call, stage)
    BY <2>1, <2>2, AnswerTypes, LearntDispatch
  <2> QED
    BY <1>2, <2>3 DEF PollSeesTurn, historyVars, DispatchInv
<1>3. ASSUME NEW x \in Objs, poll[o].pc # "idle", PollGoesOn(o, x)
      PROVE  DispatchInv'
  <2> DEFINE t == poll[o].thread
             idle == Learnt(x, NoTurn, t)
             s == idle[slot[t]]
  <2>1. t \in Threads /\ slot[t] \in Objs
    BY <1>3, PollTypes, SlotType
  <2>2. idle \in [Objs -> QueueState] /\ WellDispatched(idle, call, stage)
    BY <1>1, <2>1, LearntType, LearntDispatch
  <2>3. /\ \/ q' = idle /\ call' = call
           \/ /\ q' = [idle EXCEPT ![slot[t]] = Drained(s, files')]
              /\ call' = Launched(call, s, t, slot[t], files')
        /\ stage' = stage
    BY <1>3 DEF PollGoesOn, historyVars
  <2> HIDE DEF idle, t
  <2>4. WellDispatched([idle EXCEPT ![slot[t]] = Drained(s, files')],
                       Launched(call, s, t, slot[t], files'), stage)
    BY <1>1, <2>1, <2>2, LaunchDispatch
  <2> QED
    BY <2>2, <2>3, <2>4 DEF DispatchInv
<1>4. ASSUME PollSeesIdle(o)
      PROVE  DispatchInv'
  BY <1>3, <1>4 DEF PollSeesIdle
<1>5. ASSUME StatusIdle(o)
      PROVE  DispatchInv'
  <2>1. poll[o].pc # "idle" /\ slot[poll[o].thread] \in Objs
    BY <1>5, PollTypes, SlotType DEF StatusIdle
  <2> QED
    BY <1>3, <1>5, <2>1 DEF StatusIdle
<1>6. ASSUME PollFallsBack(o) \/ StatusSettlesNothing(o)
      PROVE  DispatchInv'
  BY <1>6 DEF PollFallsBack, StatusSettlesNothing, historyVars, DispatchInv
<1> QED
  BY <1>2, <1>4, <1>5, <1>6 DEF PollStep

LEMMA DispatchThreadStep ==
  ASSUME TypeOK, DispatchInv, NEW t \in Threads, ThreadStep(t)
  PROVE  DispatchInv'
<1>1. /\ q \in [Objs -> QueueState] /\ q[slot[t]] \in QueueState /\ slot[t] \in Objs
      /\ WellDispatched(q, call, stage) /\ NoTurn \in 0..MaxTurn
  BY SlotType, ConstantsAssumption DEF TypeOK, DispatchInv, NoTurn, ConstantsAssumption
<1>2. ASSUME NoteStarted(t)
      PROVE  DispatchInv'
  <2>1. WellDispatched(Heard(q, slot[t], Head(notes[t]).turn, t), call, stage)
    BY <1>1, <1>2, NoteTypes, LearningDispatch DEF NoteStarted
  <2> QED
    BY <1>2, <2>1 DEF NoteStarted, historyVars, DispatchInv
<1>3. ASSUME NEW n \in 0..MaxTurn, NEW up, stage' = stage,
             Publish(t, [q[slot[t]] EXCEPT !.activeTurn = n], up)
      PROVE  DispatchInv'
  <2> DEFINE s == [q[slot[t]] EXCEPT !.activeTurn = n]
  <2>1. s \in QueueState
    BY <1>1, FieldTypes
  <2>2. WellDispatched([q EXCEPT ![slot[t]] = s], call, stage)
    BY <1>1, LearningDispatch
  <2> HIDE DEF s
  <2>3. WellDispatched(q', call', stage)
    BY <1>3, <2>1, <2>2, PublishDispatch DEF s
  <2> QED
    BY <1>3, <2>3 DEF DispatchInv
<1>4. ASSUME NoteCompleted(t)
      PROVE  DispatchInv'
  <2> DEFINE n == IF q[slot[t]].activeTurn = Head(notes[t]).turn THEN NoTurn
                  ELSE q[slot[t]].activeTurn
  <2>1. n \in 0..MaxTurn
    BY <1>1, FieldTypes
  <2>2. Publish(t, [q[slot[t]] EXCEPT !.activeTurn = n], files') /\ stage' = stage
    BY <1>4 DEF NoteCompleted, historyVars
  <2> HIDE DEF n
  <2> QED
    BY <1>3, <2>1, <2>2
<1>5. ASSUME SynchronizeActiveTurn(t)
      PROVE  DispatchInv'
  <2>1. read[t].seen \in Run
    BY DEF TypeOK, ReadState
  <2>2. PICK a \in Answers(read[t].seen, t) :
          Publish(t, [q[slot[t]] EXCEPT !.activeTurn = IF a.active THEN a.turn ELSE NoTurn],
                  files')
    BY <1>5 DEF SynchronizeActiveTurn
  <2>3. (IF a.active THEN a.turn ELSE NoTurn) \in 0..MaxTurn
    BY <1>1, <2>1, AnswerTypes
  <2>4. stage' = stage
    BY <1>5 DEF SynchronizeActiveTurn, historyVars
  <2> QED
    BY <1>3, <2>2, <2>3, <2>4
<1>6. ASSUME PollQueue(t) \/ ReadFailed(t)
      PROVE  DispatchInv'
  BY <1>6 DEF PollQueue, ReadFailed, historyVars, DispatchInv
<1> QED
  BY <1>2, <1>4, <1>5, <1>6 DEF ThreadStep

LEMMA DispatchSteered ==
  ASSUME TypeOK, DispatchInv, SteerAccepted \/ SteerFailed
  PROVE  DispatchInv'
<1>1. CASE SteerAccepted
  BY <1>1 DEF SteerAccepted, historyVars, DispatchInv
<1>2. CASE SteerFailed
  <2> DEFINE back == [q EXCEPT ![steer.obj].activeTurn = steer.previous]
  <2>1. steer.thread \in Threads /\ steer.obj \in Objs /\ steer.previous \in 0..MaxTurn
    BY <1>2, SteerTypes DEF SteerFailed
  <2>2. /\ q \in [Objs -> QueueState] /\ slot[steer.thread] \in Objs
        /\ WellDispatched(q, call, stage)
    BY <2>1, SlotType DEF TypeOK, DispatchInv
  <2>3. back \in [Objs -> QueueState] /\ WellDispatched(back, call, stage)
    BY <2>1, <2>2, FieldTypes, LearningDispatch
  <2>4. q' = [back EXCEPT ![slot[steer.thread]] = Watched(@, steer.thread)]
        /\ UNCHANGED <<call, stage>>
    BY <1>2 DEF SteerFailed, historyVars
  <2> HIDE DEF back
  <2>5. WellDispatched(q', call, stage)
    BY <2>1, <2>2, <2>3, <2>4, LearningDispatch
  <2> QED
    BY <2>4, <2>5 DEF DispatchInv
<1> QED
  BY <1>1, <1>2

LEMMA DispatchOfficialStep ==
  ASSUME TypeOK, DispatchInv, OfficialStep
  PROVE  DispatchInv'
<1>1. ASSUME NEW m \in Msgs, AcceptTurn(m)
      PROVE  DispatchInv'
  <2>1. call[m] \in Calls /\ call \in [Msgs -> CallState] /\ WellDispatched(q, call, stage)
    BY <1>1, CallTypes DEF AcceptTurn, TypeOK, DispatchInv
  <2>2. PICK c \in Threads :
          call' = [call EXCEPT ![m].pc = "accepted", ![m].turn = turns', ![m].canon = c]
    BY <1>1 DEF AcceptTurn
  <2>3. call[m].pc # "idle"
    BY <1>1 DEF AcceptTurn
  <2>4. \A x \in Msgs : /\ call'[x].pc = "idle" <=> call[x].pc = "idle"
                        /\ call'[x].drain = call[x].drain /\ call'[x].obj = call[x].obj
    BY <2>1, <2>2, <2>3 DEF Calls
  <2>5. WellDispatched(q, call', stage)
    BY <2>1, <2>4, MovedDispatch
  <2> QED
    BY <1>1, <2>5 DEF AcceptTurn, DispatchInv
<1>2. ASSUME NEW t \in Threads, OfficialTurn(t) \/ CompleteTurn(t) \/ LoseNote(t)
      PROVE  DispatchInv'
  BY <1>2 DEF OfficialTurn, CompleteTurn, LoseNote, serverVars, historyVars, DispatchInv
<1> QED
  BY <1>1, <1>2 DEF OfficialStep

LEMMA DispatchInit == Init => DispatchInv
<1> SUFFICES ASSUME Init
             PROVE  DispatchInv
  OBVIOUS
<1>1. \A o \in Objs : /\ q[o].items = <<>> /\ q[o].sending = NoMsg /\ q[o].draining = FALSE
  BY DEF Init, EmptyQueue
<1>2. \A m \in Msgs : call[m].pc = "idle"
  BY DEF Init, NoCall
<1>3. NoMsg \notin Msgs
  BY ConstantsAssumption DEF ConstantsAssumption
<1>4. \A m : ~Has(<<>>, m)
  BY DEF Has
<1>5. NoDup(<<>>)
  BY DEF NoDup
<1> QED
  BY <1>1, <1>2, <1>3, <1>4, <1>5 DEF DispatchInv, WellDispatched, Sends

LEMMA DispatchImplies == TypeOK /\ DispatchInv => OneDispatcher
<1> SUFFICES ASSUME TypeOK, DispatchInv, NEW o \in Objs
             PROVE  /\ Drains(o) = {q[o].sending} \ {NoMsg}
                    /\ q[o].draining <=> q[o].sending # NoMsg
                    /\ q[o].draining => Has(q[o].items, q[o].sending)
  BY DEF OneDispatcher
<1>1. q[o].sending \in Msgs \cup {NoMsg}
  BY DEF TypeOK, QueueState
<1>2. \A m \in Msgs : m \in Drains(o) <=> q[o].sending = m
  BY DEF Drains, InFlight, DispatchInv, WellDispatched, Sends
<1>3. Drains(o) \subseteq Msgs /\ NoMsg \notin Msgs
  BY ConstantsAssumption DEF Drains, ConstantsAssumption
<1>4. Drains(o) = {q[o].sending} \ {NoMsg}
  BY <1>1, <1>2, <1>3
<1> QED
  BY <1>1, <1>4 DEF DispatchInv, WellDispatched

\* Whatever polls, notifications, client operations, failures and id migrations
\* do to each other, no message is in two places of the queues, none is queued
\* and started directly at once, and a call in flight belongs to the queue that
\* has marked its message.
THEOREM DispatchSafe == Spec => []DispatchInv
<1>1. Init => DispatchInv
  BY DispatchInit
<1>2. TypeOK /\ DispatchInv /\ [Next]_vars => DispatchInv'
  <2> SUFFICES ASSUME TypeOK, DispatchInv, [Next]_vars
               PROVE  DispatchInv'
    OBVIOUS
  <2>1. CASE Next
    BY <2>1, DispatchClientStep, DispatchSteered, DispatchCallStep, DispatchPollStep,
       DispatchThreadStep, DispatchOfficialStep DEF Next
  <2>2. CASE UNCHANGED vars
    BY <2>2 DEF DispatchInv, vars, serverVars, historyVars
  <2> QED
    BY <2>1, <2>2
<1> QED
  BY <1>1, <1>2, TypeCorrect, PTL DEF Spec

\* At most one automatic start is in flight for a queue, it is the one of the item
\* marked "starting", and that item stays in the queue until the start is settled.
THEOREM OneDispatcherHolds == Spec => []OneDispatcher
BY TypeCorrect, DispatchSafe, DispatchImplies, PTL

=============================================================================
