-------------------------- MODULE QueueRecoveryProofs --------------------------
(***************************************************************************)
(* Theorems about the recovery of a thread's queue, for any number of      *)
(* messages, servers, connections and snapshots, and whatever the          *)
(* environment may do: what waits is kept, only a mishap repeats a         *)
(* message, what is in the file stays there, and the hub has the queue.    *)
(***************************************************************************)
EXTENDS QueueRecovery, SequenceTheorems, FiniteSetTheorems, TLAPS

-----------------------------------------------------------------------------
(* Sequences *)

\* A filter keeps exactly the elements of its set.
LEMMA KeptProperties ==
  ASSUME NEW T, NEW s \in Seq(T), NEW S
  PROVE  /\ Kept(s, S) \in Seq(T)
         /\ \A x : Has(Kept(s, S), x) <=> Has(s, x) /\ x \in S
<1> DEFINE places == {i \in DOMAIN s : s[i] \in S}
           rank(i) == Cardinality({j \in places : j <= i})
           size == Cardinality(places)
           f == [i \in places |-> rank(i)]
           place(n) == CHOOSE i \in places : rank(i) = n
<1>1. DOMAIN s = 1..Len(s) /\ Len(s) \in Nat
  BY LenProperties
<1>2. IsFiniteSet(places) /\ size \in Nat
  <2>1. IsFiniteSet(1..Len(s)) /\ places \in SUBSET (1..Len(s))
    BY <1>1, FS_Interval
  <2> QED
    BY <2>1, FS_Subset, FS_CardinalityType
<1>3. ASSUME NEW i \in places
      PROVE  rank(i) \in 1..size
  <2> DEFINE below == {j \in places : j <= i}
  <2>1. below \in SUBSET places /\ i \in below /\ i \in Nat
    BY <1>1
  <2>2. IsFiniteSet(below) /\ Cardinality(below) <= size /\ Cardinality(below) \in Nat
    BY <1>2, <2>1, FS_Subset, FS_CardinalityType
  <2>3. Cardinality(below) # 0
    BY <2>1, <2>2, FS_EmptySet
  <2> QED
    BY <1>2, <2>2, <2>3
<1>4. ASSUME NEW i \in places, NEW k \in places, i < k
      PROVE  rank(i) < rank(k)
  <2> DEFINE low == {j \in places : j <= i}
             high == {j \in places : j <= k}
  <2>1. i \in Nat /\ k \in Nat /\ \A j \in places : j \in Nat
    BY <1>1
  <2>2. low \in SUBSET high /\ k \in high /\ k \notin low
    BY <1>4, <2>1
  <2>3. IsFiniteSet(high)
    BY <1>2, FS_Subset
  <2>4. Cardinality(low) <= Cardinality(high) /\ Cardinality(low) # Cardinality(high)
    BY <2>2, <2>3, FS_Subset
  <2>5. Cardinality(low) \in Nat /\ Cardinality(high) \in Nat
    BY <2>2, <2>3, FS_Subset, FS_CardinalityType
  <2> QED
    BY <2>4, <2>5
<1> HIDE DEF rank
<1>5. f \in Injection(places, 1..size)
  <2>1. f \in [places -> 1..size]
    BY <1>3
  <2>2. ASSUME NEW i \in places, NEW k \in places, f[i] = f[k]
        PROVE  i = k
    <3>1. rank(i) = rank(k) /\ rank(i) \in Nat /\ i \in Nat /\ k \in Nat
      BY <1>1, <1>2, <1>3, <2>2
    <3>2. ~(i < k) /\ ~(k < i)
      BY <1>4, <3>1
    <3> QED
      BY <3>1, <3>2
  <2> HIDE DEF f
  <2> QED
    BY <2>1, <2>2 DEF Injection, IsInjective
<1>6. f \in Surjection(places, 1..size)
  <2>1. IsFiniteSet(1..size) /\ Cardinality(1..size) = size
    BY <1>2, FS_Interval
  <2> QED
    BY <1>2, <1>5, <2>1, FS_Injection
<1>7. ASSUME NEW n \in 1..size
      PROVE  place(n) \in places /\ rank(place(n)) = n
  <2>1. \E i \in places : rank(i) = n
    BY <1>6 DEF Surjection
  <2> QED
    BY <2>1
<1>8. ASSUME NEW i \in places
      PROVE  place(rank(i)) = i
  <2>1. place(rank(i)) \in places /\ rank(place(rank(i))) = rank(i)
    BY <1>3, <1>7
  <2> QED
    BY <1>1, <1>4, <2>1, <1>3
<1>9. Kept(s, S) = [n \in 1..size |-> s[place(n)]]
  BY DEF Kept, rank
<1> HIDE DEF place, size
<1>10. Kept(s, S) \in Seq(T)
  <2>1. \A n \in 1..size : s[place(n)] \in T
    BY <1>1, <1>7, ElementOfSeq
  <2>2. [n \in 1..size |-> s[place(n)]] \in [1..size -> T]
    BY <2>1
  <2> QED
    BY <1>2, <1>9, <2>2, SeqDef
<1>11. ASSUME NEW x
       PROVE  Has(Kept(s, S), x) <=> Has(s, x) /\ x \in S
  <2>1. Has(Kept(s, S), x) <=> \E n \in 1..size : s[place(n)] = x
    BY <1>9 DEF Has
  <2>2. ASSUME NEW n \in 1..size, s[place(n)] = x
        PROVE  Has(s, x) /\ x \in S
    BY <1>7, <2>2 DEF Has
  <2>3. ASSUME Has(s, x), x \in S
        PROVE  \E n \in 1..size : s[place(n)] = x
    <3>1. PICK i \in places : s[i] = x
      BY <2>3 DEF Has
    <3> QED
      BY <1>3, <1>8, <3>1
  <2> QED
    BY <2>1, <2>2, <2>3
<1> QED
  BY <1>10, <1>11

\* A queue without message m, and one with m at its end or at its start.
LEMMA QueueProperties ==
  ASSUME NEW s \in Seq(Msgs), NEW m \in Msgs
  PROVE  /\ Without(s, m) \in Seq(Msgs)
         /\ \A x \in Msgs : Has(Without(s, m), x) <=> Has(s, x) /\ x # m
         /\ Append(s, m) \in Seq(Msgs)
         /\ \A x \in Msgs : Has(Append(s, m), x) <=> Has(s, x) \/ x = m
         /\ <<m>> \o s \in Seq(Msgs)
         /\ \A x \in Msgs : Has(<<m>> \o s, x) <=> Has(s, x) \/ x = m
<1>1. Without(s, m) \in Seq(Msgs) /\ \A x \in Msgs : Has(Without(s, m), x) <=> Has(s, x) /\ x # m
  BY KeptProperties DEF Without
<1>2. /\ Append(s, m) \in Seq(Msgs)
      /\ \A x \in Msgs : Has(Append(s, m), x) <=> Has(s, x) \/ x = m
  BY AppendProperties, LenProperties DEF Has
<1>3. /\ <<m>> \o s \in Seq(Msgs)
      /\ \A x \in Msgs : Has(<<m>> \o s, x) <=> Has(s, x) \/ x = m
  <2>1. <<m>> \in Seq(Msgs) /\ Len(<<m>>) = 1 /\ <<m>>[1] = m
    OBVIOUS
  <2>2. /\ <<m>> \o s \in Seq(Msgs) /\ Len(<<m>> \o s) = 1 + Len(s)
        /\ \A i \in 1..(1 + Len(s)) : (<<m>> \o s)[i] = IF i <= 1 THEN m ELSE s[i - 1]
    BY <2>1, ConcatProperties
  <2>3. DOMAIN (<<m>> \o s) = 1..(1 + Len(s)) /\ DOMAIN s = 1..Len(s) /\ Len(s) \in Nat
    BY <2>2, LenProperties
  <2>4. ASSUME NEW x \in Msgs, Has(<<m>> \o s, x) PROVE Has(s, x) \/ x = m
    BY <2>2, <2>3, <2>4 DEF Has
  <2>5. ASSUME NEW x \in Msgs, Has(s, x) PROVE Has(<<m>> \o s, x)
    <3>1. PICK i \in 1..Len(s) : s[i] = x
      BY <2>3, <2>5 DEF Has
    <3>2. i + 1 \in 1..(1 + Len(s)) /\ (<<m>> \o s)[i + 1] = x
      BY <2>2, <2>3, <3>1
    <3> QED
      BY <2>3, <3>2 DEF Has
  <2>6. Has(<<m>> \o s, m)
    BY <2>2, <2>3 DEF Has
  <2> QED
    BY <2>2, <2>4, <2>5, <2>6
<1> QED
  BY <1>1, <1>2, <1>3

LEMMA ConcatHas ==
  ASSUME NEW T, NEW s \in Seq(T), NEW t \in Seq(T)
  PROVE  s \o t \in Seq(T) /\ \A x : Has(s \o t, x) <=> Has(s, x) \/ Has(t, x)
<1>1. /\ s \o t \in Seq(T) /\ Len(s \o t) = Len(s) + Len(t)
      /\ \A i \in 1..(Len(s) + Len(t)) : (s \o t)[i] = IF i <= Len(s) THEN s[i] ELSE t[i - Len(s)]
  BY ConcatProperties
<1>2. /\ DOMAIN (s \o t) = 1..(Len(s) + Len(t)) /\ DOMAIN s = 1..Len(s) /\ DOMAIN t = 1..Len(t)
      /\ Len(s) \in Nat /\ Len(t) \in Nat
  BY <1>1, LenProperties
<1>3. ASSUME NEW x, Has(s \o t, x) PROVE Has(s, x) \/ Has(t, x)
  BY <1>1, <1>2, <1>3 DEF Has
<1>4. ASSUME NEW x, Has(s, x) PROVE Has(s \o t, x)
  BY <1>1, <1>2, <1>4 DEF Has
<1>5. ASSUME NEW x, Has(t, x) PROVE Has(s \o t, x)
  <2>1. PICK i \in 1..Len(t) : t[i] = x
    BY <1>2, <1>5 DEF Has
  <2>2. i + Len(s) \in 1..(Len(s) + Len(t)) /\ (s \o t)[i + Len(s)] = x
    BY <1>1, <1>2, <2>1
  <2> QED
    BY <1>2, <2>2 DEF Has
<1> QED
  BY <1>1, <1>3, <1>4, <1>5

LEMMA JoinedProperties ==
  ASSUME NEW s \in Seq(Msgs), NEW t \in Seq(Msgs)
  PROVE  /\ Joined(s, t) \in Seq(Msgs)
         /\ \A x \in Msgs : Has(Joined(s, t), x) <=> Has(s, x) \/ Has(t, x)
<1> DEFINE S == {m \in Msgs : ~Has(s, m)}
<1>1. Kept(t, S) \in Seq(Msgs) /\ \A x \in Msgs : Has(Kept(t, S), x) <=> Has(t, x) /\ ~Has(s, x)
  BY KeptProperties
<1>2. Joined(s, t) = s \o Kept(t, S)
  BY DEF Joined
<1> HIDE DEF S
<1>3. Joined(s, t) \in Seq(Msgs) /\ \A x : Has(Joined(s, t), x) <=> Has(s, x) \/ Has(Kept(t, S), x)
  BY <1>1, <1>2, ConcatHas
<1> QED
  BY <1>1, <1>3

\* The empty queue has nothing; a queue that has nothing is empty.
LEMMA EmptyHas ==
  ASSUME NEW s \in Seq(Msgs)
  PROVE  s = <<>> <=> \A x \in Msgs : ~Has(s, x)
<1>1. DOMAIN s = 1..Len(s) /\ Len(s) \in Nat /\ (s = <<>> <=> Len(s) = 0)
  BY LenProperties, EmptySeq
<1>2. \A i \in 1..Len(s) : s[i] \in Msgs
  BY ElementOfSeq
<1>3. ASSUME s # <<>> PROVE Has(s, s[1]) /\ s[1] \in Msgs
  BY <1>1, <1>2, <1>3 DEF Has
<1> QED
  BY <1>1, <1>3 DEF Has

\* A snapshot written after the others, or not at all if it is the last one.
LEMMA AppendNewProperties ==
  ASSUME NEW T, NEW w \in Seq(T), NEW x \in T
  PROVE  /\ AppendNew(w, x) \in Seq(T) /\ AppendNew(w, x) # <<>> /\ Last(AppendNew(w, x)) = x
         /\ Len(AppendNew(w, x)) \in {Len(w), Len(w) + 1} /\ Len(AppendNew(w, x)) > 0
         /\ \A i \in 1..Len(w) : AppendNew(w, x)[i] = w[i]
         /\ \A i \in 1..Len(AppendNew(w, x)) : i \in 1..Len(w) \/ i = Len(AppendNew(w, x))
         /\ AppendNew(w, x)[Len(AppendNew(w, x))] = x
         /\ DOMAIN AppendNew(w, x) = 1..Len(AppendNew(w, x))
<1>1. Len(w) \in Nat /\ (w = <<>> <=> Len(w) = 0) /\ DOMAIN w = 1..Len(w)
  BY LenProperties, EmptySeq
<1>2. CASE w # <<>> /\ Last(w) = x
  <2>1. AppendNew(w, x) = w /\ w[Len(w)] = x
    BY <1>2 DEF AppendNew, Last
  <2>2. Last(w) = x /\ w # <<>> /\ Len(w) > 0 /\ Len(w) \in 1..Len(w)
    BY <1>1, <1>2
  <2> QED
    BY <1>1, <2>1, <2>2
<1>3. CASE ~(w # <<>> /\ Last(w) = x)
  <2>1. AppendNew(w, x) = Append(w, x)
    BY <1>3 DEF AppendNew
  <2>2. /\ Append(w, x) \in Seq(T) /\ Len(Append(w, x)) = Len(w) + 1
        /\ \A i \in 1..Len(w) : Append(w, x)[i] = w[i]
        /\ Append(w, x)[Len(w) + 1] = x
    BY AppendProperties
  <2>3. DOMAIN Append(w, x) = 1..(Len(w) + 1) /\ Append(w, x) # <<>>
    BY <1>1, <2>2, LenProperties, EmptySeq
  <2>4. Last(Append(w, x)) = Append(w, x)[Len(w) + 1]
    BY <2>2 DEF Last
  <2> QED
    BY <1>1, <2>1, <2>2, <2>3, <2>4
<1> QED
  BY <1>2, <1>3

LEMMA HeadAndTail ==
  ASSUME NEW T, NEW w \in Seq(T), w # <<>>
  PROVE  /\ Head(w) \in T /\ Head(w) = w[1] /\ Tail(w) \in Seq(T) /\ Len(w) \in Nat /\ Len(w) >= 1
         /\ Len(Tail(w)) = Len(w) - 1 /\ DOMAIN Tail(w) = 1..(Len(w) - 1) /\ DOMAIN w = 1..Len(w)
         /\ \A i \in 1..(Len(w) - 1) : Tail(w)[i] = w[i + 1]
         /\ Tail(w) = <<>> => Last(w) = Head(w)
         /\ Tail(w) # <<>> => Last(w) = Last(Tail(w))
<1>1. Len(w) \in Nat /\ Len(w) # 0 /\ DOMAIN w = 1..Len(w)
  BY LenProperties, EmptySeq
<1>2. /\ Head(w) = w[1] /\ Head(w) \in T /\ Tail(w) \in Seq(T) /\ Len(Tail(w)) = Len(w) - 1
      /\ \A i \in 1..Len(Tail(w)) : Tail(w)[i] = w[i + 1]
  BY HeadTailProperties, <1>1
<1>3. DOMAIN Tail(w) = 1..(Len(w) - 1) /\ (Tail(w) = <<>> <=> Len(w) = 1)
  BY <1>1, <1>2, LenProperties, EmptySeq
<1> QED
  BY <1>1, <1>2, <1>3 DEF Last

\* What a removal leaves.
LEMMA RemoveAtIs ==
  ASSUME NEW S, NEW s \in Seq(S), NEW i \in 1..Len(s)
  PROVE  /\ RemoveAt(s, i) \in Seq(S)
         /\ Len(RemoveAt(s, i)) = Len(s) - 1
         /\ \A k \in 1..Len(s) - 1 : RemoveAt(s, i)[k] = IF k < i THEN s[k] ELSE s[k + 1]
<1> DEFINE a == SubSeq(s, 1, i - 1)
           b == SubSeq(s, i + 1, Len(s))
<1>1. Len(s) \in Nat /\ \A k \in 1..Len(s) : s[k] \in S
  BY ElementOfSeq, LenProperties
<1>2. /\ a \in Seq(S) /\ Len(a) = i - 1
      /\ \A k \in 1..i - 1 : a[k] = s[k]
  <2>1. \A k \in 1..i - 1 : s[k] \in S
    BY <1>1
  <2> QED
    BY <1>1, <2>1, SubSeqProperties
<1>3. /\ b \in Seq(S) /\ Len(b) = Len(s) - i
      /\ \A k \in 1..Len(s) - i : b[k] = s[k + i]
  <2>1. \A k \in i + 1..Len(s) : s[k] \in S
    BY <1>1
  <2>2. /\ b \in Seq(S)
        /\ Len(b) = IF i + 1 <= Len(s) THEN Len(s) - (i + 1) + 1 ELSE 0
        /\ \A k \in 1..Len(s) - (i + 1) + 1 : b[k] = s[(i + 1) + k - 1]
    BY <1>1, <2>1, SubSeqProperties
  <2> QED
    BY <1>1, <2>2
<1> HIDE DEF a, b
<1>4. /\ a \o b \in Seq(S)
      /\ Len(a \o b) = Len(a) + Len(b)
      /\ \A k \in 1..Len(a) + Len(b) :
           (a \o b)[k] = IF k <= Len(a) THEN a[k] ELSE b[k - Len(a)]
  BY <1>2, <1>3, ConcatProperties
<1>5. RemoveAt(s, i) = a \o b
  BY DEF RemoveAt, a, b
<1>6. ASSUME NEW k \in 1..Len(s) - 1
      PROVE  (a \o b)[k] = IF k < i THEN s[k] ELSE s[k + 1]
  <2>1. CASE k < i
    BY <1>6, <2>1, <1>1, <1>2, <1>3, <1>4
  <2>2. CASE k >= i
    <3>1. k \in 1..Len(a) + Len(b) /\ ~(k <= Len(a)) /\ k - Len(a) \in 1..Len(s) - i
      BY <1>6, <2>2, <1>1, <1>2, <1>3
    <3>2. b[k - Len(a)] = s[k + 1]
      <4>1. (k - Len(a)) + i = k + 1
        BY <1>6, <1>1, <1>2
      <4> QED
        BY <3>1, <4>1, <1>3
    <3>3. ~(k < i)
      BY <1>6, <2>2, <1>1
    <3> QED
      BY <3>1, <3>2, <3>3, <1>4
  <2>3. k < i \/ k >= i
    BY <1>6, <1>1
  <2> QED
    BY <2>1, <2>2, <2>3
<1>7. Len(a \o b) = Len(s) - 1
  BY <1>1, <1>2, <1>3, <1>4
<1> QED
  BY <1>4, <1>5, <1>6, <1>7
\* Puts that are carried out, or lost with the connection, leave others of them.
LEMMA WireLeft ==
  ASSUME NEW T, NEW w \in Seq(T), NEW i \in DOMAIN w
  PROVE  /\ RemoveAt(w, i) \in Seq(T) /\ w[i] \in T
         /\ \A k \in DOMAIN RemoveAt(w, i) : \E n \in DOMAIN w : RemoveAt(w, i)[k] = w[n]
         /\ i = 1 => w # <<>> /\ IF RemoveAt(w, i) = <<>> THEN Last(w) = w[1] ELSE Last(RemoveAt(w, i)) = Last(w)
<1>1. /\ Len(w) \in Nat /\ DOMAIN w = 1..Len(w) /\ i \in 1..Len(w) /\ w[i] \in T
      /\ w = <<>> <=> Len(w) = 0
  BY LenProperties, EmptySeq, ElementOfSeq
<1> DEFINE r == RemoveAt(w, i)
<1>2. r \in Seq(T) /\ Len(r) = Len(w) - 1 /\ \A k \in 1..Len(w) - 1 : r[k] = IF k < i THEN w[k] ELSE w[k + 1]
  BY <1>1, RemoveAtIs
<1> HIDE DEF r
<1>3. DOMAIN r = 1..Len(w) - 1 /\ (r = <<>> <=> Len(w) = 1)
  BY <1>1, <1>2, LenProperties, EmptySeq
<1>4. ASSUME NEW k \in DOMAIN r PROVE \E n \in DOMAIN w : r[k] = w[n]
  <2>1. k \in 1..Len(w) /\ k + 1 \in 1..Len(w)
    BY <1>1, <1>3
  <2> QED
    BY <1>1, <1>2, <1>3, <2>1
<1>5. ASSUME i = 1 PROVE w # <<>> /\ IF r = <<>> THEN Last(w) = w[1] ELSE Last(r) = Last(w)
  <2>1. CASE Len(w) = 1
    BY <1>1, <1>3, <2>1 DEF Last
  <2>2. CASE Len(w) # 1
    <3>1. Len(w) - 1 \in 1..Len(w) - 1 /\ ~(Len(w) - 1 < i) /\ (Len(w) - 1) + 1 = Len(w)
      BY <1>1, <1>5, <2>2
    <3>2. r[Len(w) - 1] = w[Len(w)]
      BY <1>2, <3>1
    <3> QED
      BY <1>1, <1>2, <1>3, <2>2, <3>2 DEF Last
  <2> QED
    BY <2>1, <2>2
<1> QED
  BY <1>1, <1>2, <1>4, <1>5 DEF r

LEMMA ArrivedLeft ==
  ASSUME NEW T, NEW w \in Seq(T), NEW v \in Arrived(w)
  PROVE  v \in Seq(T) /\ \A k \in DOMAIN v : \E n \in DOMAIN w : v[k] = w[n]
<1>1. Len(w) \in Nat /\ DOMAIN w = 1..Len(w) /\ \A k \in 1..Len(w) : w[k] \in T
  BY LenProperties, ElementOfSeq
<1>2. CASE v = w
  BY <1>2
<1>3. ASSUME NEW n \in 0..Len(w), v = SubSeq(w, 1, n)
      PROVE  v \in Seq(T) /\ \A k \in DOMAIN v : \E i \in DOMAIN w : v[k] = w[i]
  <2>1. \A k \in 1..n : w[k] \in T
    BY <1>1
  <2>2. v \in Seq(T) /\ Len(v) = n /\ \A k \in 1..n : v[k] = w[k]
    BY <1>1, <1>3, <2>1, SubSeqProperties
  <2>3. DOMAIN v = 1..n
    BY <2>2, LenProperties
  <2> QED
    BY <1>1, <2>2, <2>3
<1> QED
  BY <1>2, <1>3 DEF Arrived

\* A list of one snapshot.
LEMMA Single ==
  ASSUME NEW T, NEW x \in T
  PROVE  /\ <<x>> \in Seq(T) /\ Len(<<x>>) = 1 /\ <<x>> # <<>> /\ DOMAIN <<x>> = 1..1 /\ <<x>>[1] = x
         /\ Head(<<x>>) = x /\ Last(<<x>>) = x
<1>1. <<x>> \in Seq(T) /\ Len(<<x>>) = 1 /\ <<x>> # <<>> /\ DOMAIN <<x>> = 1..1 /\ <<x>>[1] = x /\ Head(<<x>>) = x
  OBVIOUS
<1> QED
  BY <1>1 DEF Last

-----------------------------------------------------------------------------
(* The inductive invariant *)

\* The servers before the latest one are gone, those after it do not exist yet.
OneAtATime ==
  \A s \in Servers : (s > now => srv[s] = NoServer) /\ (s < now => srv[s].mode = "gone")
                     /\ (s = now => srv[s].mode # "none")

\* What a server sends has been asked for, and runs only if it waits, or is excused.
SendsWaiting ==
  \A s \in Servers :
    /\ srv[s].phase = "idle" <=> srv[s].sending = NoMsg
    /\ srv[s].phase = "asked" => stage[srv[s].sending] = "queued" \/ srv[s].sending \in excused
    /\ srv[s].phase = "ran" => stage[srv[s].sending] = "ran"
    /\ \A p \in Servers : p # s /\ srv[s].sending \in Msgs /\ srv[p].sending = srv[s].sending
         => srv[s].sending \in excused

\* Nobody has a message that nobody has queued.
Lacks(list, m) == \A i \in DOMAIN list : ~Has(list[i], m)
Nowhere(m) ==
  /\ \A s \in Servers : ~Has(srv[s].items, m) /\ Lacks(srv[s].writes, m) /\ srv[s].sending # m
  /\ ~Has(disk, m) /\ ~Has(record, m) /\ ~Has(snapshot, m)
  /\ Lacks(pending, m) /\ Lacks(wire, m) /\ Lacks(answer, m)
OnlyQueued == \A m \in Msgs : stage[m] = "new" => Nowhere(m)

Works == now > 0 /\ srv[now].mode \in {"running", "stopping"}
Loads == now > 0 /\ srv[now].mode = "loading"

\* A server that starts has what an early snapshot gave it, if anything.
LoadsAlone ==
  Loads => /\ srv[now].sending = NoMsg
           /\ \/ srv[now].writes = <<>>
              \/ srv[now].items # <<>> /\ srv[now].writes = <<srv[now].items>>
           /\ "early" \notin mishaps => srv[now].items = <<>>

\* The last of the snapshots in a list, or x if there are none.
LastOf(x, list) == IF list = <<>> THEN x ELSE Last(list)

\* As long as no stop came in the middle of work, only the server in charge
\* writes and sends, and what it has written last is its queue.
Orderly ==
  "overlap" \notin mishaps =>
    /\ \A s \in Servers : s # now \/ srv[s].mode = "gone" => srv[s].sending = NoMsg /\ srv[s].writes = <<>>
    /\ Works => LastOf(disk, srv[now].writes) = srv[now].items

\* The queue that waits: in the server's memory, or in the file.
WaitsSomewhere ==
  mishaps \cap {"crash", "overlap", "early"} = {} =>
    \A m \in Msgs : stage[m] = "queued" => IF Works THEN Has(srv[now].items, m) ELSE Has(disk, m)

\* The last snapshot told to the hub, wherever it is, is the queue.
HubIsTold ==
  /\ link => pending = <<>>
  /\ mishaps = {} =>
       LastOf(LastOf(record, wire), pending) = IF Works THEN srv[now].items ELSE disk

\* What is in a queue waits, or runs now, or is excused.
Waits(m) == stage[m] = "queued" \/ m \in excused
QueuesWait ==
  /\ Works =>
       \A m \in Msgs : Has(srv[now].items, m) =>
         /\ Waits(m) \/ (m = srv[now].sending /\ srv[now].phase = "ran")
         /\ \A s \in Servers : s # now /\ srv[s].sending = m => m \in excused
  /\ ~Works /\ mishaps \cap {"crash", "overlap"} = {} =>
       \A m \in Msgs : Has(disk, m) \/ (Loads /\ Has(srv[now].items, m)) => Waits(m)

\* A message that is in the file d, or in a snapshot to be written, is in every
\* later one.
Grows(d, list, m) ==
  \A i \in DOMAIN list :
    /\ Has(d, m) => Has(list[i], m)
    /\ \A j \in DOMAIN list : i < j /\ Has(list[i], m) => Has(list[j], m)
FilesGrow ==
  mishaps \cap {"overlap", "early"} = {} /\ now > 0 =>
    \A m \in Msgs : stage[m] = "queued" => Grows(disk, srv[now].writes, m)

RecoveryInv ==
  /\ TypeOK /\ OneAtATime /\ SendsWaiting /\ OnlyQueued /\ LoadsAlone /\ Orderly
  /\ WaitsSomewhere /\ HubIsTold /\ QueuesWait /\ FilesGrow


-----------------------------------------------------------------------------
(* Lists of snapshots, and what they have of a message m *)

LEMMA LackingLists ==
  ASSUME NEW T, NEW w \in Seq(T), NEW m
  PROVE  /\ Lacks(<<>>, m)
         /\ \A x \in T : Lacks(<<x>>, m) <=> ~Has(x, m)
         /\ Lacks(w, m) => /\ \A x \in T : ~Has(x, m) => Lacks(AppendNew(w, x), m)
                           /\ w # <<>> => Lacks(Tail(w), m) /\ ~Has(Head(w), m)
                           /\ \A i \in DOMAIN w : Lacks(RemoveAt(w, i), m) /\ ~Has(w[i], m)
                           /\ \A v \in Arrived(w) : Lacks(v, m)
<1>1. Lacks(<<>>, m)
  BY EmptySeq DEF Lacks
<1>2. ASSUME NEW x \in T PROVE Lacks(<<x>>, m) <=> ~Has(x, m)
  BY Single DEF Lacks
<1>3. DOMAIN w = 1..Len(w) /\ Len(w) \in Nat
  BY LenProperties
<1>4. ASSUME Lacks(w, m), NEW x \in T, ~Has(x, m) PROVE Lacks(AppendNew(w, x), m)
  <2> DEFINE a == AppendNew(w, x)
  <2>a. /\ DOMAIN AppendNew(w, x) = 1..Len(AppendNew(w, x))
        /\ AppendNew(w, x)[Len(AppendNew(w, x))] = x
    BY AppendNewProperties
  <2>b. \A i \in 1..Len(w) : AppendNew(w, x)[i] = w[i]
    BY AppendNewProperties
  <2>c. \A i \in 1..Len(AppendNew(w, x)) : i \in 1..Len(w) \/ i = Len(AppendNew(w, x))
    BY AppendNewProperties
  <2>d. Len(AppendNew(w, x)) \in {Len(w), Len(w) + 1} /\ Len(AppendNew(w, x)) > 0
    BY AppendNewProperties
  <2> HIDE DEF a
  <2>1. /\ DOMAIN a = 1..Len(a) /\ a[Len(a)] = x /\ \A i \in 1..Len(w) : a[i] = w[i]
        /\ \A i \in 1..Len(a) : i \in 1..Len(w) \/ i = Len(a)
    BY <2>a, <2>b, <2>c, <2>d DEF a
  <2>2. Lacks(a, m)
    BY <1>3, <1>4, <2>1 DEF Lacks
  <2> QED
    BY <2>2 DEF a
<1>5. ASSUME Lacks(w, m), w # <<>> PROVE Lacks(Tail(w), m) /\ ~Has(Head(w), m)
  <2>1. /\ Head(w) = w[1] /\ Len(w) >= 1 /\ DOMAIN Tail(w) = 1..(Len(w) - 1)
        /\ \A i \in 1..(Len(w) - 1) : Tail(w)[i] = w[i + 1]
    BY <1>5, HeadAndTail
  <2>2. \A i \in 1..(Len(w) - 1) : i + 1 \in 1..Len(w)
    BY <1>3
  <2> QED
    BY <1>3, <1>5, <2>1, <2>2 DEF Lacks
<1>6. ASSUME Lacks(w, m), NEW i \in DOMAIN w PROVE Lacks(RemoveAt(w, i), m) /\ ~Has(w[i], m)
  <2>1. \A k \in DOMAIN RemoveAt(w, i) : \E n \in DOMAIN w : RemoveAt(w, i)[k] = w[n]
    BY WireLeft
  <2> QED
    BY <1>6, <2>1 DEF Lacks
<1>7. ASSUME Lacks(w, m), NEW v \in Arrived(w) PROVE Lacks(v, m)
  <2>1. \A k \in DOMAIN v : \E n \in DOMAIN w : v[k] = w[n]
    BY ArrivedLeft
  <2> QED
    BY <1>7, <2>1 DEF Lacks
<1> QED
  BY <1>1, <1>2, <1>4, <1>5, <1>6, <1>7

LEMMA LastOfAppended ==
  ASSUME NEW T, NEW w \in Seq(T), NEW x \in T, NEW d
  PROVE  LastOf(d, AppendNew(w, x)) = x
<1>1. AppendNew(w, x) # <<>> /\ Last(AppendNew(w, x)) = x
  BY AppendNewProperties
<1> QED
  BY <1>1 DEF LastOf

LEMMA LastOfOne ==
  ASSUME NEW x, NEW d
  PROVE  LastOf(d, <<x>>) = x
<1>1. x \in {x} /\ <<x>> # <<>> /\ Last(<<x>>) = x
  BY DEF Last
<1> QED
  BY <1>1 DEF LastOf

\* Writing the first snapshot of a list does not change the last one.
LEMMA LastOfTail ==
  ASSUME NEW T, NEW w \in Seq(T), w # <<>>, NEW d
  PROVE  LastOf(Head(w), Tail(w)) = LastOf(d, w)
<1>1. (Tail(w) = <<>> => Last(w) = Head(w)) /\ (Tail(w) # <<>> => Last(w) = Last(Tail(w)))
  BY HeadAndTail
<1> QED
  BY <1>1 DEF LastOf

LEMMA LastOfRemoved ==
  ASSUME NEW T, NEW w \in Seq(T), 1 \in DOMAIN w, NEW d
  PROVE  LastOf(w[1], RemoveAt(w, 1)) = LastOf(d, w)
<1>1. w # <<>> /\ IF RemoveAt(w, 1) = <<>> THEN Last(w) = w[1] ELSE Last(RemoveAt(w, 1)) = Last(w)
  BY WireLeft
<1> QED
  BY <1>1 DEF LastOf

\* A snapshot written next keeps what the file and the others have, if it has
\* what the last of them has; the first of them takes the place of the file.
LEMMA GrowingLists ==
  ASSUME NEW T, NEW w \in Seq(T), NEW d, NEW m
  PROVE  /\ Grows(d, <<>>, m)
         /\ \A x \in T : (Has(d, m) => Has(x, m)) => Grows(d, <<x>>, m)
         /\ Grows(d, w, m) =>
              /\ \A x \in T : (Has(LastOf(d, w), m) => Has(x, m)) => Grows(d, AppendNew(w, x), m)
              /\ w # <<>> => Grows(Head(w), Tail(w), m) /\ (Has(d, m) => Has(Head(w), m))
<1>1. Grows(d, <<>>, m)
  BY EmptySeq DEF Grows
<1>2. ASSUME NEW x \in T, Has(d, m) => Has(x, m) PROVE Grows(d, <<x>>, m)
  <2>1. DOMAIN <<x>> = 1..1 /\ <<x>>[1] = x
    BY Single
  <2> QED
    BY <1>2, <2>1 DEF Grows
<1>3. DOMAIN w = 1..Len(w) /\ Len(w) \in Nat /\ (w = <<>> <=> Len(w) = 0)
  BY LenProperties, EmptySeq
<1>n. Len(w) \in Nat
  BY <1>3
<1>4. ASSUME Grows(d, w, m), NEW x \in T, Has(LastOf(d, w), m) => Has(x, m)
      PROVE  Grows(d, AppendNew(w, x), m)
  <2> DEFINE a == AppendNew(w, x)
  <2>a. /\ DOMAIN AppendNew(w, x) = 1..Len(AppendNew(w, x))
        /\ AppendNew(w, x)[Len(AppendNew(w, x))] = x
    BY AppendNewProperties
  <2>b. \A i \in 1..Len(w) : AppendNew(w, x)[i] = w[i]
    BY AppendNewProperties
  <2>c. \A i \in 1..Len(AppendNew(w, x)) : i \in 1..Len(w) \/ i = Len(AppendNew(w, x))
    BY AppendNewProperties
  <2>d. Len(AppendNew(w, x)) \in {Len(w), Len(w) + 1} /\ Len(AppendNew(w, x)) > 0
    BY AppendNewProperties
  <2> HIDE DEF a
  <2>1. /\ DOMAIN a = 1..Len(a) /\ a[Len(a)] = x /\ \A i \in 1..Len(w) : a[i] = w[i]
        /\ \A i \in 1..Len(a) : i \in 1..Len(w) \/ i = Len(a)
        /\ Len(a) \in {Len(w), Len(w) + 1} /\ Len(a) > 0
    BY <2>a, <2>b, <2>c, <2>d DEF a
  <2>2. Has(d, m) => Has(x, m)
    <3>1. CASE w = <<>>
      BY <1>4, <3>1 DEF LastOf
    <3>2. CASE w # <<>>
      <4>1. Len(w) \in DOMAIN w /\ LastOf(d, w) = w[Len(w)]
        BY <1>3, <3>2 DEF LastOf, Last
      <4> QED
        BY <1>4, <4>1 DEF Grows
    <3> QED
      BY <3>1, <3>2
  <2>3. ASSUME NEW i \in 1..Len(w), Has(w[i], m) PROVE Has(x, m)
    <3>1. Len(w) \in DOMAIN w /\ w # <<>> /\ (i = Len(w) \/ i < Len(w))
      <4>1. i \in Nat /\ i >= 1 /\ i <= Len(w)
        BY <1>n
      <4>2. Len(w) \in 1..Len(w) /\ Len(w) # 0 /\ (i = Len(w) \/ i < Len(w))
        BY <1>n, <4>1
      <4> QED
        BY <1>3, <4>2
    <3>0. LastOf(d, w) = w[Len(w)]
      BY <3>1 DEF LastOf, Last
    <3>2. Has(w[Len(w)], m)
      BY <1>3, <1>4, <2>3, <3>1 DEF Grows
    <3> QED
      BY <1>4, <3>0, <3>2
  <2>4. ASSUME NEW i \in DOMAIN a
        PROVE  Has(d, m) => Has(a[i], m)
    <3>1. CASE i = Len(a)
      BY <2>1, <2>2, <3>1
    <3>2. CASE i \in 1..Len(w)
      BY <1>3, <1>4, <2>1, <3>2 DEF Grows
    <3> QED
      BY <2>1, <3>1, <3>2
  <2>5. ASSUME NEW i \in DOMAIN a, NEW j \in DOMAIN a, i < j, Has(a[i], m)
        PROVE  Has(a[j], m)
    <3>1. i \in 1..Len(w)
      <4>0. Len(a) \in Nat
        BY <1>n, <2>d DEF a
      <4>d. DOMAIN a = 1..Len(a)
        BY Zenon, <2>1
      <4>e. i \in 1..Len(a) /\ j \in 1..Len(a)
        BY Zenon, <4>d
      <4>1. i \in Nat /\ j \in Nat /\ j <= Len(a) /\ i \in 1..Len(a)
        BY <4>0, <4>e
      <4>2. i # Len(a)
        BY <2>5, <4>0, <4>1
      <4> QED
        BY <2>1, <4>1, <4>2
    <3>2. Has(w[i], m)
      BY <2>1, <2>5, <3>1
    <3>3. CASE j = Len(a)
      BY <2>1, <2>3, <3>1, <3>2, <3>3
    <3>4. CASE j \in 1..Len(w)
      BY <1>3, <1>4, <2>1, <2>5, <3>1, <3>2, <3>4 DEF Grows
    <3> QED
      BY <2>1, <3>3, <3>4
  <2>6. Grows(d, a, m)
    BY <2>4, <2>5 DEF Grows
  <2> QED
    BY <2>6 DEF a
<1>5. ASSUME Grows(d, w, m), w # <<>> PROVE Grows(Head(w), Tail(w), m) /\ (Has(d, m) => Has(Head(w), m))
  <2>1. /\ Head(w) = w[1] /\ Len(w) >= 1 /\ DOMAIN Tail(w) = 1..(Len(w) - 1)
        /\ \A i \in 1..(Len(w) - 1) : Tail(w)[i] = w[i + 1]
    BY <1>5, HeadAndTail
  <2>2. \A i \in 1..(Len(w) - 1) : i \in Nat /\ 1 < i + 1 /\ i + 1 \in DOMAIN w
    BY <1>3
  <2>3. 1 \in DOMAIN w
    BY <1>3, <2>1
  <2>4. ASSUME NEW i \in 1..(Len(w) - 1), Has(w[1], m) PROVE Has(w[i + 1], m)
    BY <1>5, <2>2, <2>3, <2>4 DEF Grows
  <2>5. ASSUME NEW i \in 1..(Len(w) - 1), NEW j \in 1..(Len(w) - 1), i < j, Has(w[i + 1], m)
        PROVE  Has(w[j + 1], m)
    <3>1. i + 1 < j + 1
      BY <2>2, <2>5
    <3> QED
      BY <1>5, <2>2, <2>5, <3>1 DEF Grows
  <2> QED
    BY <1>5, <2>1, <2>3, <2>4, <2>5 DEF Grows
<1> QED
  BY <1>1, <1>2, <1>4, <1>5

-----------------------------------------------------------------------------
(* Types *)

LEMMA FieldTypes ==
  ASSUME NEW st \in Server
  PROVE  /\ st.mode \in Modes /\ st.items \in Seq(Msgs) /\ st.sending \in Msgs \cup {NoMsg}
         /\ st.phase \in {"idle", "asked", "ran"} /\ st.writes \in Seq(Snapshots) /\ st.awaited \in Nat
         /\ \A w \in Modes : [st EXCEPT !.mode = w] \in Server
         /\ \A i \in Seq(Msgs) : [st EXCEPT !.items = i] \in Server
         /\ \A i \in Seq(Msgs), b \in BOOLEAN : [st EXCEPT !.items = i, !.blocked = b] \in Server
         /\ \A w \in Modes, i \in Seq(Msgs) : [st EXCEPT !.mode = w, !.items = i] \in Server
         /\ \A m \in Msgs : [st EXCEPT !.sending = m, !.phase = "asked"] \in Server
         /\ Idle(st) \in Server
         /\ \A w \in Seq(Snapshots) : [st EXCEPT !.writes = w] \in Server
         /\ \A w \in Seq(Snapshots), n \in Nat : [st EXCEPT !.writes = w, !.awaited = n] \in Server
         /\ \A n \in Nat : [st EXCEPT !.mode = "stopping", !.awaited = n] \in Server
         /\ [st EXCEPT !.phase = "ran"] \in Server
BY DEF Server, Modes, Idle

LEMMA NoServerType == NoServer \in Server /\ [NoServer EXCEPT !.mode = "gone"] \in Server
<1>1. <<>> \in Seq(Msgs) /\ <<>> \in Seq(Snapshots)
  BY EmptySeq
<1> QED
  BY <1>1 DEF NoServer, Server, Modes

LEMMA PersistedType ==
  ASSUME NEW st \in Server
  PROVE  /\ Persisted(st) \in Server /\ Swept(st) \in Server
         /\ Persisted(st) = [st EXCEPT !.writes = AppendNew(st.writes, st.items)]
         /\ AppendNew(st.writes, st.items) \in Seq(Snapshots)
<1>1. AppendNew(st.writes, st.items) \in Seq(Snapshots)
  BY FieldTypes, AppendNewProperties DEF Snapshots
<1>2. <<>> \in Seq(Msgs)
  BY EmptySeq
<1> QED
  BY <1>1, <1>2, FieldTypes DEF Persisted, Swept

\* A handler that ends with broadcastQueue: the server has the state st, the
\* snapshot of its queue waits to be written and is told to the hub.
LEMMA BroadcastFields ==
  ASSUME TypeOK, NEW s \in Servers, NEW st \in Server, Broadcast(s, st)
  PROVE  /\ srv' \in [Servers -> Server]
         /\ \A p \in Servers : p # s => srv'[p] = srv[p]
         /\ srv'[s].mode = st.mode /\ srv'[s].sending = st.sending /\ srv'[s].phase = st.phase
         /\ srv'[s].writes = AppendNew(st.writes, st.items)
         /\ st.mode # "gone" => srv'[s].items = st.items
         /\ \A m \in Msgs : Has(srv'[s].items, m) => Has(st.items, m)
<1> DEFINE w == AppendNew(st.writes, st.items)
           r == [st EXCEPT !.writes = w]
<1>1. srv' = [srv EXCEPT ![s] = Swept(r)] /\ r \in Server /\ Swept(r) \in Server
  <2>1. Persisted(st) = r /\ r \in Server
    BY PersistedType
  <2> QED
    BY <2>1, PersistedType DEF Broadcast
<1>2. srv \in [Servers -> Server]
  BY DEF TypeOK
<1>3. srv' \in [Servers -> Server] /\ srv'[s] = Swept(r) /\ \A p \in Servers : p # s => srv'[p] = srv[p]
  BY <1>1, <1>2
<1>4. r.mode = st.mode /\ r.sending = st.sending /\ r.phase = st.phase /\ r.writes = w /\ r.items = st.items
  BY DEF Server
<1> HIDE DEF r, w
<1>5. /\ Swept(r).mode = r.mode /\ Swept(r).sending = r.sending /\ Swept(r).phase = r.phase
      /\ Swept(r).writes = r.writes
      /\ r.mode # "gone" => Swept(r).items = r.items
      /\ Swept(r).items = r.items \/ Swept(r).items = <<>>
  BY <1>1 DEF Swept, Server
<1>6. \A m \in Msgs : ~Has(<<>>, m)
  BY EmptySeq, EmptyHas
<1> QED
  BY <1>3, <1>4, <1>5, <1>6 DEF w

LEMMA TellFields ==
  ASSUME TypeOK, NEW snap \in Snapshots, Tell(snap)
  PROVE  /\ wire' \in Seq(Snapshots) /\ pending' \in Seq(Snapshots) /\ Len(pending') <= 1
         /\ link => wire' = AppendNew(wire, snap) /\ wire' # <<>> /\ Last(wire') = snap /\ pending' = pending
         /\ ~link => pending' = <<snap>> /\ pending' # <<>> /\ Head(pending') = snap /\ wire' = wire
<1>1. wire \in Seq(Snapshots) /\ pending \in Seq(Snapshots) /\ Len(pending) <= 1
  BY DEF TypeOK
<1>2. CASE link
  <2>1. wire' = AppendNew(wire, snap) /\ pending' = pending
    BY <1>2 DEF Tell
  <2>2. AppendNew(wire, snap) \in Seq(Snapshots) /\ AppendNew(wire, snap) # <<>> /\ Last(AppendNew(wire, snap)) = snap
    BY <1>1, AppendNewProperties
  <2> QED
    BY <1>1, <1>2, <2>1, <2>2
<1>3. CASE ~link
  <2>1. wire' = wire /\ pending' = <<snap>>
    BY <1>3 DEF Tell
  <2>2. <<snap>> \in Seq(Snapshots) /\ Len(<<snap>>) = 1 /\ <<snap>> # <<>> /\ Head(<<snap>>) = snap
    BY Single
  <2> QED
    BY <1>1, <1>3, <2>1, <2>2
<1> QED
  BY <1>2, <1>3


-----------------------------------------------------------------------------
(* Steps *)

LEMMA Bounds == TypeOK => /\ MaxServers \in Nat \ {0} /\ now \in 0..MaxServers /\ now \in Nat
                          /\ Servers = 1..MaxServers /\ (now > 0 => now \in Servers)
                          /\ \A s \in Servers : s \in Nat /\ s > 0 /\ srv[s] \in Server
BY ConstantsAssumption DEF TypeOK, Servers

\* A server that may handle something: the one in charge, unless a stop came in
\* the middle of work; never one that starts.
Handling(s) ==
  s <= now /\ ("overlap" \in mishaps \/ (s = now /\ Works)) /\ (s = now => ~Loads)

\* Where a server is that serves clients, or that sends.
LEMMA Places ==
  ASSUME RecoveryInv, NEW s \in Servers
  PROVE  /\ Serves(s) => s = now /\ Works /\ Handling(s)
         /\ srv[s].phase # "idle" => srv[s].sending \in Msgs /\ Handling(s)
         /\ ~("overlap" \in mishaps) /\ srv[s].writes # <<>> => s = now /\ srv[s].mode # "gone"
<1>1. TypeOK /\ OneAtATime /\ SendsWaiting /\ LoadsAlone /\ Orderly
  BY DEF RecoveryInv
<1>2. /\ MaxServers \in Nat \ {0} /\ now \in Nat /\ s \in Nat /\ s > 0 /\ srv[s] \in Server
      /\ srv[s].mode \in Modes /\ srv[s].sending \in Msgs \cup {NoMsg}
  BY <1>1, Bounds, FieldTypes
<1>3. srv[s].phase # "idle" => srv[s].sending # NoMsg /\ srv[s].sending \in Msgs
  BY <1>1, <1>2 DEF SendsWaiting
<1>4. /\ s > now => srv[s].mode = "none" /\ srv[s].phase = "idle" /\ srv[s].sending = NoMsg
      /\ s < now => srv[s].mode = "gone"
      /\ s = now => srv[s].mode # "none"
  BY <1>1 DEF OneAtATime, NoServer
<1>5. s = now \/ s < now \/ s > now
  BY <1>2
<1>6. Serves(s) => s = now /\ Works
  BY <1>2, <1>4, <1>5 DEF Serves, Works
<1>7. ASSUME srv[s].phase # "idle" PROVE s <= now
  BY <1>2, <1>4, <1>7
<1>8. ASSUME srv[s].phase # "idle", s = now PROVE ~Loads /\ ("overlap" \in mishaps \/ Works)
  <2>1. ~Loads
    BY <1>1, <1>3, <1>8 DEF LoadsAlone
  <2>2. CASE srv[s].mode = "gone"
    BY <1>1, <1>3, <1>8, <2>1, <2>2 DEF Orderly
  <2> QED
    BY <1>2, <1>4, <1>8, <2>1, <2>2 DEF Works, Loads, Modes
<1>9. ASSUME srv[s].phase # "idle", s # now PROVE "overlap" \in mishaps
  BY <1>1, <1>3, <1>9 DEF Orderly
<1>10. ASSUME ~("overlap" \in mishaps), srv[s].writes # <<>> PROVE s = now /\ srv[s].mode # "gone"
  BY <1>1, <1>10 DEF Orderly
<1>11. Serves(s) => Handling(s)
  BY <1>2, <1>6 DEF Handling, Works, Loads
<1>12. srv[s].phase # "idle" => Handling(s)
  BY <1>7, <1>8, <1>9 DEF Handling
<1> QED
  BY <1>3, <1>6, <1>10, <1>11, <1>12

\* A handler of server s that ends with broadcastQueue when its state is st.
Handles(s, st) ==
  /\ Broadcast(s, st)
  /\ st.mode = srv[s].mode /\ st.writes = srv[s].writes
  /\ UNCHANGED <<now, disk, link, record, listing, answer, links, snapshot, excused, mishaps>>

\* What it may do to the queue and to the messages.
Changes(s, st) ==
  \A m \in Msgs :
    /\ stage'[m] = "new" => stage[m] = "new" /\ ~Has(st.items, m) /\ st.sending # m
    /\ stage'[m] = "queued" =>
         \/ stage[m] = "queued" /\ (Has(srv[s].items, m) => Has(st.items, m))
         \/ stage[m] = "new" /\ Has(st.items, m)

LEMMA HandlerKeepsPart1 ==
  ASSUME RecoveryInv, NEW s \in Servers, NEW st \in Server, Handles(s, st), Changes(s, st),
         stage' \in [Msgs -> Stages], ran' \in [Msgs -> Nat], Handling(s)
  PROVE  TypeOK' /\ OneAtATime' /\ OnlyQueued'
<1>1. TypeOK /\ OneAtATime /\ OnlyQueued /\ Broadcast(s, st)
  BY DEF RecoveryInv, Handles
<1>2. /\ st.mode = srv[s].mode /\ st.writes = srv[s].writes
      /\ now' = now /\ disk' = disk /\ link' = link /\ record' = record /\ listing' = listing
      /\ answer' = answer /\ links' = links /\ snapshot' = snapshot /\ excused' = excused /\ mishaps' = mishaps
  BY DEF Handles
<1>3. /\ now \in Nat /\ s \in Nat /\ srv[s] \in Server /\ \A p \in Servers : p \in Nat
      /\ st.items \in Snapshots /\ st.writes \in Seq(Snapshots) /\ s <= now
  BY <1>1, Bounds, FieldTypes DEF Snapshots, Handling
<1>4. /\ srv' \in [Servers -> Server]
      /\ \A p \in Servers : p # s => srv'[p] = srv[p]
      /\ srv'[s].mode = st.mode /\ srv'[s].sending = st.sending
      /\ srv'[s].writes = AppendNew(st.writes, st.items)
      /\ \A m \in Msgs : Has(srv'[s].items, m) => Has(st.items, m)
  BY <1>1, BroadcastFields
<1>5. Tell(st.items)
  BY <1>1 DEF Broadcast
<1>6. /\ wire' \in Seq(Snapshots) /\ pending' \in Seq(Snapshots) /\ Len(pending') <= 1
      /\ link => wire' = AppendNew(wire, st.items) /\ pending' = pending
      /\ ~link => pending' = <<st.items>> /\ wire' = wire
  BY <1>1, <1>3, <1>5, TellFields
<1>7. TypeOK'
  BY <1>1, <1>2, <1>4, <1>6 DEF TypeOK
<1>8. OneAtATime'
  <2> SUFFICES ASSUME NEW p \in Servers
               PROVE  (p > now => srv'[p] = NoServer) /\ (p < now => srv'[p].mode = "gone")
                      /\ (p = now => srv'[p].mode # "none")
    BY <1>2 DEF OneAtATime
  <2>1. CASE p # s
    BY <1>1, <1>4, <2>1 DEF OneAtATime
  <2>2. CASE p = s
    BY <1>1, <1>2, <1>3, <1>4, <2>2 DEF OneAtATime
  <2> QED
    BY <2>1, <2>2
<1>9. OnlyQueued'
  <2> SUFFICES ASSUME NEW m \in Msgs, stage'[m] = "new"
               PROVE  Nowhere(m)'
    BY DEF OnlyQueued
  <2>1. Nowhere(m) /\ ~Has(st.items, m) /\ st.sending # m
    BY <1>1 DEF OnlyQueued, Changes
  <2>2. wire \in Seq(Snapshots) /\ Lacks(wire, m) /\ Lacks(pending, m) /\ Lacks(srv[s].writes, m)
    BY <1>1, <2>1 DEF TypeOK, Nowhere
  <2>3. Lacks(wire', m) /\ Lacks(pending', m)
    <3>1. Lacks(AppendNew(wire, st.items), m) /\ Lacks(<<st.items>>, m)
      BY <1>3, <2>1, <2>2, LackingLists
    <3> QED
      BY <1>6, <2>2, <3>1
  <2>4. Lacks(srv'[s].writes, m)
    BY <1>2, <1>3, <1>4, <2>1, <2>2, LackingLists
  <2>5. ASSUME NEW p \in Servers
        PROVE  ~Has(srv'[p].items, m) /\ Lacks(srv'[p].writes, m) /\ srv'[p].sending # m
    <3>1. CASE p = s
      BY <1>4, <2>1, <2>4, <3>1
    <3>2. CASE p # s
      BY <1>4, <2>1, <3>2 DEF Nowhere
    <3> QED
      BY <3>1, <3>2
  <2> QED
    BY <1>2, <2>1, <2>3, <2>5 DEF Nowhere
<1> QED
  BY <1>7, <1>8, <1>9

LEMMA HandlerKeepsPart2 ==
  ASSUME RecoveryInv, NEW s \in Servers, NEW st \in Server, Handles(s, st), Changes(s, st),
         stage' \in [Msgs -> Stages], ran' \in [Msgs -> Nat], Handling(s)
  PROVE  LoadsAlone' /\ Orderly' /\ WaitsSomewhere' /\ HubIsTold' /\ FilesGrow'
<1>1. /\ TypeOK /\ OneAtATime /\ LoadsAlone /\ Orderly /\ WaitsSomewhere /\ HubIsTold /\ FilesGrow
      /\ Broadcast(s, st)
  BY DEF RecoveryInv, Handles
<1>2. /\ st.mode = srv[s].mode /\ st.writes = srv[s].writes
      /\ now' = now /\ disk' = disk /\ link' = link /\ record' = record
      /\ excused' = excused /\ mishaps' = mishaps
  BY DEF Handles
<1>3. /\ now \in Nat /\ s \in Nat /\ srv[s] \in Server /\ \A p \in Servers : p \in Nat
      /\ st.items \in Snapshots /\ st.writes \in Seq(Snapshots)
      /\ wire \in Seq(Snapshots) /\ pending \in Seq(Snapshots)
  BY <1>1, Bounds, FieldTypes DEF Snapshots, TypeOK
<1>4. /\ \A p \in Servers : p # s => srv'[p] = srv[p]
      /\ srv'[s].mode = srv[s].mode
      /\ srv'[s].writes = AppendNew(srv[s].writes, st.items)
      /\ srv[s].mode # "gone" => srv'[s].items = st.items
  BY <1>1, <1>2, BroadcastFields
<1>5. Tell(st.items)
  BY <1>1 DEF Broadcast
<1>6. /\ link => wire' = AppendNew(wire, st.items) /\ pending' = pending
      /\ ~link => pending' = <<st.items>> /\ wire' = wire
  BY <1>1, <1>3, <1>5, TellFields
<1>a. /\ Works' <=> Works
      /\ Loads' <=> Loads
  <2>1. now > 0 => now \in Servers
    BY <1>1, Bounds
  <2>2. now > 0 => srv'[now].mode = srv[now].mode
    BY <1>4, <2>1
  <2> QED
    BY <1>2, <2>2 DEF Works, Loads
<1>b. /\ s = now /\ Works => srv'[now].items = st.items
      /\ s # now => srv'[now] = srv[now] \/ now = 0
  <2>1. now > 0 => now \in Servers
    BY <1>1, Bounds
  <2> QED
    BY <1>3, <1>4, <2>1 DEF Works
<1>c. ("overlap" \notin mishaps => s = now /\ Works) /\ (s = now => ~Loads)
  BY DEF Handling
<1>d. s = now /\ Works => srv'[now].writes = AppendNew(srv[now].writes, st.items)
  BY <1>4
<1>7. LoadsAlone'
  <2> SUFFICES ASSUME Loads PROVE LoadsAlone'
    BY <1>a DEF LoadsAlone
  <2>1. s # now
    BY <1>c
  <2> QED
    BY <1>1, <1>2, <1>b, <2>1 DEF LoadsAlone, Loads
<1>8. Orderly'
  <2> SUFFICES ASSUME "overlap" \notin mishaps PROVE Orderly'
    BY <1>2 DEF Orderly
  <2>1. s = now /\ Works
    BY <1>c
  <2>2. ASSUME NEW p \in Servers, p # now \/ srv'[p].mode = "gone"
        PROVE  srv'[p].sending = NoMsg /\ srv'[p].writes = <<>>
    <3>1. p # s
      BY <1>4, <2>1, <2>2 DEF Works
    <3> QED
      BY <1>1, <1>4, <2>1, <3>1 DEF Orderly
  <2>3. LastOf(disk, srv'[now].writes) = st.items
    <3>1. srv[now].writes \in Seq(Snapshots)
      BY <1>2, <1>3, <2>1
    <3> QED
      BY <1>3, <1>d, <2>1, <3>1, LastOfAppended
  <2> QED
    BY <1>2, <1>b, <2>1, <2>2, <2>3 DEF Orderly
<1>9. WaitsSomewhere'
  <2> SUFFICES ASSUME mishaps \cap {"crash", "overlap", "early"} = {}, NEW m \in Msgs, stage'[m] = "queued"
               PROVE  IF Works THEN Has(srv'[now].items, m) ELSE Has(disk, m)
    BY <1>2, <1>a DEF WaitsSomewhere
  <2>1. s = now /\ Works
    BY <1>c
  <2>2. stage[m] = "queued" => Has(srv[s].items, m)
    BY <1>1, <2>1 DEF WaitsSomewhere
  <2> QED
    BY <1>b, <2>1, <2>2 DEF Changes
<1>10. HubIsTold'
  <2>1. link' => pending' = <<>>
    BY <1>1, <1>2, <1>6 DEF HubIsTold
  <2> SUFFICES ASSUME mishaps = {}
               PROVE  LastOf(LastOf(record, wire'), pending') = IF Works THEN srv'[now].items ELSE disk
    BY <1>2, <1>a, <2>1 DEF HubIsTold
  <2>2. s = now /\ Works
    BY <1>c
  <2>3. LastOf(LastOf(record, wire'), pending') = st.items
    <3>1. CASE link
      <4>1. pending' = <<>> /\ wire' = AppendNew(wire, st.items)
        BY <1>1, <1>6, <3>1 DEF HubIsTold
      <4>2. LastOf(record, wire') = st.items
        BY <1>3, <4>1, LastOfAppended
      <4> QED
        BY <4>1, <4>2 DEF LastOf
    <3>2. CASE ~link
      <4>1. pending' = <<st.items>>
        BY <1>6, <3>2
      <4>2. LastOf(LastOf(record, wire'), <<st.items>>) = st.items
        BY LastOfOne
      <4> QED
        BY <4>1, <4>2
    <3> QED
      BY <3>1, <3>2
  <2> QED
    BY <1>b, <2>2, <2>3
<1>11. FilesGrow'
  <2> SUFFICES ASSUME mishaps \cap {"overlap", "early"} = {}, now > 0, NEW m \in Msgs, stage'[m] = "queued"
               PROVE  Grows(disk, srv'[now].writes, m)
    BY <1>2 DEF FilesGrow
  <2>1. s = now /\ Works
    BY <1>c
  <2>2. srv[now].writes \in Seq(Snapshots) /\ LastOf(disk, srv[now].writes) = srv[now].items
    BY <1>1, <1>2, <1>3, <2>1 DEF Orderly
  <2>3. Grows(disk, srv[now].writes, m) /\ (Has(srv[now].items, m) => Has(st.items, m))
    <3>1. CASE stage[m] = "queued"
      BY <1>1, <2>1, <3>1 DEF FilesGrow, Changes
    <3>2. CASE stage[m] = "new"
      <4>1. Lacks(srv[now].writes, m) /\ ~Has(disk, m) /\ ~Has(srv[now].items, m)
        BY <2>1, <3>2 DEF RecoveryInv, OnlyQueued, Nowhere
      <4> QED
        BY <4>1 DEF Lacks, Grows
    <3> QED
      BY <3>1, <3>2 DEF Changes
  <2>4. Grows(disk, AppendNew(srv[now].writes, st.items), m)
    BY <1>3, <2>2, <2>3, GrowingLists
  <2> QED
    BY <1>d, <2>1, <2>4
<1> QED
  BY <1>7, <1>8, <1>9, <1>10, <1>11

\* What server s sends after it, and what its queue has.
Sends(s, st) ==
  /\ st.phase = "idle" <=> st.sending = NoMsg
  /\ st.phase = "asked" => stage'[st.sending] = "queued" \/ st.sending \in excused
  /\ st.phase = "ran" => stage'[st.sending] = "ran"
  /\ \A p \in Servers : p # s /\ st.sending \in Msgs /\ srv[p].sending = st.sending => st.sending \in excused
  /\ s # now => st.sending = NoMsg
Leaves(s, st) ==
  /\ \A m \in Msgs :
       /\ stage[m] = "ran" => stage'[m] = "ran"
       /\ Waits(m) => \/ stage'[m] = "queued" \/ m \in excused
                      \/ s = now /\ Works /\ Has(srv[s].items, m) /\ ~Has(st.items, m) /\ srv[s].sending # m
  /\ s = now /\ Works =>
       \A m \in Msgs : Has(st.items, m) =>
         /\ stage'[m] = "queued" \/ m \in excused \/ (m = st.sending /\ st.phase = "ran")
         /\ \A p \in Servers : p # now /\ srv[p].sending = m => m \in excused

LEMMA HandlerKeepsPart3 ==
  ASSUME RecoveryInv, NEW s \in Servers, NEW st \in Server, Handles(s, st), Sends(s, st), Leaves(s, st),
         Handling(s)
  PROVE  SendsWaiting' /\ QueuesWait'
<1>1. TypeOK /\ SendsWaiting /\ QueuesWait /\ Broadcast(s, st)
  BY DEF RecoveryInv, Handles
<1>2. st.mode = srv[s].mode /\ now' = now /\ disk' = disk /\ excused' = excused /\ mishaps' = mishaps
  BY DEF Handles
<1>3. /\ \A p \in Servers : p # s => srv'[p] = srv[p]
      /\ srv'[s].mode = srv[s].mode /\ srv'[s].sending = st.sending /\ srv'[s].phase = st.phase
      /\ srv[s].mode # "gone" => srv'[s].items = st.items
  BY <1>1, <1>2, BroadcastFields
<1>4. /\ \A p \in Servers : srv[p].sending \in Msgs \cup {NoMsg} /\ srv[p].phase \in {"idle", "asked", "ran"}
      /\ now > 0 => now \in Servers
      /\ NoMsg \notin Msgs
  BY <1>1, Bounds, FieldTypes, ConstantsAssumption
<1>5. (Works' <=> Works) /\ (Works /\ s = now => srv'[now].items = st.items)
  BY <1>2, <1>3, <1>4 DEF Works
<1>6. SendsWaiting'
  <2> SUFFICES ASSUME NEW p \in Servers
               PROVE  /\ srv'[p].phase = "idle" <=> srv'[p].sending = NoMsg
                      /\ srv'[p].phase = "asked" => stage'[srv'[p].sending] = "queued" \/ srv'[p].sending \in excused
                      /\ srv'[p].phase = "ran" => stage'[srv'[p].sending] = "ran"
                      /\ \A q \in Servers : q # p /\ srv'[p].sending \in Msgs /\ srv'[q].sending = srv'[p].sending
                           => srv'[p].sending \in excused
    BY <1>2 DEF SendsWaiting
  <2>1. CASE p = s
    BY <1>3, <2>1 DEF Sends
  <2>2. CASE p # s
    <3>1. srv'[p] = srv[p]
      BY <1>3, <2>2
    <3>2. srv[p].phase = "idle" <=> srv[p].sending = NoMsg
      BY <1>1 DEF SendsWaiting
    <3>3. ASSUME srv[p].phase = "asked"
          PROVE  stage'[srv[p].sending] = "queued" \/ srv[p].sending \in excused
      <4>1. srv[p].sending \in Msgs /\ Waits(srv[p].sending)
        BY <1>1, <1>4, <3>2, <3>3 DEF SendsWaiting, Waits
      <4>2. ASSUME s = now, Works, Has(srv[s].items, srv[p].sending)
            PROVE  srv[p].sending \in excused
        BY <1>1, <2>2, <4>1, <4>2 DEF QueuesWait
      <4> QED
        BY <4>1, <4>2 DEF Leaves
    <3>4. srv[p].phase = "ran" => stage'[srv[p].sending] = "ran"
      <4>1. ASSUME srv[p].phase = "ran" PROVE stage[srv[p].sending] = "ran" /\ srv[p].sending \in Msgs
        BY <1>1, <1>4, <3>2, <4>1 DEF SendsWaiting
      <4> QED
        BY <4>1 DEF Leaves
    <3>5. ASSUME NEW q \in Servers, q # p, srv[p].sending \in Msgs, srv'[q].sending = srv[p].sending
          PROVE  srv[p].sending \in excused
      <4>1. CASE q = s
        <5>1. st.sending = srv[p].sending
          BY <1>3, <3>5, <4>1
        <5> QED
          BY <2>2, <3>5, <5>1 DEF Sends
      <4>2. CASE q # s
        BY <1>1, <1>3, <3>5, <4>2 DEF SendsWaiting
      <4> QED
        BY <4>1, <4>2
    <3> QED
      BY <3>1, <3>2, <3>3, <3>4, <3>5
  <2> QED
    BY <2>1, <2>2
<1>7. QueuesWait'
  <2>1. ASSUME Works, NEW m \in Msgs, Has(srv'[now].items, m)
        PROVE  /\ stage'[m] = "queued" \/ m \in excused \/ (m = srv'[now].sending /\ srv'[now].phase = "ran")
               /\ \A p \in Servers : p # now /\ srv'[p].sending = m => m \in excused
    <3>1. CASE s = now
      <4>1. Has(st.items, m)
        BY <1>5, <2>1, <3>1
      <4>2. \A p \in Servers : p # now => srv'[p] = srv[p]
        BY <1>3, <3>1
      <4> QED
        BY <1>3, <2>1, <3>1, <4>1, <4>2 DEF Leaves
    <3>2. CASE s # now
      <4>1. srv'[now] = srv[now] /\ Has(srv[now].items, m)
        BY <1>3, <1>4, <2>1, <3>2 DEF Works
      <4>2. /\ Waits(m) \/ (m = srv[now].sending /\ srv[now].phase = "ran")
            /\ \A p \in Servers : p # now /\ srv[p].sending = m => m \in excused
        BY <1>1, <2>1, <4>1 DEF QueuesWait
      <4>3. ASSUME NEW p \in Servers, p # now, srv'[p].sending = m PROVE m \in excused
        <5>1. p # s
          BY <1>3, <1>4, <3>2, <4>3 DEF Sends
        <5> QED
          BY <1>3, <4>2, <4>3, <5>1
      <4>4. Waits(m) => stage'[m] = "queued" \/ m \in excused
        BY <3>2 DEF Leaves
      <4> QED
        BY <4>1, <4>2, <4>3, <4>4
    <3> QED
      BY <3>1, <3>2
  <2>2. Works \/ mishaps \cap {"crash", "overlap"} # {}
    BY DEF Handling
  <2> QED
    BY <1>2, <1>5, <2>1, <2>2 DEF QueuesWait, Waits
<1> QED
  BY <1>6, <1>7

LEMMA HandlerKeeps ==
  ASSUME RecoveryInv, NEW s \in Servers, NEW st \in Server, Handles(s, st), Changes(s, st),
         Sends(s, st), Leaves(s, st),
         stage' \in [Msgs -> Stages], ran' \in [Msgs -> Nat], Handling(s)
  PROVE  RecoveryInv'
BY HandlerKeepsPart1, HandlerKeepsPart2, HandlerKeepsPart3 DEF RecoveryInv

LEMMA QueueTurnStep ==
  ASSUME RecoveryInv, NEW s \in Servers, NEW m \in Msgs, QueueTurn(s, m)
  PROVE  RecoveryInv'
<1> DEFINE st == [srv[s] EXCEPT !.items = Append(srv[s].items, m)]
<1>1. TypeOK /\ SendsWaiting /\ OnlyQueued /\ QueuesWait
  BY DEF RecoveryInv
<1>2. s = now /\ Works /\ Handling(s) /\ stage[m] = "new"
  BY Places DEF QueueTurn
<1>3. /\ srv[s] \in Server /\ srv[s].items \in Seq(Msgs) /\ stage \in [Msgs -> Stages]
      /\ srv[s].sending \in Msgs \cup {NoMsg} /\ srv[s].phase \in {"idle", "asked", "ran"}
      /\ excused \subseteq Msgs /\ NoMsg \notin Msgs
  BY <1>1, FieldTypes, ConstantsAssumption DEF TypeOK
<1>4. /\ Append(srv[s].items, m) \in Seq(Msgs)
      /\ \A x \in Msgs : Has(Append(srv[s].items, m), x) <=> Has(srv[s].items, x) \/ x = m
  BY <1>3, QueueProperties
<1>5. /\ st \in Server /\ st.items = Append(srv[s].items, m) /\ st.mode = srv[s].mode
      /\ st.writes = srv[s].writes /\ st.sending = srv[s].sending /\ st.phase = srv[s].phase
  <2>1. st \in Server
    BY <1>3, <1>4, FieldTypes
  <2> QED
    BY <1>3, <2>1 DEF Server
<1>6. stage' = [stage EXCEPT ![m] = "queued"] /\ Broadcast(s, st)
  BY DEF QueueTurn
<1> HIDE DEF st
<1>7. /\ stage' \in [Msgs -> Stages] /\ stage'[m] = "queued"
      /\ \A x \in Msgs : x # m => stage'[x] = stage[x]
  BY <1>3, <1>6 DEF Stages
<1>8. Handles(s, st)
  BY <1>5, <1>6 DEF QueueTurn, Handles
<1>9. \A p \in Servers : srv[p].sending # m /\ ~Has(srv[p].items, m)
  BY <1>1, <1>2 DEF OnlyQueued, Nowhere
<1>10. Changes(s, st)
  <2> SUFFICES ASSUME NEW x \in Msgs
               PROVE  /\ stage'[x] = "new" => stage[x] = "new" /\ ~Has(st.items, x) /\ st.sending # x
                      /\ stage'[x] = "queued" =>
                           \/ stage[x] = "queued" /\ (Has(srv[s].items, x) => Has(st.items, x))
                           \/ stage[x] = "new" /\ Has(st.items, x)
    BY DEF Changes
  <2>1. CASE x = m
    BY <1>2, <1>4, <1>5, <1>7, <2>1
  <2>2. CASE x # m
    BY <1>1, <1>4, <1>5, <1>7, <2>2 DEF OnlyQueued, Nowhere
  <2> QED
    BY <2>1, <2>2
<1>11. Sends(s, st)
  <2>1. srv[s].sending # m
    BY <1>9
  <2>2. /\ srv[s].phase = "idle" <=> srv[s].sending = NoMsg
        /\ srv[s].phase = "asked" => stage[srv[s].sending] = "queued" \/ srv[s].sending \in excused
        /\ srv[s].phase = "ran" => stage[srv[s].sending] = "ran"
        /\ \A p \in Servers : p # s /\ srv[s].sending \in Msgs /\ srv[p].sending = srv[s].sending
             => srv[s].sending \in excused
    BY <1>1 DEF SendsWaiting
  <2>3. srv[s].sending \in Msgs => stage'[srv[s].sending] = stage[srv[s].sending]
    BY <1>7, <2>1
  <2> QED
    BY <1>2, <1>3, <1>5, <2>2, <2>3 DEF Sends
<1>12. Leaves(s, st)
  <2>1. \A x \in Msgs : stage[x] # "new" => stage'[x] = stage[x]
    BY <1>2, <1>7
  <2>2. \A x \in Msgs : (stage[x] = "ran" => stage'[x] = "ran") /\ (Waits(x) => stage'[x] = "queued" \/ x \in excused)
    BY <2>1 DEF Waits
  <2>3. ASSUME NEW x \in Msgs, Has(st.items, x)
        PROVE  /\ stage'[x] = "queued" \/ x \in excused \/ (x = st.sending /\ st.phase = "ran")
               /\ \A p \in Servers : p # now /\ srv[p].sending = x => x \in excused
    <3>1. CASE x = m
      BY <1>7, <1>9, <3>1
    <3>2. CASE x # m
      <4>1. Has(srv[now].items, x)
        BY <1>2, <1>4, <1>5, <2>3, <3>2
      <4> QED
        BY <1>1, <1>2, <1>5, <2>2, <4>1 DEF QueuesWait
    <3> QED
      BY <3>1, <3>2
  <2> QED
    BY <2>2, <2>3 DEF Leaves
<1>13. ran' \in [Msgs -> Nat]
  BY <1>1 DEF QueueTurn, TypeOK
<1> QED
  BY <1>2, <1>5, <1>7, <1>8, <1>10, <1>11, <1>12, <1>13, HandlerKeeps

LEMMA RemoveQueuedTurnStep ==
  ASSUME RecoveryInv, NEW s \in Servers, NEW m \in Msgs, RemoveQueuedTurn(s, m)
  PROVE  RecoveryInv'
<1> DEFINE st == [srv[s] EXCEPT !.items = Without(srv[s].items, m), !.blocked = FALSE]
<1>1. TypeOK /\ SendsWaiting /\ OnlyQueued /\ QueuesWait
  BY DEF RecoveryInv
<1>2. s = now /\ Works /\ Handling(s) /\ Has(srv[s].items, m) /\ srv[s].sending # m
  BY Places DEF RemoveQueuedTurn
<1>3. /\ srv[s] \in Server /\ srv[s].items \in Seq(Msgs) /\ stage \in [Msgs -> Stages]
      /\ srv[s].sending \in Msgs \cup {NoMsg} /\ srv[s].phase \in {"idle", "asked", "ran"}
      /\ excused \subseteq Msgs /\ NoMsg \notin Msgs
  BY <1>1, FieldTypes, ConstantsAssumption DEF TypeOK
<1>4. /\ Without(srv[s].items, m) \in Seq(Msgs)
      /\ \A x \in Msgs : Has(Without(srv[s].items, m), x) <=> Has(srv[s].items, x) /\ x # m
  BY <1>3, QueueProperties
<1>5. /\ st \in Server /\ st.items = Without(srv[s].items, m) /\ st.mode = srv[s].mode
      /\ st.writes = srv[s].writes /\ st.sending = srv[s].sending /\ st.phase = srv[s].phase
  <2>1. st \in Server
    BY <1>3, <1>4, FieldTypes
  <2> QED
    BY <1>3, <2>1 DEF Server
<1>6. stage' = [stage EXCEPT ![m] = IF stage[m] = "queued" THEN "removed" ELSE stage[m]] /\ Broadcast(s, st)
  BY DEF RemoveQueuedTurn
<1> HIDE DEF st
<1>7. /\ stage' \in [Msgs -> Stages] /\ stage'[m] # "queued" /\ (stage'[m] = "new" => stage[m] = "new")
      /\ (stage[m] = "ran" => stage'[m] = "ran")
      /\ \A x \in Msgs : x # m => stage'[x] = stage[x]
  BY <1>3, <1>6 DEF Stages
<1>8. Handles(s, st)
  BY <1>5, <1>6 DEF RemoveQueuedTurn, Handles
<1>10. Changes(s, st)
  <2> SUFFICES ASSUME NEW x \in Msgs
               PROVE  /\ stage'[x] = "new" => stage[x] = "new" /\ ~Has(st.items, x) /\ st.sending # x
                      /\ stage'[x] = "queued" =>
                           \/ stage[x] = "queued" /\ (Has(srv[s].items, x) => Has(st.items, x))
                           \/ stage[x] = "new" /\ Has(st.items, x)
    BY DEF Changes
  <2>1. stage[x] = "new" => ~Has(srv[s].items, x) /\ srv[s].sending # x
    BY <1>1 DEF OnlyQueued, Nowhere
  <2>2. CASE x = m
    BY <1>2, <1>7, <2>1, <2>2
  <2>3. CASE x # m
    BY <1>4, <1>5, <1>7, <2>1, <2>3
  <2> QED
    BY <2>2, <2>3
<1>11. Sends(s, st)
  <2>2. /\ srv[s].phase = "idle" <=> srv[s].sending = NoMsg
        /\ srv[s].phase = "asked" => stage[srv[s].sending] = "queued" \/ srv[s].sending \in excused
        /\ srv[s].phase = "ran" => stage[srv[s].sending] = "ran"
        /\ \A p \in Servers : p # s /\ srv[s].sending \in Msgs /\ srv[p].sending = srv[s].sending
             => srv[s].sending \in excused
    BY <1>1 DEF SendsWaiting
  <2>3. srv[s].sending \in Msgs => stage'[srv[s].sending] = stage[srv[s].sending]
    BY <1>2, <1>7
  <2> QED
    BY <1>2, <1>3, <1>5, <2>2, <2>3 DEF Sends
<1>12. Leaves(s, st)
  <2>1. ASSUME NEW x \in Msgs
        PROVE  /\ stage[x] = "ran" => stage'[x] = "ran"
               /\ Waits(x) => \/ stage'[x] = "queued" \/ x \in excused
                              \/ s = now /\ Works /\ Has(srv[s].items, x) /\ ~Has(st.items, x) /\ srv[s].sending # x
    <3>1. CASE x = m
      BY <1>2, <1>4, <1>5, <1>7, <3>1
    <3>2. CASE x # m
      BY <1>7, <3>2 DEF Waits
    <3> QED
      BY <3>1, <3>2
  <2>2. ASSUME NEW x \in Msgs, Has(st.items, x)
        PROVE  /\ stage'[x] = "queued" \/ x \in excused \/ (x = st.sending /\ st.phase = "ran")
               /\ \A p \in Servers : p # now /\ srv[p].sending = x => x \in excused
    <3>1. Has(srv[now].items, x) /\ x # m
      BY <1>2, <1>4, <1>5, <2>2
    <3>2. stage'[x] = stage[x]
      BY <1>7, <3>1
    <3> QED
      BY <1>1, <1>2, <1>5, <3>1, <3>2 DEF QueuesWait, Waits
  <2> QED
    BY <2>1, <2>2 DEF Leaves
<1>13. ran' \in [Msgs -> Nat]
  BY <1>1 DEF RemoveQueuedTurn, TypeOK
<1> QED
  BY <1>2, <1>5, <1>7, <1>8, <1>10, <1>11, <1>12, <1>13, HandlerKeeps

LEMMA DrainStartsStep ==
  ASSUME RecoveryInv, NEW s \in Servers, DrainStarts(s)
  PROVE  RecoveryInv'
<1> DEFINE m == Head(srv[s].items)
           st == [srv[s] EXCEPT !.sending = m, !.phase = "asked"]
<1>1. TypeOK /\ SendsWaiting /\ OnlyQueued /\ QueuesWait
  BY DEF RecoveryInv
<1>2. s = now /\ Works /\ Handling(s) /\ srv[s].sending = NoMsg /\ srv[s].items # <<>>
  BY Places DEF DrainStarts
<1>3. /\ srv[s] \in Server /\ srv[s].items \in Seq(Msgs) /\ stage \in [Msgs -> Stages]
      /\ excused \subseteq Msgs /\ NoMsg \notin Msgs
  BY <1>1, FieldTypes, ConstantsAssumption DEF TypeOK
<1>4. m \in Msgs /\ Has(srv[s].items, m)
  <2>1. m \in Msgs /\ m = srv[s].items[1] /\ Len(srv[s].items) >= 1 /\ DOMAIN srv[s].items = 1..Len(srv[s].items)
        /\ Len(srv[s].items) \in Nat
    BY <1>2, <1>3, HeadAndTail
  <2>2. 1 \in 1..Len(srv[s].items)
    BY <2>1
  <2> QED
    BY <2>1, <2>2 DEF Has
<1> HIDE DEF m
<1>5. /\ st \in Server /\ st.items = srv[s].items /\ st.mode = srv[s].mode
      /\ st.writes = srv[s].writes /\ st.sending = m /\ st.phase = "asked"
  <2>1. st \in Server
    BY <1>3, <1>4, FieldTypes
  <2> QED
    BY <1>3, <2>1 DEF Server
<1>6. stage' = stage /\ Broadcast(s, st)
  BY DEF DrainStarts, historyVars, m
<1> HIDE DEF st
<1>8. Handles(s, st)
  BY <1>5, <1>6 DEF DrainStarts, Handles, historyVars
<1>9. /\ srv[s].phase = "idle"
      /\ Waits(m) /\ \A p \in Servers : p # now /\ srv[p].sending = m => m \in excused
  <2>1. srv[s].phase = "idle"
    BY <1>1, <1>2 DEF SendsWaiting
  <2> QED
    BY <1>1, <1>2, <1>4, <2>1 DEF QueuesWait
<1>a. \A x \in Msgs : stage[x] = "new" => ~Has(srv[s].items, x)
  BY <1>1 DEF OnlyQueued, Nowhere
<1>10. Changes(s, st)
  BY <1>4, <1>5, <1>6, <1>a DEF Changes
<1>11. Sends(s, st)
  BY <1>2, <1>3, <1>4, <1>5, <1>6, <1>9 DEF Sends, Waits
<1>12. Leaves(s, st)
  <2>1. \A x \in Msgs : (stage[x] = "ran" => stage'[x] = "ran") /\ (Waits(x) => stage'[x] = "queued" \/ x \in excused)
    BY <1>6 DEF Waits
  <2>2. ASSUME NEW x \in Msgs, Has(st.items, x)
        PROVE  /\ stage'[x] = "queued" \/ x \in excused
               /\ \A p \in Servers : p # now /\ srv[p].sending = x => x \in excused
    BY <1>1, <1>2, <1>5, <1>9, <2>1, <2>2 DEF QueuesWait
  <2> QED
    BY <2>1, <2>2 DEF Leaves
<1>13. ran' \in [Msgs -> Nat] /\ stage' \in [Msgs -> Stages]
  BY <1>1, <1>6 DEF DrainStarts, TypeOK, historyVars
<1> QED
  BY <1>2, <1>5, <1>8, <1>10, <1>11, <1>12, <1>13, HandlerKeeps

\* The end of a drain that ran the message, and of one that failed.
LEMMA DrainEndsStep ==
  ASSUME RecoveryInv, NEW s \in Servers, DrainEnds(s)
  PROVE  RecoveryInv'
<1> DEFINE m == srv[s].sending
           st == [Idle(srv[s]) EXCEPT !.items = Without(Idle(srv[s]).items, m)]
<1>1. TypeOK /\ SendsWaiting /\ OnlyQueued /\ QueuesWait
  BY DEF RecoveryInv
<1>2. Handling(s) /\ srv[s].phase = "ran" /\ m \in Msgs
  BY Places DEF DrainEnds
<1>3. /\ srv[s] \in Server /\ srv[s].items \in Seq(Msgs) /\ stage \in [Msgs -> Stages]
      /\ NoMsg \notin Msgs
  BY <1>1, FieldTypes, ConstantsAssumption DEF TypeOK
<1>w. \A y \in Msgs : /\ Without(srv[s].items, y) \in Seq(Msgs)
                        /\ \A x \in Msgs : Has(Without(srv[s].items, y), x) <=> Has(srv[s].items, x) /\ x # y
  BY <1>3, QueueProperties
<1>4. /\ Without(srv[s].items, m) \in Seq(Msgs)
      /\ \A x \in Msgs : Has(Without(srv[s].items, m), x) <=> Has(srv[s].items, x) /\ x # m
  BY <1>2, <1>w
<1>b. /\ Idle(srv[s]) \in Server /\ Idle(srv[s]).items = srv[s].items /\ Idle(srv[s]).mode = srv[s].mode
      /\ Idle(srv[s]).writes = srv[s].writes /\ Idle(srv[s]).sending = NoMsg /\ Idle(srv[s]).phase = "idle"
  <2>1. Idle(srv[s]) \in Server
    BY <1>3, FieldTypes
  <2> QED
    BY <1>3, <2>1 DEF Server, Idle
<1>c. stage[m] = "ran"
  BY <1>1, <1>2 DEF SendsWaiting
<1> HIDE DEF m
<1>5. /\ st \in Server /\ st.items = Without(srv[s].items, m) /\ st.mode = srv[s].mode
      /\ st.writes = srv[s].writes /\ st.sending = NoMsg /\ st.phase = "idle"
  <2>1. [Idle(srv[s]) EXCEPT !.items = Without(srv[s].items, m)] \in Server
    BY <1>4, <1>b, FieldTypes
  <2> QED
    BY <1>b, <2>1 DEF Server
<1>6. stage' = stage /\ Broadcast(s, st)
  BY DEF DrainEnds, historyVars, m
<1> HIDE DEF st
<1>8. Handles(s, st)
  BY <1>5, <1>6 DEF DrainEnds, Handles, historyVars
<1>a. \A x \in Msgs : stage[x] = "new" => ~Has(srv[s].items, x)
  BY <1>1 DEF OnlyQueued, Nowhere
<1>10. Changes(s, st)
  BY <1>3, <1>4, <1>5, <1>6, <1>a, <1>c DEF Changes
<1>11. Sends(s, st)
  BY <1>3, <1>5 DEF Sends
<1>12. Leaves(s, st)
  <2>1. \A x \in Msgs : (stage[x] = "ran" => stage'[x] = "ran") /\ (Waits(x) => stage'[x] = "queued" \/ x \in excused)
    BY <1>6 DEF Waits
  <2>2. ASSUME s = now, Works, NEW x \in Msgs, Has(st.items, x)
        PROVE  /\ stage'[x] = "queued" \/ x \in excused
               /\ \A p \in Servers : p # now /\ srv[p].sending = x => x \in excused
    <3>1. Has(srv[now].items, x) /\ x # srv[now].sending
      BY <1>4, <1>5, <2>2 DEF m
    <3> QED
      BY <1>1, <2>1, <2>2, <3>1 DEF QueuesWait
  <2> QED
    BY <2>1, <2>2 DEF Leaves
<1>13. ran' \in [Msgs -> Nat] /\ stage' \in [Msgs -> Stages]
  BY <1>1, <1>6 DEF DrainEnds, TypeOK, historyVars
<1> QED
  BY <1>2, <1>5, <1>8, <1>10, <1>11, <1>12, <1>13, HandlerKeeps

LEMMA DrainFailsStep ==
  ASSUME RecoveryInv, NEW s \in Servers, DrainFails(s)
  PROVE  RecoveryInv'
<1> DEFINE m == srv[s].sending
           i == <<m>> \o Without(srv[s].items, m)
           st == [Idle(srv[s]) EXCEPT !.items = <<m>> \o Without(Idle(srv[s]).items, m), !.blocked = TRUE]
<1>1. TypeOK /\ SendsWaiting /\ OnlyQueued /\ QueuesWait
  BY DEF RecoveryInv
<1>2. Handling(s) /\ srv[s].phase = "asked" /\ m \in Msgs
  BY Places DEF DrainFails
<1>3. /\ srv[s] \in Server /\ srv[s].items \in Seq(Msgs) /\ stage \in [Msgs -> Stages]
      /\ NoMsg \notin Msgs
  BY <1>1, FieldTypes, ConstantsAssumption DEF TypeOK
<1>w. \A y \in Msgs : /\ Without(srv[s].items, y) \in Seq(Msgs)
                        /\ \A x \in Msgs : Has(Without(srv[s].items, y), x) <=> Has(srv[s].items, x) /\ x # y
  BY <1>3, QueueProperties
<1>4. i \in Seq(Msgs) /\ \A x \in Msgs : Has(i, x) <=> Has(srv[s].items, x) \/ x = m
  <2>1. /\ Without(srv[s].items, m) \in Seq(Msgs)
        /\ \A x \in Msgs : Has(Without(srv[s].items, m), x) <=> Has(srv[s].items, x) /\ x # m
    BY <1>2, <1>w
  <2>2. /\ i \in Seq(Msgs)
        /\ \A x \in Msgs : Has(i, x) <=> Has(Without(srv[s].items, m), x) \/ x = m
    BY <1>2, <2>1, QueueProperties
  <2> QED
    BY <2>1, <2>2
<1>b. /\ Idle(srv[s]) \in Server /\ Idle(srv[s]).items = srv[s].items /\ Idle(srv[s]).mode = srv[s].mode
      /\ Idle(srv[s]).writes = srv[s].writes /\ Idle(srv[s]).sending = NoMsg /\ Idle(srv[s]).phase = "idle"
  <2>1. Idle(srv[s]) \in Server
    BY <1>3, FieldTypes
  <2> QED
    BY <1>3, <2>1 DEF Server, Idle
<1>c. Waits(m) /\ \A p \in Servers : p # s /\ srv[p].sending = m => m \in excused
  BY <1>1, <1>2 DEF SendsWaiting, Waits
<1>d. st = [Idle(srv[s]) EXCEPT !.items = i, !.blocked = TRUE]
  BY <1>b
<1>e. Broadcast(s, st)
  BY DEF DrainFails
<1> HIDE DEF m, i
<1>5. /\ st \in Server /\ st.items = i /\ st.mode = srv[s].mode
      /\ st.writes = srv[s].writes /\ st.sending = NoMsg /\ st.phase = "idle"
  <2>1. [Idle(srv[s]) EXCEPT !.items = i, !.blocked = TRUE] \in Server
    BY <1>4, <1>b, FieldTypes
  <2> HIDE DEF st
  <2> QED
    BY <1>b, <1>d, <2>1 DEF Server
<1> HIDE DEF st
<1>6. stage' = stage
  BY DEF DrainFails, historyVars
<1>8. Handles(s, st)
  BY <1>5, <1>6, <1>e DEF DrainFails, Handles, historyVars
<1>a. \A x \in Msgs : stage[x] = "new" => ~Has(srv[s].items, x) /\ x # m
  BY <1>1 DEF OnlyQueued, Nowhere, m
<1>10. Changes(s, st)
  BY <1>3, <1>4, <1>5, <1>6, <1>a DEF Changes
<1>11. Sends(s, st)
  BY <1>3, <1>5 DEF Sends
<1>12. Leaves(s, st)
  <2>1. \A x \in Msgs : (stage[x] = "ran" => stage'[x] = "ran") /\ (Waits(x) => stage'[x] = "queued" \/ x \in excused)
    BY <1>6 DEF Waits
  <2>2. ASSUME s = now, Works, NEW x \in Msgs, Has(st.items, x)
        PROVE  /\ stage'[x] = "queued" \/ x \in excused
               /\ \A p \in Servers : p # now /\ srv[p].sending = x => x \in excused
    <3>1. CASE x = m
      BY <1>c, <2>1, <2>2, <3>1
    <3>2. CASE x # m
      <4>1. Has(srv[now].items, x) /\ srv[now].phase = "asked"
        BY <1>2, <1>4, <1>5, <2>2, <3>2
      <4> QED
        BY <1>1, <2>1, <2>2, <4>1 DEF QueuesWait
    <3> QED
      BY <3>1, <3>2
  <2> QED
    BY <2>1, <2>2 DEF Leaves
<1>13. ran' \in [Msgs -> Nat] /\ stage' \in [Msgs -> Stages]
  BY <1>1, <1>6 DEF DrainFails, TypeOK, historyVars
<1> QED
  BY <1>2, <1>5, <1>8, <1>10, <1>11, <1>12, <1>13, HandlerKeeps

\* A step of the connection or of the hub leaves the servers alone.
LEMMA ServersUntouched ==
  ASSUME RecoveryInv, UNCHANGED <<srv, now, disk, stage, excused>>,
         mishaps \subseteq mishaps', mishaps' \subseteq mishaps \cup {"lost", "swapped"}
  PROVE  OneAtATime' /\ SendsWaiting' /\ LoadsAlone' /\ Orderly' /\ WaitsSomewhere' /\ QueuesWait' /\ FilesGrow'
<1>1. /\ OneAtATime /\ SendsWaiting /\ LoadsAlone /\ Orderly /\ WaitsSomewhere /\ QueuesWait /\ FilesGrow
      /\ srv' = srv /\ now' = now /\ disk' = disk /\ stage' = stage /\ excused' = excused
  BY DEF RecoveryInv
<1>2. /\ "overlap" \in mishaps' <=> "overlap" \in mishaps
      /\ "early" \in mishaps' <=> "early" \in mishaps
      /\ "crash" \in mishaps' <=> "crash" \in mishaps
  OBVIOUS
<1>3. /\ mishaps' \cap {"crash", "overlap", "early"} = {} <=> mishaps \cap {"crash", "overlap", "early"} = {}
      /\ mishaps' \cap {"crash", "overlap"} = {} <=> mishaps \cap {"crash", "overlap"} = {}
      /\ mishaps' \cap {"overlap", "early"} = {} <=> mishaps \cap {"overlap", "early"} = {}
  BY <1>2
<1>4. (Works' <=> Works) /\ (Loads' <=> Loads)
  BY <1>1 DEF Works, Loads
<1>5. OneAtATime' /\ SendsWaiting'
  BY <1>1 DEF OneAtATime, SendsWaiting
<1>6. LoadsAlone'
  BY <1>1, <1>2, <1>4 DEF LoadsAlone
<1>7. Orderly'
  BY <1>1, <1>2, <1>4 DEF Orderly
<1>8. WaitsSomewhere'
  BY <1>1, <1>3, <1>4 DEF WaitsSomewhere
<1>9. QueuesWait'
  BY <1>1, <1>3, <1>4 DEF QueuesWait, Waits
<1>10. FilesGrow'
  BY <1>1, <1>3 DEF FilesGrow
<1> QED
  BY <1>5, <1>6, <1>7, <1>8, <1>9, <1>10

LEMMA StutterStep ==
  ASSUME RecoveryInv, UNCHANGED vars
  PROVE  RecoveryInv'
<1>1. /\ srv' = srv /\ now' = now /\ disk' = disk /\ link' = link /\ pending' = pending /\ wire' = wire
      /\ record' = record /\ listing' = listing /\ answer' = answer /\ links' = links /\ snapshot' = snapshot
      /\ stage' = stage /\ ran' = ran /\ excused' = excused /\ mishaps' = mishaps
  BY DEF vars, hubVars, historyVars
<1>2. OneAtATime' /\ SendsWaiting' /\ LoadsAlone' /\ Orderly' /\ WaitsSomewhere' /\ QueuesWait' /\ FilesGrow'
  BY <1>1, ServersUntouched
<1>3. TypeOK' /\ OnlyQueued' /\ HubIsTold'
  BY <1>1 DEF RecoveryInv, TypeOK, OnlyQueued, Nowhere, HubIsTold, Works
<1> QED
  BY <1>2, <1>3 DEF RecoveryInv

LEMMA ConnectStep ==
  ASSUME RecoveryInv, Connect
  PROVE  RecoveryInv'
<1>1. TypeOK /\ OnlyQueued /\ HubIsTold
  BY DEF RecoveryInv
<1>2. /\ srv' = srv /\ now' = now /\ disk' = disk /\ record' = record /\ answer' = answer /\ snapshot' = snapshot
      /\ stage' = stage /\ ran' = ran /\ excused' = excused /\ mishaps' = mishaps
      /\ link' = TRUE /\ links' = links + 1 /\ links < MaxLinks /\ listing' = TRUE /\ pending' = <<>>
      /\ wire' = IF pending = <<>> THEN wire ELSE AppendNew(wire, Head(pending))
  BY DEF Connect, historyVars
<1>3. wire \in Seq(Snapshots) /\ pending \in Seq(Snapshots) /\ Len(pending) <= 1
  BY <1>1 DEF TypeOK
<1>4. pending # <<>> => /\ Head(pending) \in Snapshots /\ Head(pending) = Last(pending)
                        /\ AppendNew(wire, Head(pending)) \in Seq(Snapshots)
                        /\ LastOf(record, AppendNew(wire, Head(pending))) = Head(pending)
  <2> SUFFICES ASSUME pending # <<>>
               PROVE  /\ Head(pending) \in Snapshots /\ Head(pending) = Last(pending)
                      /\ AppendNew(wire, Head(pending)) \in Seq(Snapshots)
                      /\ LastOf(record, AppendNew(wire, Head(pending))) = Head(pending)
    OBVIOUS
  <2>1. /\ Head(pending) \in Snapshots /\ Len(pending) \in Nat /\ Len(pending) >= 1 /\ Head(pending) = pending[1]
    <3>1. Head(pending) \in Snapshots /\ Head(pending) = pending[1]
      BY <1>3, HeadAndTail
    <3>2. Len(pending) \in Nat /\ Len(pending) >= 1
      BY <1>3, LenProperties, EmptySeq
    <3> QED
      BY <3>1, <3>2
  <2>2. Len(pending) = 1
    <3>1. Len(pending) \in Nat /\ Len(pending) >= 1 /\ Len(pending) <= 1
      BY Zenon, <1>3, <2>1
    <3>2. \A n \in Nat : n >= 1 /\ n <= 1 => n = 1
      OBVIOUS
    <3> QED
      BY Zenon, <3>1, <3>2
  <2> QED
    BY <1>3, <2>1, <2>2, AppendNewProperties, LastOfAppended DEF Last
<1>5. TypeOK'
  <2>1. wire' \in Seq(Snapshots)
    BY <1>2, <1>3, <1>4
  <2>2. links' \in 0..MaxLinks
    BY <1>1, <1>2, ConstantsAssumption DEF TypeOK
  <2>3. pending' \in Seq(Snapshots) /\ Len(pending') <= 1
    BY <1>2, EmptySeq
  <2> QED
    BY <1>1, <1>2, <2>1, <2>2, <2>3 DEF TypeOK
<1>6. OnlyQueued'
  <2> SUFFICES ASSUME NEW m \in Msgs, stage[m] = "new"
               PROVE  Nowhere(m)'
    BY <1>2 DEF OnlyQueued
  <2>1. Nowhere(m)
    BY <1>1 DEF OnlyQueued
  <2>2. Lacks(wire', m) /\ Lacks(pending', m)
    <3>1. Lacks(wire, m) /\ Lacks(pending, m)
      BY <2>1 DEF Nowhere
    <3>2. Lacks(<<>>, m) /\ (pending # <<>> => ~Has(Head(pending), m))
      BY <1>3, <3>1, LackingLists
    <3>3. pending # <<>> => Lacks(AppendNew(wire, Head(pending)), m)
      BY <1>3, <1>4, <3>1, <3>2, LackingLists
    <3> QED
      BY <1>2, <3>1, <3>2, <3>3
  <2> QED
    BY <1>2, <2>1, <2>2 DEF Nowhere
<1>7. HubIsTold'
  <2>1. LastOf(LastOf(record, wire'), <<>>) = LastOf(LastOf(record, wire), pending)
    BY <1>2, <1>4 DEF LastOf
  <2>2. Works' <=> Works
    BY <1>2 DEF Works
  <2> QED
    BY <1>1, <1>2, <2>1, <2>2 DEF HubIsTold
<1>8. OneAtATime' /\ SendsWaiting' /\ LoadsAlone' /\ Orderly' /\ WaitsSomewhere' /\ QueuesWait' /\ FilesGrow'
  BY <1>2, ServersUntouched
<1> QED
  BY <1>5, <1>6, <1>7, <1>8 DEF RecoveryInv

LEMMA LinkDropsStep ==
  ASSUME RecoveryInv, LinkDrops
  PROVE  RecoveryInv'
<1>1. TypeOK /\ OnlyQueued /\ HubIsTold
  BY DEF RecoveryInv
<1>2. /\ srv' = srv /\ now' = now /\ disk' = disk /\ pending' = pending /\ record' = record
      /\ snapshot' = snapshot /\ links' = links
      /\ stage' = stage /\ ran' = ran /\ excused' = excused
      /\ link' = FALSE /\ listing' = FALSE /\ answer' = <<>> /\ wire' \in Arrived(wire)
      /\ mishaps' = IF wire' = wire THEN mishaps ELSE mishaps \cup {"lost"}
  BY DEF LinkDrops
<1>3. wire \in Seq(Snapshots) /\ wire' \in Seq(Snapshots)
  BY <1>1, <1>2, ArrivedLeft DEF TypeOK
<1>5. TypeOK'
  <2>1. answer' \in Seq(Snapshots) /\ Len(answer') <= 1
    BY <1>2, EmptySeq
  <2>2. mishaps' \subseteq Mishaps
    BY <1>1, <1>2 DEF TypeOK, Mishaps
  <2> QED
    BY <1>1, <1>2, <1>3, <2>1, <2>2 DEF TypeOK
<1>6. OnlyQueued'
  <2> SUFFICES ASSUME NEW m \in Msgs, stage[m] = "new"
               PROVE  Nowhere(m)'
    BY <1>2 DEF OnlyQueued
  <2>1. Nowhere(m)
    BY <1>1 DEF OnlyQueued
  <2>2. Lacks(wire', m) /\ Lacks(answer', m)
    <3>1. Lacks(wire, m)
      BY <2>1 DEF Nowhere
    <3>2. Lacks(<<>>, m) /\ \A v \in Arrived(wire) : Lacks(v, m)
      BY <1>3, <3>1, LackingLists
    <3> QED
      BY <1>2, <3>2
  <2> QED
    BY <1>2, <2>1, <2>2 DEF Nowhere
<1>7. HubIsTold'
  <2>1. Works' <=> Works
    BY <1>2 DEF Works
  <2>2. mishaps' = {} => mishaps = {} /\ wire' = wire
    BY <1>2
  <2> QED
    BY <1>1, <1>2, <2>1, <2>2 DEF HubIsTold
<1>8. OneAtATime' /\ SendsWaiting' /\ LoadsAlone' /\ Orderly' /\ WaitsSomewhere' /\ QueuesWait' /\ FilesGrow'
  BY <1>2, ServersUntouched
<1> QED
  BY <1>5, <1>6, <1>7, <1>8 DEF RecoveryInv

LEMMA PutAppliedStep ==
  ASSUME RecoveryInv, PutApplied
  PROVE  RecoveryInv'
<1>1. TypeOK /\ OnlyQueued /\ HubIsTold
  BY DEF RecoveryInv
<1>2. PICK i \in DOMAIN wire :
        /\ record' = wire[i] /\ wire' = RemoveAt(wire, i)
        /\ mishaps' = IF i = 1 THEN mishaps ELSE mishaps \cup {"swapped"}
        /\ srv' = srv /\ now' = now /\ disk' = disk /\ link' = link /\ pending' = pending
        /\ listing' = listing /\ answer' = answer /\ snapshot' = snapshot /\ links' = links
        /\ stage' = stage /\ ran' = ran /\ excused' = excused
  BY DEF PutApplied
<1>3. wire \in Seq(Snapshots) /\ wire' \in Seq(Snapshots) /\ record' \in Snapshots
  <2>1. wire \in Seq(Snapshots)
    BY <1>1 DEF TypeOK
  <2> QED
    BY <1>2, <2>1, WireLeft
<1>5. TypeOK'
  <2>1. mishaps' \subseteq Mishaps
    BY <1>1, <1>2 DEF TypeOK, Mishaps
  <2> QED
    BY <1>1, <1>2, <1>3, <2>1 DEF TypeOK
<1>6. OnlyQueued'
  <2> SUFFICES ASSUME NEW m \in Msgs, stage[m] = "new"
               PROVE  Nowhere(m)'
    BY <1>2 DEF OnlyQueued
  <2>1. Nowhere(m)
    BY <1>1 DEF OnlyQueued
  <2>2. Lacks(wire', m) /\ ~Has(record', m)
    <3>1. Lacks(wire, m)
      BY <2>1 DEF Nowhere
    <3>2. Lacks(RemoveAt(wire, i), m) /\ ~Has(wire[i], m)
      BY <1>3, <3>1, LackingLists
    <3> QED
      BY <1>2, <3>2
  <2> QED
    BY <1>2, <2>1, <2>2 DEF Nowhere
<1>7. HubIsTold'
  <2>1. Works' <=> Works
    BY <1>2 DEF Works
  <2>2. ASSUME mishaps' = {} PROVE mishaps = {} /\ LastOf(record', wire') = LastOf(record, wire)
    <3>1. i = 1 /\ mishaps = {}
      BY <1>2, <2>2
    <3> QED
      BY <1>2, <1>3, <3>1, LastOfRemoved
  <2> QED
    BY <1>1, <1>2, <2>1, <2>2 DEF HubIsTold
<1>8. OneAtATime' /\ SendsWaiting' /\ LoadsAlone' /\ Orderly' /\ WaitsSomewhere' /\ QueuesWait' /\ FilesGrow'
  BY <1>2, ServersUntouched
<1> QED
  BY <1>5, <1>6, <1>7, <1>8 DEF RecoveryInv

LEMMA HubListsStep ==
  ASSUME RecoveryInv, HubLists
  PROVE  RecoveryInv'
<1>1. TypeOK /\ OnlyQueued /\ HubIsTold
  BY DEF RecoveryInv
<1>2. /\ srv' = srv /\ now' = now /\ disk' = disk /\ link' = link /\ pending' = pending /\ wire' = wire
      /\ record' = record /\ snapshot' = snapshot /\ links' = links /\ listing' = FALSE
      /\ stage' = stage /\ ran' = ran /\ excused' = excused /\ mishaps' = mishaps
      /\ answer' = <<record>> \/ answer' = <<>>
  BY DEF HubLists, historyVars
<1>3. record \in Snapshots
  BY <1>1 DEF TypeOK
<1>5. TypeOK'
  <2>1. answer' \in Seq(Snapshots) /\ Len(answer') <= 1
    <3>1. <<>> \in Seq(Snapshots) /\ Len(<<>>) <= 1
      BY EmptySeq
    <3>2. <<record>> \in Seq(Snapshots) /\ Len(<<record>>) = 1
      BY <1>3, Single
    <3>3. CASE answer' = <<record>>
      BY <3>2, <3>3
    <3>4. CASE answer' = <<>>
      BY Zenon, <3>1, <3>4
    <3> QED
      BY <1>2, <3>3, <3>4
  <2> QED
    BY <1>1, <1>2, <2>1 DEF TypeOK
<1>6. OnlyQueued'
  <2> SUFFICES ASSUME NEW m \in Msgs, stage[m] = "new"
               PROVE  Nowhere(m)'
    BY <1>2 DEF OnlyQueued
  <2>1. Nowhere(m)
    BY <1>1 DEF OnlyQueued
  <2>2. Lacks(answer', m)
    <3>1. ~Has(record, m)
      BY <2>1 DEF Nowhere
    <3>2. Lacks(<<>>, m) /\ Lacks(<<record>>, m)
      BY <1>3, <3>1, EmptySeq, LackingLists
    <3> QED
      BY <1>2, <3>2
  <2> QED
    BY <1>2, <2>1, <2>2 DEF Nowhere
<1>7. HubIsTold'
  <2>1. Works' <=> Works
    BY <1>2 DEF Works
  <2> QED
    BY <1>1, <1>2, <2>1 DEF HubIsTold
<1>8. OneAtATime' /\ SendsWaiting' /\ LoadsAlone' /\ Orderly' /\ WaitsSomewhere' /\ QueuesWait' /\ FilesGrow'
  BY <1>2, ServersUntouched
<1> QED
  BY <1>5, <1>6, <1>7, <1>8 DEF RecoveryInv

LEMMA AcceptStep ==
  ASSUME RecoveryInv, NEW s \in Servers, Accept(s)
  PROVE  RecoveryInv'
<1> DEFINE m == srv[s].sending
<1>1. /\ TypeOK /\ OneAtATime /\ SendsWaiting /\ OnlyQueued /\ LoadsAlone /\ Orderly
      /\ WaitsSomewhere /\ HubIsTold /\ QueuesWait /\ FilesGrow
  BY DEF RecoveryInv
<1>2. m \in Msgs /\ Handling(s) /\ srv[s].phase = "asked"
  BY Places DEF Accept
<1>3. /\ srv' = [srv EXCEPT ![s].phase = "ran"]
      /\ stage' = [stage EXCEPT ![m] = "ran"] /\ ran' = [ran EXCEPT ![m] = @ + 1]
      /\ now' = now /\ disk' = disk /\ link' = link /\ pending' = pending /\ wire' = wire /\ record' = record
      /\ listing' = listing /\ answer' = answer /\ links' = links /\ snapshot' = snapshot
      /\ excused' = excused /\ mishaps' = mishaps
  BY DEF Accept, hubVars
<1> HIDE DEF m
<1>4. /\ srv \in [Servers -> Server] /\ stage \in [Msgs -> Stages] /\ ran \in [Msgs -> Nat] /\ srv[s] \in Server
      /\ now > 0 => now \in Servers
      /\ NoMsg \notin Msgs /\ now \in Nat /\ \A p \in Servers : p \in Nat
  BY <1>1, Bounds, ConstantsAssumption DEF TypeOK
<1>5. /\ \A p \in Servers : p # s => srv'[p] = srv[p]
      /\ srv'[s].mode = srv[s].mode /\ srv'[s].items = srv[s].items /\ srv'[s].writes = srv[s].writes
      /\ srv'[s].sending = m /\ srv'[s].phase = "ran" /\ srv[s].sending = m
      /\ srv' \in [Servers -> Server]
  <2>1. [srv[s] EXCEPT !.phase = "ran"] \in Server
    BY <1>4, FieldTypes
  <2>2. srv'[s] = [srv[s] EXCEPT !.phase = "ran"] /\ \A p \in Servers : p # s => srv'[p] = srv[p]
    BY <1>3, <1>4
  <2>3. srv' \in [Servers -> Server]
    BY <1>3, <1>4, <2>1
  <2> QED
    BY <1>4, <2>2, <2>3 DEF Server, m
<1>6. /\ \A p \in Servers : /\ srv'[p].mode = srv[p].mode /\ srv'[p].items = srv[p].items
                            /\ srv'[p].writes = srv[p].writes /\ srv'[p].sending = srv[p].sending
  BY <1>5
<1>7. /\ stage' \in [Msgs -> Stages] /\ stage'[m] = "ran" /\ \A x \in Msgs : x # m => stage'[x] = stage[x]
      /\ ran' \in [Msgs -> Nat]
  BY <1>2, <1>3, <1>4 DEF Stages
<1>8. (Works' <=> Works) /\ (Loads' <=> Loads)
  BY <1>3, <1>4, <1>6 DEF Works, Loads
<1>9. TypeOK'
  BY <1>1, <1>3, <1>5, <1>7 DEF TypeOK
<1>10. OneAtATime'
  <2>1. s <= now
    BY <1>2 DEF Handling
  <2> SUFFICES ASSUME NEW p \in Servers
               PROVE  (p > now => srv'[p] = NoServer) /\ (p < now => srv'[p].mode = "gone")
                      /\ (p = now => srv'[p].mode # "none")
    BY <1>3 DEF OneAtATime
  <2>2. CASE p = s
    BY <1>1, <1>4, <1>6, <2>1, <2>2 DEF OneAtATime
  <2>3. CASE p # s
    BY <1>1, <1>5, <2>3 DEF OneAtATime
  <2> QED
    BY <2>2, <2>3
<1>11. SendsWaiting'
  <2> SUFFICES ASSUME NEW p \in Servers
               PROVE  /\ srv'[p].phase = "idle" <=> srv'[p].sending = NoMsg
                      /\ srv'[p].phase = "asked" => stage'[srv'[p].sending] = "queued" \/ srv'[p].sending \in excused
                      /\ srv'[p].phase = "ran" => stage'[srv'[p].sending] = "ran"
                      /\ \A q \in Servers : q # p /\ srv'[p].sending \in Msgs /\ srv'[q].sending = srv'[p].sending
                           => srv'[p].sending \in excused
    BY <1>3 DEF SendsWaiting
  <2>1. \A q \in Servers : q # p /\ srv'[p].sending \in Msgs /\ srv'[q].sending = srv'[p].sending
                           => srv'[p].sending \in excused
    BY <1>1, <1>6 DEF SendsWaiting
  <2>2. CASE p = s
    BY <1>2, <1>4, <1>5, <1>7, <2>1, <2>2
  <2>3. CASE p # s
    <3>1. srv'[p] = srv[p] /\ srv[p].sending \in Msgs \cup {NoMsg} /\ (srv[p].phase = "idle" <=> srv[p].sending = NoMsg)
      BY <1>1, <1>4, <1>5, <2>3, FieldTypes DEF SendsWaiting
    <3>2. CASE srv[p].sending = m
      BY <1>1, <1>2, <1>5, <1>7, <2>1, <2>3, <3>1, <3>2 DEF SendsWaiting
    <3>3. CASE srv[p].sending # m
      BY <1>1, <1>7, <2>1, <3>1, <3>3 DEF SendsWaiting
    <3> QED
      BY <3>2, <3>3
  <2> QED
    BY <2>2, <2>3
<1>12. OnlyQueued'
  <2>1. \A x \in Msgs : stage'[x] = "new" => stage[x] = "new"
    BY <1>7
  <2> QED
    BY <1>1, <1>3, <1>6, <2>1 DEF OnlyQueued, Nowhere
<1>13. LoadsAlone' /\ Orderly'
  BY <1>1, <1>3, <1>4, <1>6, <1>8 DEF LoadsAlone, Orderly, Loads, Works
<1>a. \A x \in Msgs : stage'[x] = "queued" => stage[x] = "queued"
  BY <1>7
<1>14. WaitsSomewhere' /\ HubIsTold'
  BY <1>1, <1>3, <1>4, <1>6, <1>8, <1>a DEF WaitsSomewhere, HubIsTold, Works
<1>15. FilesGrow'
  BY <1>1, <1>3, <1>4, <1>6, <1>a DEF FilesGrow
<1>16. QueuesWait'
  <2>1. ASSUME Works, NEW x \in Msgs, Has(srv'[now].items, x)
        PROVE  /\ stage'[x] = "queued" \/ x \in excused \/ (x = srv'[now].sending /\ srv'[now].phase = "ran")
               /\ \A p \in Servers : p # now /\ srv'[p].sending = x => x \in excused
    <3>1. now \in Servers /\ Has(srv[now].items, x)
      BY <1>4, <1>6, <2>1 DEF Works
    <3>2. /\ Waits(x) \/ (x = srv[now].sending /\ srv[now].phase = "ran")
          /\ \A p \in Servers : p # now /\ srv[p].sending = x => x \in excused
      BY <1>1, <2>1, <3>1 DEF QueuesWait
    <3>3. CASE x = m
      <4>1. CASE s = now
        BY <1>5, <1>6, <3>1, <3>2, <3>3, <4>1
      <4>2. CASE s # now
        BY <1>5, <1>6, <3>1, <3>2, <3>3, <4>2
      <4> QED
        BY <4>1, <4>2
    <3>4. CASE x # m
      <4>1. CASE x = srv[now].sending /\ srv[now].phase = "ran"
        BY <1>2, <1>5, <1>6, <3>1, <3>2, <4>1
      <4>2. CASE Waits(x)
        BY <1>6, <1>7, <3>2, <3>4, <4>2 DEF Waits
      <4> QED
        BY <3>2, <4>1, <4>2
    <3> QED
      BY <3>3, <3>4
  <2>2. Works \/ mishaps \cap {"crash", "overlap"} # {}
    BY <1>2 DEF Handling
  <2> QED
    BY <1>3, <1>8, <2>1, <2>2 DEF QueuesWait, Waits
<1> QED
  BY <1>9, <1>10, <1>11, <1>12, <1>13, <1>14, <1>15, <1>16 DEF RecoveryInv

LEMMA SendsAsBefore ==
  ASSUME SendsWaiting, stage' = stage, excused \subseteq excused',
         \A p \in Servers : srv'[p].phase = srv[p].phase /\ srv'[p].sending = srv[p].sending
  PROVE  SendsWaiting'
<1> SUFFICES ASSUME NEW p \in Servers
             PROVE  /\ srv'[p].phase = "idle" <=> srv'[p].sending = NoMsg
                    /\ srv'[p].phase = "asked" => stage'[srv'[p].sending] = "queued" \/ srv'[p].sending \in excused'
                    /\ srv'[p].phase = "ran" => stage'[srv'[p].sending] = "ran"
                    /\ \A q \in Servers : q # p /\ srv'[p].sending \in Msgs /\ srv'[q].sending = srv'[p].sending
                         => srv'[p].sending \in excused'
  BY DEF SendsWaiting
<1>1. /\ srv[p].phase = "idle" <=> srv[p].sending = NoMsg
      /\ srv[p].phase = "asked" => stage[srv[p].sending] = "queued" \/ srv[p].sending \in excused
      /\ srv[p].phase = "ran" => stage[srv[p].sending] = "ran"
  BY DEF SendsWaiting
<1>2. ASSUME NEW q \in Servers, q # p, srv[p].sending \in Msgs, srv[q].sending = srv[p].sending
      PROVE  srv[p].sending \in excused
  BY <1>2 DEF SendsWaiting
<1>3. srv'[p].phase = srv[p].phase /\ srv'[p].sending = srv[p].sending
  OBVIOUS
<1>4. /\ srv'[p].phase = "idle" <=> srv'[p].sending = NoMsg
      /\ srv'[p].phase = "asked" => stage'[srv'[p].sending] = "queued" \/ srv'[p].sending \in excused'
      /\ srv'[p].phase = "ran" => stage'[srv'[p].sending] = "ran"
  BY <1>1, <1>3
<1>5. ASSUME NEW q \in Servers, q # p, srv'[p].sending \in Msgs, srv'[q].sending = srv'[p].sending
      PROVE  srv'[p].sending \in excused'
  <2>1. srv'[q].sending = srv[q].sending
    OBVIOUS
  <2> QED
    BY <1>2, <1>3, <1>5, <2>1
<1> QED
  BY <1>4, <1>5

LEMMA WriteDoneStep ==
  ASSUME RecoveryInv, NEW s \in Servers, WriteDone(s)
  PROVE  RecoveryInv'
<1> DEFINE w == srv[s].writes
           n == IF srv[s].awaited > 0 THEN srv[s].awaited - 1 ELSE 0
<1>1. /\ TypeOK /\ OneAtATime /\ SendsWaiting /\ OnlyQueued /\ LoadsAlone /\ Orderly
      /\ WaitsSomewhere /\ HubIsTold /\ QueuesWait /\ FilesGrow
  BY DEF RecoveryInv
<1>3. /\ srv' = [srv EXCEPT ![s].writes = Tail(@), ![s].awaited = IF @ > 0 THEN @ - 1 ELSE 0]
      /\ disk' = Head(w) /\ w # <<>>
      /\ now' = now /\ link' = link /\ pending' = pending /\ wire' = wire /\ record' = record
      /\ listing' = listing /\ answer' = answer /\ links' = links /\ snapshot' = snapshot
      /\ stage' = stage /\ ran' = ran /\ excused' = excused /\ mishaps' = mishaps
  BY DEF WriteDone, hubVars, historyVars
<1>4. /\ srv \in [Servers -> Server] /\ srv[s] \in Server /\ w \in Seq(Snapshots) /\ srv[s].awaited \in Nat
      /\ now > 0 => now \in Servers
      /\ now \in Nat /\ \A p \in Servers : p \in Nat
  BY <1>1, Bounds, FieldTypes DEF TypeOK
<1>b. Head(w) \in Snapshots /\ Tail(w) \in Seq(Snapshots) /\ LastOf(Head(w), Tail(w)) = LastOf(disk, w)
  BY <1>3, <1>4, HeadAndTail, LastOfTail
<1>c. n \in Nat
  BY <1>4
<1>d. srv'[s] = [srv[s] EXCEPT !.writes = Tail(w), !.awaited = n] /\ \A p \in Servers : p # s => srv'[p] = srv[p]
  BY <1>3, <1>4
<1>e. srv' = [srv EXCEPT ![s] = [srv[s] EXCEPT !.writes = Tail(w), !.awaited = n]]
  BY <1>3, <1>4
<1> HIDE DEF n
<1>f. srv' \in [Servers -> Server]
  <2>1. [srv[s] EXCEPT !.writes = Tail(w), !.awaited = n] \in Server
    BY <1>4, <1>b, <1>c, FieldTypes
  <2> QED
    BY <1>4, <1>e, <2>1
<1>5. /\ srv'[s].writes = Tail(w) /\ \A p \in Servers : p # s => srv'[p] = srv[p]
      /\ \A p \in Servers : /\ srv'[p].mode = srv[p].mode /\ srv'[p].items = srv[p].items
                            /\ srv'[p].phase = srv[p].phase /\ srv'[p].sending = srv[p].sending
  BY <1>4, <1>d DEF Server
<1>6. "overlap" \notin mishaps => s = now /\ srv[now].mode # "gone"
  BY <1>3, Places
<1> HIDE DEF w
<1>a. srv[s].writes = w
  BY DEF w
<1>7. (Works' <=> Works) /\ (Loads' <=> Loads)
  BY <1>3, <1>4, <1>5 DEF Works, Loads
<1>8. "overlap" \notin mishaps => Works \/ Loads
  <2>1. "overlap" \notin mishaps => srv[s].mode # "gone" /\ srv[s].mode # "none" /\ s = now /\ now > 0
    BY <1>1, <1>4, <1>6, Bounds DEF OneAtATime
  <2>2. srv[s].mode \in Modes
    BY <1>4, FieldTypes
  <2> QED
    BY <2>1, <2>2 DEF Works, Loads, Modes
<1>g. Loads /\ s = now => /\ w = <<srv[now].items>> /\ Head(w) = srv[now].items /\ Tail(w) = <<>>
                          /\ srv[now].items # <<>> /\ "early" \in mishaps
  <2> SUFFICES ASSUME Loads, s = now
               PROVE  /\ w = <<srv[now].items>> /\ Head(w) = srv[now].items /\ Tail(w) = <<>>
                      /\ srv[now].items # <<>> /\ "early" \in mishaps
    OBVIOUS
  <2>1. srv[now].items # <<>> /\ w = <<srv[now].items>>
    BY <1>1, <1>3, <1>a DEF LoadsAlone
  <2>2. "early" \in mishaps
    BY <1>1, <2>1 DEF LoadsAlone
  <2>3. Head(<<srv[now].items>>) = srv[now].items /\ Tail(<<srv[now].items>>) = <<>>
    OBVIOUS
  <2> QED
    BY <2>1, <2>2, <2>3
<1>9. TypeOK'
  BY <1>1, <1>3, <1>b, <1>f DEF TypeOK
<1>10. OneAtATime'
  <2> SUFFICES ASSUME NEW p \in Servers
               PROVE  (p > now => srv'[p] = NoServer) /\ (p < now => srv'[p].mode = "gone")
                      /\ (p = now => srv'[p].mode # "none")
    BY <1>3 DEF OneAtATime
  <2>1. CASE p = s
    <3>1. ~(p > now)
      BY <1>1, <1>3, <1>a, <2>1 DEF OneAtATime, NoServer
    <3> QED
      BY <1>1, <1>5, <3>1 DEF OneAtATime
  <2>2. CASE p # s
    BY <1>1, <1>5, <2>2 DEF OneAtATime
  <2> QED
    BY <2>1, <2>2
<1>11. SendsWaiting'
  BY <1>1, <1>3, <1>5, SendsAsBefore
<1>12. OnlyQueued'
  <2> SUFFICES ASSUME NEW m \in Msgs, stage[m] = "new"
               PROVE  Nowhere(m)'
    BY <1>3 DEF OnlyQueued
  <2>1. Nowhere(m) /\ Lacks(w, m)
    BY <1>1, <1>a DEF OnlyQueued, Nowhere
  <2>2. Lacks(Tail(w), m) /\ ~Has(Head(w), m)
    BY <1>3, <1>4, <2>1, LackingLists DEF w
  <2>3. ASSUME NEW p \in Servers
        PROVE  ~Has(srv'[p].items, m) /\ Lacks(srv'[p].writes, m) /\ srv'[p].sending # m
    <3>1. CASE p = s
      BY <1>5, <2>1, <2>2, <3>1 DEF Nowhere
    <3>2. CASE p # s
      BY <1>5, <2>1, <3>2 DEF Nowhere
    <3> QED
      BY <3>1, <3>2
  <2> QED
    BY <1>3, <2>1, <2>2, <2>3 DEF Nowhere
<1>13. LoadsAlone'
  <2> SUFFICES ASSUME Loads PROVE LoadsAlone'
    BY <1>7 DEF LoadsAlone
  <2>0. now \in Servers
    BY <1>4 DEF Loads
  <2>1. CASE s = now
    BY <1>1, <1>3, <1>5, <1>g, <2>0, <2>1 DEF LoadsAlone
  <2>2. CASE s # now
    BY <1>1, <1>3, <1>5, <2>0, <2>2 DEF LoadsAlone
  <2> QED
    BY <2>1, <2>2
<1>14. Orderly'
  <2> SUFFICES ASSUME "overlap" \notin mishaps PROVE Orderly'
    BY <1>3 DEF Orderly
  <2>1. s = now /\ srv[now].mode # "gone"
    BY <1>6
  <2>2. ASSUME NEW p \in Servers, p # now \/ srv'[p].mode = "gone"
        PROVE  srv'[p].sending = NoMsg /\ srv'[p].writes = <<>>
    <3>1. p # s
      BY <1>5, <2>1, <2>2
    <3> QED
      BY <1>1, <1>5, <2>2, <3>1 DEF Orderly
  <2>3. Works => LastOf(disk', srv'[now].writes) = srv'[now].items
    BY <1>1, <1>3, <1>5, <1>a, <1>b, <2>1 DEF Orderly
  <2> QED
    BY <1>3, <1>7, <2>2, <2>3 DEF Orderly
<1>h. "early" \notin mishaps /\ "overlap" \notin mishaps => s = now /\ Works
  BY <1>6, <1>8, <1>g
<1>15. WaitsSomewhere'
  <2> SUFFICES ASSUME mishaps \cap {"crash", "overlap", "early"} = {}, NEW m \in Msgs, stage[m] = "queued"
               PROVE  IF Works THEN Has(srv'[now].items, m) ELSE Has(disk', m)
    BY <1>3, <1>7 DEF WaitsSomewhere
  <2>1. Works /\ now \in Servers
    BY <1>h
  <2> QED
    BY <1>1, <1>5, <2>1 DEF WaitsSomewhere
<1>16. HubIsTold'
  <2>1. mishaps = {} => Works /\ srv'[now].items = srv[now].items
    BY <1>5, <1>h
  <2> QED
    BY <1>1, <1>3, <1>7, <2>1 DEF HubIsTold
<1>17. QueuesWait'
  <2>1. ASSUME Works
        PROVE  \A m \in Msgs : Has(srv'[now].items, m) =>
                 /\ Waits(m) \/ (m = srv'[now].sending /\ srv'[now].phase = "ran")
                 /\ \A p \in Servers : p # now /\ srv'[p].sending = m => m \in excused
    <3>1. now \in Servers
      BY <1>4, <2>1 DEF Works
    <3> QED
      BY <1>1, <1>5, <2>1, <3>1 DEF QueuesWait
  <2>2. ASSUME ~Works, mishaps \cap {"crash", "overlap"} = {}, NEW m \in Msgs,
               Has(disk', m) \/ (Loads /\ Has(srv'[now].items, m))
        PROVE  Waits(m)
    <3>1. s = now /\ Loads /\ now \in Servers
      BY <1>6, <1>8, <2>2
    <3>2. Has(srv[now].items, m)
      BY <1>3, <1>5, <1>g, <2>2, <3>1
    <3> QED
      BY <1>1, <2>2, <3>1, <3>2 DEF QueuesWait
  <2> QED
    BY <1>3, <1>7, <2>1, <2>2 DEF QueuesWait, Waits
<1>18. FilesGrow'
  <2> SUFFICES ASSUME mishaps \cap {"overlap", "early"} = {}, now > 0, NEW m \in Msgs, stage[m] = "queued"
               PROVE  Grows(disk', srv'[now].writes, m)
    BY <1>3 DEF FilesGrow
  <2>1. s = now
    BY <1>h
  <2>2. Grows(disk, w, m)
    BY <1>1, <1>a, <2>1 DEF FilesGrow
  <2>3. Grows(Head(w), Tail(w), m)
    BY <1>3, <1>4, <2>2, GrowingLists DEF w
  <2> QED
    BY <1>3, <1>5, <2>1, <2>3
<1> QED
  BY <1>9, <1>10, <1>11, <1>12, <1>13, <1>14, <1>15, <1>16, <1>17, <1>18 DEF RecoveryInv

LEMMA StopBeginsStep ==
  ASSUME RecoveryInv, StopBegins
  PROVE  RecoveryInv'
<1> DEFINE w == AppendNew(srv[now].writes, srv[now].items)
<1>1. /\ TypeOK /\ OneAtATime /\ SendsWaiting /\ OnlyQueued /\ LoadsAlone /\ Orderly
      /\ WaitsSomewhere /\ HubIsTold /\ QueuesWait /\ FilesGrow
  BY DEF RecoveryInv
<1>2. /\ now > 0 /\ srv[now].mode = "running"
      /\ now' = now /\ disk' = disk /\ link' = link /\ pending' = pending /\ wire' = wire /\ record' = record
      /\ listing' = listing /\ answer' = answer /\ links' = links /\ snapshot' = snapshot
      /\ stage' = stage /\ ran' = ran /\ excused' = excused /\ mishaps' = mishaps
  BY DEF StopBegins, hubVars, historyVars
<1>3. /\ srv \in [Servers -> Server] /\ now \in Servers /\ srv[now] \in Server /\ srv[now].items \in Snapshots
      /\ srv[now].writes \in Seq(Snapshots) /\ \A p \in Servers : p \in Nat
  BY <1>1, <1>2, Bounds, FieldTypes DEF TypeOK, Snapshots
<1>4. /\ srv' \in [Servers -> Server] /\ \A p \in Servers : p # now => srv'[p] = srv[p]
      /\ srv'[now].mode = "stopping" /\ srv'[now].writes = w /\ srv'[now].items = srv[now].items
      /\ srv'[now].sending = srv[now].sending /\ srv'[now].phase = srv[now].phase
  <2> DEFINE st == Persisted(srv[now])
             n == Len(st.writes)
             r == [st EXCEPT !.mode = "stopping", !.awaited = n]
  <2>1. srv' = [srv EXCEPT ![now] = r]
    BY DEF StopBegins
  <2>2. st \in Server /\ st = [srv[now] EXCEPT !.writes = w]
    BY <1>3, PersistedType
  <2> HIDE DEF st
  <2>3. st.writes = w /\ st.items = srv[now].items /\ st.sending = srv[now].sending /\ st.phase = srv[now].phase
    BY <1>3, <2>2 DEF Server
  <2>4. n \in Nat
    BY <2>2, FieldTypes, LenProperties
  <2> HIDE DEF n
  <2>5. r \in Server
    BY <2>2, <2>4, FieldTypes
  <2>6. /\ r.mode = "stopping" /\ r.writes = st.writes /\ r.items = st.items
        /\ r.sending = st.sending /\ r.phase = st.phase
    BY <2>2 DEF Server
  <2> HIDE DEF r
  <2> QED
    BY <1>3, <2>1, <2>3, <2>5, <2>6
<1>5. LastOf(disk, w) = srv[now].items /\ w \in Seq(Snapshots)
  <2>1. LastOf(disk, w) = srv[now].items
    BY <1>3, LastOfAppended
  <2>2. w \in Seq(Snapshots)
    BY <1>3, AppendNewProperties
  <2> QED
    BY <2>1, <2>2
<1> HIDE DEF w
<1>6. \A p \in Servers : /\ srv'[p].items = srv[p].items /\ srv'[p].sending = srv[p].sending
                         /\ srv'[p].phase = srv[p].phase
  BY <1>3, <1>4
<1>7. Works /\ Works' /\ ~Loads'
  BY <1>2, <1>3, <1>4 DEF Works, Loads
<1>8. TypeOK'
  BY <1>1, <1>2, <1>4 DEF TypeOK
<1>9. OneAtATime'
  BY <1>1, <1>2, <1>3, <1>4 DEF OneAtATime
<1>10. SendsWaiting'
  BY <1>1, <1>2, <1>6, SendsAsBefore
<1>11. OnlyQueued'
  <2> SUFFICES ASSUME NEW m \in Msgs, stage[m] = "new"
               PROVE  Nowhere(m)'
    BY <1>2 DEF OnlyQueued
  <2>1. Nowhere(m) /\ Lacks(srv[now].writes, m) /\ ~Has(srv[now].items, m)
    BY <1>1, <1>3 DEF OnlyQueued, Nowhere
  <2>2. Lacks(w, m)
    BY <1>3, <2>1, LackingLists DEF w
  <2>3. ASSUME NEW p \in Servers
        PROVE  ~Has(srv'[p].items, m) /\ Lacks(srv'[p].writes, m) /\ srv'[p].sending # m
    <3>1. CASE p = now
      BY <1>4, <1>6, <2>1, <2>2, <3>1 DEF Nowhere
    <3>2. CASE p # now
      BY <1>4, <2>1, <3>2 DEF Nowhere
    <3> QED
      BY <3>1, <3>2
  <2> QED
    BY <1>2, <2>1, <2>3 DEF Nowhere
<1>12. LoadsAlone'
  BY <1>7 DEF LoadsAlone
<1>13. Orderly'
  <2> SUFFICES ASSUME "overlap" \notin mishaps PROVE Orderly'
    BY <1>2 DEF Orderly
  <2>1. ASSUME NEW p \in Servers, p # now \/ srv'[p].mode = "gone"
        PROVE  srv'[p].sending = NoMsg /\ srv'[p].writes = <<>>
    <3>1. p # now
      BY <1>4, <2>1
    <3> QED
      BY <1>1, <1>4, <3>1 DEF Orderly
  <2> QED
    BY <1>2, <1>4, <1>5, <2>1 DEF Orderly
<1>14. WaitsSomewhere' /\ HubIsTold'
  BY <1>1, <1>2, <1>4, <1>7 DEF WaitsSomewhere, HubIsTold
<1>15. QueuesWait'
  <2>1. ASSUME NEW m \in Msgs, Has(srv'[now].items, m)
        PROVE  /\ Waits(m) \/ (m = srv'[now].sending /\ srv'[now].phase = "ran")
               /\ \A p \in Servers : p # now /\ srv'[p].sending = m => m \in excused
    BY <1>1, <1>3, <1>6, <1>7, <2>1 DEF QueuesWait
  <2> QED
    BY <1>2, <1>7, <2>1 DEF QueuesWait, Waits
<1>16. FilesGrow'
  <2> SUFFICES ASSUME mishaps \cap {"overlap", "early"} = {}, NEW m \in Msgs, stage[m] = "queued"
               PROVE  Grows(disk, w, m)
    BY <1>2, <1>4 DEF FilesGrow
  <2>1. Grows(disk, srv[now].writes, m)
    BY <1>1, <1>2 DEF FilesGrow
  <2>2. LastOf(disk, srv[now].writes) = srv[now].items
    BY <1>1, <1>7 DEF Orderly
  <2> QED
    BY <1>3, <2>1, <2>2, GrowingLists DEF w
<1> QED
  BY <1>8, <1>9, <1>10, <1>11, <1>12, <1>13, <1>14, <1>15, <1>16 DEF RecoveryInv

LEMMA StopEndsStep ==
  ASSUME RecoveryInv, StopEnds
  PROVE  RecoveryInv'
<1>1. /\ TypeOK /\ OneAtATime /\ SendsWaiting /\ OnlyQueued /\ LoadsAlone /\ Orderly
      /\ WaitsSomewhere /\ HubIsTold /\ QueuesWait /\ FilesGrow
  BY DEF RecoveryInv
<1>2. /\ now > 0 /\ srv[now].mode = "stopping"
      /\ now' = now /\ disk' = disk /\ link' = link /\ pending' = pending /\ wire' = wire /\ record' = record
      /\ listing' = listing /\ answer' = answer /\ links' = links /\ snapshot' = snapshot
      /\ stage' = stage /\ ran' = ran /\ excused' = excused
      /\ mishaps' = IF srv[now].sending # NoMsg \/ srv[now].writes # <<>>
                    THEN mishaps \cup {"overlap"} ELSE mishaps
  BY DEF StopEnds, hubVars
<1>3. /\ srv \in [Servers -> Server] /\ now \in Servers /\ srv[now] \in Server
      /\ srv[now].items \in Snapshots /\ \A p \in Servers : p \in Nat
  BY <1>1, <1>2, Bounds, FieldTypes DEF TypeOK, Snapshots
<1>4. /\ srv' \in [Servers -> Server] /\ \A p \in Servers : p # now => srv'[p] = srv[p]
      /\ srv'[now].mode = "gone" /\ srv'[now].writes = srv[now].writes
      /\ srv'[now].sending = srv[now].sending /\ srv'[now].phase = srv[now].phase
      /\ \A m \in Msgs : Has(srv'[now].items, m) => Has(srv[now].items, m)
  <2> DEFINE r == [srv[now] EXCEPT !.mode = "gone"]
  <2>1. srv' = [srv EXCEPT ![now] = Swept(r)]
    BY <1>3 DEF StopEnds
  <2>2. r \in Server
    BY <1>3, FieldTypes DEF Modes
  <2>3. /\ r.mode = "gone" /\ r.writes = srv[now].writes /\ r.items = srv[now].items
        /\ r.sending = srv[now].sending /\ r.phase = srv[now].phase
    BY <1>3 DEF Server
  <2> HIDE DEF r
  <2>4. Swept(r) \in Server
    BY <2>2, PersistedType
  <2>5. /\ Swept(r).mode = r.mode /\ Swept(r).writes = r.writes
        /\ Swept(r).sending = r.sending /\ Swept(r).phase = r.phase
        /\ Swept(r).items = r.items \/ Swept(r).items = <<>>
    BY <2>2 DEF Swept, Server
  <2>6. \A m \in Msgs : ~Has(<<>>, m)
    BY EmptySeq, EmptyHas
  <2> QED
    BY <1>3, <2>1, <2>3, <2>4, <2>5, <2>6
<1>5. \A p \in Servers : /\ srv'[p].writes = srv[p].writes /\ srv'[p].sending = srv[p].sending
                         /\ srv'[p].phase = srv[p].phase
                         /\ \A m \in Msgs : Has(srv'[p].items, m) => Has(srv[p].items, m)
  BY <1>3, <1>4
<1>6. Works /\ ~Works' /\ ~Loads'
  BY <1>2, <1>4 DEF Works, Loads
<1>7. ASSUME "overlap" \notin mishaps'
      PROVE  /\ mishaps' = mishaps /\ srv[now].sending = NoMsg /\ srv[now].writes = <<>>
             /\ disk = srv[now].items
  <2>1. mishaps' = mishaps /\ srv[now].sending = NoMsg /\ srv[now].writes = <<>>
    BY <1>2, <1>7
  <2>2. LastOf(disk, srv[now].writes) = srv[now].items
    BY <1>1, <1>6, <1>7, <2>1 DEF Orderly
  <2> QED
    BY <2>1, <2>2 DEF LastOf
<1>8. TypeOK'
  <2>1. mishaps' \subseteq Mishaps
    BY <1>1, <1>2 DEF TypeOK, Mishaps
  <2> QED
    BY <1>1, <1>2, <1>4, <2>1 DEF TypeOK
<1>9. OneAtATime'
  BY <1>1, <1>2, <1>3, <1>4 DEF OneAtATime
<1>10. SendsWaiting'
  BY <1>1, <1>2, <1>5, SendsAsBefore
<1>11. OnlyQueued'
  BY <1>1, <1>2, <1>5 DEF OnlyQueued, Nowhere
<1>12. LoadsAlone'
  BY <1>6 DEF LoadsAlone
<1>13. Orderly'
  <2> SUFFICES ASSUME "overlap" \notin mishaps' PROVE Orderly'
    BY DEF Orderly
  <2>1. ASSUME NEW p \in Servers
        PROVE  srv'[p].sending = NoMsg /\ srv'[p].writes = <<>>
    <3>1. CASE p = now
      BY <1>4, <1>7, <3>1
    <3>2. CASE p # now
      BY <1>1, <1>4, <1>7, <3>2 DEF Orderly
    <3> QED
      BY <3>1, <3>2
  <2> QED
    BY <1>6, <2>1 DEF Orderly
<1>14. WaitsSomewhere'
  <2> SUFFICES ASSUME mishaps' \cap {"crash", "overlap", "early"} = {}, NEW m \in Msgs, stage[m] = "queued"
               PROVE  Has(disk, m)
    BY <1>2, <1>6 DEF WaitsSomewhere
  <2>1. mishaps' = mishaps /\ disk = srv[now].items
    BY <1>7
  <2> QED
    BY <1>1, <1>6, <2>1 DEF WaitsSomewhere
<1>15. HubIsTold'
  <2>1. mishaps' = {} => mishaps = {} /\ disk = srv[now].items
    BY <1>7
  <2> QED
    BY <1>1, <1>2, <1>6, <2>1 DEF HubIsTold
<1>16. QueuesWait'
  <2> SUFFICES ASSUME mishaps' \cap {"crash", "overlap"} = {}, NEW m \in Msgs, Has(disk, m)
               PROVE  Waits(m)
    BY <1>2, <1>6 DEF QueuesWait, Waits
  <2>1. Has(srv[now].items, m) /\ srv[now].sending = NoMsg
    BY <1>7
  <2>2. NoMsg \notin Msgs
    BY ConstantsAssumption
  <2> QED
    BY <1>1, <1>6, <2>1, <2>2 DEF QueuesWait
<1>17. FilesGrow'
  <2> SUFFICES ASSUME mishaps' \cap {"overlap", "early"} = {}, NEW m \in Msgs
               PROVE  Grows(disk, srv'[now].writes, m)
    BY <1>2 DEF FilesGrow
  <2>1. srv'[now].writes = <<>>
    BY <1>4, <1>7
  <2>2. Grows(disk, <<>>, m)
    BY EmptySeq DEF Grows
  <2> QED
    BY <2>1, <2>2
<1> QED
  BY <1>8, <1>9, <1>10, <1>11, <1>12, <1>13, <1>14, <1>15, <1>16, <1>17 DEF RecoveryInv

LEMMA StartBeginsStep ==
  ASSUME RecoveryInv, StartBegins
  PROVE  RecoveryInv'
<1>1. /\ TypeOK /\ OneAtATime /\ SendsWaiting /\ OnlyQueued /\ LoadsAlone /\ Orderly
      /\ WaitsSomewhere /\ HubIsTold /\ QueuesWait /\ FilesGrow
  BY DEF RecoveryInv
<1>2. /\ ~Exists /\ now < MaxServers /\ now' = now + 1
      /\ srv' = [srv EXCEPT ![now + 1].mode = "loading"]
      /\ disk' = disk /\ link' = link /\ pending' = pending /\ wire' = wire /\ record' = record
      /\ listing' = listing /\ answer' = answer /\ links' = links /\ snapshot' = snapshot
      /\ stage' = stage /\ ran' = ran /\ excused' = excused /\ mishaps' = mishaps
  BY DEF StartBegins, hubVars, historyVars
<1>3. /\ srv \in [Servers -> Server] /\ now \in Nat /\ MaxServers \in Nat /\ Servers = 1..MaxServers
      /\ now + 1 \in Servers /\ (now > 0 => now \in Servers) /\ \A p \in Servers : p \in Nat
      /\ now + 1 > now /\ now + 1 \in 0..MaxServers
  BY <1>1, <1>2, Bounds DEF TypeOK
<1>4. srv[now + 1] = NoServer
  BY <1>1, <1>3 DEF OneAtATime
<1>5. /\ srv' \in [Servers -> Server] /\ \A p \in Servers : p # now + 1 => srv'[p] = srv[p]
      /\ srv'[now + 1].mode = "loading" /\ srv'[now + 1].writes = <<>> /\ srv'[now + 1].items = <<>>
      /\ srv'[now + 1].sending = NoMsg /\ srv'[now + 1].phase = "idle"
  <2> DEFINE r == [NoServer EXCEPT !.mode = "loading"]
  <2>1. r \in Server
    BY NoServerType, FieldTypes DEF Modes
  <2>2. r.mode = "loading" /\ r.writes = <<>> /\ r.items = <<>> /\ r.sending = NoMsg /\ r.phase = "idle"
    BY DEF NoServer
  <2>3. srv' = [srv EXCEPT ![now + 1] = r]
    BY <1>2, <1>3, <1>4
  <2> HIDE DEF r
  <2> QED
    BY <1>3, <2>1, <2>2, <2>3
<1>6. \A p \in Servers : /\ srv'[p].items = srv[p].items /\ srv'[p].sending = srv[p].sending
                         /\ srv'[p].phase = srv[p].phase /\ srv'[p].writes = srv[p].writes
  BY <1>4, <1>5 DEF NoServer
<1>7. ~Works /\ ~Loads /\ ~Works' /\ Loads'
  BY <1>2, <1>3, <1>5 DEF Works, Loads, Exists
<1>8. TypeOK'
  BY <1>1, <1>2, <1>3, <1>5 DEF TypeOK
<1>9. now > 0 => srv[now].mode = "gone"
  <2>1. now > 0 => srv[now].mode \in Modes /\ srv[now].mode # "none"
    BY <1>1, <1>3, FieldTypes DEF OneAtATime
  <2> QED
    BY <1>2, <2>1 DEF Exists, Modes
<1>10. OneAtATime'
  <2> SUFFICES ASSUME NEW p \in Servers
               PROVE  (p > now + 1 => srv'[p] = NoServer) /\ (p < now + 1 => srv'[p].mode = "gone")
                      /\ (p = now + 1 => srv'[p].mode # "none")
    BY <1>2 DEF OneAtATime
  <2>1. p > now + 1 => p > now /\ p # now + 1
    BY <1>3
  <2>2. p < now + 1 => p # now + 1 /\ (p < now \/ p = now)
    BY <1>3
  <2>3. p = now => now > 0
    BY <1>3
  <2> QED
    BY <1>1, <1>5, <1>9, <2>1, <2>2, <2>3 DEF OneAtATime
<1>11. SendsWaiting'
  BY <1>1, <1>2, <1>6, SendsAsBefore
<1>12. OnlyQueued'
  BY <1>1, <1>2, <1>6 DEF OnlyQueued, Nowhere
<1>13. LoadsAlone'
  BY <1>2, <1>5 DEF LoadsAlone
<1>14. Orderly'
  <2> SUFFICES ASSUME "overlap" \notin mishaps PROVE Orderly'
    BY <1>2 DEF Orderly
  <2>1. ASSUME NEW p \in Servers, p # now + 1
        PROVE  srv'[p].sending = NoMsg /\ srv'[p].writes = <<>>
    <3>1. p # now \/ srv[p].mode = "gone"
      BY <1>3, <1>9
    <3> QED
      BY <1>1, <1>5, <2>1, <3>1 DEF Orderly
  <2> QED
    BY <1>2, <1>5, <1>7, <2>1 DEF Orderly
<1>15. WaitsSomewhere' /\ HubIsTold'
  BY <1>1, <1>2, <1>7 DEF WaitsSomewhere, HubIsTold
<1>16. QueuesWait'
  <2>1. \A m \in Msgs : ~Has(<<>>, m)
    BY EmptySeq, EmptyHas
  <2> QED
    BY <1>1, <1>2, <1>5, <1>7, <2>1 DEF QueuesWait, Waits
<1>17. FilesGrow'
  <2>1. \A m \in Msgs : Grows(disk, <<>>, m)
    BY EmptySeq DEF Grows
  <2> QED
    BY <1>2, <1>5, <2>1 DEF FilesGrow
<1> QED
  BY <1>8, <1>10, <1>11, <1>12, <1>13, <1>14, <1>15, <1>16, <1>17 DEF RecoveryInv

LEMMA CrashStep ==
  ASSUME RecoveryInv, Crash
  PROVE  RecoveryInv'
<1>1. TypeOK /\ OneAtATime /\ SendsWaiting /\ OnlyQueued
  BY DEF RecoveryInv
<1>2. /\ now > 0 /\ now' = now /\ disk' = disk /\ wire' = wire /\ record' = record /\ links' = links
      /\ stage' = stage /\ ran' = ran /\ excused' = excused
      /\ link' = FALSE /\ pending' = <<>> /\ listing' = FALSE /\ answer' = <<>> /\ snapshot' = <<>>
      /\ mishaps' = mishaps \cup {"crash"}
      /\ srv' = [s \in Servers |-> IF s <= now THEN [NoServer EXCEPT !.mode = "gone"] ELSE NoServer]
  BY DEF Crash
<1>3. /\ now \in Servers /\ now \in Nat /\ \A p \in Servers : p \in Nat
  BY <1>1, <1>2, Bounds
<1>4. srv' \in [Servers -> Server]
  BY <1>2, NoServerType
<1>5. \A p \in Servers : /\ srv'[p].items = <<>> /\ srv'[p].sending = NoMsg /\ srv'[p].phase = "idle"
                         /\ srv'[p].writes = <<>>
                         /\ p <= now => srv'[p].mode = "gone"
                         /\ ~(p <= now) => srv'[p] = NoServer
  BY <1>2 DEF NoServer
<1>6. ~Works' /\ ~Loads' /\ "crash" \in mishaps' /\ mishaps' # {}
  BY <1>2, <1>3, <1>5 DEF Works, Loads
<1>e. <<>> \in Seq(Snapshots) /\ Len(<<>>) <= 1 /\ <<>> \in Snapshots /\ \A m \in Msgs : ~Has(<<>>, m) /\ Lacks(<<>>, m)
  <2>1. <<>> \in Seq(Snapshots) /\ Len(<<>>) <= 1 /\ <<>> \in Snapshots
    BY EmptySeq DEF Snapshots
  <2>2. \A m \in Msgs : ~Has(<<>>, m)
    BY EmptySeq, EmptyHas
  <2>3. \A m \in Msgs : Lacks(<<>>, m)
    BY EmptySeq DEF Lacks
  <2> QED
    BY Zenon, <2>1, <2>2, <2>3
<1>7. TypeOK'
  <2>1. mishaps' \subseteq Mishaps
    BY <1>1, <1>2 DEF TypeOK, Mishaps
  <2> QED
    BY <1>1, <1>2, <1>4, <1>e, <2>1 DEF TypeOK
<1>8. OneAtATime'
  BY <1>2, <1>3, <1>5 DEF OneAtATime
<1>9. SendsWaiting'
  <2>1. NoMsg \notin Msgs
    BY ConstantsAssumption
  <2> QED
    BY <1>5, <2>1 DEF SendsWaiting
<1>10. OnlyQueued'
  <2>1. NoMsg \notin Msgs
    BY ConstantsAssumption
  <2> QED
    BY <1>1, <1>2, <1>5, <1>e, <2>1 DEF OnlyQueued, Nowhere
<1>11. LoadsAlone' /\ Orderly' /\ WaitsSomewhere' /\ HubIsTold' /\ QueuesWait'
  BY <1>2, <1>5, <1>6 DEF LoadsAlone, Orderly, WaitsSomewhere, HubIsTold, QueuesWait
<1>12. FilesGrow'
  <2>1. \A m \in Msgs : Grows(disk, <<>>, m)
    BY EmptySeq DEF Grows
  <2> QED
    BY <1>2, <1>3, <1>5, <2>1 DEF FilesGrow
<1> QED
  BY <1>7, <1>8, <1>9, <1>10, <1>11, <1>12 DEF RecoveryInv

\* What is told to the hub is the last thing it will hear.
LEMMA ToldLast ==
  ASSUME TypeOK, HubIsTold, NEW snap \in Snapshots, Tell(snap)
  PROVE  /\ wire' \in Seq(Snapshots) /\ pending' \in Seq(Snapshots) /\ Len(pending') <= 1
         /\ link => pending' = <<>>
         /\ LastOf(LastOf(record, wire'), pending') = snap
         /\ \A m \in Msgs : Lacks(wire, m) /\ Lacks(pending, m) /\ ~Has(snap, m) => Lacks(wire', m) /\ Lacks(pending', m)
<1>1. wire \in Seq(Snapshots)
  BY DEF TypeOK
<1>2. /\ wire' \in Seq(Snapshots) /\ pending' \in Seq(Snapshots) /\ Len(pending') <= 1
      /\ link => wire' = AppendNew(wire, snap) /\ pending' = pending
      /\ ~link => pending' = <<snap>> /\ wire' = wire
  BY TellFields
<1>3. link => pending' = <<>>
  BY <1>2 DEF HubIsTold
<1>4. LastOf(LastOf(record, wire'), pending') = snap
  <2>1. CASE link
    <3>1. LastOf(record, wire') = snap
      BY <1>1, <1>2, <2>1, LastOfAppended
    <3> QED
      BY <1>3, <2>1, <3>1 DEF LastOf
  <2>2. CASE ~link
    <3>1. LastOf(LastOf(record, wire'), <<snap>>) = snap
      BY LastOfOne
    <3> QED
      BY <1>2, <2>2, <3>1
  <2> QED
    BY <2>1, <2>2
<1>5. ASSUME NEW m \in Msgs, Lacks(wire, m), Lacks(pending, m), ~Has(snap, m)
      PROVE  Lacks(wire', m) /\ Lacks(pending', m)
  <2>1. Lacks(AppendNew(wire, snap), m) /\ Lacks(<<snap>>, m)
    BY <1>1, <1>5, LackingLists
  <2> QED
    BY <1>2, <1>5, <2>1
<1> QED
  BY <1>2, <1>3, <1>4, <1>5

LEMMA RestoredIs ==
  ASSUME NEW st \in Server, NEW snap \in Snapshots
  PROVE  /\ Restored(st, snap) \in Server
         /\ Restored(st, snap).mode = st.mode /\ Restored(st, snap).writes = st.writes
         /\ Restored(st, snap).sending = st.sending /\ Restored(st, snap).phase = st.phase
         /\ Restored(st, snap) # st => st.items = <<>> /\ snap # <<>> /\ Restored(st, snap).items = snap
         /\ Restored(st, snap).items = st.items \/ (st.items = <<>> /\ Restored(st, snap).items = snap)
<1> DEFINE r == [st EXCEPT !.items = snap, !.blocked = FALSE]
<1>1. r \in Server
  BY FieldTypes DEF Snapshots
<1>2. r.mode = st.mode /\ r.writes = st.writes /\ r.sending = st.sending /\ r.phase = st.phase /\ r.items = snap
  BY DEF Server
<1> HIDE DEF r
<1>3. Restored(st, snap) = IF st.items = <<>> /\ snap # <<>> THEN r ELSE st
  BY DEF Restored, r
<1> QED
  BY <1>1, <1>2, <1>3

LEMMA StartEndsStep ==
  ASSUME RecoveryInv, StartEnds
  PROVE  RecoveryInv'
<1> DEFINE items == Joined(srv[now].items, disk)
           loaded == [srv[now] EXCEPT !.mode = "running", !.items = items]
           st == Restored(loaded, snapshot)
<1>1. /\ TypeOK /\ OneAtATime /\ SendsWaiting /\ OnlyQueued /\ LoadsAlone /\ Orderly
      /\ WaitsSomewhere /\ HubIsTold /\ QueuesWait /\ FilesGrow
  BY DEF RecoveryInv
<1>2. /\ now > 0 /\ srv[now].mode = "loading"
      /\ IF st.items = <<>>
         THEN srv' = [srv EXCEPT ![now] = st] /\ wire' = wire /\ pending' = pending
         ELSE Broadcast(now, st)
      /\ excused' = IF st # loaded \/ mishaps \cap {"crash", "overlap"} # {}
                    THEN excused \cup Stale(st.items) ELSE excused
      /\ now' = now /\ disk' = disk /\ link' = link /\ record' = record
      /\ listing' = listing /\ answer' = answer /\ links' = links /\ snapshot' = snapshot
      /\ stage' = stage /\ ran' = ran /\ mishaps' = mishaps
  BY DEF StartEnds
<1>3. /\ srv \in [Servers -> Server] /\ now \in Servers /\ srv[now] \in Server
      /\ srv[now].items \in Seq(Msgs) /\ disk \in Seq(Msgs) /\ snapshot \in Snapshots
      /\ srv[now].writes \in Seq(Snapshots) /\ \A p \in Servers : p \in Nat
  BY <1>1, <1>2, Bounds, FieldTypes DEF TypeOK, Snapshots
<1>4. items \in Seq(Msgs) /\ \A x \in Msgs : Has(items, x) <=> Has(srv[now].items, x) \/ Has(disk, x)
  BY <1>3, JoinedProperties
<1> HIDE DEF items
<1>5. /\ loaded \in Server /\ loaded.mode = "running" /\ loaded.items = items
      /\ loaded.writes = srv[now].writes /\ loaded.sending = srv[now].sending /\ loaded.phase = srv[now].phase
  <2>1. loaded \in Server
    BY <1>3, <1>4, FieldTypes DEF Modes
  <2> QED
    BY <1>3, <2>1 DEF Server
<1> HIDE DEF loaded
<1>6. /\ st \in Server /\ st.mode = "running" /\ st.writes = srv[now].writes
      /\ st.sending = srv[now].sending /\ st.phase = srv[now].phase
      /\ st.items = items \/ (items = <<>> /\ st.items = snapshot)
  BY <1>3, <1>5, RestoredIs
<1> HIDE DEF st
<1>e. \A m \in Msgs : ~Has(<<>>, m)
  BY EmptySeq, EmptyHas
<1>7. \A m \in Msgs : Has(srv[now].items, m) \/ Has(disk, m) => Has(st.items, m)
  BY <1>4, <1>6, <1>e
<1>8. \A m \in Msgs : stage[m] = "new" => ~Has(st.items, m)
  BY <1>1, <1>3, <1>4, <1>6 DEF OnlyQueued, Nowhere
<1>9. st.items = <<>> => disk = <<>> /\ srv[now].writes = <<>>
  <2> SUFFICES ASSUME st.items = <<>> PROVE disk = <<>> /\ srv[now].writes = <<>>
    OBVIOUS
  <2>1. \A m \in Msgs : ~Has(srv[now].items, m) /\ ~Has(disk, m)
    BY <1>7, <1>e
  <2>2. srv[now].items = <<>> /\ disk = <<>>
    BY <1>3, <2>1, EmptyHas
  <2> QED
    BY <1>1, <1>2, <2>2 DEF LoadsAlone, Loads
<1>10. st.items \in Snapshots
  BY <1>6, FieldTypes DEF Snapshots
<1>11. /\ srv' \in [Servers -> Server] /\ \A p \in Servers : p # now => srv'[p] = srv[p]
       /\ srv'[now].mode = "running" /\ srv'[now].items = st.items
       /\ srv'[now].sending = srv[now].sending /\ srv'[now].phase = srv[now].phase
       /\ srv'[now].writes = IF st.items = <<>> THEN <<>> ELSE AppendNew(srv[now].writes, st.items)
  <2>1. CASE st.items = <<>>
    <3>1. srv' = [srv EXCEPT ![now] = st]
      BY <1>2, <2>1
    <3> QED
      BY <1>3, <1>6, <1>9, <2>1, <3>1
  <2>2. CASE st.items # <<>>
    <3>1. Broadcast(now, st)
      BY <1>2, <2>2
    <3> QED
      BY <1>1, <1>3, <1>6, <2>2, <3>1, BroadcastFields
  <2> QED
    BY <2>1, <2>2
<1>12. /\ wire' \in Seq(Snapshots) /\ pending' \in Seq(Snapshots) /\ Len(pending') <= 1
       /\ link => pending' = <<>>
       /\ mishaps = {} => LastOf(LastOf(record, wire'), pending') = st.items
       /\ \A m \in Msgs : Lacks(wire, m) /\ Lacks(pending, m) /\ ~Has(st.items, m)
                          => Lacks(wire', m) /\ Lacks(pending', m)
  <2>1. CASE st.items = <<>>
    <3>1. wire' = wire /\ pending' = pending /\ disk = st.items /\ ~Works
      BY <1>2, <1>9, <2>1 DEF Works
    <3> QED
      BY <1>1, <3>1 DEF TypeOK, HubIsTold
  <2>2. CASE st.items # <<>>
    <3>1. Tell(st.items)
      BY <1>2, <2>2 DEF Broadcast
    <3> QED
      BY <1>1, <1>10, <3>1, ToldLast
  <2> QED
    BY <2>1, <2>2
<1>13. LastOf(disk, srv'[now].writes) = st.items
  <2>1. CASE st.items = <<>>
    BY <1>9, <1>11, <2>1 DEF LastOf
  <2>2. CASE st.items # <<>>
    BY <1>3, <1>10, <1>11, <2>2, LastOfAppended
  <2> QED
    BY <2>1, <2>2
<1>14. Works' /\ ~Loads' /\ ~Works /\ Loads
  BY <1>2, <1>3, <1>11 DEF Works, Loads
<1>15. excused \subseteq excused' /\ excused' \subseteq Msgs
  BY <1>1, <1>2 DEF Stale, TypeOK
<1>16. TypeOK'
  BY <1>1, <1>2, <1>11, <1>12, <1>15 DEF TypeOK
<1>17. OneAtATime'
  BY <1>1, <1>2, <1>3, <1>11 DEF OneAtATime
<1>18. SendsWaiting'
  <2>1. \A p \in Servers : srv'[p].phase = srv[p].phase /\ srv'[p].sending = srv[p].sending
    BY <1>3, <1>11
  <2> QED
    BY <1>1, <1>2, <1>15, <2>1, SendsAsBefore
<1>19. OnlyQueued'
  <2> SUFFICES ASSUME NEW m \in Msgs, stage[m] = "new"
               PROVE  Nowhere(m)'
    BY <1>2 DEF OnlyQueued
  <2>1. Nowhere(m) /\ ~Has(st.items, m)
    BY <1>1, <1>8 DEF OnlyQueued
  <2>2. Lacks(srv'[now].writes, m)
    <3>1. Lacks(srv[now].writes, m)
      BY <1>3, <2>1 DEF Nowhere
    <3>2. Lacks(<<>>, m) /\ Lacks(AppendNew(srv[now].writes, st.items), m)
      BY <1>3, <1>10, <2>1, <3>1, LackingLists
    <3> QED
      BY <1>11, <3>2
  <2>3. ASSUME NEW p \in Servers
        PROVE  ~Has(srv'[p].items, m) /\ Lacks(srv'[p].writes, m) /\ srv'[p].sending # m
    <3>1. CASE p = now
      BY <1>11, <2>1, <2>2, <3>1 DEF Nowhere
    <3>2. CASE p # now
      BY <1>11, <2>1, <3>2 DEF Nowhere
    <3> QED
      BY <3>1, <3>2
  <2>4. Lacks(wire', m) /\ Lacks(pending', m)
    BY <1>12, <2>1 DEF Nowhere
  <2> QED
    BY <1>2, <2>1, <2>3, <2>4 DEF Nowhere
<1>20. LoadsAlone'
  BY <1>14 DEF LoadsAlone
<1>21. Orderly'
  <2> SUFFICES ASSUME "overlap" \notin mishaps PROVE Orderly'
    BY <1>2 DEF Orderly
  <2>1. ASSUME NEW p \in Servers, p # now \/ srv'[p].mode = "gone"
        PROVE  srv'[p].sending = NoMsg /\ srv'[p].writes = <<>>
    <3>1. p # now
      BY <1>11, <2>1
    <3> QED
      BY <1>1, <1>11, <3>1 DEF Orderly
  <2> QED
    BY <1>2, <1>11, <1>13, <2>1 DEF Orderly
<1>22. WaitsSomewhere' /\ HubIsTold'
  BY <1>1, <1>2, <1>7, <1>11, <1>12, <1>14 DEF WaitsSomewhere, HubIsTold
<1>23. QueuesWait'
  <2> SUFFICES ASSUME NEW m \in Msgs, Has(st.items, m)
               PROVE  /\ Waits(m) \/ m \in excused'
                      /\ \A p \in Servers : p # now /\ srv[p].sending = m => m \in excused'
    BY <1>2, <1>11, <1>14 DEF QueuesWait, Waits
  <2>1. CASE st # loaded \/ mishaps \cap {"crash", "overlap"} # {}
    <3>1. excused' = excused \cup Stale(st.items)
      BY <1>2, <2>1
    <3> QED
      BY <3>1 DEF Stale, Waits
  <2>2. CASE ~(st # loaded \/ mishaps \cap {"crash", "overlap"} # {})
    <3>1. Has(srv[now].items, m) \/ Has(disk, m)
      BY <1>4, <1>5, <2>2
    <3>2. Waits(m)
      BY <1>1, <1>14, <2>2, <3>1 DEF QueuesWait
    <3>3. \A p \in Servers : p # now => srv[p].sending = NoMsg
      BY <1>1, <2>2 DEF Orderly
    <3> QED
      BY <3>2, <3>3, ConstantsAssumption
  <2> QED
    BY <2>1, <2>2
<1>24. FilesGrow'
  <2> SUFFICES ASSUME mishaps \cap {"overlap", "early"} = {}, NEW m \in Msgs
               PROVE  Grows(disk, srv'[now].writes, m)
    BY <1>2 DEF FilesGrow
  <2>1. srv[now].writes = <<>>
    BY <1>1, <1>14 DEF LoadsAlone
  <2>2. Grows(disk, <<>>, m) /\ LastOf(disk, <<>>) = disk /\ <<>> \in Seq(Snapshots)
    BY EmptySeq DEF Grows, LastOf
  <2>3. Grows(disk, AppendNew(<<>>, st.items), m)
    BY <1>7, <1>10, <2>2, GrowingLists
  <2> QED
    BY <1>11, <2>1, <2>2, <2>3
<1> QED
  BY <1>16, <1>17, <1>18, <1>19, <1>20, <1>21, <1>22, <1>23, <1>24 DEF RecoveryInv

LEMMA SnapshotArrivesStep ==
  ASSUME RecoveryInv, SnapshotArrives
  PROVE  RecoveryInv'
<1> DEFINE snap == Head(answer)
           st == Restored(srv[now], snap)
<1>1. /\ TypeOK /\ OneAtATime /\ SendsWaiting /\ OnlyQueued /\ LoadsAlone /\ Orderly
      /\ WaitsSomewhere /\ HubIsTold /\ QueuesWait /\ FilesGrow
  BY DEF RecoveryInv
<1>2. /\ answer # <<>> /\ answer' = <<>> /\ snapshot' = snap
      /\ IF Exists /\ st # srv[now]
         THEN /\ Broadcast(now, st)
              /\ excused' = excused \cup Stale(st.items)
              /\ mishaps' = IF st.mode = "loading" THEN mishaps \cup {"early"} ELSE mishaps
         ELSE srv' = srv /\ wire' = wire /\ pending' = pending /\ excused' = excused /\ mishaps' = mishaps
      /\ now' = now /\ disk' = disk /\ link' = link /\ record' = record /\ listing' = listing /\ links' = links
      /\ stage' = stage /\ ran' = ran
  BY DEF SnapshotArrives
<1>3. /\ answer \in Seq(Snapshots) /\ snap \in Snapshots
      /\ \A m \in Msgs : stage[m] = "new" => ~Has(snap, m)
  <2>1. answer \in Seq(Snapshots)
    BY <1>1 DEF TypeOK
  <2>2. snap \in Snapshots
    BY <1>2, <2>1, HeadAndTail
  <2>3. ASSUME NEW m \in Msgs, stage[m] = "new" PROVE ~Has(snap, m)
    <3>1. Lacks(answer, m)
      BY <1>1, <2>3 DEF OnlyQueued, Nowhere
    <3> QED
      BY <1>2, <2>1, <3>1, LackingLists
  <2> QED
    BY <2>1, <2>2, <2>3
<1> HIDE DEF snap
<1>e. /\ <<>> \in Seq(Snapshots) /\ Len(<<>>) <= 1
      /\ \A m \in Msgs : Lacks(<<>>, m)
  <2>1. <<>> \in Seq(Snapshots) /\ Len(<<>>) <= 1
    BY EmptySeq
  <2>2. \A m \in Msgs : Lacks(<<>>, m)
    BY EmptySeq DEF Lacks
  <2> QED
    BY Zenon, <2>1, <2>2
<1>4. CASE ~(Exists /\ st # srv[now])
  <2> HIDE DEF st
  <2>1. srv' = srv /\ wire' = wire /\ pending' = pending /\ excused' = excused /\ mishaps' = mishaps
    BY <1>2, <1>4
  <2>2. OneAtATime' /\ SendsWaiting' /\ LoadsAlone' /\ Orderly' /\ WaitsSomewhere' /\ QueuesWait' /\ FilesGrow'
    BY <1>2, <2>1, ServersUntouched
  <2>3. TypeOK'
    BY <1>1, <1>2, <1>3, <1>e, <2>1 DEF TypeOK
  <2>4. HubIsTold'
    BY <1>1, <1>2, <2>1 DEF HubIsTold, Works
  <2>5. OnlyQueued'
    BY <1>1, <1>2, <1>3, <1>e, <2>1 DEF OnlyQueued, Nowhere
  <2> QED
    BY <2>2, <2>3, <2>4, <2>5 DEF RecoveryInv
<1>5. CASE Exists /\ st # srv[now]
  <2>1. /\ now \in Servers /\ srv[now] \in Server /\ srv[now].writes \in Seq(Snapshots)
        /\ \A p \in Servers : p \in Nat
        /\ srv[now].mode \in {"loading", "running", "stopping"}
    BY <1>1, <1>5, Bounds, FieldTypes DEF Exists
  <2>2. /\ st \in Server /\ st.mode = srv[now].mode /\ st.writes = srv[now].writes
        /\ st.sending = srv[now].sending /\ st.phase = srv[now].phase
        /\ srv[now].items = <<>> /\ snap # <<>> /\ st.items = snap
    BY <1>3, <1>5, <2>1, RestoredIs
  <2>3. Broadcast(now, st) /\ Tell(snap) /\ excused' = excused \cup Stale(snap)
    <3>1. Broadcast(now, st) /\ excused' = excused \cup Stale(st.items)
      BY <1>2, <1>5
    <3> QED
      BY <2>2, <3>1 DEF Broadcast
  <2>4. mishaps' = IF srv[now].mode = "loading" THEN mishaps \cup {"early"} ELSE mishaps
    BY <1>2, <1>5, <2>2
  <2> HIDE DEF st
  <2>5. /\ srv' \in [Servers -> Server] /\ \A p \in Servers : p # now => srv'[p] = srv[p]
        /\ srv'[now].mode = srv[now].mode /\ srv'[now].items = snap
        /\ srv'[now].sending = srv[now].sending /\ srv'[now].phase = srv[now].phase
        /\ srv'[now].writes = AppendNew(srv[now].writes, snap)
    BY <1>1, <2>1, <2>2, <2>3, BroadcastFields
  <2>6. /\ wire' \in Seq(Snapshots) /\ pending' \in Seq(Snapshots) /\ Len(pending') <= 1
        /\ link => pending' = <<>>
        /\ LastOf(LastOf(record, wire'), pending') = snap
        /\ \A m \in Msgs : Lacks(wire, m) /\ Lacks(pending, m) /\ ~Has(snap, m)
                           => Lacks(wire', m) /\ Lacks(pending', m)
    BY <1>1, <1>3, <2>3, ToldLast
  <2>7. (Works' <=> Works) /\ (Loads' <=> Loads) /\ (Loads \/ Works)
    BY <1>2, <1>5, <2>1, <2>5 DEF Works, Loads, Exists
  <2>8. /\ Loads => mishaps' = mishaps \cup {"early"}
        /\ Works => mishaps' = mishaps
        /\ mishaps \subseteq mishaps' /\ mishaps' \subseteq mishaps \cup {"early"}
    BY <2>4 DEF Loads, Works
  <2>e. \A m \in Msgs : ~Has(<<>>, m)
    BY EmptySeq, EmptyHas
  <2>9. TypeOK'
    <3>1. mishaps' \subseteq Mishaps
      BY <1>1, <2>8 DEF TypeOK, Mishaps
    <3>2. excused' \subseteq Msgs
      BY <1>1, <2>3 DEF TypeOK, Stale
    <3> QED
      BY <1>1, <1>2, <1>3, <1>e, <2>5, <2>6, <3>1, <3>2 DEF TypeOK
  <2>10. OneAtATime'
    BY <1>1, <1>2, <2>1, <2>5 DEF OneAtATime
  <2>11. SendsWaiting'
    <3>1. \A p \in Servers : srv'[p].phase = srv[p].phase /\ srv'[p].sending = srv[p].sending
      BY <2>1, <2>5
    <3>2. excused \subseteq excused'
      BY <2>3
    <3> QED
      BY <1>1, <1>2, <3>1, <3>2, SendsAsBefore
  <2>12. OnlyQueued'
    <3> SUFFICES ASSUME NEW m \in Msgs, stage[m] = "new"
                 PROVE  Nowhere(m)'
      BY <1>2 DEF OnlyQueued
    <3>1. Nowhere(m) /\ ~Has(snap, m)
      BY <1>1, <1>3 DEF OnlyQueued
    <3>2. Lacks(srv'[now].writes, m)
      <4>1. Lacks(srv[now].writes, m)
        BY <2>1, <3>1 DEF Nowhere
      <4>2. Lacks(AppendNew(srv[now].writes, snap), m)
        BY <1>3, <2>1, <3>1, <4>1, LackingLists
      <4> QED
        BY <2>5, <4>2
    <3>3. ASSUME NEW p \in Servers
          PROVE  ~Has(srv'[p].items, m) /\ Lacks(srv'[p].writes, m) /\ srv'[p].sending # m
      <4>1. CASE p = now
        BY <2>5, <3>1, <3>2, <4>1 DEF Nowhere
      <4>2. CASE p # now
        BY <2>5, <3>1, <4>2 DEF Nowhere
      <4> QED
        BY <4>1, <4>2
    <3>4. Lacks(wire', m) /\ Lacks(pending', m)
      BY <2>6, <3>1 DEF Nowhere
    <3> QED
      BY <1>2, <1>e, <3>1, <3>3, <3>4 DEF Nowhere
  <2>13. LoadsAlone'
    <3> SUFFICES ASSUME Loads PROVE LoadsAlone'
      BY <2>7 DEF LoadsAlone
    <3>1. srv[now].sending = NoMsg /\ srv[now].writes = <<>>
      BY <1>1, <2>2 DEF LoadsAlone
    <3>2. AppendNew(<<>>, snap) = <<snap>>
      BY DEF AppendNew
    <3> QED
      BY <1>2, <2>2, <2>5, <2>8, <3>1, <3>2 DEF LoadsAlone
  <2>14. Orderly'
    <3> SUFFICES ASSUME "overlap" \notin mishaps PROVE Orderly'
      BY <2>8 DEF Orderly
    <3>1. ASSUME NEW p \in Servers, p # now \/ srv'[p].mode = "gone"
          PROVE  srv'[p].sending = NoMsg /\ srv'[p].writes = <<>>
      <4>1. p # now
        BY <2>1, <2>5, <3>1
      <4> QED
        BY <1>1, <2>5, <4>1 DEF Orderly
    <3>2. LastOf(disk, srv'[now].writes) = snap
      BY <1>3, <2>1, <2>5, LastOfAppended
    <3> QED
      BY <1>2, <2>5, <3>1, <3>2 DEF Orderly
  <2>15. WaitsSomewhere'
    <3> SUFFICES ASSUME mishaps' \cap {"crash", "overlap", "early"} = {}, NEW m \in Msgs, stage[m] = "queued"
                 PROVE  FALSE
      BY <1>2 DEF WaitsSomewhere
    <3>1. Works /\ mishaps' = mishaps
      BY <2>7, <2>8
    <3> QED
      BY <1>1, <2>2, <2>e, <3>1 DEF WaitsSomewhere
  <2>16. HubIsTold'
    <3>1. mishaps' = {} => Works
      BY <2>7, <2>8
    <3> QED
      BY <1>2, <2>5, <2>6, <2>7, <3>1 DEF HubIsTold
  <2>17. QueuesWait'
    <3>1. ASSUME NEW m \in Msgs, Has(snap, m)
          PROVE  /\ Waits(m) \/ m \in excused'
                 /\ \A p \in Servers : p # now /\ srv[p].sending = m => m \in excused'
      BY <2>3, <3>1 DEF Stale, Waits
    <3>2. ASSUME ~Works, mishaps' \cap {"crash", "overlap"} = {}, NEW m \in Msgs, Has(disk, m)
          PROVE  Waits(m)
      <4>1. mishaps \cap {"crash", "overlap"} = {}
        BY <2>8, <3>2
      <4> QED
        BY <1>1, <3>2, <4>1 DEF QueuesWait
    <3>3. excused \subseteq excused'
      BY <2>3
    <3> QED
      BY <1>2, <2>5, <2>7, <3>1, <3>2, <3>3 DEF QueuesWait, Waits
  <2>18. FilesGrow'
    <3> SUFFICES ASSUME mishaps' \cap {"overlap", "early"} = {}, now > 0, NEW m \in Msgs, stage[m] = "queued"
                 PROVE  Grows(disk, srv'[now].writes, m)
      BY <1>2 DEF FilesGrow
    <3>1. Works /\ mishaps' = mishaps
      BY <2>7, <2>8
    <3>2. Grows(disk, srv[now].writes, m) /\ LastOf(disk, srv[now].writes) = <<>>
      BY <1>1, <2>2, <3>1 DEF FilesGrow, Orderly
    <3>3. Grows(disk, AppendNew(srv[now].writes, snap), m)
      BY <1>3, <2>1, <2>e, <3>2, GrowingLists
    <3> QED
      BY <2>5, <3>3
  <2> QED
    BY <2>9, <2>10, <2>11, <2>12, <2>13, <2>14, <2>15, <2>16, <2>17, <2>18 DEF RecoveryInv
<1> QED
  BY <1>4, <1>5

-----------------------------------------------------------------------------
(* The theorems *)

LEMMA InitHolds == Init => RecoveryInv
<1> SUFFICES ASSUME Init PROVE RecoveryInv
  OBVIOUS
<1>1. /\ srv = [s \in Servers |-> NoServer] /\ now = 0 /\ disk = <<>> /\ link = FALSE /\ pending = <<>>
      /\ wire = <<>> /\ record = <<>> /\ listing = FALSE /\ answer = <<>> /\ links = 0 /\ snapshot = <<>>
      /\ stage = [m \in Msgs |-> "new"] /\ ran = [m \in Msgs |-> 0] /\ excused = {} /\ mishaps = {}
  BY DEF Init
<1>2. \A s \in Servers : srv[s] = NoServer /\ s \in Nat /\ s > 0
  BY <1>1, ConstantsAssumption DEF Servers
<1>3. <<>> \in Seq(Msgs) /\ <<>> \in Seq(Snapshots) /\ Len(<<>>) <= 1 /\ <<>> \in Snapshots
  BY EmptySeq DEF Snapshots
<1>4. (\A m \in Msgs : ~Has(<<>>, m)) /\ NoMsg \notin Msgs
  BY EmptySeq, EmptyHas, ConstantsAssumption
<1>5. \A m \in Msgs : Lacks(<<>>, m)
  BY EmptySeq DEF Lacks
<1>6. ~Works /\ ~Loads
  BY <1>1 DEF Works, Loads
<1>7. TypeOK
  <2>1. srv \in [Servers -> Server]
    BY <1>1, NoServerType
  <2>2. stage \in [Msgs -> Stages] /\ ran \in [Msgs -> Nat]
    BY <1>1 DEF Stages
  <2>3. now \in 0..MaxServers /\ links \in 0..MaxLinks
    BY <1>1, ConstantsAssumption
  <2> QED
    BY <1>1, <1>3, <2>1, <2>2, <2>3 DEF TypeOK
<1>8. OneAtATime
  BY <1>1, <1>2 DEF OneAtATime
<1>9. SendsWaiting
  BY <1>2, <1>4 DEF SendsWaiting, NoServer
<1>10. OnlyQueued
  BY <1>1, <1>2, <1>4, <1>5 DEF OnlyQueued, Nowhere, NoServer
<1>11. LoadsAlone
  BY <1>6 DEF LoadsAlone
<1>12. Orderly
  BY <1>2, <1>6 DEF Orderly, NoServer
<1>13. WaitsSomewhere
  BY <1>1 DEF WaitsSomewhere
<1>14. HubIsTold
  BY <1>1, <1>6 DEF HubIsTold, LastOf
<1>15. QueuesWait
  BY <1>1, <1>4, <1>6 DEF QueuesWait
<1>16. FilesGrow
  BY <1>1 DEF FilesGrow
<1> QED
  BY <1>7, <1>8, <1>9, <1>10, <1>11, <1>12, <1>13, <1>14, <1>15, <1>16 DEF RecoveryInv

LEMMA StepHolds == RecoveryInv /\ [Next]_vars => RecoveryInv'
<1> SUFFICES ASSUME RecoveryInv, [Next]_vars PROVE RecoveryInv'
  OBVIOUS
<1>1. CASE UNCHANGED vars
  BY <1>1, StutterStep
<1>2. ASSUME NEW s \in Servers, NEW m \in Msgs, QueueTurn(s, m) PROVE RecoveryInv'
  BY <1>2, QueueTurnStep
<1>3. ASSUME NEW s \in Servers, NEW m \in Msgs, RemoveQueuedTurn(s, m) PROVE RecoveryInv'
  BY <1>3, RemoveQueuedTurnStep
<1>4. ASSUME NEW s \in Servers, DrainStarts(s) PROVE RecoveryInv'
  BY <1>4, DrainStartsStep
<1>5. ASSUME NEW s \in Servers, Accept(s) PROVE RecoveryInv'
  BY <1>5, AcceptStep
<1>6. ASSUME NEW s \in Servers, DrainEnds(s) PROVE RecoveryInv'
  BY <1>6, DrainEndsStep
<1>7. ASSUME NEW s \in Servers, DrainFails(s) PROVE RecoveryInv'
  BY <1>7, DrainFailsStep
<1>8. ASSUME NEW s \in Servers, WriteDone(s) PROVE RecoveryInv'
  BY <1>8, WriteDoneStep
<1>9. CASE StopBegins
  BY <1>9, StopBeginsStep
<1>10. CASE StopEnds
  BY <1>10, StopEndsStep
<1>11. CASE StartBegins
  BY <1>11, StartBeginsStep
<1>12. CASE StartEnds
  BY <1>12, StartEndsStep
<1>13. CASE Crash
  BY <1>13, CrashStep
<1>14. CASE Connect
  BY <1>14, ConnectStep
<1>15. CASE LinkDrops
  BY <1>15, LinkDropsStep
<1>16. CASE PutApplied
  BY <1>16, PutAppliedStep
<1>17. CASE HubLists
  BY <1>17, HubListsStep
<1>18. CASE SnapshotArrives
  BY <1>18, SnapshotArrivesStep
<1> QED
  BY <1>1, <1>2, <1>3, <1>4, <1>5, <1>6, <1>7, <1>8, <1>9, <1>10, <1>11, <1>12, <1>13, <1>14,
     <1>15, <1>16, <1>17, <1>18 DEF Next

LEMMA AlwaysRecoveryInv == Spec => []RecoveryInv
<1>1. Init => RecoveryInv
  BY InitHolds
<1>2. RecoveryInv /\ [Next]_vars => RecoveryInv'
  BY StepHolds
<1> QED
  BY <1>1, <1>2, PTL DEF Spec

\* Every variable keeps its type: #turnQueues, #queuePersistChain,
\* #pendingState, relaySnapshot and the hub's device_records.
THEOREM RecoveryTyped == Spec => []TypeOK
<1>1. RecoveryInv => TypeOK
  BY DEF RecoveryInv
<1> QED
  BY <1>1, AlwaysRecoveryInv, PTL

\* Without crashes, stops in the middle of work and early snapshots, a waiting
\* message is in the queue of the server or in remote-turn-queues.json.
THEOREM WaitingKept == Spec => []WaitingIsKept
<1>1. RecoveryInv => WaitingIsKept
  <2> SUFFICES ASSUME RecoveryInv, mishaps \cap {"crash", "overlap", "early"} = {},
                      NEW m \in Msgs, stage[m] = "queued"
               PROVE  \/ Exists /\ Has(srv[now].items, m)
                      \/ (~Exists \/ srv[now].mode = "loading") /\ Has(disk, m)
    BY DEF WaitingIsKept
  <2>1. IF Works THEN Has(srv[now].items, m) ELSE Has(disk, m)
    BY DEF RecoveryInv, WaitsSomewhere
  <2>2. (Works => Exists) /\ (~Works => ~Exists \/ srv[now].mode = "loading")
    BY DEF Works, Exists
  <2> QED
    BY <2>1, <2>2
<1> QED
  BY <1>1, AlwaysRecoveryInv, PTL

\* Once what persistState sent has been put, the hub's record of the queue is
\* the queue of the running server, unless a mishap came between.
THEOREM HubKnows == Spec => []HubKnowsTheQueue
<1>1. RecoveryInv => HubKnowsTheQueue
  <2> SUFFICES ASSUME RecoveryInv, mishaps = {}, link, wire = <<>>, now > 0, srv[now].mode = "running"
               PROVE  record = srv[now].items
    BY DEF HubKnowsTheQueue
  <2>1. pending = <<>> /\ Works /\ LastOf(LastOf(record, wire), pending) = IF Works THEN srv[now].items ELSE disk
    BY DEF RecoveryInv, HubIsTold, Works
  <2> QED
    BY <2>1 DEF LastOf
<1> QED
  BY <1>1, AlwaysRecoveryInv, PTL

\* A message that has run or was removed runs only if a crash, a stop in the
\* middle of work or a snapshot of the hub brought it back: an orderly stop, the
\* file and a start that fails never make #drainQueue send it again.
THEOREM OnlyMishapsMakeItRunAgain == Spec => OnlyMishapsRepeat
<1> DEFINE Excused == \A m \in Msgs : ran'[m] > ran[m] => stage[m] = "queued" \/ m \in excused
<1>1. RecoveryInv /\ [Next]_vars => [Excused]_vars
  <2> SUFFICES ASSUME RecoveryInv, Next, NEW m \in Msgs, ran'[m] > ran[m]
               PROVE  stage[m] = "queued" \/ m \in excused
    OBVIOUS
  <2>1. ran[m] \in Nat /\ ran' # ran
    BY DEF RecoveryInv, TypeOK
  <2>2. PICK s \in Servers : Accept(s)
    BY <2>1 DEF Next, QueueTurn, RemoveQueuedTurn, DrainStarts, DrainEnds, DrainFails, WriteDone, StopBegins,
                StopEnds, StartBegins, StartEnds, Crash, Connect, LinkDrops, PutApplied, HubLists,
                SnapshotArrives, historyVars
  <2>3. srv[s].phase = "asked" /\ ran' = [ran EXCEPT ![srv[s].sending] = @ + 1]
    BY <2>2 DEF Accept
  <2>4. m = srv[s].sending
    BY <2>1, <2>3 DEF RecoveryInv, TypeOK
  <2> QED
    BY <2>3, <2>4 DEF RecoveryInv, SendsWaiting
<1> QED
  BY <1>1, AlwaysRecoveryInv, PTL DEF Spec, OnlyMishapsRepeat

\* A waiting message that the file has stays in it: what #queuePersistChain
\* writes after it, whatever a crash and loadQueuePersistence do between, has it.
THEOREM DurableMessagesStay == Spec => DurableStays
<1> DEFINE Stays == mishaps' \cap {"overlap", "early"} = {} =>
                      \A m \in Msgs : Has(disk, m) /\ stage[m] = "queued" => Has(disk', m)
<1>1. RecoveryInv /\ [Next]_vars => [Stays]_vars
  <2> SUFFICES ASSUME RecoveryInv, Next, mishaps' \cap {"overlap", "early"} = {},
                      NEW m \in Msgs, Has(disk, m), stage[m] = "queued", disk' # disk
               PROVE  Has(disk', m)
    OBVIOUS
  <2>1. PICK s \in Servers : WriteDone(s)
    BY DEF Next, QueueTurn, RemoveQueuedTurn, DrainStarts, Accept, DrainEnds, DrainFails, StopBegins,
           StopEnds, StartBegins, StartEnds, Crash, Connect, LinkDrops, PutApplied, HubLists,
           SnapshotArrives
  <2>2. mishaps' = mishaps /\ srv[s].writes # <<>> /\ disk' = Head(srv[s].writes)
    BY <2>1 DEF WriteDone, historyVars
  <2>3. s = now /\ now > 0
    <3>1. s = now
      BY <2>2, Places
    <3> QED
      BY <3>1, Bounds DEF RecoveryInv
  <2>4. srv[now].writes \in Seq(Snapshots) /\ Grows(disk, srv[now].writes, m)
    BY <2>2, <2>3, Bounds, FieldTypes DEF RecoveryInv, FilesGrow
  <2> QED
    BY <2>2, <2>3, <2>4, GrowingLists
<1> QED
  BY <1>1, AlwaysRecoveryInv, PTL DEF Spec, DurableStays

=====
