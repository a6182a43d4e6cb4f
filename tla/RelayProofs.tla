----------------------------- MODULE RelayProofs -----------------------------
(***************************************************************************)
(* Theorems about the hub.  Of its store, for any number of users, devices *)
(* and transactions: a revoked device is cut off, and the rules of the     *)
(* store hold whatever transactions overlap.  Of its links, for any number *)
(* of instances, connections, browsers and messages: what connections and  *)
(* their channels may hold, that instances do not put each other out of    *)
(* service, and that the hub shows what the instance is.                   *)
(***************************************************************************)
EXTENDS Relay, SequenceTheorems, FiniteSetTheorems, TLAPS

-----------------------------------------------------------------------------
(* The store of devices                                                    *)

Txns == [kind : {None, "create", "claim"}, d : Devices \cup {None}, u : Users \cup {None},
         step : {"begin", "replace", "device", "count", "insert", "commit"},
         secret : Secrets \cup {None}, code : 0..MaxRequests]
Creating(t) == txn[t].kind = "create"
Claiming(t) == txn[t].kind = "claim"

\* What kind of transaction is at which step, and on what.
Formed ==
  \A t \in Transactions :
    /\ Creating(t) \/ Claiming(t) => txn[t].d \in Devices
    /\ Claiming(t) => txn[t].u \in Users
    /\ txn[t].step = "replace" => Creating(t)
    /\ txn[t].step \in {"device", "count"} => Claiming(t)

\* A claim that is about to commit holds the row of its device.
Locked == \A t \in Transactions : Claiming(t) /\ txn[t].step = "commit" => rowDevice[txn[t].d] = t

\* Transactions that overlap have been noted.
Overlaps ==
  \A x, y \in Transactions :
    /\ Creating(x) /\ Claiming(y) /\ txn[x].d = txn[y].d => txn[x].d \in crossed
    /\ Claiming(x) /\ Claiming(y) /\ x # y /\ txn[x].u = txn[y].u => txn[x].u \in crowded

\* The secret of a pairing, and of one that is being created, is the device's.
Agrees ==
  /\ \A d \in Devices : Paired(d) /\ Known(d) /\ d \notin crossed => pairing[d].secret = device[d].secret
  /\ \A t \in Transactions :
       Creating(t) /\ txn[t].step \in {"replace", "insert", "commit"} /\ txn[t].d \notin crossed /\ Known(txn[t].d)
         => device[txn[t].d].secret = txn[t].secret

\* A claim that has been counted has room for its device, or has it already.
Room(t) ==
  \/ txn[t].step = "commit" /\ device[txn[t].d].owner = txn[t].u
  \/ Cardinality(Owned(txn[t].u)) < MaxDevices
Few ==
  /\ \A u \in Users : u \in crowded \/ Cardinality(Owned(u)) <= MaxDevices
  /\ \A t \in Transactions :
       Claiming(t) /\ txn[t].step \in {"insert", "commit"} /\ txn[t].u \notin crowded => Room(t)

\* Before the first migration there is nothing, and what it brings is not too much.
Begun ==
  /\ ~migrated => /\ \A d \in Devices : ~Known(d) /\ ~Paired(d)
                  /\ \A t \in Transactions : txn[t] = NoTxn
  /\ \A u \in Users : Cardinality({d \in Devices : legacy[d].owner = u}) <= MaxDevices

\* A device that is connected, or found by verifyDevice, is in the store, unless a
\* revocation is closing it or met it while it was being verified.
Entered == \A d \in Devices : Known(d) => d \in entered
Verified == \A d \in Devices : checked[d] # None => Known(d) \/ d \in overtaken

AccountsInv ==
  /\ AccountsTypeOK /\ Formed /\ Locked /\ Overlaps /\ Agrees /\ Few /\ Begun /\ Entered /\ Verified
  /\ RevokedIsCutOff

-----------------------------------------------------------------------------
(* Steps of a transaction that change nothing but itself and its locks *)

LEMMA TxnTypes == AccountsTypeOK => txn \in [Transactions -> Txns]
BY DEF AccountsTypeOK, Txns

LEMMA NoTxnTyped == NoTxn \in Txns /\ NoTxn.kind = None /\ NoTxn.step = "begin"
BY AccountsAssumption DEF NoTxn, Txns, AccountsAssumption, None

LEMMA OwnedFinite ==
  ASSUME NEW u
  PROVE  IsFiniteSet(Owned(u)) /\ Cardinality(Owned(u)) \in Nat
<1>1. IsFiniteSet(Owned(u))
  BY AccountsAssumption, FS_Subset DEF Owned, AccountsAssumption
<1> QED
  BY <1>1, FS_CardinalityType

\* What the transaction t may become.
Passes(t, r) ==
  /\ r \in Txns /\ r.kind = txn[t].kind /\ r.d = txn[t].d /\ r.u = txn[t].u
  /\ r.kind \in {"create", "claim"}
  /\ r.step = "replace" => r.kind = "create"
  /\ r.step \in {"device", "count"} => r.kind = "claim"
  /\ r.kind = "create" /\ r.step # "begin" =>
       /\ r.secret = txn[t].secret
       /\ txn[t].step = "begin" => ~Known(r.d) \/ device[r.d].secret = r.secret
  /\ r.kind = "claim" /\ r.step = "insert" => Cardinality(Owned(r.u)) < MaxDevices
  /\ r.kind = "claim" /\ r.step = "commit" =>
       /\ rowDevice'[r.d] = t
       /\ device[r.d].owner = r.u \/ txn[t].step = "insert"

Advances(t) ==
  /\ t \in Transactions /\ txn' \in [Transactions -> Txns]
  /\ txn'[t] = NoTxn \/ Passes(t, txn'[t])
  /\ \A x \in Transactions \ {t} : txn'[x] = txn[x]
  /\ rowDevice' \in [Devices -> Transactions \cup {None}] /\ rowPairing' \in [Devices -> Transactions \cup {None}]
  /\ \A d \in Devices, x \in Transactions \ {t} : rowDevice[d] = x => rowDevice'[d] = x
  /\ UNCHANGED <<device, pairing, entered, hubSide>>

LEMMA AdvancesKeep ==
  ASSUME AccountsInv, NEW t, Advances(t)
  PROVE  AccountsInv'
<1>t. t \in Transactions /\ txn \in [Transactions -> Txns] /\ AccountsTypeOK
  BY TxnTypes DEF AccountsInv, Advances
<1>n. NoTxn.kind = None /\ NoTxn.step = "begin" /\ None # "create" /\ None # "claim"
  BY NoTxnTyped DEF None
<1>u. UNCHANGED <<device, pairing, entered, connected, checked, closing, legacy, migrated, requests, overtaken,
                  crowded, crossed>>
  BY DEF Advances, hubSide
<1>x. \A x \in Transactions \ {t} : txn'[x] = txn[x]
  BY DEF Advances
<1>c. txn'[t] = NoTxn \/ Passes(t, txn'[t])
  BY DEF Advances
<1>o. \A u : Owned(u)' = Owned(u)
  BY <1>u DEF Owned
<1>1. AccountsTypeOK'
  BY <1>t, <1>u DEF Advances, AccountsTypeOK, Txns
<1>2. Formed'
  BY <1>c, <1>n, <1>t, <1>x DEF Formed, AccountsInv, Passes, Creating, Claiming
<1>3. Locked'
  <2> SUFFICES ASSUME NEW x \in Transactions, Claiming(x)', txn'[x].step = "commit"
               PROVE  rowDevice'[txn'[x].d] = x
    BY DEF Locked
  <2>1. CASE x = t
    BY <1>c, <1>n, <2>1 DEF Claiming, Passes
  <2>2. CASE x # t
    <3>1. txn'[x] = txn[x] /\ Claiming(x) /\ txn[x].step = "commit"
      BY <1>x, <2>2 DEF Claiming
    <3>2. rowDevice[txn[x].d] = x /\ txn[x].d \in Devices
      BY <3>1 DEF AccountsInv, Locked, Formed
    <3> QED
      BY <2>2, <3>1, <3>2 DEF Advances
  <2> QED
    BY <2>1, <2>2
<1>4. Overlaps'
  <2> SUFFICES ASSUME NEW x \in Transactions, NEW y \in Transactions
               PROVE  /\ (Creating(x) /\ Claiming(y) /\ txn[x].d = txn[y].d => txn[x].d \in crossed)'
                      /\ (Claiming(x) /\ Claiming(y) /\ x # y /\ txn[x].u = txn[y].u => txn[x].u \in crowded)'
    BY DEF Overlaps
  <2>1. \A z \in Transactions : \/ txn'[z].kind = None
                                \/ /\ txn'[z].kind = txn[z].kind
                                   /\ txn'[z].d = txn[z].d /\ txn'[z].u = txn[z].u
    BY <1>c, <1>n, <1>x DEF Passes
  <2>2. txn'[x].kind = None \/ (txn'[x].kind = txn[x].kind /\ txn'[x].d = txn[x].d /\ txn'[x].u = txn[x].u)
    BY <2>1
  <2>3. txn'[y].kind = None \/ (txn'[y].kind = txn[y].kind /\ txn'[y].d = txn[y].d /\ txn'[y].u = txn[y].u)
    BY <2>1
  <2> QED
    BY <1>n, <1>u, <2>2, <2>3 DEF Overlaps, AccountsInv, Creating, Claiming
<1>5. Agrees'
  <2>1. (\A d \in Devices : Paired(d) /\ Known(d) /\ d \notin crossed => pairing[d].secret = device[d].secret)'
    BY <1>u DEF Agrees, AccountsInv, Paired, Known
  <2>2. ASSUME NEW x \in Transactions, Creating(x)', txn'[x].step \in {"replace", "insert", "commit"},
               txn'[x].d \notin crossed', Known(txn'[x].d)
        PROVE  device'[txn'[x].d].secret = txn'[x].secret
    <3>1. CASE x = t /\ txn[t].step = "begin"
      BY <1>c, <1>n, <1>u, <2>2, <3>1 DEF Creating, Passes
    <3>2. CASE x = t /\ txn[t].step # "begin"
      <4>1. Passes(t, txn'[t]) /\ Creating(t) /\ txn[t].step \in {"replace", "insert", "commit"}
        BY <1>c, <1>n, <1>t, <2>2, <3>2 DEF Creating, Claiming, Passes, Txns, AccountsInv, Formed
      <4> QED
        BY <1>n, <1>u, <2>2, <3>2, <4>1 DEF Creating, Passes, Agrees, AccountsInv
    <3>3. CASE x # t
      BY <1>u, <1>x, <2>2, <3>3 DEF Creating, Agrees, AccountsInv
    <3> QED
      BY <3>1, <3>2, <3>3
  <2>3. \A d : Known(d)' = Known(d)
    BY <1>u DEF Known
  <2> QED
    BY <2>1, <2>2, <2>3 DEF Agrees, Known
<1>6. Few'
  <2>1. (\A u \in Users : u \in crowded \/ Cardinality(Owned(u)) <= MaxDevices)'
    BY <1>o, <1>u DEF Few, AccountsInv
  <2>2. ASSUME NEW x \in Transactions, Claiming(x)', txn'[x].step \in {"insert", "commit"},
               txn'[x].u \notin crowded'
        PROVE  \/ txn'[x].step = "commit" /\ device[txn'[x].d].owner = txn'[x].u
               \/ Cardinality(Owned(txn'[x].u)) < MaxDevices
    <3>1. CASE x = t
      <4>1. Passes(t, txn'[t]) /\ Claiming(t) /\ txn'[t].u = txn[t].u /\ txn[t].u \notin crowded
        BY <1>c, <1>n, <1>u, <2>2, <3>1 DEF Claiming, Passes
      <4>2. CASE txn'[t].step = "insert" \/ device[txn'[t].d].owner = txn'[t].u
        BY <2>2, <3>1, <4>1, <4>2 DEF Claiming, Passes
      <4>3. CASE txn'[t].step = "commit" /\ txn[t].step = "insert"
        <5>1. Room(t)
          BY <1>t, <4>1, <4>3 DEF AccountsInv, Few
        <5> QED
          BY <3>1, <4>1, <4>3, <5>1 DEF Room
      <4> QED
        BY <2>2, <3>1, <4>1, <4>2, <4>3 DEF Claiming, Passes
    <3>2. CASE x # t
      <4>1. txn'[x] = txn[x] /\ crowded' = crowded
        BY <1>u, <1>x, <3>2
      <4>2. Room(x)
        BY <2>2, <4>1 DEF Claiming, AccountsInv, Few
      <4> QED
        BY <4>1, <4>2 DEF Room
    <3> QED
      BY <3>1, <3>2
  <2>3. ASSUME NEW x \in Transactions,
               (Claiming(x) /\ txn[x].step \in {"insert", "commit"} /\ txn[x].u \notin crowded)'
        PROVE  Room(x)'
    BY <1>o, <1>u, <2>2, <2>3 DEF Room
  <2> QED
    BY <2>1, <2>3 DEF Few
<1>7. Begun'
  <2>1. ~migrated => \A x \in Transactions : txn'[x] = NoTxn
    BY <1>c, <1>n, <1>x DEF Begun, AccountsInv, Passes
  <2> QED
    BY <1>u, <2>1 DEF Begun, AccountsInv, Known, Paired
<1>8. Entered' /\ Verified' /\ RevokedIsCutOff'
  BY <1>u DEF Entered, Verified, RevokedIsCutOff, AccountsInv, Known
<1> QED
  BY <1>1, <1>2, <1>3, <1>4, <1>5, <1>6, <1>7, <1>8 DEF AccountsInv

\* A transaction that ends, rolled back or aborted.
LEMMA ReleaseAdvances ==
  ASSUME AccountsInv, NEW t \in Transactions, Release(t), UNCHANGED <<device, pairing, entered, hubSide>>
  PROVE  Advances(t)
<1>1. txn \in [Transactions -> Txns]
  BY TxnTypes DEF AccountsInv
<1>2. /\ txn' \in [Transactions -> Txns] /\ txn'[t] = NoTxn
      /\ \A x \in Transactions \ {t} : txn'[x] = txn[x]
  BY <1>1, NoTxnTyped DEF Release
<1>3. /\ rowDevice' \in [Devices -> Transactions \cup {None}]
      /\ rowPairing' \in [Devices -> Transactions \cup {None}]
      /\ \A d \in Devices, x \in Transactions \ {t} : rowDevice[d] = x => rowDevice'[d] = x
  BY DEF Release, AccountsInv, AccountsTypeOK
<1> QED
  BY <1>2, <1>3 DEF Advances

\* A transaction that goes on at another step, with what it has locked.
LEMMA StepAdvances ==
  ASSUME AccountsInv, NEW t \in Transactions, NEW r, Passes(t, r), txn' = [txn EXCEPT ![t] = r],
         UNCHANGED <<device, pairing, entered, hubSide>>,
         rowDevice' = rowDevice \/ \E d \in Devices : rowDevice[d] = None /\ rowDevice' = [rowDevice EXCEPT ![d] = t],
         rowPairing' = rowPairing \/ \E d \in Devices : rowPairing' = [rowPairing EXCEPT ![d] = t]
  PROVE  Advances(t)
<1>1. txn \in [Transactions -> Txns]
  BY TxnTypes DEF AccountsInv
<1>2. r \in Txns
  BY DEF Passes
<1>3. /\ txn' \in [Transactions -> Txns] /\ txn'[t] = r
      /\ \A x \in Transactions \ {t} : txn'[x] = txn[x]
  BY <1>1, <1>2
<1>4. rowDevice \in [Devices -> Transactions \cup {None}] /\ rowPairing \in [Devices -> Transactions \cup {None}]
  BY DEF AccountsInv, AccountsTypeOK
<1>5. rowPairing' \in [Devices -> Transactions \cup {None}]
  BY <1>4
<1>6. /\ rowDevice' \in [Devices -> Transactions \cup {None}]
      /\ \A d \in Devices, x \in Transactions \ {t} : rowDevice[d] = x => rowDevice'[d] = x
  <2>1. CASE rowDevice' = rowDevice
    BY <1>4, <2>1
  <2>2. ASSUME NEW d \in Devices, rowDevice[d] = None, rowDevice' = [rowDevice EXCEPT ![d] = t]
        PROVE  /\ rowDevice' \in [Devices -> Transactions \cup {None}]
               /\ \A e \in Devices, x \in Transactions \ {t} : rowDevice[e] = x => rowDevice'[e] = x
    BY <1>4, <2>2, AccountsAssumption DEF AccountsAssumption
  <2> QED
    BY <2>1, <2>2
<1> QED
  BY <1>3, <1>5, <1>6 DEF Advances

LEMMA Moved ==
  ASSUME AccountsInv, NEW t \in Transactions, Creating(t) \/ Claiming(t),
         NEW step \in {"replace", "device", "count", "insert", "commit"}
  PROVE  /\ [txn[t] EXCEPT !.step = step] \in Txns
         /\ [txn[t] EXCEPT !.step = step].kind = txn[t].kind
         /\ [txn[t] EXCEPT !.step = step].step = step
         /\ [txn[t] EXCEPT !.step = step].d = txn[t].d /\ txn[t].d \in Devices
         /\ [txn[t] EXCEPT !.step = step].u = txn[t].u
         /\ [txn[t] EXCEPT !.step = step].secret = txn[t].secret
         /\ Goes(t, step) => txn' = [txn EXCEPT ![t] = [txn[t] EXCEPT !.step = step]]
<1>1. txn \in [Transactions -> Txns] /\ txn[t].d \in Devices
  BY TxnTypes DEF AccountsInv, Formed
<1> QED
  BY <1>1 DEF Txns, Goes

LEMMA Kinds == "create" # "claim" /\ "replace" # "commit" /\ "insert" # "commit" /\ "begin" # "replace"
OBVIOUS

LEMMA CreateDeviceKeeps ==
  ASSUME AccountsInv, NEW t \in Transactions, CreateDevice(t)
  PROVE  AccountsInv'
<1> DEFINE r == [txn[t] EXCEPT !.step = "replace"]
<1>1. Creating(t) /\ txn[t].step = "begin" /\ UNCHANGED <<device, pairing, entered, hubSide>>
  BY DEF CreateDevice, Creating
<1>2. ASSUME ~Known(txn[t].d) \/ device[txn[t].d].secret = txn[t].secret, Goes(t, "replace"),
             rowDevice' = rowDevice \/ (rowDevice[txn[t].d] = None /\ rowDevice' = [rowDevice EXCEPT ![txn[t].d] = t]),
             rowPairing' = rowPairing
      PROVE  AccountsInv'
  <2>1. Passes(t, r) /\ txn' = [txn EXCEPT ![t] = r] /\ txn[t].d \in Devices
    BY <1>1, <1>2, Moved DEF Passes, Creating
  <2>2. Advances(t)
    BY <1>1, <1>2, <2>1, StepAdvances
  <2> QED
    BY <2>2, AdvancesKeep
<1>3. ASSUME Release(t) PROVE AccountsInv'
  BY <1>1, <1>3, ReleaseAdvances, AdvancesKeep
<1> QED
  BY <1>2, <1>3 DEF CreateDevice

LEMMA CreateReplacesKeeps ==
  ASSUME AccountsInv, NEW t \in Transactions, CreateReplaces(t)
  PROVE  AccountsInv'
<1> DEFINE r == [txn[t] EXCEPT !.step = "insert"]
<1>1. Creating(t) /\ txn[t].step = "replace" /\ UNCHANGED <<device, pairing, entered, hubSide, rowDevice>>
  BY DEF CreateReplaces, AccountsInv, Formed
<1>2. Passes(t, r) /\ txn' = [txn EXCEPT ![t] = r] /\ txn[t].d \in Devices
  BY <1>1, Moved DEF Passes, Creating, CreateReplaces
<1>3. Advances(t)
  BY <1>1, <1>2, StepAdvances DEF CreateReplaces
<1> QED
  BY <1>3, AdvancesKeep

LEMMA CreateInsertsKeeps ==
  ASSUME AccountsInv, NEW t \in Transactions, CreateInserts(t)
  PROVE  AccountsInv'
<1> DEFINE r == [txn[t] EXCEPT !.step = "commit"]
<1>1. Creating(t) /\ txn[t].step = "insert" /\ UNCHANGED <<device, pairing, entered, hubSide>>
  BY DEF CreateInserts, Creating
<1>2. CASE Release(t)
  BY <1>1, <1>2, ReleaseAdvances, AdvancesKeep
<1>3. CASE Goes(t, "commit") /\ rowDevice' = rowDevice /\ rowPairing' = [rowPairing EXCEPT ![txn[t].d] = t]
  <2>1. Passes(t, r) /\ txn' = [txn EXCEPT ![t] = r] /\ txn[t].d \in Devices
    BY <1>1, <1>3, Moved DEF Passes, Creating
  <2>2. Advances(t)
    BY <1>1, <1>3, <2>1, StepAdvances
  <2> QED
    BY <2>2, AdvancesKeep
<1> QED
  BY <1>2, <1>3 DEF CreateInserts

LEMMA ClaimPairingRowKeeps ==
  ASSUME AccountsInv, NEW t \in Transactions, ClaimPairingRow(t)
  PROVE  AccountsInv'
<1>1. Claiming(t) /\ txn[t].step = "begin" /\ UNCHANGED <<device, pairing, entered, hubSide>>
  BY DEF ClaimPairingRow, Claiming
<1>2. CASE Release(t)
  BY <1>1, <1>2, ReleaseAdvances, AdvancesKeep
<1>3. CASE ~Release(t)
  <2> DEFINE s == pairing[txn[t].d].secret
             r == [txn[t] EXCEPT !.step = "device", !.secret = s]
  <2>1. txn \in [Transactions -> Txns] /\ txn[t].d \in Devices
    BY <1>1, TxnTypes DEF AccountsInv, Formed
  <2>2. s \in Secrets \cup {None}
    BY <2>1 DEF AccountsInv, AccountsTypeOK
  <2>3. txn' = [txn EXCEPT ![t].step = "device", ![t].secret = s]
    BY <1>3 DEF ClaimPairingRow
  <2>4. txn' = [txn EXCEPT ![t] = r]
    BY <2>1, <2>3 DEF Txns
  <2>5. Passes(t, r)
    BY <1>1, <2>1, <2>2 DEF Passes, Claiming, Txns
  <2>6. Advances(t)
    BY <1>1, <1>3, <2>1, <2>4, <2>5, StepAdvances DEF ClaimPairingRow
  <2> QED
    BY <2>6, AdvancesKeep
<1> QED
  BY <1>2, <1>3

LEMMA ClaimDeviceKeeps ==
  ASSUME AccountsInv, NEW t \in Transactions, ClaimDevice(t)
  PROVE  AccountsInv'
<1>1. Claiming(t) /\ txn[t].step = "device" /\ UNCHANGED <<device, pairing, entered, hubSide>>
  BY DEF ClaimDevice, AccountsInv, Formed
<1>2. CASE Release(t)
  BY <1>1, <1>2, ReleaseAdvances, AdvancesKeep
<1>3. CASE Goes(t, "count") /\ UNCHANGED <<rowDevice, rowPairing>>
  <2> DEFINE r == [txn[t] EXCEPT !.step = "count"]
  <2>1. Passes(t, r) /\ txn' = [txn EXCEPT ![t] = r]
    BY <1>1, <1>3, Moved DEF Passes, Claiming
  <2>2. Advances(t)
    BY <1>1, <1>3, <2>1, StepAdvances
  <2> QED
    BY <2>2, AdvancesKeep
<1>4. CASE /\ device[txn[t].d] = [owner |-> txn[t].u, secret |-> txn[t].secret]
           /\ rowDevice[txn[t].d] = None /\ rowDevice' = [rowDevice EXCEPT ![txn[t].d] = t]
           /\ Goes(t, "commit") /\ UNCHANGED rowPairing
  <2> DEFINE r == [txn[t] EXCEPT !.step = "commit"]
  <2>1. txn[t].d \in Devices /\ rowDevice'[txn[t].d] = t
    BY <1>1, <1>4 DEF AccountsInv, Formed, AccountsTypeOK
  <2>0. device[txn[t].d].owner = txn[t].u /\ txn[t].kind = "claim"
    BY <1>1, <1>4 DEF Claiming
  <2>a. txn' = [txn EXCEPT ![t] = r] /\ r \in Txns /\ r.kind = "claim" /\ r.step = "commit" /\ r.d = txn[t].d
        /\ r.u = txn[t].u
    BY <1>1, <1>4, <2>0, Moved
  <2>2. Passes(t, r)
    BY <2>0, <2>1, <2>a DEF Passes
  <2>3. Advances(t)
    BY <1>1, <1>4, <2>1, <2>2, <2>a, StepAdvances
  <2> QED
    BY <2>3, AdvancesKeep
<1> QED
  BY <1>2, <1>3, <1>4 DEF ClaimDevice

LEMMA ClaimCountsKeeps ==
  ASSUME AccountsInv, NEW t \in Transactions, ClaimCounts(t)
  PROVE  AccountsInv'
<1> DEFINE r == [txn[t] EXCEPT !.step = "insert"]
<1>1. Claiming(t) /\ UNCHANGED <<device, pairing, entered, hubSide>>
  BY DEF ClaimCounts, AccountsInv, Formed
<1>2. CASE Release(t)
  BY <1>1, <1>2, ReleaseAdvances, AdvancesKeep
<1>3. CASE /\ ~(Cardinality(Owned(txn[t].u)) >= MaxDevices)
           /\ Goes(t, "insert") /\ UNCHANGED <<rowDevice, rowPairing>>
  <2>1. Cardinality(Owned(txn[t].u)) < MaxDevices
    BY <1>3, OwnedFinite, AccountsAssumption DEF AccountsAssumption
  <2>2. Passes(t, r) /\ txn' = [txn EXCEPT ![t] = r]
    BY <1>1, <1>3, <2>1, Moved DEF Passes, Claiming
  <2>3. Advances(t)
    BY <1>1, <1>3, <2>2, StepAdvances
  <2> QED
    BY <2>3, AdvancesKeep
<1> QED
  BY <1>2, <1>3 DEF ClaimCounts

LEMMA ClaimInsertsKeeps ==
  ASSUME AccountsInv, NEW t \in Transactions, ClaimInserts(t)
  PROVE  AccountsInv'
<1> DEFINE r == [txn[t] EXCEPT !.step = "commit"]
<1>1. Claiming(t) /\ txn[t].step = "insert" /\ UNCHANGED <<device, pairing, entered, hubSide>>
  BY DEF ClaimInserts, Claiming
<1>2. CASE Release(t)
  BY <1>1, <1>2, ReleaseAdvances, AdvancesKeep
<1>3. CASE /\ rowDevice[txn[t].d] = None /\ rowDevice' = [rowDevice EXCEPT ![txn[t].d] = t]
           /\ Goes(t, "commit") /\ UNCHANGED rowPairing
  <2>1. txn[t].d \in Devices /\ rowDevice'[txn[t].d] = t
    BY <1>1, <1>3 DEF AccountsInv, Formed, AccountsTypeOK
  <2>2. Passes(t, r) /\ txn' = [txn EXCEPT ![t] = r]
    BY <1>1, <1>3, <2>1, Moved DEF Passes, Claiming
  <2>3. Advances(t)
    BY <1>1, <1>3, <2>1, <2>2, StepAdvances
  <2> QED
    BY <2>3, AdvancesKeep
<1> QED
  BY <1>2, <1>3 DEF ClaimInserts

LEMMA DeadlockAbortsKeeps ==
  ASSUME AccountsInv, NEW t \in Transactions, DeadlockAborts(t)
  PROVE  AccountsInv'
BY ReleaseAdvances, AdvancesKeep DEF DeadlockAborts

-----------------------------------------------------------------------------
(* What a transaction begins with and what it commits *)

\* How the other transactions see it: they stay as they are.
Others(t) ==
  /\ txn' \in [Transactions -> Txns] /\ \A x \in Transactions \ {t} : txn'[x] = txn[x]

LEMMA ReleaseOthers ==
  ASSUME AccountsInv, NEW t \in Transactions, Release(t)
  PROVE  /\ Others(t) /\ txn'[t] = NoTxn
         /\ rowDevice' \in [Devices -> Transactions \cup {None}]
         /\ rowPairing' \in [Devices -> Transactions \cup {None}]
         /\ \A d \in Devices, x \in Transactions \ {t} : rowDevice[d] = x => rowDevice'[d] = x
<1>1. txn \in [Transactions -> Txns]
  BY TxnTypes DEF AccountsInv
<1> QED
  BY <1>1, NoTxnTyped DEF Release, Others, AccountsInv, AccountsTypeOK

\* What does not depend on the devices: who is at which step, and the locks.
LEMMA ReleasedParts ==
  ASSUME AccountsInv, NEW t \in Transactions, Release(t), UNCHANGED <<crossed, crowded>>
  PROVE  Formed' /\ Locked' /\ Overlaps'
<1>1. /\ Others(t) /\ txn'[t] = NoTxn
      /\ \A d \in Devices, x \in Transactions \ {t} : rowDevice[d] = x => rowDevice'[d] = x
  BY ReleaseOthers
<1>2. NoTxn.kind = None /\ NoTxn.step = "begin" /\ None # "create" /\ None # "claim"
  BY NoTxnTyped DEF None
<1>3. Formed'
  BY <1>1, <1>2 DEF Others, AccountsInv, Formed, Creating, Claiming
<1>4. Locked'
  BY <1>1, <1>2 DEF Others, AccountsInv, Locked, Formed, Claiming
<1>5. Overlaps'
  BY <1>1, <1>2 DEF Others, AccountsInv, Overlaps, Creating, Claiming
<1> QED
  BY <1>3, <1>4, <1>5

LEMMA CreateCommitsKeeps ==
  ASSUME AccountsInv, NEW t \in Transactions, CreateCommits(t)
  PROVE  AccountsInv'
<1> DEFINE e == txn[t].d
<1>0. PICK f \in Devices : f = txn[t].d
  BY DEF CreateCommits, AccountsInv, Formed, Creating
<1>1. /\ Others(t) /\ txn'[t] = NoTxn
      /\ rowDevice' \in [Devices -> Transactions \cup {None}]
      /\ rowPairing' \in [Devices -> Transactions \cup {None}]
  BY ReleaseOthers DEF CreateCommits
<1>2. NoTxn.kind = None /\ NoTxn.step = "begin" /\ None # "create" /\ None # "claim"
  BY NoTxnTyped DEF None
<1>u. UNCHANGED <<device, entered, connected, checked, closing, legacy, migrated, requests, overtaken, crowded, crossed>>
  BY DEF CreateCommits, hubSide
<1>t. AccountsTypeOK /\ txn[t] \in Txns
  BY TxnTypes DEF AccountsInv
<1>p. /\ pairing' \in [Devices -> [code : 0..MaxRequests, secret : Secrets \cup {None}]]
      /\ pairing'[f].secret = txn[t].secret /\ \A d \in Devices : d # f => pairing'[d] = pairing[d]
  BY <1>0, <1>t DEF CreateCommits, AccountsTypeOK, Txns
<1>o. \A u : Owned(u)' = Owned(u)
  BY <1>u DEF Owned
<1>k. \A d : Known(d)' = Known(d)
  BY <1>u DEF Known
<1>3. AccountsTypeOK'
  BY <1>1, <1>p, <1>t, <1>u DEF Others, AccountsTypeOK, Txns
<1>4. Formed' /\ Locked' /\ Overlaps'
  BY <1>u, ReleasedParts DEF CreateCommits
<1>5. Agrees'
  <2>1. ASSUME NEW d \in Devices, Paired(d)', Known(d), d \notin crossed
        PROVE  pairing'[d].secret = device[d].secret
    <3>1. CASE d = f
      BY <1>0, <1>p, <2>1, <3>1 DEF CreateCommits, AccountsInv, Agrees, Creating
    <3>2. CASE d # f
      BY <1>p, <2>1, <3>2 DEF AccountsInv, Agrees, Paired
    <3> QED
      BY <3>1, <3>2
  <2>2. ASSUME NEW x \in Transactions, Creating(x)', txn'[x].step \in {"replace", "insert", "commit"},
               txn'[x].d \notin crossed, Known(txn'[x].d)
        PROVE  device[txn'[x].d].secret = txn'[x].secret
    <3>1. x # t /\ txn'[x] = txn[x]
      BY <1>1, <1>2, <2>2 DEF Others, Creating
    <3> QED
      BY <2>2, <3>1 DEF AccountsInv, Agrees, Creating
  <2> QED
    BY <1>k, <1>u, <2>1, <2>2 DEF Agrees, Known
<1>6. Few'
  <2>1. \A x \in Transactions : Claiming(x)' => txn'[x] = txn[x] /\ Claiming(x)
    BY <1>1, <1>2 DEF Others, Claiming
  <2>2. ASSUME NEW x \in Transactions,
               (Claiming(x) /\ txn[x].step \in {"insert", "commit"} /\ txn[x].u \notin crowded)'
        PROVE  Room(x)'
    <3>1. txn'[x] = txn[x] /\ Room(x)
      BY <1>u, <2>1, <2>2 DEF AccountsInv, Few
    <3> QED
      BY <1>o, <1>u, <3>1 DEF Room
  <2> QED
    BY <1>o, <1>u, <2>2 DEF Few, AccountsInv
<1>7. Begun'
  <2>1. txn[t] # NoTxn
    BY <1>2 DEF CreateCommits
  <2>2. migrated
    BY <2>1 DEF AccountsInv, Begun
  <2> QED
    BY <1>u, <2>2 DEF AccountsInv, Begun
<1>8. Entered' /\ Verified' /\ RevokedIsCutOff'
  BY <1>k, <1>u DEF AccountsInv, Entered, Verified, RevokedIsCutOff
<1> QED
  BY <1>3, <1>4, <1>5, <1>6, <1>7, <1>8 DEF AccountsInv

\* The claim takes its device, which nobody else can have changed meanwhile; the
\* pairing is gone.
LEMMA ClaimCommitsKeeps ==
  ASSUME AccountsInv, NEW t \in Transactions, ClaimCommits(t)
  PROVE  AccountsInv'
<1>0. PICK f \in Devices : f = txn[t].d
  BY DEF ClaimCommits, AccountsInv, Formed, Claiming
<1>v. PICK v \in Users : v = txn[t].u
  BY DEF ClaimCommits, AccountsInv, Formed, Claiming
<1>c. Claiming(t) /\ txn[t].step = "commit"
  BY DEF ClaimCommits, Claiming
<1>1. /\ Others(t) /\ txn'[t] = NoTxn
      /\ rowDevice' \in [Devices -> Transactions \cup {None}]
      /\ rowPairing' \in [Devices -> Transactions \cup {None}]
  BY ReleaseOthers DEF ClaimCommits
<1>2. NoTxn.kind = None /\ NoTxn.step = "begin" /\ None # "create" /\ None # "claim"
  BY NoTxnTyped DEF None
<1>u. UNCHANGED <<connected, checked, closing, legacy, migrated, requests, overtaken, crowded, crossed>>
      /\ entered' = entered \cup {f}
  BY <1>0 DEF ClaimCommits, hubSide
<1>t. AccountsTypeOK /\ txn[t] \in Txns
  BY TxnTypes DEF AccountsInv
<1>d. /\ device' \in [Devices -> [owner : Users \cup {None}, secret : Secrets \cup {None}]]
      /\ device'[f].owner = v /\ \A d \in Devices : d # f => device'[d] = device[d]
  BY <1>0, <1>t, <1>v DEF ClaimCommits, AccountsTypeOK, Txns
<1>p. /\ pairing' \in [Devices -> [code : 0..MaxRequests, secret : Secrets \cup {None}]]
      /\ pairing'[f] = NoPairing /\ \A d \in Devices : d # f => pairing'[d] = pairing[d]
  BY <1>0, <1>t, AccountsAssumption DEF ClaimCommits, AccountsTypeOK, NoPairing, AccountsAssumption
<1>k. \A d \in Devices : Known(d) => Known(d)'
  <2>1. v # None
    BY AccountsAssumption DEF AccountsAssumption
  <2>2. Known(f)'
    BY <1>d, <2>1 DEF Known, NoDevice
  <2> QED
    BY <1>d, <2>2 DEF Known
<1>x. \A x \in Transactions : txn'[x].kind # None => x # t /\ txn'[x] = txn[x]
  BY <1>1, <1>2 DEF Others
<1>3. AccountsTypeOK'
  <2>1. entered' \subseteq Devices
    BY <1>t, <1>u DEF AccountsTypeOK
  <2> QED
    BY <1>1, <1>d, <1>p, <1>t, <1>u, <2>1 DEF Others, AccountsTypeOK, Txns
<1>4. Formed' /\ Locked' /\ Overlaps'
  BY <1>u, ReleasedParts DEF ClaimCommits
<1>5. Agrees'
  <2>1. ASSUME NEW d \in Devices, Paired(d)', Known(d)', d \notin crossed
        PROVE  pairing'[d].secret = device'[d].secret
    <3>1. d # f
      BY <1>p, <2>1 DEF Paired
    <3> QED
      BY <1>d, <1>p, <2>1, <3>1 DEF AccountsInv, Agrees, Paired, Known
  <2>2. ASSUME NEW x \in Transactions, Creating(x)', txn'[x].step \in {"replace", "insert", "commit"},
               txn'[x].d \notin crossed, device'[txn'[x].d] # NoDevice
        PROVE  device'[txn'[x].d].secret = txn'[x].secret
    <3>1. txn'[x] = txn[x] /\ Creating(x) /\ txn[x].d \in Devices
      BY <1>2, <1>x, <2>2 DEF Creating, AccountsInv, Formed
    <3>2. txn[x].d # f
      BY <1>0, <1>c, <2>2, <3>1 DEF AccountsInv, Overlaps
    <3> QED
      BY <1>d, <2>2, <3>1, <3>2 DEF AccountsInv, Agrees, Known
  <2>3. ASSUME NEW x \in Transactions,
               (/\ Creating(x) /\ txn[x].step \in {"replace", "insert", "commit"}
                /\ txn[x].d \notin crossed /\ Known(txn[x].d))'
        PROVE  (device[txn[x].d].secret = txn[x].secret)'
    BY <1>u, <2>2, <2>3 DEF Known
  <2> QED
    BY <1>u, <2>1, <2>3 DEF Agrees
<1>6. Few'
  <2>1. \A w \in Users : w # v => Owned(w)' \subseteq Owned(w)
    BY <1>d DEF Owned
  <2>2. Owned(v)' = Owned(v) \cup {f}
    BY <1>d DEF Owned
  <2>3. ASSUME NEW w \in Users, w # v
        PROVE  Cardinality(Owned(w)') <= Cardinality(Owned(w)) /\ Cardinality(Owned(w)') \in Nat
    <3>1. Owned(w)' \subseteq Owned(w)
      BY <2>1, <2>3
    <3> QED
      BY <3>1, FS_Subset, FS_CardinalityType, OwnedFinite
  <2>4. v \in crowded \/ Cardinality(Owned(v)') <= MaxDevices
    <3> SUFFICES ASSUME v \notin crowded PROVE Cardinality(Owned(v)') <= MaxDevices
      OBVIOUS
    <3>1. Room(t)
      BY <1>c, <1>v DEF AccountsInv, Few
    <3>2. CASE device[f].owner = v
      <4>1. Owned(v)' = Owned(v)
        BY <2>2, <3>2 DEF Owned
      <4> QED
        BY <4>1 DEF AccountsInv, Few
    <3>3. CASE Cardinality(Owned(v)) < MaxDevices
      <4>1. Cardinality(Owned(v) \cup {f}) <= Cardinality(Owned(v)) + 1
            /\ Cardinality(Owned(v) \cup {f}) \in Nat
        <5>1. IsFiniteSet(Owned(v)) /\ Cardinality(Owned(v)) \in Nat
          BY OwnedFinite
        <5>2. Cardinality(Owned(v) \cup {f})
                = IF f \in Owned(v) THEN Cardinality(Owned(v)) ELSE Cardinality(Owned(v)) + 1
          BY <5>1, FS_AddElement
        <5> QED
          BY <5>1, <5>2
      <4> QED
        BY <2>2, <3>3, <4>1, OwnedFinite, AccountsAssumption DEF AccountsAssumption
    <3> QED
      BY <1>0, <1>v, <3>1, <3>2, <3>3 DEF Room
  <2>5. \A w \in Users : w \in crowded \/ Cardinality(Owned(w)') <= MaxDevices
    <3> SUFFICES ASSUME NEW w \in Users, w \notin crowded, w # v
                 PROVE  Cardinality(Owned(w)') <= MaxDevices
      BY <2>4
    <3> QED
      BY <2>3, OwnedFinite, AccountsAssumption DEF AccountsInv, Few, AccountsAssumption
  <2>6. ASSUME NEW x \in Transactions,
               (Claiming(x) /\ txn[x].step \in {"insert", "commit"} /\ txn[x].u \notin crowded)'
        PROVE  Room(x)'
    <3>1. txn'[x] = txn[x] /\ x # t /\ Claiming(x) /\ txn[x].u \in Users /\ txn[x].u \notin crowded
      BY <1>2, <1>u, <1>x, <2>6 DEF Claiming, AccountsInv, Formed
    <3>2. txn[x].u # v /\ Room(x)
      BY <1>c, <1>v, <2>6, <3>1 DEF AccountsInv, Overlaps, Few
    <3>3. CASE txn[x].step = "commit" /\ device[txn[x].d].owner = txn[x].u
      <4>1. txn[x].d # f /\ txn[x].d \in Devices
        BY <1>0, <1>c, <3>1, <3>3 DEF AccountsInv, Locked, Formed
      <4>2. device'[txn[x].d] = device[txn[x].d]
        BY <1>d, <4>1
      <4> QED
        BY <3>1, <3>3, <4>2 DEF Room
    <3>4. CASE Cardinality(Owned(txn[x].u)) < MaxDevices
      <4>1. Cardinality(Owned(txn[x].u)') < MaxDevices
        BY <2>3, <3>1, <3>2, <3>4, OwnedFinite, AccountsAssumption DEF AccountsAssumption
      <4> QED
        BY <3>1, <4>1 DEF Room, Owned
    <3> QED
      BY <3>2, <3>3, <3>4 DEF Room
  <2>7. (\A w \in Users : w \in crowded \/ Cardinality(Owned(w)) <= MaxDevices)'
    BY <1>u, <2>5
  <2> QED
    BY <2>6, <2>7 DEF Few
<1>7. Begun'
  <2>1. txn[t] # NoTxn
    BY <1>2, <1>c DEF Claiming
  <2>2. migrated
    BY <2>1 DEF AccountsInv, Begun
  <2> QED
    BY <1>u, <2>2 DEF AccountsInv, Begun
<1>8. Entered'
  BY <1>d, <1>u DEF AccountsInv, Entered, Known
<1>9. Verified' /\ RevokedIsCutOff'
  BY <1>k, <1>u DEF AccountsInv, Verified, RevokedIsCutOff
<1> QED
  BY <1>3, <1>4, <1>5, <1>6, <1>7, <1>8, <1>9 DEF AccountsInv

LEMMA Counted == requests < MaxRequests /\ AccountsTypeOK => requests + 1 \in 0..MaxRequests
BY AccountsAssumption DEF AccountsTypeOK, AccountsAssumption

\* A transaction that begins has not looked at anything yet.
Begins(t, r) ==
  /\ txn[t] = NoTxn /\ migrated
  /\ r \in Txns /\ r.kind \in {"create", "claim"} /\ r.step = "begin" /\ r.d \in Devices
  /\ r.kind = "claim" => r.u \in Users
  /\ txn' = [txn EXCEPT ![t] = r]
  /\ crossed' \subseteq Devices /\ crossed \subseteq crossed'
  /\ crowded' \subseteq Users /\ crowded \subseteq crowded'
  /\ \A x \in Transactions : txn[x].kind \in {"create", "claim"} /\ txn[x].kind # r.kind /\ txn[x].d = r.d => r.d \in crossed'
  /\ \A x \in Transactions : r.kind = "claim" /\ Claiming(x) /\ txn[x].u = r.u => r.u \in crowded'
  /\ requests' \in 0..MaxRequests
  /\ UNCHANGED <<device, pairing, rowDevice, rowPairing, connected, checked, closing, legacy, migrated, entered,
                 overtaken>>

LEMMA BeginsKeeps ==
  ASSUME AccountsInv, NEW t \in Transactions, NEW r, Begins(t, r)
  PROVE  AccountsInv'
<1>t. AccountsTypeOK /\ txn \in [Transactions -> Txns]
  BY TxnTypes DEF AccountsInv
<1>1. /\ txn' \in [Transactions -> Txns] /\ txn'[t] = r
      /\ \A x \in Transactions \ {t} : txn'[x] = txn[x]
  BY <1>t DEF Begins
<1>2. "begin" \notin {"replace", "device", "count", "insert", "commit"} /\ "create" # "claim"
  OBVIOUS
<1>u. UNCHANGED <<device, pairing, rowDevice, rowPairing, connected, checked, closing, legacy, migrated, entered,
                  overtaken>> /\ migrated
      /\ crossed \subseteq crossed' /\ crowded \subseteq crowded'
  BY DEF Begins
<1>r. r.kind \in {"create", "claim"} /\ r.step = "begin" /\ r.d \in Devices /\ (r.kind = "claim" => r.u \in Users)
  BY DEF Begins
<1>o. \A u : Owned(u)' = Owned(u)
  BY <1>u DEF Owned
<1>k. \A d : Known(d)' = Known(d) /\ Paired(d)' = Paired(d)
  BY <1>u DEF Known, Paired
<1>x. \A x \in Transactions : txn'[x].step # "begin" => x # t /\ txn'[x] = txn[x]
  BY <1>1, <1>r
<1>3. AccountsTypeOK'
  BY <1>1, <1>t, <1>u DEF AccountsTypeOK, Begins, Txns
<1>4. Formed'
  BY <1>1, <1>r DEF AccountsInv, Formed, Creating, Claiming
<1>5. Locked'
  BY <1>u, <1>x DEF AccountsInv, Locked, Claiming
<1>6. Overlaps'
  <2>1. ASSUME NEW x \in Transactions, NEW y \in Transactions, Creating(x)', Claiming(y)', txn'[x].d = txn'[y].d
        PROVE  txn'[x].d \in crossed'
    <3>1. CASE x = t
      BY <1>1, <1>2, <2>1, <3>1 DEF Begins, Creating, Claiming
    <3>2. CASE y = t /\ x # t
      BY <1>1, <1>2, <2>1, <3>2 DEF Begins, Creating, Claiming
    <3>3. CASE x # t /\ y # t
      BY <1>1, <1>u, <2>1, <3>3 DEF AccountsInv, Overlaps, Creating, Claiming
    <3> QED
      BY <3>1, <3>2, <3>3
  <2>2. ASSUME NEW x \in Transactions, NEW y \in Transactions, Claiming(x)', Claiming(y)', x # y,
               txn'[x].u = txn'[y].u
        PROVE  txn'[x].u \in crowded'
    <3>1. CASE x = t
      BY <1>1, <2>2, <3>1 DEF Begins, Claiming
    <3>2. CASE y = t
      BY <1>1, <2>2, <3>2 DEF Begins, Claiming
    <3>3. CASE x # t /\ y # t
      BY <1>1, <1>u, <2>2, <3>3 DEF AccountsInv, Overlaps, Claiming
    <3> QED
      BY <3>1, <3>2, <3>3
  <2> QED
    BY <2>1, <2>2 DEF Overlaps
<1>7. Agrees'
  BY <1>2, <1>k, <1>u, <1>x DEF AccountsInv, Agrees, Creating, Known
<1>8. Few'
  <2>1. (\A w \in Users : w \in crowded \/ Cardinality(Owned(w)) <= MaxDevices)'
    BY <1>o, <1>u DEF AccountsInv, Few
  <2>2. ASSUME NEW x \in Transactions,
               (Claiming(x) /\ txn[x].step \in {"insert", "commit"} /\ txn[x].u \notin crowded)'
        PROVE  Room(x)'
    <3>1. txn'[x] = txn[x] /\ Room(x)
      BY <1>2, <1>u, <1>x, <2>2 DEF AccountsInv, Few, Claiming
    <3> QED
      BY <1>o, <1>u, <3>1 DEF Room
  <2> QED
    BY <2>1, <2>2 DEF Few
<1>9. Begun' /\ Entered' /\ Verified' /\ RevokedIsCutOff'
  BY <1>k, <1>u DEF AccountsInv, Begun, Entered, Verified, RevokedIsCutOff
<1> QED
  BY <1>3, <1>4, <1>5, <1>6, <1>7, <1>8, <1>9 DEF AccountsInv

LEMMA CreatePairingKeeps ==
  ASSUME AccountsInv, NEW t \in Transactions, NEW d \in Devices, NEW s \in Secrets, CreatePairing(t, d, s)
  PROVE  AccountsInv'
<1> DEFINE r == [NoTxn EXCEPT !.kind = "create", !.d = d, !.secret = s, !.code = requests + 1]
<1>t. AccountsTypeOK /\ requests + 1 \in 0..MaxRequests
  BY Counted DEF AccountsInv, CreatePairing, Requested
<1>1. r \in Txns /\ r.kind = "create" /\ r.step = "begin" /\ r.d = d
  BY <1>t, NoTxnTyped DEF Txns, NoTxn
<1>2. txn' = [txn EXCEPT ![t] = r] /\ txn[t] = NoTxn /\ migrated /\ requests' \in 0..MaxRequests
  BY <1>t DEF CreatePairing, Requested
<1>3. /\ crossed' = crossed \cup {e \in {d} : \E x \in Transactions : txn[x].kind = "claim" /\ txn[x].d = d}
      /\ crowded' = crowded
      /\ UNCHANGED <<device, pairing, rowDevice, rowPairing, connected, checked, closing, legacy, migrated, entered,
                     overtaken>>
  BY DEF CreatePairing
<1> HIDE DEF r
<1>4. Begins(t, r)
  <2>1. /\ crossed' \subseteq Devices /\ crossed \subseteq crossed' /\ crowded' \subseteq Users
        /\ crowded \subseteq crowded'
    BY <1>3, <1>t DEF AccountsTypeOK
  <2> QED
    BY <1>1, <1>2, <1>3, <2>1 DEF Begins
<1> QED
  BY <1>4, BeginsKeeps

LEMMA ClaimPairingKeeps ==
  ASSUME AccountsInv, NEW t \in Transactions, NEW u \in Users, NEW d \in Devices, ClaimPairing(t, u, d)
  PROVE  AccountsInv'
<1> DEFINE r == [NoTxn EXCEPT !.kind = "claim", !.d = d, !.u = u, !.code = pairing[d].code]
<1>t. AccountsTypeOK /\ requests + 1 \in 0..MaxRequests /\ pairing[d].code \in 0..MaxRequests
  BY Counted DEF AccountsInv, ClaimPairing, Requested, AccountsTypeOK
<1>1. r \in Txns /\ r.kind = "claim" /\ r.step = "begin" /\ r.d = d /\ r.u = u
  BY <1>t, NoTxnTyped DEF Txns, NoTxn
<1>2. txn' = [txn EXCEPT ![t] = r] /\ txn[t] = NoTxn /\ migrated /\ requests' \in 0..MaxRequests
  BY <1>t DEF ClaimPairing, Requested, AccountsInv, Begun
<1>3. /\ crossed' = crossed \cup {e \in {d} : \E x \in Transactions : txn[x].kind = "create" /\ txn[x].d = d}
      /\ crowded' = crowded \cup {v \in {u} : \E x \in Transactions : txn[x].kind = "claim" /\ txn[x].u = u}
      /\ UNCHANGED <<device, pairing, rowDevice, rowPairing, connected, checked, closing, legacy, migrated, entered,
                     overtaken>>
  BY DEF ClaimPairing
<1> HIDE DEF r
<1>4. Begins(t, r)
  <2>1. /\ crossed' \subseteq Devices /\ crossed \subseteq crossed' /\ crowded' \subseteq Users
        /\ crowded \subseteq crowded'
    BY <1>3, <1>t DEF AccountsTypeOK
  <2>2. \A x \in Transactions : txn[x].kind = "create" /\ txn[x].d = d => d \in crossed'
    BY <1>3
  <2>3. \A x \in Transactions : Claiming(x) /\ txn[x].u = u => u \in crowded'
    BY <1>3 DEF Claiming
  <2> QED
    BY <1>1, <1>2, <1>3, <2>1, <2>2, <2>3 DEF Begins
<1> QED
  BY <1>4, BeginsKeeps

-----------------------------------------------------------------------------
(* Connections, revocation, restart *)

\* What leaves the transactions and the devices alone.
LEMMA RestKeeps ==
  ASSUME AccountsInv, UNCHANGED <<device, txn, rowDevice, rowPairing, legacy, migrated, entered, overtaken, crowded, crossed>>,
         pairing' \in [Devices -> [code : 0..MaxRequests, secret : Secrets \cup {None}]],
         \A d \in Devices : pairing'[d] \in {pairing[d], NoPairing},
         connected' \in [Devices -> Secrets \cup {None}], checked' \in [Devices -> Secrets \cup {None}],
         closing' \subseteq Devices, requests' \in 0..MaxRequests,
         Verified', RevokedIsCutOff'
  PROVE  AccountsInv'
<1>t. AccountsTypeOK
  BY DEF AccountsInv
<1>o. \A u : Owned(u)' = Owned(u)
  BY DEF Owned
<1>k. \A d : Known(d)' = Known(d)
  BY DEF Known
<1>1. AccountsTypeOK'
  BY <1>t DEF AccountsTypeOK
<1>2. Formed' /\ Locked' /\ Overlaps'
  BY DEF AccountsInv, Formed, Locked, Overlaps, Creating, Claiming
<1>3. Agrees'
  <2>1. \A d \in Devices : Paired(d)' => pairing'[d] = pairing[d] /\ Paired(d)
    BY DEF Paired
  <2>2. \A d \in Devices : Paired(d)' /\ Known(d) /\ d \notin crossed => pairing'[d].secret = device[d].secret
    BY <2>1 DEF AccountsInv, Agrees
  <2>3. (\A t \in Transactions :
           Creating(t) /\ txn[t].step \in {"replace", "insert", "commit"} /\ txn[t].d \notin crossed /\ Known(txn[t].d)
             => device[txn[t].d].secret = txn[t].secret)'
    BY DEF AccountsInv, Agrees, Creating, Known
  <2> QED
    BY <1>k, <2>2, <2>3 DEF Agrees
<1>4. Few'
  BY <1>o DEF AccountsInv, Few, Room, Claiming
<1>5. Begun' /\ Entered'
  BY <1>k DEF AccountsInv, Begun, Entered, Paired
<1> QED
  BY <1>1, <1>2, <1>3, <1>4, <1>5 DEF AccountsInv

LEMMA ExpireKeeps ==
  ASSUME AccountsInv, NEW d \in Devices, Expire(d)
  PROVE  AccountsInv'
<1>1. UNCHANGED <<device, txn, rowDevice, rowPairing, entered, connected, checked, closing, legacy, migrated, requests,
                  overtaken, crowded, crossed>>
  BY DEF Expire, hubSide
<1>2. /\ pairing' \in [Devices -> [code : 0..MaxRequests, secret : Secrets \cup {None}]]
      /\ \A e \in Devices : pairing'[e] \in {pairing[e], NoPairing}
  BY AccountsAssumption DEF Expire, AccountsInv, AccountsTypeOK, NoPairing, AccountsAssumption
<1>3. Verified' /\ RevokedIsCutOff'
  BY <1>1 DEF AccountsInv, Verified, RevokedIsCutOff, Known
<1> QED
  BY <1>1, <1>2, <1>3, RestKeeps DEF AccountsInv, AccountsTypeOK

LEMMA ConnectionsKeep ==
  ASSUME AccountsInv, NEW d \in Devices,
         (\E s \in Secrets : CheckDevice(d, s)) \/ Connected(d) \/ RevokeEnds(d) \/ Disconnect(d)
  PROVE  AccountsInv'
<1>t. AccountsTypeOK
  BY DEF AccountsInv
<1>1. CASE \E s \in Secrets : CheckDevice(d, s)
  <2>1. PICK s \in Secrets : CheckDevice(d, s)
    BY <1>1
  <2>2. UNCHANGED <<device, pairing, txn, rowDevice, rowPairing, connected, closing, legacy, migrated, entered,
                    overtaken, crowded, crossed>> /\ Known(d) /\ checked' = [checked EXCEPT ![d] = s]
    BY <2>1 DEF CheckDevice
  <2>3. requests' \in 0..MaxRequests
    BY <1>t, <2>1, Counted DEF CheckDevice, Requested
  <2>4. checked' \in [Devices -> Secrets \cup {None}] /\ \A e \in Devices : e # d => checked'[e] = checked[e]
    BY <1>t, <2>2 DEF AccountsTypeOK
  <2>5. Verified' /\ RevokedIsCutOff'
    BY <2>2, <2>4 DEF AccountsInv, Verified, RevokedIsCutOff, Known
  <2> QED
    BY <1>t, <2>2, <2>3, <2>4, <2>5, RestKeeps DEF AccountsTypeOK
<1>2. CASE Connected(d)
  <2>1. /\ UNCHANGED <<device, pairing, txn, rowDevice, rowPairing, closing, legacy, migrated, requests, entered,
                       overtaken, crowded, crossed>>
        /\ checked[d] # None /\ connected' = [connected EXCEPT ![d] = checked[d]]
        /\ checked' = [checked EXCEPT ![d] = None]
    BY <1>2 DEF Connected
  <2>2. /\ checked' \in [Devices -> Secrets \cup {None}] /\ checked'[d] = None
        /\ connected' \in [Devices -> Secrets \cup {None}]
        /\ \A e \in Devices : e # d => checked'[e] = checked[e] /\ connected'[e] = connected[e]
    BY <1>t, <2>1 DEF AccountsTypeOK
  <2>3. Verified' /\ RevokedIsCutOff'
    BY <2>1, <2>2 DEF AccountsInv, Verified, RevokedIsCutOff, Known
  <2> QED
    BY <1>t, <2>1, <2>2, <2>3, RestKeeps DEF AccountsTypeOK
<1>3. CASE RevokeEnds(d)
  <2>1. /\ UNCHANGED <<device, pairing, txn, rowDevice, rowPairing, checked, legacy, migrated, requests, entered,
                       overtaken, crowded, crossed>>
        /\ closing' = closing \ {d} /\ connected' = [connected EXCEPT ![d] = None]
    BY <1>3 DEF RevokeEnds, CloseAgent
  <2>2. /\ connected' \in [Devices -> Secrets \cup {None}] /\ connected'[d] = None
        /\ \A e \in Devices : e # d => connected'[e] = connected[e]
    BY <1>t, <2>1 DEF AccountsTypeOK
  <2>3. Verified' /\ RevokedIsCutOff'
    BY <2>1, <2>2 DEF AccountsInv, Verified, RevokedIsCutOff, Known
  <2> QED
    BY <1>t, <2>1, <2>2, <2>3, RestKeeps DEF AccountsTypeOK
<1>4. CASE Disconnect(d)
  <2>1. /\ UNCHANGED <<device, pairing, txn, rowDevice, rowPairing, checked, closing, legacy, migrated, requests,
                       entered, overtaken, crowded, crossed>>
        /\ connected' = [connected EXCEPT ![d] = None]
    BY <1>4 DEF Disconnect
  <2>2. /\ connected' \in [Devices -> Secrets \cup {None}] /\ connected'[d] = None
        /\ \A e \in Devices : e # d => connected'[e] = connected[e]
    BY <1>t, <2>1 DEF AccountsTypeOK
  <2>3. Verified' /\ RevokedIsCutOff'
    BY <2>1, <2>2 DEF AccountsInv, Verified, RevokedIsCutOff, Known
  <2> QED
    BY <1>t, <2>1, <2>2, <2>3, RestKeeps DEF AccountsTypeOK
<1> QED
  BY <1>1, <1>2, <1>3, <1>4

\* A revocation waits for a claim that has the row of the device.
LEMMA RevokeKeeps ==
  ASSUME AccountsInv, NEW u \in Users, NEW d \in Devices, Revoke(u, d)
  PROVE  AccountsInv'
<1>t. AccountsTypeOK
  BY DEF AccountsInv
<1>1. /\ UNCHANGED <<pairing, txn, rowDevice, rowPairing, connected, checked, legacy, migrated, crowded, crossed>>
      /\ entered' = entered \ {d} /\ closing' = closing \cup {d} /\ rowDevice[d] = None
      /\ overtaken' = overtaken \cup {e \in {d} : checked[d] # None}
  BY DEF Revoke
<1>2. requests' \in 0..MaxRequests
  BY <1>t, Counted DEF Revoke, Requested
<1>3. /\ device' \in [Devices -> [owner : Users \cup {None}, secret : Secrets \cup {None}]]
      /\ device'[d] = NoDevice /\ \A e \in Devices : e # d => device'[e] = device[e]
  BY <1>t DEF Revoke, AccountsTypeOK, NoDevice
<1>k. \A e \in Devices : (Known(e)' => Known(e)) /\ (e # d => Known(e)' = Known(e)) /\ ~Known(d)'
  BY <1>3 DEF Known
<1>o. \A w \in Users : Owned(w)' \subseteq Owned(w)
  BY <1>3, AccountsAssumption DEF Owned, NoDevice, AccountsAssumption
<1>c. \A w \in Users : Cardinality(Owned(w)') <= Cardinality(Owned(w)) /\ Cardinality(Owned(w)') \in Nat
  BY <1>o, FS_Subset, FS_CardinalityType, OwnedFinite
<1>4. AccountsTypeOK'
  BY <1>1, <1>2, <1>3, <1>t DEF AccountsTypeOK
<1>5. Formed' /\ Locked' /\ Overlaps'
  BY <1>1 DEF AccountsInv, Formed, Locked, Overlaps, Creating, Claiming
<1>6. Agrees'
  <2>1. ASSUME NEW e \in Devices, Paired(e)', Known(e)', e \notin crossed
        PROVE  pairing'[e].secret = device'[e].secret
    <3>1. e # d /\ Known(e) /\ Paired(e)
      BY <1>1, <1>k, <2>1 DEF Paired
    <3> QED
      BY <1>1, <1>3, <2>1, <3>1 DEF AccountsInv, Agrees
  <2>2. ASSUME NEW x \in Transactions,
               (/\ Creating(x) /\ txn[x].step \in {"replace", "insert", "commit"}
                /\ txn[x].d \notin crossed /\ Known(txn[x].d))'
        PROVE  (device[txn[x].d].secret = txn[x].secret)'
    <3>1. Creating(x) /\ txn[x].d \in Devices /\ txn'[x] = txn[x]
      BY <1>1, <2>2 DEF Creating, AccountsInv, Formed
    <3>2. device'[txn[x].d] # NoDevice
      BY <2>2, <3>1 DEF Known
    <3>3. txn[x].d # d /\ Known(txn[x].d)
      BY <1>3, <3>1, <3>2 DEF Known
    <3> QED
      BY <1>1, <1>3, <2>2, <3>1, <3>3 DEF AccountsInv, Agrees
  <2> QED
    BY <1>1, <2>1, <2>2 DEF Agrees
<1>7. Few'
  <2>1. ASSUME NEW w \in Users, w \notin crowded PROVE Cardinality(Owned(w)') <= MaxDevices
    BY <1>c, <2>1, OwnedFinite, AccountsAssumption DEF AccountsInv, Few, AccountsAssumption
  <2>2. ASSUME NEW x \in Transactions,
               (Claiming(x) /\ txn[x].step \in {"insert", "commit"} /\ txn[x].u \notin crowded)'
        PROVE  Room(x)'
    <3>1. txn'[x] = txn[x] /\ Claiming(x) /\ txn[x].u \in Users /\ Room(x) /\ txn[x].d \in Devices
      BY <1>1, <2>2 DEF Claiming, AccountsInv, Formed, Few
    <3>2. CASE txn[x].step = "commit" /\ device[txn[x].d].owner = txn[x].u
      <4>1. txn[x].d # d
        BY <1>1, <3>1, <3>2, AccountsAssumption DEF AccountsInv, Locked, AccountsAssumption
      <4> QED
        BY <1>3, <3>1, <3>2, <4>1 DEF Room
    <3>3. CASE Cardinality(Owned(txn[x].u)) < MaxDevices
      <4>1. Cardinality(Owned(txn[x].u)') < MaxDevices
        BY <1>c, <3>1, <3>3, OwnedFinite, AccountsAssumption DEF AccountsAssumption
      <4> QED
        BY <3>1, <4>1 DEF Room, Owned
    <3> QED
      BY <3>1, <3>2, <3>3 DEF Room
  <2>3. (\A w \in Users : w \in crowded \/ Cardinality(Owned(w)) <= MaxDevices)'
    BY <1>1, <2>1
  <2> QED
    BY <2>2, <2>3 DEF Few
<1>8. Begun'
  BY <1>1, <1>k DEF AccountsInv, Begun, Paired
<1>9. Entered'
  BY <1>1, <1>k DEF AccountsInv, Entered
<1>10. Verified' /\ RevokedIsCutOff'
  BY <1>1, <1>k DEF AccountsInv, Verified, RevokedIsCutOff
<1> QED
  BY <1>4, <1>5, <1>6, <1>7, <1>8, <1>9, <1>10 DEF AccountsInv

\* A restart ends the transactions and takes the JSON store over at most once.
LEMMA HubStartsKeeps ==
  ASSUME AccountsInv, HubStarts
  PROVE  AccountsInv'
<1>t. AccountsTypeOK
  BY DEF AccountsInv
<1>n. NoTxn \in Txns /\ NoTxn.kind = None /\ NoTxn.step = "begin" /\ None # "create" /\ None # "claim"
  BY NoTxnTyped DEF None
<1>1. /\ UNCHANGED <<pairing, legacy, overtaken, crowded, crossed>> /\ migrated' = TRUE /\ closing' = {}
      /\ txn' = [t \in Transactions |-> NoTxn]
      /\ rowDevice' = [d \in Devices |-> None] /\ rowPairing' = [d \in Devices |-> None]
      /\ connected' = [d \in Devices |-> None] /\ checked' = [d \in Devices |-> None]
  BY DEF HubStarts
<1>2. requests' \in 0..MaxRequests
  BY <1>t, Counted DEF HubStarts, Requested
<1>x. txn' \in [Transactions -> Txns] /\ \A x \in Transactions : txn'[x].kind = None /\ txn'[x].step = "begin"
  BY <1>1, <1>n
<1>3. CASE UNCHANGED <<device, entered>>
  <2>k. \A d : Known(d)' = Known(d) /\ Paired(d)' = Paired(d)
    BY <1>1, <1>3 DEF Known, Paired
  <2>o. \A u : Owned(u)' = Owned(u)
    BY <1>3 DEF Owned
  <2>1. AccountsTypeOK'
    BY <1>1, <1>2, <1>3, <1>t, <1>x DEF AccountsTypeOK, Txns
  <2>2. Formed' /\ Locked' /\ Overlaps'
    BY <1>n, <1>x DEF Formed, Locked, Overlaps, Creating, Claiming
  <2>3. Agrees'
    BY <1>1, <1>3, <1>n, <1>x, <2>k DEF AccountsInv, Agrees, Creating
  <2>4. Few'
    BY <1>1, <1>n, <1>x, <2>o DEF AccountsInv, Few, Claiming
  <2>5. Begun' /\ Entered'
    BY <1>1, <1>3, <2>k DEF AccountsInv, Begun, Entered
  <2>6. Verified' /\ RevokedIsCutOff'
    BY <1>1 DEF Verified, RevokedIsCutOff
  <2> QED
    BY <2>1, <2>2, <2>3, <2>4, <2>5, <2>6 DEF AccountsInv
<1>4. CASE /\ Imports /\ device' = [d \in Devices |-> IF Known(d) THEN device[d] ELSE legacy[d]]
           /\ entered' = IF migrated THEN entered ELSE {d \in Devices : legacy[d] # NoDevice}
  <2>0. ~migrated /\ \A d \in Devices : ~Known(d) /\ ~Paired(d)
    BY <1>4 DEF Imports, AccountsInv, Begun
  <2>d. device' = [d \in Devices |-> legacy[d]] /\ entered' = {d \in Devices : legacy[d] # NoDevice}
    BY <1>4, <2>0
  <2>k. \A d \in Devices : ~Paired(d)' /\ (Known(d)' => d \in entered')
    BY <1>1, <2>0, <2>d DEF Known, Paired
  <2>o. \A u \in Users : Owned(u)' = {d \in Devices : legacy[d].owner = u}
    BY <2>d DEF Owned
  <2>1. AccountsTypeOK'
    <3>1. device' \in [Devices -> [owner : Users \cup {None}, secret : Secrets \cup {None}]] /\ entered' \subseteq Devices
      BY <1>t, <2>d DEF AccountsTypeOK
    <3> QED
      BY <1>1, <1>2, <1>t, <1>x, <3>1 DEF AccountsTypeOK, Txns
  <2>2. Formed' /\ Locked' /\ Overlaps'
    BY <1>n, <1>x DEF Formed, Locked, Overlaps, Creating, Claiming
  <2>3. Agrees'
    BY <1>n, <1>x, <2>k DEF Agrees, Creating
  <2>4. Few'
    <3>1. \A u \in Users : Cardinality(Owned(u)') <= MaxDevices
      BY <2>o DEF AccountsInv, Begun
    <3> QED
      BY <1>n, <1>x, <3>1 DEF Few, Claiming
  <2>5. Begun' /\ Entered'
    BY <1>1, <2>k DEF AccountsInv, Begun, Entered
  <2>6. Verified' /\ RevokedIsCutOff'
    BY <1>1 DEF Verified, RevokedIsCutOff
  <2> QED
    BY <2>1, <2>2, <2>3, <2>4, <2>5, <2>6 DEF AccountsInv
<1> QED
  BY <1>3, <1>4 DEF HubStarts

-----------------------------------------------------------------------------

LEMMA InitAccounts == AccountsInit => AccountsInv
<1> SUFFICES ASSUME AccountsInit PROVE AccountsInv
  OBVIOUS
<1>n. NoTxn \in Txns /\ NoTxn.kind = None /\ NoTxn.step = "begin" /\ None # "create" /\ None # "claim"
  BY NoTxnTyped DEF None
<1>a. MaxDevices \in Nat /\ MaxRequests \in Nat /\ IsFiniteSet(Devices) /\ None \notin Users
  BY AccountsAssumption DEF AccountsAssumption
<1>1. PICK old \in SUBSET Devices, u \in Users, s \in Secrets :
        /\ Cardinality(old) <= MaxDevices
        /\ legacy = [d \in Devices |-> IF d \in old THEN [owner |-> u, secret |-> s] ELSE NoDevice]
  BY DEF AccountsInit
<1>2. /\ device = [d \in Devices |-> NoDevice] /\ pairing = [d \in Devices |-> NoPairing]
      /\ txn = [t \in Transactions |-> NoTxn]
      /\ rowDevice = [d \in Devices |-> None] /\ rowPairing = [d \in Devices |-> None]
      /\ connected = [d \in Devices |-> None] /\ checked = [d \in Devices |-> None]
      /\ closing = {} /\ migrated = FALSE /\ requests = 0
      /\ entered = {} /\ overtaken = {} /\ crowded = {} /\ crossed = {}
  BY DEF AccountsInit
<1>x. txn \in [Transactions -> Txns] /\ \A x \in Transactions : txn[x] = NoTxn
  BY <1>2, <1>n
<1>k. \A d \in Devices : ~Known(d) /\ ~Paired(d)
  BY <1>2 DEF Known, Paired
<1>o. \A v \in Users : Owned(v) = {}
  BY <1>2, <1>a DEF Owned, NoDevice
<1>3. AccountsTypeOK
  <2>1. legacy \in [Devices -> [owner : Users \cup {None}, secret : Secrets \cup {None}]]
    BY <1>1 DEF NoDevice
  <2>2. device \in [Devices -> [owner : Users \cup {None}, secret : Secrets \cup {None}]]
    BY <1>2 DEF NoDevice
  <2>3. pairing \in [Devices -> [code : 0..MaxRequests, secret : Secrets \cup {None}]] /\ requests \in 0..MaxRequests
    BY <1>2, <1>a DEF NoPairing
  <2> QED
    BY <1>2, <1>x, <2>1, <2>2, <2>3 DEF AccountsTypeOK, Txns
<1>4. Formed /\ Locked /\ Overlaps /\ Agrees
  BY <1>k, <1>n, <1>x DEF Formed, Locked, Overlaps, Agrees, Creating, Claiming
<1>5. Few
  <2>1. \A v \in Users : Cardinality(Owned(v)) <= MaxDevices
    BY <1>a, <1>o, FS_EmptySet
  <2> QED
    BY <1>n, <1>x, <2>1 DEF Few, Claiming
<1>6. Begun
  <2>1. ASSUME NEW v \in Users PROVE Cardinality({d \in Devices : legacy[d].owner = v}) <= MaxDevices
    <3>1. {d \in Devices : legacy[d].owner = v} \subseteq old
      BY <1>1, <1>a DEF NoDevice
    <3>2. IsFiniteSet(old)
      BY <1>a, FS_Subset
    <3>3. /\ Cardinality({d \in Devices : legacy[d].owner = v}) <= Cardinality(old)
          /\ Cardinality({d \in Devices : legacy[d].owner = v}) \in Nat /\ Cardinality(old) \in Nat
      BY <3>1, <3>2, FS_Subset, FS_CardinalityType
    <3> QED
      BY <1>1, <1>a, <3>3
  <2> QED
    BY <1>k, <1>x, <2>1 DEF Begun
<1>7. Entered /\ Verified /\ RevokedIsCutOff
  BY <1>2, <1>k DEF Entered, Verified, RevokedIsCutOff
<1> QED
  BY <1>3, <1>4, <1>5, <1>6, <1>7 DEF AccountsInv

LEMMA StutterAccounts == AccountsInv /\ UNCHANGED accountVars => AccountsInv'
<1> SUFFICES ASSUME AccountsInv, UNCHANGED accountVars PROVE AccountsInv'
  OBVIOUS
<1>1. UNCHANGED <<device, txn, rowDevice, rowPairing, legacy, migrated, entered, overtaken, crowded, crossed, pairing,
                  connected, checked, closing, requests>>
  BY DEF accountVars
<1>2. Verified' /\ RevokedIsCutOff'
  BY <1>1 DEF AccountsInv, Verified, RevokedIsCutOff, Known
<1> QED
  BY <1>1, <1>2, RestKeeps DEF AccountsInv, AccountsTypeOK

LEMMA NextAccounts == AccountsInv /\ AccountsNext => AccountsInv'
<1> SUFFICES ASSUME AccountsInv, AccountsNext PROVE AccountsInv'
  OBVIOUS
<1>1. ASSUME NEW t \in Transactions, TransactionStep(t) PROVE AccountsInv'
  BY <1>1, CreateDeviceKeeps, CreateReplacesKeeps, CreateInsertsKeeps, CreateCommitsKeeps, ClaimPairingRowKeeps,
     ClaimDeviceKeeps, ClaimCountsKeeps, ClaimInsertsKeeps, ClaimCommitsKeeps, DeadlockAbortsKeeps
     DEF TransactionStep
<1>2. ASSUME NEW t \in Transactions, NEW d \in Devices,
             (\E s \in Secrets : CreatePairing(t, d, s)) \/ (\E u \in Users : ClaimPairing(t, u, d))
      PROVE  AccountsInv'
  BY <1>2, CreatePairingKeeps, ClaimPairingKeeps
<1>3. ASSUME NEW d \in Devices,
             \/ Expire(d) \/ Connected(d) \/ RevokeEnds(d) \/ Disconnect(d)
             \/ \E s \in Secrets : CheckDevice(d, s)
             \/ \E u \in Users : Revoke(u, d)
      PROVE  AccountsInv'
  BY <1>3, ExpireKeeps, ConnectionsKeep, RevokeKeeps
<1> QED
  BY <1>1, <1>2, <1>3, HubStartsKeeps DEF AccountsNext

LEMMA HubInv == Spec => []AccountsInv
<1>1. Init => AccountsInv
  BY InitAccounts DEF Init
<1>2. AccountsInv /\ [Next]_vars => AccountsInv'
  BY NextAccounts, StutterAccounts DEF Next, vars
<1> QED
  BY <1>1, <1>2, PTL DEF Spec

\* A device that was revoked is disconnected once the request has ended, unless
\* it was being verified when its row was deleted (server.mjs, DELETE
\* /api/devices and the upgrade handler).
THEOREM CutOffHolds == Spec => []RevokedIsCutOff
<1>1. AccountsInv => RevokedIsCutOff
  BY DEF AccountsInv
<1> QED
  BY <1>1, HubInv, PTL

\* However transactions overlap: a user has no more devices than allowed, unless
\* claims of that user have overlapped; the pairing of a known device has the
\* secret of that device, unless it was made while the device was being claimed;
\* and a revoked device comes back by a claim only (postgres-store.mjs).
THEOREM RulesHold == Spec => []StoreKeepsItsRules
<1>1. AccountsInv => StoreKeepsItsRules
  BY DEF AccountsInv, Few, Agrees, Entered, StoreKeepsItsRules
<1> QED
  BY <1>1, HubInv, PTL

-----------------------------------------------------------------------------
(* The links: types *)

FrameTypes == {"message", "chunk", "open", "close", "running", "other", "accepted", "replaced", "command", Bye}

\* What a channel carries; what concerns a browser names it, and messages are numbered.
Messages ==
  {m \in [type : FrameTypes, b : Browsers \cup {Nobody}, n : 0..MaxMessages, k : 0..2] :
     /\ m.type \in {"message", "chunk", "open", "close"} => m.b \in Browsers
     /\ m.type \in {"message", "chunk"} => m.n # 0
     /\ m.type = "chunk" => m.k # 0}
AppStates == {"connecting", "open", "closed"}
HubStates == {"verifying", "open", "closing", "ended", "closed"}
LineStates == [of : Instances \cup {Nobody}, app : AppStates, hub : HubStates,
               up : Seq(Messages), down : Seq(Messages), cut : BOOLEAN]
InstanceStates == [relay : Conns \cup {NoConn}, stopped : BOOLEAN, fired : BOOLEAN,
                   timer : BOOLEAN, runs : BOOLEAN, command : BOOLEAN]
BrowserStates == [entered : BOOLEAN, socket : {"none", "open", "closing", "closed"},
                  chunks : SUBSET ((1..MaxMessages) \X {1, 2})]
LocalStates == [host : Instances \cup {Nobody}, mapped : BOOLEAN,
                socket : {"none", "connecting", "open", "closing", "closed"}, waiting : Seq(1..MaxMessages)]

HubTyped ==
  /\ agent \in Conns \cup {NoConn} /\ hubState \in {"none", "other", "starting", "running"}
  /\ browser \in [Browsers -> BrowserStates] /\ heard \in [Browsers -> Seq(1..MaxMessages)]
  /\ ghost \in BOOLEAN /\ unpurged \in BOOLEAN /\ late \in BOOLEAN
AppTyped ==
  /\ local \in [Browsers -> LocalStates] /\ took \in [Browsers -> Seq(1..MaxMessages)]
  /\ said \in [Browsers -> 0..MaxMessages]
LinkCounted == typed \in [Browsers -> 0..MaxMessages] /\ events \in 0..MaxEvents

\* A connection: one that its client has closed or the network has cut ends with
\* the frame that says so; one that is being verified has told its client
\* nothing, so its client waits; the first that it hears is that it was accepted.
LineOK(r) ==
  /\ r \in LineStates
  /\ r.hub \in {"verifying", "open", "closing"} /\ (r.app = "closed" \/ r.cut) =>
       r.up # <<>> /\ r.up[Len(r.up)].type = Bye
  /\ r.hub = "verifying" => r.app # "open" /\ (r.down = <<>> \/ (r.cut /\ r.down = <<Frame(Bye)>>))
  /\ r.app = "connecting" =>
       /\ ~r.cut => r.up = <<>>
       /\ r.hub # "verifying" /\ ~r.cut => r.down # <<>>
       /\ r.down # <<>> => r.down[1].type \in {"accepted", Bye}
  /\ r.app = "closed" /\ r.hub = "closed" => r = Closed
LinesOK(cs) == cs \in [Conns -> LineStates] /\ \A c \in Conns : LineOK(cs[c])

-----------------------------------------------------------------------------
(* One connection *)

Tidied(r) == IF r.app = "closed" /\ r.hub = "closed" THEN Closed ELSE r

LEMMA FramesAreMessages ==
  /\ \A type \in FrameTypes \ {"message", "chunk", "open", "close"} : Frame(type) \in Messages
  /\ \A type \in FrameTypes : Frame(type).type = type
BY RelayLinkAssumption DEF RelayLinkAssumption, Frame, M, Messages

LEMMA BrowserFrames ==
  ASSUME NEW b \in Browsers
  PROVE  /\ \A n \in 1..MaxMessages : M("message", b, n, 0) \in Messages
         /\ \A n \in 1..MaxMessages, k \in {1, 2} : M("chunk", b, n, k) \in Messages
         /\ M("open", b, 0, 0) \in Messages /\ M("close", b, 0, 0) \in Messages
         /\ \A type \in FrameTypes, n \in 0..MaxMessages, k \in 0..2 :
              M(type, b, n, k).type = type /\ M(type, b, n, k).b = b /\ M(type, b, n, k).n = n /\ M(type, b, n, k).k = k
BY RelayLinkAssumption DEF RelayLinkAssumption, M, Messages, FrameTypes

LEMMA Tails ==
  ASSUME NEW s \in Seq(Messages), s # <<>>
  PROVE  /\ Tail(s) \in Seq(Messages) /\ Len(s) \in Nat \ {0} /\ Len(Tail(s)) = Len(s) - 1
         /\ Head(s) = s[1] /\ s[1] \in Messages
         /\ \A k \in 1..(Len(s) - 1) : Tail(s)[k] = s[k + 1]
<1>1. Len(s) \in Nat \ {0} /\ Head(s) = s[1] /\ s[1] \in Messages
  OBVIOUS
<1> QED
  BY <1>1, HeadTailProperties

LEMMA ClosedLine == LineOK(Closed)
BY DEF LineOK, Closed, LineStates, AppStates, HubStates, Bye

LEMMA NewLine ==
  ASSUME NEW i \in Instances
  PROVE  LineOK([Closed EXCEPT !.of = i, !.app = "connecting", !.hub = "verifying"])
<1> DEFINE n == [Closed EXCEPT !.of = i, !.app = "connecting", !.hub = "verifying"]
<1>1. Closed \in LineStates /\ Closed.up = <<>> /\ Closed.down = <<>> /\ ~Closed.cut
  BY ClosedLine DEF LineOK, Closed
<1> HIDE DEF Closed
<1>2. /\ n \in LineStates /\ n.app = "connecting" /\ n.hub = "verifying"
      /\ n.up = <<>> /\ n.down = <<>> /\ ~n.cut
  BY <1>1 DEF LineStates, AppStates, HubStates
<1> HIDE DEF n
<1>3. LineOK(n)
  BY <1>2 DEF LineOK
<1> QED
  BY <1>3 DEF n

\* The client sends something over an open connection.
LEMMA SaidLine ==
  ASSUME NEW r, LineOK(r), r.app = "open", ~r.cut, NEW ms \in Seq(Messages)
  PROVE  LineOK([r EXCEPT !.up = @ \o ms])
<1>1. r.up \o ms \in Seq(Messages)
  BY DEF LineOK, LineStates
<1> QED
  BY <1>1 DEF LineOK, LineStates

\* So does the hub.
LEMMA ToldLine ==
  ASSUME NEW r, LineOK(r), r.hub = "open", ~r.cut, NEW m \in Messages
  PROVE  LineOK([r EXCEPT !.down = Append(@, m)])
<1>1. r.down \in Seq(Messages) /\ Append(r.down, m) \in Seq(Messages) /\ Append(r.down, m) # <<>>
  BY DEF LineOK, LineStates
<1>2. r.down # <<>> => Append(r.down, m)[1] = r.down[1]
  BY <1>1
<1> QED
  BY <1>1, <1>2 DEF LineOK, LineStates

\* The hub takes a connection that its client has given up.
LEMMA RefusedLine ==
  ASSUME NEW r, LineOK(r), r.hub = "verifying", r.up # <<>>
  PROVE  LineOK(Tidied([r EXCEPT !.hub = "closed", !.up = <<>>]))
<1> DEFINE n == [r EXCEPT !.hub = "closed", !.up = <<>>]
<1>e. <<>> \in Seq(Messages)
  OBVIOUS
<1>1. n \in LineStates /\ n.hub = "closed" /\ n.up = <<>> /\ n.app = r.app /\ n.cut = r.cut /\ n.down = r.down
  BY <1>e DEF LineOK, LineStates, HubStates
<1> HIDE DEF n
<1>2. n.app # "closed" => LineOK(n)
  BY <1>1 DEF LineOK
<1>3. LineOK(Tidied(n))
  BY <1>1, <1>2, ClosedLine DEF Tidied
<1> QED
  BY <1>3 DEF n

\* It accepts one.
LEMMA AcceptedLine ==
  ASSUME NEW r, LineOK(r), r.hub = "verifying"
  PROVE  LineOK([r EXCEPT !.hub = "open", !.down = IF r.cut THEN @ ELSE Append(@, Frame("accepted"))])
<1>1. Frame("accepted") \in Messages /\ Frame("accepted").type = "accepted" /\ Frame(Bye).type = Bye
  BY FramesAreMessages DEF FrameTypes, Bye
<1>2. r.down \in Seq(Messages) /\ Append(r.down, Frame("accepted")) \in Seq(Messages)
  BY <1>1 DEF LineOK, LineStates
<1>3. CASE r.cut
  BY <1>1, <1>3 DEF LineOK, LineStates, HubStates
<1>4. CASE ~r.cut
  <2>1. r.down = <<>>
    BY <1>4 DEF LineOK
  <2>2. Append(r.down, Frame("accepted")) # <<>> /\ Append(r.down, Frame("accepted"))[1] = Frame("accepted")
    BY <2>1
  <2> HIDE DEF Frame
  <2> QED
    BY <1>1, <1>2, <1>4, <2>2 DEF LineOK, LineStates, HubStates
<1> QED
  BY <1>3, <1>4

\* The hub has told it that it was replaced.
LEMMA ReplacedLine ==
  ASSUME NEW r, LineOK(r), r.hub = "open"
  PROVE  LineOK([r EXCEPT !.hub = "closing", !.down = IF r.cut THEN @ ELSE Append(@, Frame("replaced"))])
<1> DEFINE s == IF r.cut THEN r ELSE [r EXCEPT !.down = Append(@, Frame("replaced"))]
<1>1. Frame("replaced") \in Messages
  BY FramesAreMessages DEF FrameTypes, Bye
<1>2. LineOK(s) /\ s.hub = "open"
  BY <1>1, ToldLine DEF LineOK, LineStates
<1>3. [r EXCEPT !.hub = "closing", !.down = IF r.cut THEN @ ELSE Append(@, Frame("replaced"))] = [s EXCEPT !.hub = "closing"]
  BY DEF LineOK, LineStates
<1> HIDE DEF s
<1>4. LineOK([s EXCEPT !.hub = "closing"])
  BY <1>2 DEF LineOK, LineStates, HubStates
<1> QED
  BY <1>3, <1>4

\* The hub has seen it close.
LEMMA EndedLine ==
  ASSUME NEW r, LineOK(r), r.hub = "ended"
  PROVE  LineOK(Tidied([r EXCEPT !.hub = "closed", !.up = <<>>]))
<1> DEFINE n == [r EXCEPT !.hub = "closed", !.up = <<>>]
<1>e. <<>> \in Seq(Messages)
  OBVIOUS
<1>1. n \in LineStates /\ n.hub = "closed" /\ n.up = <<>> /\ n.app = r.app /\ n.cut = r.cut /\ n.down = r.down
  BY <1>e DEF LineOK, LineStates, HubStates
<1> HIDE DEF n
<1>2. n.app # "closed" => LineOK(n)
  BY <1>1 DEF LineOK
<1>3. LineOK(Tidied(n))
  BY <1>1, <1>2, ClosedLine DEF Tidied
<1> QED
  BY <1>3 DEF n

\* The hub has taken what comes first.
LEMMA HeardLine ==
  ASSUME NEW r, LineOK(r), r.hub \in {"open", "closing"}, r.up # <<>>
  PROVE  LineOK([r EXCEPT !.up = Tail(@), !.hub = IF Head(r.up).type = Bye THEN "ended" ELSE @])
<1>1. r.up \in Seq(Messages) /\ Tail(r.up) \in Seq(Messages) /\ Head(r.up) = r.up[1] /\ Len(r.up) > 0
  BY DEF LineOK, LineStates
<1>2. CASE Head(r.up).type = Bye
  BY <1>1, <1>2 DEF LineOK, LineStates, HubStates
<1>3. CASE Head(r.up).type # Bye
  <2>1. ASSUME r.app = "closed" \/ r.cut PROVE Tail(r.up) # <<>> /\ Tail(r.up)[Len(Tail(r.up))].type = Bye
    <3>1. r.up[Len(r.up)].type = Bye
      BY <2>1 DEF LineOK
    <3>2. Len(r.up) # 1
      BY <1>1, <1>3, <3>1
    <3>3. Len(Tail(r.up)) = Len(r.up) - 1 /\ Len(r.up) \in Nat \ {0} /\ \A j \in 1..(Len(r.up) - 1) : Tail(r.up)[j] = r.up[j + 1]
      BY <1>1, Tails
    <3> DEFINE size == Len(r.up)
               rest == Tail(r.up)
    <3>0. size \in Nat \ {0, 1} /\ Len(rest) = size - 1 /\ rest \in Seq(Messages)
          /\ \A j \in 1..(size - 1) : rest[j] = r.up[j + 1]
      BY <1>1, <3>2, <3>3
    <3>s. r.up[size].type = Bye
      BY <3>1
    <3>n. Len(Tail(r.up)) = Len(rest) /\ Tail(r.up) = rest
      OBVIOUS
    <3> HIDE DEF size, rest
    <3>4. size - 1 \in 1..(size - 1) /\ size - 1 + 1 = size
      BY <3>0
    <3>5. rest[size - 1] = r.up[size]
      BY <3>0, <3>4
    <3>6. Len(rest) = size - 1 /\ rest # <<>>
      BY <3>0
    <3> QED
      BY <3>n, <3>s, <3>5, <3>6
  <2> QED
    BY <1>1, <1>3, <2>1 DEF LineOK, LineStates, HubStates
<1> QED
  BY <1>2, <1>3

\* The client has closed it.
LEMMA LeftLine ==
  ASSUME NEW r, LineOK(r), r.app # "closed"
  PROVE  LineOK(Tidied([r EXCEPT !.app = "closed", !.down = <<>>, !.up = IF r.cut THEN @ ELSE Append(@, Frame(Bye))]))
<1> DEFINE up == IF r.cut THEN r.up ELSE Append(r.up, Frame(Bye))
<1>1. Frame(Bye) \in Messages /\ Frame(Bye).type = Bye
  BY FramesAreMessages DEF FrameTypes, Bye
<1>2. up \in Seq(Messages) /\ (r.hub \in {"verifying", "open", "closing"} => up # <<>> /\ up[Len(up)].type = Bye)
  BY <1>1 DEF LineOK, LineStates
<1> HIDE DEF up
<1> DEFINE n == [r EXCEPT !.app = "closed", !.down = <<>>, !.up = up]
<1>e. <<>> \in Seq(Messages)
  OBVIOUS
<1>3. n \in LineStates /\ n.app = "closed" /\ n.up = up /\ n.down = <<>> /\ n.hub = r.hub
  BY <1>2, <1>e DEF LineOK, LineStates, AppStates
<1>4. [r EXCEPT !.app = "closed", !.down = <<>>, !.up = IF r.cut THEN @ ELSE Append(@, Frame(Bye))] = n
  BY DEF up, LineOK, LineStates
<1> HIDE DEF n
<1>5. n.hub # "closed" => LineOK(n)
  BY <1>2, <1>3 DEF LineOK
<1>6. LineOK(Tidied(n))
  BY <1>3, <1>5, ClosedLine DEF Tidied
<1> QED
  BY <1>4, <1>6

\* The client learns that it was accepted, or takes what comes next.
LEMMA TakenLine ==
  ASSUME NEW r, LineOK(r), r.app # "closed", r.down # <<>>, Head(r.down).type # Bye
  PROVE  /\ r.app = "connecting" => Head(r.down).type = "accepted"
         /\ LineOK([r EXCEPT !.app = "open", !.down = Tail(@)])
         /\ r.hub # "verifying"
<1>1. r.down \in Seq(Messages) /\ Tail(r.down) \in Seq(Messages) /\ Head(r.down) = r.down[1] /\ Len(r.down) > 0
  BY DEF LineOK, LineStates
<1>2. r.app = "connecting" => Head(r.down).type = "accepted"
  BY <1>1 DEF LineOK
<1>3. Head(<<Frame(Bye)>>).type = Bye
  BY FramesAreMessages DEF FrameTypes, Bye
<1>4. r.hub # "verifying"
  BY <1>3 DEF LineOK
<1>5. LineOK([r EXCEPT !.app = "open", !.down = Tail(@)])
  BY <1>1, <1>4 DEF LineOK, LineStates, AppStates
<1> QED
  BY <1>2, <1>4, <1>5

\* The network has cut it.
LEMMA CutLine ==
  ASSUME NEW r, LineOK(r), r.app # "closed", ~r.cut, NEW k \in 0..Len(r.up), NEW l \in 0..Len(r.down)
  PROVE  LineOK([r EXCEPT !.cut = TRUE, !.up = Append(SubSeq(@, 1, k), Frame(Bye)), !.down = Append(SubSeq(@, 1, l), Frame(Bye))])
<1> DEFINE up == Append(SubSeq(r.up, 1, k), Frame(Bye))
           down == Append(SubSeq(r.down, 1, l), Frame(Bye))
<1>1. Frame(Bye) \in Messages /\ Frame(Bye).type = Bye
  BY FramesAreMessages DEF FrameTypes, Bye
<1>2. r.up \in Seq(Messages) /\ r.down \in Seq(Messages)
  BY DEF LineOK, LineStates
<1>3. SubSeq(r.up, 1, k) \in Seq(Messages) /\ SubSeq(r.down, 1, l) \in Seq(Messages) /\ Len(SubSeq(r.down, 1, l)) = l
  BY <1>2
<1>4. up \in Seq(Messages) /\ up # <<>> /\ up[Len(up)].type = Bye
  BY <1>1, <1>3
<1>5. down \in Seq(Messages) /\ down # <<>> /\ (l = 0 => down[1] = Frame(Bye)) /\ (l # 0 => down[1] = r.down[1])
  <2> DEFINE s == SubSeq(r.down, 1, l)
  <2>1. s \in Seq(Messages) /\ Len(s) = l /\ (l # 0 => s[1] = r.down[1])
    BY <1>2, <1>3
  <2> HIDE DEF s
  <2> DEFINE f == Frame(Bye)
  <2>2. f \in Messages
    BY <1>1
  <2> HIDE DEF f
  <2>3. Append(s, f) \in Seq(Messages) /\ Append(s, f) # <<>>
        /\ Append(s, f)[Len(s) + 1] = f /\ \A j \in 1..Len(s) : Append(s, f)[j] = s[j]
    BY <2>1, <2>2, AppendProperties
  <2>4. down = Append(s, f)
    BY DEF s, f
  <2>5. (l = 0 => down[1] = f) /\ (l # 0 => down[1] = s[1])
    BY <2>1, <2>3, <2>4
  <2> HIDE DEF down
  <2> QED
    BY <2>1, <2>3, <2>4, <2>5 DEF f
<1>6. ASSUME r.down = <<>> PROVE down = <<Frame(Bye)>>
  <2>1. l = 0
    BY <1>6
  <2>2. SubSeq(r.down, 1, l) = <<>>
    BY <1>3, <2>1
  <2>3. \A x : Append(<<>>, x) = <<x>>
    OBVIOUS
  <2>4. down = Append(<<>>, Frame(Bye))
    BY <2>2
  <2> HIDE DEF down
  <2> QED
    BY <2>3, <2>4
<1>7. l # 0 => r.down # <<>>
  BY <1>2
<1> HIDE DEF up, down
<1>8. LineOK([r EXCEPT !.cut = TRUE, !.up = up, !.down = down])
  BY <1>1, <1>4, <1>5, <1>6, <1>7 DEF LineOK, LineStates
<1> QED
  BY <1>8 DEF up, down

-----------------------------------------------------------------------------
(* The connections and the instances *)

\* A relay client has at most one connection that it has not closed, and a
\* connection that is not closed is its client's.
Owners ==
  /\ \A i \in Instances : instance[i].relay # NoConn =>
       conn[instance[i].relay].of = i /\ conn[instance[i].relay].app # "closed"
  /\ \A c \in Conns : conn[c].app # "closed" => conn[c].of \in Instances /\ instance[conn[c].of].relay = c

\* A client that is stopped or waits to connect has no connection, and one that
\* was replaced is stopped.
Waits ==
  \A i \in Instances :
    /\ instance[i].stopped => instance[i].relay = NoConn /\ ~instance[i].timer
    /\ instance[i].fired => instance[i].stopped
    /\ instance[i].timer => instance[i].relay = NoConn

AgentOpen == agent # NoConn => conn[agent].hub \in {"open", "ended"}

\* Unless the hub has accepted a connection its client had given up, one of the
\* instances has not been replaced and is not going to be.
NoneReplaced(s) == \A k \in 1..Len(s) : s[k].type # "replaced"
Stays(i) == ~instance[i].fired /\ (instance[i].relay # NoConn => NoneReplaced(conn[instance[i].relay].down))
OneStays == ~late /\ Instances # {} => \E i \in Instances : Stays(i)

\* The socket to the local server is an instance's.
Hosted ==
  \A b \in Browsers : /\ local[b].socket # "none" => local[b].host \in Instances
                      /\ local[b].mapped => local[b].socket # "none"

LinkTypes ==
  HubTyped /\ AppTyped /\ LinkCounted /\ LinesOK(conn) /\ instance \in [Instances -> InstanceStates] /\ Hosted
LinkInv == LinkTypes /\ Owners /\ Waits /\ AgentOpen /\ OneStays

LEMMA LinkTypesOK == LinkTypes => LinkTypeOK
BY DEF LinkTypes, HubTyped, AppTyped, LinkCounted, LinesOK, LineStates, AppStates, HubStates, InstanceStates,
       BrowserStates, LocalStates, LinkTypeOK

LEMMA NoNumber == NoConn \notin Conns
BY RelayLinkAssumption DEF RelayLinkAssumption

\* Tidying changes no connection that may be.
LEMMA TidyEffect ==
  ASSUME NEW cs \in [Conns -> LineStates], \A c \in Conns : LineOK(Tidied(cs[c]))
  PROVE  LinesOK(Tidy(cs)) /\ \A c \in Conns : Tidy(cs)[c] = Tidied(cs[c])
<1>1. \A c \in Conns : Tidy(cs)[c] = Tidied(cs[c])
  BY DEF Tidy, Tidied
<1>2. \A c \in Conns : LineOK(Tidy(cs)[c])
  BY <1>1
<1>3. Tidy(cs) \in [Conns -> LineStates]
  BY <1>2 DEF LineOK, Tidy
<1> QED
  BY <1>1, <1>2, <1>3 DEF LinesOK

LEMMA TidiedSame == ASSUME NEW r, LineOK(r) PROVE Tidied(r) = r
BY DEF Tidied, LineOK

LEMMA UpEffect ==
  ASSUME NEW cs, LinesOK(cs), NEW i \in Instances, instance[i].relay \in Conns \cup {NoConn}, NEW ms \in Seq(Messages)
  PROVE  /\ LinesOK(Up(cs, i, ms))
         /\ \A c \in Conns :
              Up(cs, i, ms)[c] = IF c = instance[i].relay /\ cs[c].app = "open" /\ ~cs[c].cut
                                 THEN [cs[c] EXCEPT !.up = @ \o ms] ELSE cs[c]
<1> DEFINE c == instance[i].relay
<1>1. CASE c # NoConn /\ cs[c].app = "open" /\ ~cs[c].cut
  <2> DEFINE new == [cs[c] EXCEPT !.up = @ \o ms]
  <2>1. c \in Conns /\ LineOK(new) /\ new \in LineStates
    BY <1>1, SaidLine DEF LinesOK, LineOK
  <2>2. Up(cs, i, ms) = [cs EXCEPT ![c] = new]
    BY <1>1 DEF Up
  <2> HIDE DEF new
  <2>3. LinesOK(Up(cs, i, ms))
    BY <2>1, <2>2 DEF LinesOK
  <2>4. \A d \in Conns : Up(cs, i, ms)[d] = IF d = c THEN new ELSE cs[d]
    BY <2>1, <2>2 DEF LinesOK
  <2> QED
    BY <1>1, <2>3, <2>4 DEF new
<1>2. CASE ~(c # NoConn /\ cs[c].app = "open" /\ ~cs[c].cut)
  BY <1>2, NoNumber DEF Up
<1> QED
  BY <1>1, <1>2

LEMMA DownEffect ==
  ASSUME NEW cs, LinesOK(cs), NEW a \in Conns \cup {NoConn}, NEW m \in Messages
  PROVE  /\ LinesOK(Down(cs, a, m))
         /\ \A c \in Conns :
              Down(cs, a, m)[c] = IF c = a /\ cs[c].hub = "open" /\ ~cs[c].cut
                                  THEN [cs[c] EXCEPT !.down = Append(@, m)] ELSE cs[c]
<1>1. CASE a # NoConn /\ cs[a].hub = "open" /\ ~cs[a].cut
  <2> DEFINE new == [cs[a] EXCEPT !.down = Append(@, m)]
  <2>1. a \in Conns /\ LineOK(new) /\ new \in LineStates
    BY <1>1, ToldLine DEF LinesOK, LineOK
  <2>2. Down(cs, a, m) = [cs EXCEPT ![a] = new]
    BY <1>1 DEF Down
  <2> HIDE DEF new
  <2>3. LinesOK(Down(cs, a, m))
    BY <2>1, <2>2 DEF LinesOK
  <2>4. \A d \in Conns : Down(cs, a, m)[d] = IF d = a THEN new ELSE cs[d]
    BY <2>1, <2>2 DEF LinesOK
  <2> QED
    BY <1>1, <2>3, <2>4 DEF new
<1>2. CASE ~(a # NoConn /\ cs[a].hub = "open" /\ ~cs[a].cut)
  BY <1>2, NoNumber DEF Down
<1> QED
  BY <1>1, <1>2

LEMMA AppClosedEffect ==
  ASSUME NEW cs, LinesOK(cs), NEW c \in Conns, cs[c].app # "closed"
  PROVE  /\ LinesOK(AppClosed(cs, c))
         /\ AppClosed(cs, c)[c] =
              Tidied([cs[c] EXCEPT !.app = "closed", !.down = <<>>, !.up = IF cs[c].cut THEN @ ELSE Append(@, Frame(Bye))])
         /\ AppClosed(cs, c)[c].app = "closed"
         /\ \A d \in Conns \ {c} : AppClosed(cs, c)[d] = cs[d]
<1> DEFINE up == IF cs[c].cut THEN cs[c].up ELSE Append(cs[c].up, Frame(Bye))
           new == [cs[c] EXCEPT !.app = "closed", !.down = <<>>, !.up = up]
           ds == [cs EXCEPT ![c] = new]
<1>1. LineOK(cs[c]) /\ cs[c] \in LineStates
  BY DEF LinesOK, LineOK
<1>2. LineOK(Tidied(new))
  BY <1>1, LeftLine
<1>3. Frame(Bye) \in Messages /\ <<>> \in Seq(Messages)
  BY FramesAreMessages DEF FrameTypes, Bye
<1>u. up \in Seq(Messages)
  BY <1>1, <1>3 DEF LineStates
<1>4. AppClosed(cs, c) = Tidy(ds)
  BY DEF AppClosed
<1> HIDE DEF up
<1>5. new \in LineStates /\ new.app = "closed"
  BY <1>1, <1>3, <1>u DEF LineStates, AppStates
<1> HIDE DEF new
<1>6. ds \in [Conns -> LineStates] /\ ds[c] = new /\ \A d \in Conns \ {c} : ds[d] = cs[d]
  BY <1>5 DEF LinesOK
<1> HIDE DEF ds
<1>7. \A d \in Conns : LineOK(Tidied(ds[d]))
  BY <1>2, <1>6, TidiedSame DEF LinesOK
<1>8. LinesOK(Tidy(ds)) /\ \A d \in Conns : Tidy(ds)[d] = Tidied(ds[d])
  BY <1>6, <1>7, TidyEffect
<1>9. Tidied(new).app = "closed"
  BY <1>5 DEF Tidied, Closed
<1>10. \A d \in Conns \ {c} : Tidied(ds[d]) = cs[d]
  BY <1>6, TidiedSame DEF LinesOK
<1> QED
  BY <1>4, <1>6, <1>8, <1>9, <1>10 DEF new, up

\* What changes no owner of a connection.
EndsKept ==
  \A c \in Conns : /\ conn'[c].app = "closed" <=> conn[c].app = "closed"
                   /\ conn[c].app # "closed" => conn'[c].of = conn[c].of
BoundKept ==
  /\ instance' \in [Instances -> InstanceStates]
  /\ \A i \in Instances :
       /\ instance'[i].relay = instance[i].relay /\ instance'[i].stopped = instance[i].stopped
       /\ instance'[i].timer = instance[i].timer /\ instance'[i].fired = instance[i].fired
NoneNewlyReplaced ==
  \A c \in Conns : conn[c].app # "closed" /\ NoneReplaced(conn[c].down) => NoneReplaced(conn'[c].down)

LEMMA OwnersRest ==
  ASSUME LinkInv, EndsKept, BoundKept
  PROVE  Owners' /\ Waits'
<1>1. Waits'
  BY DEF LinkInv, Waits, BoundKept
<1>2. \A i \in Instances : instance'[i].relay # NoConn =>
        conn'[instance'[i].relay].of = i /\ conn'[instance'[i].relay].app # "closed"
  <2> SUFFICES ASSUME NEW i \in Instances, instance'[i].relay # NoConn
               PROVE  conn'[instance'[i].relay].of = i /\ conn'[instance'[i].relay].app # "closed"
    OBVIOUS
  <2>1. instance'[i].relay = instance[i].relay /\ instance[i].relay \in Conns
    BY DEF BoundKept, LinkInv, LinkTypes, InstanceStates
  <2>2. conn[instance[i].relay].of = i /\ conn[instance[i].relay].app # "closed"
    BY <2>1 DEF LinkInv, Owners
  <2> QED
    BY <2>1, <2>2 DEF EndsKept
<1>3. \A c \in Conns : conn'[c].app # "closed" => conn'[c].of \in Instances /\ instance'[conn'[c].of].relay = c
  BY DEF LinkInv, Owners, EndsKept, BoundKept
<1> QED
  BY <1>1, <1>2, <1>3 DEF Owners

LEMMA StaysOn ==
  ASSUME LinkInv, BoundKept, NoneNewlyReplaced, late' = late
  PROVE  OneStays'
<1> SUFFICES ASSUME ~late, Instances # {} PROVE \E i \in Instances : Stays(i)'
  BY DEF OneStays
<1>1. PICK i \in Instances : Stays(i)
  BY DEF LinkInv, OneStays
<1>2. instance[i].relay # NoConn => instance[i].relay \in Conns /\ conn[instance[i].relay].app # "closed"
  BY DEF LinkInv, LinkTypes, InstanceStates, Owners
<1>3. Stays(i)'
  BY <1>1, <1>2 DEF Stays, BoundKept, NoneNewlyReplaced
<1> QED
  BY <1>3

\* An instance loses its connection, and goes on unless it was replaced.
LEMMA LosesConnection ==
  ASSUME LinkInv, NEW i \in Instances, instance[i].relay # NoConn, conn' = AppClosed(conn, instance[i].relay),
         NEW n \in InstanceStates, instance' = [instance EXCEPT ![i] = n], n.relay = NoConn,
         n.stopped => ~n.timer, n.fired => n.stopped, late' = late,
         n.fired => ~Stays(i)
  PROVE  Owners' /\ Waits' /\ OneStays'
<1> DEFINE c == instance[i].relay
<1>1. /\ c \in Conns /\ conn[c].of = i /\ conn[c].app # "closed" /\ LinesOK(conn)
      /\ instance \in [Instances -> InstanceStates]
  BY DEF LinkInv, LinkTypes, InstanceStates, Owners
<1>2. conn'[c].app = "closed" /\ \A d \in Conns \ {c} : conn'[d] = conn[d]
  BY <1>1, AppClosedEffect
<1>3. instance'[i] = n /\ \A x \in Instances \ {i} : instance'[x] = instance[x]
  BY <1>1
<1>4. \A x \in Instances \ {i} : instance[x].relay # c
  BY <1>1 DEF LinkInv, Owners
<1>5. Waits'
  BY <1>3 DEF LinkInv, Waits
<1>6. Owners'
  <2>1. \A x \in Instances : instance'[x].relay # NoConn =>
          conn'[instance'[x].relay].of = x /\ conn'[instance'[x].relay].app # "closed"
    <3> SUFFICES ASSUME NEW x \in Instances, instance'[x].relay # NoConn
                 PROVE  conn'[instance'[x].relay].of = x /\ conn'[instance'[x].relay].app # "closed"
      OBVIOUS
    <3>1. x # i /\ instance'[x] = instance[x]
      BY <1>3
    <3>2. instance[x].relay \in Conns \ {c}
      BY <1>1, <1>4, <3>1 DEF InstanceStates
    <3> QED
      BY <1>2, <3>1, <3>2 DEF LinkInv, Owners
  <2>2. \A d \in Conns : conn'[d].app # "closed" => conn'[d].of \in Instances /\ instance'[conn'[d].of].relay = d
    <3> SUFFICES ASSUME NEW d \in Conns, conn'[d].app # "closed"
                 PROVE  conn'[d].of \in Instances /\ instance'[conn'[d].of].relay = d
      OBVIOUS
    <3>1. d # c /\ conn'[d] = conn[d]
      BY <1>2
    <3>2. conn[d].of \in Instances /\ instance[conn[d].of].relay = d
      BY <3>1 DEF LinkInv, Owners
    <3>3. conn[d].of # i
      BY <3>1, <3>2
    <3> QED
      BY <1>3, <3>1, <3>2, <3>3
  <2> QED
    BY <2>1, <2>2 DEF Owners
<1>7. OneStays'
  <2> SUFFICES ASSUME ~late, Instances # {} PROVE \E x \in Instances : Stays(x)'
    BY DEF OneStays
  <2>1. PICK x \in Instances : Stays(x)
    BY DEF LinkInv, OneStays
  <2>2. CASE x = i
    <3>1. ~n.fired
      BY <2>1, <2>2
    <3>2. Stays(i)'
      BY <1>3, <3>1 DEF Stays
    <3> QED
      BY <3>2
  <2>3. CASE x # i
    <3>1. instance'[x] = instance[x] /\ (instance[x].relay # NoConn => instance[x].relay \in Conns \ {c})
      BY <1>1, <1>3, <1>4, <2>3 DEF InstanceStates
    <3>2. Stays(x)'
      BY <1>2, <2>1, <3>1 DEF Stays
    <3> QED
      BY <3>2
  <2> QED
    BY <2>2, <2>3
<1> QED
  BY <1>5, <1>6, <1>7

\* An instance connects.
LEMMA ConnectEffect ==
  ASSUME LinkInv, NEW i \in Instances, Connect(i), instance[i].relay = NoConn, ~instance[i].fired, late' = late,
         agent' = agent
  PROVE  /\ Owners' /\ Waits' /\ OneStays' /\ AgentOpen' /\ LinesOK(conn)' /\ instance' \in [Instances -> InstanceStates]
         /\ \E c \in Conns : conn[c] = Closed /\ conn'[c].app = "connecting" /\ conn'[c].hub = "verifying"
                             /\ conn'[c].down = <<>> /\ conn'[c].up = <<>>
                             /\ \A d \in Conns \ {c} : conn'[d] = conn[d]
         /\ \A x \in Instances \ {i} : instance'[x] = instance[x]
         /\ instance'[i].runs = instance[i].runs
<1>1. PICK c \in Conns :
        /\ conn[c] = Closed
        /\ conn' = [conn EXCEPT ![c] = [Closed EXCEPT !.of = i, !.app = "connecting", !.hub = "verifying"]]
        /\ instance' = [instance EXCEPT ![i] = [@ EXCEPT !.relay = c, !.stopped = FALSE, !.timer = FALSE]]
  BY DEF Connect
<1> DEFINE new == [Closed EXCEPT !.of = i, !.app = "connecting", !.hub = "verifying"]
           n == [instance[i] EXCEPT !.relay = c, !.stopped = FALSE, !.timer = FALSE]
<1>2. LineOK(new) /\ new \in LineStates
  BY NewLine DEF LineOK
<1>3. new.of = i /\ new.app = "connecting" /\ new.hub = "verifying" /\ new.down = <<>> /\ new.up = <<>>
  BY DEF Closed
<1> HIDE DEF new
<1>4. /\ conn'[c] = new /\ \A d \in Conns \ {c} : conn'[d] = conn[d]
      /\ LinesOK(conn')
  BY <1>1, <1>2 DEF new, LinkInv, LinkTypes, LinesOK
<1>5. /\ n \in InstanceStates /\ n.relay = c /\ ~n.stopped /\ ~n.timer /\ n.fired = instance[i].fired
      /\ n.runs = instance[i].runs
  BY DEF LinkInv, LinkTypes, InstanceStates
<1>6. instance' = [instance EXCEPT ![i] = n]
  BY <1>1
<1> HIDE DEF n
<1>7. /\ instance' \in [Instances -> InstanceStates] /\ instance'[i] = n
      /\ \A x \in Instances \ {i} : instance'[x] = instance[x]
  BY <1>5, <1>6 DEF LinkInv, LinkTypes
<1>8. conn[c].app = "closed" /\ conn[c].hub = "closed"
  BY <1>1 DEF Closed
<1>9. \A x \in Instances : instance[x].relay # c
  BY <1>8, NoNumber DEF LinkInv, Owners
<1>10. Waits'
  BY <1>5, <1>7, NoNumber DEF LinkInv, Waits
<1>11. Owners'
  <2>1. \A x \in Instances : instance'[x].relay # NoConn =>
          conn'[instance'[x].relay].of = x /\ conn'[instance'[x].relay].app # "closed"
    <3> SUFFICES ASSUME NEW x \in Instances \ {i}, instance'[x].relay # NoConn
                 PROVE  conn'[instance'[x].relay].of = x /\ conn'[instance'[x].relay].app # "closed"
      BY <1>3, <1>4, <1>5, <1>7
    <3>1. instance'[x] = instance[x] /\ instance[x].relay \in Conns \ {c}
      BY <1>7, <1>9 DEF LinkInv, LinkTypes, InstanceStates
    <3> QED
      BY <1>4, <3>1 DEF LinkInv, Owners
  <2>2. \A d \in Conns : conn'[d].app # "closed" => conn'[d].of \in Instances /\ instance'[conn'[d].of].relay = d
    <3> SUFFICES ASSUME NEW d \in Conns \ {c}, conn'[d].app # "closed"
                 PROVE  conn'[d].of \in Instances /\ instance'[conn'[d].of].relay = d
      BY <1>3, <1>4, <1>5, <1>7
    <3>1. conn'[d] = conn[d] /\ conn[d].of \in Instances /\ instance[conn[d].of].relay = d
      BY <1>4 DEF LinkInv, Owners
    <3>2. conn[d].of # i
      BY <3>1, NoNumber
    <3> QED
      BY <1>7, <3>1, <3>2
  <2> QED
    BY <2>1, <2>2 DEF Owners
<1>12. AgentOpen'
  <2> SUFFICES ASSUME agent # NoConn PROVE conn'[agent].hub \in {"open", "ended"}
    BY DEF AgentOpen
  <2>1. agent \in Conns /\ conn[agent].hub \in {"open", "ended"}
    BY DEF LinkInv, LinkTypes, HubTyped, AgentOpen
  <2> QED
    BY <1>4, <1>8, <2>1
<1>13. OneStays'
  <2> SUFFICES ASSUME ~late, Instances # {} PROVE \E x \in Instances : Stays(x)'
    BY DEF OneStays
  <2>1. Stays(i)'
    BY <1>3, <1>4, <1>5, <1>7 DEF Stays, NoneReplaced
  <2> QED
    BY <2>1
<1> QED
  BY ZenonT(60), <1>1, <1>3, <1>4, <1>5, <1>7, <1>10, <1>11, <1>12, <1>13

-----------------------------------------------------------------------------
(* The steps of the hub *)

LEMMA LinkAssembles ==
  ASSUME HubTyped', AppTyped', LinkCounted', LinesOK(conn'), instance' \in [Instances -> InstanceStates], Hosted',
         Owners', Waits', AgentOpen', OneStays'
  PROVE  LinkInv'
BY DEF LinkInv, LinkTypes

LEMMA PurgedTyped ==
  ASSUME NEW bs \in [Browsers -> BrowserStates]
  PROVE  /\ Purged(bs) \in [Browsers -> BrowserStates]
         /\ \A b \in Browsers : ~Purged(bs)[b].entered
         /\ \A b \in Browsers : Purged(bs)[b].socket = bs[b].socket \/ (Purged(bs)[b].socket = "closing" /\ bs[b].socket = "open")
<1>1. \A b \in Browsers : /\ Purged(bs)[b] \in BrowserStates /\ ~Purged(bs)[b].entered
                          /\ Purged(bs)[b].socket = bs[b].socket \/ (Purged(bs)[b].socket = "closing" /\ bs[b].socket = "open")
  BY DEF Purged, BrowserStates
<1>2. Purged(bs) \in [Browsers -> BrowserStates]
  BY <1>1 DEF Purged
<1> QED
  BY <1>1, <1>2

LEMMA EventCounted ==
  ASSUME LinkCounted, Happens \/ Breaks \/ UNCHANGED events
  PROVE  events' \in 0..MaxEvents
BY RelayLinkAssumption DEF RelayLinkAssumption, LinkCounted, Happens, Breaks

LEMMA AgentIs == LinkInv => agent = NoConn \/ (agent \in Conns /\ conn[agent].hub \in {"open", "ended"})
BY DEF LinkInv, LinkTypes, HubTyped, AgentOpen

LEMMA LineIs == LinkInv => \A c \in Conns : LineOK(conn[c]) /\ conn[c] \in LineStates
BY DEF LinkInv, LinkTypes, LinesOK, LineOK

LEMMA SameInstances == LinkInv /\ UNCHANGED instance => BoundKept
BY DEF LinkInv, LinkTypes, BoundKept

\* verifyDevice finds the device of a client that is gone.
LEMMA RefusesKeeps ==
  ASSUME LinkInv, NEW c \in Conns, conn[c].hub = "verifying", conn[c].up # <<>>,
         conn' = Tidy([conn EXCEPT ![c].hub = "closed", ![c].up = <<>>]),
         UNCHANGED <<hubVars, appVars, typed, events>>
  PROVE  /\ LinkInv'
         /\ conn'[c] = Tidied([conn[c] EXCEPT !.hub = "closed", !.up = <<>>])
         /\ \A d \in Conns \ {c} : conn'[d] = conn[d]
<1> DEFINE n == [conn[c] EXCEPT !.hub = "closed", !.up = <<>>]
           ds == [conn EXCEPT ![c] = n]
<1>e. <<>> \in Seq(Messages)
  OBVIOUS
<1>1. /\ LineOK(Tidied(n)) /\ n \in LineStates /\ n.app = conn[c].app /\ n.of = conn[c].of /\ n.down = conn[c].down
      /\ n.hub = "closed"
  BY LineIs, RefusedLine, <1>e DEF LineStates, HubStates
<1>2. conn' = Tidy(ds)
  BY DEF LinkInv, LinkTypes, LinesOK
<1> HIDE DEF n
<1>3. ds \in [Conns -> LineStates] /\ ds[c] = n /\ \A d \in Conns \ {c} : ds[d] = conn[d]
  BY <1>1 DEF LinkInv, LinkTypes, LinesOK
<1> HIDE DEF ds
<1>4. \A d \in Conns : LineOK(Tidied(ds[d]))
  BY <1>1, <1>3, LineIs, TidiedSame
<1>5. LinesOK(conn') /\ \A d \in Conns : conn'[d] = Tidied(ds[d])
  BY <1>2, <1>3, <1>4, TidyEffect
<1>6. conn'[c] = Tidied(n) /\ \A d \in Conns \ {c} : conn'[d] = conn[d]
  BY <1>3, <1>5, LineIs, TidiedSame
<1>7. Tidied(n) = n \/ (n.app = "closed" /\ Tidied(n) = Closed)
  BY DEF Tidied
<1>c. Closed.app = "closed"
  BY DEF Closed
<1>7a. EndsKept
  <2>1. conn'[c].app = conn[c].app
    BY <1>1, <1>6, <1>7, <1>c
  <2>2. conn[c].app # "closed" => conn'[c].of = conn[c].of
    BY <1>1, <1>6, <1>7
  <2> QED
    BY <1>6, <2>1, <2>2 DEF EndsKept
<1>7b. NoneNewlyReplaced
  <2>1. conn[c].app # "closed" => conn'[c].down = conn[c].down
    BY <1>1, <1>6, <1>7
  <2> QED
    BY <1>6, <2>1 DEF NoneNewlyReplaced
<1>8. AgentOpen'
  BY <1>6, AgentIs DEF AgentOpen, hubVars
<1>9. Owners' /\ Waits' /\ OneStays'
  BY <1>7a, <1>7b, SameInstances, OwnersRest, StaysOn DEF appVars, hubVars
<1>10. HubTyped' /\ AppTyped' /\ LinkCounted' /\ Hosted' /\ instance' \in [Instances -> InstanceStates]
  BY DEF LinkInv, LinkTypes, HubTyped, AppTyped, LinkCounted, Hosted, hubVars, appVars
<1> QED
  BY <1>5, <1>6, <1>8, <1>9, <1>10, LinkAssembles DEF n

Replaces == agent # NoConn /\ conn[agent].hub = "open"

\* The hub takes the connection c for the agent's.
LEMMA AttachedEffect ==
  ASSUME LinkInv, NEW c \in Conns, Attach(c), conn'[c].hub # "closed"
  PROVE  /\ conn'[c] = [conn[c] EXCEPT !.hub = "open", !.down = IF conn[c].cut THEN @ ELSE Append(@, Frame("accepted"))]
         /\ Replaces => agent # c /\ agent \in Conns /\
              conn'[agent] = [conn[agent] EXCEPT !.hub = "closing", !.down = IF conn[agent].cut THEN @ ELSE Append(@, Frame("replaced"))]
         /\ \A d \in Conns \ {c} : d # agent \/ ~Replaces => conn'[d] = conn[d]
         /\ browser' = IF Replaces THEN Purged(browser) ELSE browser
         /\ agent' = c /\ hubState' = "other" /\ ghost' = FALSE
         /\ unpurged' = (unpurged \/ (agent # NoConn /\ ~Replaces))
         /\ late' = (late \/ conn[c].up # <<>>)
         /\ UNCHANGED <<heard, appVars, typed, events>>
<1>v. conn[c].hub = "verifying" /\ conn \in [Conns -> LineStates]
  BY DEF Attach, LinkInv, LinkTypes, LinesOK
<1>1. ASSUME conn' = Tidy([conn EXCEPT ![c].hub = "closed", ![c].up = <<>>]) PROVE FALSE
  <2>1. [conn EXCEPT ![c].hub = "closed", ![c].up = <<>>][c].hub = "closed"
    BY <1>v DEF LineStates
  <2>2. conn'[c].hub = "closed"
    BY <1>1, <2>1 DEF Tidy, Closed
  <2> QED
    BY <2>2
<1> DEFINE a == [conn[c] EXCEPT !.hub = "open", !.down = IF conn[c].cut THEN @ ELSE Append(@, Frame("accepted"))]
           open == [conn EXCEPT ![c] = a]
           told == Down(open, agent, Frame("replaced"))
<1>2. [conn EXCEPT ![c].hub = "open", ![c].down = IF conn[c].cut THEN @ ELSE Append(@, Frame("accepted"))] = open
  BY <1>v
<1>3. /\ browser' = IF Replaces THEN Purged(browser) ELSE browser
      /\ conn' = IF Replaces THEN [told EXCEPT ![agent].hub = "closing"] ELSE open
      /\ agent' = c /\ hubState' = "other" /\ ghost' = FALSE
      /\ unpurged' = (unpurged \/ (agent # NoConn /\ ~Replaces))
      /\ late' = (late \/ conn[c].up # <<>>)
      /\ UNCHANGED <<heard, appVars, typed, events>>
  BY <1>1, <1>2 DEF Attach, Replaces
<1>4. LineOK(a) /\ a \in LineStates
  BY <1>v, LineIs, AcceptedLine DEF LineOK
<1> HIDE DEF a
<1>5. open \in [Conns -> LineStates] /\ LinesOK(open) /\ open[c] = a /\ \A d \in Conns \ {c} : open[d] = conn[d]
  BY <1>4 DEF LinkInv, LinkTypes, LinesOK
<1> HIDE DEF open
<1>6. CASE Replaces
  <2>1. agent \in Conns /\ agent # c
    BY <1>6, <1>v, AgentIs DEF Replaces
  <2>2. Frame("replaced") \in Messages
    BY FramesAreMessages DEF FrameTypes, Bye
  <2>3. /\ told \in [Conns -> LineStates]
        /\ told[agent] = IF ~conn[agent].cut THEN [conn[agent] EXCEPT !.down = Append(@, Frame("replaced"))] ELSE conn[agent]
        /\ \A d \in Conns \ {agent} : told[d] = open[d]
    <3>1. agent \in Conns \cup {NoConn} /\ open[agent] = conn[agent] /\ open[agent].hub = "open"
      BY <1>5, <1>6, <2>1 DEF Replaces
    <3>2. /\ LinesOK(told)
          /\ \A d \in Conns : told[d] = IF d = agent /\ open[d].hub = "open" /\ ~open[d].cut
                                       THEN [open[d] EXCEPT !.down = Append(@, Frame("replaced"))] ELSE open[d]
      BY <1>5, <2>2, <3>1, DownEffect
    <3> HIDE DEF told
    <3>3. told[agent] = IF ~conn[agent].cut THEN [conn[agent] EXCEPT !.down = Append(@, Frame("replaced"))] ELSE conn[agent]
      BY <2>1, <3>1, <3>2
    <3> QED
      BY <3>2, <3>3 DEF LinesOK
  <2> HIDE DEF told
  <2>4. conn'[agent] = [told[agent] EXCEPT !.hub = "closing"] /\ \A d \in Conns \ {agent} : conn'[d] = told[d]
    BY <1>3, <1>6, <2>1, <2>3
  <2>5. conn'[agent] = [conn[agent] EXCEPT !.hub = "closing", !.down = IF conn[agent].cut THEN @ ELSE Append(@, Frame("replaced"))]
    BY <1>v, <2>1, <2>3, <2>4 DEF LineStates
  <2> QED
    BY <1>3, <1>5, <1>6, <2>1, <2>3, <2>4, <2>5 DEF a
<1>7. CASE ~Replaces
  BY <1>3, <1>5, <1>7 DEF a
<1> QED
  BY <1>6, <1>7

\* It takes it, or finds that the client has given it up.
LEMMA AttachTakes ==
  ASSUME LinkInv, NEW c \in Conns, Attach(c)
  PROVE  \/ conn'[c].hub # "closed"
         \/ /\ conn[c].up # <<>>
            /\ conn' = Tidy([conn EXCEPT ![c].hub = "closed", ![c].up = <<>>])
            /\ UNCHANGED <<hubVars, appVars, typed, events>>
<1> SUFFICES ASSUME ~(/\ conn[c].up # <<>>
                      /\ conn' = Tidy([conn EXCEPT ![c].hub = "closed", ![c].up = <<>>])
                      /\ UNCHANGED <<hubVars, appVars, typed, events>>)
             PROVE  conn'[c].hub # "closed"
  OBVIOUS
<1>v. conn[c].hub = "verifying" /\ LineOK(conn[c]) /\ conn[c] \in LineStates
  BY LineIs DEF Attach
<1> DEFINE open == [conn EXCEPT ![c].hub = "open",
                                ![c].down = IF conn[c].cut THEN @ ELSE Append(@, Frame("accepted"))]
           told == Down(open, agent, Frame("replaced"))
<1>1. conn' = IF Replaces THEN [told EXCEPT ![agent].hub = "closing"] ELSE open
  BY DEF Attach, Replaces
<1>2. open[c].hub = "open" /\ open \in [Conns -> [of : Instances \cup {Nobody}, app : AppStates, hub : HubStates,
           up : Seq(Messages), down : Seq(Messages) \cup {Append(conn[c].down, Frame("accepted"))}, cut : BOOLEAN]]
  BY <1>v DEF LinkInv, LinkTypes, LinesOK, LineStates, HubStates
<1>3. Replaces => agent \in Conns /\ agent # c
  BY <1>v, AgentIs DEF Replaces
<1>4. Replaces => told[c] = open[c]
  BY <1>2, <1>3 DEF Down
<1>5. Replaces => [told EXCEPT ![agent].hub = "closing"][c].hub = "open"
  BY <1>2, <1>3, <1>4 DEF Down
<1> QED
  BY <1>1, <1>2, <1>5

LEMMA AttachKeeps ==
  ASSUME LinkInv, NEW c \in Conns, Attach(c)
  PROVE  LinkInv'
<1>v. conn[c].hub = "verifying" /\ LineOK(conn[c]) /\ conn[c] \in LineStates
  BY LineIs DEF Attach
<1>1. CASE /\ conn[c].up # <<>>
           /\ conn' = Tidy([conn EXCEPT ![c].hub = "closed", ![c].up = <<>>])
           /\ UNCHANGED <<hubVars, appVars, typed, events>>
  BY <1>1, <1>v, RefusesKeeps
<1>2. CASE conn'[c].hub # "closed"
  <2> DEFINE a == [conn[c] EXCEPT !.hub = "open", !.down = IF conn[c].cut THEN @ ELSE Append(@, Frame("accepted"))]
             r == [conn[agent] EXCEPT !.hub = "closing", !.down = IF conn[agent].cut THEN @ ELSE Append(@, Frame("replaced"))]
  <2>1. /\ conn'[c] = a
        /\ Replaces => agent # c /\ agent \in Conns /\ conn'[agent] = r
        /\ \A d \in Conns \ {c} : d # agent \/ ~Replaces => conn'[d] = conn[d]
        /\ browser' = IF Replaces THEN Purged(browser) ELSE browser
        /\ agent' = c /\ hubState' = "other" /\ ghost' = FALSE
        /\ unpurged' = (unpurged \/ (agent # NoConn /\ ~Replaces))
        /\ late' = (late \/ conn[c].up # <<>>)
        /\ UNCHANGED <<heard, appVars, typed, events>>
    BY <1>2, AttachedEffect
  <2>2. LineOK(a) /\ a.of = conn[c].of /\ a.app = conn[c].app /\ a.hub = "open"
        /\ (~conn[c].cut => a.down = Append(conn[c].down, Frame("accepted")))
    BY <1>v, AcceptedLine DEF LineStates
  <2>3. ASSUME Replaces
        PROVE  LineOK(r) /\ r.of = conn[agent].of /\ r.app = conn[agent].app /\ r.hub = "closing"
    BY <2>1, <2>3, LineIs, ReplacedLine DEF Replaces, LineStates
  <2> HIDE DEF a, r
  <2>4. \A d \in Conns : LineOK(conn'[d])
    BY <2>1, <2>2, <2>3, LineIs
  <2>5. DOMAIN conn' = Conns /\ conn' = [d \in Conns |-> conn'[d]]
    BY <1>2 DEF Attach, Tidy, Down, LinkInv, LinkTypes, LinesOK
  <2>6. LinesOK(conn')
    BY <2>4, <2>5 DEF LinesOK, LineOK
  <2>7. EndsKept
    BY <2>1, <2>2, <2>3 DEF EndsKept
  <2>8. Owners' /\ Waits'
    BY <2>1, <2>7, SameInstances, OwnersRest DEF appVars
  <2>9. AgentOpen'
    BY <2>1, <2>2 DEF AgentOpen
  <2>10. OneStays'
    <3> SUFFICES ASSUME ~late' PROVE \E i \in Instances : Stays(i)'
      BY DEF OneStays
    <3>1. conn[c].app # "closed" /\ ~conn[c].cut /\ conn[c].down = <<>>
      BY <1>v, <2>1 DEF LineOK
    <3>2. PICK i \in Instances : instance[i].relay = c
      BY <3>1 DEF LinkInv, Owners
    <3>3. ~instance[i].fired
      BY <3>2, NoNumber DEF LinkInv, Waits
    <3>4. a.down = <<Frame("accepted")>>
      <4>1. \A x : Append(<<>>, x) = <<x>>
        OBVIOUS
      <4> QED
        BY <2>2, <3>1, <4>1
    <3>5. Frame("accepted").type # "replaced"
      BY FramesAreMessages DEF FrameTypes
    <3>6. NoneReplaced(a.down)
      BY <3>4, <3>5 DEF NoneReplaced
    <3>7. Stays(i)'
      BY <2>1, <3>2, <3>3, <3>6 DEF Stays, appVars
    <3> QED
      BY <3>7
  <2>11. browser' \in [Browsers -> BrowserStates]
    BY <2>1, PurgedTyped DEF LinkInv, LinkTypes, HubTyped
  <2>12. HubTyped'
    BY <2>1, <2>11 DEF LinkInv, LinkTypes, HubTyped
  <2>13. AppTyped' /\ LinkCounted' /\ Hosted' /\ instance' \in [Instances -> InstanceStates]
    BY <2>1 DEF LinkInv, LinkTypes, AppTyped, LinkCounted, Hosted, appVars
  <2> QED
    BY <2>6, <2>8, <2>9, <2>10, <2>12, <2>13, LinkAssembles
<1> QED
  BY <1>1, <1>2, AttachTakes

\* What leaves the ends of the connections and the clients as they are.
LEMMA LinkRests ==
  ASSUME LinkInv, EndsKept, BoundKept, NoneNewlyReplaced, late' = late, agent' = agent,
         agent # NoConn => conn'[agent].hub \in {"open", "ended"}
  PROVE  Owners' /\ Waits' /\ AgentOpen' /\ OneStays'
<1>1. AgentOpen'
  BY DEF AgentOpen
<1> QED
  BY <1>1, OwnersRest, StaysOn

LEMMA NoneReplacedKept ==
  ASSUME NEW s \in Seq(Messages), NoneReplaced(s)
  PROVE  /\ \A m \in Messages : m.type # "replaced" => NoneReplaced(Append(s, m))
         /\ s # <<>> => NoneReplaced(Tail(s))
         /\ \A n \in 0..Len(s), m \in Messages : m.type # "replaced" => NoneReplaced(Append(SubSeq(s, 1, n), m))
<1>1. ASSUME NEW x \in Seq(Messages), NoneReplaced(x), NEW m \in Messages, m.type # "replaced"
      PROVE  NoneReplaced(Append(x, m))
  <2>1. Len(Append(x, m)) = Len(x) + 1 /\ Append(x, m)[Len(x) + 1] = m /\ \A j \in 1..Len(x) : Append(x, m)[j] = x[j]
    BY <1>1, AppendProperties
  <2>2. \A j \in 1..(Len(x) + 1) : j = Len(x) + 1 \/ j \in 1..Len(x)
    BY <1>1
  <2> QED
    BY <1>1, <2>1, <2>2 DEF NoneReplaced
<1>2. ASSUME s # <<>> PROVE NoneReplaced(Tail(s))
  <2>1. Len(s) \in Nat \ {0} /\ Len(Tail(s)) = Len(s) - 1 /\ \A j \in 1..(Len(s) - 1) : Tail(s)[j] = s[j + 1]
    BY <1>2, Tails
  <2>2. \A j \in 1..(Len(s) - 1) : j + 1 \in 1..Len(s)
    BY <2>1
  <2> QED
    BY <2>1, <2>2 DEF NoneReplaced
<1>3. ASSUME NEW n \in 0..Len(s), NEW m \in Messages, m.type # "replaced"
      PROVE  NoneReplaced(Append(SubSeq(s, 1, n), m))
  <2> DEFINE x == SubSeq(s, 1, n)
  <2>1. x \in Seq(Messages) /\ Len(x) = n /\ \A j \in 1..n : x[j] = s[j]
    OBVIOUS
  <2>2. \A j \in 1..n : j \in 1..Len(s)
    OBVIOUS
  <2> HIDE DEF x
  <2>3. NoneReplaced(x)
    BY <2>1, <2>2 DEF NoneReplaced
  <2>4. NoneReplaced(Append(x, m))
    BY <1>1, <1>3, <2>1, <2>3
  <2> QED
    BY <2>4 DEF x
<1> QED
  BY <1>1, <1>2, <1>3

\* The hub sends the agent something.
LEMMA HubTells ==
  ASSUME LinkInv, NEW m \in Messages, m.type # "replaced", conn' = Down(conn, agent, m),
         UNCHANGED <<instance, late, agent>>
  PROVE  /\ Owners' /\ Waits' /\ AgentOpen' /\ OneStays' /\ LinesOK(conn')
         /\ \A c \in Conns : conn'[c] = IF c = agent /\ conn[c].hub = "open" /\ ~conn[c].cut
                                        THEN [conn[c] EXCEPT !.down = Append(@, m)] ELSE conn[c]
<1>1. agent \in Conns \cup {NoConn} /\ LinesOK(conn)
  BY DEF LinkInv, LinkTypes, HubTyped
<1>2. /\ LinesOK(conn')
      /\ \A c \in Conns : conn'[c] = IF c = agent /\ conn[c].hub = "open" /\ ~conn[c].cut
                                     THEN [conn[c] EXCEPT !.down = Append(@, m)] ELSE conn[c]
  BY <1>1, DownEffect
<1>3. \A c \in Conns : /\ conn'[c].app = conn[c].app /\ conn'[c].of = conn[c].of /\ conn'[c].hub = conn[c].hub
                       /\ conn'[c].down = conn[c].down \/ conn'[c].down = Append(conn[c].down, m)
  BY <1>2, LineIs DEF LineStates
<1>4. EndsKept
  BY <1>3 DEF EndsKept
<1>5. NoneNewlyReplaced
  <2> SUFFICES ASSUME NEW c \in Conns, NoneReplaced(conn[c].down) PROVE NoneReplaced(conn'[c].down)
    BY DEF NoneNewlyReplaced
  <2>1. conn[c].down \in Seq(Messages)
    BY LineIs DEF LineStates
  <2>2. NoneReplaced(Append(conn[c].down, m))
    BY <2>1, NoneReplacedKept
  <2> QED
    BY <1>3, <2>2
<1>6. agent # NoConn => conn'[agent].hub \in {"open", "ended"}
  BY <1>3, AgentIs
<1> QED
  BY <1>2, <1>4, <1>5, <1>6, SameInstances, LinkRests

\* The socket's close event.
LEMMA HubClosedKeeps ==
  ASSUME LinkInv, NEW c \in Conns, HubClosed(c)
  PROVE  /\ LinkInv'
         /\ conn'[c] = Tidied([conn[c] EXCEPT !.hub = "closed", !.up = <<>>])
         /\ \A d \in Conns \ {c} : conn'[d] = conn[d]
<1> DEFINE n == [conn[c] EXCEPT !.hub = "closed", !.up = <<>>]
           ds == [conn EXCEPT ![c] = n]
<1>0. conn[c].hub = "ended" /\ UNCHANGED <<heard, unpurged, late, appVars, typed, events>>
  BY DEF HubClosed
<1>e. <<>> \in Seq(Messages)
  OBVIOUS
<1>1. /\ LineOK(Tidied(n)) /\ n \in LineStates /\ n.app = conn[c].app /\ n.of = conn[c].of /\ n.down = conn[c].down
      /\ n.hub = "closed"
  BY LineIs, EndedLine, <1>e, <1>0 DEF LineStates, HubStates
<1>2. conn' = Tidy(ds)
  BY DEF HubClosed, LinkInv, LinkTypes, LinesOK
<1> HIDE DEF n
<1>3. ds \in [Conns -> LineStates] /\ ds[c] = n /\ \A d \in Conns \ {c} : ds[d] = conn[d]
  BY <1>1 DEF LinkInv, LinkTypes, LinesOK
<1> HIDE DEF ds
<1>4. \A d \in Conns : LineOK(Tidied(ds[d]))
  BY <1>1, <1>3, LineIs, TidiedSame
<1>5. LinesOK(conn') /\ \A d \in Conns : conn'[d] = Tidied(ds[d])
  BY <1>2, <1>3, <1>4, TidyEffect
<1>6. conn'[c] = Tidied(n) /\ \A d \in Conns \ {c} : conn'[d] = conn[d]
  BY <1>3, <1>5, LineIs, TidiedSame
<1>7. Tidied(n) = n \/ (n.app = "closed" /\ Tidied(n) = Closed)
  BY DEF Tidied
<1>c. Closed.app = "closed"
  BY DEF Closed
<1>7a. EndsKept
  <2>1. conn'[c].app = conn[c].app
    BY <1>1, <1>6, <1>7, <1>c
  <2>2. conn[c].app # "closed" => conn'[c].of = conn[c].of
    BY <1>1, <1>6, <1>7
  <2> QED
    BY <1>6, <2>1, <2>2 DEF EndsKept
<1>7b. NoneNewlyReplaced
  <2>1. conn[c].app # "closed" => conn'[c].down = conn[c].down
    BY <1>1, <1>6, <1>7
  <2> QED
    BY <1>6, <2>1 DEF NoneNewlyReplaced
<1>8. AgentOpen'
  <2>1. CASE agent = c
    BY <2>1 DEF HubClosed, AgentOpen
  <2>2. CASE agent # c
    <3>1. agent' = agent
      BY <2>2 DEF HubClosed
    <3> QED
      BY <1>6, <2>2, <3>1, AgentIs DEF AgentOpen
  <2> QED
    BY <2>1, <2>2
<1>9. Owners' /\ Waits' /\ OneStays'
  BY <1>0, <1>7a, <1>7b, SameInstances, OwnersRest, StaysOn DEF appVars
<1>10. browser' \in [Browsers -> BrowserStates]
  BY PurgedTyped DEF HubClosed, LinkInv, LinkTypes, HubTyped
<1>11. HubTyped'
  BY <1>10 DEF HubClosed, LinkInv, LinkTypes, HubTyped
<1>12. AppTyped' /\ LinkCounted' /\ Hosted' /\ instance' \in [Instances -> InstanceStates]
  BY <1>0 DEF LinkInv, LinkTypes, AppTyped, LinkCounted, Hosted, appVars
<1> QED
  BY <1>5, <1>6, <1>8, <1>9, <1>11, <1>12, LinkAssembles DEF n

LEMMA ChunkTimeoutKeeps ==
  ASSUME LinkInv, NEW b \in Browsers, ChunkTimeout(b)
  PROVE  LinkInv'
<1>1. browser' \in [Browsers -> BrowserStates]
  BY ZenonT(60) DEF ChunkTimeout, LinkInv, LinkTypes, HubTyped, BrowserStates
<1>2. HubTyped'
  BY <1>1 DEF ChunkTimeout, LinkInv, LinkTypes, HubTyped
<1>3. events' \in 0..MaxEvents
  BY EventCounted DEF ChunkTimeout, LinkInv, LinkTypes
<1>4. LinkCounted' /\ AppTyped' /\ Hosted' /\ instance' \in [Instances -> InstanceStates] /\ LinesOK(conn')
  BY <1>3 DEF ChunkTimeout, LinkInv, LinkTypes, LinkCounted, AppTyped, Hosted, appVars
<1>5. Owners' /\ Waits' /\ AgentOpen' /\ OneStays'
  BY DEF ChunkTimeout, LinkInv, Owners, Waits, AgentOpen, OneStays, Stays, appVars
<1> QED
  BY <1>2, <1>4, <1>5, LinkAssembles

\* The hub takes what an agent has sent.
LEMMA HeardEffect ==
  ASSUME LinkInv, NEW c \in Conns, FromAgent(c)
  PROVE  /\ conn[c].hub \in {"open", "closing"} /\ conn[c].up \in Seq(Messages) /\ conn[c].up # <<>>
         /\ conn'[c] = [conn[c] EXCEPT !.up = Tail(@), !.hub = IF Head(conn[c].up).type = Bye THEN "ended" ELSE @]
         /\ \A d \in Conns \ {c} : conn'[d] = conn[d]
         /\ LinesOK(conn')
<1> DEFINE n == [conn[c] EXCEPT !.up = Tail(@), !.hub = IF Head(conn[c].up).type = Bye THEN "ended" ELSE @]
<1>1. conn[c].hub \in {"open", "closing"} /\ conn[c].up # <<>> /\ conn[c].up \in Seq(Messages)
  BY LineIs DEF FromAgent, LineStates
<1>2. LineOK(n) /\ n \in LineStates
  BY <1>1, LineIs, HeardLine DEF LineOK
<1>3. conn' = [conn EXCEPT ![c] = n]
  BY DEF FromAgent, LinkInv, LinkTypes, LinesOK
<1> HIDE DEF n
<1>4. conn'[c] = n /\ (\A d \in Conns \ {c} : conn'[d] = conn[d]) /\ LinesOK(conn')
  BY <1>2, <1>3 DEF LinkInv, LinkTypes, LinesOK
<1> QED
  BY <1>1, <1>4 DEF n

LEMMA DeliverTyped ==
  ASSUME HubTyped, NEW b \in Browsers, NEW n \in 1..MaxMessages, Deliver(b, n)
  PROVE  heard' \in [Browsers -> Seq(1..MaxMessages)]
<1>1. heard[b] \in Seq(1..MaxMessages)
  BY DEF HubTyped
<1>2. Append(heard[b], n) \in Seq(1..MaxMessages)
  BY <1>1
<1> QED
  BY <1>2 DEF Deliver, HubTyped

LEMMA ChunkTyped ==
  ASSUME HubTyped, NEW m \in Messages, m.type = "chunk", Chunk(m)
  PROVE  browser' \in [Browsers -> BrowserStates] /\ heard' \in [Browsers -> Seq(1..MaxMessages)]
<1> DEFINE pieces == browser[m.b].chunks \cup {<<m.n, m.k>>}
           left == {p \in pieces : p[1] # m.n}
<1>1. m.b \in Browsers /\ m.n \in 1..MaxMessages /\ m.k \in {1, 2}
  BY RelayLinkAssumption DEF RelayLinkAssumption, Messages
<1>2. pieces \in SUBSET ((1..MaxMessages) \X {1, 2})
  BY <1>1 DEF HubTyped, BrowserStates
<1> HIDE DEF pieces
<1>3. left \in SUBSET ((1..MaxMessages) \X {1, 2})
  BY <1>2
<1>4. CASE {<<m.n, 1>>, <<m.n, 2>>} \subseteq pieces
  <2>1. browser' = [browser EXCEPT ![m.b].chunks = left] /\ Deliver(m.b, m.n)
    BY <1>4 DEF Chunk, pieces
  <2> HIDE DEF left
  <2>2. browser' \in [Browsers -> BrowserStates]
    BY ZenonT(60), <1>1, <1>3, <2>1 DEF HubTyped, BrowserStates
  <2> QED
    BY <1>1, <2>1, <2>2, DeliverTyped
<1>5. CASE ~({<<m.n, 1>>, <<m.n, 2>>} \subseteq pieces)
  <2>1. browser' = [browser EXCEPT ![m.b].chunks = pieces] /\ UNCHANGED heard
    BY <1>5 DEF Chunk, pieces
  <2> QED
    BY ZenonT(60), <1>1, <1>2, <2>1 DEF HubTyped, BrowserStates
<1> QED
  BY <1>4, <1>5

LEMMA FromAgentKeeps ==
  ASSUME LinkInv, NEW c \in Conns, FromAgent(c)
  PROVE  LinkInv'
<1> DEFINE m == Head(conn[c].up)
<1>1. /\ conn[c].hub \in {"open", "closing"} /\ conn[c].up \in Seq(Messages) /\ conn[c].up # <<>>
      /\ conn'[c] = [conn[c] EXCEPT !.up = Tail(@), !.hub = IF Head(conn[c].up).type = Bye THEN "ended" ELSE @]
      /\ \A d \in Conns \ {c} : conn'[d] = conn[d]
      /\ LinesOK(conn')
  BY HeardEffect
<1>u. UNCHANGED <<agent, unpurged, late, instance, local, took, said, typed, events>>
  BY DEF FromAgent, appVars
<1>m. m \in Messages
  BY <1>1, Tails
<1>t. HubTyped
  BY DEF LinkInv, LinkTypes
<1>2. /\ conn'[c].app = conn[c].app /\ conn'[c].of = conn[c].of /\ conn'[c].down = conn[c].down
      /\ conn'[c].hub \in {conn[c].hub, "ended"}
  BY <1>1, LineIs DEF LineStates
<1>3. EndsKept /\ NoneNewlyReplaced
  BY <1>1, <1>2 DEF EndsKept, NoneNewlyReplaced
<1>4. agent # NoConn => conn'[agent].hub \in {"open", "ended"}
  BY <1>1, <1>2, AgentIs
<1>5. Owners' /\ Waits' /\ AgentOpen' /\ OneStays'
  BY <1>3, <1>4, <1>u, SameInstances, LinkRests
<1>6. /\ browser' \in [Browsers -> BrowserStates] /\ heard' \in [Browsers -> Seq(1..MaxMessages)]
      /\ hubState' \in {"none", "other", "starting", "running"} /\ ghost' \in BOOLEAN
  <2>1. CASE /\ TellsState(m) /\ hubState' = m.type /\ ghost' = (c # agent) /\ UNCHANGED <<browser, heard>>
    BY <2>1, <1>t DEF HubTyped, TellsState
  <2>2. CASE /\ m.type = "message" /\ m.b \in Browsers /\ Deliver(m.b, m.n) /\ UNCHANGED <<browser, hubState, ghost>>
    <3>1. m.n \in 1..MaxMessages
      BY <1>m, <2>2, RelayLinkAssumption DEF Messages, RelayLinkAssumption
    <3> HIDE DEF m
    <3>2. heard' \in [Browsers -> Seq(1..MaxMessages)]
      BY <1>t, <2>2, <3>1, DeliverTyped
    <3> QED
      BY <1>t, <2>2, <3>2 DEF HubTyped
  <2>3. CASE m.type = "chunk" /\ Chunk(m) /\ UNCHANGED <<hubState, ghost>>
    <3> HIDE DEF m
    <3>1. browser' \in [Browsers -> BrowserStates] /\ heard' \in [Browsers -> Seq(1..MaxMessages)]
      BY <1>t, <1>m, <2>3, ChunkTyped
    <3> QED
      BY <1>t, <2>3, <3>1 DEF HubTyped
  <2>4. CASE /\ m.b \in Browsers
             /\ browser' = [browser EXCEPT ![m.b].socket = IF @ = "open" THEN "closing" ELSE @]
             /\ UNCHANGED <<heard, hubState, ghost>>
    <3> DEFINE b == m.b
               s == IF browser[b].socket = "open" THEN "closing" ELSE browser[b].socket
    <3>1. browser' = [browser EXCEPT ![b].socket = s] /\ b \in Browsers
      BY <1>t, <2>4 DEF HubTyped
    <3>2. s \in {"none", "open", "closing", "closed"}
      BY <1>t, <3>1 DEF HubTyped, BrowserStates
    <3> HIDE DEF m, b, s
    <3>3. browser' \in [Browsers -> BrowserStates]
      BY ZenonT(60), <1>t, <3>1, <3>2 DEF HubTyped, BrowserStates
    <3> QED
      BY <1>t, <2>4, <3>3 DEF HubTyped
  <2>5. CASE UNCHANGED <<browser, heard, hubState, ghost>>
    BY <1>t, <2>5 DEF HubTyped
  <2> QED
    BY <2>1, <2>2, <2>3, <2>4, <2>5 DEF FromAgent
<1>7. HubTyped'
  BY <1>6, <1>t, <1>u DEF HubTyped
<1>8. LinkCounted' /\ AppTyped' /\ Hosted' /\ instance' \in [Instances -> InstanceStates]
  BY <1>u DEF LinkInv, LinkTypes, LinkCounted, AppTyped, Hosted
<1> QED
  BY <1>1, <1>5, <1>7, <1>8, LinkAssembles

-----------------------------------------------------------------------------
(* The steps of the browsers, of the HTTP handlers and of the network *)

LEMMA HubSpeaks ==
  ASSUME LinkInv, NEW m \in Messages, m.type # "replaced", conn' = Down(conn, agent, m),
         UNCHANGED <<agent, heard, ghost, unpurged, late, appVars>>,
         browser' \in [Browsers -> BrowserStates], typed' \in [Browsers -> 0..MaxMessages],
         Happens \/ Breaks \/ UNCHANGED events, hubState' = hubState
  PROVE  LinkInv'
<1>1. Owners' /\ Waits' /\ AgentOpen' /\ OneStays' /\ LinesOK(conn')
  BY HubTells DEF appVars
<1>2. HubTyped'
  BY DEF LinkInv, LinkTypes, HubTyped
<1>3. LinkCounted'
  BY EventCounted DEF LinkInv, LinkTypes, LinkCounted
<1>4. AppTyped' /\ Hosted' /\ instance' \in [Instances -> InstanceStates]
  BY DEF LinkInv, LinkTypes, AppTyped, Hosted, appVars
<1> QED
  BY <1>1, <1>2, <1>3, <1>4, LinkAssembles

LEMMA BrowserOpensKeeps ==
  ASSUME LinkInv, NEW b \in Browsers, BrowserOpens(b)
  PROVE  LinkInv'
<1> DEFINE m == M("open", b, 0, 0)
<1>1. m \in Messages /\ m.type = "open"
  BY BrowserFrames DEF M
<1>2. conn' = Down(conn, agent, m)
  BY DEF BrowserOpens
<1> HIDE DEF m
<1>3. browser' \in [Browsers -> BrowserStates]
  BY DEF BrowserOpens, LinkInv, LinkTypes, HubTyped, BrowserStates
<1>4. typed' \in [Browsers -> 0..MaxMessages]
  BY DEF BrowserOpens, LinkInv, LinkTypes, LinkCounted
<1> QED
  BY <1>1, <1>2, <1>3, <1>4, HubSpeaks DEF BrowserOpens

LEMMA BrowserTypesKeeps ==
  ASSUME LinkInv, NEW b \in Browsers, BrowserTypes(b)
  PROVE  LinkInv'
<1> DEFINE n == typed[b] + 1
           m == M("message", b, n, 0)
<1>0. typed[b] \in 0..MaxMessages /\ typed[b] < MaxMessages /\ MaxMessages \in Nat
  BY RelayLinkAssumption DEF RelayLinkAssumption, BrowserTypes, LinkInv, LinkTypes, LinkCounted
<1>1. n \in 1..MaxMessages
  BY <1>0
<1>2. conn' = Down(conn, agent, m) /\ typed' = [typed EXCEPT ![b] = n]
  BY DEF BrowserTypes
<1> HIDE DEF n
<1>3. m \in Messages /\ m.type = "message"
  BY <1>1, BrowserFrames DEF M
<1> HIDE DEF m
<1>4. browser' \in [Browsers -> BrowserStates]
  BY DEF BrowserTypes, LinkInv, LinkTypes, HubTyped, hubVars
<1>5. n \in 0..MaxMessages
  BY <1>0, <1>1
<1>6. typed' \in [Browsers -> 0..MaxMessages]
  BY <1>2, <1>5 DEF LinkInv, LinkTypes, LinkCounted
<1> QED
  BY <1>2, <1>3, <1>4, <1>6, HubSpeaks DEF BrowserTypes, hubVars

LEMMA BrowserClosedKeeps ==
  ASSUME LinkInv, NEW b \in Browsers, BrowserClosed(b)
  PROVE  LinkInv'
<1> DEFINE m == M("close", b, 0, 0)
<1>1. m \in Messages /\ m.type = "close"
  BY BrowserFrames DEF M
<1>2. conn' = Down(conn, agent, m)
  BY DEF BrowserClosed
<1> HIDE DEF m
<1>3. browser' \in [Browsers -> BrowserStates]
  BY DEF BrowserClosed, LinkInv, LinkTypes, HubTyped, BrowserStates
<1>4. typed' \in [Browsers -> 0..MaxMessages]
  BY DEF BrowserClosed, LinkInv, LinkTypes, LinkCounted
<1> QED
  BY <1>1, <1>2, <1>3, <1>4, HubSpeaks DEF BrowserClosed

LEMMA StartCommandKeeps ==
  ASSUME LinkInv, StartCommand
  PROVE  LinkInv'
<1> DEFINE m == Frame("command")
<1>1. m \in Messages /\ m.type = "command"
  BY FramesAreMessages DEF FrameTypes, Bye
<1>2. conn' = Down(conn, agent, m)
  BY DEF StartCommand
<1> HIDE DEF m
<1>3. m.type # "replaced"
  BY <1>1
<1>4. Owners' /\ Waits' /\ AgentOpen' /\ OneStays' /\ LinesOK(conn')
  BY <1>1, <1>2, <1>3, HubTells DEF StartCommand, appVars
<1>5. HubTyped'
  BY DEF StartCommand, LinkInv, LinkTypes, HubTyped
<1>6. LinkCounted'
  BY EventCounted DEF StartCommand, LinkInv, LinkTypes, LinkCounted
<1>7. AppTyped' /\ Hosted' /\ instance' \in [Instances -> InstanceStates]
  BY DEF StartCommand, LinkInv, LinkTypes, AppTyped, Hosted, appVars
<1> QED
  BY <1>4, <1>5, <1>6, <1>7, LinkAssembles

\* The network cuts a connection.
LEMMA CutEffect ==
  ASSUME LinkInv, NEW c \in Conns, Cut(c)
  PROVE  /\ conn[c].app # "closed" /\ conn[c].hub \in {"verifying", "open", "closing"} /\ ~conn[c].cut
         /\ \E k \in 0..Len(conn[c].up), l \in 0..Len(conn[c].down) :
              conn'[c] = [conn[c] EXCEPT !.cut = TRUE, !.up = Append(SubSeq(@, 1, k), Frame(Bye)),
                                         !.down = Append(SubSeq(@, 1, l), Frame(Bye))]
         /\ \A d \in Conns \ {c} : conn'[d] = conn[d]
         /\ LinesOK(conn')
<1>1. PICK k \in 0..Len(conn[c].up), l \in 0..Len(conn[c].down) :
        conn' = [conn EXCEPT ![c].cut = TRUE,
                             ![c].up = Append(SubSeq(@, 1, k), Frame(Bye)),
                             ![c].down = Append(SubSeq(@, 1, l), Frame(Bye))]
  BY DEF Cut
<1>2. conn[c].app # "closed" /\ conn[c].hub \in {"verifying", "open", "closing"} /\ ~conn[c].cut
  BY DEF Cut
<1> DEFINE n == [conn[c] EXCEPT !.cut = TRUE, !.up = Append(SubSeq(@, 1, k), Frame(Bye)),
                                !.down = Append(SubSeq(@, 1, l), Frame(Bye))]
<1>3. LineOK(n)
  BY <1>2, LineIs, CutLine
<1>4. n \in LineStates
  BY <1>3 DEF LineOK
<1>5. conn' = [conn EXCEPT ![c] = n]
  BY <1>1 DEF LinkInv, LinkTypes, LinesOK
<1> HIDE DEF n
<1>6. conn'[c] = n /\ (\A d \in Conns \ {c} : conn'[d] = conn[d]) /\ LinesOK(conn')
  BY <1>3, <1>4, <1>5 DEF LinkInv, LinkTypes, LinesOK
<1> QED
  BY <1>2, <1>6 DEF n

LEMMA CutKeeps ==
  ASSUME LinkInv, NEW c \in Conns, Cut(c)
  PROVE  LinkInv'
<1>1. /\ conn[c].app # "closed" /\ conn[c].hub \in {"verifying", "open", "closing"} /\ ~conn[c].cut
      /\ \A d \in Conns \ {c} : conn'[d] = conn[d]
      /\ LinesOK(conn')
  BY CutEffect
<1>2. PICK k \in 0..Len(conn[c].up), l \in 0..Len(conn[c].down) :
        conn'[c] = [conn[c] EXCEPT !.cut = TRUE, !.up = Append(SubSeq(@, 1, k), Frame(Bye)),
                                   !.down = Append(SubSeq(@, 1, l), Frame(Bye))]
  BY CutEffect
<1>3. conn[c] \in LineStates
  BY LineIs
<1>4. /\ conn'[c].app = conn[c].app /\ conn'[c].of = conn[c].of /\ conn'[c].hub = conn[c].hub
      /\ conn'[c].down = Append(SubSeq(conn[c].down, 1, l), Frame(Bye))
  BY <1>2, <1>3 DEF LineStates
<1>5. EndsKept
  BY <1>1, <1>4 DEF EndsKept
<1>6. NoneNewlyReplaced
  <2>1. Frame(Bye) \in Messages /\ Frame(Bye).type # "replaced"
    BY FramesAreMessages DEF FrameTypes, Bye
  <2>2. conn[c].down \in Seq(Messages)
    BY <1>3 DEF LineStates
  <2>3. NoneReplaced(conn[c].down) => NoneReplaced(Append(SubSeq(conn[c].down, 1, l), Frame(Bye)))
    BY <2>1, <2>2, NoneReplacedKept
  <2> QED
    BY <1>1, <1>4, <2>3 DEF NoneNewlyReplaced
<1>7. agent # NoConn => conn'[agent].hub \in {"open", "ended"}
  BY <1>1, <1>4, AgentIs
<1>8. Owners' /\ Waits' /\ AgentOpen' /\ OneStays'
  BY <1>5, <1>6, <1>7, SameInstances, LinkRests DEF Cut, hubVars, appVars
<1>9. events' \in 0..MaxEvents
  BY EventCounted DEF Cut, LinkInv, LinkTypes
<1>10. HubTyped' /\ LinkCounted' /\ AppTyped' /\ Hosted' /\ instance' \in [Instances -> InstanceStates]
  BY <1>9 DEF Cut, LinkInv, LinkTypes, HubTyped, LinkCounted, AppTyped, Hosted, hubVars, appVars
<1> QED
  BY <1>1, <1>8, <1>10, LinkAssembles

-----------------------------------------------------------------------------
(* The steps of the instances *)

\* An instance sends something, having taken something from the hub or not.
LEMMA AppSpeaks ==
  ASSUME LinkInv, NEW i \in Instances, NEW ms \in Seq(Messages), conn' = Up(conn, i, ms),
         BoundKept, UNCHANGED <<hubVars, typed>>, AppTyped', Hosted', Happens \/ Breaks \/ UNCHANGED events
  PROVE  /\ LinkInv'
         /\ \A c \in Conns : conn'[c] = IF c = instance[i].relay /\ conn[c].app = "open" /\ ~conn[c].cut
                                        THEN [conn[c] EXCEPT !.up = @ \o ms] ELSE conn[c]
<1>1. instance[i].relay \in Conns \cup {NoConn} /\ LinesOK(conn)
  BY DEF LinkInv, LinkTypes, InstanceStates
<1>2. /\ LinesOK(conn')
      /\ \A c \in Conns : conn'[c] = IF c = instance[i].relay /\ conn[c].app = "open" /\ ~conn[c].cut
                                     THEN [conn[c] EXCEPT !.up = @ \o ms] ELSE conn[c]
  BY <1>1, UpEffect
<1>3. \A c \in Conns : conn'[c].app = conn[c].app /\ conn'[c].of = conn[c].of /\ conn'[c].hub = conn[c].hub
                       /\ conn'[c].down = conn[c].down
  BY <1>2, LineIs DEF LineStates
<1>4. EndsKept /\ NoneNewlyReplaced
  BY <1>3 DEF EndsKept, NoneNewlyReplaced
<1>5. agent # NoConn => conn'[agent].hub \in {"open", "ended"}
  BY <1>3, AgentIs
<1>6. Owners' /\ Waits' /\ AgentOpen' /\ OneStays'
  BY <1>4, <1>5, LinkRests DEF hubVars
<1>7. events' \in 0..MaxEvents
  BY EventCounted DEF LinkInv, LinkTypes
<1>8. HubTyped' /\ LinkCounted' /\ instance' \in [Instances -> InstanceStates]
  BY <1>7 DEF LinkInv, LinkTypes, HubTyped, LinkCounted, hubVars, BoundKept
<1> QED
  BY <1>2, <1>6, <1>8, LinkAssembles

\* What an instance takes from the hub, unless it is the end.
Takes(i, c) == c = instance[i].relay /\ conn[c].down # <<>> /\ Head(conn[c].down).type # Bye
Taken(c) == [conn EXCEPT ![c].app = "open", ![c].down = Tail(@)]

LEMMA TakenEffect ==
  ASSUME LinkInv, NEW i \in Instances, NEW c \in Conns, Takes(i, c)
  PROVE  /\ LinesOK(Taken(c))
         /\ Taken(c)[c] = [conn[c] EXCEPT !.app = "open", !.down = Tail(@)]
         /\ \A d \in Conns \ {c} : Taken(c)[d] = conn[d]
         /\ Head(conn[c].down).type # "accepted" => conn[c].app = "open" /\ [conn EXCEPT ![c].down = Tail(@)] = Taken(c)
         /\ Head(conn[c].down) \in Messages
         /\ conn[c].hub # "verifying" /\ conn[c].app # "closed" /\ conn[c].of = i
<1>0. c = instance[i].relay /\ conn[c].down # <<>> /\ Head(conn[c].down).type # Bye
  BY DEF Takes
<1>1. conn[c].app # "closed" /\ conn[c].of = i /\ conn[c] \in LineStates /\ LineOK(conn[c])
  BY <1>0, LineIs, NoNumber DEF LinkInv, Owners
<1> DEFINE n == [conn[c] EXCEPT !.app = "open", !.down = Tail(@)]
<1>2. LineOK(n) /\ conn[c].hub # "verifying" /\ (conn[c].app = "connecting" => Head(conn[c].down).type = "accepted")
  BY <1>0, <1>1, TakenLine
<1>3. n \in LineStates
  BY <1>2 DEF LineOK
<1>4. Taken(c) = [conn EXCEPT ![c] = n]
  BY <1>1 DEF Taken, LinkInv, LinkTypes, LinesOK
<1> HIDE DEF n
<1>5. Taken(c)[c] = n /\ (\A d \in Conns \ {c} : Taken(c)[d] = conn[d]) /\ LinesOK(Taken(c))
  BY <1>1, <1>2, <1>3, <1>4 DEF LinkInv, LinkTypes, LinesOK
<1>6. Head(conn[c].down).type # "accepted" => conn[c].app = "open"
  BY <1>1, <1>2 DEF LineStates, AppStates
<1>7. conn[c].app = "open" => [conn EXCEPT ![c].down = Tail(@)] = Taken(c)
  <2> SUFFICES ASSUME conn[c].app = "open" PROVE [conn EXCEPT ![c].down = Tail(@)] = Taken(c)
    OBVIOUS
  <2>1. [conn[c] EXCEPT !.down = Tail(@)] = n
    BY <1>1 DEF n, LineStates
  <2>2. [conn EXCEPT ![c].down = Tail(@)] = [conn EXCEPT ![c] = [conn[c] EXCEPT !.down = Tail(@)]]
    BY <1>1 DEF LinkInv, LinkTypes, LinesOK
  <2> QED
    BY <1>4, <2>1, <2>2
<1>8. Head(conn[c].down) \in Messages
  BY <1>0, <1>1, Tails DEF LineStates
<1> QED
  BY <1>1, <1>2, <1>5, <1>6, <1>7, <1>8 DEF n

LEMMA AppTakes ==
  ASSUME LinkInv, NEW i \in Instances, NEW c \in Conns, Takes(i, c),
         \/ conn' = Taken(c)
         \/ \E ms \in Seq(Messages) : conn' = Up(Taken(c), i, ms),
         BoundKept, UNCHANGED <<hubVars, typed, events>>, AppTyped', Hosted'
  PROVE  LinkInv'
<1>1. /\ LinesOK(Taken(c))
      /\ Taken(c)[c] = [conn[c] EXCEPT !.app = "open", !.down = Tail(@)]
      /\ \A d \in Conns \ {c} : Taken(c)[d] = conn[d]
      /\ conn[c].app # "closed"
  BY TakenEffect
<1>0. c = instance[i].relay /\ conn[c].down # <<>>
  BY DEF Takes
<1>r. instance[i].relay \in Conns \cup {NoConn}
  BY <1>0
<1> HIDE DEF Taken
<1>2. /\ LinesOK(conn')
      /\ \A d \in Conns : conn'[d] = Taken(c)[d] \/ \E ms \in Seq(Messages) : conn'[d] = [Taken(c)[d] EXCEPT !.up = @ \o ms]
  <2>1. CASE conn' = Taken(c)
    BY <1>1, <2>1
  <2>2. CASE \E ms \in Seq(Messages) : conn' = Up(Taken(c), i, ms)
    <3>1. PICK ms \in Seq(Messages) : conn' = Up(Taken(c), i, ms)
      BY <2>2
    <3> DEFINE t == Taken(c)
    <3>t. LinesOK(t)
      BY <1>1
    <3> HIDE DEF t
    <3>2. /\ LinesOK(Up(t, i, ms))
          /\ \A d \in Conns : Up(t, i, ms)[d] = IF d = instance[i].relay /\ t[d].app = "open" /\ ~t[d].cut
                                                THEN [t[d] EXCEPT !.up = @ \o ms] ELSE t[d]
      BY <1>r, <3>t, UpEffect
    <3> USE DEF t
    <3> QED
      BY <3>1, <3>2
  <2> QED
    BY <2>1, <2>2
<1>3. \A d \in Conns : /\ conn'[d].app = Taken(c)[d].app /\ conn'[d].of = Taken(c)[d].of /\ conn'[d].hub = Taken(c)[d].hub
                       /\ conn'[d].down = Taken(c)[d].down
  <2>1. \A d \in Conns : Taken(c)[d] \in LineStates
    BY <1>1 DEF LinesOK
  <2> SUFFICES ASSUME NEW d \in Conns
               PROVE  /\ conn'[d].app = Taken(c)[d].app /\ conn'[d].of = Taken(c)[d].of /\ conn'[d].hub = Taken(c)[d].hub
                      /\ conn'[d].down = Taken(c)[d].down
    OBVIOUS
  <2>2. CASE conn'[d] = Taken(c)[d]
    BY <2>2
  <2>3. CASE \E ms \in Seq(Messages) : conn'[d] = [Taken(c)[d] EXCEPT !.up = @ \o ms]
    BY <2>1, <2>3 DEF LineStates
  <2> QED
    BY <1>2, <2>2, <2>3
<1>t. /\ Taken(c)[c].hub = conn[c].hub /\ Taken(c)[c].of = conn[c].of
      /\ Taken(c)[c].app = "open" /\ Taken(c)[c].down = Tail(conn[c].down)
  BY <1>1, LineIs DEF LineStates
<1>4. \A d \in Conns : conn'[d].hub = conn[d].hub /\ conn'[d].of = conn[d].of
  BY <1>1, <1>3, <1>t
<1>5. conn'[c].app = "open" /\ conn'[c].down = Tail(conn[c].down)
      /\ \A d \in Conns \ {c} : conn'[d].app = conn[d].app /\ conn'[d].down = conn[d].down
  BY <1>1, <1>3, <1>t
<1>6. EndsKept
  BY <1>1, <1>4, <1>5 DEF EndsKept
<1>7. NoneNewlyReplaced
  <2>1. conn[c].down \in Seq(Messages)
    BY <1>1, LineIs DEF LineStates
  <2>2. NoneReplaced(conn[c].down) => NoneReplaced(Tail(conn[c].down))
    BY <1>0, <2>1, NoneReplacedKept
  <2> QED
    BY <1>5, <2>2 DEF NoneNewlyReplaced
<1>8. agent # NoConn => conn'[agent].hub \in {"open", "ended"}
  BY <1>4, AgentIs
<1>9. Owners' /\ Waits' /\ AgentOpen' /\ OneStays'
  BY <1>6, <1>7, <1>8, LinkRests DEF hubVars
<1>10. HubTyped' /\ LinkCounted' /\ instance' \in [Instances -> InstanceStates]
  BY DEF LinkInv, LinkTypes, HubTyped, LinkCounted, hubVars, BoundKept
<1> QED
  BY <1>2, <1>9, <1>10, LinkAssembles

-----------------------------------------------------------------------------
(* The sockets to the local server *)

LEMMA DropTyped ==
  ASSUME AppTyped, Hosted, NEW i
  PROVE  /\ Drop(local, i) \in [Browsers -> LocalStates]
         /\ \A b \in Browsers : /\ Drop(local, i)[b].host = local[b].host
                                /\ (Drop(local, i)[b].socket = "none") <=> (local[b].socket = "none")
                                /\ Drop(local, i)[b].mapped <=> (local[b].mapped /\ local[b].host # i)
<1>e. <<>> \in Seq(1..MaxMessages)
  OBVIOUS
<1>1. ASSUME NEW b \in Browsers
      PROVE  /\ Drop(local, i)[b] \in LocalStates
             /\ Drop(local, i)[b].host = local[b].host
             /\ (Drop(local, i)[b].socket = "none") <=> (local[b].socket = "none")
             /\ Drop(local, i)[b].mapped <=> (local[b].mapped /\ local[b].host # i)
  <2> DEFINE s == IF local[b].socket = "open" THEN "closing" ELSE "closed"
             n == [local[b] EXCEPT !.mapped = FALSE, !.waiting = <<>>, !.socket = s]
  <2>1. local[b] \in LocalStates /\ (local[b].mapped => local[b].socket # "none")
    BY DEF AppTyped, Hosted
  <2>2. n \in LocalStates /\ n.host = local[b].host /\ n.socket # "none" /\ ~n.mapped
    BY <1>e, <2>1 DEF LocalStates
  <2>3. Drop(local, i)[b] = IF local[b].mapped /\ local[b].host = i THEN n ELSE local[b]
    BY <2>1 DEF Drop, LocalStates
  <2> HIDE DEF n
  <2> QED
    BY <2>1, <2>2, <2>3
<1>2. Drop(local, i) \in [Browsers -> LocalStates]
  BY <1>1 DEF Drop
<1> QED
  BY <1>1, <1>2

LEMMA CloseLocalTyped ==
  ASSUME AppTyped, Hosted, NEW i, NEW b \in Browsers, local' = CloseLocal(i, b), UNCHANGED instance
  PROVE  local' \in [Browsers -> LocalStates] /\ Hosted'
<1> DEFINE s == IF local[b].socket = "open" THEN "closing" ELSE "closed"
           n == [local[b] EXCEPT !.mapped = FALSE, !.waiting = <<>>, !.socket = s]
<1>e. <<>> \in Seq(1..MaxMessages)
  OBVIOUS
<1>1. local \in [Browsers -> LocalStates]
  BY DEF AppTyped
<1>2. n \in LocalStates /\ n.host = local[b].host /\ n.socket # "none" /\ ~n.mapped
  BY <1>e, <1>1 DEF LocalStates
<1>3. CASE local[b].mapped /\ local[b].host = i
  <2>1. local' = [local EXCEPT ![b] = n]
    BY <1>1, <1>3 DEF CloseLocal, LocalStates
  <2> HIDE DEF n
  <2> QED
    BY <1>1, <1>2, <1>3, <2>1 DEF Hosted
<1>4. CASE ~(local[b].mapped /\ local[b].host = i)
  BY <1>1, <1>4 DEF CloseLocal, Hosted
<1> QED
  BY <1>3, <1>4

LEMMA LocalOpensKeeps ==
  ASSUME LinkInv, NEW b \in Browsers, LocalOpens(b)
  PROVE  LinkInv'
<1> DEFINE l == [local[b] EXCEPT !.socket = "open", !.waiting = <<>>]
           t == took[b] \o local[b].waiting
<1>e. <<>> \in Seq(1..MaxMessages)
  OBVIOUS
<1>1. local \in [Browsers -> LocalStates] /\ took \in [Browsers -> Seq(1..MaxMessages)]
  BY DEF LinkInv, LinkTypes, AppTyped
<1>2. l \in LocalStates /\ l.host = local[b].host /\ l.socket = "open"
  BY <1>e, <1>1 DEF LocalStates
<1>3. local[b].waiting \in Seq(1..MaxMessages)
  BY <1>1 DEF LocalStates
<1>4. t \in Seq(1..MaxMessages)
  BY <1>1, <1>3
<1>5. local' = [local EXCEPT ![b] = l] /\ took' = [took EXCEPT ![b] = t]
  BY <1>1 DEF LocalOpens
<1>6. UNCHANGED <<hubVars, conn, instance, said, typed, events>> /\ local[b].socket = "connecting"
  BY DEF LocalOpens
<1> HIDE DEF l, t
<1>7. AppTyped'
  BY <1>1, <1>2, <1>4, <1>5, <1>6 DEF LinkInv, LinkTypes, AppTyped
<1>8. Hosted'
  BY <1>1, <1>2, <1>5, <1>6 DEF LinkInv, LinkTypes, Hosted
<1>9. Owners' /\ Waits' /\ AgentOpen' /\ OneStays'
  BY <1>6 DEF LinkInv, Owners, Waits, AgentOpen, OneStays, Stays, hubVars
<1>10. HubTyped' /\ LinkCounted' /\ instance' \in [Instances -> InstanceStates] /\ LinesOK(conn')
  BY <1>6 DEF LinkInv, LinkTypes, HubTyped, LinkCounted, hubVars
<1> QED
  BY <1>7, <1>8, <1>9, <1>10, LinkAssembles

LEMMA LocalClosedKeeps ==
  ASSUME LinkInv, NEW b \in Browsers, LocalClosed(b)
  PROVE  LinkInv'
<1> DEFINE l == [local[b] EXCEPT !.mapped = FALSE, !.waiting = <<>>, !.socket = "closed"]
           ms == <<M("close", b, 0, 0)>>
<1>e. <<>> \in Seq(1..MaxMessages)
  OBVIOUS
<1>1. local \in [Browsers -> LocalStates]
  BY DEF LinkInv, LinkTypes, AppTyped
<1>2. l \in LocalStates /\ l.host = local[b].host /\ l.socket = "closed" /\ ~l.mapped
  BY <1>e, <1>1 DEF LocalStates
<1>3. local[b].host \in Instances
  BY DEF LocalClosed, LinkInv, LinkTypes, Hosted
<1>4. M("close", b, 0, 0) \in Messages
  BY BrowserFrames
<1>5. ms \in Seq(Messages)
  BY <1>4
<1>6. /\ local' = [local EXCEPT ![b] = l] /\ conn' = Up(conn, local[b].host, ms)
      /\ UNCHANGED <<hubVars, instance, took, said, typed>> /\ (Happens \/ UNCHANGED events)
  BY <1>1 DEF LocalClosed
<1> HIDE DEF l, ms
<1>7. AppTyped' /\ Hosted'
  BY <1>1, <1>2, <1>3, <1>6 DEF LinkInv, LinkTypes, AppTyped, Hosted
<1> QED
  BY <1>3, <1>5, <1>6, <1>7, SameInstances, AppSpeaks

LEMMA LocalSaysKeeps ==
  ASSUME LinkInv, NEW b \in Browsers, LocalSays(b)
  PROVE  LinkInv'
<1> DEFINE i == local[b].host
           n == said[b] + 1
<1>0. i \in Instances
  BY DEF LocalSays, LinkInv, LinkTypes, Hosted
<1>1. said[b] \in 0..MaxMessages /\ said[b] < MaxMessages /\ MaxMessages \in Nat
  BY RelayLinkAssumption DEF RelayLinkAssumption, LocalSays, LinkInv, LinkTypes, AppTyped
<1>2. n \in 1..MaxMessages /\ n \in 0..MaxMessages
  BY <1>1
<1>3. /\ Happens /\ said' = [said EXCEPT ![b] = n] /\ UNCHANGED <<hubVars, instance, took, typed>>
      /\ \/ conn' = Up(conn, i, <<M("message", b, n, 0)>>) /\ UNCHANGED local
         \/ conn' = Up(conn, i, <<M("chunk", b, n, 1), M("chunk", b, n, 2)>>) /\ UNCHANGED local
         \/ conn' = Up(conn, i, <<M("close", b, 0, 0)>>) /\ local' = CloseLocal(i, b)
  BY DEF LocalSays
<1> HIDE DEF n, i
<1>4. /\ M("message", b, n, 0) \in Messages /\ M("close", b, 0, 0) \in Messages
      /\ M("chunk", b, n, 1) \in Messages /\ M("chunk", b, n, 2) \in Messages
  BY <1>2, BrowserFrames
<1>5. PICK ms \in Seq(Messages) : conn' = Up(conn, i, ms)
  <2>1. /\ <<M("message", b, n, 0)>> \in Seq(Messages) /\ <<M("close", b, 0, 0)>> \in Seq(Messages)
        /\ <<M("chunk", b, n, 1), M("chunk", b, n, 2)>> \in Seq(Messages)
    BY <1>4
  <2> QED
    BY <1>3, <2>1
<1>6. said' \in [Browsers -> 0..MaxMessages]
  BY <1>2, <1>3 DEF LinkInv, LinkTypes, AppTyped
<1>7. local' \in [Browsers -> LocalStates] /\ Hosted'
  <2>1. CASE UNCHANGED local
    BY <1>3, <2>1 DEF LinkInv, LinkTypes, AppTyped, Hosted
  <2>2. CASE local' = CloseLocal(i, b)
    BY <1>3, <2>2, CloseLocalTyped DEF LinkInv, LinkTypes
  <2> QED
    BY <1>3, <2>1, <2>2
<1>8. AppTyped'
  BY <1>3, <1>6, <1>7 DEF LinkInv, LinkTypes, AppTyped
<1> QED
  BY <1>0, <1>3, <1>5, <1>7, <1>8, SameInstances, AppSpeaks

-----------------------------------------------------------------------------
(* The relay client connects and loses its connection *)

LEMMA ConnectKeeps ==
  ASSUME LinkInv, NEW i \in Instances, Connect(i), instance[i].relay = NoConn, ~instance[i].fired,
         UNCHANGED <<hubVars, local, took, said, typed>>, Happens \/ UNCHANGED events
  PROVE  LinkInv'
<1>1. Owners' /\ Waits' /\ OneStays' /\ AgentOpen' /\ LinesOK(conn') /\ instance' \in [Instances -> InstanceStates]
  BY ConnectEffect DEF hubVars
<1>2. HubTyped' /\ AppTyped' /\ Hosted'
  BY DEF LinkInv, LinkTypes, HubTyped, AppTyped, Hosted, hubVars
<1>3. LinkCounted'
  BY EventCounted DEF LinkInv, LinkTypes, LinkCounted
<1> QED
  BY <1>1, <1>2, <1>3, LinkAssembles

LEMMA StartKeeps ==
  ASSUME LinkInv, NEW i \in Instances, Start(i)
  PROVE  LinkInv'
<1>1. instance[i].relay = NoConn /\ ~instance[i].fired
  BY DEF Start, LinkInv, Waits
<1> QED
  BY <1>1, ConnectKeeps DEF Start

LEMMA ReconnectKeeps ==
  ASSUME LinkInv, NEW i \in Instances, Reconnect(i)
  PROVE  LinkInv'
<1>1. instance[i].relay = NoConn /\ ~instance[i].fired
  BY DEF Reconnect, LinkInv, Waits
<1> QED
  BY <1>1, ConnectKeeps DEF Reconnect

\* The instance loses its connection, and with it its local sockets or not.
LEMMA LeavesKeeps ==
  ASSUME LinkInv, NEW i \in Instances, instance[i].relay # NoConn, conn' = AppClosed(conn, instance[i].relay),
         NEW n \in InstanceStates, instance' = [instance EXCEPT ![i] = n], n.relay = NoConn,
         n.stopped => ~n.timer, n.fired => n.stopped, n.fired => ~Stays(i),
         UNCHANGED <<hubVars, took, said, typed>>, local' \in {local, Drop(local, i)},
         Breaks \/ UNCHANGED events
  PROVE  LinkInv'
<1> DEFINE c == instance[i].relay
<1>1. c \in Conns /\ conn[c].app # "closed" /\ LinesOK(conn) /\ instance \in [Instances -> InstanceStates]
  BY DEF LinkInv, LinkTypes, InstanceStates, Owners
<1>2. /\ LinesOK(conn')
      /\ conn'[c] = Tidied([conn[c] EXCEPT !.app = "closed", !.down = <<>>,
                                           !.up = IF conn[c].cut THEN @ ELSE Append(@, Frame(Bye))])
      /\ \A d \in Conns \ {c} : conn'[d] = conn[d]
  BY <1>1, AppClosedEffect
<1>3. Owners' /\ Waits' /\ OneStays'
  BY LosesConnection DEF hubVars
<1>4. AgentOpen'
  <2> SUFFICES ASSUME agent # NoConn PROVE conn'[agent].hub \in {"open", "ended"}
    BY DEF AgentOpen, hubVars
  <2>1. agent \in Conns /\ conn[agent].hub \in {"open", "ended"}
    BY AgentIs
  <2>2. CASE agent = c
    <3> DEFINE x == [conn[c] EXCEPT !.app = "closed", !.down = <<>>, !.up = IF conn[c].cut THEN @ ELSE Append(@, Frame(Bye))]
    <3>1. x.hub = conn[c].hub
      OBVIOUS
    <3>2. conn'[c] = Tidied(x)
      BY <1>2
    <3> HIDE DEF x
    <3>3. Tidied(x) = x
      BY <2>1, <2>2, <3>1 DEF Tidied
    <3> QED
      BY <2>1, <2>2, <3>1, <3>2, <3>3
  <2>3. CASE agent # c
    BY <1>2, <2>1, <2>3
  <2> QED
    BY <2>2, <2>3
<1>5. AppTyped' /\ Hosted'
  BY DropTyped DEF LinkInv, LinkTypes, AppTyped, Hosted
<1>6. events' \in 0..MaxEvents
  BY EventCounted DEF LinkInv, LinkTypes
<1>7. HubTyped' /\ LinkCounted' /\ instance' \in [Instances -> InstanceStates]
  BY <1>1, <1>6 DEF LinkInv, LinkTypes, HubTyped, LinkCounted, hubVars
<1> QED
  BY <1>2, <1>3, <1>4, <1>5, <1>7, LinkAssembles

LEMMA AfterCloseTyped ==
  ASSUME LinkInv, NEW i \in Instances, instance[i].relay # NoConn, NEW replaced \in BOOLEAN
  PROVE  LET n == AfterClose(i, replaced)
         IN  /\ n \in InstanceStates /\ n.relay = NoConn /\ (n.stopped => ~n.timer) /\ (n.fired => n.stopped)
             /\ (n.fired => replaced) /\ n.runs = instance[i].runs
<1>1. instance[i] \in InstanceStates /\ ~instance[i].stopped /\ ~instance[i].fired /\ ~instance[i].timer
  BY DEF LinkInv, LinkTypes, Waits
<1>2. CASE replaced
  BY <1>1, <1>2 DEF AfterClose, InstanceStates
<1>3. CASE ~replaced
  BY <1>1, <1>3 DEF AfterClose, InstanceStates
<1> QED
  BY <1>2, <1>3

LEMMA HandshakeTimesOutKeeps ==
  ASSUME LinkInv, NEW i \in Instances, HandshakeTimesOut(i)
  PROVE  LinkInv'
<1> DEFINE n == AfterClose(i, FALSE)
<1>1. /\ n \in InstanceStates /\ n.relay = NoConn /\ (n.stopped => ~n.timer) /\ (n.fired => n.stopped) /\ ~n.fired
      /\ instance[i].relay # NoConn
  BY AfterCloseTyped DEF HandshakeTimesOut
<1>2. /\ conn' = AppClosed(conn, instance[i].relay) /\ instance' = [instance EXCEPT ![i] = n]
      /\ UNCHANGED <<hubVars, local, took, said, typed>> /\ Breaks
  BY DEF HandshakeTimesOut
<1> HIDE DEF n
<1> QED
  BY <1>1, <1>2, LeavesKeeps

LEMMA QuitKeeps ==
  ASSUME LinkInv, NEW i \in Instances, Quit(i)
  PROVE  LinkInv'
<1>1. NewInstance \in InstanceStates /\ NewInstance.relay = NoConn /\ ~NewInstance.timer /\ ~NewInstance.fired
  BY DEF NewInstance, InstanceStates
<1>2. /\ instance' = [instance EXCEPT ![i] = NewInstance] /\ local' = Drop(local, i)
      /\ conn' = IF instance[i].relay = NoConn THEN conn ELSE AppClosed(conn, instance[i].relay)
      /\ UNCHANGED <<hubVars, took, said, typed>> /\ Breaks
  BY DEF Quit
<1> HIDE DEF NewInstance
<1>3. CASE instance[i].relay # NoConn
  BY <1>1, <1>2, <1>3, LeavesKeeps
<1>4. CASE instance[i].relay = NoConn
  <2>1. instance'[i] = NewInstance /\ \A x \in Instances \ {i} : instance'[x] = instance[x]
    BY <1>2 DEF LinkInv, LinkTypes
  <2>2. conn' = conn
    BY <1>2, <1>4
  <2>3. Owners'
    <3>1. \A x \in Instances : instance'[x].relay = instance[x].relay
      BY <1>1, <1>4, <2>1
    <3> QED
      BY <2>2, <3>1 DEF LinkInv, Owners
  <2>4. Waits'
    BY <1>1, <2>1 DEF LinkInv, Waits
  <2>5. Stays(i)'
    BY <1>1, <2>1 DEF Stays
  <2>6. OneStays' /\ AgentOpen'
    BY <1>2, <2>2, <2>5 DEF OneStays, AgentOpen, LinkInv, hubVars
  <2>7. AppTyped' /\ Hosted'
    BY ZenonT(60), <1>2, DropTyped DEF LinkInv, LinkTypes, AppTyped, Hosted
  <2>8. events' \in 0..MaxEvents
    BY <1>2, EventCounted DEF LinkInv, LinkTypes
  <2>9. HubTyped' /\ LinkCounted' /\ instance' \in [Instances -> InstanceStates] /\ LinesOK(conn')
    BY <1>1, <1>2, <2>2, <2>8 DEF LinkInv, LinkTypes, HubTyped, LinkCounted, hubVars
  <2> QED
    BY <2>3, <2>4, <2>6, <2>7, <2>9, LinkAssembles
<1> QED
  BY <1>3, <1>4

-----------------------------------------------------------------------------
(* What an instance hears and says *)

LEMMA SetServiceKeeps ==
  ASSUME LinkInv, NEW i \in Instances, NEW runs \in BOOLEAN, SetService(i, runs), Happens \/ UNCHANGED events
  PROVE  LinkInv'
<1> DEFINE n == [instance[i] EXCEPT !.runs = runs, !.command = FALSE]
           ms == <<Frame(IF runs THEN "running" ELSE "other")>>
<1>1. instance \in [Instances -> InstanceStates]
  BY DEF LinkInv, LinkTypes
<1>2. /\ n \in InstanceStates /\ n.relay = instance[i].relay /\ n.stopped = instance[i].stopped
      /\ n.timer = instance[i].timer /\ n.fired = instance[i].fired
  BY <1>1 DEF InstanceStates
<1>3. Frame("running") \in Messages /\ Frame("other") \in Messages
  BY FramesAreMessages DEF FrameTypes, Bye
<1>4. ms \in Seq(Messages)
  BY <1>3
<1>5. /\ instance' = [instance EXCEPT ![i] = n] /\ conn' = Up(conn, i, ms)
      /\ UNCHANGED <<hubVars, local, took, said, typed>>
  BY <1>1 DEF SetService
<1> HIDE DEF n, ms
<1>6. BoundKept
  BY <1>1, <1>2, <1>5 DEF BoundKept
<1>7. AppTyped' /\ Hosted'
  BY <1>5 DEF LinkInv, LinkTypes, AppTyped, Hosted
<1> QED
  BY <1>4, <1>5, <1>6, <1>7, AppSpeaks

LEMMA OpenLocalTyped ==
  ASSUME AppTyped, Hosted, NEW i \in Instances, NEW b \in Browsers, OpenLocal(i, b)
  PROVE  local' \in [Browsers -> LocalStates] /\ Hosted'
<1> DEFINE n == [host |-> i, mapped |-> TRUE, socket |-> "connecting", waiting |-> <<>>]
<1>e. <<>> \in Seq(1..MaxMessages)
  OBVIOUS
<1>1. n \in LocalStates /\ n.host = i /\ n.socket = "connecting"
  BY <1>e DEF LocalStates
<1>2. CASE local' = [local EXCEPT ![b] = n]
  <2> HIDE DEF n
  <2> QED
    BY <1>1, <1>2 DEF AppTyped, Hosted
<1>3. CASE UNCHANGED local
  BY <1>3 DEF AppTyped, Hosted
<1> QED
  BY <1>2, <1>3 DEF OpenLocal

\* A message of a browser reaches the local server, or waits for it, or is dropped.
LEMMA ForwardTyped ==
  ASSUME AppTyped, Hosted, NEW b \in Browsers, NEW n \in 1..MaxMessages,
         \/ took' = [took EXCEPT ![b] = Append(@, n)] /\ UNCHANGED local
         \/ UNCHANGED took /\ KeptUntilOpen(b, n)
         \/ UNCHANGED <<took, local>>
  PROVE  took' \in [Browsers -> Seq(1..MaxMessages)] /\ local' \in [Browsers -> LocalStates] /\ Hosted'
<1>1. took[b] \in Seq(1..MaxMessages) /\ local[b] \in LocalStates
  BY DEF AppTyped
<1>2. CASE took' = [took EXCEPT ![b] = Append(@, n)] /\ UNCHANGED local
  <2> DEFINE t == Append(took[b], n)
  <2>1. t \in Seq(1..MaxMessages)
    BY <1>1
  <2>2. took' = [took EXCEPT ![b] = t]
    BY <1>2
  <2> HIDE DEF t
  <2> QED
    BY <1>2, <2>1, <2>2 DEF AppTyped, Hosted
<1>3. CASE UNCHANGED took /\ KeptUntilOpen(b, n)
  <2> DEFINE w == Append(local[b].waiting, n)
             l == [local[b] EXCEPT !.waiting = w]
  <2>1. w \in Seq(1..MaxMessages)
    BY <1>1 DEF LocalStates
  <2>2. local' = [local EXCEPT ![b] = l]
    BY <1>1, <1>3 DEF KeptUntilOpen, AppTyped
  <2> HIDE DEF w
  <2>3. l \in LocalStates /\ l.host = local[b].host /\ l.socket = local[b].socket /\ l.mapped = local[b].mapped
    BY <1>1, <2>1 DEF LocalStates
  <2> HIDE DEF l
  <2> QED
    BY <1>1, <1>3, <2>2, <2>3 DEF AppTyped, Hosted
<1>4. CASE UNCHANGED <<took, local>>
  BY <1>4 DEF AppTyped, Hosted
<1> QED
  BY <1>2, <1>3, <1>4

LEMMA FromHubKeeps ==
  ASSUME LinkInv, NEW i \in Instances, FromHub(i)
  PROVE  LinkInv'
<1> DEFINE c == instance[i].relay
           m == Head(conn[c].down)
           rest == [conn EXCEPT ![c].down = Tail(@)]
<1>1. c \in Conns /\ c # NoConn /\ conn[c].down # <<>> /\ conn[c].app # "closed" /\ conn[c].down \in Seq(Messages)
  <2>1. c # NoConn /\ conn[c].down # <<>>
    BY DEF FromHub
  <2>2. c \in Conns /\ conn[c].app # "closed"
    BY <2>1 DEF LinkInv, LinkTypes, InstanceStates, Owners
  <2> QED
    BY <2>1, <2>2, LineIs DEF LineStates
<1>2. UNCHANGED <<hubVars, said, typed, events>>
  BY DEF FromHub
<1>3. m \in Messages /\ conn[c].down[1] = m
  BY <1>1, Tails
<1>4. AppTyped /\ Hosted
  BY DEF LinkInv, LinkTypes
<1>5. CASE /\ m.type \in {Bye, "replaced"} /\ conn' = AppClosed(conn, c)
           /\ instance' = [instance EXCEPT ![i] = AfterClose(i, m.type = "replaced")]
           /\ local' = Drop(local, i) /\ UNCHANGED took
  <2> DEFINE replaced == m.type = "replaced"
             n == AfterClose(i, replaced)
  <2>1. replaced \in BOOLEAN
    OBVIOUS
  <2>2. replaced => ~Stays(i)
    <3>1. 1 \in 1..Len(conn[c].down)
      BY <1>1
    <3> QED
      BY <1>1, <1>3, <3>1 DEF Stays, NoneReplaced
  <2> HIDE DEF replaced
  <2>3. n \in InstanceStates /\ n.relay = NoConn /\ (n.stopped => ~n.timer) /\ (n.fired => n.stopped) /\ (n.fired => replaced)
    BY <1>1, <2>1, AfterCloseTyped
  <2>4. conn' = AppClosed(conn, instance[i].relay) /\ instance' = [instance EXCEPT ![i] = n] /\ local' = Drop(local, i)
        /\ UNCHANGED took /\ instance[i].relay # NoConn
    BY <1>1, <1>5 DEF replaced
  <2> HIDE DEF n, c, m
  <2> QED
    BY <1>2, <2>2, <2>3, <2>4, LeavesKeeps
<1>6. CASE m.type \notin {Bye, "replaced"}
  <2>1. Takes(i, c)
    BY <1>1, <1>6 DEF Takes
  <2>2. m.type # "accepted" => rest = Taken(c)
    BY <1>1, <2>1, TakenEffect
  <2>3. CASE m.type = "accepted"
    <3> DEFINE ms == <<Frame(IF instance[i].runs THEN "running" ELSE "other")>>
    <3>1. Frame("running") \in Messages /\ Frame("other") \in Messages
      BY FramesAreMessages DEF FrameTypes, Bye
    <3>2. ms \in Seq(Messages)
      BY <3>1
    <3>3. conn' = Up(Taken(c), i, ms) /\ UNCHANGED <<instance, local, took>>
      BY <2>3 DEF FromHub, Accepted, Taken, Bye
    <3>4. AppTyped' /\ Hosted'
      BY <1>2, <1>4, <3>3 DEF AppTyped, Hosted
    <3> HIDE DEF ms, c, m
    <3> QED
      BY <1>1, <1>2, <2>1, <3>2, <3>3, <3>4, SameInstances, AppTakes
  <2>4. CASE m.type = "command"
    <3>1. instance' = [instance EXCEPT ![i].command = TRUE] /\ conn' = Taken(c) /\ UNCHANGED <<local, took>>
      BY <2>2, <2>4 DEF FromHub, Bye
    <3>2. BoundKept
      BY <3>1 DEF BoundKept, LinkInv, LinkTypes, InstanceStates
    <3>3. AppTyped' /\ Hosted'
      BY <1>2, <1>4, <3>1 DEF AppTyped, Hosted
    <3> HIDE DEF c, m
    <3> QED
      BY <1>1, <1>2, <2>1, <3>1, <3>2, <3>3, AppTakes
  <2>5. CASE m.type = "open"
    <3>1. m.b \in Browsers
      BY <1>3, <2>5 DEF Messages
    <3>2. /\ OpenLocal(i, m.b) /\ UNCHANGED <<instance, took>>
          /\ conn' = Taken(c) \/ conn' = Up(Taken(c), i, <<M("close", m.b, 0, 0)>>)
      BY <2>2, <2>5 DEF FromHub, Bye
    <3> DEFINE b == m.b
               ms == <<M("close", b, 0, 0)>>
    <3>3. M("close", b, 0, 0) \in Messages
      BY <3>1, BrowserFrames
    <3>4. ms \in Seq(Messages)
      BY <3>3
    <3>5. b \in Browsers /\ OpenLocal(i, b) /\ (conn' = Taken(c) \/ conn' = Up(Taken(c), i, ms))
      BY <3>1, <3>2
    <3> HIDE DEF b, ms
    <3>6. AppTyped' /\ Hosted'
      BY <1>2, <1>4, <3>2, <3>5, OpenLocalTyped DEF AppTyped
    <3> HIDE DEF c, m
    <3> QED
      BY <1>1, <1>2, <2>1, <3>2, <3>4, <3>5, <3>6, SameInstances, AppTakes
  <2>6. CASE m.type = "message"
    <3> DEFINE b == m.b
               n == m.n
    <3>1. b \in Browsers /\ n \in 1..MaxMessages
      BY <1>3, <2>6, RelayLinkAssumption DEF Messages, RelayLinkAssumption
    <3>2. /\ conn' = Taken(c) /\ UNCHANGED instance
          /\ \/ took' = [took EXCEPT ![b] = Append(@, n)] /\ UNCHANGED local
             \/ UNCHANGED took /\ KeptUntilOpen(b, n)
             \/ UNCHANGED <<took, local>>
      BY <2>2, <2>6 DEF FromHub, Bye
    <3> HIDE DEF b, n, c, m
    <3>3. AppTyped' /\ Hosted'
      BY <1>2, <1>4, <3>1, <3>2, ForwardTyped DEF AppTyped
    <3> QED
      BY <1>1, <1>2, <2>1, <3>2, <3>3, SameInstances, AppTakes
  <2>7. CASE m.type = "close"
    <3> DEFINE b == m.b
    <3>1. b \in Browsers
      BY <1>3, <2>7 DEF Messages
    <3>2. conn' = Taken(c) /\ UNCHANGED <<instance, took>> /\ local' = CloseLocal(i, b)
      BY <2>2, <2>7 DEF FromHub, Bye
    <3> HIDE DEF b, c, m
    <3>3. AppTyped' /\ Hosted'
      BY <1>2, <1>4, <3>1, <3>2, CloseLocalTyped DEF AppTyped
    <3> QED
      BY <1>1, <1>2, <2>1, <3>2, <3>3, SameInstances, AppTakes
  <2> QED
    BY <1>6, <2>3, <2>4, <2>5, <2>6, <2>7 DEF FromHub
<1>7. m.type \in {Bye, "replaced"} =>
        /\ conn' = AppClosed(conn, c) /\ instance' = [instance EXCEPT ![i] = AfterClose(i, m.type = "replaced")]
        /\ local' = Drop(local, i) /\ UNCHANGED took
  BY DEF FromHub, Bye
<1> QED
  BY <1>5, <1>6, <1>7

-----------------------------------------------------------------------------
(* The invariant of the links *)

LEMMA InitLink == LinkInit => LinkInv
<1> SUFFICES ASSUME LinkInit PROVE LinkInv
  OBVIOUS
<1>e. <<>> \in Seq(1..MaxMessages)
  OBVIOUS
<1>a. MaxMessages \in Nat /\ MaxEvents \in Nat
  BY RelayLinkAssumption DEF RelayLinkAssumption
<1>n. /\ NewInstance \in InstanceStates
      /\ NewInstance.relay = NoConn /\ NewInstance.stopped /\ ~NewInstance.timer /\ ~NewInstance.fired
  BY DEF NewInstance, InstanceStates
<1>1. /\ NewInstance \in InstanceStates /\ [NewInstance EXCEPT !.runs = TRUE] \in InstanceStates
      /\ \A n \in {NewInstance, [NewInstance EXCEPT !.runs = TRUE]} :
           n.relay = NoConn /\ n.stopped /\ ~n.timer /\ ~n.fired
  BY <1>n DEF InstanceStates
<1>2. \A i \in Instances : instance[i] \in InstanceStates /\ instance[i].relay = NoConn /\ instance[i].stopped
                           /\ ~instance[i].timer /\ ~instance[i].fired
  BY <1>1 DEF LinkInit
<1>3. instance \in [Instances -> InstanceStates]
  BY <1>1 DEF LinkInit
<1>4. Closed \in LineStates /\ Closed.app = "closed"
  BY ClosedLine DEF LineOK, Closed
<1>5. LinesOK(conn)
  BY <1>4, ClosedLine DEF LinkInit, LinesOK
<1>6. HubTyped /\ LinkCounted
  <2> DEFINE first == [entered |-> FALSE, socket |-> "none", chunks |-> {}]
  <2>1. first \in BrowserStates
    BY DEF BrowserStates
  <2>2. browser = [b \in Browsers |-> first]
    BY DEF LinkInit
  <2> HIDE DEF first
  <2>3. browser \in [Browsers -> BrowserStates]
    BY <2>1, <2>2
  <2>4. heard \in [Browsers -> Seq(1..MaxMessages)] /\ typed \in [Browsers -> 0..MaxMessages] /\ events \in 0..MaxEvents
    BY <1>a, <1>e DEF LinkInit
  <2> QED
    BY <2>3, <2>4 DEF LinkInit, HubTyped, LinkCounted
<1>7. AppTyped /\ Hosted
  <2>1. NoLocal \in LocalStates /\ NoLocal.socket = "none" /\ ~NoLocal.mapped
    BY <1>e DEF NoLocal, LocalStates
  <2> QED
    BY <1>a, <1>e, <2>1 DEF LinkInit, AppTyped, Hosted
<1>8. Owners
  BY <1>2, <1>4 DEF Owners, LinkInit
<1>9. Waits /\ AgentOpen /\ OneStays
  BY <1>2 DEF Waits, AgentOpen, OneStays, Stays, LinkInit
<1> QED
  BY <1>3, <1>5, <1>6, <1>7, <1>8, <1>9 DEF LinkInv, LinkTypes

LEMMA NextLink == LinkInv /\ LinkNext => LinkInv'
<1> SUFFICES ASSUME LinkInv, LinkNext PROVE LinkInv'
  OBVIOUS
<1>1. ASSUME NEW c \in Conns, HubStep(c) \/ Cut(c) PROVE LinkInv'
  BY <1>1, AttachKeeps, HubClosedKeeps, FromAgentKeeps, CutKeeps DEF HubStep
<1>2. ASSUME NEW i \in Instances,
             AppStep(i) \/ Start(i) \/ HandshakeTimesOut(i) \/ CommandDone(i) \/ Switch(i) \/ Quit(i)
      PROVE  LinkInv'
  <2>1. CASE AppStep(i)
    BY <2>1, ReconnectKeeps, FromHubKeeps DEF AppStep
  <2>2. CASE Start(i) \/ HandshakeTimesOut(i) \/ Quit(i)
    BY <2>2, StartKeeps, HandshakeTimesOutKeeps, QuitKeeps
  <2>3. CASE CommandDone(i)
    BY <2>3, SetServiceKeeps DEF CommandDone
  <2>4. CASE Switch(i)
    <3>1. (~instance[i].runs) \in BOOLEAN
      OBVIOUS
    <3> QED
      BY <2>4, <3>1, SetServiceKeeps DEF Switch
  <2> QED
    BY <1>2, <2>1, <2>2, <2>3, <2>4
<1>3. ASSUME NEW b \in Browsers,
             \/ ChunkTimeout(b) \/ BrowserOpens(b) \/ BrowserTypes(b) \/ BrowserClosed(b)
             \/ LocalOpens(b) \/ LocalSays(b) \/ LocalClosed(b)
      PROVE  LinkInv'
  BY <1>3, ChunkTimeoutKeeps, BrowserOpensKeeps, BrowserTypesKeeps, BrowserClosedKeeps, LocalOpensKeeps,
     LocalSaysKeeps, LocalClosedKeeps
<1> QED
  BY <1>1, <1>2, <1>3, StartCommandKeeps DEF LinkNext

LEMMA StutterLink == LinkInv /\ UNCHANGED linkVars => LinkInv'
<1> SUFFICES ASSUME LinkInv, UNCHANGED linkVars PROVE LinkInv'
  OBVIOUS
<1>1. UNCHANGED <<agent, hubState, browser, heard, conn, instance, local, took, typed,
                  said, events, ghost, unpurged, late>>
  BY DEF linkVars
<1>2. Owners' /\ Waits' /\ AgentOpen' /\ OneStays'
  BY <1>1 DEF LinkInv, Owners, Waits, AgentOpen, OneStays, Stays
<1> QED
  BY <1>1, <1>2 DEF LinkInv, LinkTypes, HubTyped, AppTyped, LinkCounted, Hosted

HubLinkInv == LinkInv /\ focus \in {"link", "accounts"}

LEMMA LinkInvHolds == Spec => []HubLinkInv
<1>1. Init => HubLinkInv
  BY InitLink DEF Init, HubLinkInv
<1>2. HubLinkInv /\ [Next]_vars => HubLinkInv'
  BY NextLink, StutterLink DEF Next, vars, HubLinkInv
<1> QED
  BY <1>1, <1>2, PTL DEF Spec

\* What the hub, its links and its store hold stays within its types.
THEOREM HubTypes == Spec => []TypeOK
<1>1. HubLinkInv /\ AccountsInv => TypeOK
  BY LinkTypesOK DEF HubLinkInv, LinkInv, AccountsInv, TypeOK
<1> QED
  BY <1>1, LinkInvHolds, HubInv, PTL

\* Instances that run with the credentials of one device and replace each other
\* never put each other out of service all (#handleRelayClose, close code 4009,
\* and the hub's upgrade handler).
THEOREM OneStaysHolds == Spec => []OneInstanceStays
<1>1. HubLinkInv => OneInstanceStays
  BY DEF HubLinkInv, LinkInv, OneStays, Stays, OneInstanceStays
<1> QED
  BY <1>1, LinkInvHolds, PTL

-----------------------------------------------------------------------------
(* What the hub takes the device for *)

Live(r) == r.hub = "open" /\ r.app = "open" /\ ~r.cut

\* The state that was told last is st; none has been told.
Told(s, st) ==
  \A k \in 1..Len(s) : TellsState(s[k]) /\ (\A l \in (k + 1)..Len(s) : ~TellsState(s[l])) => s[k].type = st
Untold(s) == \A k \in 1..Len(s) : ~TellsState(s[k])
StateOf(runs) == IF runs THEN "running" ELSE "other"

\* What was told last over the agent's connection is the state of its instance,
\* and once it has arrived it is what the hub shows, unless it has asked for a
\* start since or a replaced connection has spoken.
Shows ==
  agent # NoConn /\ Live(conn[agent]) =>
    /\ Told(conn[agent].up, StateOf(instance[conn[agent].of].runs))
    /\ Untold(conn[agent].up) /\ ~ghost => hubState \in {"starting", StateOf(instance[conn[agent].of].runs)}

LEMMA ToldMore ==
  ASSUME NEW s \in Seq(Messages), NEW ms \in Seq(Messages), NEW st, Told(s, st), Untold(ms)
  PROVE  Told(s \o ms, st) /\ (Untold(s \o ms) => Untold(s))
<1>1. /\ Len(s) \in Nat /\ Len(ms) \in Nat /\ Len(s \o ms) = Len(s) + Len(ms)
      /\ \A k \in 1..Len(s) : (s \o ms)[k] = s[k]
      /\ \A k \in 1..(Len(s) + Len(ms)) : k \in 1..Len(s) \/ (k - Len(s) \in 1..Len(ms) /\ (s \o ms)[k] = ms[k - Len(s)])
  BY ConcatProperties
<1> DEFINE t == s \o ms
           a == Len(s)
           z == Len(s) + Len(ms)
<1>2. /\ a \in Nat /\ z \in Nat /\ a <= z /\ Len(t) = z
      /\ \A k \in 1..a : t[k] = s[k]
      /\ \A k \in 1..z : k \in 1..a \/ ~TellsState(t[k])
  BY <1>1 DEF Untold
<1>3. \A k \in 1..a : TellsState(s[k]) /\ (\A l \in (k + 1)..a : ~TellsState(s[l])) => s[k].type = st
  BY DEF Told
<1>q. Told(t, st) /\ (Untold(t) => Untold(s)) <=> Told(s \o ms, st) /\ (Untold(s \o ms) => Untold(s))
  OBVIOUS
<1>u. Untold(s) <=> \A k \in 1..a : ~TellsState(s[k])
  BY DEF Untold
<1> HIDE DEF t, a, z
<1>4. ASSUME NEW k \in 1..z, TellsState(t[k]), \A l \in (k + 1)..z : ~TellsState(t[l]) PROVE t[k].type = st
  <2>1. k \in 1..a /\ t[k] = s[k]
    BY <1>2, <1>4
  <2>2. \A l \in (k + 1)..a : l \in (k + 1)..z /\ t[l] = s[l]
    BY <1>2, <2>1
  <2>3. \A l \in (k + 1)..a : ~TellsState(s[l])
    BY <1>4, <2>2
  <2> QED
    BY <1>3, <1>4, <2>1, <2>3
<1>5. Told(t, st)
  BY <1>2, <1>4 DEF Told
<1>6. Untold(t) => Untold(s)
  BY <1>2, <1>u DEF Untold
<1> QED
  BY <1>5, <1>6, <1>q

LEMMA ToldNow ==
  ASSUME NEW s \in Seq(Messages), NEW m \in Messages, TellsState(m)
  PROVE  Told(s \o <<m>>, m.type) /\ ~Untold(s \o <<m>>)
<1>0. <<m>> \in Seq(Messages) /\ Len(<<m>>) = 1 /\ <<m>>[1] = m
  OBVIOUS
<1> DEFINE t == s \o <<m>>
           z == Len(s) + 1
<1>1. Len(t) = z /\ z \in Nat \ {0} /\ t[z] = m
  BY <1>0, ConcatProperties
<1>q. t = s \o <<m>>
  OBVIOUS
<1> HIDE DEF t, z
<1>2. \A k \in 1..z : k # z => z \in (k + 1)..z
  BY <1>1
<1>3. Told(t, m.type)
  BY <1>1, <1>2 DEF Told
<1>4. ~Untold(t)
  BY <1>1 DEF Untold
<1> QED
  BY <1>3, <1>4, <1>q

LEMMA ToldLess ==
  ASSUME NEW s \in Seq(Messages), NEW st, Told(s, st), s # <<>>
  PROVE  /\ Told(Tail(s), st)
         /\ Untold(Tail(s)) => IF TellsState(Head(s)) THEN Head(s).type = st ELSE Untold(s)
<1> DEFINE t == Tail(s)
           z == Len(s)
<1>1. /\ z \in Nat \ {0} /\ Len(t) = z - 1 /\ Head(s) = s[1]
      /\ \A k \in 1..(z - 1) : t[k] = s[k + 1]
  BY Tails
<1>2. \A k \in 1..z : TellsState(s[k]) /\ (\A l \in (k + 1)..z : ~TellsState(s[l])) => s[k].type = st
  BY DEF Told
<1>u. Untold(s) <=> \A k \in 1..z : ~TellsState(s[k])
  BY DEF Untold
<1>q. Told(t, st) <=> Told(Tail(s), st)
  OBVIOUS
<1>r. Untold(t) <=> Untold(Tail(s))
  OBVIOUS
<1> HIDE DEF t, z
<1>3. ASSUME NEW k \in 1..(z - 1), TellsState(t[k]), \A l \in (k + 1)..(z - 1) : ~TellsState(t[l]) PROVE t[k].type = st
  <2>1. k + 1 \in 1..z /\ t[k] = s[k + 1]
    BY <1>1
  <2>2. ASSUME NEW l \in (k + 2)..z PROVE ~TellsState(s[l])
    <3>1. l - 1 \in (k + 1)..(z - 1) /\ l - 1 \in 1..(z - 1) /\ l - 1 + 1 = l
      BY <1>1
    <3> QED
      BY <1>1, <1>3, <3>1
  <2>3. \A l \in ((k + 1) + 1)..z : ~TellsState(s[l])
    BY <1>1, <2>2
  <2> QED
    BY <1>2, <1>3, <2>1, <2>3
<1>4. Told(t, st)
  BY <1>1, <1>3 DEF Told
<1>5. ASSUME Untold(t) PROVE \A l \in 2..z : ~TellsState(s[l])
  <2> SUFFICES ASSUME NEW l \in 2..z PROVE ~TellsState(s[l])
    OBVIOUS
  <2>1. l - 1 \in 1..(z - 1) /\ l - 1 + 1 = l
    BY <1>1
  <2> QED
    BY <1>1, <1>5, <2>1 DEF Untold
<1>6. Untold(t) => IF TellsState(Head(s)) THEN Head(s).type = st ELSE Untold(s)
  <2> SUFFICES ASSUME Untold(t) PROVE IF TellsState(Head(s)) THEN Head(s).type = st ELSE Untold(s)
    OBVIOUS
  <2>1. \A l \in 2..z : ~TellsState(s[l])
    BY <1>5
  <2>2. TellsState(s[1]) => s[1].type = st
    <3>1. 1 \in 1..z /\ 1 + 1 = 2
      BY <1>1
    <3> QED
      BY <1>2, <2>1, <3>1
  <2>3. ~TellsState(s[1]) => Untold(s)
    <3>1. \A l \in 1..z : l = 1 \/ l \in 2..z
      BY <1>1
    <3> QED
      BY <1>u, <2>1, <3>1
  <2> QED
    BY <1>1, <2>2, <2>3
<1> QED
  BY <1>4, <1>6, <1>q, <1>r

LEMMA StateFrames ==
  ASSUME NEW runs \in BOOLEAN
  PROVE  /\ Frame(StateOf(runs)) \in Messages /\ TellsState(Frame(StateOf(runs)))
         /\ Frame(StateOf(runs)).type = StateOf(runs) /\ <<Frame(StateOf(runs))>> \in Seq(Messages)
         /\ Frame(IF runs THEN "running" ELSE "other") = Frame(StateOf(runs))
<1>1. /\ Frame("running") \in Messages /\ Frame("other") \in Messages
      /\ Frame("running").type = "running" /\ Frame("other").type = "other"
  BY FramesAreMessages DEF FrameTypes, Bye
<1>2. <<Frame("running")>> \in Seq(Messages) /\ <<Frame("other")>> \in Seq(Messages)
  BY <1>1
<1> QED
  BY <1>1, <1>2 DEF StateOf, TellsState

\* Nothing is told over a connection that lives, and no instance is another.
Quiet(c) ==
  Live(conn'[c]) =>
    /\ Live(conn[c]) /\ conn'[c].of = conn[c].of
    /\ conn'[c].up = conn[c].up \/ \E ms \in Seq(Messages) : Untold(ms) /\ conn'[c].up = conn[c].up \o ms

LEMMA ShowsKept ==
  ASSUME LinkInv, Shows, LinkInv', UNCHANGED <<agent, ghost, hubState>>, agent # NoConn => Quiet(agent),
         \A i \in Instances : agent # NoConn /\ instance[i].relay = agent /\ instance'[i].relay = agent =>
                               instance'[i].runs = instance[i].runs
  PROVE  Shows'
<1> SUFFICES ASSUME agent # NoConn, Live(conn'[agent])
             PROVE  /\ Told(conn'[agent].up, StateOf(instance'[conn'[agent].of].runs))
                    /\ Untold(conn'[agent].up) /\ ~ghost => hubState \in {"starting", StateOf(instance'[conn'[agent].of].runs)}
  BY DEF Shows
<1> DEFINE i == conn[agent].of
<1>1. agent \in Conns
  BY AgentIs
<1>2. Live(conn[agent]) /\ conn'[agent].of = i
      /\ (conn'[agent].up = conn[agent].up \/ \E ms \in Seq(Messages) : Untold(ms) /\ conn'[agent].up = conn[agent].up \o ms)
  BY <1>1 DEF Quiet
<1>3. i \in Instances /\ instance[i].relay = agent
  BY <1>1, <1>2 DEF LinkInv, Owners, Live
<1>4. instance'[i].relay = agent
  <2>1. Owners'
    BY DEF LinkInv
  <2>2. conn'[agent].app # "closed"
    BY DEF Live
  <2> QED
    BY <1>1, <1>2, <2>1, <2>2 DEF Owners
<1>5. instance'[conn'[agent].of].runs = instance[i].runs
  BY <1>2, <1>3, <1>4
<1>6. /\ Told(conn[agent].up, StateOf(instance[i].runs))
      /\ Untold(conn[agent].up) /\ ~ghost => hubState \in {"starting", StateOf(instance[i].runs)}
  BY <1>2 DEF Shows
<1>7. conn[agent].up \in Seq(Messages)
  BY <1>1, LineIs DEF LineStates
<1>8. Told(conn'[agent].up, StateOf(instance[i].runs)) /\ (Untold(conn'[agent].up) => Untold(conn[agent].up))
  <2>1. CASE conn'[agent].up = conn[agent].up
    BY <1>6, <2>1
  <2>2. CASE \E ms \in Seq(Messages) : Untold(ms) /\ conn'[agent].up = conn[agent].up \o ms
    <3>1. PICK ms \in Seq(Messages) : Untold(ms) /\ conn'[agent].up = conn[agent].up \o ms
      BY <2>2
    <3>2. Told(conn[agent].up \o ms, StateOf(instance[i].runs)) /\ (Untold(conn[agent].up \o ms) => Untold(conn[agent].up))
      BY <1>6, <1>7, <3>1, ToldMore
    <3> QED
      BY <3>1, <3>2
  <2> QED
    BY <1>2, <2>1, <2>2
<1> QED
  BY <1>5, <1>6, <1>8

\* An instance tells its state, over its connection if that lives.
LEMMA ToldShows ==
  ASSUME LinkInv, Shows, LinkInv', UNCHANGED <<agent, ghost, hubState>>, NEW i \in Instances, NEW c, c = instance[i].relay,
         agent \in Conns /\ agent # c => Quiet(agent),
         c \in Conns /\ Live(conn'[c]) =>
           conn'[c].of = i /\ \E s \in Seq(Messages) : conn'[c].up = s \o <<Frame(StateOf(instance'[i].runs))>>,
         \A x \in Instances \ {i} : instance'[x].runs = instance[x].runs
  PROVE  Shows'
<1>1. agent = NoConn \/ agent \in Conns
  BY AgentIs
<1>2. CASE agent = NoConn
  BY <1>2 DEF Shows
<1>3. CASE agent \in Conns /\ agent # c
  BY <1>3, ShowsKept
<1>4. CASE agent \in Conns /\ agent = c
  <2> SUFFICES ASSUME Live(conn'[c]) PROVE Told(conn'[c].up, StateOf(instance'[conn'[c].of].runs)) /\ ~Untold(conn'[c].up)
    BY <1>4 DEF Shows
  <2>1. PICK s \in Seq(Messages) : conn'[c].of = i /\ conn'[c].up = s \o <<Frame(StateOf(instance'[i].runs))>>
    BY <1>4
  <2>2. instance'[i].runs \in BOOLEAN
    BY DEF LinkInv, LinkTypes, InstanceStates
  <2> DEFINE m == Frame(StateOf(instance'[i].runs))
  <2>3. m \in Messages /\ TellsState(m) /\ m.type = StateOf(instance'[i].runs)
    BY <2>2, StateFrames
  <2>4. conn'[c].up = s \o <<m>>
    BY <2>1
  <2> HIDE DEF m
  <2>5. Told(s \o <<m>>, m.type) /\ ~Untold(s \o <<m>>)
    BY <2>3, ToldNow
  <2> QED
    BY <2>1, <2>3, <2>4, <2>5
<1> QED
  BY <1>1, <1>2, <1>3, <1>4

LEMMA TakesEffect ==
  ASSUME LinkInv, NEW i \in Instances, NEW c \in Conns, Takes(i, c), NEW ms \in Seq(Messages), conn' = Up(Taken(c), i, ms)
  PROVE  /\ \A d \in Conns \ {c} : conn'[d] = conn[d]
         /\ conn'[c].of = i /\ conn'[c].hub = conn[c].hub /\ conn'[c].cut = conn[c].cut /\ conn'[c].app = "open"
         /\ conn'[c].down = Tail(conn[c].down)
         /\ conn'[c].up = IF conn[c].cut THEN conn[c].up ELSE conn[c].up \o ms
<1> DEFINE t == Taken(c)
<1>1. /\ LinesOK(t)
      /\ t[c] = [conn[c] EXCEPT !.app = "open", !.down = Tail(@)]
      /\ \A d \in Conns \ {c} : t[d] = conn[d]
      /\ conn[c].of = i
  BY TakenEffect
<1>2. t[c].of = i /\ t[c].hub = conn[c].hub /\ t[c].cut = conn[c].cut /\ t[c].app = "open"
      /\ t[c].down = Tail(conn[c].down) /\ t[c].up = conn[c].up
  BY <1>1, LineIs DEF LineStates
<1>3. conn' = Up(t, i, ms)
  OBVIOUS
<1>0. c = instance[i].relay
  BY DEF Takes
<1> HIDE DEF t
<1>4. \A d \in Conns : conn'[d] = IF d = c /\ t[d].app = "open" /\ ~t[d].cut THEN [t[d] EXCEPT !.up = @ \o ms] ELSE t[d]
  <2>1. instance[i].relay \in Conns \cup {NoConn}
    BY <1>0
  <2>2. LinesOK(t)
    BY <1>1
  <2>3. \A d \in Conns : Up(t, i, ms)[d] = IF d = instance[i].relay /\ t[d].app = "open" /\ ~t[d].cut
                                            THEN [t[d] EXCEPT !.up = @ \o ms] ELSE t[d]
    BY <2>1, <2>2, UpEffect
  <2> QED
    BY <1>0, <1>3, <2>3
<1>5. t[c] \in LineStates
  BY <1>1 DEF LinesOK
<1>6. \A d \in Conns \ {c} : conn'[d] = conn[d]
  BY <1>1, <1>4
<1>7. conn'[c] = IF ~t[c].cut THEN [t[c] EXCEPT !.up = @ \o ms] ELSE t[c]
  BY <1>2, <1>4
<1> HIDE DEF Takes
<1>8. CASE conn[c].cut
  BY <1>2, <1>6, <1>7, <1>8
<1>9. CASE ~conn[c].cut
  BY <1>2, <1>5, <1>6, <1>7, <1>9 DEF LineStates
<1> QED
  BY <1>8, <1>9

LEMMA QuietLines ==
  ASSUME NEW c \in Conns
  PROVE  /\ conn'[c] = conn[c] => Quiet(c)
         /\ ~Live(conn'[c]) => Quiet(c)
BY DEF Quiet, Live

LEMMA UntoldFrames ==
  ASSUME NEW b \in Browsers
  PROVE  /\ \A n \in 1..MaxMessages : <<M("message", b, n, 0)>> \in Seq(Messages) /\ Untold(<<M("message", b, n, 0)>>)
         /\ \A n \in 1..MaxMessages : /\ <<M("chunk", b, n, 1), M("chunk", b, n, 2)>> \in Seq(Messages)
                                      /\ Untold(<<M("chunk", b, n, 1), M("chunk", b, n, 2)>>)
         /\ <<M("close", b, 0, 0)>> \in Seq(Messages) /\ Untold(<<M("close", b, 0, 0)>>)
<1>1. ASSUME NEW m \in Messages, m.type \in {"message", "close"} PROVE <<m>> \in Seq(Messages) /\ Untold(<<m>>)
  BY <1>1 DEF Untold, TellsState
<1>2. ASSUME NEW m \in Messages, NEW n \in Messages, m.type = "chunk", n.type = "chunk"
      PROVE  <<m, n>> \in Seq(Messages) /\ Untold(<<m, n>>)
  <2>1. Len(<<m, n>>) = 2 /\ <<m, n>>[1] = m /\ <<m, n>>[2] = n /\ <<m, n>> \in Seq(Messages)
    OBVIOUS
  <2>2. \A k \in 1..2 : k = 1 \/ k = 2
    OBVIOUS
  <2> QED
    BY <1>2, <2>1, <2>2 DEF Untold, TellsState
<1>3. /\ M("close", b, 0, 0) \in Messages /\ M("close", b, 0, 0).type = "close"
      /\ \A n \in 1..MaxMessages : M("message", b, n, 0) \in Messages /\ M("message", b, n, 0).type = "message"
      /\ \A n \in 1..MaxMessages, k \in {1, 2} : M("chunk", b, n, k) \in Messages /\ M("chunk", b, n, k).type = "chunk"
  BY BrowserFrames DEF M
<1> QED
  BY <1>1, <1>2, <1>3

LEMMA AttachShows ==
  ASSUME LinkInv, Shows, LinkInv', NEW c \in Conns, Attach(c)
  PROVE  Shows'
<1>v. conn[c].hub = "verifying" /\ conn[c].app # "open" /\ conn[c] \in LineStates
  BY LineIs DEF Attach, LineOK
<1>1. CASE /\ conn[c].up # <<>>
           /\ conn' = Tidy([conn EXCEPT ![c].hub = "closed", ![c].up = <<>>])
           /\ UNCHANGED <<hubVars, appVars, typed, events>>
  <2>1. agent # NoConn => agent \in Conns \ {c}
    BY <1>v, AgentIs
  <2>2. \A d \in Conns \ {c} : conn'[d] = conn[d]
    BY <1>1, <1>v, RefusesKeeps
  <2> QED
    BY <1>1, <2>1, <2>2, QuietLines, ShowsKept DEF hubVars, appVars
<1>2. CASE conn'[c].hub # "closed"
  <2>1. /\ agent' = c
        /\ conn'[c] = [conn[c] EXCEPT !.hub = "open", !.down = IF conn[c].cut THEN @ ELSE Append(@, Frame("accepted"))]
    BY <1>2, AttachedEffect
  <2>2. conn'[c].app # "open"
    BY <1>v, <2>1
  <2> QED
    BY <2>1, <2>2 DEF Shows, Live
<1> QED
  BY <1>1, <1>2, AttachTakes

LEMMA HubClosedShows ==
  ASSUME LinkInv, Shows, LinkInv', NEW c \in Conns, HubClosed(c)
  PROVE  Shows'
<1>1. CASE agent = c
  BY <1>1 DEF HubClosed, Shows
<1>2. CASE agent # c
  <2>1. UNCHANGED <<agent, ghost, hubState, instance>>
    BY <1>2 DEF HubClosed, appVars
  <2>2. \A d \in Conns \ {c} : conn'[d] = conn[d]
    BY HubClosedKeeps
  <2> QED
    BY <1>2, <2>1, <2>2, AgentIs, QuietLines, ShowsKept
<1> QED
  BY <1>1, <1>2

LEMMA FromAgentShows ==
  ASSUME LinkInv, Shows, LinkInv', NEW c \in Conns, FromAgent(c)
  PROVE  Shows'
<1> DEFINE m == Head(conn[c].up)
<1>1. /\ conn[c].hub \in {"open", "closing"} /\ conn[c].up \in Seq(Messages) /\ conn[c].up # <<>>
      /\ conn'[c] = [conn[c] EXCEPT !.up = Tail(@), !.hub = IF Head(conn[c].up).type = Bye THEN "ended" ELSE @]
      /\ \A d \in Conns \ {c} : conn'[d] = conn[d]
  BY HeardEffect
<1>2. UNCHANGED <<agent, instance>>
  BY DEF FromAgent, appVars
<1>3. \/ TellsState(m) /\ hubState' = m.type /\ ghost' = (c # agent)
      \/ ~TellsState(m) /\ UNCHANGED <<hubState, ghost>>
  BY DEF FromAgent, TellsState, Bye
<1>4. CASE agent # c /\ ~TellsState(m)
  BY <1>1, <1>2, <1>3, <1>4, AgentIs, QuietLines, ShowsKept
<1>5. CASE agent # c /\ TellsState(m)
  BY <1>1, <1>2, <1>3, <1>5, AgentIs DEF Shows
<1>6. CASE agent = c
  <2> SUFFICES ASSUME Live(conn'[c])
               PROVE  /\ Told(conn'[c].up, StateOf(instance[conn'[c].of].runs))
                      /\ Untold(conn'[c].up) /\ ~ghost' => hubState' \in {"starting", StateOf(instance[conn'[c].of].runs)}
    BY <1>2, <1>6 DEF Shows
  <2>1. Live(conn[c]) /\ conn'[c].of = conn[c].of /\ conn'[c].up = Tail(conn[c].up)
    BY <1>1, LineIs DEF Live, LineStates
  <2> DEFINE st == StateOf(instance[conn[c].of].runs)
  <2>2. Told(conn[c].up, st) /\ (Untold(conn[c].up) /\ ~ghost => hubState \in {"starting", st})
    BY <1>6, <2>1, NoNumber DEF Shows
  <2>q. st = StateOf(instance[conn'[c].of].runs)
    BY <2>1
  <2> HIDE DEF st
  <2>3. /\ Told(Tail(conn[c].up), st)
        /\ Untold(Tail(conn[c].up)) => IF TellsState(m) THEN m.type = st ELSE Untold(conn[c].up)
    BY <1>1, <2>2, ToldLess
  <2> HIDE DEF m
  <2>4. Untold(Tail(conn[c].up)) /\ ~ghost' => hubState' \in {"starting", st}
    BY <1>3, <2>2, <2>3
  <2> QED
    BY <2>1, <2>3, <2>4, <2>q
<1> QED
  BY <1>4, <1>5, <1>6

LEMMA HubSpeaksShows ==
  ASSUME LinkInv, Shows, LinkInv', NEW m \in Messages, m.type # "replaced", conn' = Down(conn, agent, m),
         UNCHANGED <<agent, instance, late>>,
         UNCHANGED <<ghost, hubState>> \/ hubState' = "starting"
  PROVE  Shows'
<1>1. \A c \in Conns : conn'[c] = IF c = agent /\ conn[c].hub = "open" /\ ~conn[c].cut
                                  THEN [conn[c] EXCEPT !.down = Append(@, m)] ELSE conn[c]
  BY HubTells
<1>2. \A c \in Conns : conn'[c].app = conn[c].app /\ conn'[c].hub = conn[c].hub /\ conn'[c].cut = conn[c].cut
                       /\ conn'[c].up = conn[c].up /\ conn'[c].of = conn[c].of
  BY <1>1, LineIs DEF LineStates
<1> QED
  BY <1>2, AgentIs DEF Shows, Live

LEMMA CutShows ==
  ASSUME LinkInv, Shows, LinkInv', NEW c \in Conns, Cut(c)
  PROVE  Shows'
<1>1. \A d \in Conns \ {c} : conn'[d] = conn[d]
  BY CutEffect
<1>2. PICK k \in 0..Len(conn[c].up), l \in 0..Len(conn[c].down) :
        conn'[c] = [conn[c] EXCEPT !.cut = TRUE, !.up = Append(SubSeq(@, 1, k), Frame(Bye)),
                                   !.down = Append(SubSeq(@, 1, l), Frame(Bye))]
  BY CutEffect
<1>3. conn[c] \in LineStates
  BY LineIs
<1>4. conn'[c].cut
  BY <1>2, <1>3 DEF LineStates
<1>5. \A d \in Conns : Quiet(d)
  BY <1>1, <1>4, QuietLines DEF Live
<1>6. UNCHANGED <<agent, ghost, hubState, instance>>
  BY DEF Cut, hubVars, appVars
<1> QED
  BY <1>5, <1>6, AgentIs, ShowsKept

\* The application sends something that tells no state.
LEMMA AppSpeaksShows ==
  ASSUME LinkInv, Shows, LinkInv', NEW i \in Instances, NEW ms \in Seq(Messages), Untold(ms), conn' = Up(conn, i, ms),
         UNCHANGED <<agent, ghost, hubState, instance>>
  PROVE  Shows'
<1>1. instance[i].relay \in Conns \cup {NoConn} /\ LinesOK(conn)
  BY DEF LinkInv, LinkTypes, InstanceStates
<1>2. \A c \in Conns : conn'[c] = IF c = instance[i].relay /\ conn[c].app = "open" /\ ~conn[c].cut
                                  THEN [conn[c] EXCEPT !.up = @ \o ms] ELSE conn[c]
  BY <1>1, UpEffect
<1>3. \A c \in Conns : conn'[c].app = conn[c].app /\ conn'[c].of = conn[c].of /\ conn'[c].hub = conn[c].hub
                       /\ conn'[c].cut = conn[c].cut /\ conn'[c].up \in {conn[c].up, conn[c].up \o ms}
  BY <1>2, LineIs DEF LineStates
<1>4. \A c \in Conns : Quiet(c)
  BY <1>3 DEF Quiet, Live
<1> QED
  BY <1>4, AgentIs, ShowsKept

LEMMA SetServiceShows ==
  ASSUME LinkInv, Shows, LinkInv', NEW i \in Instances, NEW runs \in BOOLEAN, SetService(i, runs)
  PROVE  Shows'
<1> DEFINE n == [instance[i] EXCEPT !.runs = runs, !.command = FALSE]
           ms == <<Frame(StateOf(runs))>>
           c == instance[i].relay
<1>1. instance \in [Instances -> InstanceStates] /\ c \in Conns \cup {NoConn} /\ LinesOK(conn)
  BY DEF LinkInv, LinkTypes, InstanceStates
<1>2. n \in InstanceStates /\ n.relay = c /\ n.runs = runs
  BY <1>1 DEF InstanceStates
<1>3. ms \in Seq(Messages) /\ <<Frame(IF runs THEN "running" ELSE "other")>> = ms
  BY StateFrames
<1>4. instance' = [instance EXCEPT ![i] = n] /\ conn' = Up(conn, i, ms) /\ UNCHANGED <<agent, ghost, hubState>>
  BY <1>1, <1>3 DEF SetService, hubVars
<1> HIDE DEF n
<1>5. instance'[i].runs = runs /\ \A x \in Instances \ {i} : instance'[x] = instance[x]
  BY <1>1, <1>2, <1>4
<1> HIDE DEF ms
<1>6. \A d \in Conns : conn'[d] = IF d = c /\ conn[d].app = "open" /\ ~conn[d].cut
                                  THEN [conn[d] EXCEPT !.up = @ \o ms] ELSE conn[d]
  <2>1. \A d \in Conns : Up(conn, i, ms)[d] = IF d = instance[i].relay /\ conn[d].app = "open" /\ ~conn[d].cut
                                               THEN [conn[d] EXCEPT !.up = @ \o ms] ELSE conn[d]
    BY ZenonT(60), <1>1, <1>3, UpEffect
  <2> QED
    BY <1>4, <2>1
<1>7. \A d \in Conns \ {c} : conn'[d] = conn[d]
  BY <1>6
<1>8. ASSUME c \in Conns, Live(conn'[c])
      PROVE  conn'[c].of = i /\ \E s \in Seq(Messages) : conn'[c].up = s \o ms
  <2>1. conn[c].of = i
    BY <1>8, NoNumber DEF LinkInv, Owners
  <2>2. conn[c].up \in Seq(Messages) /\ conn[c] \in LineStates
    BY <1>8, LineIs DEF LineStates
  <2>3. conn[c].app = "open" /\ ~conn[c].cut
    BY <1>6, <1>8 DEF Live
  <2>4. conn'[c] = [conn[c] EXCEPT !.up = @ \o ms]
    BY <1>6, <1>8, <2>3
  <2>5. conn'[c].of = i /\ conn'[c].up = conn[c].up \o ms
    BY <2>1, <2>2, <2>4 DEF LineStates
  <2> QED
    BY <2>2, <2>5
<1>9. agent \in Conns /\ agent # c => Quiet(agent)
  BY <1>7, QuietLines
<1>10. \A x \in Instances \ {i} : instance'[x].runs = instance[x].runs
  BY <1>5
<1>11. ms = <<Frame(StateOf(instance'[i].runs))>>
  BY <1>5 DEF ms
<1>12. c \in Conns /\ Live(conn'[c]) =>
         conn'[c].of = i /\ \E s \in Seq(Messages) : conn'[c].up = s \o <<Frame(StateOf(instance'[i].runs))>>
  BY <1>8, <1>11
<1>13. c = instance[i].relay /\ UNCHANGED <<agent, ghost, hubState>>
  BY <1>4
<1> HIDE DEF c
<1> QED
  BY <1>9, <1>10, <1>12, <1>13, ToldShows

\* An instance loses its connection.
LEMMA LeavesShows ==
  ASSUME LinkInv, Shows, LinkInv', NEW i \in Instances, instance[i].relay # NoConn,
         conn' = AppClosed(conn, instance[i].relay), UNCHANGED <<agent, ghost, hubState>>,
         \A x \in Instances \ {i} : instance'[x] = instance[x], instance'[i].relay = NoConn
  PROVE  Shows'
<1> DEFINE c == instance[i].relay
<1>1. c \in Conns /\ conn[c].app # "closed" /\ LinesOK(conn)
  BY DEF LinkInv, LinkTypes, InstanceStates, Owners
<1>2. conn'[c].app = "closed" /\ \A d \in Conns \ {c} : conn'[d] = conn[d]
  BY <1>1, AppClosedEffect
<1>3. \A d \in Conns : Quiet(d)
  BY <1>2, QuietLines DEF Live
<1> QED
  BY <1>3, AgentIs, ShowsKept

LEMMA ConnectShows ==
  ASSUME LinkInv, Shows, LinkInv', NEW i \in Instances, Connect(i), instance[i].relay = NoConn, ~instance[i].fired,
         UNCHANGED hubVars
  PROVE  Shows'
<1>1. /\ \E c \in Conns : conn[c] = Closed /\ conn'[c].app = "connecting" /\ conn'[c].hub = "verifying"
                          /\ conn'[c].down = <<>> /\ conn'[c].up = <<>>
                          /\ \A d \in Conns \ {c} : conn'[d] = conn[d]
      /\ \A x \in Instances \ {i} : instance'[x] = instance[x]
      /\ instance'[i].runs = instance[i].runs
  BY ConnectEffect DEF hubVars
<1>2. \A d \in Conns : Quiet(d)
  BY <1>1, QuietLines DEF Live
<1> QED
  BY <1>1, <1>2, AgentIs, ShowsKept DEF hubVars

LEMMA FromHubShows ==
  ASSUME LinkInv, Shows, LinkInv', NEW i \in Instances, FromHub(i)
  PROVE  Shows'
<1> DEFINE c == instance[i].relay
           m == Head(conn[c].down)
           rest == [conn EXCEPT ![c].down = Tail(@)]
<1>1. c \in Conns /\ c # NoConn /\ conn[c].down # <<>> /\ conn[c].down \in Seq(Messages)
  <2>1. c # NoConn /\ conn[c].down # <<>>
    BY DEF FromHub
  <2>2. c \in Conns /\ conn[c].app # "closed"
    BY <2>1 DEF LinkInv, LinkTypes, InstanceStates, Owners
  <2> QED
    BY <2>1, <2>2, LineIs DEF LineStates
<1>2. UNCHANGED <<agent, ghost, hubState>>
  BY DEF FromHub, hubVars
<1>3. m \in Messages
  BY <1>1, Tails
<1>i. instance \in [Instances -> InstanceStates]
  BY DEF LinkInv, LinkTypes
<1>5. CASE m.type \in {Bye, "replaced"}
  <2> DEFINE n == AfterClose(i, m.type = "replaced")
  <2>1. conn' = AppClosed(conn, c) /\ instance' = [instance EXCEPT ![i] = n]
    BY <1>5 DEF FromHub, Bye
  <2>2. n.relay = NoConn
    BY DEF AfterClose, InstanceStates, LinkInv, LinkTypes
  <2> HIDE DEF n
  <2>3. instance'[i].relay = NoConn /\ \A x \in Instances \ {i} : instance'[x] = instance[x]
    BY <1>i, <2>1, <2>2
  <2> QED
    BY <1>1, <1>2, <2>1, <2>3, LeavesShows
<1>6. CASE m.type \notin {Bye, "replaced"}
  <2>1. Takes(i, c)
    BY <1>1, <1>6 DEF Takes
  <2>e. /\ m.type # "accepted" => rest = Taken(c) /\ conn[c].app = "open"
        /\ Taken(c)[c] = [conn[c] EXCEPT !.app = "open", !.down = Tail(@)]
        /\ \A d \in Conns \ {c} : Taken(c)[d] = conn[d]
        /\ conn[c].of = i
    <3>1. c \in Conns
      BY <1>1
    <3>2. /\ Taken(c)[c] = [conn[c] EXCEPT !.app = "open", !.down = Tail(@)]
          /\ \A d \in Conns \ {c} : Taken(c)[d] = conn[d]
          /\ conn[c].of = i
      BY ZenonT(60), <2>1, <3>1, TakenEffect
    <3>3. m.type # "accepted" => rest = Taken(c)
      BY <1>1, <2>1, TakenEffect
    <3>4. m.type # "accepted" => conn[c].app = "open"
      BY ZenonT(60), <2>1, <3>1, TakenEffect
    <3> QED
      BY <3>2, <3>3, <3>4
  <2>c. conn[c] \in LineStates
    BY <1>1, LineIs
  <2>2. CASE m.type = "accepted"
    <3> DEFINE ms == <<Frame(StateOf(instance[i].runs))>>
    <3>1. ms \in Seq(Messages) /\ <<Frame(IF instance[i].runs THEN "running" ELSE "other")>> = ms
      BY <1>i, StateFrames DEF InstanceStates
    <3>2. conn' = Up(Taken(c), i, ms) /\ UNCHANGED instance
      BY <2>2, <3>1 DEF FromHub, Accepted, Taken, Bye
    <3> HIDE DEF ms
    <3>3. /\ \A d \in Conns \ {c} : conn'[d] = conn[d]
          /\ conn'[c].of = i /\ conn'[c].cut = conn[c].cut
          /\ conn'[c].up = IF conn[c].cut THEN conn[c].up ELSE conn[c].up \o ms
      BY <1>1, <2>1, <3>1, <3>2, TakesEffect
    <3>4. Live(conn'[c]) => conn'[c].of = i /\ \E s \in Seq(Messages) : conn'[c].up = s \o ms
      BY <2>c, <3>3 DEF Live, LineStates
    <3>5. ms = <<Frame(StateOf(instance'[i].runs))>>
      BY <3>2 DEF ms
    <3>6. agent \in Conns /\ agent # c => Quiet(agent)
      BY <3>3, QuietLines
    <3> HIDE DEF m
    <3>7. c = instance[i].relay
      OBVIOUS
    <3>8. \A x \in Instances \ {i} : instance'[x].runs = instance[x].runs
      BY <3>2
    <3> HIDE DEF c
    <3> QED
      BY <1>2, <3>4, <3>5, <3>6, <3>7, <3>8, ToldShows
  <2>3. CASE m.type # "accepted"
    <3>1. /\ \/ conn' = Taken(c)
             \/ m.type = "open" /\ conn' = Up(Taken(c), i, <<M("close", m.b, 0, 0)>>)
          /\ instance' \in {instance, [instance EXCEPT ![i].command = TRUE]}
      BY <1>6, <2>e, <2>3 DEF FromHub, Bye
    <3>2. \A x \in Instances : instance'[x].runs = instance[x].runs
      BY <1>i, <3>1 DEF InstanceStates
    <3>3. CASE conn' = Taken(c)
      <4>1. /\ conn'[c].of = conn[c].of /\ conn'[c].hub = conn[c].hub /\ conn'[c].cut = conn[c].cut
            /\ conn'[c].up = conn[c].up
        BY <2>c, <2>e, <3>3 DEF LineStates
      <4>2. Quiet(c)
        BY <2>e, <2>3, <4>1 DEF Quiet, Live
      <4>3. \A d \in Conns \ {c} : Quiet(d)
        BY <2>e, <3>3, QuietLines
      <4> QED
        BY <1>2, <3>2, <4>2, <4>3, AgentIs, ShowsKept
    <3>4. CASE m.type = "open" /\ conn' = Up(Taken(c), i, <<M("close", m.b, 0, 0)>>)
      <4> DEFINE b == m.b
                 ms == <<M("close", b, 0, 0)>>
      <4>1. b \in Browsers
        BY <1>3, <3>4 DEF Messages
      <4>2. conn' = Up(Taken(c), i, ms)
        BY <3>4
      <4> HIDE DEF b
      <4>3. ms \in Seq(Messages) /\ Untold(ms)
        BY <4>1, UntoldFrames
      <4> HIDE DEF ms
      <4>4. /\ \A d \in Conns \ {c} : conn'[d] = conn[d]
            /\ conn'[c].of = i /\ conn'[c].hub = conn[c].hub /\ conn'[c].cut = conn[c].cut
            /\ conn'[c].up = IF conn[c].cut THEN conn[c].up ELSE conn[c].up \o ms
        BY <1>1, <2>1, <4>2, <4>3, TakesEffect
      <4>5. Quiet(c)
        BY <2>e, <2>3, <4>3, <4>4 DEF Quiet, Live
      <4>6. \A d \in Conns \ {c} : Quiet(d)
        BY <4>4, QuietLines
      <4> QED
        BY <1>2, <3>2, <4>5, <4>6, AgentIs, ShowsKept
    <3> QED
      BY <3>1, <3>3, <3>4
  <2> QED
    BY <2>2, <2>3
<1> QED
  BY <1>5, <1>6

LEMMA NextShows == LinkInv /\ Shows /\ LinkNext => Shows'
<1> SUFFICES ASSUME LinkInv, Shows, LinkNext PROVE Shows'
  OBVIOUS
<1>k. LinkInv'
  BY NextLink
<1>u. ASSUME UNCHANGED <<agent, ghost, hubState, conn, instance>> PROVE Shows'
  BY <1>u DEF Shows
<1>1. ASSUME NEW c \in Conns, HubStep(c) \/ Cut(c) PROVE Shows'
  BY <1>1, <1>k, AttachShows, HubClosedShows, FromAgentShows, CutShows DEF HubStep
<1>2. ASSUME NEW i \in Instances,
             AppStep(i) \/ Start(i) \/ HandshakeTimesOut(i) \/ CommandDone(i) \/ Switch(i) \/ Quit(i)
      PROVE  Shows'
  <2>i. instance \in [Instances -> InstanceStates]
    BY DEF LinkInv, LinkTypes
  <2>1. CASE FromHub(i)
    BY <1>k, <2>1, FromHubShows
  <2>2. CASE Reconnect(i) \/ Start(i)
    <3>1. instance[i].relay = NoConn /\ ~instance[i].fired
      BY <2>2 DEF Reconnect, Start, LinkInv, Waits
    <3>2. Connect(i) /\ UNCHANGED hubVars
      BY <2>2 DEF Reconnect, Start
    <3> QED
      BY <1>k, <3>1, <3>2, ConnectShows
  <2>3. CASE HandshakeTimesOut(i)
    <3> DEFINE n == AfterClose(i, FALSE)
    <3>1. n.relay = NoConn
      BY <2>i DEF AfterClose, InstanceStates
    <3>2. /\ instance[i].relay # NoConn /\ conn' = AppClosed(conn, instance[i].relay) /\ UNCHANGED <<agent, ghost, hubState>>
          /\ instance' = [instance EXCEPT ![i] = n]
      BY <2>3 DEF HandshakeTimesOut, hubVars
    <3> HIDE DEF n
    <3>3. instance'[i].relay = NoConn /\ \A x \in Instances \ {i} : instance'[x] = instance[x]
      BY <2>i, <3>1, <3>2
    <3> QED
      BY <1>k, <3>2, <3>3, LeavesShows
  <2>4. CASE CommandDone(i)
    BY <1>k, <2>4, SetServiceShows DEF CommandDone
  <2>5. CASE Switch(i)
    <3>1. (~instance[i].runs) \in BOOLEAN
      OBVIOUS
    <3> QED
      BY <1>k, <2>5, <3>1, SetServiceShows DEF Switch
  <2>6. CASE Quit(i)
    <3>1. /\ instance' = [instance EXCEPT ![i] = NewInstance] /\ UNCHANGED <<agent, ghost, hubState>>
          /\ conn' = IF instance[i].relay = NoConn THEN conn ELSE AppClosed(conn, instance[i].relay)
      BY <2>6 DEF Quit, hubVars
    <3>2. NewInstance.relay = NoConn
      BY DEF NewInstance
    <3>3. instance'[i].relay = NoConn /\ \A x \in Instances \ {i} : instance'[x] = instance[x]
      BY <2>i, <3>1, <3>2
    <3>4. CASE instance[i].relay # NoConn
      BY <1>k, <3>1, <3>3, <3>4, LeavesShows
    <3>5. CASE instance[i].relay = NoConn
      <4>1. conn' = conn
        BY <3>1, <3>5
      <4> QED
        BY <1>k, <3>1, <3>3, <4>1, AgentIs, QuietLines, ShowsKept
    <3> QED
      BY <3>4, <3>5
  <2> QED
    BY <1>2, <2>1, <2>2, <2>3, <2>4, <2>5, <2>6 DEF AppStep
<1>3. ASSUME NEW b \in Browsers, ChunkTimeout(b) \/ LocalOpens(b) PROVE Shows'
  BY <1>u, <1>3 DEF ChunkTimeout, LocalOpens, hubVars, appVars
<1>4. ASSUME NEW b \in Browsers, BrowserOpens(b) \/ BrowserTypes(b) \/ BrowserClosed(b) PROVE Shows'
  <2>1. UNCHANGED <<agent, instance, late, ghost, hubState>>
    BY <1>4 DEF BrowserOpens, BrowserTypes, BrowserClosed, hubVars, appVars
  <2>2. CASE BrowserOpens(b) \/ BrowserClosed(b)
    <3>1. PICK m \in {M("open", b, 0, 0), M("close", b, 0, 0)} : conn' = Down(conn, agent, m)
      BY <2>2 DEF BrowserOpens, BrowserClosed
    <3>2. M("open", b, 0, 0) \in Messages /\ M("close", b, 0, 0) \in Messages
      BY BrowserFrames
    <3>3. M("open", b, 0, 0).type # "replaced" /\ M("close", b, 0, 0).type # "replaced"
      BY DEF M
    <3> QED
      BY <1>k, <2>1, <3>1, <3>2, <3>3, HubSpeaksShows
  <2>3. CASE BrowserTypes(b)
    <3> DEFINE n == typed[b] + 1
               m == M("message", b, n, 0)
    <3>1. typed[b] \in 0..MaxMessages /\ typed[b] < MaxMessages /\ MaxMessages \in Nat
      BY <2>3, RelayLinkAssumption DEF RelayLinkAssumption, BrowserTypes, LinkInv, LinkTypes, LinkCounted
    <3>2. n \in 1..MaxMessages
      BY <3>1
    <3>3. conn' = Down(conn, agent, m)
      BY <2>3 DEF BrowserTypes
    <3> HIDE DEF n
    <3>4. m \in Messages /\ m.type # "replaced"
      BY <3>2, BrowserFrames DEF M
    <3> HIDE DEF m
    <3> QED
      BY <1>k, <2>1, <3>3, <3>4, HubSpeaksShows
  <2> QED
    BY <1>4, <2>2, <2>3
<1>5. ASSUME NEW b \in Browsers, LocalSays(b) \/ LocalClosed(b) PROVE Shows'
  <2>0. local[b].host \in Instances
    BY <1>5 DEF LocalSays, LocalClosed, LinkInv, LinkTypes, Hosted
  <2>1. UNCHANGED <<agent, instance, ghost, hubState>>
    BY <1>5 DEF LocalSays, LocalClosed, hubVars
  <2>2. \E ms \in Seq(Messages) : Untold(ms) /\ conn' = Up(conn, local[b].host, ms)
    <3>1. CASE LocalClosed(b)
      BY <3>1, UntoldFrames DEF LocalClosed
    <3>2. CASE LocalSays(b)
      <4> DEFINE n == said[b] + 1
      <4>1. said[b] \in 0..MaxMessages /\ said[b] < MaxMessages /\ MaxMessages \in Nat
        BY <3>2, RelayLinkAssumption DEF RelayLinkAssumption, LocalSays, LinkInv, LinkTypes, AppTyped
      <4>2. n \in 1..MaxMessages
        BY <4>1
      <4>3. \/ conn' = Up(conn, local[b].host, <<M("message", b, n, 0)>>)
            \/ conn' = Up(conn, local[b].host, <<M("chunk", b, n, 1), M("chunk", b, n, 2)>>)
            \/ conn' = Up(conn, local[b].host, <<M("close", b, 0, 0)>>)
        BY <3>2 DEF LocalSays
      <4> HIDE DEF n
      <4> QED
        BY <4>2, <4>3, UntoldFrames
    <3> QED
      BY <1>5, <3>1, <3>2
  <2> QED
    BY <1>k, <2>0, <2>1, <2>2, AppSpeaksShows
<1>6. ASSUME StartCommand PROVE Shows'
  <2> DEFINE m == Frame("command")
  <2>1. m \in Messages /\ m.type = "command"
    BY FramesAreMessages DEF FrameTypes, Bye
  <2>2. conn' = Down(conn, agent, m) /\ UNCHANGED <<agent, instance, late>> /\ hubState' = "starting"
    BY <1>6 DEF StartCommand, appVars
  <2> HIDE DEF m
  <2>3. m.type # "replaced"
    BY <2>1
  <2> QED
    BY <1>k, <2>1, <2>2, <2>3, HubSpeaksShows
<1> QED
  BY <1>1, <1>2, <1>3, <1>4, <1>5, <1>6 DEF LinkNext

LEMMA ShownWhenSilent == LinkInv /\ Shows => HubShowsTheInstance
<1> SUFFICES ASSUME LinkInv, Shows, Silent, ~ghost, agent # NoConn, hubState # "starting"
             PROVE  hubState = "running" <=> instance[conn[agent].of].runs
  BY DEF HubShowsTheInstance
<1>1. agent \in Conns /\ LineOK(conn[agent]) /\ conn[agent].hub = "open"
  BY AgentIs, LineIs DEF Silent
<1>2. conn[agent].up = <<>> /\ conn[agent].down = <<>>
  BY <1>1 DEF Silent
<1>3. conn[agent].app = "open" /\ ~conn[agent].cut
  BY <1>1, <1>2 DEF LineOK, LineStates, AppStates
<1>4. Untold(conn[agent].up)
  BY <1>2 DEF Untold
<1>5. hubState = StateOf(instance[conn[agent].of].runs)
  BY <1>1, <1>3, <1>4 DEF Shows, Live
<1> QED
  BY <1>5 DEF StateOf

\* When nothing is under way the hub takes the device for running exactly when
\* the instance that is connected runs, whatever was lost, unless a replaced
\* connection has spoken last (updateServiceState, handleAgentMessage).
THEOREM ShowsHolds == Spec => []HubShowsTheInstance
<1> DEFINE I == HubLinkInv /\ Shows
<1>1. Init => I
  BY InitLink DEF Init, HubLinkInv, Shows, LinkInit
<1>2. I /\ [Next]_vars => I'
  <2>1. HubLinkInv /\ [Next]_vars => HubLinkInv'
    BY NextLink, StutterLink DEF Next, vars, HubLinkInv
  <2>2. LinkInv /\ Shows /\ UNCHANGED linkVars => Shows'
    BY DEF linkVars, Shows
  <2> QED
    BY <2>1, <2>2, NextShows DEF Next, vars, HubLinkInv
<1>3. I => HubShowsTheInstance
  BY ShownWhenSilent DEF HubLinkInv
<1> QED
  BY <1>1, <1>2, <1>3, PTL DEF Spec

=============================================================================
