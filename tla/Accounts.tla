------------------------------ MODULE Accounts ------------------------------
(***************************************************************************)
(* Devices and their owners in the PostgreSQL store of the hub             *)
(* (backend/src/postgres-store.mjs): pairing, claiming, revoking, the      *)
(* first migration, and what the hub does with a device's connection when  *)
(* it is revoked (backend/src/server.mjs).                                 *)
(*                                                                         *)
(* createPairing and claimPairing are transactions of several queries on   *)
(* connections of a pool.  A query sees what is committed (READ COMMITTED) *)
(* and waits for a row, or a unique key, that another transaction has      *)
(* locked, written or deleted; of two that wait for each other the         *)
(* database aborts one, and the code rolls it back.                        *)
(***************************************************************************)
EXTENDS Naturals, FiniteSets

CONSTANTS
  Users, Devices,
  Secrets,       \* secrets an application may have for its device id (it may be reinstalled)
  Transactions,  \* transactions under way at once
  MaxDevices,    \* maxDevicesPerUser
  MaxRequests    \* bound: requests and connections

None == "none"

ASSUME AccountsAssumption ==
  /\ MaxDevices \in Nat /\ MaxRequests \in Nat /\ IsFiniteSet(Devices)
  /\ None \notin Users \cup Secrets \cup Transactions

VARIABLES
  device,      \* devices: owner and secret
  pairing,     \* pairings, at most one of a device: code and secret
  txn,         \* the transactions
  rowDevice,   \* who has locked the row, or the key, of a device
  rowPairing,  \* who has locked the row, or the key, of a device's pairing
  connected,   \* agents.get(deviceId): the secret it has shown
  checked,     \* a connection that verifyDevice has found, before its upgrade
  closing,     \* the handler of a revocation, between the DELETE and the close
  legacy,      \* the devices of the JSON store
  migrated,    \* migrations: json-v1
  requests,    \* bound: requests so far, which number the codes
  \* history
  entered,     \* the device is in the store by a claim, or a migration, that came after its last revocation
  overtaken,   \* revocations that met a connection being verified
  crowded,     \* two claims of one user were under way at once
  crossed      \* a pairing was created while a claim of its device was under way

accountVars == <<device, pairing, txn, rowDevice, rowPairing, connected, checked, closing, legacy, migrated, requests,
                 entered, overtaken, crowded, crossed>>

NoDevice == [owner |-> None, secret |-> None]
NoPairing == [code |-> 0, secret |-> None]
NoTxn == [kind |-> None, step |-> "begin", d |-> None, u |-> None, secret |-> None, code |-> 0]

AccountsTypeOK ==
  /\ {device, legacy} \subseteq [Devices -> [owner : Users \cup {None}, secret : Secrets \cup {None}]]
  /\ pairing \in [Devices -> [code : 0..MaxRequests, secret : Secrets \cup {None}]]
  /\ txn \in [Transactions -> [kind : {None, "create", "claim"}, d : Devices \cup {None}, u : Users \cup {None},
                step : {"begin", "replace", "device", "count", "insert", "commit"},
                secret : Secrets \cup {None}, code : 0..MaxRequests]]
  /\ rowDevice \in [Devices -> Transactions \cup {None}] /\ rowPairing \in [Devices -> Transactions \cup {None}]
  /\ connected \in [Devices -> Secrets \cup {None}] /\ checked \in [Devices -> Secrets \cup {None}]
  /\ closing \subseteq Devices /\ entered \subseteq Devices /\ overtaken \subseteq Devices
  /\ crossed \subseteq Devices /\ crowded \subseteq Users
  /\ migrated \in BOOLEAN /\ requests \in 0..MaxRequests

Paired(d) == pairing[d] # NoPairing
Known(d) == device[d] # NoDevice
Owned(u) == {d \in Devices : device[d].owner = u}
Requested == requests < MaxRequests /\ requests' = requests + 1

Goes(t, step) == txn' = [txn EXCEPT ![t].step = step]
Release(t) == /\ txn' = [txn EXCEPT ![t] = NoTxn]
              /\ rowDevice' = [d \in Devices |-> IF rowDevice[d] = t THEN None ELSE rowDevice[d]]
              /\ rowPairing' = [d \in Devices |-> IF rowPairing[d] = t THEN None ELSE rowPairing[d]]
hubSide == <<connected, checked, closing, legacy, migrated, requests, overtaken, crowded, crossed>>

----------------------------------------------------------------------------
(* createPairing, called by POST /api/pair/start *)

CreatePairing(t, d, s) ==
  /\ migrated /\ txn[t] = NoTxn /\ Requested
  /\ txn' = [txn EXCEPT ![t] = [NoTxn EXCEPT !.kind = "create", !.d = d, !.secret = s, !.code = requests + 1]]
  /\ crossed' = crossed \cup {e \in {d} : \E x \in Transactions : txn[x].kind = "claim" /\ txn[x].d = d}
  /\ UNCHANGED <<device, pairing, rowDevice, rowPairing, connected, checked, closing, legacy, migrated, entered,
                 overtaken, crowded>>

\* SELECT ... FROM devices FOR UPDATE: a row that is there is waited for and
\* locked, a row that is not there cannot be.
CreateDevice(t) ==
  LET d == txn[t].d
  IN  /\ txn[t].kind = "create" /\ txn[t].step = "begin"
      /\ \/ ~Known(d) /\ Goes(t, "replace") /\ UNCHANGED <<rowDevice, rowPairing>>
         \/ /\ Known(d) /\ rowDevice[d] = None
            /\ IF device[d].secret # txn[t].secret THEN Release(t)
               ELSE rowDevice' = [rowDevice EXCEPT ![d] = t] /\ Goes(t, "replace") /\ UNCHANGED rowPairing
      /\ UNCHANGED <<device, pairing, entered, hubSide>>

\* DELETE FROM pairings
CreateReplaces(t) ==
  LET d == txn[t].d
  IN  /\ txn[t].step = "replace"
      /\ \/ ~Paired(d) /\ UNCHANGED rowPairing
         \/ Paired(d) /\ rowPairing[d] = None /\ rowPairing' = [rowPairing EXCEPT ![d] = t]
      /\ Goes(t, "insert")
      /\ UNCHANGED <<device, pairing, rowDevice, entered, hubSide>>

\* INSERT INTO pairings: the device id is unique among them.
CreateInserts(t) ==
  LET d == txn[t].d
  IN  /\ txn[t].kind = "create" /\ txn[t].step = "insert" /\ rowPairing[d] \in {None, t}
      /\ IF Paired(d) /\ rowPairing[d] # t
         THEN Release(t)
         ELSE rowPairing' = [rowPairing EXCEPT ![d] = t] /\ Goes(t, "commit") /\ UNCHANGED rowDevice
      /\ UNCHANGED <<device, pairing, entered, hubSide>>

CreateCommits(t) ==
  /\ txn[t].kind = "create" /\ txn[t].step = "commit"
  /\ pairing' = [pairing EXCEPT ![txn[t].d] = [code |-> txn[t].code, secret |-> txn[t].secret]]
  /\ Release(t)
  /\ UNCHANGED <<device, entered, hubSide>>

----------------------------------------------------------------------------
(* claimPairing, called by POST /api/pair/claim *)

ClaimPairing(t, u, d) ==
  /\ txn[t] = NoTxn /\ Paired(d) /\ Requested
  /\ txn' = [txn EXCEPT ![t] = [NoTxn EXCEPT !.kind = "claim", !.d = d, !.u = u, !.code = pairing[d].code]]
  /\ crowded' = crowded \cup {v \in {u} : \E x \in Transactions : txn[x].kind = "claim" /\ txn[x].u = u}
  /\ crossed' = crossed \cup {e \in {d} : \E x \in Transactions : txn[x].kind = "create" /\ txn[x].d = d}
  /\ UNCHANGED <<device, pairing, rowDevice, rowPairing, connected, checked, closing, legacy, migrated, entered, overtaken>>

\* SELECT ... FROM pairings FOR UPDATE
ClaimPairingRow(t) ==
  LET d == txn[t].d
  IN  /\ txn[t].kind = "claim" /\ txn[t].step = "begin"
      /\ \/ pairing[d].code # txn[t].code /\ Release(t)
         \/ /\ pairing[d].code = txn[t].code /\ rowPairing[d] = None
            /\ rowPairing' = [rowPairing EXCEPT ![d] = t]
            /\ txn' = [txn EXCEPT ![t].step = "device", ![t].secret = pairing[d].secret]
            /\ UNCHANGED rowDevice
      /\ UNCHANGED <<device, pairing, entered, hubSide>>

\* SELECT ... FROM devices FOR UPDATE: a known device is only renamed, by its
\* owner; a new one is counted.
ClaimDevice(t) ==
  LET d == txn[t].d
  IN  /\ txn[t].step = "device"
      /\ \/ ~Known(d) /\ Goes(t, "count") /\ UNCHANGED <<rowDevice, rowPairing>>
         \/ /\ Known(d) /\ rowDevice[d] = None
            /\ IF device[d] # [owner |-> txn[t].u, secret |-> txn[t].secret] THEN Release(t)
               ELSE rowDevice' = [rowDevice EXCEPT ![d] = t] /\ Goes(t, "commit") /\ UNCHANGED rowPairing
      /\ UNCHANGED <<device, pairing, entered, hubSide>>

\* The count sees the devices that are committed.
ClaimCounts(t) ==
  /\ txn[t].step = "count"
  /\ IF Cardinality(Owned(txn[t].u)) >= MaxDevices THEN Release(t) ELSE Goes(t, "insert") /\ UNCHANGED <<rowDevice, rowPairing>>
  /\ UNCHANGED <<device, pairing, entered, hubSide>>

\* INSERT INTO devices
ClaimInserts(t) ==
  LET d == txn[t].d
  IN  /\ txn[t].kind = "claim" /\ txn[t].step = "insert" /\ rowDevice[d] = None
      /\ IF Known(d) THEN Release(t)
         ELSE rowDevice' = [rowDevice EXCEPT ![d] = t] /\ Goes(t, "commit") /\ UNCHANGED rowPairing
      /\ UNCHANGED <<device, pairing, entered, hubSide>>

ClaimCommits(t) ==
  LET d == txn[t].d
  IN  /\ txn[t].kind = "claim" /\ txn[t].step = "commit"
      /\ device' = [device EXCEPT ![d] = [owner |-> txn[t].u, secret |-> txn[t].secret]]
      /\ pairing' = [pairing EXCEPT ![d] = NoPairing]
      /\ entered' = entered \cup {d}
      /\ Release(t)
      /\ UNCHANGED hubSide

----------------------------------------------------------------------------
(* The database *)

NeedsDevice(t) ==
  \/ Known(txn[t].d) /\ (txn[t].step = "device" \/ (txn[t].kind = "create" /\ txn[t].step = "begin"))
  \/ txn[t].kind = "claim" /\ txn[t].step = "insert"
NeedsPairing(t) ==
  \/ Paired(txn[t].d) /\ txn[t].step = "replace"
  \/ [kind |-> txn[t].kind, step |-> txn[t].step] \in {[kind |-> "claim", step |-> "begin"], [kind |-> "create", step |-> "insert"]}
WaitsFor(t) ==
  {x \in Transactions \ {t} : /\ txn[t] # NoTxn
                             /\ \/ NeedsDevice(t) /\ rowDevice[txn[t].d] = x
                                \/ NeedsPairing(t) /\ rowPairing[txn[t].d] = x}

DeadlockAborts(t) ==
  /\ \E x \in WaitsFor(t) : t \in WaitsFor(x)
  /\ Release(t)
  /\ UNCHANGED <<device, pairing, entered, hubSide>>

\* An expired pairing, deleted before the next query looks for one.
Expire(d) ==
  /\ Paired(d) /\ rowPairing[d] = None
  /\ pairing' = [pairing EXCEPT ![d] = NoPairing]
  /\ UNCHANGED <<device, txn, rowDevice, rowPairing, entered, hubSide>>

----------------------------------------------------------------------------
(* Connections, revocation, restart *)

\* verifyDevice, then the upgrade and the connection handler.
CheckDevice(d, s) ==
  /\ checked[d] = None /\ Known(d) /\ device[d].secret = s /\ connected[d] = None /\ Requested
  /\ checked' = [checked EXCEPT ![d] = s]
  /\ UNCHANGED <<device, pairing, txn, rowDevice, rowPairing, connected, closing, legacy, migrated, entered,
                 overtaken, crowded, crossed>>

Connected(d) ==
  /\ checked[d] # None
  /\ connected' = [connected EXCEPT ![d] = checked[d]] /\ checked' = [checked EXCEPT ![d] = None]
  /\ UNCHANGED <<device, pairing, txn, rowDevice, rowPairing, closing, legacy, migrated, requests, entered, overtaken,
                 crowded, crossed>>

\* DELETE /api/devices/<id>: revokeDevice is a query of its own, then the agent,
\* if there is one by then, is closed.
Revoke(u, d) ==
  /\ device[d].owner = u /\ rowDevice[d] = None /\ Requested
  /\ device' = [device EXCEPT ![d] = NoDevice]
  /\ entered' = entered \ {d}
  /\ closing' = closing \cup {d}
  /\ overtaken' = overtaken \cup {e \in {d} : checked[d] # None}
  /\ UNCHANGED <<pairing, txn, rowDevice, rowPairing, connected, checked, legacy, migrated, crowded, crossed>>

LeftConnected(d) == UNCHANGED connected
CloseAgent(d) == connected' = [connected EXCEPT ![d] = None]
RevokeEnds(d) ==
  /\ d \in closing /\ closing' = closing \ {d}
  /\ CloseAgent(d)
  /\ UNCHANGED <<device, pairing, txn, rowDevice, rowPairing, checked, legacy, migrated, requests, entered, overtaken,
                 crowded, crossed>>

Disconnect(d) ==
  /\ connected[d] # None
  /\ connected' = [connected EXCEPT ![d] = None]
  /\ UNCHANGED <<device, pairing, txn, rowDevice, rowPairing, checked, closing, legacy, migrated, requests, entered,
                 overtaken, crowded, crossed>>

\* createPostgresStorage: what the JSON store held, unless it was taken over
\* before, in one transaction with the mark that it was; a file that cannot be
\* read counts as empty.
ImportsAgain == TRUE
Imports == ~migrated

HubStarts ==
  /\ Requested
  /\ migrated' = TRUE
  /\ \/ UNCHANGED <<device, entered>>
     \/ /\ Imports
        /\ device' = [d \in Devices |-> IF Known(d) THEN device[d] ELSE legacy[d]]
        /\ entered' = IF migrated THEN entered ELSE {d \in Devices : legacy[d] # NoDevice}
  /\ txn' = [t \in Transactions |-> NoTxn]
  /\ rowDevice' = [d \in Devices |-> None] /\ rowPairing' = [d \in Devices |-> None]
  /\ connected' = [d \in Devices |-> None] /\ checked' = [d \in Devices |-> None] /\ closing' = {}
  /\ UNCHANGED <<pairing, legacy, overtaken, crowded, crossed>>

----------------------------------------------------------------------------

AccountsInit ==
  /\ \E old \in SUBSET Devices, u \in Users, s \in Secrets :
       /\ Cardinality(old) <= MaxDevices
       /\ legacy = [d \in Devices |-> IF d \in old THEN [owner |-> u, secret |-> s] ELSE NoDevice]
  /\ device = [d \in Devices |-> NoDevice] /\ pairing = [d \in Devices |-> NoPairing]
  /\ txn = [t \in Transactions |-> NoTxn]
  /\ rowDevice = [d \in Devices |-> None] /\ rowPairing = [d \in Devices |-> None]
  /\ connected = [d \in Devices |-> None] /\ checked = [d \in Devices |-> None]
  /\ closing = {} /\ migrated = FALSE /\ requests = 0
  /\ entered = {} /\ overtaken = {} /\ crowded = {} /\ crossed = {}

TransactionStep(t) ==
  \/ CreateDevice(t) \/ CreateReplaces(t) \/ CreateInserts(t) \/ CreateCommits(t)
  \/ ClaimPairingRow(t) \/ ClaimDevice(t) \/ ClaimCounts(t) \/ ClaimInserts(t) \/ ClaimCommits(t)
  \/ DeadlockAborts(t)

AccountsNext ==
  \/ \E t \in Transactions : \/ TransactionStep(t)
                             \/ \E d \in Devices, s \in Secrets : CreatePairing(t, d, s)
                             \/ \E d \in Devices, u \in Users : ClaimPairing(t, u, d)
  \/ \E d \in Devices : \/ Expire(d) \/ Connected(d) \/ RevokeEnds(d) \/ Disconnect(d)
                        \/ \E s \in Secrets : CheckDevice(d, s)
                        \/ \E u \in Users : Revoke(u, d)
  \/ HubStarts


----------------------------------------------------------------------------
(* Properties *)

\* A device that was revoked is disconnected once the request has ended, unless
\* it was being verified when its row was deleted.
RevokedIsCutOff ==
  \A d \in Devices : connected[d] # None => Known(d) \/ d \in closing \cup overtaken

\* Whatever transactions overlap: nobody has more devices than allowed, unless
\* claims of one user have overlapped (the count locks nothing); a pairing of a
\* known device was made with the secret of that device, unless it was made
\* while the device was being claimed; and a revoked device comes back by a new
\* claim only, not by a restart that migrates again.
StoreKeepsItsRules ==
  /\ \A u \in Users : u \in crowded \/ Cardinality(Owned(u)) <= MaxDevices
  /\ \A d \in Devices : Paired(d) /\ Known(d) /\ d \notin crossed => pairing[d].secret = device[d].secret
  /\ \A d \in Devices : Known(d) => d \in entered
=============================================================================
