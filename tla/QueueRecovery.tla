---------------------------- MODULE QueueRecovery ----------------------------
(***************************************************************************)
(* What happens to the queue of a thread when the service stops, starts    *)
(* again, crashes, or loses its connection to the relay hub.               *)
(*                                                                         *)
(* The queue lives in four places: in the RemoteCodexServer object         *)
(* (#turnQueues), in remote-turn-queues.json, which a chain of snapshot    *)
(* writes keeps up to date, in the hub's table device_records, which the   *)
(* relay client feeds, and in the variable relaySnapshot of                *)
(* src/desktop/main.ts, the last answer of the hub.  Sending a message is  *)
(* reduced here to "asked" and "ran"; TurnQueue has the details.           *)
(*                                                                         *)
(* One thread: the file, the hub and the snapshot treat threads alike.     *)
(***************************************************************************)
EXTENDS Naturals, FiniteSets, Sequences, SequencesExt

CONSTANTS
  Msgs,        \* queued messages
  MaxServers,  \* bound: RemoteCodexServer objects created
  MaxLinks,    \* bound: connections to the hub
  MaxBacklog,  \* bound: snapshots waiting to be written, and puts under way
  Faults,      \* what the environment may do, a subset of AllFaults
  NoMsg

\* startError: turn/start is refused; crash: the process dies; overlap: clients
\* and drains go on while the service stops; snapshots: the hub's store keeps
\* device records (PostgreSQL); early, live: their snapshot may come while a server
\* starts, while one runs; linkLoss: what was sent last on a broken connection
\* is lost; reordered: the hub's database runs two puts in the other order.
AllFaults == {"startError", "crash", "overlap", "snapshots", "early", "live",
              "linkLoss", "reordered"}

ASSUME ConstantsAssumption ==
  /\ MaxServers \in Nat \ {0} /\ MaxLinks \in Nat /\ MaxBacklog \in Nat \ {0}
  /\ Faults \subseteq AllFaults /\ NoMsg \notin Msgs

VARIABLES
  srv,       \* the server objects, in the order of their creation
  now,       \* the latest of them
  disk,      \* remote-turn-queues.json
  link,      \* the relay client's WebSocket is open
  pending,   \* RemoteRelayClient.#pendingState: at most one snapshot of the queue
  wire,      \* puts on their way into the hub's database
  record,    \* device_records
  listing,   \* the hub's listDeviceRecords of this connection has not run
  answer,    \* device.state.snapshot on its way to the desktop
  snapshot,  \* relaySnapshot
  stage,     \* what became of each message
  ran,       \* turns the official client ran for each message
  links,     \* connections so far
  excused,   \* messages a crash, an overlap or an old snapshot brought back
  mishaps    \* which of "crash", "overlap", "early", "lost" and "swapped" have
             \* happened so far

hubVars == <<link, pending, wire, record, listing, answer, links>>
historyVars == <<stage, ran, excused, mishaps>>
vars == <<srv, now, disk, hubVars, snapshot, historyVars>>

-----------------------------------------------------------------------------
(* Data                                                                    *)

Servers == 1..MaxServers
Snapshots == Seq(Msgs)
Modes == {"none", "loading", "running", "stopping", "gone"}

\* writes is #queuePersistChain; stop waits for the first "awaited" of them.
Server == [mode: Modes, items: Seq(Msgs), sending: Msgs \cup {NoMsg},
           phase: {"idle", "asked", "ran"}, blocked: BOOLEAN,
           writes: Seq(Snapshots), awaited: Nat]
NoServer == [mode |-> "none", items |-> <<>>, sending |-> NoMsg, phase |-> "idle",
             blocked |-> FALSE, writes |-> <<>>, awaited |-> 0]

Stages == {"new", "queued", "ran", "removed"}
Mishaps == {"crash", "overlap", "early", "lost", "swapped"}

TypeOK ==
  /\ srv \in [Servers -> Server]
  /\ now \in 0..MaxServers
  /\ disk \in Snapshots
  /\ link \in BOOLEAN
  /\ pending \in Seq(Snapshots) /\ Len(pending) <= 1
  /\ wire \in Seq(Snapshots)
  /\ record \in Snapshots
  /\ listing \in BOOLEAN
  /\ answer \in Seq(Snapshots) /\ Len(answer) <= 1
  /\ snapshot \in Snapshots
  /\ stage \in [Msgs -> Stages]
  /\ ran \in [Msgs -> Nat]
  /\ links \in 0..MaxLinks
  /\ excused \subseteq Msgs
  /\ mishaps \subseteq Mishaps

Init ==
  /\ srv = [s \in Servers |-> NoServer]
  /\ now = 0
  /\ disk = <<>>
  /\ link = FALSE /\ pending = <<>> /\ wire = <<>> /\ record = <<>>
  /\ listing = FALSE /\ answer = <<>> /\ links = 0
  /\ snapshot = <<>>
  /\ stage = [m \in Msgs |-> "new"]
  /\ ran = [m \in Msgs |-> 0]
  /\ excused = {} /\ mishaps = {}

Has(s, m) == \E i \in DOMAIN s : s[i] = m
\* The elements of s that are in S, in their order.
Kept(s, S) ==
  LET places == {i \in DOMAIN s : s[i] \in S}
      rank(i) == Cardinality({j \in places : j <= i})
  IN [n \in 1..Cardinality(places) |-> s[CHOOSE i \in places : rank(i) = n]]
Without(s, m) == Kept(s, Msgs \ {m})
\* Writing, or putting, the same snapshot twice in a row changes nothing.
AppendNew(s, x) == IF s # <<>> /\ Last(s) = x THEN s ELSE Append(s, x)

Exists == now > 0 /\ srv[now].mode \in {"loading", "running", "stopping"}
Serves(s) == srv[s].mode = "running" \/ (srv[s].mode = "stopping" /\ "overlap" \in Faults)

-----------------------------------------------------------------------------
(* Publishing a queue                                                      *)

\* Mutant: a message that is being sent is left out of the file.
PersistedWaiting(st) == [st EXCEPT !.writes = AppendNew(@, Without(st.items, st.sending))]

\* scheduleQueuePersistence: the snapshot is taken now and written later.
Persisted(st) == [st EXCEPT !.writes = AppendNew(@, st.items)]

\* Mutant: the first snapshot kept while the connection is down is the one sent.
TellKeepsFirst(snap) ==
  IF link THEN wire' = AppendNew(wire, snap) /\ UNCHANGED pending
  ELSE pending' = (IF pending = <<>> THEN <<snap>> ELSE pending) /\ UNCHANGED wire

\* Mutant: every snapshot is kept while the connection is down.
TellKeepsAll(snap) ==
  IF link THEN wire' = AppendNew(wire, snap) /\ UNCHANGED pending
  ELSE pending' = AppendNew(pending, snap) /\ UNCHANGED wire

\* RemoteRelayClient.persistState.
Tell(snap) ==
  IF link THEN wire' = AppendNew(wire, snap) /\ UNCHANGED pending
  ELSE pending' = <<snap>> /\ UNCHANGED wire

\* The queue of a server nobody refers to any more is garbage.
Swept(st) == IF st.mode = "gone" /\ st.sending = NoMsg
             THEN [st EXCEPT !.items = <<>>, !.blocked = FALSE] ELSE st

Room(s) == Len(srv[s].writes) < MaxBacklog /\ Len(wire) < MaxBacklog

\* Server s takes the state st and ends its handler with broadcastQueue.
Broadcast(s, st) ==
  Room(s) /\ srv' = [srv EXCEPT ![s] = Swept(Persisted(st))] /\ Tell(st.items)

-----------------------------------------------------------------------------
(* Clients and the drain                                                   *)

QueueTurn(s, m) ==
  /\ Serves(s) /\ stage[m] = "new"
  /\ Broadcast(s, [srv[s] EXCEPT !.items = Append(@, m)])
  /\ stage' = [stage EXCEPT ![m] = "queued"]
  /\ UNCHANGED <<now, disk, link, record, listing, answer, links, snapshot, ran, excused, mishaps>>

RemoveQueuedTurn(s, m) ==
  /\ Serves(s) /\ Has(srv[s].items, m) /\ srv[s].sending # m
  /\ Broadcast(s, [srv[s] EXCEPT !.items = Without(@, m), !.blocked = FALSE])
  /\ stage' = [stage EXCEPT ![m] = IF @ = "queued" THEN "removed" ELSE @]
  /\ UNCHANGED <<now, disk, link, record, listing, answer, links, snapshot, ran, excused, mishaps>>

DrainStarts(s) ==
  /\ Serves(s) /\ ~srv[s].blocked /\ srv[s].sending = NoMsg /\ srv[s].items # <<>>
  /\ Broadcast(s, [srv[s] EXCEPT !.sending = Head(srv[s].items), !.phase = "asked"])
  /\ UNCHANGED <<now, disk, link, record, listing, answer, links, snapshot, historyVars>>

\* The official client runs the message.
Accept(s) ==
  LET m == srv[s].sending IN
  /\ srv[s].phase = "asked"
  /\ srv' = [srv EXCEPT ![s].phase = "ran"]
  /\ ran' = [ran EXCEPT ![m] = @ + 1]
  /\ stage' = [stage EXCEPT ![m] = "ran"]
  /\ UNCHANGED <<now, disk, hubVars, snapshot, excused, mishaps>>

Idle(st) == [st EXCEPT !.sending = NoMsg, !.phase = "idle"]

\* A drain ends on the server that began it, stopped or not.
DrainEnds(s) ==
  /\ srv[s].phase = "ran"
  /\ Broadcast(s, [Idle(srv[s]) EXCEPT !.items = Without(@, srv[s].sending)])
  /\ UNCHANGED <<now, disk, link, record, listing, answer, links, snapshot, historyVars>>

DrainFails(s) ==
  LET m == srv[s].sending IN
  /\ srv[s].phase = "asked" /\ "startError" \in Faults
  /\ Broadcast(s, [Idle(srv[s]) EXCEPT !.items = <<m>> \o Without(@, m), !.blocked = TRUE])
  /\ UNCHANGED <<now, disk, link, record, listing, answer, links, snapshot, historyVars>>

-----------------------------------------------------------------------------
(* Files, stops, starts and crashes                                        *)

\* writeFile of the temporary file and rename: the file changes at once.
WriteDone(s) ==
  /\ srv[s].writes # <<>>
  /\ disk' = Head(srv[s].writes)
  /\ srv' = [srv EXCEPT ![s].writes = Tail(@), ![s].awaited = IF @ > 0 THEN @ - 1 ELSE 0]
  /\ UNCHANGED <<now, hubVars, snapshot, historyVars>>

\* RemoteCodexServer.stop up to its await of the chain.
StopBegins ==
  /\ now > 0 /\ srv[now].mode = "running"
  /\ srv[now].sending = NoMsg \/ "overlap" \in Faults
  /\ LET st == Persisted(srv[now])
     IN srv' = [srv EXCEPT ![now] = [st EXCEPT !.mode = "stopping", !.awaited = Len(st.writes)]]
  /\ UNCHANGED <<now, disk, hubVars, snapshot, historyVars>>

\* Mutant: stop does not wait for the chain.
StopEndsAtOnce ==
  /\ now > 0 /\ srv[now].mode = "stopping"
  /\ srv' = [srv EXCEPT ![now] = Swept([@ EXCEPT !.mode = "gone"])]
  /\ UNCHANGED <<now, disk, hubVars, snapshot, historyVars>>

\* The server is dropped, whatever it is still sending or writing.
StopEnds ==
  /\ now > 0 /\ srv[now].mode = "stopping" /\ srv[now].awaited = 0
  /\ srv' = [srv EXCEPT ![now] = Swept([@ EXCEPT !.mode = "gone"])]
  /\ mishaps' = IF srv[now].sending # NoMsg \/ srv[now].writes # <<>>
                THEN mishaps \cup {"overlap"} ELSE mishaps
  /\ UNCHANGED <<now, disk, hubVars, snapshot, stage, ran, excused>>

\* startCodex creates a server and awaits its start.
StartBegins ==
  /\ ~Exists /\ now < MaxServers
  /\ now' = now + 1
  /\ srv' = [srv EXCEPT ![now'].mode = "loading"]
  /\ UNCHANGED <<disk, hubVars, snapshot, historyVars>>

\* The queue once the messages of snapshot snap that are not in it are added.
Joined(items, snap) == items \o Kept(snap, {m \in Msgs : ~Has(items, m)})
\* The messages of a queue that nobody waits for any more, or that a stopped
\* server is still sending.
Stale(snap) == {m \in Msgs : Has(snap, m) /\ (stage[m] # "queued"
                                           \/ \E s \in Servers : srv[s].sending = m)}

\* What restorePersistentState makes of the records snap.
Restored(st, snap) ==
  IF st.items = <<>> /\ snap # <<>> THEN [st EXCEPT !.items = snap, !.blocked = FALSE] ELSE st

\* loadQueuePersistence, the rest of start, and startCodex's restore of the
\* relay snapshot it has.
StartEnds ==
  /\ now > 0 /\ srv[now].mode = "loading"
  /\ LET loaded == [srv[now] EXCEPT !.mode = "running", !.items = Joined(@, disk)]
         st == Restored(loaded, snapshot)
     IN /\ IF st.items = <<>>
           THEN srv' = [srv EXCEPT ![now] = st] /\ UNCHANGED <<wire, pending>>
           ELSE Broadcast(now, st)
        /\ excused' = IF st # loaded \/ mishaps \cap {"crash", "overlap"} # {}
                      THEN excused \cup Stale(st.items) ELSE excused
  /\ UNCHANGED <<now, disk, link, record, listing, answer, links, snapshot, stage, ran, mishaps>>

\* The process dies, with every server object it has.
Crash ==
  /\ "crash" \in Faults /\ now > 0
  /\ srv' = [s \in Servers |-> IF s <= now THEN [NoServer EXCEPT !.mode = "gone"] ELSE NoServer]
  /\ link' = FALSE /\ pending' = <<>> /\ listing' = FALSE /\ answer' = <<>>
  /\ snapshot' = <<>>
  /\ mishaps' = mishaps \cup {"crash"}
  /\ UNCHANGED <<now, disk, wire, record, links, stage, ran, excused>>

-----------------------------------------------------------------------------
(* The relay hub                                                           *)

\* The hub lists the device's records as soon as the connection is there; the
\* client first sends what it kept while it had none.
Connect ==
  /\ ~link /\ links < MaxLinks
  /\ link' = TRUE /\ links' = links + 1
  /\ listing' = TRUE
  /\ Len(wire) < MaxBacklog
  /\ wire' = IF pending = <<>> THEN wire ELSE AppendNew(wire, Head(pending))
  /\ pending' = <<>>
  /\ UNCHANGED <<srv, now, disk, record, answer, snapshot, historyVars>>

\* What a broken connection leaves of what was sent.
Arrived(w) == IF "linkLoss" \in Faults THEN {SubSeq(w, 1, n) : n \in 0..Len(w)} ELSE {w}

LinkDrops ==
  /\ link /\ link' = FALSE
  /\ wire' \in Arrived(wire)
  /\ listing' = FALSE /\ answer' = <<>>
  /\ mishaps' = IF wire' = wire THEN mishaps ELSE mishaps \cup {"lost"}
  /\ UNCHANGED <<srv, now, disk, pending, record, links, snapshot, stage, ran, excused>>

\* putDeviceRecord overwrites the record whatever its updatedAt; the handlers
\* of two puts run concurrently.
PutApplied ==
  \E i \in DOMAIN wire :
    /\ i = 1 \/ "reordered" \in Faults
    /\ record' = wire[i]
    /\ wire' = RemoveAt(wire, i)
    /\ mishaps' = IF i = 1 THEN mishaps ELSE mishaps \cup {"swapped"}
    /\ UNCHANGED <<srv, now, disk, link, pending, listing, answer, links, snapshot,
                   stage, ran, excused>>

HubLists ==
  /\ listing /\ listing' = FALSE
  /\ answer' = IF "snapshots" \in Faults THEN <<record>> ELSE <<>>
  /\ UNCHANGED <<srv, now, disk, link, pending, wire, record, links, snapshot, historyVars>>

\* onPersistentState: keep the records and offer them to the server there is.
SnapshotArrives ==
  /\ answer # <<>>
  /\ (Exists => IF srv[now].mode = "loading" THEN "early" \in Faults ELSE "live" \in Faults)
  /\ answer' = <<>>
  /\ snapshot' = Head(answer)
  /\ IF Exists /\ Restored(srv[now], Head(answer)) # srv[now]
     THEN LET st == Restored(srv[now], Head(answer))
          IN /\ Broadcast(now, st)
             /\ excused' = excused \cup Stale(st.items)
             /\ mishaps' = IF st.mode = "loading" THEN mishaps \cup {"early"} ELSE mishaps
     ELSE UNCHANGED <<srv, wire, pending, excused, mishaps>>
  /\ UNCHANGED <<now, disk, link, record, listing, links, stage, ran>>

-----------------------------------------------------------------------------

Next ==
  \/ \E s \in Servers :
       \/ \E m \in Msgs : QueueTurn(s, m) \/ RemoveQueuedTurn(s, m)
       \/ DrainStarts(s) \/ Accept(s) \/ DrainEnds(s) \/ DrainFails(s)
       \/ WriteDone(s)
  \/ StopBegins \/ StopEnds \/ StartBegins \/ StartEnds \/ Crash
  \/ Connect \/ LinkDrops \/ PutApplied \/ HubLists \/ SnapshotArrives

Spec == Init /\ [][Next]_vars

-----------------------------------------------------------------------------
(* Properties                                                              *)

\* A queued message is executed once at most, restarts of the service and
\* broken connections included.
ExecutedOnce == \A m \in Msgs : ran[m] <= 1

\* A message that has run or was removed runs (again) only after a crash, a stop
\* in the middle of work or a snapshot of the hub brought it back: never through
\* the file of an orderly stop, nor because a failed start puts it back.
OnlyMishapsRepeat ==
  [][\A m \in Msgs : ran'[m] > ran[m] => stage[m] = "queued" \/ m \in excused]_vars

\* A message that waits is kept through any orderly stop and start, whatever
\* snapshots the hub sends meanwhile: it is in the server's queue, or in the
\* file the next server reads.
WaitingIsKept ==
  mishaps \cap {"crash", "overlap", "early"} = {} =>
    \A m \in Msgs : stage[m] = "queued" =>
      \/ Exists /\ Has(srv[now].items, m)
      \/ (~Exists \/ srv[now].mode = "loading") /\ Has(disk, m)

\* Once a waiting message is in the file, no write takes it out, a crash and
\* the load after it included, unless servers overlap or an early snapshot is
\* written before the file is read.
DurableStays ==
  [][mishaps' \cap {"overlap", "early"} = {} =>
       \A m \in Msgs : Has(disk, m) /\ stage[m] = "queued" => Has(disk', m)]_vars

\* Once what was sent has arrived, the hub's record is the queue of the running
\* server: the change kept during a broken connection is the latest one, and
\* what an orderly restart reads back is what the hub has.
HubKnowsTheQueue ==
  mishaps = {} /\ link /\ wire = <<>> /\ now > 0 /\ srv[now].mode = "running"
    => record = srv[now].items

=============================================================================
