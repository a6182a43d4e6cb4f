------------------------------ MODULE TurnQueue ------------------------------
(***************************************************************************)
(* The per-thread turn queue of RemoteCodexServer                          *)
(* (src/remote/remote-codex-server.ts): direct starts, queued messages,    *)
(* the drain that sends them one at a time, steering, the turn             *)
(* notifications and the poll that tell the server whether a thread is     *)
(* idle, and the attachment files the messages own.                        *)
(*                                                                         *)
(* The server is a single-threaded event loop, so one action is the code   *)
(* that runs between two awaits.  Everything on the far side of an await   *)
(* (CodexService and the official client behind it) is the environment:    *)
(* the actions of the section "The official client".                       *)
(*                                                                         *)
(* A message stands for a turn request with its text and attachments; it   *)
(* is sent by at most one client operation, as its id is random.           *)
(* "starting", the status of a queue item, is the field sending of its     *)
(* queue: at most one item has it.  A thread with no entry in #turnQueues  *)
(* behaves as one whose entry is empty, so every thread has a queue state. *)
(***************************************************************************)
EXTENDS Naturals, Sequences, SequencesExt

CONSTANTS
  Threads,    \* thread ids, those not created yet included
  Listed,     \* the threads the official client holds at the start
  Drafts,     \* ids thread/start can hand out before the thread exists
  Msgs,       \* turn requests
  WithFiles,  \* the requests that carry attachments
  MaxQueued,  \* MAX_QUEUED_TURNS_PER_THREAD
  MaxTurn,    \* bound: turns the official client runs
  MaxEdits,   \* bound: remove, update and reorder operations
  MaxAsks,    \* bound: thread.open and turn.steer operations
  Faults,     \* what the environment may do wrong, a subset of AllFaults
  NoThread, NoMsg

\* staleAnswer: a status answer describes the moment the question was asked;
\* ackLoss: turn/start reports an error for a turn that did start; noteLoss: a
\* turn notification is never emitted; steerError: turn/steer fails;
\* quota: the usage check refuses; startError: turn/start or thread/resume is
\* refused; official: the desktop user starts turns; expiry: uploads get older
\* than half an hour; remove: a client removes an upload it has already used;
\* earlyId: a client names a new thread before turn/start has answered.
AllFaults == {"staleAnswer", "ackLoss", "noteLoss", "steerError", "quota",
              "startError", "official", "expiry", "remove", "earlyId"}

ASSUME ConstantsAssumption ==
  /\ Listed \subseteq Threads /\ Drafts \subseteq Threads
  /\ Listed \cap Drafts = {}
  /\ WithFiles \subseteq Msgs
  /\ MaxQueued \in Nat \ {0} /\ MaxTurn \in Nat /\ MaxEdits \in Nat /\ MaxAsks \in Nat
  /\ Faults \subseteq AllFaults
  /\ NoThread \notin Threads /\ NoMsg \notin Msgs

VARIABLES
  q,          \* ThreadQueueState objects
  slot,       \* #turnQueues: the object a thread id maps to
  call,       \* the #startTurn in flight for each message
  poll,       \* the #pollQueue in flight on each object (its polling flag)
  read,       \* the thread/read in flight for each thread
  steer,      \* the turn/steer in flight
  loaded,     \* #loadedThreadIds
  files,      \* #uploads: messages whose attachments are ready on disk
  turnFiles,  \* #activeTurnAttachments
  run,        \* official client: the latest turn of each thread
  notes,      \* turn notifications not delivered yet
  drafts,     \* CodexService.#pendingThreads
  known,      \* thread ids a client can name
  turns,      \* turns started so far
  stage,      \* what became of each message
  sent,       \* turn/start requests issued for each message
  accepted,   \* turns the official client ran for each message
  edits,      \* remove, update and reorder operations so far
  asks        \* thread.open and turn.steer operations so far

serverVars == <<q, slot, call, poll, read, steer, loaded, files, turnFiles>>
codexVars == <<run, notes, drafts, known, turns>>
historyVars == <<stage, sent, accepted, edits, asks>>
vars == <<serverVars, codexVars, historyVars>>

-----------------------------------------------------------------------------
(* Data                                                                    *)

NoTurn == 0
Turns == 1..MaxTurn
Run == [turn: 0..MaxTurn, active: {FALSE}] \cup [turn: Turns, active: {TRUE}]
Asleep == [turn |-> NoTurn, active |-> FALSE]
Note == [kind: {"started", "completed"}, turn: Turns]

\* gen 1 is the state #queueState creates for a draft id whose own state
\* #migrateThreadState has moved to the canonical thread.
Objs == [thread: Threads, gen: {0, 1}]
NoObj == [thread |-> NoThread, gen |-> 0]

QueueState == [activeTurn: 0..MaxTurn, items: Seq(Msgs), sending: Msgs \cup {NoMsg},
               starting: BOOLEAN, draining: BOOLEAN, blocked: BOOLEAN,
               watcher: Threads \cup {NoThread}]
EmptyQueue == [activeTurn |-> NoTurn, items |-> <<>>, sending |-> NoMsg,
               starting |-> FALSE, draining |-> FALSE, blocked |-> FALSE,
               watcher |-> NoThread]

NoCall == [pc |-> "idle", thread |-> NoThread, obj |-> NoObj, drain |-> FALSE,
           turn |-> NoTurn, canon |-> NoThread]
Calls == [pc: {"usage", "resume", "sent", "accepted"}, thread: Threads, obj: Objs,
          drain: BOOLEAN, turn: 0..MaxTurn, canon: Threads]
CallState == {NoCall} \cup Calls

NoPoll == [pc |-> "idle", thread |-> NoThread, msg |-> NoMsg, seen |-> Asleep]
PollState == {NoPoll}
  \cup [pc: {"list", "status"}, thread: Threads, msg: {NoMsg}, seen: Run]
  \cup [pc: {"drain"}, thread: Threads, msg: Msgs, seen: {Asleep}]

ReadState == [asked: BOOLEAN, seen: Run]
NoRead == [asked |-> FALSE, seen |-> Asleep]

NoSteer == [asked |-> FALSE, thread |-> NoThread, obj |-> NoObj, previous |-> NoTurn]
SteerState == {NoSteer} \cup
  [asked: {TRUE}, thread: Threads, obj: Objs, previous: 0..MaxTurn]

Stages == {"new", "direct", "queued", "sent", "removed", "refused"}

TypeOK ==
  /\ q \in [Objs -> QueueState]
  /\ slot \in [Threads -> Objs]
  /\ call \in [Msgs -> CallState]
  /\ poll \in [Objs -> PollState]
  /\ read \in [Threads -> ReadState]
  /\ steer \in SteerState
  /\ loaded \subseteq Threads
  /\ files \subseteq WithFiles
  /\ turnFiles \in [Threads -> SUBSET WithFiles]
  /\ run \in [Threads -> Run]
  /\ notes \in [Threads -> Seq(Note)]
  /\ drafts \subseteq Drafts
  /\ known \subseteq Threads
  /\ turns \in 0..MaxTurn
  /\ stage \in [Msgs -> Stages]
  /\ sent \in [Msgs -> Nat]
  /\ accepted \in [Msgs -> Nat]
  /\ edits \in 0..MaxEdits
  /\ asks \in 0..MaxAsks

Init ==
  /\ q = [o \in Objs |-> EmptyQueue]
  /\ slot = [t \in Threads |-> [thread |-> t, gen |-> 0]]
  /\ call = [m \in Msgs |-> NoCall]
  /\ poll = [o \in Objs |-> NoPoll]
  /\ read = [t \in Threads |-> NoRead]
  /\ steer = NoSteer
  /\ loaded = {}
  /\ files = WithFiles
  /\ turnFiles = [t \in Threads |-> {}]
  /\ run = [t \in Threads |-> Asleep]
  /\ notes = [t \in Threads |-> <<>>]
  /\ drafts = {}
  /\ known = Listed
  /\ turns = 0
  /\ stage = [m \in Msgs |-> "new"]
  /\ sent = [m \in Msgs |-> 0]
  /\ accepted = [m \in Msgs |-> 0]
  /\ edits = 0
  /\ asks = 0

-----------------------------------------------------------------------------
(* One queue                                                               *)

Has(s, m) == \E i \in DOMAIN s : s[i] = m
IndexOf(s, m) == CHOOSE i \in DOMAIN s : s[i] = m
\* splice(findIndex(m), 1), when there is such an index.
Without(s, m) == IF Has(s, m) THEN RemoveAt(s, IndexOf(s, m)) ELSE s

Live(s) == s.items # <<>> \/ s.activeTurn # NoTurn

\* Mutant: the interval stops with the last queued item, an active turn or not.
WatchedWithItems(s, t) ==
  [s EXCEPT !.watcher = IF s.items = <<>> THEN NoThread
                        ELSE IF s.watcher = NoThread THEN t ELSE s.watcher]

\* broadcastQueue's refreshQueueWatcher: the interval keeps the thread id it
\* was created with.
Watched(s, t) ==
  [s EXCEPT !.watcher = IF ~Live(s) THEN NoThread
                        ELSE IF s.watcher = NoThread THEN t ELSE s.watcher]

\* State object o learns that turn n of thread t is active.
Heard(Q, o, n, t) == [Q EXCEPT ![o] = Watched([@ EXCEPT !.activeTurn = n], t)]

FilesReady(m, up) == m \in WithFiles => m \in up

\* Mutant: the drain does not look at the active turn.
CanDrainBusy(s) == ~s.starting /\ ~s.draining /\ ~s.blocked /\ s.items # <<>>

CanDrain(s) ==
  /\ s.activeTurn = NoTurn /\ ~s.starting /\ ~s.draining /\ ~s.blocked
  /\ s.items # <<>>

\* Mutant: the item being sent is remembered by its position.
DrainedPosition(s, up) ==
  IF ~CanDrain(s) THEN s
  ELSE [s EXCEPT !.draining = TRUE, !.sending = 1, !.starting = TRUE]

\* drainQueue up to its first await.  (Its broadcast starts no interval: a queue
\* with items has one.)  readyAttachments throws before startTurn's try: the
\* drain fails at once and starting is never reset.
Drained(s, up) ==
  IF ~CanDrain(s) THEN s
  ELSE IF FilesReady(Head(s.items), up)
       THEN [s EXCEPT !.draining = TRUE, !.sending = Head(s.items), !.starting = TRUE]
       ELSE [s EXCEPT !.blocked = TRUE, !.starting = TRUE]

Starts(s, up) == CanDrain(s) /\ FilesReady(Head(s.items), up)

NewCall(t, o, drain) ==
  [pc |-> "usage", thread |-> t, obj |-> o, drain |-> drain, turn |-> NoTurn, canon |-> t]

\* The calls after drainQueue(t) has run on state s of object o.
Launched(C, s, t, o, up) ==
  IF Starts(s, up) THEN [C EXCEPT ![Head(s.items)] = NewCall(t, o, TRUE)] ELSE C

\* How every handler that changes thread t's queue to s ends: broadcastQueue,
\* then drainQueue.
Publish(t, s, up) ==
  LET w == Watched(s, t) IN
  /\ q' = [q EXCEPT ![slot[t]] = Drained(w, up)]
  /\ call' = Launched(call, w, t, slot[t], up)

-----------------------------------------------------------------------------
(* Client operations                                                       *)

\* turn.start: validatedAttachmentIds, then startTurn up to the usage check.
StartTurn(t, m) ==
  /\ t \in known /\ stage[m] = "new" /\ FilesReady(m, files)
  /\ q' = [q EXCEPT ![slot[t]].starting = TRUE]
  /\ call' = [call EXCEPT ![m] = NewCall(t, slot[t], FALSE)]
  /\ stage' = [stage EXCEPT ![m] = "direct"]
  /\ UNCHANGED <<slot, poll, read, steer, loaded, files, turnFiles, codexVars,
                 sent, accepted, edits, asks>>

\* turn.queue, once the usage check has let it through: nothing of the request
\* is visible before that await.
QueueTurn(t, m) ==
  /\ t \in known /\ stage[m] = "new" /\ FilesReady(m, files)
  /\ Len(q[slot[t]].items) < MaxQueued
  /\ Publish(t, [q[slot[t]] EXCEPT !.items = Append(@, m)], files)
  /\ stage' = [stage EXCEPT ![m] = "queued"]
  /\ UNCHANGED <<slot, poll, read, steer, loaded, files, turnFiles, codexVars,
                 sent, accepted, edits, asks>>

\* turn.queue while the quota is exhausted: the attachments are deleted.
QueueRefused(m) ==
  /\ "quota" \in Faults /\ stage[m] = "new"
  /\ files' = files \ {m}
  /\ stage' = [stage EXCEPT ![m] = "refused"]
  /\ UNCHANGED <<q, slot, call, poll, read, steer, loaded, turnFiles, codexVars,
                 sent, accepted, edits, asks>>

\* An edit of the queue: allowed on items that are not being sent, and it lets
\* a queue that stopped after an error run again.
Edit(t, m, items, up) ==
  /\ t \in known /\ edits < MaxEdits
  /\ Has(q[slot[t]].items, m) /\ q[slot[t]].sending # m
  /\ Publish(t, [q[slot[t]] EXCEPT !.items = items, !.blocked = FALSE], up)
  /\ files' = up
  /\ edits' = edits + 1
  /\ UNCHANGED <<slot, poll, read, steer, loaded, turnFiles, codexVars, sent, accepted, asks>>

RemoveQueuedTurn(t, m) ==
  /\ Edit(t, m, Without(q[slot[t]].items, m), files \ {m})
  /\ stage' = [stage EXCEPT ![m] = "removed"]

UpdateQueuedTurn(t, m) ==
  /\ Edit(t, m, q[slot[t]].items, files)
  /\ UNCHANGED stage

\* toIndex counts from 0 in the code; any position may be asked for, the one
\* of an item that is being sent included.
ReorderQueuedTurn(t, m) ==
  \E i \in DOMAIN q[slot[t]].items :
    /\ Edit(t, m, InsertAt(Without(q[slot[t]].items, m), i, m), files)
    /\ UNCHANGED stage

\* thread.create: the id is a draft of CodexService until its first turn.
CreateThread(t) ==
  /\ t \in Drafts \ known
  /\ drafts' = drafts \cup {t}
  /\ known' = known \cup {t}
  /\ loaded' = loaded \cup {t}
  /\ UNCHANGED <<q, slot, call, poll, read, steer, files, turnFiles, run, notes,
                 turns, historyVars>>

\* attachment.upload.remove of an upload a message may still refer to.
RemoveAttachment(m) ==
  /\ "remove" \in Faults /\ m \in files
  /\ files' = files \ {m}
  /\ UNCHANGED <<q, slot, call, poll, read, steer, loaded, turnFiles, codexVars,
                 historyVars>>

\* Mutant: every upload older than half an hour is deleted.
PurgeAnyUpload(m) ==
  /\ "expiry" \in Faults /\ m \in files
  /\ files' = files \ {m}
  /\ UNCHANGED <<q, slot, call, poll, read, steer, loaded, turnFiles, codexVars,
                 historyVars>>

\* purgeExpiredUploads spares the uploads that queued items refer to.
PurgeExpiredUpload(m) ==
  /\ "expiry" \in Faults /\ m \in files
  /\ \A t \in Threads : ~Has(q[slot[t]].items, m)
  /\ files' = files \ {m}
  /\ UNCHANGED <<q, slot, call, poll, read, steer, loaded, turnFiles, codexVars,
                 historyVars>>

\* turn.steer names the turn the client believes is running; the server
\* believes it until the official client refuses.
SteerTurn(t, n) ==
  /\ t \in known /\ n \in 1..turns /\ ~steer.asked /\ asks < MaxAsks
  /\ asks' = asks + 1
  /\ steer' = [asked |-> TRUE, thread |-> t, obj |-> slot[t],
               previous |-> q[slot[t]].activeTurn]
  /\ q' = Heard(q, slot[t], n, t)
  /\ UNCHANGED <<slot, call, poll, read, loaded, files, turnFiles, codexVars,
                 stage, sent, accepted, edits>>

SteerAccepted ==
  /\ steer.asked
  /\ steer' = NoSteer
  /\ UNCHANGED <<q, slot, call, poll, read, loaded, files, turnFiles, codexVars, historyVars>>

\* The rollback restores the turn seen before the request and refreshes the
\* watcher of whatever state the thread maps to now.
SteerFailed ==
  /\ "steerError" \in Faults /\ steer.asked
  /\ LET back == [q EXCEPT ![steer.obj].activeTurn = steer.previous]
     IN q' = [back EXCEPT ![slot[steer.thread]] = Watched(@, steer.thread)]
  /\ steer' = NoSteer
  /\ UNCHANGED <<slot, call, poll, read, loaded, files, turnFiles, codexVars, historyVars>>

-----------------------------------------------------------------------------
(* startTurn after each of its awaits                                      *)

\* The usage check passed: resume a thread this server has not loaded, or send.
UsageAllows(m) ==
  /\ call[m].pc = "usage"
  /\ \/ /\ call[m].thread \notin loaded
        /\ call' = [call EXCEPT ![m].pc = "resume"]
        /\ UNCHANGED sent
     \/ /\ call[m].thread \in loaded
        /\ call' = [call EXCEPT ![m].pc = "sent"]
        /\ sent' = [sent EXCEPT ![m] = @ + 1]
  /\ UNCHANGED <<q, slot, poll, read, steer, loaded, files, turnFiles, codexVars,
                 stage, accepted, edits, asks>>

Resumed(m) ==
  /\ call[m].pc = "resume"
  /\ loaded' = loaded \cup {call[m].thread}
  /\ call' = [call EXCEPT ![m].pc = "sent"]
  /\ sent' = [sent EXCEPT ![m] = @ + 1]
  /\ UNCHANGED <<q, slot, poll, read, steer, files, turnFiles, codexVars,
                 stage, accepted, edits, asks>>

\* Mutant: the canonical id keeps the state it may already have.
MovedSlotAway(t, c) ==
  IF t = c THEN slot ELSE [slot EXCEPT ![t] = [thread |-> t, gen |-> 1]]

\* migrateThreadState moves the state object, overwriting the entry that the
\* canonical id may already have.
MovedSlot(t, c) ==
  IF t = c THEN slot
  ELSE [slot EXCEPT ![c] = slot[t], ![t] = [thread |-> t, gen |-> 1]]

MovedFiles(t, c, m) ==
  LET moved == IF t # c /\ turnFiles[t] # {}
               THEN [turnFiles EXCEPT ![c] = turnFiles[t], ![t] = {}]
               ELSE turnFiles
  IN IF m \in WithFiles THEN [moved EXCEPT ![c] = {m}] ELSE moved

\* The polls that awaited the drain of m go on.
Released(m) ==
  [o \in Objs |-> IF poll[o].pc = "drain" /\ poll[o].msg = m THEN NoPoll ELSE poll[o]]

\* The end of a drain whose message was sent.
Dropped(s, m) ==
  [s EXCEPT !.starting = FALSE, !.draining = FALSE, !.sending = NoMsg, !.items = Without(@, m)]

\* turn/start answered.  CodexService emits turn/started for the canonical
\* thread just before it answers, so that notification is handled first, on the
\* state the canonical id has until the migration.  The turn is now active, so
\* startTurn's finally drains nothing; a drain then drops its item.
TurnStarted(m) ==
  LET c == call[m]
      emitted == Heard(q, slot[c.canon], c.turn, c.canon)
      active == Heard(emitted, slot'[c.canon], c.turn, c.canon)
  IN
  /\ c.pc = "accepted"
  /\ slot' = MovedSlot(c.thread, c.canon)
  /\ q' = [active EXCEPT ![c.obj] =
             IF c.drain THEN Dropped(@, m) ELSE [@ EXCEPT !.starting = FALSE]]
  /\ turnFiles' = MovedFiles(c.thread, c.canon, m)
  /\ loaded' = IF c.thread = c.canon THEN loaded
               ELSE (loaded \ {c.thread}) \cup {c.canon}
  /\ call' = [call EXCEPT ![m] = NoCall]
  /\ poll' = Released(m)
  /\ stage' = [stage EXCEPT ![m] = "sent"]
  /\ known' = known \cup {c.canon}
  /\ UNCHANGED <<read, steer, files, run, notes, drafts, turns, sent, accepted, edits, asks>>

\* What can fail in each phase.
CanFail(m) ==
  \/ call[m].pc = "usage" /\ "quota" \in Faults
  \/ call[m].pc \in {"resume", "sent"} /\ "startError" \in Faults
  \/ call[m].pc = "sent" /\ call[m].thread \in Drafts \ drafts
  \/ call[m].pc = "accepted" /\ "ackLoss" \in Faults

\* Mutant: the item is put in front without being taken out first.
PutBackTwice(s, m) ==
  [s EXCEPT !.items = InsertAt(@, 1, m), !.sending = NoMsg, !.draining = FALSE,
            !.starting = FALSE, !.blocked = TRUE]

\* Mutant: the queue does not stop after the error.
PutBackUnblocked(s, m) ==
  [s EXCEPT !.items = InsertAt(Without(@, m), 1, m), !.sending = NoMsg, !.draining = FALSE,
            !.starting = FALSE]

\* A queued message that could not be sent goes back to the front, and the
\* queue waits for an edit.
PutBack(s, m) ==
  [s EXCEPT !.items = InsertAt(Without(@, m), 1, m), !.sending = NoMsg, !.draining = FALSE,
            !.starting = FALSE, !.blocked = TRUE]

DrainFailed(m) ==
  LET c == call[m]
      back == [q EXCEPT ![c.obj] = PutBack(@, m)]
  IN
  /\ CanFail(m) /\ c.drain
  /\ q' = [back EXCEPT ![slot[c.thread]] = Watched(@, c.thread)]
  /\ call' = [call EXCEPT ![m] = NoCall]
  /\ poll' = Released(m)
  /\ UNCHANGED <<slot, read, steer, loaded, files, turnFiles, codexVars, historyVars>>

\* A direct start that failed deletes its attachments, and its finally drains
\* the queue.  (The await of the file removal only keeps starting set longer.)
DirectFailed(m) ==
  LET c == call[m]
      up == files \ {m}
      reset == [q EXCEPT ![c.obj].starting = FALSE]
      s == reset[c.obj]
      target == slot[c.thread]
      drains == s.activeTurn = NoTurn /\ ~s.draining /\ s.items # <<>>
  IN
  /\ CanFail(m) /\ ~c.drain
  /\ files' = up
  /\ q' = IF drains THEN [reset EXCEPT ![target] = Drained(@, up)] ELSE reset
  /\ call' = LET done == [call EXCEPT ![m] = NoCall]
             IN IF drains THEN Launched(done, reset[target], c.thread, target, up) ELSE done
  /\ stage' = [stage EXCEPT ![m] = "refused"]
  /\ UNCHANGED <<slot, poll, read, steer, loaded, turnFiles, codexVars, sent, accepted, edits, asks>>

-----------------------------------------------------------------------------
(* What the server learns about the official client                        *)

\* trackTurnNotification for turn/started.
NoteStarted(t) ==
  /\ notes[t] # <<>> /\ Head(notes[t]).kind = "started"
  /\ q' = Heard(q, slot[t], Head(notes[t]).turn, t)
  /\ notes' = [notes EXCEPT ![t] = Tail(@)]
  /\ UNCHANGED <<slot, call, poll, read, steer, loaded, files, turnFiles, run, drafts,
                 known, turns, historyVars>>

\* releaseTurnAttachments drops the files of the latest turn sent to the thread.
Release(t) ==
  /\ files' = files \ turnFiles[t]
  /\ turnFiles' = [turnFiles EXCEPT ![t] = {}]

\* trackTurnNotification for turn/completed: another turn than the active one
\* does not make the thread idle, but the attachments are released anyway.
NoteCompleted(t) ==
  /\ notes[t] # <<>> /\ Head(notes[t]).kind = "completed"
  /\ Release(t)
  /\ Publish(t, [q[slot[t]] EXCEPT !.activeTurn =
                   IF @ = Head(notes[t]).turn THEN NoTurn ELSE @], files')
  /\ notes' = [notes EXCEPT ![t] = Tail(@)]
  /\ UNCHANGED <<slot, poll, read, steer, loaded, run, drafts, known, turns, historyVars>>

\* The answers a status question can get: the state of the thread now, or when
\* the question was asked.
Answers(seen, t) == {run[t]} \cup IF "staleAnswer" \in Faults THEN {seen} ELSE {}
Seen(t) == IF "staleAnswer" \in Faults THEN run[t] ELSE Asleep

\* The interval of any state object, the ones #turnQueues no longer holds
\* included, polls the thread it was created for.
PollQueue(t) ==
  LET o == slot[t] IN
  /\ \E x \in Objs : q[x].watcher = t
  /\ poll[o].pc = "idle" /\ Live(q[o])
  /\ poll' = [poll EXCEPT ![o] = [pc |-> "list", thread |-> t, msg |-> NoMsg, seen |-> Seen(t)]]
  /\ UNCHANGED <<q, slot, call, read, steer, loaded, files, turnFiles, codexVars, historyVars>>

\* Mutant: the poll drains without forgetting the turn that is over.
LearntNeverIdle(x, n, t) ==
  IF n = NoTurn \/ q[x].activeTurn = n THEN q
  ELSE LET told == [q EXCEPT ![x].activeTurn = n]
       IN [told EXCEPT ![slot[t]] = Watched(@, t)]

\* The queues once a poll of thread t has set the active turn of object x to n.
Learnt(x, n, t) ==
  IF q[x].activeTurn = n THEN q
  ELSE LET told == [q EXCEPT ![x].activeTurn = n]
       IN [told EXCEPT ![slot[t]] = Watched(@, t)]

\* thread/turns/list says the latest turn is in progress.
PollSeesTurn(o) ==
  LET t == poll[o].thread IN
  /\ poll[o].pc = "list" /\ t \notin Drafts
  /\ \E a \in Answers(poll[o].seen, t) :
       a.active /\ q' = Learnt(o, a.turn, t)
  /\ poll' = [poll EXCEPT ![o] = NoPoll]
  /\ UNCHANGED <<slot, call, read, steer, loaded, files, turnFiles, codexVars, historyVars>>

\* An answer that says idle: forget the active turn of state object x, then
\* drain; the poll lasts until that drain has ended.
PollGoesOn(o, x) ==
  LET t == poll[o].thread
      idle == Learnt(x, NoTurn, t)
      s == idle[slot[t]]
  IN
  /\ IF q[x].activeTurn = NoTurn THEN UNCHANGED <<files, turnFiles>> ELSE Release(t)
  /\ IF idle[x].blocked
     THEN /\ q' = idle
          /\ UNCHANGED call
          /\ poll' = [poll EXCEPT ![o] = NoPoll]
     ELSE /\ q' = [idle EXCEPT ![slot[t]] = Drained(s, files')]
          /\ call' = Launched(call, s, t, slot[t], files')
          /\ poll' = [poll EXCEPT ![o] =
                        IF Starts(s, files')
                        THEN [@ EXCEPT !.pc = "drain", !.msg = Head(s.items), !.seen = Asleep]
                        ELSE NoPoll]
  /\ UNCHANGED <<slot, read, steer, loaded, codexVars, historyVars>>

PollSeesIdle(o) ==
  /\ poll[o].pc = "list" /\ poll[o].thread \notin Drafts
  /\ \E a \in Answers(poll[o].seen, poll[o].thread) : ~a.active
  /\ PollGoesOn(o, o)

\* thread/turns/list failed (it always does for a draft id): ask thread/read.
PollFallsBack(o) ==
  LET t == poll[o].thread IN
  /\ poll[o].pc = "list"
  /\ poll' = [poll EXCEPT ![o] =
                IF Live(q[slot[t]]) THEN [@ EXCEPT !.pc = "status", !.seen = Seen(t)]
                ELSE NoPoll]
  /\ UNCHANGED <<q, slot, call, read, steer, loaded, files, turnFiles, codexVars, historyVars>>

\* A draft that still waits for its first turn reads as idle.
StatusIdle(o) ==
  LET t == poll[o].thread IN
  /\ poll[o].pc = "status" /\ t \notin Drafts \ drafts
  /\ \E a \in Answers(poll[o].seen, t) : ~a.active
  /\ PollGoesOn(o, slot[t])

\* The thread is active, or thread/read failed too.
StatusSettlesNothing(o) ==
  /\ poll[o].pc = "status"
  /\ poll' = [poll EXCEPT ![o] = NoPoll]
  /\ UNCHANGED <<q, slot, call, read, steer, loaded, files, turnFiles, codexVars, historyVars>>

\* thread.open and thread.history read the thread...
OpenThread(t) ==
  /\ t \in known /\ ~read[t].asked /\ asks < MaxAsks
  /\ asks' = asks + 1
  /\ read' = [read EXCEPT ![t] = [asked |-> TRUE, seen |-> Seen(t)]]
  /\ UNCHANGED <<q, slot, call, poll, steer, loaded, files, turnFiles, codexVars,
                 stage, sent, accepted, edits>>

\* ... and synchronizeActiveTurn takes the answer for the truth.
SynchronizeActiveTurn(t) ==
  /\ read[t].asked /\ t \notin Drafts \ drafts
  /\ \E a \in Answers(read[t].seen, t) :
       /\ IF a.active THEN UNCHANGED <<files, turnFiles>> ELSE Release(t)
       /\ Publish(t, [q[slot[t]] EXCEPT !.activeTurn = IF a.active THEN a.turn ELSE NoTurn],
                  files')
  /\ read' = [read EXCEPT ![t] = NoRead]
  /\ UNCHANGED <<slot, poll, steer, loaded, codexVars, historyVars>>

ReadFailed(t) ==
  /\ read[t].asked
  /\ read' = [read EXCEPT ![t] = NoRead]
  /\ UNCHANGED <<q, slot, call, poll, steer, loaded, files, turnFiles, codexVars, historyVars>>

-----------------------------------------------------------------------------
(* The official client and CodexService                                    *)

Begin(t) ==
  /\ ~run[t].active /\ turns < MaxTurn
  /\ turns' = turns + 1
  /\ run' = [run EXCEPT ![t] = [turn |-> turns', active |-> TRUE]]
  /\ notes' = [notes EXCEPT ![t] = Append(@, [kind |-> "started", turn |-> turns'])]

\* The official client runs the message, once the thread's previous turn is
\* over.  The first turn of a draft creates the thread, whose id is new.
AcceptTurn(m) ==
  /\ call[m].pc = "sent"
  /\ \E c \in Threads :
       /\ \/ /\ call[m].thread \in drafts /\ c \notin known \cup Drafts /\ run[c] = Asleep
             /\ drafts' = drafts \ {call[m].thread}
             /\ known' = IF "earlyId" \in Faults THEN known \cup {c} ELSE known
          \/ /\ call[m].thread \notin Drafts /\ c = call[m].thread
             /\ UNCHANGED <<drafts, known>>
       /\ Begin(c)
       /\ call' = [call EXCEPT ![m].pc = "accepted", ![m].turn = turns', ![m].canon = c]
  /\ accepted' = [accepted EXCEPT ![m] = @ + 1]
  /\ UNCHANGED <<q, slot, poll, read, steer, loaded, files, turnFiles, stage, sent, edits, asks>>

\* The desktop user sends a message in the official client.
OfficialTurn(t) ==
  /\ "official" \in Faults /\ t \in known \ Drafts
  /\ Begin(t)
  /\ UNCHANGED <<serverVars, drafts, known, historyVars>>

CompleteTurn(t) ==
  /\ run[t].active
  /\ run' = [run EXCEPT ![t].active = FALSE]
  /\ notes' = [notes EXCEPT ![t] = Append(@, [kind |-> "completed", turn |-> run[t].turn])]
  /\ UNCHANGED <<serverVars, drafts, known, turns, historyVars>>

\* The watch that emits notifications compares two readings, and sees nothing
\* of a turn that begins and ends between them.
LoseNote(t) ==
  /\ "noteLoss" \in Faults /\ notes[t] # <<>>
  /\ notes' = [notes EXCEPT ![t] = Tail(@)]
  /\ UNCHANGED <<serverVars, run, drafts, known, turns, historyVars>>

-----------------------------------------------------------------------------

ClientStep ==
  \/ \E t \in Threads : \/ \E m \in Msgs : \/ StartTurn(t, m) \/ QueueTurn(t, m)
                                           \/ RemoveQueuedTurn(t, m)
                                           \/ UpdateQueuedTurn(t, m)
                                           \/ ReorderQueuedTurn(t, m)
                        \/ CreateThread(t)
                        \/ OpenThread(t)
                        \/ \E n \in Turns : SteerTurn(t, n)
  \/ \E m \in Msgs : QueueRefused(m) \/ RemoveAttachment(m) \/ PurgeExpiredUpload(m)

CallStep(m) == UsageAllows(m) \/ Resumed(m) \/ TurnStarted(m) \/ DrainFailed(m) \/ DirectFailed(m)

PollStep(o) == PollSeesTurn(o) \/ PollSeesIdle(o) \/ PollFallsBack(o)
               \/ StatusIdle(o) \/ StatusSettlesNothing(o)

ThreadStep(t) == NoteStarted(t) \/ NoteCompleted(t) \/ PollQueue(t)
                 \/ SynchronizeActiveTurn(t) \/ ReadFailed(t)

OfficialStep ==
  \/ \E m \in Msgs : AcceptTurn(m)
  \/ \E t \in Threads : OfficialTurn(t) \/ CompleteTurn(t) \/ LoseNote(t)

Next ==
  \/ ClientStep
  \/ SteerAccepted
  \/ SteerFailed
  \/ \E m \in Msgs : CallStep(m)
  \/ \E o \in Objs : PollStep(o)
  \/ \E t \in Threads : ThreadStep(t)
  \/ OfficialStep

Spec == Init /\ [][Next]_vars

\* The event loop runs what is ready, the interval keeps firing, every await
\* ends (CodexService bounds it with a timeout), turns end, and of the polls of
\* a queue some are answered.  No client has to do anything.
Fairness ==
  /\ \A m \in Msgs : WF_vars(CallStep(m)) /\ WF_vars(AcceptTurn(m))
  /\ \A t \in Threads : /\ WF_vars(CompleteTurn(t))
                         /\ WF_vars(NoteStarted(t) \/ NoteCompleted(t) \/ LoseNote(t))
                         /\ WF_vars(PollQueue(t))
  /\ \A o \in Objs : /\ WF_vars(PollStep(o))
                      /\ SF_vars(PollSeesTurn(o) \/ PollSeesIdle(o))

FairSpec == Spec /\ Fairness

-----------------------------------------------------------------------------
(* Properties                                                              *)

InFlight(m) == call[m].pc # "idle"
Drains(o) == {m \in Msgs : InFlight(m) /\ call[m].drain /\ call[m].obj = o}

\* The draining flag, the item marked "starting" and the automatic startTurn
\* in flight agree on every queue: there is at most one of them, it sends the
\* item so marked, and that item is still in the queue.  (drainQueue,
\* startTurn's finally, the poll and the notifications all start drains.)
OneDispatcher ==
  \A o \in Objs :
    /\ Drains(o) = {q[o].sending} \ {NoMsg}
    /\ q[o].draining <=> q[o].sending # NoMsg
    /\ q[o].draining => Has(q[o].items, q[o].sending)

\* What keeps OneDispatcher true, for queues Q, calls C and message stages G: a
\* message has at most one place in all the queues, a message in a queue is
\* neither new nor done, and a call in flight belongs to a message that is
\* queued if the call is a drain's and in no queue if it is a direct start's.
NoDup(s) == \A i, j \in DOMAIN s : s[i] = s[j] => i = j
Sends(c, o) == c.pc # "idle" /\ c.drain /\ c.obj = o
WellDispatched(Q, C, G) ==
  /\ \A o \in Objs, m \in Msgs : Sends(C[m], o) <=> Q[o].sending = m
  /\ \A o \in Objs : Q[o].draining <=> Q[o].sending # NoMsg
  /\ \A o \in Objs, m \in Msgs : Q[o].sending = m => Has(Q[o].items, m)
  /\ \A o \in Objs : NoDup(Q[o].items)
  /\ \A o, p \in Objs, m \in Msgs : Has(Q[o].items, m) /\ Has(Q[p].items, m) => o = p
  /\ \A o \in Objs, m \in Msgs : Has(Q[o].items, m) => G[m] = "queued"
  /\ \A m \in Msgs : C[m].pc # "idle" => G[m] = IF C[m].drain THEN "queued" ELSE "direct"

\* The inductive invariant behind OneDispatcher: the message being sent is in no
\* other queue, and no message is both queued and being started directly.
DispatchInv == WellDispatched(q, call, stage)

\* A queued message is once in exactly one queue that a thread id maps to, from
\* turn.queue to the confirmed start or the removal, and afterwards in none:
\* no failure, poll, reorder or id migration loses it or sends it again.
QueuedExactlyOnce ==
  \A m \in Msgs :
    IF stage[m] = "queued"
    THEN \E t \in Threads : \E i \in DOMAIN q[slot[t]].items :
           /\ q[slot[t]].items[i] = m
           /\ \A u \in Threads : \A j \in DOMAIN q[slot[u]].items :
                q[slot[u]].items[j] = m => slot[u] = slot[t] /\ i = j
    ELSE \A o \in Objs : ~Has(q[o].items, m)

\* A message is sent again only after the user has edited the queue: an
\* automatic start that failed is not retried by the poll, by notifications or
\* by other starts.  Without a lost answer it also runs at most once.
RetriedOnlyAfterEdit ==
  \A m \in Msgs : /\ sent[m] <= 1 + edits
                  /\ accepted[m] <= IF "ackLoss" \in Faults THEN 1 + edits ELSE 1

\* A queue whose thread may still have work is polled under its own thread id,
\* after an id migration too: otherwise a lost notification leaves it forever.
LiveQueuesArePolled ==
  \A t \in Threads : Live(q[slot[t]]) => \E o \in Objs : q[o].watcher = t

\* The attachments of a message stay on disk while it is queued, whatever turns
\* of the thread end meanwhile and however old the upload is; only the client
\* can take them away.
QueuedFilesAreKept ==
  \A m \in WithFiles :
    stage[m] = "queued" /\ "remove" \notin Faults => m \in files

\* The drain starts a message on thread t in this step.
Dispatches(t, m) ==
  /\ ~InFlight(m) /\ call'[m].pc = "usage"
  /\ call'[m].drain /\ call'[m].thread = t

\* The notification that the running turn of t has started is on its way.
StartUnheard(t) ==
  \E i \in DOMAIN notes[t] : notes[t][i] = [kind |-> "started", turn |-> run[t].turn]

\* The drain sends no queued message while a turn runs that the server has been
\* told of: it starts only when the thread is idle or the news of the turn is
\* still on its way.
QueuedWorkWaits ==
  [][\A t \in Threads, m \in Msgs : Dispatches(t, m) /\ run[t].active => StartUnheard(t)]_vars

\* Queued work waits for the active turn: turn/start of a queued message goes out
\* only while the server believes the thread idle, the awaits between the
\* decision to drain and the request (usage check, thread/resume) included.
SentOnlyWhenIdle ==
  [][\A m \in Msgs : sent'[m] > sent[m] /\ call[m].drain
                       => q[call[m].obj].activeTurn = NoTurn]_vars

\* A queued message is sent, removed or stopped behind an error in the end, even
\* when notifications of the turns it waits for get lost and its thread changes
\* its id.
QueuedIsServed ==
  \A m \in Msgs :
    stage[m] = "queued" ~>
      (stage[m] # "queued" \/ \E o \in Objs : Has(q[o].items, m) /\ q[o].blocked)

\* A turn whose end nobody reported does not stay active for ever: the poll
\* finds out, with or without queued messages.
TurnEndIsNoticed ==
  \A t \in Threads : q[slot[t]].activeTurn # NoTurn ~> q[slot[t]].activeTurn = NoTurn

=============================================================================
