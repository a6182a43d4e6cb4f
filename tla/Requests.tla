------------------------------ MODULE Requests ------------------------------
(***************************************************************************)
(* Requests the local server (src/remote/remote-codex-server.ts) may get   *)
(* more than once, or for something that is gone by then: turns that carry *)
(* a client request id, the chunks of an upload, and answers to approvals. *)
(* The three share no state and are three machines here.                   *)
(***************************************************************************)
EXTENDS Naturals, FiniteSets, Sequences, SequencesExt

CONSTANTS
  Keys,      \* a kind (start or queue) with a client request id
  MaxCalls,  \* bound: operations begun
  MaxKept,   \* MAX_IDEMPOTENT_TURN_REQUESTS
  Uploads,   \* upload ids
  MaxFiles,  \* MAX_UPLOADS
  MaxChunks, \* bound: chunks of a file
  MaxBytes,  \* the 100 MB all uploads may take, in chunks
  MaxAsked,  \* bound: approvals the official process asks for
  MaxStarts  \* bound: processes started

ASSUME RequestsAssumption == {MaxCalls, MaxKept, MaxFiles, MaxChunks, MaxBytes, MaxAsked, MaxStarts} \subseteq Nat

----------------------------------------------------------------------------
(* Turn requests with a client request id *)

VARIABLES
  kept, \* #idempotentTurnRequests, oldest first
  call  \* the operations begun, in order

turnVars == <<kept, call>>

TurnsTypeOK ==
  /\ kept \in Seq([key : Keys, call : 1..MaxCalls, old : BOOLEAN])
  /\ call \in Seq([key : Keys, at : {"running", "done", "failed"}, old : BOOLEAN])

\* What s has at these places, in its order.
Chosen(s, places) ==
  LET rank(i) == Cardinality({j \in places : j <= i})
  IN [n \in 1..Cardinality(places) |-> s[CHOOSE i \in places : rank(i) = n]]
Young(s) == Chosen(s, {n \in DOMAIN s : ~s[n].old})
ForgetKey(s, i) == Chosen(s, {n \in DOMAIN s : s[n].key # call[i].key})
Forget(s, i) == Chosen(s, {n \in DOMAIN s : s[n].call # i})
Limited(s) == IF Len(s) > MaxKept THEN Tail(s) ELSE s

\* A request joins the operation its key has, or begins one.
TurnRequest(k) ==
  IF \E e \in Range(Young(kept)) : e.key = k
  THEN kept' = Young(kept) /\ UNCHANGED call
  ELSE /\ Len(call) < MaxCalls
       /\ call' = Append(call, [key |-> k, at |-> "running", old |-> FALSE])
       /\ kept' = Limited(Append(Young(kept), [key |-> k, call |-> Len(call) + 1, old |-> FALSE]))

\* An operation that fails leaves its key to a retry, if the key is still its own.
TurnRequestEnds(i) ==
  /\ call[i].at = "running"
  /\ \/ call' = [call EXCEPT ![i].at = "done"] /\ UNCHANGED kept
     \/ call' = [call EXCEPT ![i].at = "failed"] /\ kept' = Forget(kept, i)

\* IDEMPOTENT_TURN_TTL_MS go by.
QuarterHour ==
  /\ kept' = [n \in DOMAIN kept |-> [kept[n] EXCEPT !.old = TRUE]]
  /\ call' = [n \in DOMAIN call |-> [call[n] EXCEPT !.old = TRUE]]

TurnsInit == kept = <<>> /\ call = <<>>
TurnsNext ==
  \/ \E k \in Keys : TurnRequest(k)
  \/ \E i \in DOMAIN call : TurnRequestEnds(i)
  \/ QuarterHour

----------------------------------------------------------------------------
(* Uploads *)

VARIABLES
  upload, \* #uploads, with what is on its way to the disk
  crossed \* history: starts that found another one writing its empty file

uploadVars == <<upload, crossed>>

UploadSteps == {"none", "creating", "open", "gone"}
UploadsTypeOK ==
  /\ upload \in [Uploads -> [at : UploadSteps, size : 0..MaxChunks, received : Nat, next : Nat,
                             ready : BOOLEAN, old : BOOLEAN, queued : BOOLEAN,
                             writing : Seq(Nat), file : Seq(Nat), overlapped : BOOLEAN]]
  /\ crossed \in 0..Cardinality(Uploads)

Held == {u \in Uploads : upload[u].at = "open"}
Expired(u) == upload[u].at = "open" /\ upload[u].old /\ ~upload[u].queued
\* The chunks these uploads may have.
Reserved(S) == Cardinality({p \in S \X (1..MaxChunks) : p[2] <= upload[p[1]].size})

NewUpload(at, size) ==
  [at |-> at, size |-> size, received |-> 0, next |-> 1, ready |-> FALSE, old |-> FALSE,
   queued |-> FALSE, writing |-> <<>>, file |-> <<>>, overlapped |-> FALSE]
Gone == NewUpload("gone", 0)
Purged == [u \in Uploads |-> IF Expired(u) THEN Gone ELSE upload[u]]

\* The expired uploads go first; the limits are checked over what is left.
StartAttachmentUpload(u, size) ==
  LET left == {v \in Held : ~Expired(v)} IN
  /\ upload[u].at = "none"
  /\ Cardinality(left) < MaxFiles /\ Reserved(left) + size <= MaxBytes
  /\ upload' = [Purged EXCEPT ![u] = NewUpload("creating", size)]
  /\ crossed' = IF \E v \in Uploads : upload[v].at = "creating" THEN crossed + 1 ELSE crossed

UploadCreated(u) ==
  /\ upload[u].at = "creating"
  /\ upload' = [upload EXCEPT ![u].at = "open"]
  /\ UNCHANGED crossed

\* A chunk is taken on what the upload says now and counted when it is written.
AppendAttachmentChunk(u) ==
  /\ upload[u].at = "open" /\ ~upload[u].ready /\ upload[u].received < upload[u].size
  /\ Len(upload[u].writing) < 2
  /\ upload' = [upload EXCEPT ![u].writing = Append(@, upload[u].next),
                              ![u].overlapped = @ \/ upload[u].writing # <<>>]
  /\ UNCHANGED crossed

ChunkWritten(u) ==
  \E n \in DOMAIN upload[u].writing :
    /\ upload' = [upload EXCEPT ![u].writing = RemoveAt(@, n),
                                ![u].file = Append(@, upload[u].writing[n]),
                                ![u].received = @ + 1, ![u].next = @ + 1, ![u].old = FALSE]
    /\ UNCHANGED crossed

FinishAttachmentUpload(u) ==
  /\ upload[u].at = "open" /\ upload[u].received = upload[u].size
  /\ upload' = [upload EXCEPT ![u].ready = TRUE, ![u].old = FALSE]
  /\ UNCHANGED crossed

QueueAttachment(u) ==
  /\ upload[u].at = "open" /\ upload[u].ready
  /\ upload' = [upload EXCEPT ![u].queued = TRUE]
  /\ UNCHANGED crossed

\* By its owner, by its queue item, or at the end of the turn it went with.
DeleteAttachment(u) ==
  /\ upload[u].at = "open"
  /\ upload' = [upload EXCEPT ![u] = Gone]
  /\ UNCHANGED crossed

HalfHour ==
  /\ upload' = [u \in Uploads |-> [upload[u] EXCEPT !.old = upload[u].at = "open"]]
  /\ UNCHANGED crossed

UploadsInit ==
  /\ upload = [u \in Uploads |-> NewUpload("none", 0)]
  /\ crossed = 0
UploadsNext ==
  \/ \E u \in Uploads, size \in 1..MaxChunks : StartAttachmentUpload(u, size)
  \/ \E u \in Uploads : \/ UploadCreated(u) \/ AppendAttachmentChunk(u) \/ ChunkWritten(u)
                        \/ FinishAttachmentUpload(u) \/ QueueAttachment(u) \/ DeleteAttachment(u)
  \/ HalfHour

----------------------------------------------------------------------------
(* Approvals: an official process numbers its requests from 1 *)

VARIABLES
  process,  \* the process that runs
  asked,    \* every request made: its process, its number there
  pending,  \* #pendingApprovals, #pendingUserInputs: the numbers
  answer    \* history: pairs of the request answered and the request shown

approvalVars == <<process, asked, pending, answer>>

ApprovalsTypeOK ==
  /\ process \in 1..MaxStarts
  /\ asked \in Seq([process : 1..MaxStarts, id : 1..MaxAsked])
  /\ pending \subseteq 1..MaxAsked
  /\ answer \subseteq ((0..MaxAsked) \X (1..MaxAsked))

Number(a) == asked[a].id
Reached(id) == {a \in DOMAIN asked : asked[a].process = process /\ Number(a) = id}

\* onServerRequest
Ask ==
  /\ Len(asked) < MaxAsked
  /\ LET id == Cardinality({a \in DOMAIN asked : asked[a].process = process}) + 1 IN
       /\ asked' = Append(asked, [process |-> process, id |-> id])
       /\ pending' = pending \cup {id}
  /\ UNCHANGED <<process, answer>>

\* approval.respond and userInput.respond, from a page that shows request a.
Answered(id) == pending \ {id}
Respond(a) ==
  /\ Number(a) \in pending
  /\ pending' = Answered(Number(a))
  /\ answer' = answer \cup {<<b, a>> : b \in Reached(Number(a))}
  /\ UNCHANGED <<process, asked>>

\* The transport spawns another process; what was pending is not forgotten.
ProcessReplaced ==
  /\ process < MaxStarts /\ process' = process + 1
  /\ UNCHANGED <<asked, pending, answer>>

ServerStopped == pending # {} /\ pending' = {} /\ UNCHANGED <<process, asked, answer>>

ApprovalsInit == process = 1 /\ asked = <<>> /\ pending = {} /\ answer = {}
ApprovalsNext == Ask \/ ProcessReplaced \/ ServerStopped \/ \E a \in DOMAIN asked : Respond(a)

----------------------------------------------------------------------------
(* Properties *)

\* The operation of a client request id runs again only after it has failed, or
\* after a quarter of an hour or MaxKept other operations: in particular a late
\* failure of a forgotten operation does not free the key of its successor.
TurnsRunOnce ==
  \A i, j \in DOMAIN call :
    i < j /\ call[i].key = call[j].key =>
      call[i].at = "failed" \/ call[i].old \/ j - i > MaxKept

\* A file that is ready consists of its chunks in order, each once, when they
\* were sent one at a time; the limits hold but for starts that crossed.
UploadsAreWhole ==
  /\ \A u \in Uploads : upload[u].ready /\ ~upload[u].overlapped =>
       upload[u].file = [n \in 1..upload[u].size |-> n]
  /\ Cardinality(Held) <= MaxFiles + crossed
  /\ Reserved(Held) <= MaxBytes + crossed * MaxChunks

\* An answer reaches the request it was given for, unless that request's
\* process is gone, and no request is answered twice.
AnswersReachTheirRequest ==
  \A p \in answer : /\ p[1] = p[2] \/ asked[p[2]].process < asked[p[1]].process
                    /\ \A q \in answer : p[1] = q[1] => p = q

\* Asking again is harmless: of a turn, of a chunk, of an answer.
RepeatsAreHarmless == TurnsRunOnce /\ UploadsAreWhole /\ AnswersReachTheirRequest
=============================================================================
