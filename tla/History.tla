------------------------------ MODULE History ------------------------------
(***************************************************************************)
(* The history of a task, read from the rollout the official client keeps  *)
(* appending to, through a cache in memory and one on disk                 *)
(* (src/codex/codex-session-store.ts).  A record starts a turn, ends one,  *)
(* or is an item; the turn a record belongs to is the last one started.    *)
(* A rollout is read in blocks from its end, as far back as the turns      *)
(* asked for need.                                                         *)
(***************************************************************************)
EXTENDS Integers, FiniteSets, Sequences, SequencesExt

CONSTANTS
  MaxRecords, \* bound: records of the rollout
  Block,      \* ROLLOUT_READ_BLOCK_BYTES, in records
  Limits,     \* turns asked for
  MaxReads    \* bound: reads

ASSUME HistoryAssumption == MaxRecords \in Nat /\ Block \in Nat \ {0} /\ Limits \subseteq Nat \ {0} /\ MaxReads \in Nat

VARIABLES
  rollout, \* the file
  still,   \* it has not changed for STALE_IN_PROGRESS_AFTER_MS
  memory,  \* rolloutCache
  disk,    \* the cache file
  reader,  \* a call of #readRollout
  reads,   \* bound: calls so far
  right    \* history: the last call returned what a parse of all would

historyVars == <<rollout, still, memory, disk, reader, reads, right>>

Records == {"start", "end", "item"}
HistoryTypeOK ==
  /\ rollout \in Seq(Records) /\ Len(rollout) <= MaxRecords /\ {still, right} \subseteq BOOLEAN /\ reads \in 0..MaxReads
  /\ \A c \in {memory, disk, reader.cached} : Len(c) <= 1 /\ (c # <<>> => c[1].size \in 0..MaxRecords /\ c[1].limit \in Nat)
  /\ reader.at \in {"idle", "parse"} /\ reader.limit \in Limits \cup {1} /\ reader.size \in 0..Len(rollout)
LastOf(s, n) == SubSeq(s, IF Len(s) > n THEN Len(s) - n + 1 ELSE 1, Len(s))

----------------------------------------------------------------------------
(* parseRollout *)

Count(kind, s, from, to) == Cardinality({i \in from..to : s[i] = kind})
Unended(turn) == turn.status = "inProgress"

\* An item outside a turn opens one of its own: history-n.
Parsed(acc, i) ==
  CASE rollout[i] = "start" ->
         [acc EXCEPT !.turns = Append(@, [id |-> <<"turn", Count("start", rollout, 1, i)>>,
                                          status |-> "inProgress", items |-> <<>>]), !.open = TRUE]
    [] rollout[i] = "end" /\ acc.open ->
         [acc EXCEPT !.turns[Len(acc.turns)].status = "completed", !.open = FALSE]
    [] rollout[i] = "item" /\ acc.open ->
         [acc EXCEPT !.turns[Len(acc.turns)].items = Append(@, i)]
    [] rollout[i] = "item" /\ ~acc.open ->
         [turns |-> Append(acc.turns, [id |-> <<"history", acc.strays + 1>>, status |-> "completed", items |-> <<i>>]),
          open |-> TRUE, strays |-> acc.strays + 1]
    [] OTHER -> acc
ParseFrom(first, size) ==
  FoldLeft(Parsed, [turns |-> <<>>, open |-> FALSE, strays |-> 0], [n \in 1..(size - first + 1) |-> first + n - 1]).turns

\* readRolloutLines: whole blocks from the end, until one start more than the
\* turns asked for is among them; the line a block begins in is dropped.
Start(size, limit) ==
  LET offset == {o \in 0..size : (size - o) % Block = 0 /\ Count("start", rollout, o + 1, size) > limit}
  IN IF offset = {} THEN 1 ELSE (CHOOSE o \in offset : \A p \in offset : p <= o) + 2

Failed(turns) == [n \in DOMAIN turns |-> IF Unended(turns[n]) THEN [turns[n] EXCEPT !.status = "failed"] ELSE turns[n]]
Parse(limit) ==
  LET turns == LastOf(ParseFrom(Start(Len(rollout), limit), Len(rollout)), limit)
  IN IF still THEN Failed(turns) ELSE turns

\* The cache in memory, and what a parse leaves in it.
\* An entry of another size, or from before the file was still, never fits again.
Fits(c, size, limit) == c # <<>> /\ c[1].size = size /\ c[1].still = still /\ c[1].limit >= limit
Remembered(limit) ==
  IF Fits(memory, Len(rollout), limit) THEN LastOf(memory[1].turns, limit) ELSE Parse(limit)
Memory(limit) ==
  IF Fits(memory, Len(rollout), limit) THEN memory
  ELSE <<[size |-> Len(rollout), still |-> still, limit |-> limit, turns |-> Parse(limit)]>>

----------------------------------------------------------------------------
(* #readRollout *)

\* The same turns with the same items; what has ended is not shown as running.
Same(read, parsed) ==
  /\ Len(read) = Len(parsed)
  /\ \A n \in DOMAIN read :
       /\ read[n].id = parsed[n].id /\ read[n].items = parsed[n].items
       /\ parsed[n].status = "completed" => read[n].status = "completed"

\* Items after the end of a turn count as a turn when turns are cut off, not when
\* they are looked for.
Stray == \E i \in 1..(Len(rollout) - 1) :
           /\ Count("start", rollout, 1, i) > 0
           /\ rollout[i] = "end" /\ rollout[i + 1] = "item"

Idle == [at |-> "idle", limit |-> 1, size |-> 0, still |-> FALSE, cached |-> <<>>]

\* The size of the file and the cache file are read before, and the file as it
\* has grown since after, an await.
ReadRollout(limit) ==
  /\ reader.at = "idle" /\ reads < MaxReads /\ reads' = reads + 1
  /\ reader' = [Idle EXCEPT !.at = "parse", !.limit = limit, !.size = Len(rollout), !.still = still, !.cached = disk]
  /\ UNCHANGED <<rollout, still, memory, disk, right>>

Cached == reader.cached[1]
\* suspect, history: the cache is from a read during which a turn began.
Returns(turns, size, suspect) ==
  /\ reader' = Idle
  /\ right' = (suspect \/ Stray \/ Same(LastOf(turns, reader.limit), LastOf(ParseFrom(1, size), reader.limit)))
\* Nobody waits for the cache file: writes share a temporary name, and the new
\* one may be overtaken by the old one, or get lost, or be unreadable.
Writes(limit, turns, suspect) ==
  LET entry == [size |-> reader.size, still |-> reader.still, limit |-> limit, turns |-> turns, suspect |-> suspect]
  IN disk' \in {<<entry>>, disk, <<>>}

Hit == reader.cached # <<>> /\ Cached.size = reader.size /\ Cached.still = reader.still /\ Cached.limit >= reader.limit
Grown == reader.cached # <<>> /\ Cached.size < reader.size /\ Cached.limit >= reader.limit

ReadHit ==
  /\ reader.at = "parse" /\ Hit
  /\ Returns(Cached.turns, reader.size, Cached.suspect)
  /\ UNCHANGED <<rollout, still, memory, disk, reads>>

\* mergeRolloutTurns: what was parsed now replaces and follows what was cached.
Merged(cached, recent) ==
  LET again(turn) == \E n \in DOMAIN recent : recent[n].id = turn.id
  IN SelectSeq(cached, LAMBDA turn : ~again(turn)) \o recent

\* Mutant: the turn that went on when the cache was written is forgotten.
OnlyTheNew(added) == added
\* Only the turns started since, and the one before them, are parsed.
TheNewAndOneBefore(added) == added + 1
ReadGrown ==
  LET added == Count("start", rollout, Cached.size + 1, reader.size)
      wanted == TheNewAndOneBefore(added)
      recent == IF wanted < Cached.limit THEN wanted ELSE Cached.limit
      merged == LastOf(Merged(Cached.turns, Remembered(recent)), Cached.limit)
      suspect == Cached.suspect \/ Count("start", rollout, reader.size + 1, Len(rollout)) > 0
  IN /\ reader.at = "parse" /\ ~Hit /\ Grown
     /\ memory' = Memory(recent)
     /\ Writes(Cached.limit, merged, suspect) /\ Returns(merged, Len(rollout), suspect)
     /\ UNCHANGED <<rollout, still, reads>>

ReadWhole ==
  /\ reader.at = "parse" /\ ~Hit /\ ~Grown
  /\ memory' = Memory(reader.limit)
  /\ Writes(reader.limit, Remembered(reader.limit), FALSE) /\ Returns(Remembered(reader.limit), Len(rollout), FALSE)
  /\ UNCHANGED <<rollout, still, reads>>

----------------------------------------------------------------------------
(* The official client, external *)

AppendRecord(kind) ==
  /\ Len(rollout) < MaxRecords
  /\ kind = "end" => Count("start", rollout, 1, Len(rollout)) > Count("end", rollout, 1, Len(rollout))
  /\ rollout' = Append(rollout, kind) /\ still' = FALSE /\ memory' = <<>>
  /\ UNCHANGED <<disk, reader, reads, right>>

TimePasses == ~still /\ still' = TRUE /\ memory' = <<>> /\ UNCHANGED <<rollout, disk, reader, reads, right>>

HistoryInit ==
  /\ rollout = <<>> /\ still = FALSE /\ memory = <<>> /\ disk = <<>>
  /\ reader = Idle /\ reads = 0 /\ right = TRUE
HistoryNext ==
  \/ \E limit \in Limits : ReadRollout(limit)
  \/ ReadHit \/ ReadGrown \/ ReadWhole \/ TimePasses
  \/ \E kind \in Records : AppendRecord(kind)

----------------------------------------------------------------------------
(* Properties *)

\* What is read through the caches is what a parse of the whole file would say:
\* no turn lost or repeated, no item missing, and no ended turn still shown as
\* running; excused are items outside a turn, and a turn that begins between
\* the look at the size of the file and the reading of what is new in it.
ReadsTheTail == right
=============================================================================
