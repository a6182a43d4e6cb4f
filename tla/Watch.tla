------------------------------- MODULE Watch -------------------------------
(***************************************************************************)
(* What the web clients are told of a task that runs                       *)
(* (src/codex/codex-service.ts, applied in src/frontend/src/remote).  A    *)
(* poll compares the last turn of the rollout with what was told before,   *)
(* the entry of #watched, and publishes the difference; every read of the  *)
(* task primes the entry with what it has read.  Here is one task and one  *)
(* of the clients that look at it; all the others do is to read.           *)
(***************************************************************************)
EXTENDS Integers, FiniteSets, Sequences, SequencesExt

CONSTANTS
  MaxTurns,   \* bound: turns
  MaxUsers,   \* bound: messages of the user in a turn
  MaxText,    \* bound: pieces of the agent's message of a turn
  Contents,   \* bound: how many of each a turn may have, one of these in a behaviour
  MaxPrimes   \* bound: reads of the task

ASSUME WatchAssumption ==
  /\ {MaxTurns, MaxUsers, MaxText, MaxPrimes} \subseteq Nat \ {0}
  /\ Contents \subseteq [users : 0..MaxUsers, text : 0..MaxText]

VARIABLES
  turns,    \* the rollout: how many messages and pieces each turn has
  runs,     \* the last turn has not ended
  entry,    \* #watched
  poll,     \* a run of #pollWatchedThreads
  fetched,  \* by who asks: what a read has found and not primed yet
  starter,  \* a startTurn that waits for a turn after this many, or nobody
  view,     \* what the client shows
  overtaken,  \* history: somebody primed the entry with news, or while a poll held it
  passed,   \* history: turns the watcher has left behind without seeing their end
  early,    \* history: turns startTurn itself has told of, before the watcher
  primes,   \* bound: reads so far
  content   \* bound: what a turn may have

watchVars == <<turns, runs, entry, poll, fetched, starter, view, overtaken, passed, early, primes, content>>

Turns == 1..MaxTurns
Messages == Turns \X (1..MaxUsers)
Snapshots == [turns : BoundedSeq([users : 0..MaxUsers, text : 0..MaxText], MaxTurns), runs : BOOLEAN]
Entries == [active : 0..MaxTurns, item : 0..MaxTurns, len : 0..MaxText, users : SUBSET Messages, queue : SUBSET Messages]
Watchers == {"client", "other"}
NoStarter == MaxTurns + 1

WatchTypeOK ==
  /\ Len(turns) <= MaxTurns /\ runs \in BOOLEAN /\ entry \in Entries
  /\ poll.at \in {"idle", "read"} /\ poll.previous \in Entries /\ poll.orphan \in BOOLEAN
  /\ DOMAIN fetched = Watchers /\ starter \in 0..NoStarter
  /\ view.shown \in BOOLEAN /\ view.runs \in 0..MaxTurns /\ view.users \subseteq Messages /\ view.queue \subseteq Messages
  /\ \A t \in Turns : \A i \in DOMAIN view.text[t] : view.text[t][i] \in 1..MaxText
  /\ view.live \subseteq Turns /\ overtaken \in BOOLEAN /\ passed \cup early \subseteq Turns /\ primes \in 0..MaxPrimes /\ content \in Contents

----------------------------------------------------------------------------
(* The last turn of what was read, against what was told of it             *)

Rollout == [turns |-> turns, runs |-> runs]
Unread == [turns |-> <<>>, runs |-> FALSE]
Newest(seen) == Len(seen.turns)
Active(seen) == IF seen.runs THEN Newest(seen) ELSE 0
Users(seen) == IF seen.turns = <<>> THEN 0 ELSE Last(seen.turns).users
Text(seen) == IF seen.turns = <<>> THEN 0 ELSE Last(seen.turns).text

PrimeWatcher(seen) ==
  [active |-> Active(seen), len |-> Text(seen), item |-> IF Text(seen) > 0 THEN Newest(seen) ELSE 0, queue |-> {},
   users |-> {m \in Messages : m[1] <= Newest(seen) /\ m[2] <= seen.turns[m[1]].users}]

Pieces(from, to) == [i \in 1..(to - from) |-> from + i]

\* The second and later messages of a turn that was running are the official
\* client's queue.
NewUsers(seen, previous) == {n \in 1..Users(seen) : <<Newest(seen), n>> \notin previous.users}
Queued(seen, previous, n) == n > 1 /\ previous.active # 0 /\ previous.active = Active(seen)
QueueNow(seen, previous) ==
  previous.queue \cup {<<Newest(seen), n>> : n \in {m \in NewUsers(seen, previous) : Queued(seen, previous, m)}}
EndsWhenAnother(seen, previous) == previous.active # 0 /\ Active(seen) # previous.active \* mutant
Ends(seen, previous) == previous.active # 0 /\ Active(seen) = 0

\* publishThreadChanges: the notifications, in their order, and the entry after them.
Changes(seen, previous) ==
  LET t == Newest(seen)
      known == IF previous.item = t THEN previous.len ELSE 0
      new == NewUsers(seen, previous)
      Says(condition, event) == IF condition THEN <<event>> ELSE <<>>
      Whole == [kind |-> "agent/completed", turn |-> t, text |-> Pieces(0, Text(seen))]
  IN Says(Active(seen) \notin {0, previous.active}, [kind |-> "turn/started", turn |-> t])
     \o Says(\E n \in new : Queued(seen, previous, n),
             [kind |-> "queue", items |-> {m \in QueueNow(seen, previous) : m[1] = t}])
     \o Says(new # {}, [kind |-> "user", items |-> {<<t, n>> : n \in {m \in new : ~Queued(seen, previous, m)}}])
     \o Says(Text(seen) > 0 /\ previous.item # t, [kind |-> "agent/started", turn |-> t])
     \o Says(Text(seen) > known, [kind |-> "delta", turn |-> t, text |-> Pieces(known, Text(seen))])
     \o Says(0 < Text(seen) /\ Text(seen) < known, Whole)
     \o Says(Ends(seen, previous) /\ Text(seen) > 0, Whole)
     \o Says(Ends(seen, previous), [kind |-> "turn/completed", turn |-> t])
     \o Says(Ends(seen, previous) /\ QueueNow(seen, previous) # {}, [kind |-> "queue", items |-> {}])
Told(seen, previous) ==
  [active |-> Active(seen), users |-> previous.users \cup {<<Newest(seen), n>> : n \in 1..Users(seen)},
   queue |-> IF Ends(seen, previous) THEN {} ELSE QueueNow(seen, previous),
   item |-> IF Text(seen) > 0 THEN Newest(seen) ELSE previous.item,
   len |-> IF Text(seen) > 0 THEN Text(seen) ELSE previous.len]

----------------------------------------------------------------------------
(* The page: handleEvent, and renderThread when the task is opened.        *)

NoView == [shown |-> FALSE, runs |-> 0, users |-> {}, queue |-> {}, text |-> [t \in Turns |-> <<>>], live |-> {}]

\* A piece is put after what came live; before the first one, in the place of
\* what the page was opened with.
Shows(v, event) ==
  CASE event.kind = "turn/started" -> [v EXCEPT !.runs = event.turn]
    [] event.kind = "user" -> [v EXCEPT !.users = @ \cup event.items]
    [] event.kind = "queue" -> [v EXCEPT !.queue = event.items]
    [] event.kind = "agent/started" -> [v EXCEPT !.text[event.turn] = <<>>, !.live = @ \ {event.turn}]
    [] event.kind = "delta" ->
         [v EXCEPT !.text[event.turn] = (IF event.turn \in v.live THEN @ ELSE <<>>) \o event.text, !.live = @ \cup {event.turn}]
    [] event.kind = "agent/completed" -> [v EXCEPT !.text[event.turn] = event.text, !.live = @ \ {event.turn}]
    [] event.kind = "turn/completed" -> [v EXCEPT !.runs = 0, !.live = {}]
Opened(seen) ==
  [shown |-> TRUE, runs |-> Active(seen), users |-> PrimeWatcher(seen).users, queue |-> {}, live |-> {},
   text |-> [t \in Turns |-> IF t <= Newest(seen) THEN Pieces(0, seen.turns[t].text) ELSE <<>>]]
Hears(events) == view' = IF view.shown THEN FoldLeft(Shows, view, events) ELSE view

----------------------------------------------------------------------------
(* The official client, and the service                                    *)

Grow(field) ==
  /\ runs /\ Last(turns)[field] < content[field]
  /\ turns' = [turns EXCEPT ![Len(turns)][field] = @ + 1] /\ UNCHANGED runs
TurnStarts == ~runs /\ Len(turns) < MaxTurns /\ turns' = Append(turns, [users |-> 0, text |-> 0]) /\ runs' = TRUE
TurnEnds == runs /\ runs' = FALSE /\ UNCHANGED turns
RolloutGrows ==
  /\ TurnStarts \/ TurnEnds \/ Grow("users") \/ Grow("text")
  /\ UNCHANGED <<entry, poll, fetched, starter, view, overtaken, passed, early, primes>>

\* pollWatchedThreads: the entry is the one in #watched when the read begins; what
\* is read later is no different from a read that began later, but for a prime in
\* between, and then the poll has been overtaken.
PollWatchedThread ==
  /\ poll.at = "idle" /\ primes > 0
  /\ poll' = [poll EXCEPT !.at = "read", !.seen = Rollout]
  /\ UNCHANGED <<turns, runs, entry, fetched, starter, view, overtaken, passed, early, primes>>
LatestOf(e) == Max({0, e.active, e.item} \cup {m[1] : m \in e.users})
Previous == IF poll.orphan THEN poll.previous ELSE entry
Publish ==
  /\ poll.at = "read"
  /\ IF poll.seen.turns = <<>> THEN UNCHANGED <<entry, view, passed>>
     ELSE /\ Hears(Changes(poll.seen, Previous))
          /\ entry' = IF poll.orphan THEN entry ELSE Told(poll.seen, Previous)
          /\ passed' = passed \cup {t \in Turns : t < Newest(poll.seen) /\ (t = Previous.active \/ t > LatestOf(Previous))}
  /\ poll' = [poll EXCEPT !.at = "idle", !.seen = Unread, !.previous = PrimeWatcher(Unread), !.orphan = FALSE]
  /\ UNCHANGED <<turns, runs, fetched, starter, overtaken, early, primes>>

\* Replaces the entry, also under a poll that goes on with the old one.
Primed(seen) ==
  /\ entry' = PrimeWatcher(seen)
  /\ poll' = IF poll.at = "idle" \/ poll.orphan THEN poll ELSE [poll EXCEPT !.orphan = TRUE, !.previous = entry]

\* readThread, resumeThread, startTurn and startTurnWithAppServer: the entry is
\* primed with what was read before the title, or the page, was waited for.
ReadThread(r) ==
  /\ (\A w \in Watchers : fetched[w] = <<>>) /\ primes < MaxPrimes /\ primes' = primes + 1
  /\ fetched' = [fetched EXCEPT ![r] = <<Rollout>>]
  /\ UNCHANGED <<turns, runs, entry, poll, starter, view, overtaken, passed, early>>
OpensThread ==
  /\ fetched["client"] # <<>> /\ fetched' = [fetched EXCEPT !["client"] = <<>>]
  /\ Primed(fetched["client"][1])
  /\ view' = Opened(fetched["client"][1])
  /\ overtaken' = (poll.at # "idle") /\ passed' = {} /\ early' = {}
  /\ UNCHANGED <<turns, runs, starter, primes>>
\* Also a startTurn, which then looks for a turn it has not read, running or not,
\* and tells of it.
AnotherPrimes ==
  /\ fetched["other"] # <<>> /\ fetched' = [fetched EXCEPT !["other"] = <<>>]
  /\ Primed(fetched["other"][1])
  /\ overtaken' = (overtaken \/ poll.at # "idle" \/ entry' # entry)
  /\ starter' \in {starter, Newest(fetched["other"][1])}
  /\ UNCHANGED <<turns, runs, view, passed, early, primes>>
TurnConfirmed ==
  /\ starter < Len(turns) /\ starter' = NoStarter
  /\ Hears(<<[kind |-> "turn/started", turn |-> Len(turns)]>>)
  /\ early' = IF entry.active = Len(turns) THEN early ELSE early \cup {Len(turns)}
  /\ UNCHANGED <<turns, runs, entry, poll, fetched, overtaken, passed, primes>>

WatchInit ==
  /\ turns = <<>> /\ runs = FALSE
  /\ entry = PrimeWatcher(Unread) /\ poll = [at |-> "idle", previous |-> PrimeWatcher(Unread), orphan |-> FALSE, seen |-> Unread]
  /\ fetched = [r \in Watchers |-> <<>>] /\ starter = NoStarter
  /\ view = NoView
  /\ overtaken = FALSE /\ passed = {} /\ early = {} /\ primes = 0 /\ content \in Contents

WatchStep ==
  \/ RolloutGrows \/ PollWatchedThread \/ Publish
  \/ \E r \in Watchers : ReadThread(r)
  \/ OpensThread \/ AnotherPrimes \/ TurnConfirmed
WatchNext == WatchStep /\ UNCHANGED content

----------------------------------------------------------------------------
(* Properties                                                              *)

Contiguous(text) == \A i \in 1..(Len(text) - 1) : text[i + 1] = text[i] + 1

\* The page shows what the watcher has told of the task: the turn that runs, the
\* messages, the agent's words without a gap or a repetition up to the last one
\* told, and all of them once the turn has ended.  The exceptions: another read
\* has primed the watcher with news or under a poll (overtaken), two turns between
\* two polls (passed), the start of a turn told twice (early); and a follow-up
\* shown in the queue is shown nowhere once its turn has ended.
FollowersAreTold ==
  view.shown /\ ~overtaken =>
    /\ view.runs \in {entry.active} \cup early
    /\ \A m \in Messages : m[1] \notin passed => (m \in view.queue <=> m \in entry.queue)
    /\ \A m \in entry.users : m \in view.users \cup view.queue \/ (m[2] > 1 /\ m[1] # entry.active)
    /\ \A t \in Turns \ passed :
         /\ Contiguous(view.text[t])
         /\ view.text[t] # <<>> /\ t = entry.item => Last(view.text[t]) = entry.len
         /\ t <= LatestOf(entry) /\ t # entry.active => view.text[t] = Pieces(0, turns[t].text)
=============================================================================
