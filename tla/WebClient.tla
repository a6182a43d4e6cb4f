----------------------------- MODULE WebClient -----------------------------
(***************************************************************************)
(* A web page that shows one task and sends to it (src/frontend/src/remote *)
(* /remote.js): opening a task with its cached snapshot, making one,       *)
(* sending or queueing what has been typed, and what is done when the      *)
(* answer does not come.  What is sent from the page and told to it keeps  *)
(* its order on one socket; the answers are told in the actions that take  *)
(* them, the events in the actions that cause them.                        *)
(***************************************************************************)
EXTENDS Integers, FiniteSets, Sequences, SequencesExt

CONSTANTS
  Listed,     \* tasks
  Fresh,       \* a task made on the page, until its first message
  Canonical,  \* what it is called from then on
  Nothing,    \* no task
  Texts,      \* what the user types
  MaxGrowth,    \* bound: how far a message of the agent grows
  MaxSends,   \* bound: messages typed
  MaxEvents   \* bound: tasks opened, connections lost and messages from elsewhere

Other == "other" \* what is written elsewhere; nobody types it here
ASSUME WebClientAssumption ==
  /\ Fresh # Canonical /\ {Fresh, Canonical} \cap Listed = {} /\ Nothing \notin Listed \cup {Fresh, Canonical}
  /\ {Other, Nothing} \cap Texts = {}
  /\ {MaxGrowth, MaxSends, MaxEvents} \subseteq Nat

VARIABLES
  tasks,  \* by task: the user's messages, and how far the agent's last one is
  waiting,  \* by task: how many messages are in the server's queue
  online,   \* connectionOnline
  selected, \* selectedThreadId
  pane,     \* the task the messages pane shows, and what of it
  opening,  \* threadOpening: the composer is off
  cached,   \* threadSnapshotCache
  open,     \* the last thread.open of a selectThread that may still take effect
  retry,    \* retryThreadId
  queue,    \* queueSnapshot: of which task, how many, known to be so, or asked for
  send,     \* sendPrompt
  report,   \* history: what the page has said of the last send, and what has come of it
  moved,    \* history: the page has gone to another task during a send or an opening
  stale,    \* history: what was to refresh the page has failed
  counts    \* bounds

pageVars == <<tasks, waiting, online, selected, pane, opening, cached, open, retry, queue, send, report, moved, stale, counts>>

PageTasks == Listed \cup {Fresh, Canonical}
Content == [said : Seq(Texts \cup {Other}), text : 0..MaxGrowth]
NoContent == [said |-> <<>>, text |-> 0]
Unsent == [at |-> "idle", text |-> Other, typed |-> Nothing, task |-> Nothing, reads |-> Nothing,
           sent |-> FALSE, accepted |-> FALSE, lost |-> FALSE, twin |-> FALSE]
SendSteps == {"idle", "usage", "queueing", "starting", "recovering"}

PageTypeOK ==
  /\ \A t \in PageTasks : tasks[t] \in Content /\ waiting[t] \in Nat
  /\ {online, opening, moved, stale} \subseteq BOOLEAN
  /\ {selected, retry, pane.task, queue.task} \subseteq PageTasks \cup {Nothing} /\ pane.seen \in Content
  /\ \A t \in PageTasks : cached[t] = <<>> \/ cached[t][1] \in Content
  /\ open = <<>> \/ (open[1].task \in PageTasks /\ open[1].previous \in PageTasks \cup {Nothing})
  /\ send.at \in SendSteps /\ {send.task, send.reads} \subseteq PageTasks \cup {Nothing}

----------------------------------------------------------------------------
NoPane == [task |-> Nothing, seen |-> NoContent]
NoQueue(task, asked) == [task |-> task, shown |-> 0, known |-> FALSE, asked |-> asked]
NoReport == [outcome |-> "none", right |-> TRUE]
Unnamed == tasks[Canonical].said = <<>>
LastSaid(task) == IF tasks[task].said = <<>> THEN Nothing ELSE Last(tasks[task].said)
Counts(field, max) == counts[field] < max /\ counts' = [counts EXCEPT ![field] = @ + 1]

\* handleEvent: a snapshot of the task is dropped, and the pane follows if it is
\* the selected one.
Becomes(task, new) ==
  /\ tasks' = [tasks EXCEPT ![task] = new]
  /\ cached' = IF online THEN [cached EXCEPT ![task] = <<>>] ELSE cached
  /\ pane' = IF online /\ task = selected /\ pane.task = task THEN [pane EXCEPT !.seen = new] ELSE pane
Says(task, text) == Becomes(task, [tasks[task] EXCEPT !.said = Append(@, text), !.text = 0])
\* broadcastQueue and applyQueueSnapshot.
QueueBecomes(task, n) ==
  /\ waiting' = [waiting EXCEPT ![task] = n]
  /\ queue' = IF online /\ task = selected THEN [queue EXCEPT !.task = task, !.shown = n, !.known = TRUE] ELSE queue

----------------------------------------------------------------------------
(* Tasks, from elsewhere                                                   *)

OtherSays ==
  /\ Counts("events", MaxEvents)
  /\ \E t \in Listed : Says(t, Other)
  /\ UNCHANGED <<waiting, online, selected, opening, open, retry, queue, send, report, moved, stale>>
TextGrows ==
  /\ \E t \in Listed : tasks[t].text < MaxGrowth /\ Becomes(t, [tasks[t] EXCEPT !.text = @ + 1])
  /\ UNCHANGED <<waiting, online, selected, opening, open, retry, queue, send, report, moved, stale, counts>>
QueueServed ==
  /\ \E t \in Listed : waiting[t] > 0 /\ Says(t, Other) /\ QueueBecomes(t, waiting[t] - 1)
  /\ UNCHANGED <<online, selected, opening, open, retry, send, report, moved, stale, counts>>

----------------------------------------------------------------------------
(* selectThread                                                            *)

Opens(task) ==
  /\ selected' = task
  /\ open' = <<[task |-> task, previous |-> selected, had |-> cached[task]]>>
  /\ opening' = (cached[task] = <<>>)
  /\ pane' = IF cached[task] = <<>> THEN NoPane ELSE [task |-> task, seen |-> cached[task][1]]
  /\ queue' = NoQueue(task, cached[task] # <<>>)
  /\ moved' = (send.at # "idle")
SelectThread ==
  /\ online /\ Counts("events", MaxEvents)
  /\ \E t \in Listed \cup (IF Unnamed THEN {} ELSE {Canonical}) : Opens(t)
  /\ UNCHANGED <<tasks, waiting, online, cached, retry, send, report, stale>>

\* Mutant: what is cached is taken to be what there is.
TrustsTheCache(had, seen) == {had = <<>>}
\* threadSnapshotSignature: how many items there are, and when the database says
\* the task was updated, which may be later than a message has grown.
Rerenders(had, seen) ==
  IF had = <<>> \/ Len(had[1].said) # Len(seen.said) THEN {TRUE}
  ELSE IF had[1] = seen THEN {FALSE} ELSE BOOLEAN
ThreadOpened ==
  /\ online /\ open # <<>> /\ (open[1].task = Fresh => Unnamed)
  /\ LET task == open[1].task
         seen == tasks[task]
     IN /\ cached' = [cached EXCEPT ![task] = <<seen>>]
        /\ selected' = task /\ opening' = FALSE /\ open' = <<>>
        /\ \E again \in Rerenders(open[1].had, seen) : pane' = IF again THEN [task |-> task, seen |-> seen] ELSE pane
        /\ queue' = IF open[1].had = <<>> THEN [queue EXCEPT !.asked = TRUE] ELSE queue
  /\ stale' = FALSE
  /\ UNCHANGED <<tasks, waiting, online, retry, send, report, moved, counts>>
ThreadOpenFails ==
  /\ open # <<>> /\ open' = <<>> /\ opening' = FALSE
  /\ retry' = IF online THEN retry ELSE open[1].task
  /\ IF open[1].had # <<>> THEN selected' = open[1].task /\ UNCHANGED <<pane, queue>>
     ELSE selected' = open[1].previous /\ pane' = NoPane /\ queue' = NoQueue(open[1].previous, FALSE)
  /\ stale' = TRUE
  /\ UNCHANGED <<tasks, waiting, online, cached, send, report, moved, counts>>

QueueLoaded ==
  /\ online /\ queue.asked /\ queue.task = selected
  /\ queue' = [queue EXCEPT !.shown = waiting[queue.task], !.known = TRUE, !.asked = FALSE]
  /\ UNCHANGED <<tasks, waiting, online, selected, pane, opening, cached, open, retry, send, report, moved, stale, counts>>
QueueLoadFails ==
  /\ queue.asked /\ queue' = [queue EXCEPT !.asked = FALSE] /\ stale' = TRUE
  /\ UNCHANGED <<tasks, waiting, online, selected, pane, opening, cached, open, retry, send, report, moved, counts>>

\* createThread: the opening of another task that goes on is given up, its
\* composer stays off.
ThreadCreated ==
  /\ online /\ Counts("events", MaxEvents) /\ Unnamed /\ selected # Fresh
  /\ selected' = Fresh /\ open' = <<>> /\ pane' = [task |-> Fresh, seen |-> NoContent]
  /\ queue' = NoQueue(Fresh, TRUE)
  /\ moved' = (opening \/ send.at # "idle")
  /\ UNCHANGED <<tasks, waiting, online, opening, cached, retry, send, report, stale>>

\* The socket: what waits for an answer has failed before there is another one.
Disconnect ==
  /\ online /\ Counts("events", MaxEvents) /\ online' = FALSE
  /\ retry' = IF selected = Nothing THEN retry ELSE selected
  /\ send' = [send EXCEPT !.lost = TRUE]
  /\ UNCHANGED <<tasks, waiting, selected, pane, opening, cached, open, queue, report, moved, stale>>
Reconnect ==
  /\ ~online /\ online' = TRUE /\ open = <<>> /\ send.at = "idle" /\ ~queue.asked
  /\ retry' = Nothing
  /\ IF retry # Nothing THEN Opens(retry) ELSE UNCHANGED <<selected, open, opening, pane, queue, moved>>
  /\ UNCHANGED <<tasks, waiting, cached, send, report, stale, counts>>

----------------------------------------------------------------------------
(* sendPrompt and queuePrompt                                              *)

SendEnds(outcome, right) == send' = Unsent /\ report' = [outcome |-> outcome, right |-> right]

TypePrompt ==
  /\ online /\ send.at = "idle" /\ ~opening /\ selected # Nothing /\ Counts("sends", MaxSends)
  /\ \E text \in Texts :
       send' = [Unsent EXCEPT !.at = "usage", !.text = text, !.typed = selected, !.twin = (LastSaid(selected) = text)]
  /\ report' = NoReport
  /\ UNCHANGED <<tasks, waiting, online, selected, pane, opening, cached, open, retry, queue, moved, stale>>

\* The quota is asked for and the files are uploaded before the task, and whether
\* it runs, is looked at.
NotSent ==
  /\ send.at = "usage" /\ SendEnds("none", TRUE)
  /\ UNCHANGED <<tasks, waiting, online, selected, pane, opening, cached, open, retry, queue, moved, stale, counts>>
SendsPrompt ==
  /\ send.at = "usage"
  /\ \E step \in {"queueing", "starting"} :
       send' = [send EXCEPT !.at = step, !.task = selected, !.sent = online, !.lost = ~online]
  /\ UNCHANGED <<tasks, waiting, online, selected, pane, opening, cached, open, retry, queue, report, moved, stale, counts>>

\* The server: the first message of a new task gives it its name.
Named(task) == IF task = Fresh THEN Canonical ELSE task
TurnAccepted ==
  /\ send.at \in {"starting", "recovering"} /\ send.sent /\ ~send.accepted
  /\ send.task \in Listed \cup {Canonical} \/ (send.task = Fresh /\ Unnamed)
  /\ Says(Named(send.task), send.text) /\ send' = [send EXCEPT !.accepted = TRUE]
  /\ UNCHANGED <<waiting, online, selected, opening, open, retry, queue, report, moved, stale, counts>>
TurnQueued ==
  /\ send.at = "queueing" /\ send.sent /\ ~send.accepted /\ send.task \in Listed
  /\ QueueBecomes(send.task, waiting[send.task] + 1) /\ send' = [send EXCEPT !.accepted = TRUE]
  /\ UNCHANGED <<tasks, online, selected, pane, opening, cached, open, retry, report, moved, stale, counts>>

\* The answer to turn.start takes the page to the task the server names.
TurnStarted ==
  /\ send.at = "starting" /\ send.accepted /\ ~send.lost
  /\ LET task == Named(send.task)
     IN IF task = selected THEN UNCHANGED <<selected, open, pane, queue, stale>>
        ELSE /\ selected' = task /\ open' = <<>> /\ queue' = NoQueue(task, FALSE) /\ stale' = TRUE
             /\ pane' = IF pane.task = send.task THEN [pane EXCEPT !.task = task] ELSE pane
  /\ SendEnds("sent", TRUE)
  /\ UNCHANGED <<tasks, waiting, online, opening, cached, retry, moved, counts>>
QueueConfirmed ==
  /\ send.at = "queueing" /\ send.accepted /\ ~send.lost
  /\ IF send.task = selected THEN QueueBecomes(selected, waiting[selected]) ELSE UNCHANGED <<waiting, queue>>
  /\ SendEnds("sent", TRUE)
  /\ UNCHANGED <<tasks, online, selected, pane, opening, cached, open, retry, moved, stale, counts>>
QueueFails ==
  /\ send.at = "queueing" /\ SendEnds("failed", TRUE)
  /\ UNCHANGED <<tasks, waiting, online, selected, pane, opening, cached, open, retry, queue, moved, stale, counts>>

\* No answer to turn.start, or a refusal: the task that is selected now is read
\* for a trace of the message.
StartFails ==
  /\ send.at = "starting"
  /\ \E refused \in BOOLEAN :
       /\ refused => ~send.accepted
       /\ send' = [send EXCEPT !.at = "recovering", !.reads = selected, !.sent = @ /\ ~refused, !.lost = ~online]
  /\ UNCHANGED <<tasks, waiting, online, selected, pane, opening, cached, open, retry, queue, report, moved, stale, counts>>

\* recoverAcceptedTurn: what was read is shown if its last message is the one.
\* A message the server takes later than this is left out.
RecoverAnswered ==
  /\ send.at = "recovering" /\ ~send.lost /\ send.reads # Nothing /\ (send.reads = Fresh => Unnamed)
  /\ LET task == send.reads
     IN IF LastSaid(task) = send.text
        THEN /\ SendEnds("sent", send.accepted \/ send.twin \/ moved)
             /\ cached' = [cached EXCEPT ![task] = <<tasks[task]>>]
             /\ pane' = [task |-> task, seen |-> tasks[task]]
             /\ queue' = IF queue.task = Nothing THEN queue ELSE [queue EXCEPT !.asked = TRUE]
        ELSE SendEnds("failed", TRUE) /\ UNCHANGED <<cached, pane, queue>>
  /\ UNCHANGED <<tasks, waiting, online, selected, opening, open, retry, moved, stale, counts>>
RecoverFails ==
  /\ send.at = "recovering" /\ SendEnds("failed", TRUE)
  /\ UNCHANGED <<tasks, waiting, online, selected, pane, opening, cached, open, retry, queue, moved, stale, counts>>

----------------------------------------------------------------------------
PageInit ==
  /\ tasks = [t \in PageTasks |-> NoContent] /\ waiting = [t \in PageTasks |-> 0]
  /\ online = TRUE /\ selected = Nothing /\ pane = NoPane /\ opening = FALSE
  /\ cached = [t \in PageTasks |-> <<>>] /\ open = <<>> /\ retry = Nothing
  /\ queue = NoQueue(Nothing, FALSE) /\ send = Unsent /\ report = NoReport
  /\ moved = FALSE /\ stale = FALSE /\ counts = [sends |-> 0, events |-> 0]

PageNext ==
  \/ OtherSays \/ TextGrows \/ QueueServed
  \/ SelectThread \/ ThreadOpened \/ ThreadOpenFails \/ QueueLoaded \/ QueueLoadFails \/ ThreadCreated
  \/ Disconnect \/ Reconnect
  \/ TypePrompt \/ NotSent \/ SendsPrompt \/ TurnAccepted \/ TurnQueued \/ TurnStarted \/ QueueConfirmed
  \/ QueueFails \/ StartFails \/ RecoverAnswered \/ RecoverFails

----------------------------------------------------------------------------
(* As long as the user stays on the task while a message is being sent: the *)
(* pane never shows another task than the selected one, and, once nothing   *)
(* is being opened, no message of it is missing there, whichever cached     *)
(* snapshot it came from and however often the connection was lost; a queue *)
(* that is shown as known is the server's; the message goes to the task it  *)
(* was typed at, and is called sent only when the server has taken it, or   *)
(* the message before it had the same words (selectThread, handleEvent,     *)
(* applyQueueSnapshot, sendPrompt and recoverAcceptedTurn).                 *)
ShownAsIs ==
  ~moved =>
    /\ pane.task \in {selected, Nothing} /\ (opening => open # <<>>)
    /\ online /\ open = <<>> /\ ~stale => pane.task = selected /\ (selected # Nothing => pane.seen.said = tasks[selected].said)
QueueAsIs == queue.known /\ online /\ queue.task = selected => queue.shown = waiting[selected]
SentAsTyped ==
  /\ send.at \in {"queueing", "starting"} /\ ~moved => send.task = send.typed
  /\ report.right
PageTellsTheTruth == ShownAsIs /\ QueueAsIs /\ SentAsTyped
=============================================================================
