----------------------------- MODULE Renderer -----------------------------
(***************************************************************************)
(* How the service operates the page of the official client to send a      *)
(* message (src/codex/codex-service.ts: startTurn, steerTurn, resumeThread;*)
(* src/codex/cdp-client.ts: openThread, prepareTurnMode, attachFiles,      *)
(* submitText).  An operation is a sequence of commands to the one page    *)
(* there is; nothing keeps two operations apart, and every command acts on *)
(* what the page shows when it arrives.                                    *)
(***************************************************************************)
EXTENDS Integers, FiniteSets, Sequences, SequencesExt

CONSTANTS
  MaxOps,     \* bound: requests, numbered as they come; each has its own text and files
  Tasks,      \* the other tasks
  NewTask,    \* the page for a new one
  Inputs,     \* bound: the kinds of requests, with their modes, with files or without
  MaxUpdates  \* bound: what else the tasks do, and the user at the desktop

Kinds == {"send", "new", "steer", "resume"}
ASSUME RendererAssumption ==
  /\ Inputs \subseteq [kind : Kinds, mode : {"normal", "plan"}, files : BOOLEAN]
  /\ NewTask \notin Tasks \cup Nat /\ Nat \cap Tasks = {} /\ Tasks # {} /\ {MaxOps, MaxUpdates} \subseteq Nat

VARIABLES
  page,      \* the task the page shows
  drafts,    \* by page: the texts in its composer, whose files, and who has chosen the plan mode
  op,        \* the operations
  recent,    \* the tasks, the last one updated first
  delivered, \* the messages the tasks have got
  meddled,   \* history: operations that have not had the page to themselves
  updates    \* bound: updates so far

rendererVars == <<page, drafts, op, recent, delivered, meddled, updates>>

OnPage == {"mode", "attach", "wait", "focus", "insert", "submit"}
OpSteps == OnPage \cup {"idle", "navigate", "confirm", "server", "done", "failed"}
Ops == 1..MaxOps \* a task made by one has its name
Pages == Tasks \cup {NewTask} \cup Ops
Slash == 0 \* the text of the command for the plan mode
Blank == [text |-> {}, files |-> {}, plan |-> {}]

RendererTypeOK ==
  /\ page \in Pages
  /\ drafts \in [Pages -> [text : SUBSET (Ops \cup {Slash}), files : SUBSET Ops, plan : SUBSET Ops]]
  /\ \A o \in Ops : op[o].kind \in Kinds /\ op[o].task \in Pages /\ op[o].at \in OpSteps /\ op[o].updated \subseteq Tasks \cup Ops
  /\ \A i \in DOMAIN recent : recent[i] \in Tasks \cup Ops
  /\ \A d \in delivered : d.task \in Tasks \cup Ops /\ d.by \in Ops
  /\ meddled \subseteq Ops /\ updates \in 0..MaxUpdates

----------------------------------------------------------------------------

Sends(o) == op[o].kind \in {"send", "new"}
Target(o) == IF op[o].kind = "new" THEN NewTask ELSE op[o].task
Go(o, step) == [op EXCEPT ![o].at = step]
AtPage == {o \in Ops : op[o].at \in OnPage}
Puts(content) == drafts' = [drafts EXCEPT ![page] = content] /\ UNCHANGED meddled
Got(task) == {d \in delivered : d.task = task}

\* Only before the text is submitted is there another way, app-server.
FallsBack(o) == op' = Go(o, IF op[o].kind = "steer" THEN "failed" ELSE "server")

\* A message for the page for a new task makes the task.
Updated(ops, task) == [q \in Ops |-> [ops[q] EXCEPT !.updated = IF ops[q].at = "idle" THEN @ ELSE @ \cup {task}]]
Deliver(o, task, content, ops) ==
  /\ delivered' = delivered \cup {[by |-> o, task |-> task, text |-> content.text, files |-> content.files, plan |-> content.plan]}
  /\ recent' = <<task>> \o SelectSeq(recent, LAMBDA t : t # task)
  /\ op' = Updated(ops, task)

----------------------------------------------------------------------------
(* The steps of an operation                                               *)

Begin(o) ==
  /\ op[o].at = "idle" /\ \A q \in 1..(o - 1) : op[q].at # "idle"
  /\ \E input \in Inputs, task \in Tasks :
       /\ input.kind = "new" => task = CHOOSE t \in Tasks : TRUE
       /\ op' = [op EXCEPT ![o] = [kind |-> input.kind, task |-> task, mode |-> input.mode, files |-> input.files, at |-> "navigate",
                                known |-> Got(task), newest |-> Head(recent), updated |-> {}, result |-> NewTask]]
  /\ UNCHANGED <<page, drafts, recent, delivered, meddled>>

FirstStep(o) ==
  IF op[o].kind = "resume" THEN "done"
  ELSE IF op[o].mode = "plan" THEN "mode" ELSE IF op[o].files THEN "attach" ELSE "focus"
\* navigateWithCdp clicks the task's row, if there is one; waitForComposer.
Navigate(o) ==
  /\ op[o].at = "navigate"
  /\ page' = Target(o) /\ op' = Go(o, FirstStep(o))
  /\ meddled' = IF AtPage = {} THEN meddled ELSE meddled \cup AtPage \cup {o}
  /\ UNCHANGED <<drafts, recent, delivered>>
NavigateFails(o) ==
  /\ op[o].at = "navigate"
  /\ page' \in {page, Target(o)} /\ meddled' = meddled \cup AtPage /\ UNCHANGED drafts /\ FallsBack(o)
  /\ UNCHANGED <<recent, delivered>>

\* prepareTurnMode types the command and chooses what it brings up; if nothing
\* comes up, what has been typed stays.
PrepareTurnMode(o) ==
  /\ op[o].at = "mode"
  /\ \/ /\ Puts([drafts[page] EXCEPT !.text = {}, !.plan = @ \cup {o}])
        /\ op' = Go(o, IF op[o].files THEN "attach" ELSE "focus")
     \/ Puts([drafts[page] EXCEPT !.text = {Slash}]) /\ FallsBack(o)
     \/ UNCHANGED <<drafts, meddled>> /\ FallsBack(o)
  /\ UNCHANGED <<page, recent, delivered>>

\* attachFiles: the page takes the files, and their names show.
AttachFiles(o) ==
  /\ op[o].at = "attach"
  /\ \/ Puts([drafts[page] EXCEPT !.files = @ \cup {o}]) /\ op' = Go(o, "wait")
     \/ UNCHANGED <<drafts, meddled>> /\ FallsBack(o)
  /\ UNCHANGED <<page, recent, delivered>>
FilesAttached(o) ==
  /\ op[o].at = "wait" /\ UNCHANGED <<page, drafts, recent, delivered, meddled>>
  /\ \/ o \in drafts[page].files /\ op' = Go(o, "focus")
     \/ FallsBack(o)

\* submitText: the text replaces what the composer holds, and the button is
\* clicked; the page may have no composer, or say that the quota is used up.
Focus(o) ==
  /\ op[o].at = "focus"
  /\ \/ Puts([drafts[page] EXCEPT !.text = {}]) /\ op' = Go(o, "insert")
     \/ UNCHANGED <<drafts, meddled>> /\ op' = Go(o, "failed")
  /\ UNCHANGED <<page, recent, delivered>>
InsertText(o) ==
  /\ op[o].at = "insert" /\ Puts([drafts[page] EXCEPT !.text = @ \cup {o}]) /\ op' = Go(o, "submit")
  /\ UNCHANGED <<page, recent, delivered>>
AfterSubmit(o) == IF Sends(o) THEN "confirm" ELSE "done"
\* Mutant: a new task keeps the name of the page it was written on.
StaysPending(o) == page
Made(o) == IF page = NewTask THEN o ELSE page
\* Mutant: what has failed after the click is tried the other way, too.
FailsOver(o) == IF Sends(o) THEN "server" ELSE "failed"
\* Once the text is submitted an error ends the request.
Ambiguous(o) == "failed"
Submit(o) ==
  /\ op[o].at = "submit" /\ drafts[page] # Blank
  /\ \E step \in {AfterSubmit(o), Ambiguous(o)} : Deliver(o, Made(o), drafts[page], Go(o, step))
  /\ Puts(Blank) /\ page' = Made(o)
SubmitDoesNothing(o) ==
  /\ op[o].at = "submit" /\ UNCHANGED <<page, drafts, recent, delivered, meddled>>
  /\ \E step \in {AfterSubmit(o), Ambiguous(o)} : op' = Go(o, step)

\* waitForActiveTurn: any turn the task did not have when the request came;
\* waitForNewThread: the task updated last, but for the one that had been before.
Candidates(o) == {n \in DOMAIN recent : recent[n] \in op[o].updated /\ recent[n] # op[o].newest}
Confirmed(o, task) == op' = [op EXCEPT ![o].at = "done", ![o].result = task]
Confirm(o) ==
  /\ op[o].at = "confirm"
  /\ \/ op[o].kind = "send" /\ Got(op[o].task) \ op[o].known # {} /\ Confirmed(o, op[o].task)
     \/ op[o].kind = "new" /\ \E n \in Candidates(o) : (\A k \in Candidates(o) : n <= k) /\ Confirmed(o, recent[n])
     \/ op' = Go(o, Ambiguous(o))
  /\ UNCHANGED <<page, drafts, recent, delivered, meddled>>

\* startTurnWithAppServer, and thread/resume; an answer may get lost.
AskServer(o) ==
  /\ op[o].at = "server" /\ UNCHANGED <<page, drafts, meddled>>
  /\ LET task == IF op[o].kind = "new" THEN o ELSE op[o].task
         content == [text |-> {o}, files |-> IF op[o].files THEN {o} ELSE {}, plan |-> IF op[o].mode = "plan" THEN {o} ELSE {}]
     IN \/ /\ Sends(o)
           /\ \/ Deliver(o, task, content, [op EXCEPT ![o].at = "done", ![o].result = task])
              \/ Deliver(o, task, content, Go(o, "failed"))
        \/ ~Sends(o) /\ op' = Go(o, "done") /\ UNCHANGED <<recent, delivered>>
        \/ op' = Go(o, "failed") /\ UNCHANGED <<recent, delivered>>

\* A turn of another task goes on, or the user at the desktop turns the page.
TaskUpdated ==
  /\ updates < MaxUpdates /\ updates' = updates + 1
  /\ \E task \in Tasks :
       /\ recent' = <<task>> \o SelectSeq(recent, LAMBDA t : t # task) /\ op' = Updated(op, task)
  /\ UNCHANGED <<page, drafts, delivered, meddled>>
UserTurnsPage ==
  /\ updates < MaxUpdates /\ updates' = updates + 1
  /\ page' \in Tasks \ {page} /\ meddled' = meddled \cup AtPage
  /\ UNCHANGED <<drafts, op, recent, delivered>>

RendererInit ==
  /\ page = CHOOSE t \in Tasks : TRUE
  /\ drafts = [p \in Pages |-> Blank]
  /\ op = [o \in Ops |-> [kind |-> "send", task |-> NewTask, mode |-> "normal", files |-> FALSE, at |-> "idle",
                          known |-> {}, newest |-> NewTask, updated |-> {}, result |-> NewTask]]
  /\ recent = SetToSeq(Tasks) /\ delivered = {} /\ meddled = {} /\ updates = 0

OpStep ==
  \E o \in Ops :
    \/ Begin(o) \/ Navigate(o) \/ NavigateFails(o) \/ PrepareTurnMode(o) \/ AttachFiles(o) \/ FilesAttached(o)
    \/ Focus(o) \/ InsertText(o) \/ Submit(o) \/ SubmitDoesNothing(o) \/ Confirm(o) \/ AskServer(o)
RendererNext == (OpStep /\ UNCHANGED updates) \/ TaskUpdated \/ UserTurnsPage

----------------------------------------------------------------------------
(* Properties                                                              *)

\* A text is delivered once, whatever fails and whichever of the two ways is
\* taken.  Where nobody else has used the page, a message is of its operation
\* alone, in the task and the mode and with the files meant, unless an operation
\* that failed has left its own in the composer; and the task a new one is taken for is
\* the one that was made, unless another task went on in the meantime.
SubmittedWhereMeant ==
  /\ \A o \in Ops : Cardinality({d \in delivered : o \in d.text}) <= 1
  /\ \A d \in {e \in delivered : e.by \notin meddled} :
       /\ d.text = {d.by} /\ d.task = (IF op[d.by].kind = "new" THEN d.by ELSE op[d.by].task)
       /\ (d.by \in d.files) = op[d.by].files /\ (d.by \in d.plan) = (op[d.by].mode = "plan")
       /\ \A q \in (d.files \cup d.plan) \ {d.by} : op[q].at \notin OnPage
  /\ \A o \in {p \in Ops \ meddled : op[p].at = "done" /\ op[p].kind = "new"} :
       op[o].updated \subseteq {o} => op[o].result = o /\ Got(o) # {}
=============================================================================
