----------------------------- MODULE PageProofs -----------------------------
(***************************************************************************)
(* Theorems about the two pages of Client, for any number of operations,   *)
(* tasks, texts and mishaps: what the service sends by the page of the     *)
(* official client (Renderer), and what the web page shows (WebClient).    *)
(***************************************************************************)
EXTENDS Client, SequenceTheorems, FiniteSetTheorems, TLAPS

\* A step of the whole is a step of a page, or leaves it alone.
LEMMA PageSteps ==
  ASSUME [Next]_vars
  PROVE  (RendererNext \/ UNCHANGED rendererVars) /\ (PageNext \/ UNCHANGED pageVars)
  BY DEF Next, vars

-----------------------------------------------------------------------------
(* The page of the official client (Renderer)                              *)

\* What an operation holds.
Shape(ops) ==
  /\ ops = [o \in Ops |-> ops[o]]
  /\ \A o \in Ops : ops[o] = [kind |-> ops[o].kind, task |-> ops[o].task, mode |-> ops[o].mode, files |-> ops[o].files,
                              at |-> ops[o].at, known |-> ops[o].known, newest |-> ops[o].newest,
                              updated |-> ops[o].updated, result |-> ops[o].result]
Drafted == [text : SUBSET (Ops \cup {Slash}), files : SUBSET Ops, plan : SUBSET Ops]
PageTyped ==
  /\ page \in Pages /\ drafts \in [Pages -> Drafted]
  /\ \A o \in Ops : /\ op[o].kind \in Kinds /\ op[o].mode \in {"normal", "plan"} /\ op[o].files \in BOOLEAN
                    /\ op[o].at \in OpSteps /\ (op[o].at # "idle" => op[o].task \in Tasks)
  /\ \A d \in delivered : d.by \in Ops /\ d.text \subseteq Ops \cup {Slash} /\ d.files \subseteq Ops /\ d.plan \subseteq Ops

\* A text is in one place, and in none before it has been inserted.
Untyped == {"idle", "navigate", "mode", "attach", "wait", "focus", "insert", "server"}
InOnePlace ==
  \A o \in Ops :
    /\ op[o].at \in Untyped => (\A p \in Pages : o \notin drafts[p].text) /\ (\A d \in delivered : o \notin d.text)
    /\ \A p, q \in Pages : o \in drafts[p].text /\ o \in drafts[q].text => p = q
    /\ \A d \in delivered, p \in Pages : o \in d.text => o \notin drafts[p].text
    /\ \A d, e \in delivered : o \in d.text /\ o \in e.text => d = e
\* Nothing is of an operation that has not come to the page.
NotBefore ==
  \A o \in Ops : op[o].at \in {"idle", "navigate"} =>
    /\ \A p \in Pages : o \notin drafts[p].files \cup drafts[p].plan
    /\ \A d \in delivered : o # d.by /\ o \notin d.files \cup d.plan
\* What an operation that has the page to itself finds there.
FoundBy(o) ==
  /\ AtPage \subseteq {o} /\ page = Target(o)
  /\ op[o].at = "mode" => op[o].mode = "plan" /\ o \notin drafts[page].files
  /\ op[o].at # "mode" => (o \in drafts[page].plan <=> op[o].mode = "plan")
  /\ op[o].at \in {"attach", "wait"} => op[o].files = TRUE
  /\ op[o].at \in {"focus", "insert", "submit"} => (o \in drafts[page].files <=> op[o].files = TRUE)
  /\ op[o].at = "insert" => drafts[page].text = {}
  /\ op[o].at = "submit" => drafts[page].text = {o}
ByItself == \A o \in AtPage \ meddled : FoundBy(o)
\* A message of an operation that has had the page to itself.
Meant(d) ==
  /\ d.text = {d.by} /\ d.task = (IF op[d.by].kind = "new" THEN d.by ELSE op[d.by].task)
  /\ (d.by \in d.files <=> op[d.by].files = TRUE) /\ (d.by \in d.plan <=> op[d.by].mode = "plan")
  /\ \A q \in (d.files \cup d.plan) \ {d.by} : op[q].at \notin OnPage
AsMeant == \A d \in delivered : d.by \notin meddled => Meant(d)
\* A task that was made has its message, and is the one a request for a new one gets.
MadeByMessage == \A o, q \in Ops : q \in op[o].updated => Got(q) # {}
TakenFor ==
  \A o \in Ops : op[o].at = "done" /\ op[o].kind = "new" /\ op[o].updated \subseteq {o} => op[o].result = o /\ Got(o) # {}
RendererInv ==
  Shape(op) /\ PageTyped /\ InOnePlace /\ NotBefore /\ ByItself /\ AsMeant /\ MadeByMessage /\ TakenFor

-----------------------------------------------------------------------------
(* What a step does to the operations                                      *)

\* The operation o has got to this step, the rest of what the page is used for
\* is the same.
Moved(o, step) ==
  \A q \in Ops :
    /\ op'[q].kind = op[q].kind /\ op'[q].task = op[q].task /\ op'[q].mode = op[q].mode /\ op'[q].files = op[q].files
    /\ op'[q].at = (IF q = o THEN step ELSE op[q].at)
SameNews == \A q \in Ops : op'[q].updated = op[q].updated
News(task) == \A q \in Ops : op'[q].updated \subseteq op[q].updated \cup {task} /\ op[q].updated \subseteq op'[q].updated
SameResults == \A q \in Ops : op'[q].result = op[q].result

LEMMA GoIs ==
  ASSUME Shape(op), NEW o \in Ops, NEW step
  PROVE  /\ Shape(Go(o, step))
         /\ \A q \in Ops :
              /\ Go(o, step)[q].kind = op[q].kind /\ Go(o, step)[q].task = op[q].task
              /\ Go(o, step)[q].mode = op[q].mode /\ Go(o, step)[q].files = op[q].files
              /\ Go(o, step)[q].updated = op[q].updated /\ Go(o, step)[q].result = op[q].result
              /\ Go(o, step)[q].at = (IF q = o THEN step ELSE op[q].at)
<1> DEFINE g == Go(o, step)
<1>1. g = [q \in Ops |-> IF q = o THEN [op[o] EXCEPT !.at = step] ELSE op[q]]
  BY DEF Shape, Go
<1>2. op[o] = [kind |-> op[o].kind, task |-> op[o].task, mode |-> op[o].mode, files |-> op[o].files,
               at |-> op[o].at, known |-> op[o].known, newest |-> op[o].newest,
               updated |-> op[o].updated, result |-> op[o].result]
  BY DEF Shape
<1>3. [op[o] EXCEPT !.at = step] =
        [kind |-> op[o].kind, task |-> op[o].task, mode |-> op[o].mode, files |-> op[o].files,
         at |-> step, known |-> op[o].known, newest |-> op[o].newest, updated |-> op[o].updated, result |-> op[o].result]
  BY <1>2
<1>4. \A q \in Ops : g[q] = IF q = o THEN [op[o] EXCEPT !.at = step] ELSE op[q]
  BY <1>1
<1> HIDE DEF g
<1>5. g = [q \in Ops |-> g[q]]
  BY <1>1, <1>4
<1>6. \A q \in Ops :
        g[q] = [kind |-> g[q].kind, task |-> g[q].task, mode |-> g[q].mode, files |-> g[q].files, at |-> g[q].at,
                known |-> g[q].known, newest |-> g[q].newest, updated |-> g[q].updated, result |-> g[q].result]
  BY <1>3, <1>4 DEF Shape
<1>7. \A q \in Ops : /\ g[q].kind = op[q].kind /\ g[q].task = op[q].task /\ g[q].mode = op[q].mode
                     /\ g[q].files = op[q].files /\ g[q].updated = op[q].updated /\ g[q].result = op[q].result
  BY <1>3, <1>4
<1>8. \A q \in Ops : g[q].at = (IF q = o THEN step ELSE op[q].at)
  BY <1>3, <1>4
<1> QED
  BY <1>5, <1>6, <1>7, <1>8 DEF g, Shape

LEMMA WentStep ==
  ASSUME Shape(op), NEW o \in Ops, NEW step, op' = Go(o, step)
  PROVE  Shape(op)' /\ Moved(o, step) /\ SameNews /\ SameResults
<1>1. Shape(op')
  BY GoIs
<1>2. Shape(op)'
  BY <1>1 DEF Shape, Ops
<1> QED
  BY <1>2, GoIs DEF Moved, SameNews, SameResults

LEMMA UpdatedIs ==
  ASSUME NEW ops, Shape(ops), NEW task
  PROVE  /\ Shape(Updated(ops, task))
         /\ \A q \in Ops :
              /\ Updated(ops, task)[q].kind = ops[q].kind /\ Updated(ops, task)[q].task = ops[q].task
              /\ Updated(ops, task)[q].mode = ops[q].mode /\ Updated(ops, task)[q].files = ops[q].files
              /\ Updated(ops, task)[q].at = ops[q].at /\ Updated(ops, task)[q].result = ops[q].result
              /\ Updated(ops, task)[q].updated \subseteq ops[q].updated \cup {task}
              /\ ops[q].updated \subseteq Updated(ops, task)[q].updated
<1> DEFINE g == Updated(ops, task)
           new(q) == IF ops[q].at = "idle" THEN ops[q].updated ELSE ops[q].updated \cup {task}
<1>1. \A q \in Ops : g[q] = [ops[q] EXCEPT !.updated = new(q)]
  BY DEF Updated
<1>2. g = [q \in Ops |-> g[q]]
  BY DEF Updated
<1> HIDE DEF g, new
<1>3. \A q \in Ops :
        ops[q] = [kind |-> ops[q].kind, task |-> ops[q].task, mode |-> ops[q].mode, files |-> ops[q].files,
                  at |-> ops[q].at, known |-> ops[q].known, newest |-> ops[q].newest,
                  updated |-> ops[q].updated, result |-> ops[q].result]
  BY DEF Shape
<1>4. \A q \in Ops :
        g[q] = [kind |-> ops[q].kind, task |-> ops[q].task, mode |-> ops[q].mode, files |-> ops[q].files,
                at |-> ops[q].at, known |-> ops[q].known, newest |-> ops[q].newest,
                updated |-> new(q), result |-> ops[q].result]
  BY <1>1, <1>3
<1>5. ASSUME NEW q \in Ops
      PROVE  /\ g[q].kind = ops[q].kind /\ g[q].task = ops[q].task /\ g[q].mode = ops[q].mode
             /\ g[q].files = ops[q].files /\ g[q].at = ops[q].at /\ g[q].result = ops[q].result
             /\ g[q].updated = new(q) /\ g[q].known = ops[q].known /\ g[q].newest = ops[q].newest
  <2>1. g[q] = [kind |-> ops[q].kind, task |-> ops[q].task, mode |-> ops[q].mode, files |-> ops[q].files,
                at |-> ops[q].at, known |-> ops[q].known, newest |-> ops[q].newest,
                updated |-> new(q), result |-> ops[q].result]
    BY <1>4
  <2> QED
    BY <2>1
<1>6. \A q \in Ops :
        g[q] = [kind |-> g[q].kind, task |-> g[q].task, mode |-> g[q].mode, files |-> g[q].files, at |-> g[q].at,
                known |-> g[q].known, newest |-> g[q].newest, updated |-> g[q].updated, result |-> g[q].result]
  <2> TAKE q \in Ops
  <2>1. g[q] = [kind |-> ops[q].kind, task |-> ops[q].task, mode |-> ops[q].mode, files |-> ops[q].files,
                at |-> ops[q].at, known |-> ops[q].known, newest |-> ops[q].newest,
                updated |-> new(q), result |-> ops[q].result]
    BY <1>4
  <2> QED
    BY <1>5, <2>1
<1>7. \A q \in Ops : new(q) \subseteq ops[q].updated \cup {task} /\ ops[q].updated \subseteq new(q)
  BY DEF new
<1> QED
  BY <1>2, <1>5, <1>6, <1>7 DEF g, Shape

LEMMA UpdatedStep ==
  ASSUME NEW task, op' = Updated(op, task), Shape(op)
  PROVE  /\ Shape(op)' /\ News(task) /\ SameResults
         /\ \A q \in Ops : /\ op'[q].kind = op[q].kind /\ op'[q].task = op[q].task /\ op'[q].mode = op[q].mode
                           /\ op'[q].files = op[q].files /\ op'[q].at = op[q].at
<1>1. Shape(op')
  BY UpdatedIs
<1>2. Shape(op)'
  BY <1>1 DEF Shape, Ops
<1> QED
  BY <1>2, UpdatedIs DEF News, SameResults

LEMMA WentUpdated ==
  ASSUME Shape(op), NEW o \in Ops, NEW step, NEW task, op' = Updated(Go(o, step), task)
  PROVE  Shape(op)' /\ Moved(o, step) /\ News(task) /\ SameResults
<1> DEFINE g == Go(o, step)
<1>1. /\ Shape(g)
      /\ \A q \in Ops :
              /\ g[q].kind = op[q].kind /\ g[q].task = op[q].task
              /\ g[q].mode = op[q].mode /\ g[q].files = op[q].files
              /\ g[q].updated = op[q].updated /\ g[q].result = op[q].result
              /\ g[q].at = (IF q = o THEN step ELSE op[q].at)
  BY GoIs
<1>2. op' = Updated(g, task)
  OBVIOUS
<1> HIDE DEF g
<1>3. Shape(op')
  BY <1>1, <1>2, UpdatedIs
<1>4. Shape(op)'
  BY <1>3 DEF Shape, Ops
<1>5. /\ \A q \in Ops :
              /\ op'[q].kind = g[q].kind /\ op'[q].task = g[q].task
              /\ op'[q].mode = g[q].mode /\ op'[q].files = g[q].files
              /\ op'[q].at = g[q].at /\ op'[q].result = g[q].result
              /\ op'[q].updated \subseteq g[q].updated \cup {task}
              /\ g[q].updated \subseteq op'[q].updated
  BY <1>1, <1>2, UpdatedIs
<1>6. Moved(o, step)
  BY <1>1, <1>5 DEF Moved
<1>7. News(task) /\ SameResults
  BY <1>1, <1>5 DEF News, SameResults
<1> QED
  BY <1>4, <1>6, <1>7

\* A request is answered with this task.
Results(o, task) == \A q \in Ops : op'[q].result = (IF q = o THEN task ELSE op[q].result)
WithResult(o, task) == [op EXCEPT ![o].at = "done", ![o].result = task]
ResultOnly(o, task, ops, q) ==
  /\ ops[q].kind = op[q].kind /\ ops[q].task = op[q].task /\ ops[q].mode = op[q].mode /\ ops[q].files = op[q].files
  /\ ops[q].updated = op[q].updated /\ ops[q].at = (IF q = o THEN "done" ELSE op[q].at)
  /\ ops[q].result = (IF q = o THEN task ELSE op[q].result)

LEMMA ConfirmedIs ==
  ASSUME Shape(op), NEW o \in Ops, NEW task
  PROVE  /\ Shape(WithResult(o, task))
         /\ \A q \in Ops : ResultOnly(o, task, WithResult(o, task), q)
<1> DEFINE g == WithResult(o, task)
           done == [[op[o] EXCEPT !.at = "done"] EXCEPT !.result = task]
<1>1. \A q \in Ops : g[q] = IF q = o THEN done ELSE op[q]
  BY DEF Shape, WithResult
<1>2. g = [q \in Ops |-> g[q]]
  BY DEF Shape, WithResult
<1>3. op[o] = [kind |-> op[o].kind, task |-> op[o].task, mode |-> op[o].mode, files |-> op[o].files,
               at |-> op[o].at, known |-> op[o].known, newest |-> op[o].newest,
               updated |-> op[o].updated, result |-> op[o].result]
  BY DEF Shape
<1> DEFINE put == [op[o] EXCEPT !.at = "done"]
<1>10. put =
        [kind |-> op[o].kind, task |-> op[o].task, mode |-> op[o].mode, files |-> op[o].files, at |-> "done",
         known |-> op[o].known, newest |-> op[o].newest, updated |-> op[o].updated, result |-> op[o].result]
  BY <1>3
<1>11. done = [put EXCEPT !.result = task]
  OBVIOUS
<1> HIDE DEF put, done
<1>4. done =
        [kind |-> op[o].kind, task |-> op[o].task, mode |-> op[o].mode, files |-> op[o].files, at |-> "done",
         known |-> op[o].known, newest |-> op[o].newest, updated |-> op[o].updated, result |-> task]
  BY <1>10, <1>11
<1> HIDE DEF g, done
<1>5. /\ done.kind = op[o].kind /\ done.task = op[o].task /\ done.mode = op[o].mode /\ done.files = op[o].files
      /\ done.updated = op[o].updated /\ done.at = "done" /\ done.result = task
  BY <1>4
<1>6. \A q \in Ops :
        g[q] = [kind |-> g[q].kind, task |-> g[q].task, mode |-> g[q].mode, files |-> g[q].files, at |-> g[q].at,
                known |-> g[q].known, newest |-> g[q].newest, updated |-> g[q].updated, result |-> g[q].result]
  BY <1>1, <1>4 DEF Shape
<1>7. \A q \in Ops : /\ g[q].kind = op[q].kind /\ g[q].task = op[q].task /\ g[q].mode = op[q].mode
                     /\ g[q].files = op[q].files /\ g[q].updated = op[q].updated
  BY <1>1, <1>5
<1>8. \A q \in Ops : /\ g[q].at = (IF q = o THEN "done" ELSE op[q].at)
                     /\ g[q].result = (IF q = o THEN task ELSE op[q].result)
  BY <1>1, <1>5
<1>9. Shape(g)
  BY <1>2, <1>6 DEF Shape
<1> QED
  BY <1>7, <1>8, <1>9 DEF g, ResultOnly

LEMMA ConfirmedStep ==
  ASSUME Shape(op), NEW o \in Ops, NEW task, Confirmed(o, task)
  PROVE  Shape(op)' /\ Moved(o, "done") /\ SameNews /\ Results(o, task)
<1> DEFINE g == WithResult(o, task)
<1>1. /\ Shape(g)
      /\ \A q \in Ops :
           /\ g[q].kind = op[q].kind /\ g[q].task = op[q].task /\ g[q].mode = op[q].mode /\ g[q].files = op[q].files
           /\ g[q].updated = op[q].updated /\ g[q].at = (IF q = o THEN "done" ELSE op[q].at)
           /\ g[q].result = (IF q = o THEN task ELSE op[q].result)
  BY ConfirmedIs DEF ResultOnly
<1>2. op' = g
  BY DEF Confirmed, WithResult
<1> HIDE DEF g
<1>3. Shape(op)'
  BY <1>1, <1>2 DEF Shape, Ops
<1> QED
  BY <1>1, <1>2, <1>3 DEF Moved, SameNews, Results

\* The same, of a task that has got a message for it.
LEMMA ConfirmedUpdated ==
  ASSUME Shape(op), NEW o \in Ops, NEW task, op' = Updated(WithResult(o, task), task)
  PROVE  Shape(op)' /\ Moved(o, "done") /\ News(task) /\ Results(o, task)
<1> DEFINE g == WithResult(o, task)
<1>1. /\ Shape(g)
      /\ \A q \in Ops :
           /\ g[q].kind = op[q].kind /\ g[q].task = op[q].task /\ g[q].mode = op[q].mode /\ g[q].files = op[q].files
           /\ g[q].updated = op[q].updated /\ g[q].at = (IF q = o THEN "done" ELSE op[q].at)
           /\ g[q].result = (IF q = o THEN task ELSE op[q].result)
  BY ConfirmedIs DEF ResultOnly
<1>2. op' = Updated(g, task)
  OBVIOUS
<1> HIDE DEF g
<1>3. Shape(op)'
  <2>1. Shape(op')
    BY <1>1, <1>2, UpdatedIs
  <2> QED
    BY <2>1 DEF Shape, Ops
<1>4. \A q \in Ops :
        /\ op'[q].kind = g[q].kind /\ op'[q].task = g[q].task
        /\ op'[q].mode = g[q].mode /\ op'[q].files = g[q].files
        /\ op'[q].at = g[q].at /\ op'[q].result = g[q].result
        /\ op'[q].updated \subseteq g[q].updated \cup {task}
        /\ g[q].updated \subseteq op'[q].updated
  <2>1. Shape(g)
    BY <1>1
  <2> QED
    BY <1>2, <2>1, UpdatedIs
<1>5. Moved(o, "done")
  <2> SUFFICES ASSUME NEW q \in Ops
               PROVE  /\ op'[q].kind = op[q].kind /\ op'[q].task = op[q].task
                      /\ op'[q].mode = op[q].mode /\ op'[q].files = op[q].files
                      /\ op'[q].at = (IF q = o THEN "done" ELSE op[q].at)
    BY DEF Moved
  <2>1. op'[q].kind = op[q].kind /\ op'[q].task = op[q].task
    BY <1>1, <1>4
  <2>2. op'[q].mode = op[q].mode /\ op'[q].files = op[q].files
    BY <1>1, <1>4
  <2>3. op'[q].at = (IF q = o THEN "done" ELSE op[q].at)
    BY <1>1, <1>4
  <2> QED
    BY <2>1, <2>2, <2>3
<1>6. News(task) /\ Results(o, task)
  BY <1>1, <1>4 DEF News, Results
<1> QED
  BY <1>3, <1>5, <1>6

LEMMA PageNames ==
  /\ NewTask \notin Ops \cup Tasks /\ Tasks \cap Ops = {} /\ Slash \notin Ops
  /\ Tasks \subseteq Pages /\ NewTask \in Pages /\ Ops \subseteq Pages
<1>1. Ops \subseteq Nat /\ Slash \notin Ops
  BY RendererAssumption DEF Ops, Slash
<1> QED
  BY <1>1, RendererAssumption DEF Pages

\* A step that leaves the composers alone.
LEMMA RestKept ==
  ASSUME RendererInv, NEW o \in Ops, NEW step \in OpSteps \ {"idle", "navigate"}, Moved(o, step), UNCHANGED <<drafts, delivered>>,
         page' \in Pages, meddled \subseteq meddled', op[o].at # "idle",
         op[o].at \in Untyped \/ step \notin Untyped, op[o].at \in OnPage \cup {"navigate"} \/ step \notin OnPage
  PROVE  PageTyped' /\ InOnePlace' /\ NotBefore' /\ AsMeant'
<1>1. PageTyped'
  <2>1. drafts' \in [Pages -> Drafted]'
    BY DEF RendererInv, PageTyped, Drafted, Pages, Ops, Slash
  <2>2. \A q \in Ops : /\ op'[q].kind \in Kinds /\ op'[q].mode \in {"normal", "plan"} /\ op'[q].files \in BOOLEAN
                       /\ op'[q].at \in OpSteps
    BY DEF RendererInv, PageTyped, Moved
  <2>3. \A q \in Ops : op'[q].at # "idle" => op'[q].task \in Tasks
    BY DEF RendererInv, PageTyped, Moved
  <2>4. \A d \in delivered' : d.by \in Ops /\ d.text \subseteq Ops \cup {Slash} /\ d.files \subseteq Ops /\ d.plan \subseteq Ops
    BY DEF RendererInv, PageTyped
  <2> QED
    BY <2>1, <2>2, <2>3, <2>4 DEF PageTyped
<1>2. InOnePlace'
  <2>1. \A q \in Ops : op'[q].at \in Untyped => op[q].at \in Untyped
    BY DEF Moved
  <2> QED
    BY <2>1 DEF RendererInv, InOnePlace
<1>3. NotBefore'
  <2>1. \A q \in Ops : op'[q].at \in {"idle", "navigate"} => op[q].at \in {"idle", "navigate"}
    BY DEF Moved
  <2> QED
    BY <2>1 DEF RendererInv, NotBefore
<1>4. AsMeant'
  <2> SUFFICES ASSUME NEW d \in delivered, d.by \notin meddled PROVE Meant(d)'
    BY DEF AsMeant
  <2>1. Meant(d) /\ d.by \in Ops /\ d.files \subseteq Ops /\ d.plan \subseteq Ops
    BY DEF RendererInv, AsMeant, PageTyped
  <2>2. /\ op'[d.by].kind = op[d.by].kind /\ op'[d.by].task = op[d.by].task
        /\ op'[d.by].files = op[d.by].files /\ op'[d.by].mode = op[d.by].mode
    BY <2>1 DEF Moved
  <2>3. ASSUME NEW q \in (d.files \cup d.plan) \ {d.by} PROVE op'[q].at \notin OnPage
    <3>1. op[q].at \notin OnPage /\ q \in Ops
      BY <2>1 DEF Meant
    <3>2. op[q].at # "navigate"
      BY <3>1 DEF RendererInv, NotBefore
    <3> QED
      BY <3>1, <3>2 DEF Moved
  <2> QED
    BY <2>1, <2>2, <2>3 DEF Meant
<1> QED
  BY <1>1, <1>2, <1>3, <1>4

\* A step that changes the composer of the page; a text that is inserted is the
\* operation's own.
LEMMA PutKept ==
  ASSUME RendererInv, NEW o \in Ops, NEW step \in OpSteps \ {"idle", "navigate"}, Moved(o, step), op[o].at \in OnPage,
         NEW new \in Drafted, Puts(new), UNCHANGED <<page, delivered>>,
         new.text \subseteq drafts[page].text \cup {Slash} \cup (IF step \in Untyped THEN {} ELSE {o}),
         o \in new.text => op[o].at \in Untyped \/ o \in drafts[page].text,
         new.files \subseteq drafts[page].files \cup {o}, new.plan \subseteq drafts[page].plan \cup {o},
         op[o].at \in Untyped \/ step \notin Untyped
  PROVE  PageTyped' /\ InOnePlace' /\ NotBefore' /\ AsMeant'
<1>1. page \in Pages /\ drafts \in [Pages -> Drafted] /\ drafts' = [drafts EXCEPT ![page] = new]
  BY DEF RendererInv, PageTyped, Puts
<1>2. \A p \in Pages : drafts'[p] = IF p = page THEN new ELSE drafts[p]
  BY <1>1
<1>3. op[o].at # "submit" => op[o].at \in Untyped
  BY DEF OnPage, Untyped
<1>4. PageTyped'
  <2>1. drafts' \in [Pages -> Drafted]
    BY <1>1
  <2>2. drafts' \in [Pages -> Drafted]'
    BY <2>1 DEF Drafted, Pages, Ops, Slash
  <2>3. \A q \in Ops : /\ op'[q].kind \in Kinds /\ op'[q].mode \in {"normal", "plan"} /\ op'[q].files \in BOOLEAN
                       /\ op'[q].at \in OpSteps
    BY DEF RendererInv, PageTyped, Moved
  <2>4. \A q \in Ops : op'[q].at # "idle" => op'[q].task \in Tasks
    BY DEF RendererInv, PageTyped, Moved, OnPage
  <2>5. \A d \in delivered' : d.by \in Ops /\ d.text \subseteq Ops \cup {Slash} /\ d.files \subseteq Ops /\ d.plan \subseteq Ops
    BY DEF RendererInv, PageTyped
  <2>6. page' \in Pages
    BY <1>1
  <2> QED
    BY <2>2, <2>3, <2>4, <2>5, <2>6 DEF PageTyped
<1>5. \A q \in Ops : op'[q].at \in Untyped => op[q].at \in Untyped
  BY DEF Moved
<1>6. \A q \in Ops : \A p \in Pages : q \in drafts'[p].text => \/ q \in drafts[p].text
                                                               \/ q = o /\ p = page /\ step \notin Untyped /\ op[o].at \in Untyped
  BY <1>2, PageNames
<1>7. InOnePlace'
  <2> SUFFICES ASSUME NEW q \in Ops
               PROVE  /\ op'[q].at \in Untyped => (\A p \in Pages : q \notin drafts'[p].text) /\ (\A d \in delivered : q \notin d.text)
                      /\ \A p, r \in Pages : q \in drafts'[p].text /\ q \in drafts'[r].text => p = r
                      /\ \A d \in delivered, p \in Pages : q \in d.text => q \notin drafts'[p].text
                      /\ \A d, e \in delivered : q \in d.text /\ q \in e.text => d = e
    BY DEF InOnePlace
  <2>1. op'[q].at \in Untyped => (\A p \in Pages : q \notin drafts'[p].text) /\ (\A d \in delivered : q \notin d.text)
    BY <1>5, <1>6 DEF RendererInv, InOnePlace, Moved
  <2>2. ASSUME NEW p \in Pages, NEW r \in Pages, q \in drafts'[p].text, q \in drafts'[r].text PROVE p = r
    BY <1>6, <2>2 DEF RendererInv, InOnePlace
  <2>3. ASSUME NEW d \in delivered, NEW p \in Pages, q \in d.text PROVE q \notin drafts'[p].text
    BY <1>6, <2>3 DEF RendererInv, InOnePlace
  <2>4. \A d, e \in delivered : q \in d.text /\ q \in e.text => d = e
    BY DEF RendererInv, InOnePlace
  <2> QED
    BY <2>1, <2>2, <2>3, <2>4
<1>8. NotBefore'
  <2> SUFFICES ASSUME NEW q \in Ops, op'[q].at \in {"idle", "navigate"}
               PROVE  /\ \A p \in Pages : q \notin drafts'[p].files \cup drafts'[p].plan
                      /\ \A d \in delivered : q # d.by /\ q \notin d.files \cup d.plan
    BY DEF NotBefore
  <2>1. q # o /\ op[q].at \in {"idle", "navigate"}
    BY DEF Moved
  <2> QED
    BY <1>2, <2>1 DEF RendererInv, NotBefore
<1>9. AsMeant'
  <2> SUFFICES ASSUME NEW d \in delivered, d.by \notin meddled PROVE Meant(d)'
    BY DEF AsMeant, Puts
  <2>1. Meant(d) /\ d.by \in Ops /\ d.files \subseteq Ops /\ d.plan \subseteq Ops
    BY DEF RendererInv, AsMeant, PageTyped
  <2>2. /\ op'[d.by].kind = op[d.by].kind /\ op'[d.by].task = op[d.by].task
        /\ op'[d.by].files = op[d.by].files /\ op'[d.by].mode = op[d.by].mode
    BY <2>1 DEF Moved
  <2>3. \A q \in (d.files \cup d.plan) \ {d.by} : op'[q].at \notin OnPage
    BY <2>1 DEF Meant, Moved
  <2> QED
    BY <2>1, <2>2, <2>3 DEF Meant
<1> QED
  BY <1>4, <1>7, <1>8, <1>9

\* A message gets to a task.
LEMMA DeliverKept ==
  ASSUME RendererInv, NEW o \in Ops, NEW step \in {"confirm", "done", "failed"}, Moved(o, step), op[o].at \in {"submit", "server"},
         page' \in Pages, drafts' \in [Pages -> Drafted], UNCHANGED meddled,
         \A p \in Pages : drafts'[p] \in {drafts[p], Blank},
         NEW m, delivered' = delivered \cup {m},
         m.by = o, m.text \subseteq Ops \cup {Slash}, m.files \subseteq Ops, m.plan \subseteq Ops,
         \A q \in Ops : q \in m.text =>
           /\ op'[q].at \notin Untyped /\ \A p \in Pages : q \notin drafts'[p].text
           /\ \A d \in delivered : q \notin d.text,
         \A q \in m.files \cup m.plan : op'[q].at \notin {"idle", "navigate"},
         o \notin meddled => Meant(m)'
  PROVE  PageTyped' /\ InOnePlace' /\ NotBefore' /\ AsMeant'
<1>1. \A q \in Ops : op'[q].at \in Untyped => op[q].at \in Untyped
  BY DEF Moved, Untyped
<1>2. PageTyped'
  <2>1. drafts' \in [Pages -> Drafted]'
    BY DEF Drafted, Pages, Ops, Slash
  <2>2. \A q \in Ops : /\ op'[q].kind \in Kinds /\ op'[q].mode \in {"normal", "plan"} /\ op'[q].files \in BOOLEAN
                       /\ op'[q].at \in OpSteps
    BY DEF RendererInv, PageTyped, Moved, OpSteps
  <2>3. \A q \in Ops : op'[q].at # "idle" => op'[q].task \in Tasks
    BY DEF RendererInv, PageTyped, Moved
  <2>4. \A d \in delivered' : d.by \in Ops /\ d.text \subseteq Ops \cup {Slash} /\ d.files \subseteq Ops /\ d.plan \subseteq Ops
    BY DEF RendererInv, PageTyped
  <2> QED
    BY <2>1, <2>2, <2>3, <2>4 DEF PageTyped
<1>3. \A q \in Ops : \A p \in Pages : q \in drafts'[p].text => q \in drafts[p].text
  BY DEF Blank
<1>4. InOnePlace'
  <2> SUFFICES ASSUME NEW q \in Ops
               PROVE  /\ op'[q].at \in Untyped => (\A p \in Pages : q \notin drafts'[p].text) /\ (\A d \in delivered' : q \notin d.text)
                      /\ \A p, r \in Pages : q \in drafts'[p].text /\ q \in drafts'[r].text => p = r
                      /\ \A d \in delivered', p \in Pages : q \in d.text => q \notin drafts'[p].text
                      /\ \A d, e \in delivered' : q \in d.text /\ q \in e.text => d = e
    BY DEF InOnePlace
  <2>1. op'[q].at \in Untyped => \A p \in Pages : q \notin drafts'[p].text
    BY <1>1, <1>3 DEF RendererInv, InOnePlace
  <2>2. op'[q].at \in Untyped => \A d \in delivered' : q \notin d.text
    BY <1>1 DEF RendererInv, InOnePlace
  <2>3. \A p, r \in Pages : q \in drafts'[p].text /\ q \in drafts'[r].text => p = r
    BY <1>3 DEF RendererInv, InOnePlace
  <2>4. \A d \in delivered', p \in Pages : q \in d.text => q \notin drafts'[p].text
    BY <1>3 DEF RendererInv, InOnePlace
  <2>5. \A d, e \in delivered' : q \in d.text /\ q \in e.text => d = e
    BY DEF RendererInv, InOnePlace
  <2> QED
    BY <2>1, <2>2, <2>3, <2>4, <2>5
<1>5. NotBefore'
  <2> SUFFICES ASSUME NEW q \in Ops, op'[q].at \in {"idle", "navigate"}
               PROVE  /\ \A p \in Pages : q \notin drafts'[p].files \cup drafts'[p].plan
                      /\ \A d \in delivered' : q # d.by /\ q \notin d.files \cup d.plan
    BY DEF NotBefore
  <2>1. q # o /\ op[q].at \in {"idle", "navigate"}
    BY DEF Moved
  <2>2. \A p \in Pages : q \notin drafts'[p].files \cup drafts'[p].plan
    BY <2>1 DEF RendererInv, NotBefore, Blank
  <2>3. \A d \in delivered' : q # d.by /\ q \notin d.files \cup d.plan
    BY <2>1 DEF RendererInv, NotBefore
  <2> QED
    BY <2>2, <2>3
<1>6. AsMeant'
  <2> SUFFICES ASSUME NEW d \in delivered, d.by \notin meddled PROVE Meant(d)'
    BY DEF AsMeant
  <2>1. Meant(d) /\ d.by \in Ops /\ d.files \subseteq Ops /\ d.plan \subseteq Ops
    BY DEF RendererInv, AsMeant, PageTyped
  <2>2. /\ op'[d.by].kind = op[d.by].kind /\ op'[d.by].task = op[d.by].task
        /\ op'[d.by].files = op[d.by].files /\ op'[d.by].mode = op[d.by].mode
    BY <2>1 DEF Moved
  <2>3. \A q \in (d.files \cup d.plan) \ {d.by} : op'[q].at \notin OnPage
    BY <2>1 DEF Meant, Moved, OnPage
  <2> QED
    BY <2>1, <2>2, <2>3 DEF Meant
<1> QED
  BY <1>2, <1>4, <1>5, <1>6

\* What is told of tasks that go on, and with which task a request for a new one
\* is answered.
LEMMA NewsKept ==
  ASSUME RendererInv, NEW o \in Ops, NEW step, Moved(o, step), delivered \subseteq delivered', NEW task,
         News(task) \/ SameNews, News(task) /\ task \in Ops => Got(task)' # {},
         \A q \in Ops \ {o} : op'[q].result = op[q].result,
         step = "done" /\ op[o].kind = "new" /\ op'[o].updated \subseteq {o} => op'[o].result = o /\ Got(o)' # {}
  PROVE  MadeByMessage' /\ TakenFor'
<1>1. \A t : Got(t) # {} => Got(t)' # {}
  BY DEF Got
<1>2. \A q \in Ops : op[q].updated \subseteq op'[q].updated
  BY DEF News, SameNews
<1>3. MadeByMessage'
  <2> SUFFICES ASSUME NEW p \in Ops, NEW q \in Ops, q \in op'[p].updated PROVE Got(q)' # {}
    BY DEF MadeByMessage
  <2>1. CASE q \in op[p].updated
    BY <1>1, <2>1 DEF RendererInv, MadeByMessage
  <2>2. CASE q \notin op[p].updated
    BY <2>2 DEF News, SameNews
  <2> QED
    BY <2>1, <2>2
<1>4. TakenFor'
  <2> SUFFICES ASSUME NEW q \in Ops, op'[q].at = "done", op'[q].kind = "new", op'[q].updated \subseteq {q}
               PROVE  op'[q].result = q /\ Got(q)' # {}
    BY DEF TakenFor
  <2>1. CASE q = o
    BY <2>1 DEF Moved
  <2>2. CASE q # o
    <3>1. op[q].at = "done" /\ op[q].kind = "new" /\ op[q].updated \subseteq {q}
      BY <1>2, <2>2 DEF Moved
    <3> QED
      BY <1>1, <2>2, <3>1 DEF RendererInv, TakenFor
  <2> QED
    BY <2>1, <2>2
<1> QED
  BY <1>3, <1>4

LEMMA QuietNews ==
  ASSUME RendererInv, NEW o \in Ops, NEW step, Moved(o, step), delivered \subseteq delivered', SameNews, SameResults,
         step # "done" \/ op[o].kind # "new"
  PROVE  MadeByMessage' /\ TakenFor'
<1>1. \A q \in Ops \ {o} : op'[q].result = op[q].result
  BY DEF SameResults
<1>2. \A q \in Ops : op'[q].updated = op[q].updated
  BY DEF SameNews
<1>3. News(NewTask) /\ NewTask \notin Ops
  BY <1>2, PageNames DEF News
<1> QED
  BY <1>1, <1>3, NewsKept

\* The page, when an operation that is not on it goes on.
LEMMA AloneKept ==
  ASSUME RendererInv, NEW o \in Ops, NEW step, Moved(o, step), step \notin OnPage, meddled \subseteq meddled',
         \/ op[o].at \in OnPage
         \/ AtPage \subseteq meddled'
         \/ UNCHANGED <<page, drafts>>
  PROVE  ByItself'
<1>1. AtPage' \subseteq AtPage /\ o \notin AtPage'
  BY DEF AtPage, Moved, Ops
<1> SUFFICES ASSUME NEW q \in AtPage', q \notin meddled' PROVE FoundBy(q)'
  BY DEF ByItself
<1>2. q \in AtPage /\ q \in Ops /\ q # o /\ q \notin meddled
  BY <1>1 DEF AtPage
<1>3. FoundBy(q)
  BY <1>2 DEF RendererInv, ByItself
<1>4. o \notin AtPage
  BY <1>2, <1>3 DEF FoundBy
<1>5. op[o].at \notin OnPage
  BY <1>4 DEF AtPage
<1>6. UNCHANGED <<page, drafts>>
  BY <1>2, <1>5
<1>7. /\ op'[q].kind = op[q].kind /\ op'[q].task = op[q].task /\ op'[q].mode = op[q].mode /\ op'[q].files = op[q].files
      /\ op'[q].at = op[q].at
  BY <1>2 DEF Moved
<1>8. Target(q)' = Target(q)
  BY <1>7 DEF Target
<1> QED
  BY <1>1, <1>3, <1>6, <1>7, <1>8 DEF FoundBy

\* The page, when an operation on it goes on there.
LEMMA GoesOn ==
  ASSUME RendererInv, NEW o \in Ops, NEW step \in OnPage, Moved(o, step), op[o].at \in OnPage, UNCHANGED <<page, meddled>>,
         o \notin meddled /\ FoundBy(o) =>
           /\ step = "mode" => op[o].mode = "plan" /\ o \notin drafts'[page].files
           /\ step # "mode" => (o \in drafts'[page].plan <=> op[o].mode = "plan")
           /\ step \in {"attach", "wait"} => op[o].files = TRUE
           /\ step \in {"focus", "insert", "submit"} => (o \in drafts'[page].files <=> op[o].files = TRUE)
           /\ step = "insert" => drafts'[page].text = {}
           /\ step = "submit" => drafts'[page].text = {o}
  PROVE  ByItself'
<1>1. AtPage' = AtPage /\ o \in AtPage
  BY DEF AtPage, Moved, Ops
<1> SUFFICES ASSUME NEW q \in AtPage', q \notin meddled PROVE FoundBy(q)'
  BY DEF ByItself
<1>2. FoundBy(q)
  BY <1>1 DEF RendererInv, ByItself
<1>3. q = o
  BY <1>1, <1>2 DEF FoundBy
<1>4. /\ op'[o].kind = op[o].kind /\ op'[o].task = op[o].task /\ op'[o].mode = op[o].mode /\ op'[o].files = op[o].files
      /\ op'[o].at = step
  BY DEF Moved
<1>5. Target(o)' = Target(o)
  BY <1>4 DEF Target
<1>6. AtPage' \subseteq {o} /\ page' = Target(o)'
  BY <1>1, <1>2, <1>3, <1>5 DEF FoundBy
<1>7. /\ op'[o].at = "mode" => op'[o].mode = "plan" /\ o \notin drafts'[page'].files
      /\ op'[o].at # "mode" => (o \in drafts'[page'].plan <=> op'[o].mode = "plan")
      /\ op'[o].at \in {"attach", "wait"} => op'[o].files = TRUE
      /\ op'[o].at \in {"focus", "insert", "submit"} => (o \in drafts'[page'].files <=> op'[o].files = TRUE)
      /\ op'[o].at = "insert" => drafts'[page'].text = {}
      /\ op'[o].at = "submit" => drafts'[page'].text = {o}
  BY <1>2, <1>3, <1>4
<1> QED
  BY <1>3, <1>6, <1>7 DEF FoundBy

\* An operation gives the page up, with nothing done to it.
LEMMA FallsBackStep ==
  ASSUME RendererInv, NEW o \in Ops, op[o].at \in OnPage, op[o].at \in Untyped \ {"idle"},
         FallsBack(o), UNCHANGED <<page, drafts, recent, delivered, meddled>>
  PROVE  RendererInv'
<1> DEFINE step == IF op[o].kind = "steer" THEN "failed" ELSE "server"
<1>1. Shape(op)' /\ Moved(o, step) /\ SameNews /\ SameResults
  BY WentStep DEF FallsBack, RendererInv
<1>2. step \in OpSteps \ {"idle", "navigate"} /\ step \notin OnPage /\ step # "done"
  BY DEF OpSteps, OnPage
<1> HIDE DEF step
<1>3. page' \in Pages
  BY DEF RendererInv, PageTyped
<1>4. PageTyped' /\ InOnePlace' /\ NotBefore' /\ AsMeant'
  BY <1>1, <1>2, <1>3, RestKept
<1>5. ByItself'
  BY <1>1, <1>2, AloneKept
<1>6. MadeByMessage' /\ TakenFor'
  BY <1>1, <1>2, QuietNews
<1> QED
  BY <1>1, <1>4, <1>5, <1>6 DEF RendererInv

LEMMA RendererInitially == RendererInit => RendererInv
<1> SUFFICES ASSUME RendererInit PROVE RendererInv
  OBVIOUS
<1>1. op = [o \in Ops |-> [kind |-> "send", task |-> NewTask, mode |-> "normal", files |-> FALSE, at |-> "idle",
                           known |-> {}, newest |-> NewTask, updated |-> {}, result |-> NewTask]]
  BY DEF RendererInit
<1>2. /\ \A o \in Ops : op[o] = [kind |-> "send", task |-> NewTask, mode |-> "normal", files |-> FALSE, at |-> "idle",
                           known |-> {}, newest |-> NewTask, updated |-> {}, result |-> NewTask]
      /\ op = [o \in Ops |-> op[o]]
  BY <1>1
<1>3. ASSUME NEW o \in Ops
      PROVE /\ op[o].kind = "send" /\ op[o].task = NewTask /\ op[o].mode = "normal" /\ op[o].files = FALSE /\ op[o].at = "idle"
            /\ op[o].known = {} /\ op[o].newest = NewTask /\ op[o].updated = {} /\ op[o].result = NewTask
  BY <1>2
<1>4. Shape(op)
  BY <1>2, <1>3 DEF Shape
<1>5. delivered = {} /\ \A p \in Pages : drafts[p] = Blank
  BY DEF RendererInit
<1>6. PageTyped
  <2>1. page \in Tasks
    BY RendererAssumption DEF RendererInit
  <2>2. Blank \in Drafted
    BY DEF Blank, Drafted
  <2>3. drafts \in [Pages -> Drafted]
    BY <2>2 DEF RendererInit
  <2>4. page \in Pages
    BY <2>1, PageNames
  <2> QED
    BY <1>3, <1>5, <2>3, <2>4 DEF PageTyped, Kinds, OpSteps
<1>7. \A p \in Pages : drafts[p].text = {} /\ drafts[p].files = {} /\ drafts[p].plan = {}
  BY <1>5 DEF Blank
<1>8. InOnePlace /\ NotBefore
  BY <1>5, <1>7 DEF InOnePlace, NotBefore
<1>9. ByItself /\ AsMeant
  BY <1>3, <1>5 DEF ByItself, AsMeant, AtPage, OnPage
<1>10. MadeByMessage /\ TakenFor
  BY <1>3 DEF MadeByMessage, TakenFor
<1> QED
  BY <1>4, <1>6, <1>8, <1>9, <1>10 DEF RendererInv

-----------------------------------------------------------------------------
(* The steps of an operation                                               *)

LEMMA TargetIsPage ==
  ASSUME RendererInv, NEW o \in Ops, op[o].at # "idle"
  PROVE  Target(o) \in Pages
  BY PageNames DEF RendererInv, PageTyped, Target

LEMMA RequestBegins ==
  ASSUME RendererInv, NEW o \in Ops, Begin(o)
  PROVE  RendererInv'
<1>1. op[o].at = "idle" /\ UNCHANGED <<page, drafts, recent, delivered, meddled>>
  BY DEF Begin
<1>2. PICK input \in Inputs, task \in Tasks :
        op' = [op EXCEPT ![o] = [kind |-> input.kind, task |-> task, mode |-> input.mode, files |-> input.files, at |-> "navigate",
                                 known |-> Got(task), newest |-> Head(recent), updated |-> {}, result |-> NewTask]]
  BY DEF Begin
<1>3. input.kind \in Kinds /\ input.mode \in {"normal", "plan"} /\ input.files \in BOOLEAN
  BY RendererAssumption
<1> DEFINE new == [kind |-> input.kind, task |-> task, mode |-> input.mode, files |-> input.files, at |-> "navigate",
                   known |-> Got(task), newest |-> Head(recent), updated |-> {}, result |-> NewTask]
<1>4. op' = [op EXCEPT ![o] = new]
  BY <1>2
<1>5. /\ new.kind = input.kind /\ new.task = task /\ new.mode = input.mode /\ new.files = input.files /\ new.at = "navigate"
      /\ new.updated = {} /\ new.result = NewTask
      /\ new = [kind |-> new.kind, task |-> new.task, mode |-> new.mode, files |-> new.files, at |-> new.at,
                known |-> new.known, newest |-> new.newest, updated |-> new.updated, result |-> new.result]
  OBVIOUS
<1> HIDE DEF new
<1>7. op = [q \in Ops |-> op[q]]
  BY DEF RendererInv, Shape
<1>8. \A q \in Ops : op'[q] = IF q = o THEN new ELSE op[q]
  BY <1>4, <1>7
<1>9. Shape(op)'
  <2>1. op' = [q \in Ops |-> op'[q]]
    BY <1>4, <1>7
  <2>2. \A q \in Ops : op'[q] = [kind |-> op'[q].kind, task |-> op'[q].task, mode |-> op'[q].mode, files |-> op'[q].files,
                                 at |-> op'[q].at, known |-> op'[q].known, newest |-> op'[q].newest,
                                 updated |-> op'[q].updated, result |-> op'[q].result]
    BY <1>5, <1>8 DEF RendererInv, Shape
  <2> QED
    BY <2>1, <2>2 DEF Shape, Ops
<1>10. /\ \A q \in Ops \ {o} : op'[q] = op[q]
       /\ op'[o].at = "navigate"
       /\ op'[o] = new
  BY <1>5, <1>8
<1>11. \A q \in Ops : op'[q].at \in {"idle", "navigate"} => op[q].at \in {"idle", "navigate"}
  BY <1>1, <1>10
<1>12. \A q \in Ops : op'[q].at \notin {"idle", "navigate"} => op'[q] = op[q] /\ q # o
  BY <1>10
<1>13. PageTyped'
  <2>1. drafts' \in [Pages -> Drafted]' /\ page' \in Pages'
    BY <1>1 DEF RendererInv, PageTyped, Drafted, Pages, Ops, Slash
  <2>2. \A q \in Ops : /\ op'[q].kind \in Kinds /\ op'[q].mode \in {"normal", "plan"} /\ op'[q].files \in BOOLEAN
                       /\ op'[q].at \in OpSteps
    BY <1>3, <1>5, <1>10 DEF RendererInv, PageTyped, OpSteps
  <2>3. \A q \in Ops : op'[q].at # "idle" => op'[q].task \in Tasks
    BY <1>5, <1>10 DEF RendererInv, PageTyped
  <2>4. \A d \in delivered' : d.by \in Ops /\ d.text \subseteq Ops \cup {Slash} /\ d.files \subseteq Ops /\ d.plan \subseteq Ops
    BY <1>1 DEF RendererInv, PageTyped
  <2> QED
    BY <2>1, <2>2, <2>3, <2>4 DEF PageTyped
<1>14. InOnePlace'
  <2>1. \A q \in Ops : op'[q].at \in Untyped => op[q].at \in Untyped
    BY <1>1, <1>10 DEF Untyped
  <2> QED
    BY <1>1, <2>1 DEF RendererInv, InOnePlace
<1>15. NotBefore'
  BY <1>1, <1>11 DEF RendererInv, NotBefore
<1>16. ByItself'
  <2>1. AtPage' = AtPage /\ o \notin AtPage
    BY <1>1, <1>10 DEF AtPage, OnPage, Ops
  <2> SUFFICES ASSUME NEW q \in AtPage, q \notin meddled PROVE FoundBy(q)'
    BY <1>1, <2>1 DEF ByItself
  <2>2. FoundBy(q) /\ q \in Ops /\ op'[q] = op[q]
    BY <1>10, <2>1 DEF RendererInv, ByItself, AtPage
  <2>3. Target(q)' = Target(q)
    BY <2>2 DEF Target
  <2> QED
    BY <1>1, <2>1, <2>2, <2>3 DEF FoundBy
<1>17. AsMeant'
  <2> SUFFICES ASSUME NEW d \in delivered, d.by \notin meddled PROVE Meant(d)'
    BY <1>1 DEF AsMeant
  <2>1. Meant(d) /\ d.by \in Ops /\ d.files \subseteq Ops /\ d.plan \subseteq Ops
    BY DEF RendererInv, AsMeant, PageTyped
  <2>2. op'[d.by] = op[d.by]
    BY <1>1, <1>10, <2>1 DEF RendererInv, NotBefore
  <2>3. \A q \in (d.files \cup d.plan) \ {d.by} : op'[q].at \notin OnPage
    BY <1>10, <2>1 DEF Meant, OnPage
  <2> QED
    BY <2>1, <2>2, <2>3 DEF Meant
<1>18. \A q \in Ops : op'[q].updated \subseteq op[q].updated
  BY <1>5, <1>10
<1>19. MadeByMessage'
  BY <1>1, <1>18 DEF RendererInv, MadeByMessage, Got
<1>20. TakenFor'
  <2> SUFFICES ASSUME NEW q \in Ops, op'[q].at = "done", op'[q].kind = "new", op'[q].updated \subseteq {q}
               PROVE  op'[q].result = q /\ Got(q)' # {}
    BY DEF TakenFor
  <2>1. op'[q] = op[q]
    BY <1>12
  <2> QED
    BY <1>1, <2>1 DEF RendererInv, TakenFor, Got
<1> QED
  BY <1>9, <1>13, <1>14, <1>15, <1>16, <1>17, <1>19, <1>20 DEF RendererInv

LEMMA NavigateStep ==
  ASSUME RendererInv, NEW o \in Ops, Navigate(o)
  PROVE  RendererInv'
<1> DEFINE step == FirstStep(o)
<1>1. /\ op[o].at = "navigate" /\ page' = Target(o) /\ UNCHANGED <<drafts, recent, delivered>>
      /\ meddled' = IF AtPage = {} THEN meddled ELSE meddled \cup AtPage \cup {o}
  BY DEF Navigate
<1>2. Shape(op)' /\ Moved(o, step) /\ SameNews /\ SameResults
  BY WentStep DEF Navigate, RendererInv
<1>3. /\ step \in {"done", "mode", "attach", "focus"}
      /\ step = "done" <=> op[o].kind = "resume"
      /\ step = "mode" => op[o].mode = "plan"
      /\ step \in {"attach", "focus"} => op[o].mode # "plan" /\ (op[o].files = TRUE <=> step = "attach")
  BY DEF FirstStep, RendererInv, PageTyped
<1> HIDE DEF step
<1>4. page' \in Pages
  BY <1>1, TargetIsPage
<1>5. PageTyped' /\ InOnePlace' /\ NotBefore' /\ AsMeant'
  <2>1. meddled \subseteq meddled' /\ step \in OpSteps \ {"idle", "navigate"} /\ op[o].at \in Untyped
    BY <1>1, <1>3 DEF OpSteps, OnPage, Untyped
  <2> QED
    BY <1>1, <1>2, <1>4, <2>1, RestKept
<1>6. ByItself'
  <2> SUFFICES ASSUME NEW q \in AtPage', q \notin meddled' PROVE FoundBy(q)'
    BY DEF ByItself
  <2>1. AtPage' \subseteq AtPage \cup {o}
    BY <1>2 DEF AtPage, Moved, Ops
  <2>2. AtPage = {} /\ q = o
    BY <1>1, <2>1
  <2>3. op'[o].at \in OnPage
    BY <2>2 DEF AtPage
  <2>4. /\ op'[o].kind = op[o].kind /\ op'[o].task = op[o].task /\ op'[o].mode = op[o].mode /\ op'[o].files = op[o].files
        /\ op'[o].at = step
    BY <1>2 DEF Moved
  <2>5. Target(o)' = Target(o)
    BY <2>4 DEF Target
  <2>6. AtPage' \subseteq {o} /\ page' = Target(o)'
    BY <1>1, <2>1, <2>2, <2>5
  <2>7. o \notin drafts'[page'].files /\ o \notin drafts'[page'].plan
    BY <1>1, <1>4 DEF RendererInv, NotBefore
  <2>8. step \in {"mode", "attach", "focus"}
    BY <1>3, <2>3, <2>4 DEF OnPage
  <2>9. /\ op'[o].at = "mode" => op'[o].mode = "plan" /\ o \notin drafts'[page'].files
        /\ op'[o].at # "mode" => (o \in drafts'[page'].plan <=> op'[o].mode = "plan")
        /\ op'[o].at \in {"attach", "wait"} => op'[o].files = TRUE
        /\ op'[o].at \in {"focus", "insert", "submit"} => (o \in drafts'[page'].files <=> op'[o].files = TRUE)
        /\ op'[o].at = "insert" => drafts'[page'].text = {}
        /\ op'[o].at = "submit" => drafts'[page'].text = {o}
    BY <1>3, <2>4, <2>7, <2>8
  <2> QED
    BY <2>2, <2>6, <2>9 DEF FoundBy
<1>7. MadeByMessage' /\ TakenFor'
  BY <1>1, <1>2, <1>3, QuietNews
<1> QED
  BY <1>2, <1>5, <1>6, <1>7 DEF RendererInv

LEMMA NavigateFailsStep ==
  ASSUME RendererInv, NEW o \in Ops, NavigateFails(o)
  PROVE  RendererInv'
<1> DEFINE step == IF op[o].kind = "steer" THEN "failed" ELSE "server"
<1>1. /\ op[o].at = "navigate" /\ page' \in {page, Target(o)} /\ UNCHANGED <<drafts, recent, delivered>>
      /\ meddled' = meddled \cup AtPage
  BY DEF NavigateFails
<1>2. Shape(op)' /\ Moved(o, step) /\ SameNews /\ SameResults
  BY WentStep DEF NavigateFails, FallsBack, RendererInv
<1>3. step \in OpSteps \ {"idle", "navigate"} /\ step \notin OnPage /\ step # "done"
  BY DEF OpSteps, OnPage
<1> HIDE DEF step
<1>4. page' \in Pages
  BY <1>1, TargetIsPage DEF RendererInv, PageTyped
<1>5. PageTyped' /\ InOnePlace' /\ NotBefore' /\ AsMeant'
  <2>1. meddled \subseteq meddled' /\ op[o].at \in Untyped
    BY <1>1 DEF Untyped
  <2> QED
    BY <1>1, <1>2, <1>3, <1>4, <2>1, RestKept
<1>6. ByItself'
  BY <1>1, <1>2, <1>3, AloneKept
<1>7. MadeByMessage' /\ TakenFor'
  BY <1>1, <1>2, <1>3, QuietNews
<1> QED
  BY <1>2, <1>5, <1>6, <1>7 DEF RendererInv

\* What an operation that gets to this step may put on the page: its own.
Allowed(o, step, new) ==
  /\ new.text \subseteq drafts[page].text \cup {Slash} \cup (IF step \in Untyped THEN {} ELSE {o})
  /\ o \in new.text => op[o].at \in Untyped \/ o \in drafts[page].text
  /\ new.files \subseteq drafts[page].files \cup {o} /\ new.plan \subseteq drafts[page].plan \cup {o}
\* And what it finds there at its next step.
Prepared(o, step, new) ==
  o \notin meddled /\ FoundBy(o) =>
    /\ step = "mode" => op[o].mode = "plan" /\ o \notin new.files
    /\ step # "mode" => (o \in new.plan <=> op[o].mode = "plan")
    /\ step \in {"attach", "wait"} => op[o].files = TRUE
    /\ step \in {"focus", "insert", "submit"} => (o \in new.files <=> op[o].files = TRUE)
    /\ step = "insert" => new.text = {}
    /\ step = "submit" => new.text = {o}

\* An operation puts something on the page, and goes on there.
LEMMA PutsStep ==
  ASSUME RendererInv, NEW o \in Ops, NEW step \in OnPage, op' = Go(o, step), op[o].at \in OnPage,
         NEW new \in Drafted, Puts(new), UNCHANGED <<page, delivered>>,
         Allowed(o, step, new), Prepared(o, step, new), op[o].at \in Untyped \/ step \notin Untyped
  PROVE  RendererInv'
<1>1. Shape(op)' /\ Moved(o, step) /\ SameNews /\ SameResults
  BY WentStep DEF RendererInv
<1>2. step \in OpSteps \ {"idle", "navigate"} /\ step # "done"
  BY DEF OpSteps, OnPage
<1>3. PageTyped' /\ InOnePlace' /\ NotBefore' /\ AsMeant'
  BY <1>1, <1>2, PutKept DEF Allowed
<1>4. drafts'[page] = new /\ UNCHANGED meddled
  BY DEF Puts, RendererInv, PageTyped
<1>5. ByItself'
  BY <1>1, <1>4, GoesOn DEF Prepared
<1>6. MadeByMessage' /\ TakenFor'
  BY <1>1, <1>2, QuietNews
<1> QED
  BY <1>1, <1>3, <1>5, <1>6 DEF RendererInv

LEMMA PrepareStep ==
  ASSUME RendererInv, NEW o \in Ops, PrepareTurnMode(o)
  PROVE  RendererInv'
<1>1. op[o].at = "mode" /\ UNCHANGED <<page, recent, delivered>>
  BY DEF PrepareTurnMode
<1>2. "mode" \in OnPage /\ "mode" \in Untyped \ {"idle"}
  BY DEF OnPage, Untyped
<1>3. drafts[page] \in Drafted /\ page \in Pages
  BY DEF RendererInv, PageTyped
<1>4. CASE Puts([drafts[page] EXCEPT !.text = {}, !.plan = @ \cup {o}]) /\ op' = Go(o, IF op[o].files THEN "attach" ELSE "focus")
  <2> DEFINE new == [drafts[page] EXCEPT !.text = {}, !.plan = @ \cup {o}]
             step == IF op[o].files THEN "attach" ELSE "focus"
  <2>1. /\ new \in Drafted /\ new.text = {} /\ new.files = drafts[page].files /\ new.plan = drafts[page].plan \cup {o}
    BY <1>3 DEF Drafted
  <2>2. /\ step \in OnPage /\ step \in Untyped /\ step \in {"attach", "focus"}
        /\ step = "attach" <=> op[o].files = TRUE
    BY DEF OnPage, Untyped, RendererInv, PageTyped
  <2>3. Puts(new) /\ op' = Go(o, step)
    BY <1>4
  <2> HIDE DEF new, step
  <2>4. o \notin meddled /\ FoundBy(o) => op[o].mode = "plan" /\ o \notin drafts[page].files
    BY <1>1 DEF FoundBy
  <2>5. Allowed(o, step, new)
    BY <1>1, <1>2, <2>1, <2>2 DEF Allowed
  <2>6. Prepared(o, step, new)
    BY <2>1, <2>2, <2>4 DEF Prepared
  <2> QED
    BY <1>1, <1>2, <2>1, <2>2, <2>3, <2>5, <2>6, PutsStep
<1>5. CASE Puts([drafts[page] EXCEPT !.text = {Slash}]) /\ FallsBack(o)
  <2> DEFINE new == [drafts[page] EXCEPT !.text = {Slash}]
             step == IF op[o].kind = "steer" THEN "failed" ELSE "server"
  <2>1. new \in Drafted /\ new.text = {Slash} /\ new.files = drafts[page].files /\ new.plan = drafts[page].plan
    BY <1>3 DEF Drafted
  <2>2. step \in OpSteps \ {"idle", "navigate"} /\ step \notin OnPage /\ step # "done"
    BY DEF OpSteps, OnPage
  <2>3. Shape(op)' /\ Moved(o, step) /\ SameNews /\ SameResults
    BY <1>5, WentStep DEF FallsBack, RendererInv
  <2>4. Puts(new)
    BY <1>5
  <2> HIDE DEF new, step
  <2>5. o \notin new.text
    BY <2>1, PageNames
  <2>6. PageTyped' /\ InOnePlace' /\ NotBefore' /\ AsMeant'
    BY <1>1, <1>2, <2>1, <2>2, <2>3, <2>4, <2>5, PutKept
  <2>7. meddled' = meddled
    BY <2>4 DEF Puts
  <2>8. ByItself'
    BY <1>1, <1>2, <2>2, <2>3, <2>7, AloneKept
  <2>9. MadeByMessage' /\ TakenFor'
    BY <1>1, <2>2, <2>3, QuietNews
  <2> QED
    BY <2>3, <2>6, <2>8, <2>9 DEF RendererInv
<1>6. CASE UNCHANGED <<drafts, meddled>> /\ FallsBack(o)
  BY <1>1, <1>2, <1>6, FallsBackStep
<1> QED
  BY <1>4, <1>5, <1>6 DEF PrepareTurnMode

LEMMA AttachStep ==
  ASSUME RendererInv, NEW o \in Ops, AttachFiles(o)
  PROVE  RendererInv'
<1>1. op[o].at = "attach" /\ UNCHANGED <<page, recent, delivered>>
  BY DEF AttachFiles
<1>2. "attach" \in OnPage /\ "attach" \in Untyped \ {"idle"} /\ "wait" \in OnPage /\ "wait" \in Untyped
  BY DEF OnPage, Untyped
<1>3. CASE Puts([drafts[page] EXCEPT !.files = @ \cup {o}]) /\ op' = Go(o, "wait")
  <2> DEFINE new == [drafts[page] EXCEPT !.files = @ \cup {o}]
  <2>1. drafts[page] \in Drafted
    BY DEF RendererInv, PageTyped
  <2>2. new \in Drafted /\ new.text = drafts[page].text /\ new.files = drafts[page].files \cup {o} /\ new.plan = drafts[page].plan
    BY <2>1 DEF Drafted
  <2>3. Puts(new) /\ op' = Go(o, "wait")
    BY <1>3
  <2> HIDE DEF new
  <2>4. o \notin meddled /\ FoundBy(o) => op[o].files = TRUE /\ (o \in drafts[page].plan <=> op[o].mode = "plan")
    BY <1>1 DEF FoundBy
  <2>5. Allowed(o, "wait", new)
    BY <1>1, <1>2, <2>2 DEF Allowed
  <2>6. Prepared(o, "wait", new)
    BY <2>2, <2>4 DEF Prepared
  <2> QED
    BY <1>1, <1>2, <2>2, <2>3, <2>5, <2>6, PutsStep
<1>4. CASE UNCHANGED <<drafts, meddled>> /\ FallsBack(o)
  BY <1>1, <1>2, <1>4, FallsBackStep
<1> QED
  BY <1>3, <1>4 DEF AttachFiles

LEMMA AttachedStep ==
  ASSUME RendererInv, NEW o \in Ops, FilesAttached(o)
  PROVE  RendererInv'
<1>1. op[o].at = "wait" /\ UNCHANGED <<page, drafts, recent, delivered, meddled>>
  BY DEF FilesAttached
<1>2. "wait" \in OnPage /\ "wait" \in Untyped \ {"idle"} /\ "focus" \in OnPage /\ "focus" \in Untyped
  BY DEF OnPage, Untyped
<1>3. CASE o \in drafts[page].files /\ op' = Go(o, "focus")
  <2>1. page \in Pages /\ drafts[page] \in Drafted /\ drafts \in [Pages -> Drafted]
    BY DEF RendererInv, PageTyped
  <2>2. Puts(drafts[page])
    BY <1>1, <2>1 DEF Puts
  <2>3. o \notin meddled /\ FoundBy(o) => op[o].files = TRUE /\ (o \in drafts[page].plan <=> op[o].mode = "plan")
    BY <1>1 DEF FoundBy
  <2>5. Allowed(o, "focus", drafts[page])
    BY <1>1, <1>2 DEF Allowed
  <2>6. Prepared(o, "focus", drafts[page])
    BY <1>3, <2>3 DEF Prepared
  <2> QED
    BY <1>1, <1>2, <1>3, <2>1, <2>2, <2>5, <2>6, PutsStep
<1>4. CASE FallsBack(o)
  BY <1>1, <1>2, <1>4, FallsBackStep
<1> QED
  BY <1>3, <1>4 DEF FilesAttached

\* An operation on the page ends, or waits for what is told of the tasks.
LEMMA LeavesStep ==
  ASSUME RendererInv, NEW o \in Ops, NEW step \in {"confirm", "done", "failed"}, op' = Go(o, step), op[o].at \in OnPage \cup {"confirm", "server"},
         step # "done" \/ op[o].kind # "new", UNCHANGED <<page, drafts, delivered, meddled>>
  PROVE  RendererInv'
<1>1. Shape(op)' /\ Moved(o, step) /\ SameNews /\ SameResults
  BY WentStep DEF RendererInv
<1>2. step \in OpSteps \ {"idle", "navigate"} /\ step \notin OnPage /\ step \notin Untyped /\ op[o].at # "idle"
  BY DEF OpSteps, OnPage, Untyped
<1>3. page' \in Pages
  BY DEF RendererInv, PageTyped
<1>4. PageTyped' /\ InOnePlace' /\ NotBefore' /\ AsMeant'
  BY <1>1, <1>2, <1>3, RestKept
<1>5. ByItself'
  BY <1>1, <1>2, AloneKept
<1>6. MadeByMessage' /\ TakenFor'
  BY <1>1, <1>2, QuietNews
<1> QED
  BY <1>1, <1>4, <1>5, <1>6 DEF RendererInv

LEMMA FocusStep ==
  ASSUME RendererInv, NEW o \in Ops, Focus(o)
  PROVE  RendererInv'
<1>1. op[o].at = "focus" /\ UNCHANGED <<page, recent, delivered>>
  BY DEF Focus
<1>2. "focus" \in OnPage /\ "focus" \in Untyped /\ "insert" \in OnPage /\ "insert" \in Untyped
  BY DEF OnPage, Untyped
<1>3. CASE Puts([drafts[page] EXCEPT !.text = {}]) /\ op' = Go(o, "insert")
  <2> DEFINE new == [drafts[page] EXCEPT !.text = {}]
  <2>1. drafts[page] \in Drafted
    BY DEF RendererInv, PageTyped
  <2>2. new \in Drafted /\ new.text = {} /\ new.files = drafts[page].files /\ new.plan = drafts[page].plan
    BY <2>1 DEF Drafted
  <2>3. Puts(new) /\ op' = Go(o, "insert")
    BY <1>3
  <2> HIDE DEF new
  <2>4. o \notin meddled /\ FoundBy(o) => /\ o \in drafts[page].files <=> op[o].files = TRUE
                                          /\ o \in drafts[page].plan <=> op[o].mode = "plan"
    BY <1>1 DEF FoundBy
  <2>5. Allowed(o, "insert", new)
    BY <1>1, <1>2, <2>2 DEF Allowed
  <2>6. Prepared(o, "insert", new)
    BY <2>2, <2>4 DEF Prepared
  <2> QED
    BY <1>1, <1>2, <2>2, <2>3, <2>5, <2>6, PutsStep
<1>4. CASE UNCHANGED <<drafts, meddled>> /\ op' = Go(o, "failed")
  BY <1>1, <1>2, <1>4, LeavesStep
<1> QED
  BY <1>3, <1>4 DEF Focus

LEMMA InsertStep ==
  ASSUME RendererInv, NEW o \in Ops, InsertText(o)
  PROVE  RendererInv'
<1>1. op[o].at = "insert" /\ UNCHANGED <<page, recent, delivered>>
  BY DEF InsertText
<1>2. "insert" \in OnPage /\ "insert" \in Untyped /\ "submit" \in OnPage /\ "submit" \notin Untyped
  BY DEF OnPage, Untyped
<1> DEFINE new == [drafts[page] EXCEPT !.text = @ \cup {o}]
<1>3. drafts[page] \in Drafted
  BY DEF RendererInv, PageTyped
<1>4. new \in Drafted /\ new.text = drafts[page].text \cup {o} /\ new.files = drafts[page].files /\ new.plan = drafts[page].plan
  BY <1>3 DEF Drafted
<1>5. Puts(new) /\ op' = Go(o, "submit")
  BY DEF InsertText
<1> HIDE DEF new
<1>6. o \notin meddled /\ FoundBy(o) => /\ o \in drafts[page].files <=> op[o].files = TRUE
                                        /\ o \in drafts[page].plan <=> op[o].mode = "plan"
                                        /\ drafts[page].text = {}
  BY <1>1 DEF FoundBy
<1>7. Allowed(o, "submit", new)
  BY <1>1, <1>2, <1>4 DEF Allowed
<1>8. Prepared(o, "submit", new)
  BY <1>4, <1>6 DEF Prepared
<1> QED
  BY <1>1, <1>2, <1>4, <1>5, <1>7, <1>8, PutsStep

LEMMA SubmitStep ==
  ASSUME RendererInv, NEW o \in Ops, Submit(o)
  PROVE  RendererInv'
<1>1. op[o].at = "submit" /\ Puts(Blank) /\ page' = Made(o)
  BY DEF Submit
<1>2. PICK step \in {AfterSubmit(o), "failed"} : Deliver(o, Made(o), drafts[page], Go(o, step))
  BY DEF Submit, Ambiguous
<1>3. step \in {"confirm", "done", "failed"} /\ (step # "done" \/ op[o].kind # "new") /\ step \notin OnPage
  BY DEF AfterSubmit, Sends, OnPage
<1>20. PICK task : task = Made(o)
  OBVIOUS
<1>21. PICK m : m = [by |-> o, task |-> task, text |-> drafts[page].text, files |-> drafts[page].files, plan |-> drafts[page].plan]
  OBVIOUS
<1>4. op' = Updated(Go(o, step), task) /\ delivered' = delivered \cup {m}
  BY <1>2, <1>20, <1>21 DEF Deliver
<1>5. m.by = o /\ m.task = task /\ m.text = drafts[page].text /\ m.files = drafts[page].files /\ m.plan = drafts[page].plan
  BY <1>21
<1>6. task \in Pages
  BY <1>20, PageNames DEF Made, RendererInv, PageTyped
<1>7. page \in Pages /\ drafts \in [Pages -> Drafted] /\ drafts[page] \in Drafted /\ Blank \in Drafted
  BY DEF RendererInv, PageTyped, Blank, Drafted
<1>8. /\ drafts' \in [Pages -> Drafted] /\ UNCHANGED meddled
      /\ \A p \in Pages : drafts'[p] = IF p = page THEN Blank ELSE drafts[p]
  BY <1>1, <1>7 DEF Puts
<1>9. page' \in Pages
  BY <1>1, <1>6, <1>20
<1>10. task = IF page = NewTask THEN o ELSE page
  BY <1>20 DEF Made
<1>11. Shape(op)' /\ Moved(o, step) /\ News(task) /\ SameResults
  BY <1>4, WentUpdated DEF RendererInv
<1>12. m.text \subseteq Ops \cup {Slash} /\ m.files \subseteq Ops /\ m.plan \subseteq Ops
  BY <1>5, <1>7 DEF Drafted
<1>13. ASSUME NEW q \in Ops, q \in m.text
       PROVE  /\ op'[q].at \notin Untyped /\ \A p \in Pages : q \notin drafts'[p].text
              /\ \A d \in delivered : q \notin d.text
  <2>1. op[q].at \notin Untyped
    BY <1>5, <1>7, <1>13 DEF RendererInv, InOnePlace
  <2>2. op'[q].at \notin Untyped
    BY <1>3, <1>11, <2>1 DEF Moved, Untyped
  <2>3. \A p \in Pages : q \notin drafts'[p].text
    BY <1>5, <1>7, <1>8, <1>13 DEF RendererInv, InOnePlace, Blank
  <2>4. \A d \in delivered : q \notin d.text
    BY <1>5, <1>7, <1>13 DEF RendererInv, InOnePlace
  <2> QED
    BY <2>2, <2>3, <2>4
<1>14. ASSUME NEW q \in m.files \cup m.plan PROVE op'[q].at \notin {"idle", "navigate"}
  <2>1. q \in Ops /\ op[q].at \notin {"idle", "navigate"}
    BY <1>5, <1>7, <1>12 DEF RendererInv, NotBefore
  <2> QED
    BY <1>3, <1>11, <2>1 DEF Moved
<1>15. ASSUME o \notin meddled PROVE Meant(m)'
  <2>1. FoundBy(o)
    BY <1>1, <1>15 DEF RendererInv, ByItself, AtPage, OnPage
  <2>2. m.text = {o} /\ (o \in m.files <=> op[o].files = TRUE) /\ (o \in m.plan <=> op[o].mode = "plan")
    BY <1>1, <1>5, <2>1 DEF FoundBy
  <2>3. /\ op'[o].kind = op[o].kind /\ op'[o].task = op[o].task /\ op'[o].mode = op[o].mode /\ op'[o].files = op[o].files
    BY <1>11 DEF Moved
  <2>4. m.task = (IF op[o].kind = "new" THEN o ELSE op[o].task)
    <3>1. page = (IF op[o].kind = "new" THEN NewTask ELSE op[o].task)
      BY <2>1 DEF FoundBy, Target
    <3>2. op[o].task # NewTask
      BY <1>1, PageNames DEF RendererInv, PageTyped
    <3> QED
      BY <1>5, <1>10, <3>1, <3>2
  <2>5. \A q \in (m.files \cup m.plan) \ {o} : op'[q].at \notin OnPage
    BY <1>11, <1>12, <2>1 DEF FoundBy, AtPage, Moved
  <2>6. m.by = o
    BY <1>5
  <2> QED
    BY <2>2, <2>3, <2>4, <2>5, <2>6 DEF Meant
<1>16. \A p \in Pages : drafts'[p] \in {drafts[p], Blank}
  BY <1>8
<1>17. PageTyped' /\ InOnePlace' /\ NotBefore' /\ AsMeant'
  <2>1. m.by = o
    BY <1>5
  <2> QED
    BY <1>1, <1>3, <1>4, <1>8, <1>9, <1>11, <1>12, <1>13, <1>14, <1>15, <1>16, <2>1, DeliverKept
<1>18. ByItself'
  BY <1>1, <1>3, <1>8, <1>11, AloneKept DEF OnPage
<1>19. MadeByMessage' /\ TakenFor'
  <2>1. Got(task)' # {}
    BY <1>4, <1>5 DEF Got
  <2>2. \A q \in Ops \ {o} : op'[q].result = op[q].result
    BY <1>11 DEF SameResults
  <2>3. delivered \subseteq delivered'
    BY <1>4
  <2> QED
    BY <1>3, <1>11, <2>1, <2>2, <2>3, NewsKept
<1> QED
  BY <1>11, <1>17, <1>18, <1>19 DEF RendererInv

LEMMA SubmitNothingStep ==
  ASSUME RendererInv, NEW o \in Ops, SubmitDoesNothing(o)
  PROVE  RendererInv'
<1>1. op[o].at = "submit" /\ UNCHANGED <<page, drafts, recent, delivered, meddled>>
  BY DEF SubmitDoesNothing
<1>2. PICK step \in {AfterSubmit(o), "failed"} : op' = Go(o, step)
  BY DEF SubmitDoesNothing, Ambiguous
<1>3. step \in {"confirm", "done", "failed"} /\ (step # "done" \/ op[o].kind # "new")
  BY DEF AfterSubmit, Sends
<1> QED
  BY <1>1, <1>2, <1>3, LeavesStep DEF OnPage

LEMMA ConfirmStep ==
  ASSUME RendererInv, NEW o \in Ops, Confirm(o)
  PROVE  RendererInv'
<1>1. op[o].at = "confirm" /\ UNCHANGED <<page, drafts, recent, delivered, meddled>>
  BY DEF Confirm
<1>2. ASSUME NEW task, Confirmed(o, task), op[o].kind = "new" => task \in op[o].updated
      PROVE  RendererInv'
  <2>1. Shape(op)' /\ Moved(o, "done") /\ SameNews /\ Results(o, task)
    BY <1>2, ConfirmedStep DEF RendererInv
  <2>2. "done" \in OpSteps \ {"idle", "navigate"} /\ "done" \notin OnPage /\ "done" \notin Untyped /\ page' \in Pages
    BY <1>1 DEF OpSteps, OnPage, Untyped, RendererInv, PageTyped
  <2>3. PageTyped' /\ InOnePlace' /\ NotBefore' /\ AsMeant'
    BY <1>1, <2>1, <2>2, RestKept
  <2>4. ByItself'
    BY <1>1, <2>1, <2>2, AloneKept
  <2>5. \A q \in Ops \ {o} : op'[q].result = op[q].result
    BY <2>1 DEF Results
  <2>6. ASSUME op[o].kind = "new", op'[o].updated \subseteq {o}
        PROVE  op'[o].result = o /\ Got(o)' # {}
    <3>1. task = o /\ o \in op[o].updated
      BY <1>2, <2>1, <2>6 DEF SameNews
    <3>2. Got(o) # {}
      BY <3>1 DEF RendererInv, MadeByMessage
    <3> QED
      BY <1>1, <2>1, <3>1, <3>2 DEF Results, Got
  <2>7. News(NewTask) /\ NewTask \notin Ops
    BY <2>1, PageNames DEF SameNews, News
  <2>8. MadeByMessage' /\ TakenFor'
    BY <1>1, <2>1, <2>5, <2>6, <2>7, NewsKept
  <2> QED
    BY <2>1, <2>3, <2>4, <2>8 DEF RendererInv
<1>3. CASE op[o].kind = "send" /\ Confirmed(o, op[o].task)
  BY <1>2, <1>3
<1>4. CASE op[o].kind = "new" /\ \E n \in Candidates(o) : Confirmed(o, recent[n])
  <2>1. PICK n \in Candidates(o) : Confirmed(o, recent[n])
    BY <1>4
  <2>2. recent[n] \in op[o].updated
    BY DEF Candidates
  <2> QED
    BY <1>2, <2>1, <2>2
<1>5. CASE op' = Go(o, "failed")
  BY <1>1, <1>5, LeavesStep
<1> QED
  BY <1>3, <1>4, <1>5 DEF Confirm, Ambiguous

LEMMA AskServerStep ==
  ASSUME RendererInv, NEW o \in Ops, AskServer(o)
  PROVE  RendererInv'
<1>3. PICK task : task = IF op[o].kind = "new" THEN o ELSE op[o].task
  OBVIOUS
<1>11. PICK own : own = [text |-> {o}, files |-> IF op[o].files THEN {o} ELSE {}, plan |-> IF op[o].mode = "plan" THEN {o} ELSE {}]
  OBVIOUS
<1>12. PICK m : m = [by |-> o, task |-> task, text |-> own.text, files |-> own.files, plan |-> own.plan]
  OBVIOUS
<1>1. op[o].at = "server" /\ UNCHANGED <<page, drafts, meddled>>
  BY DEF AskServer
<1>2. /\ m.by = o /\ m.task = task /\ m.text = {o} /\ m.files \subseteq {o} /\ m.plan \subseteq {o}
      /\ o \in m.files <=> op[o].files = TRUE
      /\ o \in m.plan <=> op[o].mode = "plan"
  BY <1>11, <1>12 DEF RendererInv, PageTyped
<1>4. \/ Deliver(o, task, own, WithResult(o, task))
      \/ Deliver(o, task, own, Go(o, "failed"))
      \/ ~Sends(o) /\ op' = Go(o, "done") /\ UNCHANGED <<recent, delivered>>
      \/ op' = Go(o, "failed") /\ UNCHANGED <<recent, delivered>>
  BY <1>3, <1>11 DEF AskServer, WithResult
<1>5. \A ops : Deliver(o, task, own, ops) => op' = Updated(ops, task) /\ delivered' = delivered \cup {m}
  BY <1>12 DEF Deliver
<1>6. ASSUME NEW step \in {"done", "failed"}, Shape(op)', Moved(o, step), News(task), delivered' = delivered \cup {m},
             \A q \in Ops \ {o} : op'[q].result = op[q].result, step = "done" => op'[o].result = task
      PROVE  RendererInv'
  <2>1. step \notin OnPage /\ step \notin Untyped /\ step \in {"confirm", "done", "failed"}
    BY DEF OnPage, Untyped
  <2>2. /\ page' \in Pages /\ drafts' \in [Pages -> Drafted] /\ \A p \in Pages : drafts'[p] \in {drafts[p], Blank}
    BY <1>1 DEF RendererInv, PageTyped
  <2>3. m.text \subseteq Ops \cup {Slash} /\ m.files \subseteq Ops /\ m.plan \subseteq Ops
    BY <1>2
  <2>4. op'[o].at = step
    BY <1>6 DEF Moved
  <2>5. \A q \in Ops : q \in m.text =>
          /\ op'[q].at \notin Untyped /\ \A p \in Pages : q \notin drafts'[p].text
          /\ \A d \in delivered : q \notin d.text
    BY <1>1, <1>2, <2>1, <2>4 DEF RendererInv, InOnePlace, Untyped
  <2>6. \A q \in m.files \cup m.plan : op'[q].at \notin {"idle", "navigate"}
    BY <1>2, <2>1, <2>4 DEF Untyped
  <2>7. Meant(m)'
    <3>1. /\ op'[o].kind = op[o].kind /\ op'[o].task = op[o].task /\ op'[o].mode = op[o].mode /\ op'[o].files = op[o].files
      BY <1>6 DEF Moved
    <3>2. (m.files \cup m.plan) \ {o} = {}
      BY <1>2
    <3> QED
      BY <1>2, <1>3, <3>1, <3>2 DEF Meant
  <2>8. PageTyped' /\ InOnePlace' /\ NotBefore' /\ AsMeant'
    <3>1. m.by = o /\ op[o].at \in {"submit", "server"}
      BY <1>1, <1>2
    <3> QED
      BY <1>1, <1>6, <2>1, <2>2, <2>3, <2>5, <2>6, <2>7, <3>1, DeliverKept
  <2>9. ByItself'
    BY <1>1, <1>6, <2>1, AloneKept
  <2>10. MadeByMessage' /\ TakenFor'
    <3>1. Got(task)' # {}
      BY <1>2, <1>6 DEF Got
    <3>2. step = "done" /\ op[o].kind = "new" /\ op'[o].updated \subseteq {o} => op'[o].result = o /\ Got(o)' # {}
      BY <1>3, <1>6, <3>1
    <3>3. delivered \subseteq delivered'
      BY <1>6
    <3> QED
      BY <1>6, <3>1, <3>2, <3>3, NewsKept
  <2> QED
    BY <1>6, <2>8, <2>9, <2>10 DEF RendererInv
<1>7. CASE Deliver(o, task, own, WithResult(o, task))
  <2>1. Shape(op)' /\ Moved(o, "done") /\ News(task) /\ Results(o, task)
    BY <1>5, <1>7, ConfirmedUpdated DEF RendererInv
  <2> QED
    BY <1>5, <1>6, <1>7, <2>1 DEF Results
<1>8. CASE Deliver(o, task, own, Go(o, "failed"))
  <2>1. Shape(op)' /\ Moved(o, "failed") /\ News(task) /\ SameResults
    BY <1>5, <1>8, WentUpdated DEF RendererInv
  <2> QED
    BY <1>5, <1>6, <1>8, <2>1 DEF SameResults
<1>9. CASE ~Sends(o) /\ op' = Go(o, "done") /\ UNCHANGED <<recent, delivered>>
  <2>1. op[o].kind # "new"
    BY <1>9 DEF Sends
  <2> QED
    BY <1>1, <1>9, <2>1, LeavesStep
<1>10. CASE op' = Go(o, "failed") /\ UNCHANGED <<recent, delivered>>
  BY <1>1, <1>10, LeavesStep
<1> QED
  BY <1>4, <1>7, <1>8, <1>9, <1>10

\* What others do.
LEMMA TaskUpdatedStep ==
  ASSUME RendererInv, TaskUpdated
  PROVE  RendererInv'
<1>1. PICK task \in Tasks : op' = Updated(op, task)
  BY DEF TaskUpdated
<1>2. UNCHANGED <<page, drafts, delivered, meddled>> /\ task \notin Ops
  BY PageNames DEF TaskUpdated
<1>3. /\ Shape(op)' /\ News(task) /\ SameResults
      /\ \A q \in Ops : /\ op'[q].kind = op[q].kind /\ op'[q].task = op[q].task /\ op'[q].mode = op[q].mode
                        /\ op'[q].files = op[q].files /\ op'[q].at = op[q].at
  BY <1>1, UpdatedStep DEF RendererInv
<1>4. PageTyped'
  <2>1. drafts' \in [Pages -> Drafted]' /\ page' \in Pages'
    BY <1>2 DEF RendererInv, PageTyped, Drafted, Pages, Ops, Slash
  <2> QED
    BY <1>2, <1>3, <2>1 DEF RendererInv, PageTyped
<1>5. InOnePlace' /\ NotBefore'
  BY <1>2, <1>3 DEF RendererInv, InOnePlace, NotBefore
<1>6. AtPage' = AtPage
  BY <1>3 DEF AtPage, Ops
<1>7. ByItself'
  <2> SUFFICES ASSUME NEW q \in AtPage, q \notin meddled PROVE FoundBy(q)'
    BY <1>2, <1>6 DEF ByItself
  <2>1. FoundBy(q) /\ q \in Ops
    BY DEF RendererInv, ByItself, AtPage
  <2>2. Target(q)' = Target(q)
    BY <1>3, <2>1 DEF Target
  <2> QED
    BY <1>2, <1>3, <1>6, <2>1, <2>2 DEF FoundBy
<1>8. AsMeant'
  <2> SUFFICES ASSUME NEW d \in delivered, d.by \notin meddled PROVE Meant(d)'
    BY <1>2 DEF AsMeant
  <2>1. Meant(d) /\ d.by \in Ops /\ d.files \subseteq Ops /\ d.plan \subseteq Ops
    BY DEF RendererInv, AsMeant, PageTyped
  <2> QED
    BY <1>3, <2>1 DEF Meant
<1>9. MadeByMessage'
  BY <1>2, <1>3 DEF RendererInv, MadeByMessage, News, Got
<1>10. TakenFor'
  <2> SUFFICES ASSUME NEW q \in Ops, op'[q].at = "done", op'[q].kind = "new", op'[q].updated \subseteq {q}
               PROVE  op'[q].result = q /\ Got(q)' # {}
    BY DEF TakenFor
  <2>1. op[q].at = "done" /\ op[q].kind = "new" /\ op[q].updated \subseteq {q} /\ op'[q].result = op[q].result
    BY <1>3 DEF News, SameResults
  <2> QED
    BY <1>2, <2>1 DEF RendererInv, TakenFor, Got
<1> QED
  BY <1>3, <1>4, <1>5, <1>7, <1>8, <1>9, <1>10 DEF RendererInv

LEMMA UserTurnsPageStep ==
  ASSUME RendererInv, UserTurnsPage
  PROVE  RendererInv'
<1>1. page' \in Pages /\ meddled' = meddled \cup AtPage /\ UNCHANGED <<drafts, op, recent, delivered>>
  BY PageNames DEF UserTurnsPage
<1>2. PageTyped'
  BY <1>1 DEF RendererInv, PageTyped, Drafted, Pages, Ops, Slash
<1>3. ByItself'
  BY <1>1 DEF ByItself, AtPage, Ops
<1>4. AsMeant'
  BY <1>1 DEF RendererInv, AsMeant, Meant
<1>5. Shape(op)' /\ InOnePlace' /\ NotBefore' /\ MadeByMessage' /\ TakenFor'
  BY <1>1 DEF RendererInv, Shape, InOnePlace, NotBefore, MadeByMessage, TakenFor, Got, Ops
<1> QED
  BY <1>2, <1>3, <1>4, <1>5 DEF RendererInv

LEMMA RendererKept ==
  ASSUME RendererInv, RendererNext \/ UNCHANGED rendererVars
  PROVE  RendererInv'
<1>1. CASE UNCHANGED rendererVars
  <2>1. UNCHANGED <<page, drafts, op, delivered, meddled>>
    BY <1>1 DEF rendererVars
  <2>2. PageTyped'
    BY <2>1 DEF RendererInv, PageTyped, Drafted, Pages, Ops, Slash
  <2>3. ByItself'
    BY <2>1 DEF RendererInv, ByItself, FoundBy, AtPage, Target, Ops
  <2>4. AsMeant'
    BY <2>1 DEF RendererInv, AsMeant, Meant
  <2>5. InOnePlace' /\ NotBefore'
    BY <2>1 DEF RendererInv, InOnePlace, NotBefore, Pages, Ops
  <2>6. Shape(op)' /\ MadeByMessage' /\ TakenFor'
    BY <2>1 DEF RendererInv, Shape, MadeByMessage, TakenFor, Got, Ops
  <2> QED
    BY <2>2, <2>3, <2>4, <2>5, <2>6 DEF RendererInv
<1>2. CASE OpStep
  <2>1. PICK o \in Ops :
          \/ Begin(o) \/ Navigate(o) \/ NavigateFails(o) \/ PrepareTurnMode(o) \/ AttachFiles(o) \/ FilesAttached(o)
          \/ Focus(o) \/ InsertText(o) \/ Submit(o) \/ SubmitDoesNothing(o) \/ Confirm(o) \/ AskServer(o)
    BY <1>2 DEF OpStep
  <2> QED
    BY <2>1, RequestBegins, NavigateStep, NavigateFailsStep, PrepareStep, AttachStep, AttachedStep, FocusStep, InsertStep,
       SubmitStep, SubmitNothingStep, ConfirmStep, AskServerStep
<1> QED
  BY <1>1, <1>2, TaskUpdatedStep, UserTurnsPageStep DEF RendererNext

\* Whatever fails and whichever way is taken, a text is delivered once; where an
\* operation has had the page of the official client to itself, its message is
\* delivered as meant; a request for a new task is answered with the one that was
\* made (CodexService.#startTurn and #steerTurn over CdpClient).
THEOREM SentWhereMeant == Spec => []SubmittedWhereMeant
<1>1. Init => RendererInv
  BY RendererInitially DEF Init
<1>2. RendererInv /\ [Next]_vars => RendererInv'
  BY PageSteps, RendererKept
<1>3. RendererInv => SubmittedWhereMeant
  <2> SUFFICES ASSUME RendererInv PROVE SubmittedWhereMeant
    OBVIOUS
  <2>1. ASSUME NEW o \in Ops PROVE Cardinality({d \in delivered : o \in d.text}) <= 1
    <3> DEFINE with == {d \in delivered : o \in d.text}
    <3>1. CASE with = {}
      BY <3>1, FS_EmptySet
    <3>2. CASE with # {}
      <4>1. PICK d : d \in with
        BY <3>2
      <4>2. with = {d}
        BY <4>1 DEF RendererInv, InOnePlace
      <4>3. Cardinality({d}) = 1
        BY FS_Singleton
      <4> QED
        BY <4>2, <4>3
    <3> QED
      BY <3>1, <3>2
  <2>2. ASSUME NEW d \in delivered, d.by \notin meddled
        PROVE  /\ d.text = {d.by} /\ d.task = (IF op[d.by].kind = "new" THEN d.by ELSE op[d.by].task)
               /\ (d.by \in d.files) = op[d.by].files /\ (d.by \in d.plan) = (op[d.by].mode = "plan")
               /\ \A q \in (d.files \cup d.plan) \ {d.by} : op[q].at \notin OnPage
    <3>1. Meant(d) /\ d.by \in Ops
      BY <2>2 DEF RendererInv, AsMeant, PageTyped
    <3>2. op[d.by].files \in BOOLEAN
      BY <3>1 DEF RendererInv, PageTyped
    <3>3. (d.by \in d.files) = op[d.by].files
      BY <3>1, <3>2 DEF Meant
    <3>4. (d.by \in d.plan) = (op[d.by].mode = "plan")
      BY <3>1 DEF Meant
    <3> QED
      BY <3>1, <3>3, <3>4 DEF Meant
  <2>3. \A o \in {p \in Ops \ meddled : op[p].at = "done" /\ op[p].kind = "new"} :
          op[o].updated \subseteq {o} => op[o].result = o /\ Got(o) # {}
    BY DEF RendererInv, TakenFor
  <2> QED
    BY <2>1, <2>2, <2>3 DEF SubmittedWhereMeant
<1> QED
  BY <1>1, <1>2, <1>3, PTL DEF Spec

-----------------------------------------------------------------------------
(* The web page (WebClient)                                                *)

Maybe(S) == {<<>>} \cup {<<x>> : x \in S}
Written == [said : Seq(Texts \cup {Other}), text : Nat]
Places == PageTasks \cup {Nothing}
Opening == [task : PageTasks, previous : Places, had : Maybe(Written)]
Sending == [at : SendSteps, text : Texts \cup {Other}, typed : Places, task : Places, reads : Places,
            sent : BOOLEAN, accepted : BOOLEAN, lost : BOOLEAN, twin : BOOLEAN]
WebTyped ==
  /\ tasks \in [PageTasks -> Written] /\ waiting \in [PageTasks -> Nat] /\ cached \in [PageTasks -> Maybe(Written)]
  /\ pane \in [task : Places, seen : Written] /\ open \in Maybe(Opening)
  /\ queue \in [task : Places, shown : Nat, known : BOOLEAN, asked : BOOLEAN]
  /\ send \in Sending
  /\ selected \in Places /\ retry \in Places /\ {online, opening, moved, stale} \subseteq BOOLEAN

\* What is shown of a task, or kept to be shown, is how it once was: its messages
\* only get more.
Begins(s, t) == Len(s) <= Len(t) /\ \A i \in 1..Len(s) : s[i] = t[i]
OnceSo ==
  /\ tasks[Fresh].said = <<>>
  /\ \A t \in PageTasks : cached[t] # <<>> => Begins(cached[t][1].said, tasks[t].said)
  /\ pane.task # Nothing => Begins(pane.seen.said, tasks[pane.task].said)
  /\ open # <<>> /\ open[1].had # <<>> => Begins(open[1].had[1].said, tasks[open[1].task].said)
\* A task that is being opened is the one selected, and its queue the one shown.
OpensSelected ==
  open # <<>> => selected = open[1].task /\ queue.task = open[1].task /\ (open[1].had = <<>> => opening)
\* A page that has lost its connection opens the selected task again.
OpensAgain == IF online THEN retry = Nothing ELSE retry = Nothing => selected = Nothing
SendsTyped ==
  send.at # "idle" =>
    /\ send.text \in Texts /\ send.typed \in PageTasks /\ (send.lost \/ online)
    /\ send.accepted => send.at # "usage" /\ send.task \in PageTasks
    /\ send.accepted \/ send.twin \/ LastSaid(send.typed) # send.text
    /\ ~moved => /\ ~opening /\ selected = send.typed
                 /\ send.at # "usage" => send.task = send.typed
                 /\ send.at = "recovering" => send.reads = send.typed
QueueShown == (queue.known \/ queue.asked => queue.task # Nothing) /\ QueueAsIs
\* The pane, while the task it shows is being opened with what was kept of it.
PaneShown ==
  /\ ShownAsIs
  /\ ~moved /\ open # <<>> /\ open[1].had # <<>> => /\ pane.task = open[1].task
                                                   /\ Len(pane.seen.said) >= Len(open[1].had[1].said)
WebInv ==
  WebTyped /\ OnceSo /\ OpensSelected /\ OpensAgain /\ SendsTyped /\ QueueShown /\ PaneShown /\ report.right

LEMMA BeginsSelf == ASSUME NEW S, NEW s \in Seq(S) PROVE Begins(s, s)
<1>1. Len(s) \in Nat
  BY LenProperties
<1> QED
  BY <1>1 DEF Begins

LEMMA BeginsMore ==
  ASSUME NEW S, NEW a \in Seq(S), NEW b \in Seq(S), NEW c \in Seq(S), Begins(a, b), Begins(b, c)
  PROVE  Begins(a, c)
<1>1. Len(a) \in Nat /\ Len(b) \in Nat /\ Len(c) \in Nat
  BY LenProperties
<1> QED
  BY <1>1 DEF Begins

LEMMA BeginsAll ==
  ASSUME NEW S, NEW a \in Seq(S), NEW b \in Seq(S), Begins(a, b), Len(a) >= Len(b)
  PROVE  a = b
<1>1. Len(a) \in Nat /\ Len(b) \in Nat
  BY LenProperties
<1>2. Len(a) = Len(b) /\ \A i \in 1..Len(a) : a[i] = b[i]
  BY <1>1 DEF Begins
<1> QED
  BY <1>2, SeqEqual

LEMMA BeginsNothing ==
  ASSUME NEW S, NEW a \in Seq(S), Begins(a, <<>>)
  PROVE  a = <<>>
<1>1. Len(a) \in Nat /\ Len(a) <= 0
  BY LenProperties DEF Begins
<1> QED
  BY <1>1, EmptySeq

LEMMA BeginsAppend ==
  ASSUME NEW S, NEW s \in Seq(S), NEW x \in S
  PROVE  /\ Append(s, x) \in Seq(S) /\ Begins(s, Append(s, x)) /\ Append(s, x) # <<>>
         /\ Last(Append(s, x)) = x
<1>1. /\ Append(s, x) \in Seq(S) /\ Len(Append(s, x)) = Len(s) + 1 /\ Len(s) \in Nat
      /\ \A i \in 1..Len(s) : Append(s, x)[i] = s[i]
      /\ Append(s, x)[Len(s) + 1] = x
  BY AppendProperties, LenProperties
<1>2. Append(s, x) # <<>>
  BY <1>1
<1> QED
  BY <1>1, <1>2 DEF Begins, Last

LEMMA WebNames ==
  /\ Fresh # Canonical /\ Fresh \notin Listed /\ Canonical \notin Listed /\ Nothing \notin PageTasks
  /\ Fresh \in PageTasks /\ Canonical \in PageTasks /\ Listed \subseteq PageTasks
  /\ Other \notin Texts /\ Nothing \notin Texts
  /\ \A t \in PageTasks : Named(t) \in PageTasks \ {Fresh} /\ (t # Fresh => Named(t) = t)
<1>1. /\ Fresh # Canonical /\ Fresh \notin Listed /\ Canonical \notin Listed /\ Nothing \notin PageTasks
      /\ Other \notin Texts /\ Nothing \notin Texts
  BY WebClientAssumption DEF PageTasks
<1> QED
  BY <1>1 DEF PageTasks, Named

LEMMA MaybeOne ==
  ASSUME NEW S, NEW x \in Maybe(S), x # <<>>
  PROVE  x[1] \in S /\ x = <<x[1]>>
  BY DEF Maybe

\* What holds whatever is being sent.
WebRest == OnceSo /\ OpensSelected /\ OpensAgain /\ QueueShown /\ PaneShown

LEMMA OnlySends ==
  ASSUME WebInv, UNCHANGED <<tasks, waiting, online, selected, pane, opening, cached, open, retry, queue, moved, stale>>
  PROVE  WebRest' /\ (send' \in Sending => WebTyped')
<1>1. UNCHANGED <<tasks, pane, cached, open>> => OnceSo'
  BY DEF WebInv, OnceSo
<1>2. OpensSelected' /\ OpensAgain'
  BY DEF WebInv, OpensSelected, OpensAgain
<1>3. QueueShown'
  BY DEF WebInv, QueueShown, QueueAsIs
<1>4. PaneShown'
  BY DEF WebInv, PaneShown, ShownAsIs
<1>5. send' \in Sending => WebTyped'
  BY DEF WebInv, WebTyped
<1> QED
  BY <1>1, <1>2, <1>3, <1>4, <1>5 DEF WebRest

LEMMA SendingFields ==
  ASSUME WebInv
  PROVE  /\ send.at \in SendSteps /\ send.text \in Texts \cup {Other} /\ {send.typed, send.task, send.reads} \subseteq Places
         /\ {send.sent, send.accepted, send.lost, send.twin} \subseteq BOOLEAN
         /\ send = [at |-> send.at, text |-> send.text, typed |-> send.typed, task |-> send.task, reads |-> send.reads,
                    sent |-> send.sent, accepted |-> send.accepted, lost |-> send.lost, twin |-> send.twin]
  BY DEF WebInv, WebTyped, Sending

LEMMA SendEndsKept ==
  ASSUME NEW how, NEW so, SendEnds(how, so), so
  PROVE  send' \in Sending /\ SendsTyped' /\ report'.right
<1>1. send' = Unsent /\ report'.right
  BY DEF SendEnds
<1>2. Unsent \in Sending /\ Unsent.at = "idle"
  BY DEF Unsent, Sending, SendSteps, Places
<1> QED
  BY <1>1, <1>2 DEF SendsTyped

-----------------------------------------------------------------------------
(* Steps that only send                                                    *)

LEMMA WebWhole ==
  ASSUME WebTyped', WebRest', SendsTyped', report'.right
  PROVE  WebInv'
  BY DEF WebInv, WebRest

LEMMA EndsStep ==
  ASSUME WebInv, NotSent \/ QueueFails \/ RecoverFails
  PROVE  WebInv'
<1>1. UNCHANGED <<tasks, waiting, online, selected, pane, opening, cached, open, retry, queue, moved, stale>>
  BY DEF NotSent, QueueFails, RecoverFails
<1>2. \E how \in {"none", "failed"} : SendEnds(how, TRUE)
  BY DEF NotSent, QueueFails, RecoverFails
<1>3. send' \in Sending /\ SendsTyped' /\ report'.right
  BY <1>2, SendEndsKept
<1> QED
  BY <1>1, <1>3, OnlySends, WebWhole

LEMMA TypeStep ==
  ASSUME WebInv, TypePrompt
  PROVE  WebInv'
<1>1. /\ UNCHANGED <<tasks, waiting, online, selected, pane, opening, cached, open, retry, queue, moved, stale>>
      /\ online /\ ~opening /\ selected # Nothing /\ report' = NoReport
  BY DEF TypePrompt
<1>2. PICK text \in Texts :
        send' = [Unsent EXCEPT !.at = "usage", !.text = text, !.typed = selected, !.twin = (LastSaid(selected) = text)]
  BY DEF TypePrompt
<1>3. selected \in PageTasks
  BY <1>1 DEF WebInv, WebTyped, Places
<1> DEFINE twin == LastSaid(selected) = text
<1>4. send' = [at |-> "usage", text |-> text, typed |-> selected, task |-> Nothing, reads |-> Nothing,
               sent |-> FALSE, accepted |-> FALSE, lost |-> FALSE, twin |-> twin]
  BY <1>2 DEF Unsent
<1>5. twin \in BOOLEAN
  OBVIOUS
<1>6. send' \in Sending
  <2> HIDE DEF twin
  <2> QED
    BY <1>3, <1>4, <1>5 DEF Sending, SendSteps, Places
<1>7. send'.at = "usage" /\ send'.text = text /\ send'.typed = selected /\ send'.accepted = FALSE
  BY <1>4
<1>8. send'.twin \/ LastSaid(selected) # text
  <2>1. CASE LastSaid(selected) = text
    <3>1. twin
      BY <2>1
    <3>2. send'.twin = twin
      <4> HIDE DEF twin
      <4> QED
        BY <1>4
    <3> QED
      BY <3>1, <3>2
  <2> QED
    BY <2>1
<1>9. SendsTyped'
  <2>1. LastSaid(selected)' = LastSaid(selected)
    BY <1>1 DEF LastSaid
  <2> QED
    BY <1>1, <1>3, <1>7, <1>8, <2>1 DEF SendsTyped, LastSaid
<1>10. report'.right
  BY <1>1 DEF NoReport
<1> QED
  BY <1>1, <1>6, <1>9, <1>10, OnlySends, WebWhole

LEMMA SendsPromptStep ==
  ASSUME WebInv, SendsPrompt
  PROVE  WebInv'
<1>1. /\ UNCHANGED <<tasks, waiting, online, selected, pane, opening, cached, open, retry, queue, moved, stale, report>>
      /\ send.at = "usage"
  BY DEF SendsPrompt
<1>2. PICK step \in {"queueing", "starting"} :
        send' = [send EXCEPT !.at = step, !.task = selected, !.sent = online, !.lost = ~online]
  BY DEF SendsPrompt
<1>3. send' = [at |-> step, text |-> send.text, typed |-> send.typed, task |-> selected, reads |-> send.reads,
               sent |-> online, accepted |-> send.accepted, lost |-> ~online, twin |-> send.twin]
  BY <1>2, SendingFields
<1>4. selected \in Places /\ online \in BOOLEAN /\ step \in SendSteps
  BY DEF WebInv, WebTyped, SendSteps
<1>5. send' \in Sending
  BY <1>3, <1>4, SendingFields DEF Sending
<1>6. /\ send'.at = step /\ send'.text = send.text /\ send'.typed = send.typed /\ send'.task = selected
      /\ send'.accepted = send.accepted /\ send'.twin = send.twin
  BY <1>3
<1>7. send'.lost \/ online
  BY <1>3, <1>4
<1>8. SendsTyped'
  BY <1>1, <1>6, <1>7 DEF WebInv, SendsTyped, LastSaid
<1>9. report'.right
  BY <1>1 DEF WebInv
<1> QED
  BY <1>1, <1>5, <1>8, <1>9, OnlySends, WebWhole

LEMMA StartFailsStep ==
  ASSUME WebInv, StartFails
  PROVE  WebInv'
<1>1. /\ UNCHANGED <<tasks, waiting, online, selected, pane, opening, cached, open, retry, queue, moved, stale, report>>
      /\ send.at = "starting"
  BY DEF StartFails
<1>2. PICK refused \in BOOLEAN :
        send' = [send EXCEPT !.at = "recovering", !.reads = selected, !.sent = @ /\ ~refused, !.lost = ~online]
  BY DEF StartFails
<1>3. send' = [at |-> "recovering", text |-> send.text, typed |-> send.typed, task |-> send.task, reads |-> selected,
               sent |-> send.sent /\ ~refused, accepted |-> send.accepted, lost |-> ~online, twin |-> send.twin]
  BY <1>2, SendingFields
<1>4. selected \in Places /\ online \in BOOLEAN /\ "recovering" \in SendSteps
  BY DEF WebInv, WebTyped, SendSteps
<1>5. send' \in Sending
  BY <1>3, <1>4, SendingFields DEF Sending
<1>6. /\ send'.at = "recovering" /\ send'.text = send.text /\ send'.typed = send.typed /\ send'.task = send.task
      /\ send'.accepted = send.accepted /\ send'.twin = send.twin /\ send'.reads = selected
  BY <1>3
<1>7. send'.lost \/ online
  BY <1>3, <1>4
<1>8. SendsTyped'
  BY <1>1, <1>6, <1>7 DEF WebInv, SendsTyped, LastSaid
<1>9. report'.right
  BY <1>1 DEF WebInv
<1> QED
  BY <1>1, <1>5, <1>8, <1>9, OnlySends, WebWhole

-----------------------------------------------------------------------------
(* Steps by which a task goes on                                           *)

\* A message is added to a task, or one grows.
LEMMA BecomesKept ==
  ASSUME WebInv, NEW task \in PageTasks \ {Fresh}, NEW new \in Written, Begins(tasks[task].said, new.said), Becomes(task, new),
         UNCHANGED <<online, selected, opening, open, moved, stale>>
  PROVE  /\ tasks' \in [PageTasks -> Written] /\ cached' \in [PageTasks -> Maybe(Written)] /\ pane' \in [task : Places, seen : Written]
         /\ OnceSo' /\ PaneShown'
<1>1. /\ tasks \in [PageTasks -> Written] /\ cached \in [PageTasks -> Maybe(Written)]
      /\ pane \in [task : Places, seen : Written] /\ online \in BOOLEAN /\ open \in Maybe(Opening)
  BY DEF WebInv, WebTyped
<1>2. tasks' = [tasks EXCEPT ![task] = new]
  BY DEF Becomes
<1>3. /\ cached' \in [PageTasks -> Maybe(Written)]
      /\ \A t \in PageTasks : cached'[t] = cached[t] \/ cached'[t] = <<>>
  BY <1>1 DEF Becomes, Maybe
<1>4. \/ online /\ task = selected /\ pane.task = task /\ pane' = [pane EXCEPT !.seen = new]
      \/ ~(online /\ task = selected /\ pane.task = task) /\ pane' = pane
  BY DEF Becomes
<1>5. tasks' \in [PageTasks -> Written] /\ \A t \in PageTasks : tasks'[t] = IF t = task THEN new ELSE tasks[t]
  BY <1>1, <1>2
<1>6. /\ pane' \in [task : Places, seen : Written] /\ pane'.task = pane.task
      /\ pane'.seen = pane.seen \/ (pane'.seen = new /\ pane.task = task)
  BY <1>1, <1>4
<1>7. ASSUME NEW t \in PageTasks, NEW s \in Seq(Texts \cup {Other}), Begins(s, tasks[t].said)
      PROVE  Begins(s, tasks'[t].said)
  <2>1. tasks[t].said \in Seq(Texts \cup {Other}) /\ new.said \in Seq(Texts \cup {Other})
    BY <1>1 DEF Written
  <2>2. CASE t = task
    BY <1>5, <1>7, <2>1, <2>2, BeginsMore
  <2>3. CASE t # task
    BY <1>5, <1>7, <2>3
  <2> QED
    BY <2>2, <2>3
<1>8. OnceSo'
  <2>1. tasks'[Fresh].said = <<>>
    BY <1>5, WebNames DEF WebInv, OnceSo
  <2>2. ASSUME NEW t \in PageTasks, cached'[t] # <<>> PROVE Begins(cached'[t][1].said, tasks'[t].said)
    <3>1. cached'[t] = cached[t] /\ cached[t] # <<>>
      BY <1>3, <2>2
    <3>2. cached[t][1] \in Written
      BY <1>1, <3>1, MaybeOne
    <3>3. Begins(cached[t][1].said, tasks[t].said) /\ cached[t][1].said \in Seq(Texts \cup {Other})
      BY <3>1, <3>2 DEF WebInv, OnceSo, Written
    <3> QED
      BY <1>7, <3>1, <3>3
  <2>3. ASSUME pane'.task # Nothing PROVE Begins(pane'.seen.said, tasks'[pane'.task].said)
    <3>1. pane.task \in PageTasks
      BY <1>1, <1>6, <2>3 DEF Places
    <3>2. CASE pane'.seen = pane.seen
      <4>1. pane.seen.said \in Seq(Texts \cup {Other})
        BY <1>1 DEF Written
      <4>2. Begins(pane.seen.said, tasks[pane.task].said)
        BY <1>6, <2>3 DEF WebInv, OnceSo
      <4> QED
        BY <1>6, <1>7, <3>1, <3>2, <4>1, <4>2
    <3>3. CASE pane'.seen = new /\ pane.task = task
      <4>1. new.said \in Seq(Texts \cup {Other})
        BY DEF Written
      <4> QED
        BY <1>5, <1>6, <3>3, <4>1, BeginsSelf
    <3> QED
      BY <1>6, <3>2, <3>3
  <2>4. ASSUME open # <<>>, open[1].had # <<>> PROVE Begins(open[1].had[1].said, tasks'[open[1].task].said)
    <3>1. open[1].task \in PageTasks /\ open[1].had \in Maybe(Written)
      BY <1>1, <2>4, MaybeOne DEF Opening
    <3>2. open[1].had[1].said \in Seq(Texts \cup {Other})
      BY <2>4, <3>1, MaybeOne DEF Written
    <3>3. Begins(open[1].had[1].said, tasks[open[1].task].said)
      BY <2>4 DEF WebInv, OnceSo
    <3> QED
      BY <1>7, <3>1, <3>2, <3>3
  <2> QED
    BY <2>1, <2>2, <2>3, <2>4 DEF OnceSo
<1>9. ASSUME ~moved PROVE pane.task \in {selected, Nothing} /\ (opening => open # <<>>)
  BY <1>9 DEF WebInv, PaneShown, ShownAsIs
<1>10. ASSUME ~moved, online, open = <<>>, ~stale
       PROVE  pane.task = selected /\ (selected # Nothing => pane'.seen.said = tasks'[selected].said)
  <2>1. pane.task = selected /\ (selected # Nothing => pane.seen.said = tasks[selected].said)
    BY <1>10 DEF WebInv, PaneShown, ShownAsIs
  <2>2. ASSUME selected # Nothing PROVE pane'.seen.said = tasks'[selected].said
    <3>1. selected \in PageTasks
      BY <2>2 DEF WebInv, WebTyped, Places
    <3>2. CASE selected = task
      <4>1. pane'.seen = new
        BY <1>1, <1>4, <1>10, <2>1, <3>2
      <4> QED
        BY <1>5, <3>1, <3>2, <4>1
    <3>3. CASE selected # task
      <4>1. pane' = pane
        BY <1>4, <3>3
      <4> QED
        BY <1>5, <2>1, <2>2, <3>1, <3>3, <4>1
    <3> QED
      BY <3>2, <3>3
  <2> QED
    BY <2>1, <2>2
<1>11. ASSUME ~moved, open # <<>>, open[1].had # <<>>
       PROVE  pane.task = open[1].task /\ Len(pane'.seen.said) >= Len(open[1].had[1].said)
  <2>1. pane.task = open[1].task /\ Len(pane.seen.said) >= Len(open[1].had[1].said)
    BY <1>11 DEF WebInv, PaneShown
  <2>2. CASE pane'.seen = pane.seen
    BY <2>1, <2>2
  <2>3. CASE pane'.seen = new /\ pane.task = task
    <3>1. Begins(open[1].had[1].said, tasks'[open[1].task].said)
      BY <1>8, <1>11 DEF OnceSo
    <3>2. tasks'[task] = new
      BY <1>5
    <3>3. Len(open[1].had[1].said) <= Len(new.said)
      BY <2>1, <2>3, <3>1, <3>2 DEF Begins
    <3>4. open[1].task \in PageTasks /\ open[1].had \in Maybe(Written)
      BY <1>1, <1>11, MaybeOne DEF Opening
    <3>5. open[1].had[1].said \in Seq(Texts \cup {Other}) /\ new.said \in Seq(Texts \cup {Other})
      BY <1>11, <3>4, MaybeOne DEF Written
    <3>6. Len(open[1].had[1].said) \in Nat /\ Len(new.said) \in Nat
      BY <3>5, LenProperties
    <3> QED
      BY <2>1, <2>3, <3>3, <3>6
  <2> QED
    BY <1>6, <2>2, <2>3
<1>12. PaneShown'
  <2>1. ShownAsIs'
    BY <1>6, <1>9, <1>10 DEF ShownAsIs
  <2> QED
    BY <1>6, <1>11, <2>1 DEF PaneShown
<1> QED
  BY <1>3, <1>5, <1>6, <1>8, <1>12

LEMMA QueueKept ==
  ASSUME WebInv, NEW task \in PageTasks, NEW n \in Nat, QueueBecomes(task, n), UNCHANGED <<online, selected, opening, open>>
  PROVE  /\ waiting' \in [PageTasks -> Nat]
         /\ queue' \in [task : Places, shown : Nat, known : BOOLEAN, asked : BOOLEAN]
         /\ QueueShown' /\ OpensSelected'
<1>1. /\ waiting \in [PageTasks -> Nat] /\ queue \in [task : Places, shown : Nat, known : BOOLEAN, asked : BOOLEAN]
      /\ online \in BOOLEAN /\ task \in Places /\ task # Nothing
  BY WebNames DEF WebInv, WebTyped, Places
<1>2. waiting' \in [PageTasks -> Nat] /\ \A t \in PageTasks : waiting'[t] = IF t = task THEN n ELSE waiting[t]
  BY <1>1 DEF QueueBecomes
<1>3. \/ /\ online /\ task = selected
         /\ queue' = [queue EXCEPT !.task = task, !.shown = n, !.known = TRUE]
      \/ ~(online /\ task = selected) /\ queue' = queue
  BY DEF QueueBecomes
<1>4. CASE online /\ task = selected /\ queue' = [queue EXCEPT !.task = task, !.shown = n, !.known = TRUE]
  <2>1. /\ queue' \in [task : Places, shown : Nat, known : BOOLEAN, asked : BOOLEAN]
        /\ queue'.task = task /\ queue'.shown = n
    BY <1>1, <1>4
  <2>2. QueueShown'
    BY <1>1, <1>2, <1>4, <2>1 DEF QueueShown, QueueAsIs
  <2>3. OpensSelected'
    BY <1>4, <2>1 DEF WebInv, OpensSelected
  <2> QED
    BY <1>2, <2>1, <2>2, <2>3
<1>5. CASE ~(online /\ task = selected) /\ queue' = queue
  <2>1. QueueShown'
    <3>1. ASSUME queue.known, online, queue.task = selected PROVE queue.shown = waiting'[selected]
      <4>1. selected \in PageTasks /\ selected # task /\ queue.shown = waiting[selected]
        BY <1>1, <1>5, <3>1 DEF WebInv, QueueShown, QueueAsIs, WebTyped, Places
      <4> QED
        BY <1>2, <4>1
    <3>2. QueueAsIs'
      BY <1>5, <3>1 DEF QueueAsIs
    <3> QED
      BY <1>5, <3>2 DEF WebInv, QueueShown
  <2>2. OpensSelected'
    BY <1>5 DEF WebInv, OpensSelected
  <2> QED
    BY <1>1, <1>2, <1>5, <2>1, <2>2
<1> QED
  BY <1>3, <1>4, <1>5

\* Nobody else writes what is typed here.
LEMMA SaidElsewhere ==
  ASSUME WebInv, UNCHANGED <<online, selected, opening, send, moved>>,
         \A t \in PageTasks : LastSaid(t)' \in {LastSaid(t), Other}
  PROVE  SendsTyped'
<1>1. CASE send.at = "idle"
  BY <1>1 DEF SendsTyped
<1>2. CASE send.at # "idle"
  <2>1. send.text \in Texts /\ send.typed \in PageTasks
    BY <1>2 DEF WebInv, SendsTyped
  <2>2. LastSaid(send.typed)' = LastSaid(send.typed) \/ LastSaid(send.typed)' # send.text
    <3>1. tasks'[send.typed] = tasks'[send'.typed]
      OBVIOUS
    <3>2. \A t \in PageTasks : t = send.typed => LastSaid(t)' \in {LastSaid(t), Other}
      OBVIOUS
    <3> QED
      BY <2>1, <3>2, WebNames DEF LastSaid
  <2> QED
    BY <1>2, <2>1, <2>2 DEF WebInv, SendsTyped
<1> QED
  BY <1>1, <1>2

\* Says adds to the end of what was said.
LEMMA SaysIs ==
  ASSUME WebInv, NEW task \in PageTasks, NEW text \in Texts \cup {Other}, Says(task, text)
  PROVE  \E new \in Written :
           /\ Becomes(task, new) /\ Begins(tasks[task].said, new.said)
           /\ \A t \in PageTasks : LastSaid(t)' = (IF t = task THEN text ELSE LastSaid(t))
<1>1. tasks \in [PageTasks -> Written] /\ tasks[task] \in Written
  BY DEF WebInv, WebTyped
<1> DEFINE said == Append(tasks[task].said, text)
<1>2. PICK new : new = [tasks[task] EXCEPT !.said = said, !.text = 0]
  OBVIOUS
<1>3. /\ said \in Seq(Texts \cup {Other}) /\ Begins(tasks[task].said, said) /\ said # <<>> /\ Last(said) = text
  <2>1. tasks[task].said \in Seq(Texts \cup {Other})
    BY <1>1 DEF Written
  <2>2. PICK S : S = Texts \cup {Other}
    OBVIOUS
  <2>3. PICK s : s = tasks[task].said
    OBVIOUS
  <2>4. s \in Seq(S) /\ text \in S
    BY <2>1, <2>2, <2>3
  <2>5. Append(s, text) \in Seq(S) /\ Begins(s, Append(s, text)) /\ Append(s, text) # <<>> /\ Last(Append(s, text)) = text
    BY <2>4, BeginsAppend
  <2> QED
    BY <2>2, <2>3, <2>5
<1>4. Becomes(task, new)
  BY <1>2 DEF Says
<1> HIDE DEF said
<1>5. new \in Written /\ new.said = said
  BY <1>1, <1>2, <1>3 DEF Written
<1>6. tasks' = [tasks EXCEPT ![task] = new]
  BY <1>4 DEF Becomes
<1>7. \A t \in PageTasks : tasks'[t] = IF t = task THEN new ELSE tasks[t]
  BY <1>1, <1>6
<1>8. \A t \in PageTasks : LastSaid(t)' = (IF t = task THEN text ELSE LastSaid(t))
  BY <1>3, <1>5, <1>7 DEF LastSaid
<1> QED
  BY <1>3, <1>4, <1>5, <1>8

LEMMA OtherSaysStep ==
  ASSUME WebInv, OtherSays
  PROVE  WebInv'
<1>1. UNCHANGED <<waiting, online, selected, opening, open, retry, queue, send, report, moved, stale>>
  BY DEF OtherSays
<1>2. PICK task \in Listed : Says(task, Other)
  BY DEF OtherSays
<1>3. task \in PageTasks \ {Fresh}
  BY WebNames
<1>4. PICK new \in Written : /\ Becomes(task, new) /\ Begins(tasks[task].said, new.said)
                             /\ \A t \in PageTasks : LastSaid(t)' = (IF t = task THEN Other ELSE LastSaid(t))
  BY <1>2, <1>3, SaysIs
<1>5. /\ tasks' \in [PageTasks -> Written] /\ cached' \in [PageTasks -> Maybe(Written)] /\ pane' \in [task : Places, seen : Written]
      /\ OnceSo' /\ PaneShown'
  BY <1>1, <1>3, <1>4, BecomesKept
<1>6. SendsTyped'
  BY <1>1, <1>4, SaidElsewhere
<1>7. WebTyped'
  BY <1>1, <1>5 DEF WebInv, WebTyped
<1>8. OpensSelected' /\ OpensAgain' /\ QueueShown' /\ report'.right
  BY <1>1 DEF WebInv, OpensSelected, OpensAgain, QueueShown, QueueAsIs
<1> QED
  BY <1>5, <1>6, <1>7, <1>8 DEF WebInv

LEMMA TextGrowsStep ==
  ASSUME WebInv, TextGrows
  PROVE  WebInv'
<1>1. UNCHANGED <<waiting, online, selected, opening, open, retry, queue, send, report, moved, stale>>
  BY DEF TextGrows
<1>2. PICK task \in Listed : Becomes(task, [tasks[task] EXCEPT !.text = @ + 1])
  BY DEF TextGrows
<1>3. task \in PageTasks \ {Fresh} /\ tasks \in [PageTasks -> Written] /\ tasks[task] \in Written
  BY WebNames DEF WebInv, WebTyped
<1>4. PICK new : new = [tasks[task] EXCEPT !.text = @ + 1]
  OBVIOUS
<1>5. new \in Written /\ new.said = tasks[task].said
  BY <1>3, <1>4 DEF Written
<1>6. Becomes(task, new)
  BY <1>2, <1>4
<1>7. Begins(tasks[task].said, new.said)
  <2>1. tasks[task].said \in Seq(Texts \cup {Other})
    BY <1>3 DEF Written
  <2> QED
    BY <1>5, <2>1, BeginsSelf
<1>8. /\ tasks' \in [PageTasks -> Written] /\ cached' \in [PageTasks -> Maybe(Written)] /\ pane' \in [task : Places, seen : Written]
      /\ OnceSo' /\ PaneShown'
  BY <1>1, <1>3, <1>5, <1>6, <1>7, BecomesKept
<1>9. \A t \in PageTasks : LastSaid(t)' = LastSaid(t)
  <2>1. \A t \in PageTasks : tasks'[t].said = tasks[t].said
    BY <1>3, <1>5, <1>6 DEF Becomes
  <2> QED
    BY <2>1 DEF LastSaid
<1>10. SendsTyped'
  BY <1>1, <1>9, SaidElsewhere
<1>11. WebTyped'
  BY <1>1, <1>8 DEF WebInv, WebTyped
<1>12. OpensSelected' /\ OpensAgain' /\ QueueShown' /\ report'.right
  BY <1>1 DEF WebInv, OpensSelected, OpensAgain, QueueShown, QueueAsIs
<1> QED
  BY <1>8, <1>10, <1>11, <1>12 DEF WebInv

LEMMA QueueServedStep ==
  ASSUME WebInv, QueueServed
  PROVE  WebInv'
<1>1. UNCHANGED <<online, selected, opening, open, retry, send, report, moved, stale>>
  BY DEF QueueServed
<1>2. PICK task \in Listed : waiting[task] > 0 /\ Says(task, Other) /\ QueueBecomes(task, waiting[task] - 1)
  BY DEF QueueServed
<1>3. task \in PageTasks \ {Fresh} /\ task \in PageTasks
  BY WebNames
<1>4. PICK new \in Written : /\ Becomes(task, new) /\ Begins(tasks[task].said, new.said)
                             /\ \A t \in PageTasks : LastSaid(t)' = (IF t = task THEN Other ELSE LastSaid(t))
  BY <1>2, <1>3, SaysIs
<1>5. /\ tasks' \in [PageTasks -> Written] /\ cached' \in [PageTasks -> Maybe(Written)] /\ pane' \in [task : Places, seen : Written]
      /\ OnceSo' /\ PaneShown'
  BY <1>1, <1>3, <1>4, BecomesKept
<1>6. SendsTyped'
  BY <1>1, <1>4, SaidElsewhere
<1>7. waiting[task] - 1 \in Nat
  BY <1>2, <1>3 DEF WebInv, WebTyped
<1>8. /\ waiting' \in [PageTasks -> Nat]
      /\ queue' \in [task : Places, shown : Nat, known : BOOLEAN, asked : BOOLEAN]
      /\ QueueShown' /\ OpensSelected'
  BY <1>1, <1>2, <1>3, <1>7, QueueKept
<1>9. WebTyped'
  BY <1>1, <1>5, <1>8 DEF WebInv, WebTyped
<1>10. OpensAgain' /\ report'.right
  BY <1>1 DEF WebInv, OpensAgain
<1> QED
  BY <1>5, <1>6, <1>8, <1>9, <1>10 DEF WebInv

-----------------------------------------------------------------------------
(* The server takes a message                                              *)

LEMMA AcceptedIs ==
  ASSUME WebInv, send' = [send EXCEPT !.accepted = TRUE], send.at \notin {"idle", "usage"}, send.task \in PageTasks,
         UNCHANGED <<online, selected, opening, moved>>
  PROVE  send' \in Sending /\ SendsTyped'
<1>1. send' = [at |-> send.at, text |-> send.text, typed |-> send.typed, task |-> send.task, reads |-> send.reads,
               sent |-> send.sent, accepted |-> TRUE, lost |-> send.lost, twin |-> send.twin]
  BY SendingFields
<1>2. send' \in Sending
  BY <1>1, SendingFields DEF Sending
<1>3. /\ send'.at = send.at /\ send'.text = send.text /\ send'.typed = send.typed /\ send'.task = send.task
      /\ send'.reads = send.reads
  BY <1>1
<1>4. send'.accepted /\ (send'.lost <=> send.lost)
  BY <1>1, SendingFields
<1> QED
  BY <1>2, <1>3, <1>4 DEF WebInv, SendsTyped

LEMMA TurnAcceptedStep ==
  ASSUME WebInv, TurnAccepted
  PROVE  WebInv'
<1>1. /\ UNCHANGED <<waiting, online, selected, opening, open, retry, queue, report, moved, stale>>
      /\ send.at \notin {"idle", "usage"} /\ send' = [send EXCEPT !.accepted = TRUE] /\ Says(Named(send.task), send.text)
      /\ send.task \in Listed \cup {Canonical, Fresh}
  BY DEF TurnAccepted
<1>2. PICK task : task = Named(send.task)
  OBVIOUS
<1>3. task \in PageTasks \ {Fresh} /\ task \in PageTasks
  BY <1>1, <1>2, WebNames
<1>4. send.text \in Texts
  BY <1>1 DEF WebInv, SendsTyped
<1>5. PICK new \in Written : Becomes(task, new) /\ Begins(tasks[task].said, new.said)
  BY <1>1, <1>2, <1>3, <1>4, SaysIs
<1>6. /\ tasks' \in [PageTasks -> Written] /\ cached' \in [PageTasks -> Maybe(Written)] /\ pane' \in [task : Places, seen : Written]
      /\ OnceSo' /\ PaneShown'
  BY <1>1, <1>3, <1>5, BecomesKept
<1>7. send' \in Sending /\ SendsTyped'
  <2>1. send.task \in PageTasks
    BY <1>1, WebNames
  <2> QED
    BY <1>1, <2>1, AcceptedIs
<1>8. WebTyped'
  BY <1>1, <1>6, <1>7 DEF WebInv, WebTyped
<1>9. OpensSelected' /\ OpensAgain' /\ QueueShown' /\ report'.right
  BY <1>1 DEF WebInv, OpensSelected, OpensAgain, QueueShown, QueueAsIs
<1> QED
  BY <1>6, <1>7, <1>8, <1>9 DEF WebInv

LEMMA TurnQueuedStep ==
  ASSUME WebInv, TurnQueued
  PROVE  WebInv'
<1>1. /\ UNCHANGED <<tasks, online, selected, pane, opening, cached, open, retry, report, moved, stale>>
      /\ send.at \notin {"idle", "usage"} /\ send' = [send EXCEPT !.accepted = TRUE]
      /\ send.task \in Listed /\ QueueBecomes(send.task, waiting[send.task] + 1)
  BY DEF TurnQueued
<1>2. send.task \in PageTasks /\ waiting[send.task] + 1 \in Nat
  BY <1>1, WebNames DEF WebInv, WebTyped
<1>3. /\ waiting' \in [PageTasks -> Nat]
      /\ queue' \in [task : Places, shown : Nat, known : BOOLEAN, asked : BOOLEAN]
      /\ QueueShown' /\ OpensSelected'
  BY <1>1, <1>2, QueueKept
<1>4. send' \in Sending /\ SendsTyped'
  BY <1>1, <1>2, AcceptedIs
<1>5. WebTyped'
  BY <1>1, <1>3, <1>4 DEF WebInv, WebTyped
<1>6. OnceSo' /\ OpensAgain'
  BY <1>1 DEF WebInv, OnceSo, OpensAgain
<1>7. PaneShown' /\ report'.right
  BY <1>1 DEF WebInv, PaneShown, ShownAsIs
<1> QED
  BY <1>3, <1>4, <1>5, <1>6, <1>7 DEF WebInv

LEMMA QueueConfirmedStep ==
  ASSUME WebInv, QueueConfirmed
  PROVE  WebInv'
<1>1. /\ UNCHANGED <<tasks, online, selected, pane, opening, cached, open, retry, moved, stale>>
      /\ SendEnds("sent", TRUE)
      /\ \/ QueueBecomes(selected, waiting[selected]) /\ selected \in PageTasks
         \/ UNCHANGED <<waiting, queue>>
  BY DEF QueueConfirmed, WebInv, SendsTyped
<1>2. send' \in Sending /\ SendsTyped' /\ report'.right
  BY <1>1, SendEndsKept
<1>3. OnceSo' /\ OpensAgain'
  BY <1>1 DEF WebInv, OnceSo, OpensAgain
<1>4. PaneShown'
  BY <1>1 DEF WebInv, PaneShown, ShownAsIs
<1>5. /\ waiting' \in [PageTasks -> Nat]
      /\ queue' \in [task : Places, shown : Nat, known : BOOLEAN, asked : BOOLEAN]
      /\ QueueShown' /\ OpensSelected'
  <2>1. CASE UNCHANGED <<waiting, queue>>
    BY <1>1, <2>1 DEF WebInv, WebTyped, QueueShown, QueueAsIs, OpensSelected
  <2>2. CASE QueueBecomes(selected, waiting[selected]) /\ selected \in PageTasks
    <3>1. waiting[selected] \in Nat
      BY <2>2 DEF WebInv, WebTyped
    <3> QED
      BY <1>1, <2>2, <3>1, QueueKept
  <2> QED
    BY <1>1, <2>1, <2>2
<1>6. WebTyped'
  BY <1>1, <1>2, <1>5 DEF WebInv, WebTyped
<1> QED
  BY <1>2, <1>3, <1>4, <1>5, <1>6 DEF WebInv

-----------------------------------------------------------------------------
(* A task is opened                                                        *)

LEMMA OpenIs ==
  ASSUME WebInv, open # <<>>
  PROVE  /\ open[1].task \in PageTasks /\ open[1].previous \in Places /\ open[1].had \in Maybe(Written)
         /\ selected = open[1].task /\ queue.task = open[1].task /\ (open[1].had = <<>> => opening)
<1>1. open[1] \in Opening
  BY MaybeOne DEF WebInv, WebTyped
<1> QED
  BY <1>1 DEF Opening, WebInv, OpensSelected

\* What the page is told to show when it has nothing.
LEMMA EmptyPages ==
  /\ NoPane \in [task : Places, seen : Written] /\ NoPane.task = Nothing /\ NoPane.seen.said = <<>>
  /\ NoContent \in Written /\ NoContent.said = <<>>
  /\ \A t \in Places, asks \in BOOLEAN :
       /\ NoQueue(t, asks) \in [task : Places, shown : Nat, known : BOOLEAN, asked : BOOLEAN]
       /\ NoQueue(t, asks).task = t /\ NoQueue(t, asks).known = FALSE /\ NoQueue(t, asks).asked = asks
<1>1. <<>> \in Seq(Texts \cup {Other})
  BY EmptySeq
<1>2. NoContent \in Written /\ NoContent.said = <<>>
  BY <1>1 DEF NoContent, Written
<1>3. NoPane \in [task : Places, seen : Written] /\ NoPane.task = Nothing /\ NoPane.seen = NoContent
  BY <1>2 DEF NoPane, Places
<1>4. \A t \in Places, asks \in BOOLEAN :
       /\ NoQueue(t, asks) \in [task : Places, shown : Nat, known : BOOLEAN, asked : BOOLEAN]
       /\ NoQueue(t, asks).task = t /\ NoQueue(t, asks).known = FALSE /\ NoQueue(t, asks).asked = asks
  BY DEF NoQueue
<1> QED
  BY <1>2, <1>3, <1>4

LEMMA OpensKept ==
  ASSUME WebInv, NEW task \in PageTasks, Opens(task), UNCHANGED <<tasks, waiting, cached, send, report, stale>>,
         online' \in BOOLEAN, retry' = Nothing, online'
  PROVE  WebInv'
<1> DEFINE had == cached[task]
           mine == [task |-> task, previous |-> selected, had |-> had]
<1>1. /\ selected' = task /\ open' = <<mine>> /\ opening' = (had = <<>>) /\ moved' = (send.at # "idle")
      /\ queue' = NoQueue(task, had # <<>>)
  BY DEF Opens
<1>2. pane' = IF had = <<>> THEN NoPane ELSE [task |-> task, seen |-> had[1]]
  BY DEF Opens
<1>3. had \in Maybe(Written) /\ selected \in Places /\ task \in Places /\ task # Nothing
  BY WebNames DEF WebInv, WebTyped, Places
<1>4. had # <<>> => had[1] \in Written /\ Begins(had[1].said, tasks[task].said)
  BY <1>3, MaybeOne DEF WebInv, OnceSo
<1>5. Nothing \in Places
  BY DEF Places
<1> HIDE DEF had
<1>6. mine \in Opening /\ mine.task = task /\ mine.had = had
  BY <1>3 DEF Opening
<1> HIDE DEF mine
<1>7. open' # <<>> /\ open'[1] = mine /\ open' \in Maybe(Opening)
  BY <1>1, <1>6 DEF Maybe
<1>8. pane' \in [task : Places, seen : Written]
  BY <1>2, <1>3, <1>4, EmptyPages
<1>9. IF had = <<>> THEN pane'.task = Nothing ELSE pane'.task = task /\ pane'.seen = had[1]
  BY <1>2, EmptyPages
<1>10. /\ queue' \in [task : Places, shown : Nat, known : BOOLEAN, asked : BOOLEAN]
       /\ queue'.task = task /\ queue'.known = FALSE
  <2>1. (had # <<>>) \in BOOLEAN
    OBVIOUS
  <2> QED
    BY <1>1, <1>3, <2>1, EmptyPages
<1>11. opening' \in BOOLEAN /\ moved' \in BOOLEAN /\ (opening' <=> had = <<>>) /\ (moved' <=> send.at # "idle")
  BY <1>1
<1>12. WebTyped'
  BY <1>1, <1>3, <1>5, <1>7, <1>8, <1>10, <1>11 DEF WebInv, WebTyped
<1>13. OnceSo'
  BY <1>4, <1>6, <1>7, <1>9 DEF WebInv, OnceSo
<1>14. OpensSelected' /\ OpensAgain'
  BY <1>1, <1>6, <1>7, <1>10, <1>11 DEF OpensSelected, OpensAgain
<1>15. SendsTyped'
  <2> SUFFICES ASSUME send.at # "idle" PROVE SendsTyped'
    BY DEF SendsTyped
  <2>1. moved'
    BY <1>11
  <2> QED
    BY <2>1 DEF WebInv, SendsTyped, LastSaid
<1>16. QueueShown'
  BY <1>3, <1>10 DEF QueueShown, QueueAsIs
<1>17. PaneShown'
  <2>1. pane'.task \in {selected', Nothing}
    BY <1>1, <1>9
  <2>2. ShownAsIs'
    BY <1>7, <2>1 DEF ShownAsIs
  <2>3. had # <<>> => Len(pane'.seen.said) >= Len(had[1].said)
    <3>1. had # <<>> => had[1].said \in Seq(Texts \cup {Other})
      BY <1>4 DEF Written
    <3>2. had # <<>> => Len(had[1].said) \in Nat
      BY <3>1, LenProperties
    <3> QED
      BY <1>9, <3>2
  <2> QED
    BY <1>6, <1>7, <1>9, <2>2, <2>3 DEF PaneShown
<1> QED
  BY <1>12, <1>13, <1>14, <1>15, <1>16, <1>17 DEF WebInv

LEMMA SelectStep ==
  ASSUME WebInv, SelectThread
  PROVE  WebInv'
<1>1. online /\ UNCHANGED <<tasks, waiting, online, cached, retry, send, report, stale>>
  BY DEF SelectThread
<1>2. PICK task \in PageTasks : Opens(task)
  BY WebNames DEF SelectThread
<1>3. retry = Nothing /\ online \in BOOLEAN
  BY <1>1 DEF WebInv, OpensAgain, WebTyped
<1> QED
  BY <1>1, <1>2, <1>3, OpensKept

LEMMA ReconnectStep ==
  ASSUME WebInv, Reconnect
  PROVE  WebInv'
<1>1. /\ ~online /\ online' = TRUE /\ open = <<>> /\ send.at = "idle" /\ ~queue.asked /\ retry' = Nothing
      /\ UNCHANGED <<tasks, waiting, cached, send, report, stale>>
  BY DEF Reconnect
<1>2. CASE retry # Nothing
  <2>1. retry \in PageTasks /\ Opens(retry)
    BY <1>2 DEF WebInv, WebTyped, Places, Reconnect
  <2> QED
    BY <1>1, <2>1, OpensKept
<1>3. CASE retry = Nothing
  <2>1. UNCHANGED <<selected, open, opening, pane, queue, moved>>
    BY <1>3 DEF Reconnect
  <2>2. selected = Nothing
    BY <1>1, <1>3 DEF WebInv, OpensAgain
  <2>3. WebTyped'
    BY <1>1, <1>3, <2>1 DEF WebInv, WebTyped
  <2>4. OnceSo' /\ OpensSelected' /\ OpensAgain'
    BY <1>1, <2>1 DEF WebInv, OnceSo, OpensSelected, OpensAgain
  <2>5. SendsTyped' /\ report'.right
    BY <1>1 DEF WebInv, SendsTyped
  <2>6. QueueShown'
    BY <1>1, <2>1, <2>2 DEF WebInv, QueueShown, QueueAsIs
  <2>7. PaneShown'
    BY <1>1, <2>1, <2>2 DEF WebInv, PaneShown, ShownAsIs
  <2> QED
    BY <2>3, <2>4, <2>5, <2>6, <2>7 DEF WebInv
<1> QED
  BY <1>2, <1>3

LEMMA DisconnectStep ==
  ASSUME WebInv, Disconnect
  PROVE  WebInv'
<1>1. /\ online' = FALSE /\ retry' = (IF selected = Nothing THEN retry ELSE selected) /\ send' = [send EXCEPT !.lost = TRUE]
      /\ UNCHANGED <<tasks, waiting, selected, pane, opening, cached, open, queue, report, moved, stale>>
  BY DEF Disconnect
<1>2. send' = [at |-> send.at, text |-> send.text, typed |-> send.typed, task |-> send.task, reads |-> send.reads,
               sent |-> send.sent, accepted |-> send.accepted, lost |-> TRUE, twin |-> send.twin]
  BY <1>1, SendingFields
<1>3. send' \in Sending
  BY <1>2, SendingFields DEF Sending
<1>4. /\ send'.at = send.at /\ send'.text = send.text /\ send'.typed = send.typed /\ send'.task = send.task
      /\ send'.reads = send.reads /\ send'.accepted = send.accepted /\ send'.twin = send.twin
  BY <1>2
<1>5. send'.lost
  BY <1>2
<1>6. WebTyped'
  BY <1>1, <1>3 DEF WebInv, WebTyped
<1>7. OnceSo' /\ OpensSelected' /\ OpensAgain'
  BY <1>1 DEF WebInv, OnceSo, OpensSelected, OpensAgain
<1>8. SendsTyped'
  BY <1>1, <1>4, <1>5 DEF WebInv, SendsTyped, LastSaid
<1>9. QueueShown' /\ report'.right
  BY <1>1 DEF WebInv, QueueShown, QueueAsIs
<1>10. PaneShown'
  BY <1>1 DEF WebInv, PaneShown, ShownAsIs
<1> QED
  BY <1>6, <1>7, <1>8, <1>9, <1>10 DEF WebInv

LEMMA ThreadOpenedStep ==
  ASSUME WebInv, ThreadOpened
  PROVE  WebInv'
<1>1. PICK task, seen : task = open[1].task /\ seen = tasks[task]
  OBVIOUS
<1>2. /\ online /\ open # <<>> /\ cached' = [cached EXCEPT ![task] = <<seen>>]
      /\ selected' = task /\ opening' = FALSE /\ open' = <<>> /\ stale' = FALSE
      /\ queue' = (IF open[1].had = <<>> THEN [queue EXCEPT !.asked = TRUE] ELSE queue)
      /\ UNCHANGED <<tasks, waiting, online, retry, send, report, moved>>
  BY <1>1 DEF ThreadOpened
<1>3. PICK again \in Rerenders(open[1].had, seen) : pane' = IF again THEN [task |-> task, seen |-> seen] ELSE pane
  BY <1>1 DEF ThreadOpened
<1>4. /\ task \in PageTasks /\ task \in Places /\ task # Nothing /\ open[1].had \in Maybe(Written)
      /\ selected = task /\ queue.task = task
  BY <1>1, <1>2, OpenIs, WebNames DEF Places
<1>5. seen \in Written /\ seen.said \in Seq(Texts \cup {Other})
  BY <1>1, <1>4 DEF WebInv, WebTyped, Written
<1>6. /\ cached' \in [PageTasks -> Maybe(Written)]
      /\ \A t \in PageTasks : cached'[t] = IF t = task THEN <<seen>> ELSE cached[t]
  BY <1>2, <1>4, <1>5 DEF WebInv, WebTyped, Maybe
<1>7. /\ queue' \in [task : Places, shown : Nat, known : BOOLEAN, asked : BOOLEAN]
      /\ queue'.task = task /\ queue'.known = queue.known /\ queue'.shown = queue.shown
  BY <1>2, <1>4 DEF WebInv, WebTyped
<1>8. pane' \in [task : Places, seen : Written] /\ (pane' = pane \/ (pane'.task = task /\ pane'.seen = seen))
  BY <1>3, <1>4, <1>5 DEF WebInv, WebTyped
<1>9. WebTyped'
  <2>1. open' \in Maybe(Opening)
    BY <1>2 DEF Maybe
  <2> QED
    BY <1>2, <1>4, <1>6, <1>7, <1>8, <2>1 DEF WebInv, WebTyped
<1>10. OnceSo'
  <2>1. Begins(seen.said, tasks[task].said)
    BY <1>1, <1>5, BeginsSelf
  <2>2. \A t \in PageTasks : cached'[t] # <<>> => Begins(cached'[t][1].said, tasks[t].said)
    BY <1>6, <2>1 DEF WebInv, OnceSo
  <2>3. pane'.task # Nothing => Begins(pane'.seen.said, tasks[pane'.task].said)
    BY <1>8, <2>1 DEF WebInv, OnceSo
  <2> QED
    BY <1>2, <2>2, <2>3 DEF WebInv, OnceSo
<1>11. OpensSelected' /\ OpensAgain' /\ report'.right
  BY <1>2, <1>4 DEF WebInv, OpensSelected, OpensAgain
<1>12. SendsTyped'
  BY <1>2, <1>4 DEF WebInv, SendsTyped, LastSaid
<1>13. QueueShown'
  <2>1. QueueAsIs'
    BY <1>2, <1>4, <1>7 DEF WebInv, QueueShown, QueueAsIs
  <2> QED
    BY <1>4, <1>7, <2>1 DEF QueueShown
<1>14. ASSUME ~moved PROVE pane'.task = task /\ pane'.seen.said = tasks[task].said
  <2>1. CASE pane' # pane
    BY <1>1, <1>8, <2>1
  <2>2. CASE pane' = pane /\ ~again
    <3>1. open[1].had # <<>> /\ Len(open[1].had[1].said) = Len(seen.said)
      BY <1>3, <2>2 DEF Rerenders
    <3>2. pane.task = task /\ Len(pane.seen.said) >= Len(open[1].had[1].said)
      BY <1>1, <1>2, <1>14, <3>1 DEF WebInv, PaneShown
    <3>3. Begins(pane.seen.said, seen.said) /\ pane.seen.said \in Seq(Texts \cup {Other})
      BY <1>1, <1>4, <3>2 DEF WebInv, OnceSo, WebTyped, Written
    <3>4. pane.seen.said = seen.said
      BY <1>5, <3>1, <3>2, <3>3, BeginsAll
    <3> QED
      BY <1>1, <2>2, <3>2, <3>4
  <2>3. CASE again
    BY <1>1, <1>3, <2>3
  <2> QED
    BY <2>1, <2>2, <2>3
<1>15. PaneShown'
  BY <1>2, <1>4, <1>14 DEF PaneShown, ShownAsIs
<1> QED
  BY <1>9, <1>10, <1>11, <1>12, <1>13, <1>15 DEF WebInv

LEMMA ThreadOpenFailsStep ==
  ASSUME WebInv, ThreadOpenFails
  PROVE  WebInv'
<1>1. /\ open # <<>> /\ open' = <<>> /\ opening' = FALSE /\ stale' = TRUE
      /\ retry' = (IF online THEN retry ELSE open[1].task)
      /\ UNCHANGED <<tasks, waiting, online, cached, send, report, moved>>
  BY DEF ThreadOpenFails
<1>2. /\ open[1].task \in PageTasks /\ open[1].task \in Places /\ open[1].task # Nothing /\ open[1].previous \in Places
      /\ selected = open[1].task
  BY <1>1, OpenIs, WebNames DEF Places
<1>3. \/ /\ open[1].had # <<>> /\ selected' = open[1].task /\ UNCHANGED <<pane, queue>>
      \/ /\ open[1].had = <<>> /\ selected' = open[1].previous /\ pane' = NoPane /\ queue' = NoQueue(open[1].previous, FALSE)
  BY DEF ThreadOpenFails
<1>4. open' \in Maybe(Opening)
  BY <1>1 DEF Maybe
<1>5. OpensSelected' /\ OpensAgain' /\ report'.right
  BY <1>1, <1>2 DEF WebInv, OpensSelected, OpensAgain
<1>6. CASE open[1].had # <<>> /\ selected' = open[1].task /\ UNCHANGED <<pane, queue>>
  <2>1. WebTyped'
    BY <1>1, <1>2, <1>4, <1>6 DEF WebInv, WebTyped
  <2>2. OnceSo'
    BY <1>1, <1>6 DEF WebInv, OnceSo
  <2>3. SendsTyped'
    BY <1>1, <1>2, <1>6 DEF WebInv, SendsTyped, LastSaid
  <2>4. QueueShown'
    BY <1>1, <1>2, <1>6 DEF WebInv, QueueShown, QueueAsIs
  <2>5. PaneShown'
    BY <1>1, <1>2, <1>6 DEF WebInv, PaneShown, ShownAsIs
  <2> QED
    BY <1>5, <2>1, <2>2, <2>3, <2>4, <2>5 DEF WebInv
<1>7. CASE open[1].had = <<>> /\ selected' = open[1].previous /\ pane' = NoPane /\ queue' = NoQueue(open[1].previous, FALSE)
  <2>1. /\ queue' \in [task : Places, shown : Nat, known : BOOLEAN, asked : BOOLEAN]
        /\ queue'.known = FALSE /\ queue'.asked = FALSE
    BY <1>2, <1>7, EmptyPages
  <2>2. pane' \in [task : Places, seen : Written] /\ pane'.task = Nothing
    BY <1>7, EmptyPages
  <2>3. WebTyped'
    BY <1>1, <1>2, <1>4, <1>7, <2>1, <2>2 DEF WebInv, WebTyped
  <2>4. OnceSo'
    BY <1>1, <2>2 DEF WebInv, OnceSo
  <2>5. SendsTyped'
    <3>1. opening
      BY <1>1, <1>7, OpenIs
    <3> QED
      BY <1>1, <3>1 DEF WebInv, SendsTyped, LastSaid
  <2>6. QueueShown'
    BY <2>1 DEF QueueShown, QueueAsIs
  <2>7. PaneShown'
    BY <1>1, <2>2 DEF PaneShown, ShownAsIs
  <2> QED
    BY <1>5, <2>3, <2>4, <2>5, <2>6, <2>7 DEF WebInv
<1> QED
  BY <1>3, <1>6, <1>7

LEMMA QueueLoadStep ==
  ASSUME WebInv, QueueLoaded \/ QueueLoadFails
  PROVE  WebInv'
<1>1. /\ UNCHANGED <<tasks, waiting, online, selected, pane, opening, cached, open, retry, send, report, moved>>
      /\ queue.asked /\ stale' \in {stale, TRUE}
  BY DEF QueueLoaded, QueueLoadFails
<1>2. queue \in [task : Places, shown : Nat, known : BOOLEAN, asked : BOOLEAN] /\ queue.task \in PageTasks
  BY <1>1 DEF WebInv, WebTyped, QueueShown, Places
<1>3. /\ queue' \in [task : Places, shown : Nat, known : BOOLEAN, asked : BOOLEAN]
      /\ queue'.task = queue.task
      /\ (queue'.known = queue.known /\ queue'.shown = queue.shown) \/ (queue.task = selected /\ queue'.shown = waiting[queue.task])
  <2>1. CASE QueueLoaded
    <3>1. queue' = [queue EXCEPT !.shown = waiting[queue.task], !.known = TRUE, !.asked = FALSE] /\ queue.task = selected
      BY <2>1 DEF QueueLoaded
    <3>2. waiting[queue.task] \in Nat
      BY <1>2 DEF WebInv, WebTyped
    <3> QED
      BY <1>2, <3>1, <3>2
  <2>2. CASE QueueLoadFails
    <3>1. queue' = [queue EXCEPT !.asked = FALSE]
      BY <2>2 DEF QueueLoadFails
    <3> QED
      BY <1>2, <3>1
  <2> QED
    BY <2>1, <2>2
<1>4. WebTyped'
  BY <1>1, <1>3 DEF WebInv, WebTyped
<1>5. OnceSo' /\ OpensSelected' /\ OpensAgain' /\ report'.right
  BY <1>1, <1>3 DEF WebInv, OnceSo, OpensSelected, OpensAgain
<1>6. SendsTyped'
  BY <1>1 DEF WebInv, SendsTyped, LastSaid
<1>7. QueueShown'
  <2>1. QueueAsIs'
    BY <1>1, <1>3 DEF WebInv, QueueShown, QueueAsIs
  <2> QED
    BY <1>2, <1>3, <2>1, WebNames DEF QueueShown
<1>8. PaneShown'
  <2>1. stale' \/ ~stale
    BY DEF QueueLoaded, QueueLoadFails
  <2> QED
    BY <1>1, <2>1 DEF WebInv, PaneShown, ShownAsIs
<1> QED
  BY <1>4, <1>5, <1>6, <1>7, <1>8 DEF WebInv

LEMMA ThreadCreatedStep ==
  ASSUME WebInv, ThreadCreated
  PROVE  WebInv'
<1>1. /\ online /\ selected' = Fresh /\ open' = <<>> /\ pane' = [task |-> Fresh, seen |-> NoContent]
      /\ queue' = NoQueue(Fresh, TRUE) /\ moved' = (opening \/ send.at # "idle")
      /\ UNCHANGED <<tasks, waiting, online, opening, cached, retry, send, report, stale>>
  BY DEF ThreadCreated
<1>2. Fresh \in Places /\ Fresh # Nothing
  BY WebNames DEF Places
<1>3. /\ queue' \in [task : Places, shown : Nat, known : BOOLEAN, asked : BOOLEAN]
      /\ queue'.task = Fresh /\ queue'.known = FALSE
  BY <1>1, <1>2, EmptyPages
<1>4. pane' \in [task : Places, seen : Written] /\ pane'.task = Fresh /\ pane'.seen.said = <<>>
  BY <1>1, <1>2, EmptyPages
<1>5. moved' \in BOOLEAN /\ (moved' <=> opening \/ send.at # "idle")
  BY <1>1
<1>6. WebTyped'
  <2>1. open' \in Maybe(Opening)
    BY <1>1 DEF Maybe
  <2> QED
    BY <1>1, <1>2, <1>3, <1>4, <1>5, <2>1 DEF WebInv, WebTyped
<1>7. tasks[Fresh].said = <<>>
  BY DEF WebInv, OnceSo
<1>8. OnceSo'
  <2>1. Begins(<<>>, <<>>)
    BY EmptySeq, BeginsSelf
  <2> QED
    BY <1>1, <1>4, <1>7, <2>1 DEF WebInv, OnceSo
<1>9. OpensSelected' /\ OpensAgain' /\ report'.right
  BY <1>1 DEF WebInv, OpensSelected, OpensAgain
<1>10. SendsTyped'
  BY <1>1, <1>5 DEF WebInv, SendsTyped, LastSaid
<1>11. QueueShown'
  BY <1>2, <1>3 DEF QueueShown, QueueAsIs
<1>12. PaneShown'
  BY <1>1, <1>4, <1>5, <1>7 DEF PaneShown, ShownAsIs
<1> QED
  BY <1>6, <1>8, <1>9, <1>10, <1>11, <1>12 DEF WebInv

-----------------------------------------------------------------------------
(* The answers to a message                                                *)

LEMMA TurnStartedStep ==
  ASSUME WebInv, TurnStarted
  PROVE  WebInv'
<1>1. PICK task : task = Named(send.task)
  OBVIOUS
<1>2. /\ send.at = "starting" /\ send.accepted /\ ~send.lost /\ SendEnds("sent", TRUE)
      /\ UNCHANGED <<tasks, waiting, online, opening, cached, retry, moved>>
      /\ \/ task = selected /\ UNCHANGED <<selected, open, pane, queue, stale>>
         \/ /\ task # selected /\ selected' = task /\ open' = <<>> /\ queue' = NoQueue(task, FALSE) /\ stale' = TRUE
            /\ pane' = IF pane.task = send.task THEN [pane EXCEPT !.task = task] ELSE pane
  BY <1>1 DEF TurnStarted
<1>3. /\ send.task \in PageTasks /\ task \in PageTasks /\ task \in Places /\ task # Nothing /\ (send.task # Fresh => task = send.task)
      /\ send.task # Nothing
  BY <1>1, <1>2, WebNames DEF WebInv, SendsTyped, Places
<1>4. send' \in Sending /\ SendsTyped' /\ report'.right
  BY <1>2, SendEndsKept
<1>5. online
  BY <1>2 DEF WebInv, SendsTyped
<1>6. CASE task = selected /\ UNCHANGED <<selected, open, pane, queue, stale>>
  <2>1. WebTyped'
    BY <1>2, <1>4, <1>6 DEF WebInv, WebTyped
  <2>2. OnceSo' /\ OpensSelected' /\ OpensAgain'
    BY <1>2, <1>6 DEF WebInv, OnceSo, OpensSelected, OpensAgain
  <2>3. QueueShown'
    BY <1>2, <1>6 DEF WebInv, QueueShown, QueueAsIs
  <2>4. PaneShown'
    BY <1>2, <1>6 DEF WebInv, PaneShown, ShownAsIs
  <2> QED
    BY <1>4, <2>1, <2>2, <2>3, <2>4 DEF WebInv
<1>7. CASE /\ selected' = task /\ open' = <<>> /\ queue' = NoQueue(task, FALSE) /\ stale' = TRUE
           /\ pane' = IF pane.task = send.task THEN [pane EXCEPT !.task = task] ELSE pane
  <2>1. /\ queue' \in [task : Places, shown : Nat, known : BOOLEAN, asked : BOOLEAN]
        /\ queue'.known = FALSE /\ queue'.asked = FALSE
    BY <1>3, <1>7, EmptyPages
  <2>2. pane \in [task : Places, seen : Written]
    BY DEF WebInv, WebTyped
  <2>3. /\ pane' \in [task : Places, seen : Written] /\ pane'.seen = pane.seen
        /\ pane'.task = (IF pane.task = send.task THEN task ELSE pane.task)
    BY <1>3, <1>7, <2>2
  <2>4. WebTyped'
    <3>1. open' \in Maybe(Opening)
      BY <1>7 DEF Maybe
    <3> QED
      BY <1>2, <1>3, <1>4, <1>7, <2>1, <2>3, <3>1 DEF WebInv, WebTyped
  <2>5. OnceSo'
    <3>1. ASSUME pane'.task # Nothing PROVE Begins(pane.seen.said, tasks[pane'.task].said)
      <4>1. CASE pane'.task = pane.task
        BY <3>1, <4>1 DEF WebInv, OnceSo
      <4>2. CASE pane'.task # pane.task
        <5>1. pane.task = Fresh /\ pane'.task = task
          BY <1>3, <2>3, <4>2
        <5>2. Begins(pane.seen.said, <<>>)
          BY <5>1, WebNames DEF WebInv, OnceSo
        <5>3. pane.seen.said \in Seq(Texts \cup {Other}) /\ tasks[task].said \in Seq(Texts \cup {Other})
          BY <1>3, <2>2 DEF WebInv, WebTyped, Written
        <5>4. pane.seen.said = <<>>
          BY <5>2, <5>3, BeginsNothing
        <5>5. Len(tasks[task].said) \in Nat /\ Len(<<>>) = 0
          BY <5>3, LenProperties
        <5> QED
          BY <5>1, <5>4, <5>5 DEF Begins
      <4> QED
        BY <4>1, <4>2
    <3> QED
      BY <1>2, <1>7, <2>3, <3>1 DEF WebInv, OnceSo
  <2>6. OpensSelected' /\ OpensAgain'
    BY <1>2, <1>5, <1>7 DEF WebInv, OpensSelected, OpensAgain
  <2>7. QueueShown'
    BY <2>1 DEF QueueShown, QueueAsIs
  <2>8. ASSUME ~moved PROVE pane'.task \in {task, Nothing} /\ ~opening
    <3>1. send.typed = selected /\ send.task = selected /\ ~opening
      BY <1>2, <2>8 DEF WebInv, SendsTyped
    <3>2. pane.task \in {selected, Nothing}
      BY <2>8 DEF WebInv, PaneShown, ShownAsIs
    <3> QED
      BY <2>3, <3>1, <3>2
  <2>9. PaneShown'
    BY <1>2, <1>7, <2>8 DEF PaneShown, ShownAsIs
  <2> QED
    BY <1>4, <2>4, <2>5, <2>6, <2>7, <2>9 DEF WebInv
<1> QED
  BY <1>2, <1>6, <1>7

LEMMA RecoverAnsweredStep ==
  ASSUME WebInv, RecoverAnswered
  PROVE  WebInv'
<1>1. PICK task : task = send.reads
  OBVIOUS
<1>2. /\ send.at = "recovering" /\ ~send.lost /\ task # Nothing
      /\ UNCHANGED <<tasks, waiting, online, selected, opening, open, retry, moved, stale>>
  BY <1>1 DEF RecoverAnswered
<1>3. task \in PageTasks /\ task \in Places
  BY <1>1, <1>2, SendingFields DEF Places
<1>4. \/ /\ LastSaid(task) = send.text /\ SendEnds("sent", send.accepted \/ send.twin \/ moved)
         /\ cached' = [cached EXCEPT ![task] = <<tasks[task]>>]
         /\ pane' = [task |-> task, seen |-> tasks[task]]
         /\ queue' = IF queue.task = Nothing THEN queue ELSE [queue EXCEPT !.asked = TRUE]
      \/ SendEnds("failed", TRUE) /\ UNCHANGED <<cached, pane, queue>>
  BY <1>1 DEF RecoverAnswered
<1>5. CASE /\ LastSaid(task) = send.text /\ SendEnds("sent", send.accepted \/ send.twin \/ moved)
           /\ cached' = [cached EXCEPT ![task] = <<tasks[task]>>]
           /\ pane' = [task |-> task, seen |-> tasks[task]]
           /\ queue' = IF queue.task = Nothing THEN queue ELSE [queue EXCEPT !.asked = TRUE]
  <2>1. tasks[task] \in Written /\ tasks[task].said \in Seq(Texts \cup {Other})
    BY <1>3 DEF WebInv, WebTyped, Written
  <2>2. send.accepted \/ send.twin \/ moved
    <3>1. ASSUME ~moved PROVE send.accepted \/ send.twin
      <4>1. task = send.typed
        BY <1>1, <1>2, <3>1 DEF WebInv, SendsTyped
      <4> QED
        BY <1>2, <1>5, <4>1 DEF WebInv, SendsTyped
    <3> QED
      BY <3>1
  <2>3. send' \in Sending /\ SendsTyped' /\ report'.right
    BY <1>5, <2>2, SendEndsKept
  <2>4. /\ cached' \in [PageTasks -> Maybe(Written)]
        /\ \A t \in PageTasks : cached'[t] = IF t = task THEN <<tasks[task]>> ELSE cached[t]
    BY <1>3, <1>5, <2>1 DEF WebInv, WebTyped, Maybe
  <2>5. pane' \in [task : Places, seen : Written] /\ pane'.task = task /\ pane'.seen = tasks[task]
    BY <1>3, <1>5, <2>1
  <2>6. /\ queue' \in [task : Places, shown : Nat, known : BOOLEAN, asked : BOOLEAN]
        /\ queue'.task = queue.task /\ queue'.known = queue.known /\ queue'.shown = queue.shown
        /\ queue.task = Nothing => queue' = queue
    BY <1>5 DEF WebInv, WebTyped
  <2>7. WebTyped'
    BY <1>2, <2>3, <2>4, <2>5, <2>6 DEF WebInv, WebTyped
  <2>8. OnceSo'
    <3>1. Begins(tasks[task].said, tasks[task].said)
      BY <2>1, BeginsSelf
    <3>2. \A t \in PageTasks : cached'[t] # <<>> => Begins(cached'[t][1].said, tasks[t].said)
      BY <2>4, <3>1 DEF WebInv, OnceSo
    <3> QED
      BY <1>2, <2>5, <3>1, <3>2 DEF WebInv, OnceSo
  <2>9. OpensSelected' /\ OpensAgain'
    BY <1>2, <2>6 DEF WebInv, OpensSelected, OpensAgain
  <2>10. QueueShown'
    <3>1. QueueAsIs'
      BY <1>2, <2>6 DEF WebInv, QueueShown, QueueAsIs
    <3> QED
      BY <2>6, <3>1 DEF WebInv, QueueShown
  <2>11. ASSUME ~moved PROVE selected = task
    BY <1>1, <1>2, <2>11 DEF WebInv, SendsTyped
  <2>12. ASSUME open # <<>>, open[1].had # <<>>, selected = task
         PROVE  task = open[1].task /\ Len(tasks[task].said) >= Len(open[1].had[1].said)
    <3>1. open[1].task = task /\ open[1].had \in Maybe(Written)
      BY <2>12, OpenIs
    <3>2. Begins(open[1].had[1].said, tasks[task].said)
      BY <2>12, <3>1 DEF WebInv, OnceSo
    <3>3. open[1].had[1].said \in Seq(Texts \cup {Other})
      BY <2>12, <3>1, MaybeOne DEF Written
    <3>4. Len(open[1].had[1].said) \in Nat /\ Len(tasks[task].said) \in Nat
      BY <2>1, <3>3, LenProperties
    <3> QED
      BY <3>1, <3>2, <3>4 DEF Begins
  <2>13. PaneShown'
    <3>1. ShownAsIs'
      BY <1>2, <2>5, <2>11 DEF WebInv, PaneShown, ShownAsIs
    <3> QED
      BY <1>2, <2>5, <2>11, <2>12, <3>1 DEF PaneShown
  <2> QED
    BY <2>3, <2>7, <2>8, <2>9, <2>10, <2>13 DEF WebInv
<1>6. CASE SendEnds("failed", TRUE) /\ UNCHANGED <<cached, pane, queue>>
  <2>1. send' \in Sending /\ SendsTyped' /\ report'.right
    BY <1>6, SendEndsKept
  <2> QED
    BY <1>2, <1>6, <2>1, OnlySends, WebWhole
<1> QED
  BY <1>4, <1>5, <1>6

-----------------------------------------------------------------------------
LEMMA WebInitially == PageInit => WebInv
<1> SUFFICES ASSUME PageInit PROVE WebInv
  OBVIOUS
<1>1. /\ tasks = [t \in PageTasks |-> NoContent] /\ waiting = [t \in PageTasks |-> 0]
      /\ online = TRUE /\ selected = Nothing /\ pane = NoPane /\ opening = FALSE
      /\ cached = [t \in PageTasks |-> <<>>] /\ open = <<>> /\ retry = Nothing
      /\ queue = NoQueue(Nothing, FALSE) /\ send = Unsent /\ report = NoReport
      /\ moved = FALSE /\ stale = FALSE
  BY DEF PageInit
<1>2. Nothing \in Places /\ FALSE \in BOOLEAN
  BY DEF Places
<1>3. /\ pane \in [task : Places, seen : Written] /\ pane.task = Nothing
      /\ queue \in [task : Places, shown : Nat, known : BOOLEAN, asked : BOOLEAN]
      /\ queue.known = FALSE /\ queue.asked = FALSE
  BY <1>1, <1>2, EmptyPages
<1>4. /\ tasks \in [PageTasks -> Written] /\ waiting \in [PageTasks -> Nat] /\ cached \in [PageTasks -> Maybe(Written)]
      /\ open \in Maybe(Opening)
  BY <1>1, EmptyPages DEF Maybe
<1>5. send \in Sending /\ send.at = "idle"
  BY <1>1 DEF Unsent, Sending, SendSteps, Places
<1>6. WebTyped
  BY <1>1, <1>2, <1>3, <1>4, <1>5 DEF WebTyped
<1>7. OnceSo
  BY <1>1, <1>3, EmptyPages, WebNames DEF OnceSo
<1>8. OpensSelected /\ OpensAgain /\ SendsTyped
  BY <1>1, <1>5 DEF OpensSelected, OpensAgain, SendsTyped
<1>9. QueueShown
  BY <1>3 DEF QueueShown, QueueAsIs
<1>10. PaneShown
  BY <1>1, <1>3 DEF PaneShown, ShownAsIs
<1>11. report.right
  BY <1>1 DEF NoReport
<1> QED
  BY <1>6, <1>7, <1>8, <1>9, <1>10, <1>11 DEF WebInv

LEMMA WebKept ==
  ASSUME WebInv, PageNext \/ UNCHANGED pageVars
  PROVE  WebInv'
<1>1. CASE UNCHANGED pageVars
  <2>1. /\ UNCHANGED <<tasks, waiting, online, selected, pane, opening, cached, open, retry, queue, moved, stale>>
        /\ send' = send /\ report' = report
    BY <1>1 DEF pageVars
  <2>2. SendsTyped' /\ report'.right /\ send' \in Sending
    BY <2>1 DEF WebInv, SendsTyped, LastSaid, WebTyped
  <2> QED
    BY <2>1, <2>2, OnlySends, WebWhole
<1> QED
  BY <1>1, OtherSaysStep, TextGrowsStep, QueueServedStep, SelectStep, ThreadOpenedStep, ThreadOpenFailsStep, QueueLoadStep,
     ThreadCreatedStep, DisconnectStep, ReconnectStep, TypeStep, EndsStep, SendsPromptStep, TurnAcceptedStep, TurnQueuedStep,
     TurnStartedStep, QueueConfirmedStep, StartFailsStep, RecoverAnsweredStep DEF PageNext

\* While the user stays on a task, the web page shows that task with all its
\* messages, a queue shown as known is the server's, a message goes where it was
\* typed, and is called sent only when it was (selectThread, handleEvent,
\* sendPrompt and recoverAcceptedTurn of remote.js).
THEOREM TellsTheTruth == Spec => []PageTellsTheTruth
<1>1. Init => WebInv
  BY WebInitially DEF Init
<1>2. WebInv /\ [Next]_vars => WebInv'
  BY PageSteps, WebKept
<1>3. WebInv => PageTellsTheTruth
  <2> SUFFICES ASSUME WebInv PROVE PageTellsTheTruth
    OBVIOUS
  <2>1. SentAsTyped
    BY DEF WebInv, SendsTyped, SentAsTyped
  <2> QED
    BY <2>1 DEF WebInv, PaneShown, QueueShown, PageTellsTheTruth
<1> QED
  BY <1>1, <1>2, <1>3, PTL DEF Spec

=====
