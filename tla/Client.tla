------------------------------- MODULE Client -------------------------------
(***************************************************************************)
(* The services the local server stands on and the page that uses them,    *)
(* side by side: repeated requests (Requests), the official client's       *)
(* settings, quota and tasks (Settings, TaskIndex), the history of a task  *)
(* and its followers (History, Watch), the page of the official client     *)
(* (Renderer) and the web page (WebClient).  Each models what the others   *)
(* do to it; they share no variable, so an invariant of one of them holds  *)
(* of the whole exactly when it holds while the others rest.  focus        *)
(* chooses which one moves and keeps the state space a sum.                *)
(***************************************************************************)
EXTENDS Requests, Settings, TaskIndex, History, Watch, Renderer, WebClient

VARIABLE focus

Parts == {"turns", "uploads", "approvals", "settings", "usage", "approving", "index", "history", "watch", "renderer", "page"}
vars == <<focus, turnVars, uploadVars, approvalVars, settingsVars, usageVars, approvingVars, indexVars, historyVars,
          watchVars, rendererVars, pageVars>>

\* A part that rests is in one of its initial states.
Init ==
  /\ focus \in Parts
  /\ TurnsInit /\ UploadsInit /\ ApprovalsInit /\ UsageInit /\ HistoryInit /\ RendererInit /\ PageInit
  /\ SettingsInit /\ (focus # "settings" => official = CHOOSE o \in [model : Models, speed : Speeds] : TRUE)
  /\ ApprovingInit /\ (focus # "approving" => saved)
  /\ TaskIndexInit /\ (focus # "index" => authoritative /\ index = 0)
  /\ WatchInit /\ (focus # "watch" => content = CHOOSE c \in Contents : TRUE)

Next ==
  /\ UNCHANGED focus
  /\ IF focus = "turns" THEN TurnsNext ELSE UNCHANGED turnVars
  /\ IF focus = "uploads" THEN UploadsNext ELSE UNCHANGED uploadVars
  /\ IF focus = "approvals" THEN ApprovalsNext ELSE UNCHANGED approvalVars
  /\ IF focus = "settings" THEN SettingsNext ELSE UNCHANGED settingsVars
  /\ IF focus = "usage" THEN UsageNext ELSE UNCHANGED usageVars
  /\ IF focus = "approving" THEN ApprovingNext ELSE UNCHANGED approvingVars
  /\ IF focus = "index" THEN TaskIndexNext ELSE UNCHANGED indexVars
  /\ IF focus = "history" THEN HistoryNext ELSE UNCHANGED historyVars
  /\ IF focus = "watch" THEN WatchNext ELSE UNCHANGED watchVars
  /\ IF focus = "renderer" THEN RendererNext ELSE UNCHANGED rendererVars
  /\ IF focus = "page" THEN PageNext ELSE UNCHANGED pageVars

Spec == Init /\ [][Next]_vars

\* The state of the part that moves stays within its types.
TypeOK ==
  CASE focus = "turns" -> TurnsTypeOK
    [] focus = "uploads" -> UploadsTypeOK
    [] focus = "approvals" -> ApprovalsTypeOK
    [] focus = "settings" -> SettingsTypeOK
    [] focus = "usage" -> UsageTypeOK
    [] focus = "approving" -> ApprovingTypeOK
    [] focus = "index" -> TaskIndexTypeOK
    [] focus = "history" -> HistoryTypeOK
    [] focus = "watch" -> WatchTypeOK
    [] focus = "renderer" -> RendererTypeOK
    [] focus = "page" -> PageTypeOK

\* What the pages show of the official client is so: its settings, its quota, the
\* switch of automatic approval, and the name of a task just renamed.
SettingsAsShown == ModelAsShown /\ UsageIsRecent /\ SwitchAsShown /\ RenameIsListed

\* A task that is watched gets messages of the user, or a longer one of the agent.
Followed == {[users |-> 2, text |-> 0], [users |-> 0, text |-> 2]}
\* What kind of requests use the page of the official client.
Sent(kind, mode, files) == [kind |-> kind, mode |-> mode, files |-> files]
Requested == {Sent("send", "plan", FALSE), Sent("new", "normal", TRUE), Sent("steer", "normal", FALSE),
              Sent("resume", "normal", FALSE)}
=============================================================================
