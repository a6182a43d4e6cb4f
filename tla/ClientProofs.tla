---------------------------- MODULE ClientProofs ----------------------------
(***************************************************************************)
(* Theorems about the parts of Client, for any number of requests, files,  *)
(* callers and tasks: repeated requests are harmless (Requests), and what  *)
(* is shown of the official client's settings, quota and tasks is so       *)
(* (Settings, TaskIndex).                                                  *)
(***************************************************************************)
EXTENDS Client, SequenceTheorems, FiniteSetTheorems, TLAPS

-----------------------------------------------------------------------------
(* The parts *)

\* A step of the whole is a step of a part, or leaves it alone.
LEMMA PartSteps ==
  ASSUME [Next]_vars
  PROVE  /\ TurnsNext \/ UNCHANGED turnVars
         /\ UploadsNext \/ UNCHANGED uploadVars
         /\ ApprovalsNext \/ UNCHANGED approvalVars
         /\ SettingsNext \/ UNCHANGED settingsVars
         /\ UsageNext \/ UNCHANGED usageVars
         /\ ApprovingNext \/ UNCHANGED approvingVars
         /\ TaskIndexNext \/ UNCHANGED indexVars
  BY DEF Next, vars

-----------------------------------------------------------------------------
(* Settings: the model shown *)

\* The official client always has a model and a speed.
ModelInv ==
  /\ official = [model |-> official.model, speed |-> official.speed]
  /\ changed \in BOOLEAN
  /\ ModelAsShown

LEMMA ModelInitially == SettingsInit => ModelInv
  BY DEF SettingsInit, ModelInv, ModelAsShown

\* Whatever model #composerPreferences tells, it is the one selected, or changed says so.
LEMMA AnswerTells ==
  ASSUME NEW m, ModelInv, AnswerPreferences(m) \/ SelectFails
  PROVE  ModelInv'
<1>1. CASE AnswerPreferences(m)
  <2>1. PICK n \in Models : /\ Select(n)
                            /\ \/ composer' = n /\ changed' = FALSE
                               \/ composer' = m /\ changed' = TRUE
    BY <1>1 DEF AnswerPreferences, StorePreferences
  <2>2. official' = [model |-> official'.model, speed |-> official'.speed] /\ official'.model = n
    BY <2>1 DEF Select
  <2> QED
    BY <2>1, <2>2 DEF ModelInv, ModelAsShown
<1>2. CASE SelectFails
  BY <1>2 DEF SelectFails, Select, ModelInv, ModelAsShown
<1> QED
  BY <1>1, <1>2

LEMMA ModelKept ==
  ASSUME ModelInv, SettingsNext \/ UNCHANGED settingsVars
  PROVE  ModelInv'
<1>1. CASE UNCHANGED settingsVars
  BY <1>1 DEF settingsVars, ModelInv, ModelAsShown
<1>2. ASSUME NEW c \in Callers, NEW m \in Models, NEW s \in Speeds, NEW kind \in {"set", "apply", "speed"},
             Change(c, kind, m, s)
      PROVE  ModelInv'
  BY <1>2 DEF Change, ModelInv, ModelAsShown
<1>3. CASE GetPreferences
  BY <1>3 DEF GetPreferences, ModelInv, ModelAsShown
<1>4. CASE PreferencesRead
  BY <1>4, AnswerTells DEF PreferencesRead
<1>5. CASE PreferencesSet
  BY <1>5, AnswerTells DEF PreferencesSet
<1>6. CASE ApplySelects
  BY <1>6, AnswerTells DEF ApplySelects
<1>7. CASE ApplySetsSpeed
  BY <1>7 DEF ApplySetsSpeed, ModelInv, ModelAsShown
<1>8. CASE SpeedSet
  BY <1>8 DEF SpeedSet, ModelInv, ModelAsShown
<1>9. CASE RestorePreferences
  BY <1>9 DEF RestorePreferences, ModelInv, ModelAsShown
<1>10. CASE UserChanges
  <2>1. PICK m \in Models, s \in Speeds : official' = [model |-> m, speed |-> s]
                                         /\ changed' = (changed \/ m # official.model)
    BY <1>10 DEF UserChanges
  <2>2. official' = [model |-> official'.model, speed |-> official'.speed] /\ official'.model = m
    BY <2>1
  <2>3. changed' \in BOOLEAN /\ (~changed' => m = official.model /\ ~changed) /\ composer' = composer
    BY <1>10, <2>1 DEF ModelInv, UserChanges
  <2> QED
    BY <2>2, <2>3 DEF ModelInv, ModelAsShown
<1> QED
  BY <1>1, <1>2, <1>3, <1>4, <1>5, <1>6, <1>7, <1>8, <1>9, <1>10 DEF SettingsNext

-----------------------------------------------------------------------------
(* Settings: the quota *)

\* Whoever waits was there when the official client got its present quota.
WaitersKnow ==
  \A c \in Callers : asker[c].at = "waits" =>
    /\ asker[c].answer = NoCopy /\ quota \in asker[c].had
    /\ refresh = "read" /\ ~asker[c].excused => since \subseteq asker[c].had

\* What has been read, and what is known, is one of the quotas there were since then.
UsageInv ==
  /\ quota \in Quotas
  /\ asker = [c \in Callers |-> asker[c]]
  /\ \A c \in Callers : /\ asker[c] = Asker(asker[c].at, asker[c].answer, asker[c].had, asker[c].excused)
                        /\ asker[c].excused \in BOOLEAN
  /\ refresh = "read" => reading = Unreadable \/ (reading \in Quotas /\ reading \in since)
  /\ usage \in Quotas /\ behind # {} => usage \in behind
  /\ usage = NoCopy => behind = {}
  /\ WaitersKnow
  /\ UsageIsRecent

LEMMA UsageInitially == UsageInit => UsageInv
<1> SUFFICES ASSUME UsageInit PROVE UsageInv
  OBVIOUS
<1>1. \A c \in Callers : asker[c] = Asker("new", NoCopy, {}, FALSE)
  BY DEF UsageInit
<1>2. asker = [c \in Callers |-> asker[c]]
  BY DEF UsageInit
<1>3. \A c \in Callers : /\ asker[c] = Asker(asker[c].at, asker[c].answer, asker[c].had, asker[c].excused)
                        /\ asker[c].excused \in BOOLEAN
  <2>1. \A c \in Callers : asker[c] = Asker(asker[c].at, asker[c].answer, asker[c].had, asker[c].excused)
    BY <1>1 DEF Asker
  <2>2. \A c \in Callers : asker[c].excused = FALSE
    BY <1>1 DEF Asker
  <2> QED
    BY <2>1, <2>2
<1>4. WaitersKnow /\ UsageIsRecent
  BY <1>1, UsageAssumption DEF WaitersKnow, UsageIsRecent, Asker
<1> QED
  BY <1>2, <1>3, <1>4 DEF UsageInit, UsageInv, Quotas

LEMMA AskUsageStep ==
  ASSUME UsageInv, NEW c \in Callers, NEW force \in BOOLEAN, AskUsage(c, force)
  PROVE  UsageInv'
<1> DEFINE young1 == Asker("answered", usage, behind, behind = {})
           waits == Asker("waits", NoCopy, {quota}, refresh = "read")
<1>1. UNCHANGED <<quota, usage, young, reading, since, behind>>
  BY DEF AskUsage
<1>2. CASE asker' = [asker EXCEPT ![c] = young1] /\ UNCHANGED refresh
  <2>1. \A d \in Callers : asker'[d] = IF d = c THEN young1 ELSE asker[d]
    BY <1>2 DEF UsageInv
  <2>2. asker' = [d \in Callers |-> asker'[d]]
    BY <1>2 DEF UsageInv
  <2>3. \A d \in Callers : /\ asker'[d] = Asker(asker'[d].at, asker'[d].answer, asker'[d].had, asker'[d].excused)
                          /\ asker'[d].excused \in BOOLEAN
    <3>1. young1 = Asker(young1.at, young1.answer, young1.had, young1.excused)
      BY DEF Asker
    <3>2. young1.excused = (behind = {})
      BY DEF Asker
    <3> HIDE DEF young1
    <3> QED
      BY <2>1, <3>1, <3>2 DEF UsageInv
  <2>4. /\ young1.at = "answered" /\ young1.answer = usage /\ young1.had = behind
        /\ young1.excused = (behind = {})
    BY DEF Asker
  <2> HIDE DEF young1
  <2>5. WaitersKnow'
    BY <1>1, <1>2, <2>1, <2>4 DEF WaitersKnow, UsageInv
  <2>6. UsageIsRecent'
    BY <1>1, <2>1, <2>4 DEF UsageIsRecent, UsageInv
  <2> QED
    BY <1>1, <1>2, <2>2, <2>3, <2>5, <2>6 DEF UsageInv
<1>3. CASE asker' = [asker EXCEPT ![c] = waits] /\ refresh' = IF refresh = "none" THEN "waits" ELSE refresh
  <2>1. \A d \in Callers : asker'[d] = IF d = c THEN waits ELSE asker[d]
    BY <1>3 DEF UsageInv
  <2>2. asker' = [d \in Callers |-> asker'[d]]
    BY <1>3 DEF UsageInv
  <2>3. refresh' = "read" <=> refresh = "read"
    BY <1>3
  <2>4. \A d \in Callers : /\ asker'[d] = Asker(asker'[d].at, asker'[d].answer, asker'[d].had, asker'[d].excused)
                          /\ asker'[d].excused \in BOOLEAN
    <3>1. waits = Asker(waits.at, waits.answer, waits.had, waits.excused)
      BY DEF Asker
    <3>2. waits.excused = (refresh = "read")
      BY DEF Asker
    <3> HIDE DEF waits
    <3> QED
      BY <2>1, <3>1, <3>2 DEF UsageInv
  <2>5. /\ waits.at = "waits" /\ waits.answer = NoCopy /\ waits.had = {quota}
        /\ waits.excused = (refresh = "read")
    BY DEF Asker
  <2> HIDE DEF waits
  <2>6. WaitersKnow'
    BY <1>1, <2>1, <2>3, <2>5 DEF WaitersKnow, UsageInv
  <2>7. UsageIsRecent'
    BY <1>1, <2>1, <2>5, UsageAssumption DEF UsageIsRecent, UsageInv
  <2> QED
    BY <1>1, <2>2, <2>3, <2>4, <2>6, <2>7 DEF UsageInv
<1> QED
  BY <1>2, <1>3 DEF AskUsage

LEMMA AnswerAllStep ==
  ASSUME UsageInv, NEW told, AnswerAll(told)
  PROVE  /\ asker' = [c \in Callers |-> asker'[c]]
         /\ \A c \in Callers :
              asker'[c] = IF asker[c].at = "waits"
                          THEN Asker("answered", told, asker[c].had, asker[c].excused \/ reading = Unreadable)
                          ELSE asker[c]
         /\ \A c \in Callers : /\ asker'[c] = Asker(asker'[c].at, asker'[c].answer, asker'[c].had, asker'[c].excused)
                               /\ asker'[c].excused \in BOOLEAN
         /\ \A c \in Callers : asker'[c].at # "waits"
<1>1. /\ asker' = [c \in Callers |-> asker'[c]]
      /\ \A c \in Callers :
           asker'[c] = IF asker[c].at = "waits"
                       THEN Asker("answered", told, asker[c].had, asker[c].excused \/ reading = Unreadable)
                       ELSE asker[c]
  BY DEF AnswerAll
<1>2. \A c \in Callers : /\ asker'[c] = Asker(asker'[c].at, asker'[c].answer, asker'[c].had, asker'[c].excused)
                        /\ asker'[c].excused \in BOOLEAN
  <2>1. \A c \in Callers : asker'[c] = Asker(asker'[c].at, asker'[c].answer, asker'[c].had, asker'[c].excused)
    BY <1>1 DEF UsageInv, Asker
  <2>2. \A c \in Callers : asker[c].at = "waits" => asker'[c].excused = (asker[c].excused \/ reading = Unreadable)
    BY <1>1 DEF Asker
  <2>3. \A c \in Callers : asker'[c].excused \in BOOLEAN
    BY <1>1, <2>2 DEF UsageInv
  <2> QED
    BY <2>1, <2>3
<1>3. \A c \in Callers : asker'[c].at # "waits"
  BY <1>1 DEF Asker
<1> QED
  BY <1>1, <1>2, <1>3

LEMMA UsageAnsweredStep ==
  ASSUME UsageInv, UsageAnswered
  PROVE  UsageInv'
<1>1. UNCHANGED <<quota, reading, since>> /\ refresh = "read" /\ refresh' = "none" /\ usage' = Kept
      /\ behind' = IF reading = Unreadable THEN {} ELSE since
  BY DEF UsageAnswered
<1>2. AnswerAll(Kept)
  BY DEF UsageAnswered
<1>3. reading # Unreadable => Kept = reading /\ reading \in Quotas /\ reading \in since
  BY <1>1 DEF UsageInv, Kept
<1>4. /\ usage' \in Quotas /\ behind' # {} => usage' \in behind'
      /\ usage' = NoCopy => behind' = {}
  BY <1>1, <1>3, UsageAssumption
<1>5. UsageIsRecent'
  <2> SUFFICES ASSUME NEW c \in Callers, asker'[c].answer \in Quotas, ~asker'[c].excused
               PROVE  asker'[c].answer \in asker'[c].had
    BY DEF UsageIsRecent
  <2>1. CASE asker[c].at = "waits"
    <3>1. asker'[c] = Asker("answered", Kept, asker[c].had, asker[c].excused \/ reading = Unreadable)
      BY <1>2, <2>1, AnswerAllStep
    <3>2. reading # Unreadable /\ ~asker[c].excused
      <4>1. asker'[c].excused = (asker[c].excused \/ reading = Unreadable)
        BY <3>1 DEF Asker
      <4> QED
        BY <4>1
    <3>3. asker'[c].answer = Kept /\ asker'[c].had = asker[c].had
      BY <3>1 DEF Asker
    <3> QED
      BY <1>1, <1>3, <2>1, <3>2, <3>3 DEF UsageInv, WaitersKnow
  <2>2. CASE asker[c].at # "waits"
    BY <1>2, <2>2, AnswerAllStep DEF UsageInv, UsageIsRecent
  <2> QED
    BY <2>1, <2>2
<1>6. WaitersKnow'
  BY <1>2, AnswerAllStep DEF WaitersKnow
<1>7. /\ asker' = [c \in Callers |-> asker'[c]]
      /\ \A c \in Callers : /\ asker'[c] = Asker(asker'[c].at, asker'[c].answer, asker'[c].had, asker'[c].excused)
                            /\ asker'[c].excused \in BOOLEAN
  BY <1>2, AnswerAllStep
<1> QED
  BY <1>1, <1>4, <1>5, <1>6, <1>7 DEF UsageInv

LEMMA UsageFailsStep ==
  ASSUME UsageInv, UsageFails
  PROVE  UsageInv'
<1>1. UNCHANGED <<quota, usage, reading, since, behind>> /\ refresh' = "none" /\ AnswerAll(NoCopy)
  BY DEF UsageFails
<1>2. UsageIsRecent'
  <2> SUFFICES ASSUME NEW c \in Callers, asker'[c].answer \in Quotas, ~asker'[c].excused
               PROVE  asker'[c].answer \in asker'[c].had
    BY DEF UsageIsRecent
  <2>1. asker[c].at # "waits"
    <3>1. asker[c].at = "waits" => asker'[c].answer = NoCopy
      <4>1. asker[c].at = "waits" =>
              asker'[c] = Asker("answered", NoCopy, asker[c].had, asker[c].excused \/ reading = Unreadable)
        BY <1>1, AnswerAllStep
      <4> QED
        BY <4>1 DEF Asker
    <3> QED
      BY <3>1, UsageAssumption
  <2> QED
    BY <1>1, <2>1, AnswerAllStep DEF UsageInv, UsageIsRecent
<1>3. WaitersKnow'
  BY <1>1, AnswerAllStep DEF WaitersKnow
<1>4. /\ asker' = [c \in Callers |-> asker'[c]]
      /\ \A c \in Callers : /\ asker'[c] = Asker(asker'[c].at, asker'[c].answer, asker'[c].had, asker'[c].excused)
                            /\ asker'[c].excused \in BOOLEAN
  BY <1>1, AnswerAllStep
<1> QED
  BY <1>1, <1>2, <1>3, <1>4 DEF UsageInv

LEMMA QuotaChangesStep ==
  ASSUME UsageInv, QuotaChanges
  PROVE  UsageInv'
<1>1. /\ quota' \in Quotas /\ since' = since \cup {quota'}
      /\ behind' = IF behind = {} THEN {} ELSE behind \cup {quota'}
      /\ UNCHANGED <<usage, refresh, reading>>
  BY DEF QuotaChanges
<1>2. /\ asker' = [c \in Callers |-> asker'[c]]
      /\ \A c \in Callers :
           asker'[c] = IF asker[c].at = "waits" THEN [asker[c] EXCEPT !.had = @ \cup {quota'}] ELSE asker[c]
  BY DEF QuotaChanges
<1>3. \A c \in Callers :
        asker'[c] = Asker(asker[c].at, asker[c].answer,
                          IF asker[c].at = "waits" THEN asker[c].had \cup {quota'} ELSE asker[c].had,
                          asker[c].excused)
  BY <1>2 DEF UsageInv, Asker
<1>4. \A c \in Callers :
        /\ asker'[c].at = asker[c].at /\ asker'[c].answer = asker[c].answer /\ asker'[c].excused = asker[c].excused
        /\ asker'[c].had = IF asker[c].at = "waits" THEN asker[c].had \cup {quota'} ELSE asker[c].had
  <2> TAKE c \in Callers
  <2> DEFINE had == IF asker[c].at = "waits" THEN asker[c].had \cup {quota'} ELSE asker[c].had
  <2>1. asker'[c] = Asker(asker[c].at, asker[c].answer, had, asker[c].excused)
    BY <1>3
  <2> HIDE DEF had
  <2>2. asker'[c].at = asker[c].at /\ asker'[c].answer = asker[c].answer /\ asker'[c].had = had
    BY <2>1 DEF Asker
  <2>3. asker'[c].excused = asker[c].excused
    BY <2>1 DEF Asker
  <2> QED
    BY <2>2, <2>3 DEF had
<1>7. \A c \in Callers : /\ asker'[c] = Asker(asker'[c].at, asker'[c].answer, asker'[c].had, asker'[c].excused)
                        /\ asker'[c].excused \in BOOLEAN
  BY <1>3, <1>4 DEF UsageInv
<1>5. WaitersKnow'
  BY <1>1, <1>4 DEF UsageInv, WaitersKnow
<1>6. UsageIsRecent'
  BY <1>4 DEF UsageInv, UsageIsRecent
<1> QED
  BY <1>1, <1>2, <1>5, <1>6, <1>7 DEF UsageInv

LEMMA UsageKept ==
  ASSUME UsageInv, UsageNext \/ UNCHANGED usageVars
  PROVE  UsageInv'
<1>1. CASE UNCHANGED usageVars
  BY <1>1 DEF usageVars, UsageInv, WaitersKnow, UsageIsRecent
<1>2. CASE UsagePoll
  BY <1>2 DEF UsagePoll, UsageInv, WaitersKnow, UsageIsRecent
<1>3. CASE UsageRead
  BY <1>3 DEF UsageRead, UsageInv, WaitersKnow, UsageIsRecent
<1>4. CASE FiveSeconds
  BY <1>4 DEF FiveSeconds, UsageInv, WaitersKnow, UsageIsRecent
<1>5. CASE RestoreUsage
  BY <1>5, UsageAssumption DEF RestoreUsage, UsageInv, WaitersKnow, UsageIsRecent
<1> QED
  BY <1>1, <1>2, <1>3, <1>4, <1>5, AskUsageStep, UsageAnsweredStep, UsageFailsStep, QuotaChangesStep DEF UsageNext

-----------------------------------------------------------------------------
(* Settings: automatic approval *)

\* While one request switches, the service has its value, and so does the file
\* once it is written.
SwitchInv ==
  /\ enabled \in BOOLEAN /\ approves \in BOOLEAN /\ saved \in BOOLEAN /\ mixed \in BOOLEAN
  /\ setter \in [Setters -> [at : {"new", "asked", "written", "done"}, value : BOOLEAN]]
  /\ ~mixed => \/ Setting = {} /\ enabled = approves /\ enabled = saved
               \/ \E s \in Setters : /\ Setting = {s} /\ approves = setter[s].value
                                     /\ setter[s].at = "written" => saved = setter[s].value

LEMMA SwitchInitially == ApprovingInit => SwitchInv
<1> SUFFICES ASSUME ApprovingInit PROVE SwitchInv
  OBVIOUS
<1>1. \A s \in Setters : setter[s].at = "new"
  BY DEF ApprovingInit
<1>2. Setting = {}
  BY <1>1 DEF Setting
<1>3. setter \in [Setters -> [at : {"new", "asked", "written", "done"}, value : BOOLEAN]]
  BY DEF ApprovingInit
<1> QED
  BY <1>2, <1>3 DEF ApprovingInit, SwitchInv

LEMMA SetAutoApprovalStep ==
  ASSUME SwitchInv, NEW s \in Setters, NEW v \in BOOLEAN, SetAutoApproval(s, v)
  PROVE  SwitchInv'
<1>1. setter[s].at = "new" /\ UNCHANGED <<enabled, saved>>
  BY DEF SetAutoApproval
<1>2. CASE approves' = v /\ setter' = [setter EXCEPT ![s] = [at |-> "asked", value |-> v]] /\ mixed' = (Setting # {})
  <2>1. Setting' = Setting \cup {s} /\ setter'[s] = [at |-> "asked", value |-> v]
    BY <1>2 DEF Setting, SwitchInv
  <2>2. setter' \in [Setters -> [at : {"new", "asked", "written", "done"}, value : BOOLEAN]]
    BY <1>2 DEF SwitchInv
  <2>3. ~mixed' => Setting' = {s}
    BY <1>2, <2>1
  <2>4. approves' = setter'[s].value /\ setter'[s].at # "written"
    BY <1>2, <2>1
  <2> QED
    BY <1>1, <1>2, <2>2, <2>3, <2>4 DEF SwitchInv
<1>3. CASE At(s, "done") /\ UNCHANGED <<approves, mixed>>
  <2>1. Setting' = Setting /\ \A p \in Setting : setter'[p] = setter[p]
    BY <1>1, <1>3 DEF Setting, SwitchInv, At
  <2>2. setter' \in [Setters -> [at : {"new", "asked", "written", "done"}, value : BOOLEAN]]
    BY <1>3 DEF SwitchInv, At
  <2> QED
    BY <1>1, <1>3, <2>1, <2>2 DEF SwitchInv
<1> QED
  BY <1>2, <1>3 DEF SetAutoApproval

LEMMA PreferenceWrittenStep ==
  ASSUME SwitchInv, NEW s \in Setters, PreferenceWritten(s)
  PROVE  SwitchInv'
<1>1. /\ setter[s].at = "asked" /\ setter' = [setter EXCEPT ![s].at = "written"]
      /\ saved' = setter[s].value /\ UNCHANGED <<enabled, approves, mixed>>
  BY DEF PreferenceWritten, At
<1>2. /\ setter' \in [Setters -> [at : {"new", "asked", "written", "done"}, value : BOOLEAN]]
      /\ setter'[s].value = setter[s].value
  BY <1>1 DEF SwitchInv
<1>3. Setting' = Setting /\ s \in Setting
  BY <1>1 DEF Setting, SwitchInv
<1>4. saved' \in BOOLEAN
  BY <1>1 DEF SwitchInv
<1> QED
  BY <1>1, <1>2, <1>3, <1>4 DEF SwitchInv

LEMMA AutoApprovalSetStep ==
  ASSUME SwitchInv, NEW s \in Setters, AutoApprovalSet(s)
  PROVE  SwitchInv'
<1>1. /\ setter[s].at = "written" /\ setter' = [setter EXCEPT ![s].at = "done"]
      /\ enabled' = setter[s].value /\ UNCHANGED <<approves, saved, mixed>>
  BY DEF AutoApprovalSet, At
<1>2. setter' \in [Setters -> [at : {"new", "asked", "written", "done"}, value : BOOLEAN]]
  BY <1>1 DEF SwitchInv
<1>3. Setting' = Setting \ {s} /\ s \in Setting
  BY <1>1 DEF Setting, SwitchInv
<1>4. enabled' \in BOOLEAN
  BY <1>1 DEF SwitchInv
<1> QED
  BY <1>1, <1>2, <1>3, <1>4 DEF SwitchInv

LEMMA SwitchKept ==
  ASSUME SwitchInv, ApprovingNext \/ UNCHANGED approvingVars
  PROVE  SwitchInv'
<1>1. CASE UNCHANGED approvingVars
  BY <1>1 DEF approvingVars, SwitchInv, Setting
<1>2. CASE ServerRestarts
  BY <1>2 DEF ServerRestarts, SwitchInv, Setting
<1> QED
  BY <1>1, <1>2, SetAutoApprovalStep, PreferenceWrittenStep, AutoApprovalSetStep DEF ApprovingNext

-----------------------------------------------------------------------------
(* The list of tasks *)

\* A name as new as the one renamer r has given, or a newer one.
Recent(r, n) == n \in Names /\ n >= renamer[r].name

\* What an unexcused renamer's title has become, and the list it waits for.
NameKept(r) ==
  /\ ~authoritative
  /\ Recent(r, name) /\ Recent(r, title)
  /\ lookup.at = "read" /\ lookup.name \in Names => Recent(r, lookup.name)
  /\ renamer[r].at \in {"waits", "lists"} => listing.at # "none"
  /\ renamer[r].at = "lists" /\ listing.at \in {"titled", "listed"} => Recent(r, listing.name)
  /\ renamer[r].at = "done" => Recent(r, renamer[r].answer)
RenamedSoon(r) == renamer[r].at \in {"waits", "lists", "done"} /\ ~renamer[r].excused

IndexInv ==
  /\ name \in Names /\ title \in Names
  /\ renamer \in [Renamers -> [at : {"new", "asked", "set", "waits", "lists", "done"}, name : Names,
                               answer : Names \cup {Absent, NoList}, excused : BOOLEAN]]
  /\ listing.name \in Names \cup {Absent, NoList} /\ listed \in Names \cup {Absent}
  /\ lookup.name \in Names \cup {Absent, NoList}
  /\ \A r \in Renamers : renamer[r].name <= name
  /\ \A r \in Renamers : RenamedSoon(r) => NameKept(r)

LEMMA IndexInitially == TaskIndexInit => IndexInv
<1> SUFFICES ASSUME TaskIndexInit PROVE IndexInv
  OBVIOUS
<1>1. 0 \in Names
  BY TaskIndexAssumption DEF Names
<1>2. \A r \in Renamers : renamer[r].at = "new" /\ renamer[r].name = 0
  BY DEF TaskIndexInit
<1>3. renamer \in [Renamers -> [at : {"new", "asked", "set", "waits", "lists", "done"}, name : Names,
                                answer : Names \cup {Absent, NoList}, excused : BOOLEAN]]
  BY <1>1 DEF TaskIndexInit
<1> QED
  BY <1>1, <1>2, <1>3 DEF TaskIndexInit, IndexInv, RenamedSoon, Quiet

\* What the lists and titles change when no renamer moves.
LEMMA ListsStep ==
  ASSUME IndexInv, UNCHANGED <<name, authoritative, renamer>>,
         title' \in Names, listing'.name \in Names \cup {Absent, NoList},
         listed' \in Names \cup {Absent}, lookup'.name \in Names \cup {Absent, NoList},
         ASSUME NEW r \in Renamers, RenamedSoon(r), NameKept(r)
         PROVE  /\ Recent(r, title')
                /\ lookup'.at = "read" /\ lookup'.name \in Names => Recent(r, lookup'.name)
                /\ listing.at # "none" => listing'.at # "none"
                /\ renamer[r].at = "lists" /\ listing'.at \in {"titled", "listed"} => Recent(r, listing'.name)
  PROVE  IndexInv'
<1>1. ASSUME NEW r \in Renamers, RenamedSoon(r)' PROVE NameKept(r)'
  <2>1. RenamedSoon(r) /\ NameKept(r)
    BY <1>1 DEF IndexInv, RenamedSoon
  <2> QED
    BY <2>1 DEF NameKept, Recent
<1> QED
  BY <1>1 DEF IndexInv

LEMMA ServiceStep ==
  ASSUME IndexInv, TitlesRead \/ TitlesStored \/ FiveSecondsPass \/ ListAsksForTitles \/ ListThreads \/ ListAnswered
  PROVE  IndexInv'
<1>1. CASE TitlesRead
  <2>1. lookup' \in {[at |-> "read", name |-> n] : n \in {name, Absent, NoList}}
        /\ UNCHANGED <<name, authoritative, listed, title, listing, renamer>>
    BY <1>1 DEF TitlesRead, serviceVars
  <2>2. lookup'.name \in {name, Absent, NoList} /\ Absent \notin Names /\ NoList \notin Names
    BY <2>1, TaskIndexAssumption DEF Names, Absent, NoList
  <2> QED
    BY <2>1, <2>2, ListsStep DEF IndexInv, NameKept
<1>2. CASE TitlesStored
  BY <1>2, ListsStep DEF TitlesStored, IndexInv, NameKept, Quiet
<1>3. CASE FiveSecondsPass
  BY <1>3, ListsStep DEF FiveSecondsPass, IndexInv, NameKept
<1>4. CASE ListAsksForTitles
  <2>1. UNCHANGED <<name, authoritative, renamer, title, listed>>
    BY <1>4 DEF ListAsksForTitles, serviceVars
  <2>2. \/ listing' = [at |-> "titled", name |-> title] /\ UNCHANGED lookup
        \/ lookup' = [at |-> "asked", name |-> NoList] /\ UNCHANGED listing
    BY <1>4 DEF ListAsksForTitles
  <2>3. listing'.name \in Names \cup {Absent, NoList} /\ lookup'.name \in Names \cup {Absent, NoList}
    BY <2>2 DEF IndexInv
  <2>4. ASSUME NEW r \in Renamers, RenamedSoon(r), NameKept(r)
        PROVE  /\ lookup'.at = "read" /\ lookup'.name \in Names => Recent(r, lookup'.name)
               /\ listing.at # "none" => listing'.at # "none"
               /\ renamer[r].at = "lists" /\ listing'.at \in {"titled", "listed"} => Recent(r, listing'.name)
    BY <2>2, <2>4 DEF NameKept
  <2>5. \A r \in Renamers : NameKept(r) => Recent(r, title')
    BY <2>1 DEF NameKept
  <2> QED
    BY <2>1, <2>3, <2>4, <2>5, ListsStep DEF IndexInv
<1>5. CASE ListThreads
  BY <1>5, ListsStep DEF ListThreads, serviceVars, Refreshed, Refreshing, IndexInv, NameKept
<1>6. CASE ListAnswered
  BY <1>6, ListsStep DEF ListAnswered, serviceVars, IndexInv, NameKept
<1> QED
  BY <1>1, <1>2, <1>3, <1>4, <1>5, <1>6

LEMMA ListToldStep ==
  ASSUME IndexInv, ListTold
  PROVE  IndexInv'
<1>1. /\ listing.at = "listed" /\ renamer' = RenamersGoOn
      /\ listing' = IF SomeoneListsAnew THEN [at |-> "asked", name |-> NoList] ELSE Quiet
      /\ UNCHANGED <<name, authoritative, listed, title, lookup>>
  BY DEF ListTold, serviceVars
<1>2. \A r \in Renamers :
        renamer'[r] = CASE renamer[r].at = "lists" -> [renamer[r] EXCEPT !.at = "done", !.answer = listing.name]
                        [] renamer[r].at = "waits" -> [renamer[r] EXCEPT !.at = "lists"]
                        [] OTHER -> renamer[r]
  BY <1>1 DEF RenamersGoOn
<1>3. ASSUME NEW r \in Renamers
      PROVE  /\ renamer'[r] \in [at : {"new", "asked", "set", "waits", "lists", "done"}, name : Names,
                                 answer : Names \cup {Absent, NoList}, excused : BOOLEAN]
             /\ renamer'[r].name = renamer[r].name /\ renamer'[r].excused = renamer[r].excused
             /\ renamer[r].at = "lists" => renamer'[r].at = "done" /\ renamer'[r].answer = listing.name
             /\ renamer[r].at = "waits" => renamer'[r].at = "lists"
             /\ renamer[r].at \notin {"lists", "waits"} => renamer'[r] = renamer[r]
  BY <1>2 DEF IndexInv
<1>4. /\ renamer' \in [Renamers -> [at : {"new", "asked", "set", "waits", "lists", "done"}, name : Names,
                                    answer : Names \cup {Absent, NoList}, excused : BOOLEAN]]
  <2>1. renamer' = [r \in Renamers |-> renamer'[r]]
    BY <1>1 DEF RenamersGoOn
  <2> QED
    BY <1>3, <2>1
<1>5. listing'.name \in Names \cup {Absent, NoList} /\ listing'.at \notin {"titled", "listed"}
      /\ (SomeoneListsAnew => listing'.at # "none")
  BY <1>1 DEF Quiet
<1>6. ASSUME NEW r \in Renamers, RenamedSoon(r)' PROVE NameKept(r)'
  <2>1. RenamedSoon(r) /\ NameKept(r)
    BY <1>3, <1>6 DEF IndexInv, RenamedSoon
  <2>2. \A n : Recent(r, n)' <=> n \in Names /\ n >= renamer[r].name
    BY <1>3 DEF Recent
  <2>3. renamer'[r].at = "done" => Recent(r, renamer'[r].answer)
    BY <1>1, <1>3, <2>1 DEF NameKept, RenamedSoon
  <2>4. renamer'[r].at \in {"waits", "lists"} => listing'.at # "none"
    BY <1>3, <1>5, <2>1 DEF RenamedSoon, SomeoneListsAnew
  <2> QED
    BY <1>1, <1>3, <1>5, <2>1, <2>3, <2>4 DEF NameKept, Recent
<1> QED
  BY <1>1, <1>3, <1>4, <1>5, <1>6 DEF IndexInv

LEMMA RenamerStep ==
  ASSUME IndexInv, NEW r \in Renamers, Rename(r) \/ OfficialRename(r)
  PROVE  IndexInv'
<1>1. /\ UNCHANGED <<authoritative, listed, title, lookup, listing>>
      /\ name' \in Names /\ name' >= name
  BY TaskIndexAssumption DEF Rename, OfficialRename, serviceVars, IndexInv, Names
<1>2. /\ renamer' \in [Renamers -> [at : {"new", "asked", "set", "waits", "lists", "done"}, name : Names,
                                    answer : Names \cup {Absent, NoList}, excused : BOOLEAN]]
      /\ renamer'[r].at \in {"asked", "set"}
      /\ \A q \in Renamers : q # r => renamer'[q] = renamer[q]
  BY TaskIndexAssumption DEF Rename, OfficialRename, IndexInv, Names
<1>3. renamer'[r].name <= name'
  BY TaskIndexAssumption DEF Rename, OfficialRename, IndexInv, Names
<1>4. \A q \in Renamers : renamer'[q].name <= name'
  BY <1>1, <1>2, <1>3 DEF IndexInv, Names
<1>5. ASSUME NEW q \in Renamers, RenamedSoon(q)' PROVE NameKept(q)'
  <2>1. q # r /\ RenamedSoon(q) /\ NameKept(q)
    BY <1>2, <1>5 DEF IndexInv, RenamedSoon
  <2>2. renamer'[q] = renamer[q]
    BY <1>2, <2>1
  <2>3. name' >= renamer[q].name
    BY <1>1, <1>2, <1>4, <2>2
  <2> QED
    BY <1>1, <2>1, <2>2, <2>3 DEF NameKept, Recent
<1> QED
  BY <1>1, <1>2, <1>4, <1>5 DEF IndexInv

LEMMA RenameConfirmedStep ==
  ASSUME IndexInv, NEW r \in Renamers, RenameConfirmed(r)
  PROVE  IndexInv'
<1> DEFINE late == authoritative \/ lookup.at # "none" \/ Overtaken(r) # {}
<1>1. /\ renamer[r].at = "set" /\ title' = renamer[r].name /\ listing' = Refreshed
      /\ UNCHANGED <<name, authoritative, listed, lookup>>
  BY DEF RenameConfirmed
<1>2. /\ listing'.at # "none" /\ listing'.name \in Names \cup {Absent, NoList}
      /\ listing' = listing \/ listing'.at = "asked"
      /\ listing.at = "none" => listing'.at = "asked"
      /\ listing.at # "none" => listing' = listing
  BY <1>1 DEF Refreshed, Refreshing, IndexInv
<1>3. /\ \A q \in Renamers : renamer'[q] =
           IF q = r THEN [renamer[r] EXCEPT !.at = Waits, !.excused = late]
           ELSE [renamer[q] EXCEPT !.excused = @ \/ q \in Overtaken(r)]
      /\ renamer' = [q \in Renamers |-> renamer'[q]]
  BY DEF RenameConfirmed
<1>4. Waits \in {"waits", "lists"} /\ (Waits = "lists" => listing.at = "none")
  BY DEF Waits, Refreshing
<1>5. late \in BOOLEAN
  OBVIOUS
<1>6. /\ renamer'[r].at = Waits /\ renamer'[r].name = renamer[r].name
      /\ renamer'[r].excused = late
      /\ renamer'[r] \in [at : {"new", "asked", "set", "waits", "lists", "done"}, name : Names,
                          answer : Names \cup {Absent, NoList}, excused : BOOLEAN]
  <2>1. renamer'[r] = [renamer[r] EXCEPT !.at = Waits, !.excused = late]
    BY <1>3
  <2>2. renamer[r] \in [at : {"new", "asked", "set", "waits", "lists", "done"}, name : Names,
                        answer : Names \cup {Absent, NoList}, excused : BOOLEAN]
    BY DEF IndexInv
  <2> HIDE DEF late
  <2> QED
    BY <1>4, <1>5, <2>1, <2>2
<1>7. ASSUME NEW q \in Renamers, q # r
      PROVE  /\ renamer'[q].at = renamer[q].at /\ renamer'[q].name = renamer[q].name
             /\ renamer'[q].answer = renamer[q].answer
             /\ renamer'[q].excused = (renamer[q].excused \/ q \in Overtaken(r))
             /\ renamer'[q] \in [at : {"new", "asked", "set", "waits", "lists", "done"}, name : Names,
                                 answer : Names \cup {Absent, NoList}, excused : BOOLEAN]
  <2>1. renamer'[q] = [renamer[q] EXCEPT !.excused = @ \/ q \in Overtaken(r)]
    BY <1>3, <1>7
  <2>2. (renamer[q].excused \/ q \in Overtaken(r)) \in BOOLEAN
    OBVIOUS
  <2> QED
    BY <2>1, <2>2 DEF IndexInv
<1>8. renamer' \in [Renamers -> [at : {"new", "asked", "set", "waits", "lists", "done"}, name : Names,
                                 answer : Names \cup {Absent, NoList}, excused : BOOLEAN]]
  BY <1>3, <1>6, <1>7
<1>9. title' \in Names /\ renamer[r].name <= name /\ \A q \in Renamers : renamer'[q].name = renamer[q].name
  BY <1>1, <1>6, <1>7 DEF IndexInv
<1>10. ASSUME NEW q \in Renamers, RenamedSoon(q)' PROVE NameKept(q)'
  <2>1. CASE q = r
    <3>1. ~late
      BY <1>6, <1>10, <2>1 DEF RenamedSoon
    <3>2. /\ ~authoritative /\ lookup.at = "none"
          /\ Recent(r, name) /\ Recent(r, renamer[r].name)
      BY <3>1, <1>9, TaskIndexAssumption DEF IndexInv, Recent, Names
    <3>3. renamer'[r].at # "done"
      BY <1>4, <1>6
    <3>4. renamer'[r].at = "lists" => listing'.at = "asked"
      BY <1>2, <1>4, <1>6
    <3> QED
      BY <1>1, <1>2, <1>6, <2>1, <3>2, <3>3, <3>4 DEF NameKept, Recent
  <2>2. CASE q # r
    <3>1. RenamedSoon(q) /\ q \notin Overtaken(r)
      BY <1>7, <1>10, <2>2 DEF RenamedSoon
    <3>2. NameKept(q) /\ ~(renamer[q].name > renamer[r].name)
      BY <3>1 DEF IndexInv, Overtaken
    <3>3. Recent(q, renamer[r].name)
      BY <3>2, TaskIndexAssumption DEF IndexInv, Recent, Names
    <3>4. listing' = listing \/ (listing.at = "none" /\ listing'.at = "asked")
      BY <1>2
    <3> QED
      BY <1>1, <1>2, <1>7, <2>2, <3>2, <3>3, <3>4 DEF NameKept, Recent
  <2> QED
    BY <2>1, <2>2
<1>11. listed' \in Names \cup {Absent} /\ lookup'.name \in Names \cup {Absent, NoList} /\ name' \in Names
  BY <1>1 DEF IndexInv
<1>12. \A q \in Renamers : renamer'[q].name <= name'
  BY <1>1, <1>9 DEF IndexInv
<1> QED
  BY <1>2, <1>8, <1>9, <1>10, <1>11, <1>12 DEF IndexInv

LEMMA IndexKept ==
  ASSUME IndexInv, TaskIndexNext \/ UNCHANGED indexVars
  PROVE  IndexInv'
<1>1. CASE UNCHANGED indexVars
  BY <1>1, ListsStep DEF indexVars, IndexInv, NameKept
<1> QED
  BY <1>1, ServiceStep, ListToldStep, RenamerStep, RenameConfirmedStep DEF TaskIndexNext

LEMMA NamesListed == IndexInv => RenameIsListed
  BY TaskIndexAssumption DEF IndexInv, RenamedSoon, NameKept, Recent, RenameIsListed, Renamed, Names

\* What the pages show of the official client is so: its model, its quota, the
\* switch of automatic approval, and the name of a task just renamed
\* (#composerSnapshot, #usageSnapshot, #autoApprovalEnabled, #threadIndexSnapshot).
THEOREM ShownAsItIs == Spec => []SettingsAsShown
<1> DEFINE Inv == ModelInv /\ UsageInv /\ SwitchInv /\ IndexInv
<1>1. Init => Inv
  BY ModelInitially, UsageInitially, SwitchInitially, IndexInitially DEF Init
<1>2. Inv /\ [Next]_vars => Inv'
  BY PartSteps, ModelKept, UsageKept, SwitchKept, IndexKept
<1>3. Inv => SettingsAsShown
  <2>1. ModelInv => ModelAsShown
    BY DEF ModelInv
  <2>2. UsageInv => UsageIsRecent
    BY DEF UsageInv
  <2>3. SwitchInv => SwitchAsShown
    BY DEF SwitchInv, SwitchAsShown
  <2> QED
    BY <2>1, <2>2, <2>3, NamesListed DEF SettingsAsShown
<1> QED
  BY <1>1, <1>2, <1>3, PTL DEF Spec

-----------------------------------------------------------------------------
(* Choosing elements of a sequence *)

\* What is chosen are the elements at the given places, in their order.
LEMMA ChosenProperties ==
  ASSUME NEW T, NEW s \in Seq(T), NEW places \in SUBSET DOMAIN s
  PROVE  /\ Chosen(s, places) \in Seq(T)
         /\ \A i \in places : \E n \in DOMAIN Chosen(s, places) : Chosen(s, places)[n] = s[i]
         /\ \A n \in DOMAIN Chosen(s, places) : \E i \in places : Chosen(s, places)[n] = s[i]
         /\ \A m, n \in DOMAIN Chosen(s, places) : m < n =>
              \E i, j \in places : i < j /\ Chosen(s, places)[m] = s[i] /\ Chosen(s, places)[n] = s[j]
<1> DEFINE rank(i) == Cardinality({j \in places : j <= i})
           size == Cardinality(places)
           f == [i \in places |-> rank(i)]
           place(n) == CHOOSE i \in places : rank(i) = n
<1>1. DOMAIN s = 1..Len(s) /\ Len(s) \in Nat
  BY LenProperties
<1>2. IsFiniteSet(places) /\ size \in Nat
  <2>1. IsFiniteSet(1..Len(s)) /\ places \in SUBSET (1..Len(s))
    BY <1>1, FS_Interval
  <2> QED
    BY <2>1, FS_Subset, FS_CardinalityType
<1>3. ASSUME NEW i \in places
      PROVE  rank(i) \in 1..size
  <2> DEFINE below == {j \in places : j <= i}
  <2>1. below \in SUBSET places /\ i \in below /\ i \in Nat
    BY <1>1
  <2>2. IsFiniteSet(below) /\ Cardinality(below) <= size /\ Cardinality(below) \in Nat
    BY <1>2, <2>1, FS_Subset, FS_CardinalityType
  <2>3. Cardinality(below) # 0
    BY <2>1, <2>2, FS_EmptySet
  <2> QED
    BY <1>2, <2>2, <2>3
<1>4. ASSUME NEW i \in places, NEW k \in places, i < k
      PROVE  rank(i) < rank(k)
  <2> DEFINE low == {j \in places : j <= i}
             high == {j \in places : j <= k}
  <2>1. i \in Nat /\ k \in Nat /\ \A j \in places : j \in Nat
    BY <1>1
  <2>2. low \in SUBSET high /\ k \in high /\ k \notin low
    BY <1>4, <2>1
  <2>3. IsFiniteSet(high)
    BY <1>2, FS_Subset
  <2>4. Cardinality(low) <= Cardinality(high) /\ Cardinality(low) # Cardinality(high)
    BY <2>2, <2>3, FS_Subset
  <2>5. Cardinality(low) \in Nat /\ Cardinality(high) \in Nat
    BY <2>2, <2>3, FS_Subset, FS_CardinalityType
  <2> QED
    BY <2>4, <2>5
<1> HIDE DEF rank
<1>5. f \in Injection(places, 1..size)
  <2>1. f \in [places -> 1..size]
    BY <1>3
  <2>2. ASSUME NEW i \in places, NEW k \in places, f[i] = f[k]
        PROVE  i = k
    <3>1. rank(i) = rank(k) /\ rank(i) \in Nat /\ i \in Nat /\ k \in Nat
      BY <1>1, <1>2, <1>3, <2>2
    <3>2. ~(i < k) /\ ~(k < i)
      BY <1>4, <3>1
    <3> QED
      BY <3>1, <3>2
  <2> HIDE DEF f
  <2> QED
    BY <2>1, <2>2 DEF Injection, IsInjective
<1>6. f \in Surjection(places, 1..size)
  <2>1. IsFiniteSet(1..size) /\ Cardinality(1..size) = size
    BY <1>2, FS_Interval
  <2> QED
    BY <1>2, <1>5, <2>1, FS_Injection
<1>7. ASSUME NEW n \in 1..size
      PROVE  place(n) \in places /\ rank(place(n)) = n
  <2>1. \E i \in places : rank(i) = n
    BY <1>6 DEF Surjection
  <2> QED
    BY <2>1
<1>8. ASSUME NEW i \in places
      PROVE  place(rank(i)) = i
  <2>1. place(rank(i)) \in places /\ rank(place(rank(i))) = rank(i)
    BY <1>3, <1>7
  <2> QED
    BY <1>1, <1>4, <2>1, <1>3
<1>9. Chosen(s, places) = [n \in 1..size |-> s[place(n)]]
  BY DEF Chosen, rank
<1>10. ASSUME NEW m \in 1..size, NEW n \in 1..size, m < n
       PROVE  place(m) < place(n)
  <2>1. /\ place(m) \in places /\ rank(place(m)) = m
        /\ place(n) \in places /\ rank(place(n)) = n
    BY <1>7
  <2>2. place(m) \in Nat /\ place(n) \in Nat
    BY <1>1, <2>1
  <2>3. place(n) < place(m) => n < m
    BY <1>4, <2>1
  <2>4. place(n) # place(m)
    BY <1>10, <2>1
  <2> QED
    BY <1>10, <2>2, <2>3, <2>4
<1> HIDE DEF place, size
<1>11. Chosen(s, places) \in Seq(T) /\ DOMAIN Chosen(s, places) = 1..size
  <2>1. \A n \in 1..size : s[place(n)] \in T
    BY <1>1, <1>7, ElementOfSeq
  <2>2. [n \in 1..size |-> s[place(n)]] \in [1..size -> T]
    BY <2>1
  <2> QED
    BY <1>2, <1>9, <2>2, SeqDef
<1>12. \A i \in places : \E n \in 1..size : Chosen(s, places)[n] = s[i]
  BY <1>3, <1>8, <1>9
<1>13. \A n \in 1..size : \E i \in places : Chosen(s, places)[n] = s[i]
  BY <1>7, <1>9
<1>14. \A m, n \in 1..size : m < n =>
         \E i, j \in places : i < j /\ Chosen(s, places)[m] = s[i] /\ Chosen(s, places)[n] = s[j]
  BY <1>7, <1>9, <1>10
<1>15. \A i \in places : \E n \in DOMAIN Chosen(s, places) : Chosen(s, places)[n] = s[i]
  BY <1>11, <1>12
<1>16. \A n \in DOMAIN Chosen(s, places) : \E i \in places : Chosen(s, places)[n] = s[i]
  BY <1>11, <1>13
<1>17. \A m, n \in DOMAIN Chosen(s, places) : m < n =>
         \E i, j \in places : i < j /\ Chosen(s, places)[m] = s[i] /\ Chosen(s, places)[n] = s[j]
  BY <1>11, <1>14
<1> QED
  BY <1>11, <1>15, <1>16, <1>17

-----------------------------------------------------------------------------
(* Requests: turns with a client request id *)

KeptEntry == [key : Keys, call : Nat, old : BOOLEAN]
Operation == [key : Keys, at : {"running", "done", "failed"}, old : BOOLEAN]

\* The table s belongs to the operations c: in their order, under their keys.
Belongs(s, c) ==
  /\ s \in Seq(KeptEntry) /\ c \in Seq(Operation)
  /\ \A n \in DOMAIN s : /\ s[n].call \in DOMAIN c /\ s[n].key = c[s[n].call].key
                         /\ s[n].old => c[s[n].call].old
  /\ \A m, n \in DOMAIN s : m < n => s[m].call < s[n].call
\* An operation may be missing in it when it has failed, is old, or MaxKept later
\* ones were begun.
Spent(c, i) == c[i].at = "failed" \/ c[i].old \/ Len(c) - i >= MaxKept
TurnsInv ==
  /\ Belongs(kept, call)
  /\ \A i \in DOMAIN call : Spent(call, i) \/ \E n \in DOMAIN kept : kept[n].call = i
  /\ TurnsRunOnce

LEMMA TurnsInitially == TurnsInit => TurnsInv
  BY DEF TurnsInit, TurnsInv, Belongs, TurnsRunOnce

\* A choice of entries belongs to the operations as well.
LEMMA ChosenBelong ==
  ASSUME NEW s, NEW c, Belongs(s, c), NEW places \in SUBSET DOMAIN s
  PROVE  Belongs(Chosen(s, places), c)
<1>1. /\ Chosen(s, places) \in Seq(KeptEntry)
      /\ \A n \in DOMAIN Chosen(s, places) : \E i \in places : Chosen(s, places)[n] = s[i]
      /\ \A m, n \in DOMAIN Chosen(s, places) : m < n =>
              \E i, j \in places : i < j /\ Chosen(s, places)[m] = s[i] /\ Chosen(s, places)[n] = s[j]
  BY ChosenProperties DEF Belongs
<1> QED
  BY <1>1 DEF Belongs

\* The call numbers in a table count up, so they span at least its length.
LEMMA SpanOfCalls ==
  ASSUME NEW s, NEW c, Belongs(s, c), s # <<>>
  PROVE  Len(s) <= s[Len(s)].call - s[1].call + 1
<1> DEFINE low == s[1].call
           high == s[Len(s)].call
           f == [n \in 1..Len(s) |-> s[n].call]
<1>0. Len(s) \in Nat /\ Len(s) >= 1
  BY LenProperties, EmptySeq DEF Belongs
<1>1. DOMAIN s = 1..Len(s)
  BY LenProperties DEF Belongs
<1>2. \A n \in 1..Len(s) : s[n].call \in Nat
  BY <1>1, ElementOfSeq DEF Belongs, KeptEntry
<1>3. \A m, n \in 1..Len(s) : m < n => s[m].call < s[n].call
  BY <1>1 DEF Belongs
<1>4. low \in Nat /\ high \in Nat /\ low <= high
  <2>1. 1 \in 1..Len(s) /\ Len(s) \in 1..Len(s)
    BY <1>0
  <2>2. s[1].call \in Nat /\ s[Len(s)].call \in Nat
    BY <1>2, <2>1
  <2>6. \A k \in Nat : k >= 1 => k = 1 \/ 1 < k
    OBVIOUS
  <2>3. Len(s) # 1 => 1 < Len(s)
    BY <1>0, <2>6
  <2>4. Len(s) # 1 => s[1].call < s[Len(s)].call
    BY <1>3, <2>1, <2>3
  <2>5. Len(s) = 1 => s[1].call = s[Len(s)].call
    OBVIOUS
  <2> QED
    BY <2>2, <2>4, <2>5
<1>5. \A n \in 1..Len(s) : s[n].call \in low..high
  <2> TAKE n \in 1..Len(s)
  <2>1. 1 \in 1..Len(s) /\ Len(s) \in 1..Len(s) /\ (1 = n \/ 1 < n) /\ (n = Len(s) \/ n < Len(s))
    BY <1>0
  <2>2. low <= s[n].call /\ s[n].call <= high
    BY <1>2, <1>3, <1>4, <2>1
  <2> QED
    BY <1>2, <1>4, <2>2
<1>6. f \in Injection(1..Len(s), low..high)
  <2>1. f \in [1..Len(s) -> low..high]
    BY <1>5
  <2>2. ASSUME NEW m \in 1..Len(s), NEW n \in 1..Len(s), f[m] = f[n] PROVE m = n
    <3>1. s[m].call = s[n].call /\ m \in Nat /\ n \in Nat
      BY <1>0, <2>2
    <3>2. ~(m < n) /\ ~(n < m)
      BY <1>2, <1>3, <3>1
    <3> QED
      BY <3>1, <3>2
  <2> HIDE DEF f
  <2> QED
    BY <2>1, <2>2 DEF Injection, IsInjective
<1> HIDE DEF f, low, high
<1>7. /\ IsFiniteSet(low..high) /\ Cardinality(low..high) = high - low + 1
      /\ Cardinality(1..Len(s)) = Len(s)
  <2>1. IsFiniteSet(low..high) /\ Cardinality(low..high) = high - low + 1
    BY <1>4, FS_Interval
  <2>2. Cardinality(1..Len(s)) = Len(s)
    BY <1>0, FS_Interval
  <2> QED
    BY <2>1, <2>2
<1>8. Cardinality(1..Len(s)) <= Cardinality(low..high)
  BY <1>6, <1>7, FS_Injection
<1> QED
  BY <1>7, <1>8 DEF low, high

LEMMA YoungStep ==
  ASSUME TurnsInv
  PROVE  /\ Belongs(Young(kept), call)
         /\ \A i \in DOMAIN call : Spent(call, i) \/ \E n \in DOMAIN Young(kept) : Young(kept)[n].call = i
<1> DEFINE places == {n \in DOMAIN kept : ~kept[n].old}
<1>1. Belongs(kept, call) /\ kept \in Seq(KeptEntry)
  BY DEF TurnsInv, Belongs
<1>2. Belongs(Young(kept), call)
  BY <1>1, ChosenBelong DEF Young
<1>3. \A n \in places : \E k \in DOMAIN Young(kept) : Young(kept)[k] = kept[n]
  <2>1. Young(kept) = Chosen(kept, places) /\ places \in SUBSET DOMAIN kept
    BY DEF Young
  <2> HIDE DEF places
  <2> QED
    BY <1>1, <2>1, ChosenProperties
<1>4. ASSUME NEW i \in DOMAIN call, ~Spent(call, i)
      PROVE  \E n \in DOMAIN Young(kept) : Young(kept)[n].call = i
  <2>1. PICK n \in DOMAIN kept : kept[n].call = i
    BY <1>4 DEF TurnsInv
  <2>2. n \in places
    BY <1>1, <1>4, <2>1 DEF Belongs, Spent
  <2> QED
    BY <1>3, <2>1, <2>2
<1> QED
  BY <1>2, <1>4

LEMMA BeginStep ==
  ASSUME TurnsInv, NEW k \in Keys, ~\E e \in Range(Young(kept)) : e.key = k, TurnRequest(k)
  PROVE  TurnsInv'
<1> DEFINE N == Len(call) + 1
           new == [key |-> k, at |-> "running", old |-> FALSE]
           mine == [key |-> k, call |-> N, old |-> FALSE]
           rest == Young(kept)
           long == Append(rest, mine)
<1>1. call' = Append(call, new) /\ kept' = Limited(long)
  BY DEF TurnRequest
<1>2. /\ Belongs(rest, call)
      /\ \A i \in DOMAIN call : Spent(call, i) \/ \E n \in DOMAIN rest : rest[n].call = i
  BY YoungStep
<1>3. call \in Seq(Operation) /\ rest \in Seq(KeptEntry) /\ TurnsRunOnce
  BY <1>2 DEF Belongs, TurnsInv
<1> HIDE DEF rest
<1>4. Len(call) \in Nat /\ DOMAIN call = 1..Len(call) /\ N \in Nat
  BY <1>3, LenProperties
<1>5. Len(rest) \in Nat /\ DOMAIN rest = 1..Len(rest)
  BY <1>3, LenProperties
<1>6. /\ call' \in Seq(Operation) /\ Len(call') = N
      /\ \A i \in 1..Len(call) : call'[i] = call[i]
      /\ call'[N] = new
  BY <1>1, <1>3, AppendProperties DEF Operation
<1>7. DOMAIN call' = 1..N
  BY <1>6, LenProperties
<1>8. mine \in KeptEntry
  BY <1>4 DEF KeptEntry
<1>9. /\ long \in Seq(KeptEntry) /\ Len(long) = Len(rest) + 1
      /\ \A n \in 1..Len(rest) : long[n] = rest[n]
      /\ long[Len(rest) + 1] = mine
  BY <1>3, <1>8, AppendProperties
<1>10. DOMAIN long = 1..(Len(rest) + 1)
  BY <1>9, LenProperties
<1> HIDE DEF N, new, mine, long
<1>11. new.key = k /\ new.at = "running" /\ new.old = FALSE /\ mine.key = k /\ mine.call = N /\ mine.old = FALSE
  BY DEF new, mine
<1>12. Belongs(long, call')
  <2>1. ASSUME NEW n \in DOMAIN long
        PROVE  /\ long[n].call \in DOMAIN call' /\ long[n].key = call'[long[n].call].key
               /\ long[n].old => call'[long[n].call].old
    <3>1. CASE n = Len(rest) + 1
      <4>1. long[n] = mine /\ N \in 1..N
        BY <1>4, <1>9, <3>1 DEF N
      <4> QED
        BY <1>6, <1>7, <1>11, <4>1
    <3>2. CASE n # Len(rest) + 1
      <4>1. n \in 1..Len(rest) /\ long[n] = rest[n]
        BY <1>5, <1>9, <1>10, <3>2
      <4>2. rest[n].call \in 1..Len(call) /\ call'[rest[n].call] = call[rest[n].call]
        BY <1>2, <1>4, <1>5, <1>6, <4>1 DEF Belongs
      <4>3. rest[n].call \in 1..N
        BY <1>4, <4>2 DEF N
      <4> QED
        BY <1>2, <1>5, <1>7, <4>1, <4>2, <4>3 DEF Belongs
    <3> QED
      BY <3>1, <3>2
  <2>2. ASSUME NEW m \in DOMAIN long, NEW n \in DOMAIN long, m < n
        PROVE  long[m].call < long[n].call
    <3>1. m \in 1..Len(rest) /\ long[m] = rest[m] /\ rest[m].call \in 1..Len(call)
      BY <1>2, <1>4, <1>5, <1>9, <1>10, <2>2 DEF Belongs
    <3>2. CASE n = Len(rest) + 1
      <4>1. long[n].call = N
        BY <1>9, <1>11, <3>2
      <4> QED
        BY <1>4, <3>1, <4>1 DEF N
    <3>3. CASE n # Len(rest) + 1
      <4>1. n \in 1..Len(rest) /\ long[n] = rest[n]
        BY <1>5, <1>9, <1>10, <3>3
      <4> QED
        BY <1>2, <1>5, <2>2, <3>1, <4>1 DEF Belongs
    <3> QED
      BY <3>2, <3>3
  <2> QED
    BY <1>6, <1>9, <2>1, <2>2 DEF Belongs
<1>13. \A i \in 1..Len(call) : Spent(call, i) => Spent(call', i)
  <2> TAKE i \in 1..Len(call)
  <2>1. call'[i] = call[i]
    BY <1>6
  <2>2. Len(call) - i >= MaxKept => Len(call') - i >= MaxKept
    BY <1>4, <1>6, RequestsAssumption DEF N
  <2> QED
    BY <2>1, <2>2 DEF Spent
<1>14. \A i \in 1..N : Spent(call', i) \/ \E n \in DOMAIN long : long[n].call = i
  <2> TAKE i \in 1..N
  <2>1. CASE i = N
    BY <1>5, <1>9, <1>10, <1>11, <2>1
  <2>2. CASE i # N
    <3>1. i \in 1..Len(call)
      BY <1>4, <2>2 DEF N
    <3>2. Spent(call, i) \/ \E n \in 1..Len(rest) : rest[n].call = i
      BY <1>2, <1>4, <1>5, <3>1
    <3>3. ASSUME NEW n \in 1..Len(rest), rest[n].call = i PROVE \E m \in DOMAIN long : long[m].call = i
      <4>1. n \in DOMAIN long /\ long[n] = rest[n]
        BY <1>5, <1>9, <1>10
      <4> QED
        BY <3>3, <4>1
    <3> QED
      BY <1>13, <3>1, <3>2, <3>3
  <2> QED
    BY <2>1, <2>2
<1>15. TurnsRunOnce'
  <2> SUFFICES ASSUME NEW i \in DOMAIN call', NEW j \in DOMAIN call', i < j, call'[i].key = call'[j].key
               PROVE  call'[i].at = "failed" \/ call'[i].old \/ j - i > MaxKept
    BY DEF TurnsRunOnce
  <2>1. i \in 1..Len(call) /\ call'[i] = call[i]
    BY <1>4, <1>6, <1>7 DEF N
  <2>2. CASE j = N
    <3>1. Spent(call, i)
      <4>1. ASSUME NEW n \in DOMAIN rest, rest[n].call = i PROVE FALSE
        <5>1. rest[n].key = k
          BY <1>2, <1>6, <1>11, <2>1, <2>2, <4>1 DEF Belongs
        <5> QED
          BY <5>1 DEF rest, Range
      <4> QED
        BY <1>2, <1>4, <2>1, <4>1
    <3> QED
      BY <1>4, <2>1, <2>2, <3>1, RequestsAssumption DEF Spent, N
  <2>3. CASE j # N
    <3>1. j \in 1..Len(call) /\ call'[j] = call[j]
      BY <1>4, <1>6, <1>7, <2>3 DEF N
    <3> QED
      BY <1>3, <1>4, <2>1, <3>1 DEF TurnsRunOnce
  <2> QED
    BY <2>2, <2>3
<1>16. CASE Len(long) <= MaxKept
  <2>1. kept' = long
    BY <1>1, <1>9, <1>5, <1>16, RequestsAssumption DEF Limited
  <2> QED
    BY <1>7, <1>12, <1>14, <1>15, <2>1 DEF TurnsInv
<1>17. CASE Len(long) > MaxKept
  <2>1. kept' = Tail(long) /\ long # <<>>
    BY <1>1, <1>5, <1>9, <1>17, EmptySeq DEF Limited
  <2>2. /\ Tail(long) \in Seq(KeptEntry) /\ Len(Tail(long)) = Len(rest)
        /\ \A n \in 1..Len(rest) : Tail(long)[n] = long[n + 1]
    BY <1>5, <1>9, <2>1, HeadTailProperties
  <2>3. DOMAIN Tail(long) = 1..Len(rest)
    BY <2>2, LenProperties
  <2>4. \A n \in 1..Len(rest) : n + 1 \in DOMAIN long
    BY <1>5, <1>10
  <2>5. Belongs(Tail(long), call')
    <3>1. ASSUME NEW m \in 1..Len(rest), NEW n \in 1..Len(rest), m < n
          PROVE  Tail(long)[m].call < Tail(long)[n].call
      <4>1. m + 1 < n + 1
        BY <1>5, <3>1
      <4> QED
        BY <1>12, <2>2, <2>4, <4>1 DEF Belongs
    <3> QED
      BY <1>12, <2>2, <2>3, <2>4, <3>1 DEF Belongs
  <2>6. N - long[1].call >= MaxKept
    <3>1. Len(long) <= long[Len(long)].call - long[1].call + 1
      BY <1>12, <2>1, SpanOfCalls
    <3>2. long[Len(long)].call = N
      BY <1>9, <1>11
    <3>3. long[1].call \in Nat
      <4>1. 1 \in 1..Len(long)
        BY <1>5, <1>9
      <4>2. long[1] \in KeptEntry
        BY <1>9, <4>1, ElementOfSeq
      <4> QED
        BY <4>2 DEF KeptEntry
    <3>4. Len(long) \in Nat /\ MaxKept \in Nat
      BY <1>5, <1>9, RequestsAssumption
    <3>5. Len(long) <= N - long[1].call + 1
      BY <3>1, <3>2
    <3> HIDE DEF long
    <3> QED
      BY <1>4, <1>17, <3>3, <3>4, <3>5
  <2>7. \A i \in 1..N : Spent(call', i) \/ \E n \in DOMAIN Tail(long) : Tail(long)[n].call = i
    <3> TAKE i \in 1..N
    <3>1. ASSUME NEW n \in DOMAIN long, long[n].call = i, n # 1
          PROVE  \E m \in DOMAIN Tail(long) : Tail(long)[m].call = i
      <4>1. n - 1 \in 1..Len(rest) /\ (n - 1) + 1 = n
        BY <1>5, <1>10, <3>1
      <4>2. Tail(long)[n - 1] = long[n]
        BY <2>2, <4>1
      <4> QED
        BY <2>3, <3>1, <4>1, <4>2
    <3>2. ASSUME long[1].call = i PROVE Spent(call', i)
      BY <1>6, <2>6, <3>2 DEF Spent
    <3> QED
      BY <1>14, <3>1, <3>2
  <2> QED
    BY <1>7, <1>15, <2>1, <2>5, <2>7 DEF TurnsInv
<1> QED
  BY <1>5, <1>9, <1>16, <1>17, RequestsAssumption

\* What changes about the operations but not about their keys.
LEMMA SameOperations ==
  ASSUME TurnsInv, NEW s, Belongs(s, call), NEW c \in Seq(Operation), Len(c) = Len(call),
         \A i \in DOMAIN call : /\ c[i].key = call[i].key /\ (call[i].old => c[i].old)
                                /\ call[i].at = "failed" => c[i].at = "failed"
  PROVE  /\ Belongs(s, c) /\ DOMAIN c = DOMAIN call
         /\ \A i \in DOMAIN call : Spent(call, i) => Spent(c, i)
         /\ \A i, j \in DOMAIN c : i < j /\ c[i].key = c[j].key =>
              c[i].at = "failed" \/ c[i].old \/ j - i > MaxKept
<1>1. call \in Seq(Operation) /\ DOMAIN call = 1..Len(call) /\ DOMAIN c = 1..Len(c)
  BY LenProperties DEF TurnsInv, Belongs
<1>2. Belongs(s, c)
  BY <1>1 DEF Belongs
<1>3. \A i \in DOMAIN call : Spent(call, i) => Spent(c, i)
  BY DEF Spent
<1>4. \A i, j \in DOMAIN c : i < j /\ c[i].key = c[j].key =>
              c[i].at = "failed" \/ c[i].old \/ j - i > MaxKept
  BY <1>1 DEF TurnsInv, TurnsRunOnce
<1> QED
  BY <1>1, <1>2, <1>3, <1>4

LEMMA TurnRequestStep ==
  ASSUME TurnsInv, NEW k \in Keys, TurnRequest(k)
  PROVE  TurnsInv'
<1>1. CASE \E e \in Range(Young(kept)) : e.key = k
  <2>1. kept' = Young(kept) /\ UNCHANGED call
    BY <1>1 DEF TurnRequest
  <2> QED
    BY <2>1, YoungStep DEF TurnsInv, TurnsRunOnce
<1> QED
  BY <1>1, BeginStep

LEMMA TurnRequestEndsStep ==
  ASSUME TurnsInv, NEW i \in DOMAIN call, TurnRequestEnds(i)
  PROVE  TurnsInv'
<1>1. kept \in Seq(KeptEntry) /\ call \in Seq(Operation) /\ Belongs(kept, call)
  BY DEF TurnsInv, Belongs
<1>2. DOMAIN call = 1..Len(call)
  BY <1>1, LenProperties
<1>3. PICK at \in {"done", "failed"} :
        /\ call' = [call EXCEPT ![i].at = at]
        /\ IF at = "done" THEN UNCHANGED kept ELSE kept' = Forget(kept, i)
  BY DEF TurnRequestEnds
<1>4. call[i] \in Operation /\ call[i].at = "running"
  BY <1>1, <1>2, ElementOfSeq DEF TurnRequestEnds
<1>5. /\ call'[i].at = at /\ call'[i].key = call[i].key /\ call'[i].old = call[i].old
      /\ \A j \in DOMAIN call : j # i => call'[j] = call[j]
  BY <1>1, <1>2, <1>3, <1>4 DEF Operation
<1>6. call' \in Seq(Operation) /\ Len(call') = Len(call)
  <2>1. [call[i] EXCEPT !.at = at] \in Operation
    BY <1>4 DEF Operation
  <2> QED
    BY <1>1, <1>2, <1>3, <2>1, ExceptSeq
<1>7. \A j \in DOMAIN call : /\ call'[j].key = call[j].key /\ (call[j].old => call'[j].old)
                             /\ call[j].at = "failed" => call'[j].at = "failed"
  BY <1>4, <1>5
<1>8. Belongs(kept', call)
  <2>1. CASE UNCHANGED kept
    BY <1>1, <2>1
  <2>2. CASE kept' = Forget(kept, i)
    BY <1>1, <2>2, ChosenBelong DEF Forget
  <2> QED
    BY <1>3, <2>1, <2>2
<1>9. /\ Belongs(kept', call') /\ DOMAIN call' = DOMAIN call
      /\ \A j \in DOMAIN call : Spent(call, j) => Spent(call', j)
      /\ \A j, k \in DOMAIN call' : j < k /\ call'[j].key = call'[k].key =>
              call'[j].at = "failed" \/ call'[j].old \/ k - j > MaxKept
  BY <1>6, <1>7, <1>8, SameOperations
<1>10. ASSUME NEW j \in DOMAIN call, ~Spent(call', j)
       PROVE  \E n \in DOMAIN kept' : kept'[n].call = j
  <2>1. PICK n \in DOMAIN kept : kept[n].call = j
    BY <1>9, <1>10 DEF TurnsInv
  <2>2. CASE at = "done"
    BY <1>3, <2>1, <2>2
  <2>3. CASE at = "failed"
    <3>1. j # i
      BY <1>5, <1>10, <2>3 DEF Spent
    <3>2. n \in {m \in DOMAIN kept : kept[m].call # i} /\ kept' = Forget(kept, i)
      BY <1>3, <2>1, <2>3, <3>1
    <3>3. \E m \in DOMAIN kept' : kept'[m] = kept[n]
      <4> DEFINE places == {m \in DOMAIN kept : kept[m].call # i}
      <4>1. kept' = Chosen(kept, places) /\ places \in SUBSET DOMAIN kept /\ n \in places
        BY <3>2 DEF Forget
      <4> HIDE DEF places
      <4> QED
        BY <1>1, <4>1, ChosenProperties
    <3> QED
      BY <2>1, <3>3
  <2> QED
    BY <2>2, <2>3
<1> QED
  BY <1>9, <1>10 DEF TurnsInv, TurnsRunOnce

LEMMA QuarterHourStep ==
  ASSUME TurnsInv, QuarterHour
  PROVE  TurnsInv'
<1>1. kept \in Seq(KeptEntry) /\ call \in Seq(Operation) /\ Belongs(kept, call)
  BY DEF TurnsInv, Belongs
<1>2. DOMAIN call = 1..Len(call) /\ DOMAIN kept = 1..Len(kept) /\ Len(call) \in Nat /\ Len(kept) \in Nat
  BY <1>1, LenProperties
<1>3. \A i \in 1..Len(call) : call[i] \in Operation
  BY <1>1, ElementOfSeq
<1>4. \A n \in 1..Len(kept) : kept[n] \in KeptEntry
  BY <1>1, ElementOfSeq
<1>5. /\ call' = [i \in 1..Len(call) |-> [call[i] EXCEPT !.old = TRUE]]
      /\ kept' = [n \in 1..Len(kept) |-> [kept[n] EXCEPT !.old = TRUE]]
  BY <1>2 DEF QuarterHour
<1>6. /\ call' \in Seq(Operation) /\ Len(call') = Len(call)
      /\ \A i \in DOMAIN call : /\ call'[i].key = call[i].key /\ call'[i].old = TRUE
                                /\ call'[i].at = call[i].at
  <2>1. \A i \in 1..Len(call) : /\ call'[i] \in Operation
                                /\ call'[i].key = call[i].key /\ call'[i].old = TRUE
                                /\ call'[i].at = call[i].at
    BY <1>3, <1>5 DEF Operation
  <2>2. call' \in Seq(Operation) /\ Len(call') = Len(call)
    <3>1. call' \in [1..Len(call) -> Operation]
      BY <1>5, <2>1
    <3> QED
      BY <1>2, <3>1, SeqDef, LenProperties
  <2> QED
    BY <1>2, <2>1, <2>2
<1>7. /\ kept' \in Seq(KeptEntry) /\ DOMAIN kept' = DOMAIN kept
      /\ \A n \in DOMAIN kept : kept'[n].key = kept[n].key /\ kept'[n].call = kept[n].call
  <2>1. \A n \in 1..Len(kept) : /\ kept'[n] \in KeptEntry
                                /\ kept'[n].key = kept[n].key /\ kept'[n].call = kept[n].call
    BY <1>4, <1>5 DEF KeptEntry
  <2>2. kept' \in Seq(KeptEntry) /\ DOMAIN kept' = 1..Len(kept)
    <3>1. kept' \in [1..Len(kept) -> KeptEntry]
      BY <1>5, <2>1
    <3> QED
      BY <1>2, <3>1, SeqDef
  <2> QED
    BY <1>2, <2>1, <2>2
<1>8. DOMAIN call' = DOMAIN call
  BY <1>2, <1>6, LenProperties
<1>9. Belongs(kept', call')
  BY <1>1, <1>6, <1>7, <1>8 DEF Belongs
<1> QED
  BY <1>6, <1>8, <1>9 DEF TurnsInv, TurnsRunOnce, Spent

LEMMA TurnsKept ==
  ASSUME TurnsInv, TurnsNext \/ UNCHANGED turnVars
  PROVE  TurnsInv'
<1>1. CASE UNCHANGED turnVars
  BY <1>1 DEF turnVars, TurnsInv, TurnsRunOnce
<1> QED
  BY <1>1, TurnRequestStep, TurnRequestEndsStep, QuarterHourStep DEF TurnsNext

-----------------------------------------------------------------------------
(* Requests: uploads *)

\* The uploads that count for the limits, with those that are just being made.
Making == {u \in Uploads : upload[u].at = "creating"}
Taken == {u \in Uploads : upload[u].at \in {"creating", "open"}}
WithinLimits == IsFiniteSet(Taken) /\ Cardinality(Taken) <= MaxFiles + crossed
          /\ Reserved(Taken) <= MaxBytes + crossed * MaxChunks

Upload == [at : UploadSteps, size : 0..MaxChunks, received : Nat, next : Nat,
           ready : BOOLEAN, old : BOOLEAN, queued : BOOLEAN,
           writing : Seq(Nat), file : Seq(Nat), overlapped : BOOLEAN]
FirstChunks(n) == [k \in 1..n |-> k]
\* The file has the chunks counted so far; the one on its way is the next.
Whole(f) ==
  ~f.overlapped =>
    /\ f.file = FirstChunks(f.received) /\ f.next = f.received + 1 /\ f.received <= f.size
    /\ f.writing = <<>> \/ (f.writing = <<f.next>> /\ f.received < f.size)
    /\ f.ready => f.received = f.size

UploadsInv ==
  /\ upload \in [Uploads -> Upload] /\ crossed \in Nat
  /\ WithinLimits
  /\ \A u \in Uploads : Whole(upload[u])

LEMMA FiniteChunks ==
  ASSUME NEW S, IsFiniteSet(S)
  PROVE  IsFiniteSet(S \X (1..MaxChunks))
<1>1. MaxChunks \in Int
  BY RequestsAssumption
<1>2. IsFiniteSet(1..MaxChunks)
  BY <1>1, FS_Interval
<1> QED
  BY <1>2, FS_Product

\* What fewer or the same uploads reserve.
LEMMA ReservedBySubset ==
  ASSUME NEW S, IsFiniteSet(S), NEW R \in SUBSET S
  PROVE  /\ Reserved(R) \in Nat /\ Reserved(S) \in Nat
         /\ Reserved(R) <= Reserved(S)
<1> DEFINE places(X) == {p \in X \X (1..MaxChunks) : p[2] <= upload[p[1]].size}
<1>1. IsFiniteSet(S \X (1..MaxChunks))
  BY FiniteChunks
<1>2. IsFiniteSet(places(S)) /\ Cardinality(places(S)) \in Nat
  BY <1>1, FS_Subset, FS_CardinalityType
<1>3. places(R) \in SUBSET places(S)
  OBVIOUS
<1>4. IsFiniteSet(places(R)) /\ Cardinality(places(R)) \in Nat /\ Cardinality(places(R)) <= Cardinality(places(S))
  BY <1>2, <1>3, FS_Subset, FS_CardinalityType
<1> QED
  BY <1>2, <1>4 DEF Reserved

\* Uploads that keep their sizes reserve what they did, a new one as much as its size.
LEMMA ReservedWith ==
  ASSUME NEW S, IsFiniteSet(S), NEW u, NEW size \in 0..MaxChunks,
         u \notin S => upload'[u].size = size, u \in S => upload'[u].size = upload[u].size,
         \A v \in S : upload'[v].size = upload[v].size
  PROVE  /\ IsFiniteSet(S \cup {u}) /\ Reserved(S \cup {u})' <= Reserved(S) + size
         /\ Reserved(S)' = Reserved(S)
<1> DEFINE old == {p \in S \X (1..MaxChunks) : p[2] <= upload[p[1]].size}
           new == {p \in (S \cup {u}) \X (1..MaxChunks) : p[2] <= upload'[p[1]].size}
           same == {p \in S \X (1..MaxChunks) : p[2] <= upload'[p[1]].size}
           own == {u} \X (1..size)
<1>1. Reserved(S) = Cardinality(old) /\ Reserved(S \cup {u})' = Cardinality(new) /\ Reserved(S)' = Cardinality(same)
  BY DEF Reserved
<1>2. IsFiniteSet(S \X (1..MaxChunks)) /\ IsFiniteSet(own) /\ Cardinality(own) = size
  <2>1. size \in Nat
    BY RequestsAssumption
  <2>2. IsFiniteSet(1..size) /\ Cardinality(1..size) = size
    BY <2>1, FS_Interval
  <2>3. IsFiniteSet({u}) /\ Cardinality({u}) = 1
    BY FS_Singleton
  <2>4. IsFiniteSet(S \X (1..MaxChunks))
    BY FiniteChunks
  <2>5. IsFiniteSet(own) /\ Cardinality(own) = Cardinality({u}) * Cardinality(1..size)
    BY <2>2, <2>3, FS_Product
  <2>6. Cardinality(own) = 1 * size
    BY <2>2, <2>3, <2>5
  <2> QED
    BY <2>1, <2>4, <2>5, <2>6
<1>3. same = old
  OBVIOUS
<1>4. new \in SUBSET (old \cup own)
  OBVIOUS
<1>5. IsFiniteSet(old) /\ Cardinality(old) \in Nat
  BY <1>2, FS_Subset, FS_CardinalityType
<1>6. /\ IsFiniteSet(old \cup own) /\ Cardinality(old \cup own) <= Cardinality(old) + size
  <2>1. /\ IsFiniteSet(old \cup own)
        /\ Cardinality(old \cup own) = Cardinality(old) + Cardinality(own) - Cardinality(old \cap own)
    BY <1>2, <1>5, FS_Union
  <2>2. Cardinality(old \cap own) \in Nat
    BY <1>5, FS_Subset, FS_CardinalityType
  <2> HIDE DEF old, own
  <2> QED
    BY <1>2, <1>5, <2>1, <2>2
<1>7. Cardinality(new) <= Cardinality(old \cup own) /\ Cardinality(new) \in Nat /\ Cardinality(old \cup own) \in Nat
  BY <1>4, <1>6, FS_Subset, FS_CardinalityType
<1>8. IsFiniteSet(S \cup {u})
  BY FS_AddElement
<1> HIDE DEF old, new, same, own
<1> QED
  BY <1>1, <1>3, <1>5, <1>6, <1>7, <1>8

\* Nothing is taken in a step that keeps the sizes of what is.
LEMMA LimitsStay ==
  ASSUME UploadsInv, UNCHANGED crossed, Taken' \subseteq Taken,
         \A u \in Taken : upload'[u].size = upload[u].size \/ u \notin Taken'
  PROVE  WithinLimits'
<1>1. IsFiniteSet(Taken) /\ Cardinality(Taken) <= MaxFiles + crossed
      /\ Reserved(Taken) <= MaxBytes + crossed * MaxChunks
  BY DEF UploadsInv, WithinLimits
<1>2. /\ IsFiniteSet(Taken') /\ Cardinality(Taken') <= Cardinality(Taken)
      /\ Cardinality(Taken') \in Nat /\ Cardinality(Taken) \in Nat
  BY <1>1, FS_Subset, FS_CardinalityType
<1>3. Reserved(Taken)' <= Reserved(Taken)
  <2>1. {p \in Taken' \X (1..MaxChunks) : p[2] <= upload'[p[1]].size}
          \in SUBSET {p \in Taken \X (1..MaxChunks) : p[2] <= upload[p[1]].size}
    OBVIOUS
  <2>2. IsFiniteSet({p \in Taken \X (1..MaxChunks) : p[2] <= upload[p[1]].size})
    <3>1. IsFiniteSet(Taken \X (1..MaxChunks))
      BY <1>1, FiniteChunks
    <3> QED
      BY <3>1, FS_Subset
  <2> QED
    BY <2>1, <2>2, FS_Subset DEF Reserved
<1>4. Reserved(Taken)' \in Nat /\ Reserved(Taken) \in Nat
  <2>1. Reserved(Taken) \in Nat
    BY <1>1, ReservedBySubset
  <2>2. Reserved(Taken)' \in Nat
    <3> DEFINE new == {p \in Taken' \X (1..MaxChunks) : p[2] <= upload'[p[1]].size}
    <3>1. IsFiniteSet(Taken' \X (1..MaxChunks))
      BY <1>2, FiniteChunks
    <3>2. Cardinality(new) \in Nat
      BY <3>1, FS_Subset, FS_CardinalityType
    <3> QED
      BY <3>2 DEF Reserved
  <2> QED
    BY <2>1, <2>2
<1>5. MaxBytes + crossed * MaxChunks \in Nat /\ MaxFiles + crossed \in Nat
  BY RequestsAssumption DEF UploadsInv
<1> HIDE DEF UploadsInv
<1> QED
  BY <1>1, <1>2, <1>3, <1>4, <1>5 DEF WithinLimits

LEMMA GoneIsWhole == Gone \in Upload /\ Gone.at = "gone" /\ Whole(Gone)
<1>1. Gone \in Upload
  BY RequestsAssumption DEF Gone, NewUpload, Upload, UploadSteps
<1>2. <<>> = FirstChunks(0)
  BY DEF FirstChunks
<1> QED
  BY <1>1, <1>2 DEF Gone, NewUpload, Whole

\* The file after one more chunk in its turn.
LEMMA OneChunkMore ==
  ASSUME NEW n \in Nat
  PROVE  Append(FirstChunks(n), n + 1) = FirstChunks(n + 1)
<1>1. FirstChunks(n) \in Seq(Nat) /\ Len(FirstChunks(n)) = n /\ \A k \in 1..n : FirstChunks(n)[k] = k
  <2>1. FirstChunks(n) \in [1..n -> Nat]
    BY DEF FirstChunks
  <2>2. FirstChunks(n) \in Seq(Nat)
    BY <2>1, SeqDef
  <2>3. Len(FirstChunks(n)) = n
    BY <2>1, <2>2, LenProperties
  <2> QED
    BY <2>2, <2>3 DEF FirstChunks
<1>2. /\ Append(FirstChunks(n), n + 1) \in Seq(Nat)
      /\ Len(Append(FirstChunks(n), n + 1)) = n + 1
      /\ \A k \in 1..n : Append(FirstChunks(n), n + 1)[k] = k
      /\ Append(FirstChunks(n), n + 1)[n + 1] = n + 1
  BY <1>1, AppendProperties
<1>3. DOMAIN Append(FirstChunks(n), n + 1) = 1..(n + 1)
  BY <1>2, LenProperties
<1>4. Append(FirstChunks(n), n + 1) = [k \in 1..(n + 1) |-> Append(FirstChunks(n), n + 1)[k]]
  BY <1>2, <1>3, SeqDef
<1>5. \A k \in 1..(n + 1) : Append(FirstChunks(n), n + 1)[k] = k
  BY <1>2
<1> QED
  BY <1>4, <1>5 DEF FirstChunks

LEMMA UploadsInitially == UploadsInit => UploadsInv
<1> SUFFICES ASSUME UploadsInit PROVE UploadsInv
  OBVIOUS
<1>1. \A u \in Uploads : upload[u] = NewUpload("none", 0)
  BY DEF UploadsInit
<1>2. NewUpload("none", 0) \in Upload /\ NewUpload("none", 0).at = "none" /\ Whole(NewUpload("none", 0))
  <2>1. NewUpload("none", 0) \in Upload
    BY RequestsAssumption DEF NewUpload, Upload, UploadSteps
  <2>2. <<>> = FirstChunks(0)
    BY DEF FirstChunks
  <2> QED
    BY <2>1, <2>2 DEF NewUpload, Whole
<1>3. Taken = {}
  BY <1>1, <1>2 DEF Taken
<1>4. WithinLimits
  <2>1. IsFiniteSet(Taken) /\ Cardinality(Taken) = 0
    BY <1>3, FS_EmptySet
  <2>2. {p \in {} \X (1..MaxChunks) : p[2] <= upload[p[1]].size} = {}
    OBVIOUS
  <2>3. Reserved(Taken) = 0
    BY <1>3, <2>2, FS_EmptySet DEF Reserved
  <2> QED
    BY <2>1, <2>3, RequestsAssumption DEF WithinLimits, UploadsInit
<1>5. upload \in [Uploads -> Upload] /\ crossed \in Nat
  BY <1>2 DEF UploadsInit
<1> QED
  BY <1>1, <1>2, <1>4, <1>5 DEF UploadsInv

LEMMA StartStep ==
  ASSUME UploadsInv, NEW u \in Uploads, NEW size \in 1..MaxChunks, StartAttachmentUpload(u, size)
  PROVE  UploadsInv'
<1> DEFINE left == {v \in Held : ~Expired(v)}
           new == NewUpload("creating", size)
<1>1. /\ upload[u].at = "none" /\ Cardinality(left) < MaxFiles /\ Reserved(left) + size <= MaxBytes
      /\ upload' = [Purged EXCEPT ![u] = new]
      /\ crossed' = IF \E v \in Uploads : upload[v].at = "creating" THEN crossed + 1 ELSE crossed
  BY DEF StartAttachmentUpload
<1>2. size \in 0..MaxChunks /\ size \in Nat /\ size <= MaxChunks /\ MaxChunks \in Nat
  BY RequestsAssumption
<1>3. /\ Gone \in Upload /\ Gone.at = "gone" /\ Whole(Gone)
      /\ new \in Upload /\ new.at = "creating" /\ new.size = size /\ Whole(new)
  <2>1. Gone \in Upload /\ new \in Upload
    BY <1>2, RequestsAssumption DEF Gone, NewUpload, Upload, UploadSteps
  <2>2. <<>> = FirstChunks(0)
    BY DEF FirstChunks
  <2> QED
    BY <1>2, <2>1, <2>2 DEF Gone, NewUpload, Whole
<1> HIDE DEF new
<1>4. /\ \A v \in Uploads : upload'[v] = IF v = u THEN new ELSE IF Expired(v) THEN Gone ELSE upload[v]
      /\ upload' \in [Uploads -> Upload]
  BY <1>1, <1>3 DEF Purged, UploadsInv
<1>5. \A v \in Uploads : Whole(upload'[v])
  BY <1>3, <1>4 DEF UploadsInv
<1>6. /\ Taken' = left \cup Making \cup {u} /\ u \notin left /\ u \notin Making
      /\ left \subseteq Taken /\ Making \subseteq Taken
  BY <1>1, <1>3, <1>4 DEF Taken, Making, Held, Expired
<1>7. \A v \in left \cup Making : upload'[v].size = upload[v].size
  BY <1>1, <1>4 DEF Making, Held, Expired
<1>8. upload'[u].size = size
  BY <1>3, <1>4
<1> HIDE DEF left
<1>9. IsFiniteSet(Taken) /\ Cardinality(Taken) <= MaxFiles + crossed /\ crossed \in Nat
      /\ Reserved(Taken) <= MaxBytes + crossed * MaxChunks
  BY DEF UploadsInv, WithinLimits
<1>10. /\ IsFiniteSet(left \cup Making) /\ Cardinality(left \cup Making) \in Nat
       /\ Cardinality(left \cup Making) <= Cardinality(Taken) /\ Cardinality(Taken) \in Nat
  BY <1>6, <1>9, FS_Subset, FS_CardinalityType
<1>11. IsFiniteSet(Taken') /\ Cardinality(Taken') = Cardinality(left \cup Making) + 1
  BY <1>6, <1>10, FS_AddElement
<1>12. Reserved(Taken)' <= Reserved(left \cup Making) + size
  BY <1>2, <1>6, <1>7, <1>8, <1>10, ReservedWith DEF Reserved
<1>13. /\ Reserved(left \cup Making) \in Nat /\ Reserved(Taken) \in Nat
       /\ Reserved(left \cup Making) <= Reserved(Taken)
  BY <1>6, <1>9, ReservedBySubset
<1>14. Reserved(Taken)' \in Nat
  <2> DEFINE more == {p \in Taken' \X (1..MaxChunks) : p[2] <= upload'[p[1]].size}
  <2>1. IsFiniteSet(Taken' \X (1..MaxChunks))
    BY <1>11, FiniteChunks
  <2>2. Cardinality(more) \in Nat
    BY <2>1, FS_Subset, FS_CardinalityType
  <2> QED
    BY <2>2 DEF Reserved
<1>15. crossed' \in Nat
  BY <1>1, <1>9
<1>16. MaxFiles \in Nat /\ MaxBytes \in Nat
  BY RequestsAssumption
<1>17. CASE Making = {}
  <2>1. crossed' = crossed /\ left \cup Making = left
    BY <1>1, <1>17 DEF Making
  <2>6. Cardinality(left \cup Making) < MaxFiles /\ Reserved(left \cup Making) + size <= MaxBytes
    BY <1>1, <2>1
  <2>2. Cardinality(Taken') <= MaxFiles + crossed'
    BY <1>9, <1>10, <1>11, <1>16, <2>1, <2>6
  <2>3. crossed * MaxChunks \in Nat
    BY <1>2, <1>9
  <2>4. Reserved(Taken)' <= MaxBytes
    BY <1>2, <1>12, <1>13, <1>14, <1>16, <2>6
  <2>5. Reserved(Taken)' <= MaxBytes + crossed' * MaxChunks
    BY <1>14, <1>16, <2>1, <2>3, <2>4
  <2> QED
    BY <1>4, <1>5, <1>11, <1>15, <2>2, <2>5 DEF UploadsInv, WithinLimits
<1>18. CASE Making # {}
  <2>1. crossed' = crossed + 1
    BY <1>1, <1>18 DEF Making
  <2>2. Cardinality(Taken') <= MaxFiles + crossed'
    BY <1>9, <1>10, <1>11, <1>16, <2>1
  <2>3. crossed * MaxChunks \in Nat /\ crossed' * MaxChunks = crossed * MaxChunks + MaxChunks
    BY <1>2, <1>9, <2>1
  <2>4. Reserved(Taken)' <= MaxBytes + crossed' * MaxChunks
    BY <1>2, <1>9, <1>12, <1>13, <1>14, <1>16, <2>3
  <2> QED
    BY <1>4, <1>5, <1>11, <1>15, <2>2, <2>4 DEF UploadsInv, WithinLimits
<1> QED
  BY <1>17, <1>18

\* A step of one upload that keeps its size or gives it up.
LEMMA OneUploadStep ==
  ASSUME UploadsInv, NEW u \in Uploads, NEW f \in Upload, Whole(f), upload' = [upload EXCEPT ![u] = f],
         f.at \in {"creating", "open"} => u \in Taken /\ f.size = upload[u].size, UNCHANGED crossed
  PROVE  UploadsInv'
<1>1. upload' \in [Uploads -> Upload] /\ \A v \in Uploads : upload'[v] = IF v = u THEN f ELSE upload[v]
  BY DEF UploadsInv
<1>2. WithinLimits'
  <2>1. Taken' \subseteq Taken /\ \A v \in Taken : upload'[v].size = upload[v].size \/ v \notin Taken'
    BY <1>1 DEF Taken
  <2> QED
    BY <2>1, LimitsStay
<1>3. \A v \in Uploads : Whole(upload'[v])
  BY <1>1 DEF UploadsInv
<1> QED
  BY <1>1, <1>2, <1>3 DEF UploadsInv

LEMMA AppendChunkStep ==
  ASSUME UploadsInv, NEW u \in Uploads, AppendAttachmentChunk(u)
  PROVE  UploadsInv'
<1> DEFINE f == upload[u]
           g == [f EXCEPT !.writing = Append(@, f.next), !.overlapped = @ \/ f.writing # <<>>]
<1>1. f \in Upload /\ Whole(f) /\ f.at = "open" /\ ~f.ready /\ f.received < f.size
  BY DEF UploadsInv, AppendAttachmentChunk
<1>2. upload' = [upload EXCEPT ![u] = g] /\ UNCHANGED crossed
  BY DEF AppendAttachmentChunk
<1> HIDE DEF f
<1>3. Append(f.writing, f.next) \in Seq(Nat) /\ (f.overlapped \/ f.writing # <<>>) \in BOOLEAN
  BY <1>1, AppendProperties DEF Upload
<1>4. g \in Upload
  BY <1>1, <1>3 DEF Upload
<1>5. /\ g.at = f.at /\ g.size = f.size /\ g.file = f.file /\ g.received = f.received /\ g.next = f.next
      /\ g.ready = f.ready /\ g.writing = Append(f.writing, f.next)
  BY <1>1 DEF Upload
<1>6. g.overlapped = (f.overlapped \/ f.writing # <<>>)
  BY <1>1 DEF Upload
<1>7. Whole(g)
  <2> SUFFICES ASSUME ~g.overlapped PROVE Whole(g)
    BY DEF Whole
  <2>1. ~f.overlapped /\ f.writing = <<>>
    BY <1>6
  <2>2. Append(f.writing, f.next) = <<f.next>>
    BY <2>1
  <2> HIDE DEF g
  <2> QED
    BY <1>1, <1>5, <2>1, <2>2 DEF Whole
<1> HIDE DEF g
<1>8. u \in Taken
  BY <1>1 DEF Taken, f
<1> QED
  BY <1>2, <1>4, <1>5, <1>7, <1>8, OneUploadStep DEF f

\* A sequence without its i-th element.
LEMMA RemoveAtIs ==
  ASSUME NEW S, NEW s \in Seq(S), NEW i \in 1..Len(s)
  PROVE  /\ RemoveAt(s, i) \in Seq(S)
         /\ Len(RemoveAt(s, i)) = Len(s) - 1
         /\ \A k \in 1..Len(s) - 1 : RemoveAt(s, i)[k] = IF k < i THEN s[k] ELSE s[k + 1]
<1> DEFINE a == SubSeq(s, 1, i - 1)
           b == SubSeq(s, i + 1, Len(s))
<1>1. Len(s) \in Nat /\ \A k \in 1..Len(s) : s[k] \in S
  BY ElementOfSeq, LenProperties
<1>2. /\ a \in Seq(S) /\ Len(a) = i - 1
      /\ \A k \in 1..i - 1 : a[k] = s[k]
  <2>1. \A k \in 1..i - 1 : s[k] \in S
    BY <1>1
  <2> QED
    BY <1>1, <2>1, SubSeqProperties
<1>3. /\ b \in Seq(S) /\ Len(b) = Len(s) - i
      /\ \A k \in 1..Len(s) - i : b[k] = s[k + i]
  <2>1. \A k \in i + 1..Len(s) : s[k] \in S
    BY <1>1
  <2>2. /\ b \in Seq(S)
        /\ Len(b) = IF i + 1 <= Len(s) THEN Len(s) - (i + 1) + 1 ELSE 0
        /\ \A k \in 1..Len(s) - (i + 1) + 1 : b[k] = s[(i + 1) + k - 1]
    BY <1>1, <2>1, SubSeqProperties
  <2> QED
    BY <1>1, <2>2
<1> HIDE DEF a, b
<1>4. /\ a \o b \in Seq(S)
      /\ Len(a \o b) = Len(a) + Len(b)
      /\ \A k \in 1..Len(a) + Len(b) :
           (a \o b)[k] = IF k <= Len(a) THEN a[k] ELSE b[k - Len(a)]
  BY <1>2, <1>3, ConcatProperties
<1>5. RemoveAt(s, i) = a \o b
  BY DEF RemoveAt, a, b
<1>6. ASSUME NEW k \in 1..Len(s) - 1
      PROVE  (a \o b)[k] = IF k < i THEN s[k] ELSE s[k + 1]
  <2>1. CASE k < i
    BY <1>6, <2>1, <1>1, <1>2, <1>3, <1>4
  <2>2. CASE k >= i
    <3>1. k \in 1..Len(a) + Len(b) /\ ~(k <= Len(a)) /\ k - Len(a) \in 1..Len(s) - i
      BY <1>6, <2>2, <1>1, <1>2, <1>3
    <3>2. b[k - Len(a)] = s[k + 1]
      <4>1. (k - Len(a)) + i = k + 1
        BY <1>6, <1>1, <1>2
      <4> QED
        BY <3>1, <4>1, <1>3
    <3>3. ~(k < i)
      BY <1>6, <2>2, <1>1
    <3> QED
      BY <3>1, <3>2, <3>3, <1>4
  <2>3. k < i \/ k >= i
    BY <1>6, <1>1
  <2> QED
    BY <2>1, <2>2, <2>3
<1>7. Len(a \o b) = Len(s) - 1
  BY <1>1, <1>2, <1>3, <1>4
<1> QED
  BY <1>4, <1>5, <1>6, <1>7

LEMMA ChunkWrittenStep ==
  ASSUME UploadsInv, NEW u \in Uploads, ChunkWritten(u)
  PROVE  UploadsInv'
<1> DEFINE f == upload[u]
<1>1. PICK n \in DOMAIN f.writing :
        /\ upload' = [upload EXCEPT ![u].writing = RemoveAt(@, n),
                                    ![u].file = Append(@, upload[u].writing[n]),
                                    ![u].received = @ + 1, ![u].next = @ + 1, ![u].old = FALSE]
        /\ UNCHANGED crossed
  BY DEF ChunkWritten
<1> DEFINE g == [f EXCEPT !.writing = RemoveAt(@, n), !.file = Append(@, f.writing[n]),
                          !.received = @ + 1, !.next = @ + 1, !.old = FALSE]
<1>2. f \in Upload /\ Whole(f)
  BY DEF UploadsInv
<1>3. upload' = [upload EXCEPT ![u] = g]
  BY <1>1, <1>2 DEF UploadsInv, Upload
<1>4. f.writing \in Seq(Nat) /\ f.file \in Seq(Nat) /\ f.received \in Nat /\ f.next \in Nat
  BY <1>2 DEF Upload
<1>5. n \in 1..Len(f.writing) /\ f.writing[n] \in Nat
  BY <1>1, <1>4, LenProperties, ElementOfSeq
<1> HIDE DEF f
<1>6. RemoveAt(f.writing, n) \in Seq(Nat) /\ (Len(f.writing) = 1 => RemoveAt(f.writing, n) = <<>>)
  <2>1. RemoveAt(f.writing, n) \in Seq(Nat) /\ Len(RemoveAt(f.writing, n)) = Len(f.writing) - 1
    BY <1>4, <1>5, RemoveAtIs
  <2>2. Len(f.writing) = 1 => Len(RemoveAt(f.writing, n)) = 0
    BY <2>1
  <2> QED
    BY <2>1, <2>2, EmptySeq
<1>7. Append(f.file, f.writing[n]) \in Seq(Nat)
  BY <1>4, <1>5, AppendProperties
<1>8. g \in Upload
  <2>1. f.received + 1 \in Nat /\ f.next + 1 \in Nat
    BY <1>4
  <2> QED
    BY <1>2, <1>6, <1>7, <2>1 DEF Upload
<1>9. /\ g.at = f.at /\ g.size = f.size /\ g.file = Append(f.file, f.writing[n])
      /\ g.received = f.received + 1 /\ g.next = f.next + 1 /\ g.writing = RemoveAt(f.writing, n)
  BY <1>2 DEF Upload
<1>10. g.overlapped = f.overlapped /\ g.ready = f.ready
  BY <1>2 DEF Upload
<1>11. Whole(g)
  <2> SUFFICES ASSUME ~g.overlapped PROVE Whole(g)
    BY DEF Whole
  <2>1. ~f.overlapped
    BY <1>10
  <2>2. f.writing # <<>>
    BY <1>4, <1>5, EmptySeq
  <2>3. /\ f.writing = <<f.next>> /\ f.received < f.size /\ f.next = f.received + 1
        /\ f.file = FirstChunks(f.received) /\ ~f.ready
    BY <1>2, <1>4, <2>1, <2>2 DEF Whole
  <2>4. Len(f.writing) = 1 /\ f.writing[n] = f.received + 1
    BY <1>5, <2>3
  <2>5. g.file = FirstChunks(g.received)
    <3>1. g.file = Append(FirstChunks(f.received), f.received + 1) /\ g.received = f.received + 1
      BY <1>9, <2>3, <2>4
    <3> QED
      BY <1>4, <3>1, OneChunkMore
  <2>6. g.writing = <<>>
    BY <1>6, <1>9, <2>4
  <2>7. f.received + 1 <= f.size
    <3>1. f.size \in Nat
      BY <1>2, RequestsAssumption DEF Upload
    <3> QED
      BY <1>4, <2>3, <3>1
  <2> HIDE DEF g
  <2> QED
    BY <1>9, <1>10, <2>3, <2>5, <2>6, <2>7 DEF Whole
<1> HIDE DEF g
<1>12. f.at \in {"creating", "open"} => u \in Taken
  BY DEF Taken, f
<1> QED
  BY <1>1, <1>3, <1>8, <1>9, <1>11, <1>12, OneUploadStep DEF f

LEMMA FlagStep ==
  ASSUME UploadsInv, NEW u \in Uploads,
         UploadCreated(u) \/ FinishAttachmentUpload(u) \/ QueueAttachment(u) \/ DeleteAttachment(u)
  PROVE  UploadsInv'
<1> DEFINE f == upload[u]
<1>1. f \in Upload /\ Whole(f) /\ (f.at \in {"creating", "open"} => u \in Taken)
  BY DEF UploadsInv, Taken
<1>2. UNCHANGED crossed
  BY DEF UploadCreated, FinishAttachmentUpload, QueueAttachment, DeleteAttachment
<1>3. CASE UploadCreated(u)
  <2> DEFINE g == [f EXCEPT !.at = "open"]
  <2>1. upload' = [upload EXCEPT ![u] = g] /\ f.at = "creating"
    BY <1>3 DEF UploadCreated
  <2>2. g \in Upload /\ Whole(g) /\ g.size = f.size
    BY <1>1 DEF Upload, UploadSteps, Whole
  <2> QED
    BY <1>1, <1>2, <2>1, <2>2, OneUploadStep
<1>4. CASE FinishAttachmentUpload(u)
  <2> DEFINE g == [f EXCEPT !.ready = TRUE, !.old = FALSE]
  <2>1. upload' = [upload EXCEPT ![u] = g] /\ f.at = "open" /\ f.received = f.size
    BY <1>4 DEF FinishAttachmentUpload
  <2>2. g \in Upload /\ Whole(g) /\ g.size = f.size
    BY <1>1, <2>1 DEF Upload, UploadSteps, Whole
  <2> QED
    BY <1>1, <1>2, <2>1, <2>2, OneUploadStep
<1>5. CASE QueueAttachment(u)
  <2> DEFINE g == [f EXCEPT !.queued = TRUE]
  <2>1. upload' = [upload EXCEPT ![u] = g] /\ f.at = "open"
    BY <1>5 DEF QueueAttachment
  <2>2. g \in Upload /\ Whole(g) /\ g.size = f.size
    BY <1>1 DEF Upload, UploadSteps, Whole
  <2> QED
    BY <1>1, <1>2, <2>1, <2>2, OneUploadStep
<1>6. CASE DeleteAttachment(u)
  <2>1. upload' = [upload EXCEPT ![u] = Gone]
    BY <1>6 DEF DeleteAttachment
  <2> QED
    BY <1>2, <2>1, GoneIsWhole, OneUploadStep
<1> QED
  BY <1>3, <1>4, <1>5, <1>6

LEMMA HalfHourStep ==
  ASSUME UploadsInv, HalfHour
  PROVE  UploadsInv'
<1>1. /\ upload' = [u \in Uploads |-> [upload[u] EXCEPT !.old = upload[u].at = "open"]]
      /\ UNCHANGED crossed
  BY DEF HalfHour
<1>2. ASSUME NEW u \in Uploads
      PROVE  /\ upload'[u] \in Upload /\ Whole(upload'[u])
             /\ upload'[u].at = upload[u].at /\ upload'[u].size = upload[u].size
  <2>1. upload[u] \in Upload /\ Whole(upload[u]) /\ (upload[u].at = "open") \in BOOLEAN
    BY DEF UploadsInv
  <2>2. upload'[u] = [upload[u] EXCEPT !.old = upload[u].at = "open"]
    BY <1>1
  <2> QED
    BY <2>1, <2>2 DEF Upload, Whole
<1>3. Taken' = Taken /\ \A u \in Taken : upload'[u].size = upload[u].size
  BY <1>2 DEF Taken
<1>4. WithinLimits'
  BY <1>1, <1>3, LimitsStay
<1>5. upload' \in [Uploads -> Upload] /\ crossed' \in Nat
  BY <1>1, <1>2 DEF UploadsInv
<1> QED
  BY <1>2, <1>4, <1>5 DEF UploadsInv

LEMMA UploadsKept ==
  ASSUME UploadsInv, UploadsNext \/ UNCHANGED uploadVars
  PROVE  UploadsInv'
<1>1. CASE UNCHANGED uploadVars
  BY <1>1 DEF uploadVars, UploadsInv, WithinLimits, Taken, Reserved
<1> QED
  BY <1>1, StartStep, AppendChunkStep, ChunkWrittenStep, FlagStep, HalfHourStep DEF UploadsNext

LEMMA UploadsWhole == UploadsInv => UploadsAreWhole
<1> SUFFICES ASSUME UploadsInv PROVE UploadsAreWhole
  OBVIOUS
<1>1. ASSUME NEW u \in Uploads, upload[u].ready, ~upload[u].overlapped
      PROVE  upload[u].file = [n \in 1..upload[u].size |-> n]
  BY <1>1 DEF UploadsInv, Whole, FirstChunks
<1>2. /\ IsFiniteSet(Taken) /\ Cardinality(Taken) <= MaxFiles + crossed /\ crossed \in Nat
      /\ Reserved(Taken) <= MaxBytes + crossed * MaxChunks
  BY DEF UploadsInv, WithinLimits
<1>3. Held \in SUBSET Taken
  BY DEF Held, Taken
<1>4. /\ Cardinality(Held) <= Cardinality(Taken) /\ Cardinality(Held) \in Nat /\ Cardinality(Taken) \in Nat
  BY <1>2, <1>3, FS_Subset, FS_CardinalityType
<1>5. Reserved(Held) <= Reserved(Taken) /\ Reserved(Held) \in Nat /\ Reserved(Taken) \in Nat
  BY <1>2, <1>3, ReservedBySubset
<1>6. crossed * MaxChunks \in Nat /\ MaxFiles \in Nat /\ MaxBytes \in Nat
  BY <1>2, RequestsAssumption
<1>7. Cardinality(Held) <= MaxFiles + crossed
  BY <1>2, <1>4, <1>6
<1>8. Reserved(Held) <= MaxBytes + crossed * MaxChunks
  BY <1>2, <1>5, <1>6
<1> QED
  BY <1>1, <1>7, <1>8 DEF UploadsAreWhole

-----------------------------------------------------------------------------
(* Requests: approvals *)

Current == {a \in DOMAIN asked : asked[a].process = process}
Present(p) == asked[p[1]].process = process /\ Number(p[1]) \in pending
\* The requests of the process that runs are numbered without gaps or repetitions.
Numbered ==
  /\ asked \in Seq([process : Nat, id : Nat]) /\ process \in Nat
  /\ \A a \in DOMAIN asked : asked[a].process <= process
  /\ IsFiniteSet(Current) /\ \A a \in Current : Number(a) <= Cardinality(Current)
  /\ \A a, b \in Current : Number(a) = Number(b) => a = b
ApprovalsInv ==
  /\ Numbered
  /\ \A p \in answer : p = <<p[1], p[2]>> /\ p[1] \in DOMAIN asked /\ p[2] \in DOMAIN asked /\ ~Present(p)
  /\ AnswersReachTheirRequest

LEMMA ApprovalsInitially == ApprovalsInit => ApprovalsInv
<1> SUFFICES ASSUME ApprovalsInit PROVE ApprovalsInv
  OBVIOUS
<1>1. Current = {}
  BY DEF ApprovalsInit, Current
<1>2. asked \in Seq([process : Nat, id : Nat]) /\ DOMAIN asked = {} /\ process \in Nat
  BY DEF ApprovalsInit
<1> QED
  BY <1>1, <1>2, FS_EmptySet DEF ApprovalsInit, ApprovalsInv, Numbered, AnswersReachTheirRequest

LEMMA AskStep ==
  ASSUME ApprovalsInv, Ask
  PROVE  ApprovalsInv'
<1> DEFINE id == Cardinality(Current) + 1
           new == [process |-> process, id |-> id]
           N == Len(asked) + 1
<1>1. asked' = Append(asked, new) /\ pending' = pending \cup {id} /\ UNCHANGED <<process, answer>>
  BY DEF Ask, Current
<1>2. /\ asked \in Seq([process : Nat, id : Nat]) /\ process \in Nat /\ IsFiniteSet(Current)
      /\ Cardinality(Current) \in Nat
  BY FS_CardinalityType DEF ApprovalsInv, Numbered
<1>3. new \in [process : Nat, id : Nat] /\ new.process = process /\ new.id = id /\ id \in Nat
  BY <1>2
<1>4. Len(asked) \in Nat /\ N \in Nat /\ N \notin 1..Len(asked)
  BY <1>2, LenProperties
<1>5. DOMAIN asked = 1..Len(asked)
  BY <1>2, LenProperties
<1> HIDE DEF new
<1>6. /\ asked' \in Seq([process : Nat, id : Nat]) /\ Len(asked') = N
      /\ \A a \in 1..Len(asked) : asked'[a] = asked[a]
      /\ asked'[N] = new
  BY <1>1, <1>2, <1>3, AppendProperties
<1>7. DOMAIN asked' = 1..N
  BY <1>6, LenProperties
<1>8. 1..N = DOMAIN asked \cup {N}
  BY <1>4, <1>5
<1> HIDE DEF N, id
<1>9. Current' = Current \cup {N} /\ N \notin Current
  BY <1>1, <1>3, <1>4, <1>5, <1>6, <1>7, <1>8 DEF Current
<1>10. IsFiniteSet(Current') /\ Cardinality(Current') = id
  BY <1>2, <1>9, FS_AddElement DEF id
<1>11. /\ \A a \in DOMAIN asked : Number(a)' = Number(a)
       /\ asked'[N].id = id
  <2>1. \A a \in DOMAIN asked : asked'[a] = asked[a]
    BY <1>5, <1>6
  <2>2. \A a \in DOMAIN asked : Number(a)' = Number(a)
    BY <2>1 DEF Number
  <2>3. asked'[N].id = id
    BY <1>3, <1>6 DEF Number
  <2> QED
    BY <2>2, <2>3
<1>12. \A a \in Current : Number(a) < id /\ Number(a) \in Nat
  <2> TAKE a \in Current
  <2>1. a \in 1..Len(asked)
    BY <1>5 DEF Current
  <2>2. asked[a] \in [process : Nat, id : Nat]
    BY <1>2, <2>1, ElementOfSeq
  <2>3. Number(a) \in Nat /\ Number(a) <= Cardinality(Current)
    BY <2>2 DEF Number, ApprovalsInv, Numbered
  <2> QED
    BY <1>2, <2>3 DEF id
<1>13. Numbered'
  <2>1. \A a \in DOMAIN asked' : asked'[a].process <= process'
    BY <1>1, <1>2, <1>3, <1>5, <1>6, <1>7, <1>8 DEF ApprovalsInv, Numbered
  <2>2. \A a \in Current' : Number(a)' <= Cardinality(Current')
    <3>1. Current \subseteq DOMAIN asked
      BY DEF Current
    <3>2. \A a \in Current : Number(a)' < id /\ Number(a)' \in Nat
      BY <1>11, <1>12, <3>1
    <3>3. ASSUME NEW a \in Current' PROVE Number(a)' <= id
      <4>1. CASE a \in Current
        BY <1>3, <3>2, <4>1
      <4>2. CASE a = N
        BY <1>3, <1>11, <4>2 DEF Number
      <4> QED
        BY <1>9, <4>1, <4>2
    <3> QED
      BY <1>10, <3>3
  <2>3. ASSUME NEW a \in Current', NEW b \in Current', Number(a)' = Number(b)' PROVE a = b
    <3>1. Current \subseteq DOMAIN asked
      BY DEF Current
    <3>2. CASE a \in Current /\ b \in Current
      BY <1>11, <2>3, <3>1, <3>2 DEF ApprovalsInv, Numbered
    <3>3. CASE a \notin Current \/ b \notin Current
      <4>1. \A c \in Current : Number(c)' # asked'[N].id
        <5>1. \A c \in Current : Number(c)' = Number(c) /\ Number(c) # id
          BY <1>3, <1>11, <1>12, <3>1
        <5> QED
          BY <1>11, <5>1
      <4>2. \A c \in Current' : c \in Current \/ c = N
        BY <1>9
      <4>3. CASE a = N /\ b \in Current
        <5>1. Number(a)' = asked'[N].id
          BY <4>3 DEF Number
        <5> QED
          BY <2>3, <4>1, <4>3, <5>1
      <4>4. CASE b = N /\ a \in Current
        <5>1. Number(b)' = asked'[N].id
          BY <4>4 DEF Number
        <5> QED
          BY <2>3, <4>1, <4>4, <5>1
      <4>5. CASE a = N /\ b = N
        BY <4>5
      <4> QED
        BY <3>3, <4>2, <4>3, <4>4, <4>5
    <3> QED
      BY <3>2, <3>3
  <2> QED
    BY <1>1, <1>2, <1>6, <1>10, <2>1, <2>2, <2>3 DEF Numbered
<1>14. ASSUME NEW p \in answer
       PROVE  /\ p[1] \in DOMAIN asked' /\ p[2] \in DOMAIN asked' /\ ~Present(p)'
              /\ asked'[p[1]] = asked[p[1]] /\ asked'[p[2]] = asked[p[2]]
  <2>1. p[1] \in DOMAIN asked /\ p[2] \in DOMAIN asked /\ ~Present(p)
    BY DEF ApprovalsInv
  <2>2. /\ p[1] \in DOMAIN asked' /\ p[2] \in DOMAIN asked'
        /\ asked'[p[1]] = asked[p[1]] /\ asked'[p[2]] = asked[p[2]]
    BY <1>5, <1>6, <1>7, <1>8, <2>1
  <2>3. ~Present(p)'
    <3>1. asked[p[1]].process = process => p[1] \in Current /\ Number(p[1]) # id
      BY <1>3, <1>12, <2>1 DEF Current
    <3> QED
      BY <1>1, <1>11, <2>1, <2>2, <3>1 DEF Present
  <2> QED
    BY <2>1, <2>2, <2>3
<1>15. AnswersReachTheirRequest'
  BY <1>1, <1>14 DEF ApprovalsInv, AnswersReachTheirRequest
<1> QED
  BY <1>1, <1>13, <1>14, <1>15 DEF ApprovalsInv

LEMMA RespondStep ==
  ASSUME ApprovalsInv, NEW a \in DOMAIN asked, Respond(a)
  PROVE  ApprovalsInv'
<1> DEFINE new == {<<b, a>> : b \in Reached(Number(a))}
<1>1. /\ Number(a) \in pending /\ pending' = pending \ {Number(a)}
      /\ answer' = answer \cup new /\ UNCHANGED <<process, asked>>
  BY DEF Respond, Answered
<1>2. Numbered' /\ Numbered
  BY <1>1 DEF ApprovalsInv, Numbered, Current, Number
<1>3. \A b \in Reached(Number(a)) : b \in Current /\ Number(b) = Number(a)
  BY DEF Reached, Current
<1>4. \A b, c \in Reached(Number(a)) : b = c
  BY <1>2, <1>3 DEF Numbered
<1>5. ASSUME NEW p \in new
      PROVE  /\ p = <<p[1], p[2]>> /\ p[2] = a /\ p[1] \in Reached(Number(a))
  BY <1>5
<1>6. ASSUME NEW p \in answer'
      PROVE  /\ p = <<p[1], p[2]>> /\ p[1] \in DOMAIN asked' /\ p[2] \in DOMAIN asked' /\ ~Present(p)'
  <2>1. CASE p \in answer
    BY <1>1, <2>1 DEF ApprovalsInv, Present, Number
  <2>2. CASE p \in new
    <3>1. p = <<p[1], p[2]>> /\ p[2] = a /\ p[1] \in Reached(Number(a))
      BY <1>5, <2>2
    <3>2. p[1] \in DOMAIN asked /\ Number(p[1]) = Number(a)
      BY <1>3, <3>1 DEF Current
    <3> QED
      BY <1>1, <3>1, <3>2 DEF Present, Number
  <2> QED
    BY <1>1, <2>1, <2>2
<1>7. ASSUME NEW p \in answer, NEW q \in new
      PROVE  p[1] # q[1]
  <2>1. ~Present(p) /\ q[1] \in Current /\ Number(q[1]) = Number(a)
    BY <1>3, <1>5 DEF ApprovalsInv
  <2> QED
    BY <1>1, <2>1 DEF Present, Current
<1>8. ASSUME NEW p \in new
      PROVE  p[1] = p[2] \/ asked[p[2]].process < asked[p[1]].process
  <2>1. p[2] = a /\ p[1] \in Current /\ Number(p[1]) = Number(a)
    BY <1>3, <1>5
  <2>2. CASE a \in Current
    BY <1>2, <2>1, <2>2 DEF Numbered
  <2>3. CASE a \notin Current
    <3>1. asked[a].process <= process /\ asked[a].process # process /\ asked[p[1]].process = process
      BY <1>2, <2>1, <2>3 DEF Numbered, Current
    <3>2. asked[a].process \in Nat /\ process \in Nat
      <4>1. a \in 1..Len(asked) /\ asked \in Seq([process : Nat, id : Nat]) /\ process \in Nat
        BY <1>2, LenProperties DEF Numbered
      <4>2. asked[a] \in [process : Nat, id : Nat]
        BY <4>1, ElementOfSeq
      <4> QED
        BY <4>1, <4>2
    <3> QED
      BY <2>1, <3>1, <3>2
  <2> QED
    BY <2>2, <2>3
<1>9. ASSUME NEW p \in new, NEW q \in new
      PROVE  p = q
  BY <1>4, <1>5
<1> HIDE DEF new
<1>10. AnswersReachTheirRequest'
  <2>1. ASSUME NEW p \in answer' PROVE p[1] = p[2] \/ asked'[p[2]].process < asked'[p[1]].process
    BY <1>1, <1>8, <2>1 DEF ApprovalsInv, AnswersReachTheirRequest
  <2>2. ASSUME NEW p \in answer', NEW q \in answer', p[1] = q[1] PROVE p = q
    BY <1>1, <1>7, <1>9, <2>2 DEF ApprovalsInv, AnswersReachTheirRequest
  <2> QED
    BY <2>1, <2>2 DEF AnswersReachTheirRequest
<1> QED
  BY <1>2, <1>6, <1>10 DEF ApprovalsInv

LEMMA ProcessReplacedStep ==
  ASSUME ApprovalsInv, ProcessReplaced
  PROVE  ApprovalsInv'
<1>1. process' = process + 1 /\ UNCHANGED <<asked, pending, answer>>
  BY DEF ProcessReplaced
<1>2. \A a \in DOMAIN asked : asked[a].process \in Nat /\ asked[a].process <= process /\ process \in Nat
  <2>1. asked \in Seq([process : Nat, id : Nat]) /\ process \in Nat /\ \A a \in DOMAIN asked : asked[a].process <= process
    BY DEF ApprovalsInv, Numbered
  <2>2. \A a \in DOMAIN asked : asked[a] \in [process : Nat, id : Nat]
    BY <2>1, LenProperties, ElementOfSeq
  <2> QED
    BY <2>1, <2>2
<1>3. \A a \in DOMAIN asked : asked[a].process < process'
  BY <1>1, <1>2
<1>4. Current' = {}
  BY <1>1, <1>2, <1>3 DEF Current
<1>5. Numbered'
  <2>1. process' \in Nat /\ \A a \in DOMAIN asked' : asked'[a].process <= process'
    BY <1>1, <1>2 DEF ApprovalsInv, Numbered
  <2> QED
    BY <1>1, <1>4, <2>1, FS_EmptySet DEF ApprovalsInv, Numbered
<1>6. \A p \in answer : ~Present(p)'
  BY <1>1, <1>2, <1>3 DEF Present, ApprovalsInv
<1> QED
  BY <1>1, <1>5, <1>6 DEF ApprovalsInv, AnswersReachTheirRequest

LEMMA ApprovalsKept ==
  ASSUME ApprovalsInv, ApprovalsNext \/ UNCHANGED approvalVars
  PROVE  ApprovalsInv'
<1>1. CASE UNCHANGED approvalVars
  BY <1>1 DEF approvalVars, ApprovalsInv, Numbered, Current, Number, Present, AnswersReachTheirRequest
<1>2. CASE ServerStopped
  BY <1>2 DEF ServerStopped, ApprovalsInv, Numbered, Current, Number, Present, AnswersReachTheirRequest
<1> QED
  BY <1>1, <1>2, AskStep, RespondStep, ProcessReplacedStep DEF ApprovalsNext

\* Asking again is harmless: of a turn with its client request id
\* (#idempotentTurnRequests), of a chunk or a finished upload (#uploads), and of
\* an answer to an approval (#pendingApprovals).
THEOREM RepeatsHarmless == Spec => []RepeatsAreHarmless
<1> DEFINE Inv == TurnsInv /\ UploadsInv /\ ApprovalsInv
<1>1. Init => Inv
  BY TurnsInitially, UploadsInitially, ApprovalsInitially DEF Init
<1>2. Inv /\ [Next]_vars => Inv'
  BY PartSteps, TurnsKept, UploadsKept, ApprovalsKept
<1>3. Inv => RepeatsAreHarmless
  BY UploadsWhole DEF TurnsInv, ApprovalsInv, RepeatsAreHarmless
<1> QED
  BY <1>1, <1>2, <1>3, PTL DEF Spec


=====
