------------------------------ MODULE Settings ------------------------------
(***************************************************************************)
(* The official client's settings and quota as the local server shows them *)
(* (src/remote/remote-codex-server.ts), while its user may change them     *)
(* there.  Every operation on them waits for its turn in one chain,        *)
(* #officialSettingsChain.  The settings (reasoning effort goes with the   *)
(* model), the quota and the switch of automatic approval share no state   *)
(* and are three machines here; a read of the quota waits in the chain for *)
(* some time.                                                              *)
(***************************************************************************)
EXTENDS Naturals, FiniteSets, Sequences, SequencesExt

CONSTANTS
  Models, Speeds,
  MaxCallers, \* bound: requests of browsers, numbered as they come
  NoCopy,     \* no snapshot yet, or no caller
  MaxOutside  \* bound: changes the user makes in the official client

ASSUME SettingsAssumption == {MaxOutside, MaxCallers} \subseteq Nat /\ NoCopy \notin Models \cup Nat

Callers == 1..MaxCallers

VARIABLES
  official,  \* the official client: model and speed
  outside,   \* bound: changes by its user so far
  chain,     \* the operations that wait for or run on the chain
  composer,  \* #composerSnapshot
  outcome,   \* what the request of a caller came to
  changed    \* history: the model has changed since composer was read or set

settingsVars == <<official, outside, chain, composer, outcome, changed>>

Op == [kind : {"get", "set", "apply", "speed"}, by : Callers \cup {NoCopy},
       model : Models \cup {NoCopy}, speed : Speeds \cup {NoCopy}, selected : BOOLEAN]
SettingsTypeOK ==
  /\ official \in [model : Models, speed : Speeds]
  /\ outside \in 0..MaxOutside /\ chain \in Seq(Op)
  /\ composer \in Models \cup {NoCopy}
  /\ outcome \in [Callers -> {"new", "asked", "applied", "partly", "failed"}]
  /\ changed \in BOOLEAN

Runs(kind) == chain # <<>> /\ Head(chain).kind = kind
Enqueue(op) == chain' = Append(chain, op)
NextInChain == chain' = Tail(chain)

\* composer.preferences.get: a refresh under way serves everyone.
GetPreferences ==
  /\ \A n \in DOMAIN chain : chain[n].kind # "get"
  /\ Enqueue([kind |-> "get", by |-> NoCopy, model |-> NoCopy, speed |-> NoCopy, selected |-> FALSE])
  /\ UNCHANGED <<official, outside, composer, outcome, changed>>

\* Another model may come with another speed.
Select(m) == \E s \in Speeds : official' = [model |-> m, speed |-> s]
StorePreferences(m) == composer' = m

\* What #composerPreferences does to a client set to m: without a list of models
\* from app-server it tries them all, goes back to the first one if it can, and
\* tells which one is selected now, or was selected before.
AnswerPreferences(m) ==
  \E n \in Models :
    /\ Select(n)
    /\ \/ StorePreferences(n) /\ changed' = FALSE
       \/ n # m /\ StorePreferences(m) /\ changed' = TRUE
\* The official client may do as it is told and yet not answer, or not go back.
SelectFails ==
  /\ \E m \in Models : Select(m)
  /\ changed' = (changed \/ official'.model # official.model) /\ UNCHANGED composer
Outcome(c, o) == outcome' = [outcome EXCEPT ![c] = o]

PreferencesRead ==
  /\ Runs("get") /\ NextInChain
  /\ AnswerPreferences(official.model) \/ SelectFails
  /\ UNCHANGED <<outside, outcome>>

\* composer.preferences.set, composer.settings.apply, composer.speed.set
Change(c, kind, m, s) ==
  /\ outcome[c] = "new" /\ (\A d \in 1..(c - 1) : outcome[d] # "new")
  /\ outcome' = [outcome EXCEPT ![c] = "asked"]
  /\ Enqueue([kind |-> kind, by |-> c, model |-> m, speed |-> s, selected |-> FALSE])
  /\ UNCHANGED <<official, outside, composer, changed>>

PreferencesSet ==
  LET op == Head(chain) IN
  /\ Runs("set") /\ NextInChain
  /\ \/ AnswerPreferences(op.model) /\ Outcome(op.by, "partly")
     \/ SelectFails /\ Outcome(op.by, "failed")
  /\ UNCHANGED outside

\* composer.settings.apply first sets model and effort ...
KeepsTheChain == chain' = [chain EXCEPT ![1].selected = TRUE, ![1].model = composer']
ApplySelects ==
  LET op == Head(chain) IN
  /\ Runs("apply") /\ ~op.selected
  /\ \/ AnswerPreferences(op.model) /\ KeepsTheChain /\ UNCHANGED outcome
     \/ SelectFails /\ NextInChain /\ Outcome(op.by, "failed")
  /\ UNCHANGED outside

\* ... then the speed is looked up, set if it is offered and another one, and
\* confirmed together with the model that was told.
SpeedConfirmed(op) == official'.speed = op.speed /\ official'.model = op.model

ApplySetsSpeed ==
  LET op == Head(chain) IN
  /\ Runs("apply") /\ op.selected /\ NextInChain
  /\ UNCHANGED official \/ official' = [official EXCEPT !.speed = op.speed]
  /\ \/ Outcome(op.by, "partly")
     \/ SpeedConfirmed(op) /\ Outcome(op.by, "applied")
  /\ UNCHANGED <<outside, composer, changed>>

SpeedSet ==
  LET op == Head(chain) IN
  /\ Runs("speed") /\ NextInChain
  /\ UNCHANGED official \/ official' = [official EXCEPT !.speed = op.speed]
  /\ Outcome(op.by, "partly")
  /\ UNCHANGED <<outside, composer, changed>>

\* restorePersistentState: the hub's copy counts only while there is none.
RestorePreferences ==
  /\ composer = NoCopy /\ composer' \in Models /\ changed' = TRUE
  /\ UNCHANGED <<official, outside, chain, outcome>>

\* The user of the official client.
UserChanges ==
  /\ outside < MaxOutside /\ outside' = outside + 1
  /\ \E m \in Models, s \in Speeds : /\ official' = [model |-> m, speed |-> s]
                                     /\ changed' = (changed \/ m # official.model)
  /\ UNCHANGED <<chain, composer, outcome>>

SettingsInit ==
  /\ official \in [model : Models, speed : Speeds]
  /\ outside = 0 /\ chain = <<>> /\ composer = NoCopy
  /\ outcome = [c \in Callers |-> "new"]
  /\ changed = FALSE

SettingsNext ==
  \/ \E c \in Callers, m \in Models, s \in Speeds, kind \in {"set", "apply", "speed"} : Change(c, kind, m, s)
  \/ GetPreferences \/ PreferencesRead \/ PreferencesSet \/ ApplySelects \/ ApplySetsSpeed \/ SpeedSet
  \/ RestorePreferences \/ UserChanges

----------------------------------------------------------------------------
(* The quota: #readAccountUsage *)

CONSTANT
  Unreadable \* the answer of an official client that shows no quota

Quotas == {"some", "empty"}
ASSUME UsageAssumption == {NoCopy, Unreadable} \cap Quotas = {}

VARIABLES
  quota,   \* the official client's
  usage,   \* #usageSnapshot
  young,   \* #usageCheckedAt is less than 5 s ago
  refresh, \* #usageRefresh: none, waits in the chain, or has read
  reading, \* what it has read
  asker,   \* requests for the quota: had are the official quotas meanwhile
  \* history
  since,   \* the official quotas since that reading
  behind   \* the same of the reading usage was made from; none for an older one

usageVars == <<quota, usage, young, refresh, reading, asker, since, behind>>

Answer == Quotas \cup {Unreadable, NoCopy}
UsageTypeOK ==
  /\ quota \in Quotas /\ usage \in Answer /\ young \in BOOLEAN
  /\ refresh \in {"none", "waits", "read"} /\ reading \in Answer
  /\ asker \in [Callers -> [at : {"new", "waits", "answered"}, answer : Answer,
                            had : SUBSET Quotas, excused : BOOLEAN]]
  /\ since \subseteq Quotas /\ behind \subseteq Quotas

Asker(at, answer, had, excused) == [at |-> at, answer |-> answer, had |-> had, excused |-> excused]

\* force is an explicit request; a send may take a young snapshot.
AskUsage(c, force) ==
  /\ asker[c].at = "new" /\ \A d \in 1..(c - 1) : asker[d].at # "new"
  /\ IF ~force /\ usage # NoCopy /\ young
     THEN /\ asker' = [asker EXCEPT ![c] = Asker("answered", usage, behind, behind = {})]
          /\ UNCHANGED refresh
     ELSE /\ asker' = [asker EXCEPT ![c] = Asker("waits", NoCopy, {quota}, refresh = "read")]
          /\ refresh' = IF refresh = "none" THEN "waits" ELSE refresh
  /\ UNCHANGED <<quota, usage, young, reading, since, behind>>

UsagePoll == refresh = "none" /\ refresh' = "waits" /\ UNCHANGED <<quota, usage, young, reading, asker, since, behind>>

\* account/usage/get, in the official client
UsageRead ==
  /\ refresh = "waits" /\ refresh' = "read"
  /\ reading' \in {quota, Unreadable}
  /\ since' = {quota}
  /\ UNCHANGED <<quota, usage, young, asker, behind>>

\* What cannot be read now leaves a good snapshot as it was, and answers with it.
Kept == IF reading = Unreadable /\ usage \in Quotas THEN usage ELSE reading
AnswerAll(answer) ==
  asker' = [c \in Callers |->
              IF asker[c].at = "waits"
              THEN Asker("answered", answer, asker[c].had, asker[c].excused \/ reading = Unreadable)
              ELSE asker[c]]
UsageAnswered ==
  /\ refresh = "read" /\ refresh' = "none"
  /\ young' = TRUE /\ usage' = Kept /\ AnswerAll(Kept)
  /\ behind' = IF reading = Unreadable THEN {} ELSE since
  /\ UNCHANGED <<quota, reading, since>>

UsageFails ==
  /\ refresh = "read" /\ refresh' = "none" /\ AnswerAll(NoCopy)
  /\ UNCHANGED <<quota, usage, young, reading, since, behind>>

FiveSeconds == young /\ young' = FALSE /\ UNCHANGED <<quota, usage, refresh, reading, asker, since, behind>>

RestoreUsage ==
  /\ usage = NoCopy /\ usage' \in Quotas
  /\ UNCHANGED <<quota, young, refresh, reading, asker, since, behind>>

QuotaChanges ==
  /\ quota' \in Quotas \ {quota}
  /\ since' = since \cup {quota'}
  /\ behind' = IF behind = {} THEN {} ELSE behind \cup {quota'}
  /\ asker' = [c \in Callers |-> IF asker[c].at = "waits" THEN [asker[c] EXCEPT !.had = @ \cup {quota'}] ELSE asker[c]]
  /\ UNCHANGED <<usage, young, refresh, reading>>

UsageInit ==
  /\ quota = "some" /\ usage = NoCopy /\ young = FALSE /\ refresh = "none" /\ reading = NoCopy
  /\ asker = [c \in Callers |-> Asker("new", NoCopy, {}, FALSE)] /\ since = {} /\ behind = {}
UsageNext ==
  \/ \E c \in Callers, force \in BOOLEAN : AskUsage(c, force)
  \/ UsagePoll \/ UsageRead \/ UsageAnswered \/ UsageFails \/ FiveSeconds \/ RestoreUsage \/ QuotaChanges

----------------------------------------------------------------------------
(* Automatic approval *)

CONSTANT Setters \* requests to switch it

VARIABLES
  enabled,  \* #autoApprovalEnabled, which the pages show
  approves, \* #autoApprove of the official service, which acts on it
  saved,    \* remote-preferences.json
  setter,   \* the requests
  mixed     \* history: the last requests overlapped

approvingVars == <<enabled, approves, saved, setter, mixed>>

ApprovingTypeOK ==
  /\ {enabled, approves, saved, mixed} \subseteq BOOLEAN
  /\ setter \in [Setters -> [at : {"new", "asked", "written", "done"}, value : BOOLEAN]]

Setting == {s \in Setters : setter[s].at \in {"asked", "written"}}
At(s, at) == setter' = [setter EXCEPT ![s].at = at]

\* The service takes the value at once, or refuses and nothing is saved.
SetAutoApproval(s, v) ==
  /\ setter[s].at = "new"
  /\ \/ /\ approves' = v /\ setter' = [setter EXCEPT ![s] = [at |-> "asked", value |-> v]]
        /\ mixed' = (Setting # {})
     \/ At(s, "done") /\ UNCHANGED <<approves, mixed>>
  /\ UNCHANGED <<enabled, saved>>

PreferenceWritten(s) ==
  /\ setter[s].at = "asked" /\ At(s, "written")
  /\ saved' = setter[s].value
  /\ UNCHANGED <<enabled, approves, mixed>>

AutoApprovalSet(s) ==
  /\ setter[s].at = "written" /\ At(s, "done")
  /\ enabled' = setter[s].value
  /\ UNCHANGED <<approves, saved, mixed>>

\* start: the file decides; the service of the new run has it switched off.
ServerRestarts ==
  /\ Setting = {}
  /\ enabled' = saved /\ approves' = saved
  /\ UNCHANGED <<saved, setter, mixed>>

ApprovingInit ==
  /\ saved \in BOOLEAN /\ enabled = saved /\ approves = saved
  /\ setter = [s \in Setters |-> [at |-> "new", value |-> FALSE]] /\ mixed = FALSE
ApprovingNext ==
  \/ \E s \in Setters : (\E v \in BOOLEAN : SetAutoApproval(s, v)) \/ PreferenceWritten(s) \/ AutoApprovalSet(s)
  \/ ServerRestarts

----------------------------------------------------------------------------
(* Properties *)

\* The model shown is the official client's, once it has been read, unless its
\* user, or an operation that failed or could not go back, has changed it since.
ModelAsShown == composer \in {NoCopy, official.model} \/ changed

\* Whoever asks for the quota gets one the official client had after he asked
\* (for a send: after the last read, 5 s ago at most), unless he joined a
\* refresh that had read it, or the last read found none and the old one stays.
UsageIsRecent ==
  \A c \in Callers : asker[c].answer \in Quotas /\ ~asker[c].excused => asker[c].answer \in asker[c].had

\* The switch the pages show is the one that acts and the one that is saved,
\* unless two requests to switch it overlapped.
SwitchAsShown == Setting = {} /\ ~mixed => enabled = approves /\ enabled = saved
=============================================================================
