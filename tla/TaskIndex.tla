----------------------------- MODULE TaskIndex -----------------------------
(***************************************************************************)
(* The list of tasks and the renaming of one of them.  The official        *)
(* service (src/codex/codex-service.ts) keeps titles for 5 s and the last  *)
(* list of the app-server; the local server                                *)
(* (src/remote/remote-codex-server.ts) keeps the last list it got.  Names  *)
(* are numbered in the order the official client gets them.                *)
(***************************************************************************)
EXTENDS Naturals

CONSTANTS
  Renamers, \* requests to rename the task, each with a name of its own
  MaxNames  \* bound: names, one for each renamer

ASSUME TaskIndexAssumption == MaxNames \in Nat

Names == 0..MaxNames
Absent == MaxNames + 1 \* a list without the task
NoList == MaxNames + 2 \* no list yet

VARIABLES
  name,          \* the official name
  authoritative, \* #officialThreadListAuthoritative: the app-server lists tasks
  listed,        \* the name in #officialThreads
  title,         \* the name in #officialTitles
  fresh,         \* #officialTitlesReadAt is less than 5 s ago
  lookup,        \* #officialTitlesRequest: what it has read so far
  listing,       \* #threadIndexRefresh, and the title it goes by
  index,         \* #threadIndexSnapshot
  renamer        \* the requests to rename

indexVars == <<name, authoritative, listed, title, fresh, lookup, listing, index, renamer>>

Quiet == [at |-> "none", name |-> NoList]
TaskIndexTypeOK ==
  /\ name \in Names /\ authoritative \in BOOLEAN /\ listed \in Names \cup {Absent}
  /\ title \in Names /\ fresh \in BOOLEAN
  /\ lookup \in [at : {"none", "asked", "read"}, name : Names \cup {Absent, NoList}]
  /\ listing \in [at : {"none", "asked", "titled", "listed"}, name : Names \cup {Absent, NoList}]
  /\ index \in Names \cup {Absent, NoList}
  /\ renamer \in [Renamers -> [at : {"new", "asked", "set", "waits", "lists", "done"}, name : Names,
                               answer : Names \cup {Absent, NoList}, excused : BOOLEAN]]

serviceVars == <<authoritative, listed, title, fresh>>

----------------------------------------------------------------------------
(* The official service: #cachedOfficialTitles, #readOfficialTitles *)

\* Page by page; a page that fails ends the list, which then lacks the task.
TitlesRead ==
  /\ lookup.at = "asked"
  /\ lookup' \in {[at |-> "read", name |-> n] : n \in {name, Absent, NoList}}
  /\ UNCHANGED <<name, serviceVars, listing, index, renamer>>

\* An empty answer leaves the known list, a failed one everything, alone.
TitlesStored ==
  /\ lookup.at = "read" /\ lookup' = Quiet
  /\ listed' = IF authoritative /\ lookup.name # NoList THEN lookup.name ELSE listed
  /\ title' = IF lookup.name \in Names THEN lookup.name ELSE title
  /\ fresh' = TRUE
  /\ UNCHANGED <<name, authoritative, listing, index, renamer>>

FiveSecondsPass == fresh /\ fresh' = FALSE /\ UNCHANGED <<name, authoritative, listed, title, lookup, listing, index, renamer>>

\* thread/list: titles no older than 5 s, or the ones being read.
ListAsksForTitles ==
  /\ listing.at = "asked"
  /\ IF fresh THEN listing' = [at |-> "titled", name |-> title] /\ UNCHANGED lookup
     ELSE /\ lookup.at = "none" /\ lookup' = [at |-> "asked", name |-> NoList]
          /\ UNCHANGED listing
  /\ UNCHANGED <<name, serviceVars, index, renamer>>

----------------------------------------------------------------------------
(* The local server: #listThreads, #refreshThreadIndex, #renameThread *)

Refreshing == listing.at # "none"
Refreshed == IF Refreshing THEN listing ELSE [at |-> "asked", name |-> NoList]

ListThreads ==
  /\ listing' = Refreshed /\ ~Refreshing
  /\ UNCHANGED <<name, serviceVars, lookup, index, renamer>>

\* threadsWithOfficialTitles: the app-server's own name goes first.
ListAnswered ==
  /\ listing.at = "titled"
  /\ index' = IF authoritative THEN listed ELSE listing.name
  /\ listing' = [at |-> "listed", name |-> index']
  /\ UNCHANGED <<name, serviceVars, lookup, renamer>>

\* The list is saved and told; those who waited for it go on.
RenamersGoOn ==
  [r \in Renamers |->
     CASE renamer[r].at = "lists" -> [renamer[r] EXCEPT !.at = "done", !.answer = listing.name]
       [] renamer[r].at = "waits" -> [renamer[r] EXCEPT !.at = "lists"]
       [] OTHER -> renamer[r]]
SomeoneListsAnew == \E r \in Renamers : renamer[r].at = "waits"
ListTold ==
  /\ listing.at = "listed"
  /\ renamer' = RenamersGoOn
  /\ listing' = IF SomeoneListsAnew THEN [at |-> "asked", name |-> NoList] ELSE Quiet
  /\ index' = IF SomeoneListsAnew THEN NoList ELSE index
  /\ UNCHANGED <<name, serviceVars, lookup>>

Rename(r) ==
  /\ renamer[r].at = "new" /\ renamer' = [renamer EXCEPT ![r].at = "asked"]
  /\ UNCHANGED <<name, serviceVars, lookup, listing, index>>

OfficialRename(r) ==
  /\ renamer[r].at = "asked" /\ name < MaxNames
  /\ name' = name + 1
  /\ renamer' = [renamer EXCEPT ![r].at = "set", ![r].name = name + 1]
  /\ UNCHANGED <<serviceVars, lookup, listing, index>>

\* Mutant: the list under way is taken for the new one.
Joins == "lists"
\* The title is stored; a list under way is waited for and another one made.
Waits == IF Refreshing THEN "waits" ELSE "lists"
Overtaken(r) == {q \in Renamers : renamer[q].name > renamer[r].name}
RenameConfirmed(r) ==
  /\ renamer[r].at = "set"
  /\ title' = renamer[r].name /\ fresh' = TRUE
  /\ renamer' = [q \in Renamers |->
       IF q = r THEN [renamer[r] EXCEPT !.at = Waits,
                                        !.excused = authoritative \/ lookup.at # "none" \/ Overtaken(r) # {}]
       ELSE [renamer[q] EXCEPT !.excused = @ \/ q \in Overtaken(r)]]
  /\ listing' = Refreshed
  /\ index' = IF Refreshing THEN index ELSE NoList
  /\ UNCHANGED <<name, authoritative, listed, lookup>>

----------------------------------------------------------------------------

TaskIndexInit ==
  /\ name = 0 /\ authoritative \in BOOLEAN /\ listed = 0 /\ title = 0 /\ fresh = FALSE
  /\ lookup = Quiet /\ listing = Quiet /\ index \in {0, NoList}
  /\ renamer = [r \in Renamers |-> [at |-> "new", name |-> 0, answer |-> NoList, excused |-> FALSE]]

TaskIndexNext ==
  \/ \E r \in Renamers : Rename(r) \/ OfficialRename(r) \/ RenameConfirmed(r)
  \/ TitlesRead \/ TitlesStored \/ FiveSecondsPass \/ ListAsksForTitles
  \/ ListThreads \/ ListAnswered \/ ListTold

----------------------------------------------------------------------------
(* Properties *)

Renamed(r) == renamer[r].at = "done" => renamer[r].answer \in renamer[r].name..MaxNames

\* Whoever renames a task is answered with a list that has the new name or a
\* newer one: a list that was under way is not taken for it.  Excused are the
\* lists of the app-server, which keep the old name for 5 s, titles that were
\* being read meanwhile, and renames that overtook each other.
RenameIsListed == \A r \in Renamers : renamer[r].excused \/ Renamed(r)
=============================================================================
