------------------------------ MODULE Updates ------------------------------
(***************************************************************************)
(* UpdateManager (src/desktop/update-manager.ts): checking the signed      *)
(* manifest, downloading the installer to a .partial file, renaming it,    *)
(* handing it to the installer that runs when the application has quit.    *)
(*                                                                         *)
(* A worker is one suspended call of check or download; a check that finds *)
(* a version goes on as the download it calls.  A file is an inode holding *)
(* the blocks written so far: rm and rename change names, an open file     *)
(* stays what it is, and opening for writing empties what has the name.    *)
(***************************************************************************)
EXTENDS Naturals, FiniteSets

CONSTANTS
  Workers,    \* calls of check and download that may be suspended at once
  Versions,   \* versions the manifest may offer
  Current,    \* currentVersion
  Blocks,     \* pieces of an installer
  Inodes,     \* identities of files
  MaxChecks   \* bound: checks and downloads begun

ASSUME UpdatesAssumption ==
  /\ Versions \subseteq Nat \ {0} /\ Current \in Nat
  /\ Blocks \in Nat \ {0} /\ MaxChecks \in Nat
  /\ Inodes \subseteq Nat \ {0}

VARIABLES
  phase,       \* #status.phase
  downloaded,  \* #status.downloadedPath: the version in its name, 0 without
  artifact,    \* #artifact and #manifest: the version, 0 without
  autoUpdate,  \* #autoUpdate
  worker,      \* the suspended calls
  partial,     \* the inode named <version>.partial, 0 without
  final,       \* the inode named <version>, 0 without
  blocks,      \* the blocks each inode holds
  installer,   \* scheduleInstall: "idle", "checked" (suspended), "spawned", "ran", "broken"
  target,      \* the version it installs, 0 without
  press,       \* a request of the window that is under way
  checks,      \* bound: calls begun
  \* history
  shared,      \* two downloads have been under way at once
  late,        \* a download was under way while the installer was scheduled
  stuck        \* the directory or the old file could not be prepared

updateVars == <<phase, downloaded, artifact, autoUpdate, worker, partial, final, blocks, installer, target,
                press, checks, shared, late, stuck>>

Resting == [step |-> "idle", version |-> 0, inode |-> 0, got |-> 0, wants |-> FALSE]
Phases == {"idle", "checking", "available", "downloading", "downloaded", "installing",
           "up-to-date", "unsupported", "error"}

UpdatesTypeOK ==
  /\ phase \in Phases /\ downloaded \in Versions \cup {0} /\ artifact \in Versions \cup {0}
  /\ autoUpdate \in BOOLEAN
  /\ worker \in [Workers -> [step : {"idle", "access", "check", "nested", "prepare", "fetch", "write", "rename"},
                             version : Versions \cup {0}, inode : Inodes \cup {0}, got : 0..Blocks, wants : BOOLEAN]]
  /\ partial \in [Versions -> Inodes \cup {0}] /\ final \in [Versions -> Inodes \cup {0}]
  /\ blocks \in [Inodes -> SUBSET (1..Blocks)]
  /\ installer \in {"idle", "checked", "spawned", "ran", "broken"}
  /\ target \in Versions \cup {0}
  /\ press \in {"none", "check", "download", "install"} /\ checks \in 0..MaxChecks
  /\ shared \in BOOLEAN /\ late \in BOOLEAN /\ stuck \in BOOLEAN

Step(w) == worker[w].step
Downloading == {w \in Workers : Step(w) \in {"prepare", "fetch", "write", "rename"}}
Whole(v) == final[v] # 0 /\ blocks[final[v]] = 1..Blocks
Running == installer \notin {"ran", "broken"}   \* the application has not quit
Ends(w) == worker' = [worker EXCEPT ![w] = Resting]
FailsSilently(w) == UNCHANGED phase /\ Ends(w)
Fails(w) == phase' = "error" /\ Ends(w)

----------------------------------------------------------------------------
(* check *)

\* check(options), called by worker w: returns at once while one is under way.
BeginCheck(w, wants) ==
  IF phase \in {"checking", "downloading", "installing"}
  THEN UNCHANGED <<phase, worker>>
  ELSE /\ phase' = "checking"
       /\ worker' = [worker EXCEPT ![w] = [Resting EXCEPT !.step = "check", !.wants = wants]]

\* download, as far as the first await of the download itself.
BeginDownload(w, v) ==
  /\ phase' = "downloading"
  /\ worker' = [worker EXCEPT ![w] = [Resting EXCEPT !.step = "prepare", !.version = v]]
  /\ shared' = (shared \/ Downloading \ {w} # {})
  /\ late' = (late \/ installer # "idle")

\* The manifest has arrived: nothing for this platform, nothing newer
\* (compareVersions), or a version, which a check that wants it goes on to
\* download; the download call that began with this check gets it in any case.
ManifestArrived(w) ==
  /\ Step(w) \in {"check", "nested"}
  /\ \/ /\ phase' = "unsupported" /\ artifact' = 0 /\ downloaded' = 0
        /\ Ends(w)
        /\ UNCHANGED <<shared, late>>
     \/ \E v \in Versions :
          /\ artifact' = v /\ downloaded' = 0
          /\ IF v <= Current
             THEN phase' = "up-to-date" /\ Ends(w) /\ UNCHANGED <<shared, late>>
             ELSE IF Step(w) = "nested" \/ worker[w].wants \/ autoUpdate
             THEN BeginDownload(w, v)
             ELSE phase' = "available" /\ Ends(w) /\ UNCHANGED <<shared, late>>
     \/ Fails(w) /\ UNCHANGED <<artifact, downloaded, shared, late>>
  /\ UNCHANGED <<autoUpdate, partial, final, blocks, installer, target, press, checks, stuck>>

\* The timers of start, and the check after an incompatibility.
TimedCheck(w) ==
  /\ Running /\ autoUpdate /\ Step(w) = "idle" /\ checks < MaxChecks
  /\ phase \notin {"checking", "downloading", "installing"}
  /\ BeginCheck(w, TRUE)
  /\ checks' = checks + 1
  /\ UNCHANGED <<downloaded, artifact, autoUpdate, partial, final, blocks, installer, target, press, shared,
                 late, stuck>>

SetAutoUpdate ==
  /\ autoUpdate' = ~autoUpdate
  /\ Running /\ checks < MaxChecks
  /\ UNCHANGED <<phase, downloaded, artifact, worker, partial, final, blocks, installer, target, press, checks,
                 shared, late, stuck>>

----------------------------------------------------------------------------
(* download *)

\* Without a manifest the download checks first; with one it takes the version
\* the last check has seen.
Download(w) ==
  IF artifact = 0
  THEN /\ IF phase \in {"checking", "downloading", "installing"}
          THEN Ends(w) /\ UNCHANGED phase
          ELSE phase' = "checking" /\ worker' = [worker EXCEPT ![w] = [Resting EXCEPT !.step = "nested"]]
       /\ UNCHANGED <<shared, late>>
  ELSE BeginDownload(w, artifact)

\* A download that finds one done looks first whether the file is still there.
AccessDone(w) ==
  /\ Step(w) = "access"
  /\ IF final[worker[w].version] # 0
     THEN Ends(w) /\ UNCHANGED <<phase, shared, late>>
     ELSE Download(w)
  /\ UNCHANGED <<downloaded, artifact, autoUpdate, partial, final, blocks, installer, target, press, checks, stuck>>

\* mkdir and rm of the partial file, before the try: a failure ends the call and
\* leaves the phase as it is.
Prepared(w) ==
  /\ Step(w) = "prepare"
  /\ \/ /\ Ends(w) /\ stuck' = TRUE
        /\ UNCHANGED partial
     \/ /\ partial' = [partial EXCEPT ![worker[w].version] = 0]
        /\ worker' = [worker EXCEPT ![w].step = "fetch"]
        /\ UNCHANGED stuck
  /\ UNCHANGED <<phase, downloaded, artifact, autoUpdate, final, blocks, installer, target, press, checks,
                 shared, late>>

\* The catch of download: removes what is named .partial now.
DownloadFails(w) ==
  /\ Step(w) \in {"fetch", "write", "rename"}
  /\ partial' = [partial EXCEPT ![worker[w].version] = 0]
  /\ Fails(w)
  /\ UNCHANGED <<downloaded, artifact, autoUpdate, final, blocks, installer, target, press, checks, shared,
                 late, stuck>>

\* The response has come: the partial file is opened for writing.
Opened(w) ==
  /\ Step(w) = "fetch"
  /\ LET v == worker[w].version
         unused == {i \in Inodes : /\ i \notin {partial[u] : u \in Versions} \cup {final[u] : u \in Versions}
                                   /\ \A x \in Workers : worker[x].inode # i}
     IN  \E i \in IF partial[v] # 0 THEN {partial[v]} ELSE unused :
           /\ partial' = [partial EXCEPT ![v] = i]
           /\ blocks' = [blocks EXCEPT ![i] = {}]
           /\ worker' = [worker EXCEPT ![w].step = "write", ![w].inode = i]
  /\ UNCHANGED <<phase, downloaded, artifact, autoUpdate, final, installer, target, press, checks, shared,
                 late, stuck>>

\* A piece has arrived and is written at the position of this file handle;
\* the progress is shown.
Written(w) ==
  /\ Step(w) = "write" /\ worker[w].got < Blocks
  /\ worker' = [worker EXCEPT ![w].got = @ + 1]
  /\ blocks' = [blocks EXCEPT ![worker[w].inode] = @ \cup {worker[w].got + 1}]
  /\ phase' = "downloading"
  /\ UNCHANGED <<downloaded, artifact, autoUpdate, partial, final, installer, target, press, checks, shared,
                 late, stuck>>

\* The stream has ended.  Size and hash of what this call received decide; the
\* old file is removed before the new one takes its name.
Unverified(w) == worker[w].got > 0
Verified(w) == worker[w].got = Blocks
StreamEnds(w) ==
  /\ Step(w) = "write"
  /\ IF Verified(w)
     THEN /\ worker' = [worker EXCEPT ![w].step = "rename"]
          /\ final' = [final EXCEPT ![worker[w].version] = 0]
          /\ UNCHANGED <<phase, partial>>
     ELSE /\ partial' = [partial EXCEPT ![worker[w].version] = 0]
          /\ Fails(w)
          /\ UNCHANGED final
  /\ UNCHANGED <<downloaded, artifact, autoUpdate, blocks, installer, target, press, checks, shared, late, stuck>>

Renamed(w) ==
  /\ Step(w) = "rename"
  /\ LET v == worker[w].version
     IN  /\ partial[v] # 0
         /\ final' = [final EXCEPT ![v] = partial[v]]
         /\ partial' = [partial EXCEPT ![v] = 0]
         /\ downloaded' = v
  /\ phase' = "downloaded"
  /\ Ends(w)
  /\ UNCHANGED <<artifact, autoUpdate, blocks, installer, target, press, checks, shared, late, stuck>>

----------------------------------------------------------------------------
(* The window: its one button asks for what the phase it was sent last offers *)

Press ==
  /\ Running /\ press = "none" /\ checks < MaxChecks
  /\ phase \notin {"checking", "downloading"}
  /\ press' = CASE phase = "downloaded" -> "install"
                [] phase = "available" -> "download"
                [] OTHER -> "check"
  /\ UNCHANGED <<phase, downloaded, artifact, autoUpdate, worker, partial, final, blocks, installer, target,
                 checks, shared, late, stuck>>

CheckByWindow(w) ==
  /\ press = "check" /\ press' = "none" /\ Step(w) = "idle" /\ checks < MaxChecks
  /\ checks' = checks + 1
  /\ BeginCheck(w, FALSE)
  /\ UNCHANGED <<downloaded, artifact, autoUpdate, partial, final, blocks, installer, target, shared, late, stuck>>

DownloadByWindow(w) ==
  /\ press = "download" /\ press' = "none" /\ Step(w) = "idle" /\ checks < MaxChecks
  /\ checks' = checks + 1
  /\ IF phase = "downloaded" /\ downloaded # 0
     THEN /\ worker' = [worker EXCEPT ![w] = [Resting EXCEPT !.step = "access", !.version = downloaded]]
          /\ UNCHANGED <<phase, shared, late>>
     ELSE Download(w)
  /\ UNCHANGED <<downloaded, artifact, autoUpdate, partial, final, blocks, installer, target, stuck>>

\* scheduleInstall: its guard, then access and stat of the file, then the
\* installer is spawned; the application quits 180 ms later.
InstallByWindow ==
  /\ press = "install" /\ press' = "none"
  /\ installer' = IF phase = "downloaded" /\ downloaded # 0 /\ installer = "idle" THEN "checked" ELSE installer
  /\ target' = IF installer' = installer THEN target ELSE downloaded
  /\ late' = (late \/ (installer' = "checked" /\ Downloading # {}))
  /\ UNCHANGED <<phase, downloaded, artifact, autoUpdate, worker, partial, final, blocks, checks, shared, stuck>>

Spawn ==
  /\ installer = "checked"
  /\ \/ installer' = "spawned" /\ phase' = "installing"
     \/ installer' = "idle" /\ UNCHANGED phase
  /\ UNCHANGED <<downloaded, artifact, autoUpdate, worker, partial, final, blocks, target, press, checks,
                 shared, late, stuck>>

\* What the installer finds once the application is gone.
Quit ==
  /\ installer = "spawned"
  /\ installer' = IF Whole(target) THEN "ran" ELSE "broken"
  /\ worker' = [w \in Workers |-> Resting] /\ press' = "none"
  /\ UNCHANGED <<phase, downloaded, artifact, autoUpdate, partial, final, blocks, target, checks, shared, late,
                 stuck>>

----------------------------------------------------------------------------

UpdatesInit ==
  /\ phase = "idle" /\ downloaded = 0 /\ artifact = 0 /\ autoUpdate \in BOOLEAN
  /\ worker = [w \in Workers |-> Resting]
  /\ partial = [v \in Versions |-> 0] /\ final = [v \in Versions |-> 0]
  /\ blocks = [i \in Inodes |-> {}]
  /\ installer = "idle" /\ target = 0 /\ press = "none" /\ checks = 0
  /\ shared = FALSE /\ late = FALSE /\ stuck = FALSE

WorkerStep(w) ==
  \/ ManifestArrived(w) \/ AccessDone(w) \/ Prepared(w) \/ Opened(w) \/ Written(w) \/ StreamEnds(w)
  \/ Renamed(w) \/ DownloadFails(w)

UpdatesNext ==
  \/ \E w \in Workers : WorkerStep(w) \/ TimedCheck(w) \/ CheckByWindow(w) \/ DownloadByWindow(w)
  \/ SetAutoUpdate \/ Press \/ InstallByWindow \/ Spawn \/ Quit

\* Reads and writes end, successfully or not (a silent server runs into the
\* timeouts of fetch).
UpdatesWork == \E w \in Workers : WorkerStep(w)

UpdatesSpec == UpdatesInit /\ [][UpdatesNext]_updateVars /\ WF_updateVars(UpdatesWork)

----------------------------------------------------------------------------
(* Properties *)

\* While one download runs at a time, the file that is offered for installation
\* is complete, though size and hash are checked on the stream and not on the
\* file; and the installer, which starts when the application has quit, finds it
\* complete, unless a download was under way when the installation was asked for
\* or began before the application had quit.
OfferedFileIsWhole ==
  /\ phase = "downloaded" /\ ~shared => Whole(downloaded)
  /\ installer = "broken" => late

\* A phase in which the button is disabled and checks return at once has a call
\* under way that ends it; only a directory that cannot be prepared, which
\* throws outside the try, leaves "downloading" behind.
PhaseHasItsWorker == Running =>
  /\ phase = "checking" => \E w \in Workers : Step(w) \in {"check", "nested"}
  /\ phase = "downloading" => Downloading # {} \/ stuck
=============================================================================
