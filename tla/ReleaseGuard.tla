---------------------------- MODULE ReleaseGuard ----------------------------
(***************************************************************************)
(* The bundle a machine starts from: replaced by an operator's staged      *)
(* build, by a published release (`ccmux update`, or the daemon itself),   *)
(* put back by `ccmux update --rollback`, and put back by the boot guard   *)
(* when the daemon keeps dying (release/update.ts, commands/update.ts,     *)
(* util/bootGuard.ts, commands/daemon.ts, the healing job of the daemon).  *)
(*                                                                         *)
(* A bundle is its version.  Any process may die between two writes.       *)
(***************************************************************************)
EXTENDS Naturals

CONSTANTS
  Versions,     \* bundles, as the numbers 1..n
  None,
  Fates,        \* a bundle "works", or its passes throw and it lives on ("throws"), or it "dies"
  MAX_ATTEMPTS, \* util/bootGuard.ts
  MaxFaults,    \* bound: crashes the bundle is not to blame for, failures, lost files
  Commands      \* bound: commands of the operator

File == Versions \cup {None}
Updaters == {"daemon", "cli"}

VARIABLES
  target,     \* the bundle on disk, which every process starts from
  bak,        \* its backup
  digest,     \* the recorded digest of the backup
  staged,     \* the operator's local build
  release,    \* the published version
  attempts,   \* the boot-attempts counter
  proven,     \* the digest the counter's neighbour records as having run here
  daemon,     \* how far the daemon has come, its code, the digest it read at start
  upd,        \* per process: its step in an update, what it installs, what it replaces
  lock,       \* the update lock
  fate,       \* what a bundle does on this machine
  tries,      \* starts counted since the bundle on disk changed or was put back; None:
              \* it carries older ones
  faults, commands

disk == <<target, bak, digest, staged, release>>
guard == <<attempts, proven, tries>>
vars == <<disk, guard, daemon, upd, lock, fate, faults, commands>>

Down == [at |-> "down", code |-> None, read |-> None]
Idle == [step |-> "idle", kind |-> "release", to |-> None, keep |-> None, code |-> None]
\* Started afresh, unless a daemon that has not completed a pass is replaced.
Put(b, fresh) ==
  /\ target' = b
  /\ tries' = IF b = target THEN tries ELSE IF fresh THEN 0 ELSE None
Step(u, s) == upd' = [upd EXCEPT ![u].step = s]
Leave(u) == upd' = [upd EXCEPT ![u] = Idle] /\ lock' = None

Init ==
  /\ target = 1 /\ bak = None /\ digest = None /\ staged = None /\ release = 1
  /\ attempts = 0 /\ proven = None /\ tries = 0
  /\ daemon = Down /\ upd = [u \in Updaters |-> Idle] /\ lock = None
  /\ fate \in {f \in [Versions -> Fates] : f[1] = "works"}
  /\ faults = 0 /\ commands = 0

-----------------------------------------------------------------------------
(* The daemon and its guard *)

\* The boot unit starts the daemon from the file on disk, for ever.
Launch ==
  /\ daemon.at = "down" /\ target # None
  /\ daemon' = [at |-> "loaded", code |-> target, read |-> None]
  /\ UNCHANGED <<disk, guard, upd, lock, fate, faults, commands>>

Counted == tries' = IF tries # None /\ tries < MAX_ATTEMPTS THEN tries + 1 ELSE tries
Start == daemon' = [daemon EXCEPT !.at = "started", !.read = target]

\* Mutant: every bundle is kept.
bootGuardStartNever ==
  /\ daemon.at = "loaded" /\ attempts' = 0 /\ Start /\ Counted
  /\ UNCHANGED <<disk, proven, upd, lock, fate, faults, commands>>

\* The guard reads the digest of the file, which need not be the code it runs.
bootGuardStart ==
  /\ daemon.at = "loaded"
  /\ \/ /\ attempts + 1 < MAX_ATTEMPTS
        /\ attempts' = attempts + 1 /\ Start /\ Counted /\ UNCHANGED target
     \/ /\ attempts + 1 = MAX_ATTEMPTS /\ attempts' = 0
        /\ (target # None /\ target = proven) \/ bak = None
        /\ Start /\ Counted /\ UNCHANGED target
     \/ /\ attempts + 1 = MAX_ATTEMPTS /\ attempts' = 0
        /\ ~((target # None /\ target = proven) \/ bak = None)
        /\ target' = bak /\ tries' = 0 /\ daemon' = Down
  /\ UNCHANGED <<bak, digest, staged, release, proven, upd, lock, fate, faults, commands>>

\* The heal pass of a daemon that is not busy with an update.
Passes == daemon.at = "started" /\ upd["daemon"] = Idle /\ fate[daemon.code] = "works"

\* Mutant: a pass does not clear the counter.
proveBootBundleUncleared ==
  /\ Passes /\ proven' = daemon.read /\ daemon' = [daemon EXCEPT !.at = "running"]
  /\ UNCHANGED <<disk, attempts, tries, upd, lock, fate, faults, commands>>

\* The first heal pass that succeeds.
proveBootBundle ==
  /\ Passes /\ attempts' = 0
  /\ proven' = (IF daemon.read = None THEN proven ELSE daemon.read)
  /\ daemon' = [daemon EXCEPT !.at = "running"]
  /\ UNCHANGED <<disk, tries, upd, lock, fate, faults, commands>>

\* What dies with the daemon is its update too, and the lock it held.
DaemonEnds ==
  /\ daemon' = Down /\ upd' = [upd EXCEPT !["daemon"] = Idle]
  /\ lock' = IF lock = "daemon" THEN None ELSE lock

Crash ==
  /\ daemon.at \in {"started", "running"} /\ DaemonEnds
  /\ IF fate[daemon.code] = "dies" THEN UNCHANGED faults
     ELSE faults < MaxFaults /\ faults' = faults + 1
  /\ UNCHANGED <<disk, guard, fate, commands>>

-----------------------------------------------------------------------------
(* Deciding to update *)

Publish(v) ==
  /\ v > release /\ release' = v
  /\ UNCHANGED <<target, bak, digest, staged, guard, daemon, upd, lock, fate, faults, commands>>

Stage(v) ==
  /\ upd["cli"] = Idle /\ staged # v /\ commands < Commands
  /\ staged' = v /\ commands' = commands + 1
  /\ UNCHANGED <<target, bak, digest, release, guard, daemon, upd, lock, fate, faults>>

\* The daemon's tick: a newer release, or a bundle that is gone from disk.  A pass that
\* threw is no obstacle; of a bundle that works that is a fault.
autoUpdateOnce ==
  /\ daemon.at \in {"started", "running"} /\ upd["daemon"] = Idle
  /\ IF Passes THEN faults < MaxFaults /\ faults' = faults + 1 ELSE UNCHANGED faults
  /\ target = None \/ release > daemon.code
  /\ upd' = [upd EXCEPT !["daemon"] =
               [Idle EXCEPT !.step = "waiting", !.to = release, !.code = daemon.code]]
  /\ UNCHANGED <<disk, guard, daemon, lock, fate, commands>>

\* decideUpdate on behalf of a process that runs the bundle on disk.
decideUpdate(force) ==
  IF staged # None
  THEN IF force \/ staged >= target THEN [kind |-> "staged", to |-> staged]
       ELSE [kind |-> "print", to |-> None]
  ELSE IF force \/ release > target THEN [kind |-> "release", to |-> release]
       ELSE [kind |-> "print", to |-> None]

cmdUpdate(back, force) ==
  /\ upd["cli"] = Idle /\ target # None /\ commands < Commands
  /\ LET d == IF ~back THEN decideUpdate(force)
              ELSE [kind |-> IF bak = None THEN "print" ELSE "back", to |-> bak] IN
     /\ d.kind # "print"
     /\ upd' = [upd EXCEPT !["cli"] = [Idle EXCEPT
                  !.step = "waiting", !.kind = d.kind, !.to = d.to, !.code = target]]
  /\ commands' = commands + 1
  /\ UNCHANGED <<disk, guard, daemon, lock, fate, faults>>

-----------------------------------------------------------------------------
(* Replacing the bundle, under the update lock *)

\* Mutant: no lock.
AcquireFreely(u) ==
  /\ upd[u].step = "waiting" /\ lock' = u /\ Step(u, "locked")
  /\ UNCHANGED <<disk, guard, daemon, fate, faults, commands>>

Acquire(u) ==
  /\ upd[u].step = "waiting" /\ lock = None /\ lock' = u /\ Step(u, "locked")
  /\ UNCHANGED <<disk, guard, daemon, fate, faults, commands>>

\* What is installed already is not installed again: the backup is kept.
AlreadyThere(u) ==
  /\ upd[u].step = "locked" /\ upd[u].kind # "back" /\ target = upd[u].to
  /\ staged' = IF upd[u].kind = "staged" THEN None ELSE staged
  /\ lock' = None /\ Step(u, "done")
  /\ UNCHANGED <<target, bak, digest, release, guard, daemon, fate, faults, commands>>

\* Mutant: a bundle is installed over itself.
CompareNot(u) ==
  /\ upd[u].step = "locked" /\ upd[u].kind # "back"
  /\ upd' = [upd EXCEPT ![u].keep = target, ![u].step = "compared"]
  /\ UNCHANGED <<disk, guard, daemon, lock, fate, faults, commands>>

\* What is installed is another bundle, or gone; a release is now downloaded and verified.
Compare(u) ==
  /\ upd[u].step = "locked" /\ upd[u].kind # "back" /\ target # upd[u].to
  /\ upd' = [upd EXCEPT ![u].keep = target, ![u].step = "compared"]
  /\ UNCHANGED <<disk, guard, daemon, lock, fate, faults, commands>>

\* A copy of what is on disk by then; a bundle that is gone leaves the old backup.
Backup(u) ==
  /\ upd[u].step = "compared"
  /\ bak' = (IF target = None THEN bak ELSE target)
  /\ Step(u, IF upd[u].kind = "staged" /\ target # None THEN "backed" ELSE "recorded")
  /\ UNCHANGED <<target, digest, staged, release, guard, daemon, lock, fate, faults, commands>>

\* replaceBundle records the digest of what it compared, and renames then.
RecordStaged(u) ==
  /\ upd[u].step = "backed" /\ digest' = upd[u].keep /\ Step(u, "recorded")
  /\ UNCHANGED <<target, bak, staged, release, guard, daemon, lock, fate, faults, commands>>

Swap(u) ==
  /\ upd[u].step = "recorded" /\ Put(upd[u].to, daemon.at = "running")
  /\ IF upd[u].kind = "staged"
     THEN staged' = None /\ lock' = None /\ Step(u, "done")
     ELSE UNCHANGED <<staged, lock>> /\ Step(u, "swapped")
  /\ UNCHANGED <<bak, digest, release, attempts, proven, daemon, fate, faults, commands>>

\* A release records the digest of the copy after it renamed.
RecordRelease(u) ==
  /\ upd[u].step = "swapped" /\ lock' = None /\ Step(u, "done")
  /\ digest' = (IF upd[u].keep = None THEN digest ELSE bak)
  /\ UNCHANGED <<target, bak, staged, release, guard, daemon, fate, faults, commands>>

\* The recorded digest must be the backup's; a backup without one is taken as it is.
restoreBackup(u) ==
  /\ upd[u].step = "locked" /\ upd[u].kind = "back"
  /\ IF digest \in {None, bak}
     THEN Put(bak, daemon.at = "running") /\ lock' = None /\ Step(u, "done")
     ELSE Leave(u) /\ UNCHANGED <<target, tries>>
  /\ UNCHANGED <<bak, digest, staged, release, attempts, proven, daemon, fate, faults, commands>>

\* A download that fails, or a candidate that does not load.
Fail(u) ==
  /\ upd[u].step = "compared" /\ upd[u].kind = "release"
  /\ faults < MaxFaults /\ faults' = faults + 1 /\ Leave(u)
  /\ UNCHANGED <<disk, guard, daemon, fate, commands>>

\* The command bounces the daemon; the daemon asks itself to stop.
restartBoot ==
  /\ upd["cli"].step = "done" /\ daemon' = Down
  /\ upd' = [u \in Updaters |-> Idle] /\ lock' = None
  /\ UNCHANGED <<disk, guard, fate, faults, commands>>

RestartSelf ==
  /\ upd["daemon"].step = "done" /\ DaemonEnds
  /\ UNCHANGED <<disk, guard, fate, faults, commands>>

CommandDies ==
  /\ upd["cli"] # Idle /\ faults < MaxFaults /\ faults' = faults + 1
  /\ upd' = [upd EXCEPT !["cli"] = Idle]
  /\ lock' = IF lock = "cli" THEN None ELSE lock
  /\ UNCHANGED <<disk, guard, daemon, fate, commands>>

Wipe ==
  /\ target # None /\ faults < MaxFaults /\ faults' = faults + 1 /\ Put(None, TRUE)
  /\ daemon.at = "running" /\ upd = [u \in Updaters |-> Idle]
  /\ UNCHANGED <<bak, digest, staged, release, attempts, proven, daemon, upd, lock, fate, commands>>

-----------------------------------------------------------------------------
Update(u) ==
  Acquire(u) \/ AlreadyThere(u) \/ Compare(u) \/ Backup(u) \/ RecordStaged(u) \/ Swap(u)
    \/ RecordRelease(u) \/ restoreBackup(u)

Next ==
  \/ Launch \/ bootGuardStart \/ proveBootBundle \/ Crash
  \/ \E v \in Versions : Publish(v) \/ Stage(v)
  \/ autoUpdateOnce
  \/ \E back, force \in BOOLEAN : cmdUpdate(back, force)
  \/ \E u \in Updaters : Update(u) \/ Fail(u)
  \/ restartBoot \/ RestartSelf \/ CommandDies \/ Wipe

\* A bundle that dies by itself does so in the end, whatever its passes did; the boot unit
\* relaunches; the schedule of the daemon goes on.
BadDies == daemon.code # None /\ fate[daemon.code] = "dies" /\ Crash
Fairness ==
  /\ WF_vars(Launch) /\ WF_vars(bootGuardStart) /\ WF_vars(proveBootBundle)
  /\ WF_vars(BadDies) /\ WF_vars(autoUpdateOnce)
  /\ \A u \in Updaters : WF_vars(Update(u))
  /\ WF_vars(restartBoot) /\ WF_vars(RestartSelf)

Spec == Init /\ [][Next]_vars /\ Fairness

-----------------------------------------------------------------------------
(* Properties *)

Daemons == [at : {"down", "loaded", "started", "running"}, code : File, read : File]
Steps == [step : {"idle", "waiting", "locked", "compared", "backed", "recorded", "swapped",
                   "done"},
          kind : {"release", "staged", "back"}, to : File, keep : File, code : File]

\* Every file, counter and step has its shape.
TypeOK ==
  /\ target \in File /\ bak \in File /\ digest \in File /\ staged \in File
  /\ release \in Versions /\ proven \in File /\ fate \in [Versions -> Fates]
  /\ attempts \in 0..(MAX_ATTEMPTS - 1) /\ tries \in 0..MAX_ATTEMPTS \cup {None}
  /\ daemon \in Daemons /\ (daemon.at = "down" => daemon = Down) /\ upd \in [Updaters -> Steps]
  /\ lock \in Updaters \cup {None}
  /\ faults \in 0..MaxFaults /\ commands \in 0..Commands

\* release/update.ts, replaceBundle and downloadVerifyApply ("a claimed rollback
\* must contain the actual predecessor"): the moment a bundle is replaced by an
\* update, the backup holds that bundle, with two updaters, the boot guard and a dying
\* process in between; and it is not the one that replaces it, unless the guard has put
\* another bundle back since the comparison.
KeepsPredecessor ==
  \A u \in Updaters :
    upd[u].step = "recorded" /\ upd'[u].step \in {"swapped", "done"} /\ target # None
      => bak' = target /\ (upd[u].keep = target => bak' # target')
PredecessorKept == [][KeepsPredecessor]_vars

\* util/bootGuard.ts, header ("the fleet box must heal ITSELF"): a machine left to
\* itself, whatever its release feed publishes, comes back again and again to a bundle that
\* completes its passes, or to one that lives on though they throw, as long as the file on
\* disk is there and one that does not die is on disk or in the backup.
Running == daemon.at = "running"
Up == daemon.at = "started" /\ fate[daemon.code] = "throws"
Lost == target = None \/ \A b \in {target, bak} \ {None} : fate[b] = "dies"
KeepsComingBack == []<>(Running \/ Up \/ Lost)

\* util/bootGuard.ts, header ("Reaching MAX_ATTEMPTS at startup means this bundle
\* never survives long enough to work"): a bundle is not reverted before the
\* MAX_ATTEMPTS-th start of that bundle, unless it was installed while a daemon had not
\* completed a pass: then it carries the starts of that one.
RevertsInTime ==
  daemon.at = "loaded" /\ attempts = MAX_ATTEMPTS - 1 /\ daemon'.at = "down" /\ attempts' = 0
    => tries = None \/ tries >= MAX_ATTEMPTS - 1
BlamesTheCulprit == [][RevertsInTime]_vars

-----------------------------------------------------------------------------
(* The property made inductive *)

\* What the proofs ask of the constants.
ConstantsOK ==
  /\ Versions \subseteq Nat /\ 1 \in Versions /\ None \notin Versions /\ None \notin Updaters
  /\ Fates \subseteq {"works", "throws", "dies"}
  /\ MAX_ATTEMPTS \in Nat \ {0} /\ MaxFaults \in Nat /\ Commands \in Nat

\* One process at a time replaces the bundle, another than the one it compared; from its
\* backup to its rename the backup is the bundle on disk.
UpdatesSound ==
  \A u \in Updaters :
    /\ upd[u].step \in {"locked", "compared", "backed", "recorded", "swapped"} => lock = u
    /\ upd[u].step # "idle" => IF upd[u].kind = "back" THEN bak # None ELSE upd[u].to # None
    /\ upd[u].step \in {"compared", "backed", "recorded"} =>
         upd[u].kind # "back" /\ upd[u].keep # upd[u].to
    /\ upd[u].step \in {"backed", "recorded"} => target \in {None, bak}

\* No bundle is lost while a daemon has its guard before it.
GuardFindsBundle == daemon.at = "loaded" => target # None

ReleaseInv == UpdatesSound /\ GuardFindsBundle
=============================================================================
