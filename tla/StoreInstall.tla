---------------------------- MODULE StoreInstall ----------------------------
(***************************************************************************)
(* One package version in the global store (pkg/store.rs) under several    *)
(* `taida ingot install` processes (StoreProvider::resolve in              *)
(* pkg/provider.rs) and `taida ingot cache clean --store-pkg`.  A step is  *)
(* one effect on the file system; a process may die between any two.       *)
(*                                                                         *)
(* A tarball is its content: the same value stands for its SHA-256, for    *)
(* the commit the tag named and for the text of its files.                 *)
(***************************************************************************)
EXTENDS Naturals, FiniteSets

CONSTANTS
  Procs,        \* installing processes
  Tarballs,     \* what the version's tag may name over time
  Files,        \* paths inside a package
  FilesOf,      \* the files of each tarball
  None,         \* no tarball, no commit, no lock file
  Inodes,       \* what a new lock file may be numbered
  MaxFaults,    \* bound on crashes and failed removals and renames
  FollowTorn    \* bound: are installs followed over a torn store?

ASSUME StoreInstallAssumption ==
  /\ None \notin Tarballs \cup Inodes
  /\ FilesOf \in [Tarballs -> SUBSET Files]
  /\ MaxFaults \in Nat /\ FollowTorn \in BOOLEAN

VARIABLES
  proc,      \* each installing process
  pkg,       \* the package directory
  archive,   \* the tarball in .tmp-<version>, which processes share by name
  orphans,   \* complete refresh backups that no process will use any more
  lockFile,  \* the lock file at its path: None when missing, else its inode
  remote,    \* what the tag names now
  kept,      \* history: an install was completed and not cleaned away
  leftover,  \* history: a fetch found files and no marker
  cleaning,  \* a `cache clean` is running
  torn,      \* history: a clean has run beside an install or stopped half way,
             \* and none has emptied the store since
  faults

disk == <<pkg, archive, orphans, lockFile>>
history == <<kept, leftover>>
cleaner == <<cleaning, torn>>
vars == <<proc, disk, remote, history, cleaner, faults>>

Places == {"idle", "locking", "deciding", "staging", "fetching", "downloading",
           "hashing", "extracting", "verifying", "describing", "marking",
           "resolved", "undoing", "restoring", "failed"}
Modes == {"normal", "forceRefresh", "noRemoteCheck"}
Commits == Tarballs \cup {None}

\* A package directory: its files, the sidecar _meta.toml and the marker
\* .taida_installed.  A missing directory and an empty one behave alike.
NoSidecar == [tarball |-> None, commit |-> None]
NoDir == [files |-> [f \in Files |-> None], sidecar |-> NoSidecar, marker |-> FALSE]
Dirs == [files : [Files -> Commits], sidecar : [tarball : Commits, commit : Commits],
         marker : BOOLEAN]
NoProc == [at |-> "idle", pin |-> None, commit |-> None, tarball |-> None,
           todo |-> {}, inode |-> None, found |-> NoDir, stash |-> NoDir]

\* An install from before there were sidecars.
Legacy(t) == [NoDir EXCEPT !.files = [f \in Files |-> IF f \in FilesOf[t] THEN t ELSE None],
                           !.marker = TRUE]

Init ==
  /\ proc = [p \in Procs |-> NoProc]
  /\ pkg \in {NoDir} \cup {Legacy(t) : t \in Tarballs}
  /\ archive = None /\ orphans = {} /\ lockFile = None
  /\ remote \in Tarballs
  /\ kept = pkg.marker /\ leftover = FALSE
  /\ cleaning = FALSE /\ torn = FALSE
  /\ faults = 0

\* GlobalStore::is_cached
IsCached == pkg.marker

At(p, place) == proc[p].at = place
\* Nothing is promised of a torn store, so a run need not follow what becomes
\* of it, unless a clean with nobody at work makes it good.
Followed == torn => FollowTorn
Here(p, place) == Followed /\ At(p, place)
Goto(p, place) == proc' = [proc EXCEPT ![p].at = place]

\* flock is held on the inode that was opened, whatever its path is now.
Locked(p) == proc[p].at \notin {"idle", "locking"}
\* Slips, for the mutant of LockIsFree only.
LockNeedsNoOpener(i) == Cardinality({q \in Procs : proc[q].inode = i}) <= 1

LockIsFree(i) == \A q \in Procs : ~(Locked(q) /\ proc[q].inode = i)

-----------------------------------------------------------------------------
\* acquire_install_lock, first half: the lock file is opened, or created as a
\* file that is none of those still open.
NotOpen == Inodes \ {proc[q].inode : q \in Procs}
Open(p) ==
  /\ Here(p, "idle")
  /\ torn' = (torn \/ cleaning)
  /\ IF lockFile # None THEN UNCHANGED lockFile
     ELSE NotOpen # {} /\ lockFile' = CHOOSE i \in NotOpen : TRUE
  /\ proc' = [proc EXCEPT ![p] = [NoProc EXCEPT !.at = "locking", !.inode = lockFile']]
  /\ UNCHANGED <<pkg, archive, orphans, remote, history, faults, cleaning>>

\* InstallLock::acquire, second half: flock blocks until nobody holds it.
\* found is a history: the install the process finds.
Lock(p) ==
  /\ Here(p, "locking")
  /\ LockIsFree(proc[p].inode)
  /\ proc' = [proc EXCEPT ![p].at = "deciding",
                            ![p].found = IF IsCached THEN pkg ELSE NoDir]
  /\ UNCHANGED <<disk, remote, history, faults, cleaner>>

\* classify_stale: is the cached entry to be fetched again?
Stale(sidecar, sha) ==
  IF sidecar = NoSidecar THEN sha # None
  ELSE sha # None /\ sidecar.commit # sha

\* apply_stale_decision with what the remote lookup answered; --force-refresh
\* goes past the table and --no-remote-check past the lookup.
WantsRefresh(mode, sha) ==
  \/ mode = "forceRefresh"
  \/ mode = "normal" /\ Stale(pkg.sidecar, sha)

\* Slips, for the mutant of PinHolds only.
AnySidecar(pin) == pkg.sidecar # NoSidecar

\* verify_cached_tarball_integrity
PinHolds(pin) == pkg.sidecar # NoSidecar /\ pkg.sidecar.tarball = pin

\* The pin is what the process has read in packages.tdm, the mode its options.
Decide(p, pin, mode, sha) ==
  /\ Here(p, "deciding")
  /\ LET Then(place, commit) ==
           proc' = [proc EXCEPT ![p].at = place, ![p].pin = pin, ![p].commit = commit]
     IN \/ ~IsCached /\ Then("fetching", None)
        \/ IsCached /\ WantsRefresh(mode, sha) /\ Then("staging", sha)
        \/ IsCached /\ ~WantsRefresh(mode, sha) /\ PinHolds(pin) /\ Then("fetching", None)
        \/ IsCached /\ ~WantsRefresh(mode, sha) /\ ~PinHolds(pin) /\ Then("failed", None)
  /\ UNCHANGED <<disk, remote, history, faults, cleaner>>

\* stage_invalidation: one rename, to a name no other process has.
Stage(p) ==
  /\ Here(p, "staging")
  /\ \/ /\ proc' = [proc EXCEPT ![p].at = "fetching", ![p].stash = pkg]
        /\ pkg' = NoDir
     \/ /\ Goto(p, "failed")
        /\ UNCHANGED pkg
  /\ UNCHANGED <<archive, orphans, lockFile, remote, history, faults, cleaner>>

-----------------------------------------------------------------------------
(* fetch_and_cache_with_meta *)

Fault == faults < MaxFaults /\ faults' = faults + 1

\* What remove_dir_all leaves of a directory when it stops half way.
Remains(dir) ==
  {[files |-> [f \in Files |-> IF f \in S THEN dir.files[f] ELSE None],
    sidecar |-> sidecar, marker |-> marker] :
     S \in SUBSET Files, sidecar \in {dir.sidecar, NoSidecar}, marker \in {dir.marker, FALSE}}

\* A remove_dir_all of the package directory whose result is ignored.
RemovesPkg ==
  \/ pkg' = NoDir /\ UNCHANGED faults
  \/ pkg' \in Remains(pkg) /\ Fault

\* Slips, for the mutant of FetchBegins only.
MarkFirst(p) ==
  /\ Here(p, "fetching")
  /\ IF IsCached
     THEN Goto(p, "resolved") /\ UNCHANGED <<archive, pkg>>
     ELSE Goto(p, "downloading") /\ archive' = None /\ pkg' = [pkg EXCEPT !.marker = TRUE]
  /\ UNCHANGED <<orphans, lockFile, remote, history, faults, cleaner>>

\* Already cached, or a fresh .tmp-<version>.
FetchBegins(p) ==
  /\ Here(p, "fetching")
  /\ IF IsCached
     THEN Goto(p, "resolved") /\ UNCHANGED archive
     ELSE Goto(p, "downloading") /\ archive' = None
  /\ leftover' = (leftover \/ (~IsCached /\ pkg # NoDir))
  /\ UNCHANGED <<pkg, orphans, lockFile, remote, kept,
                 faults, cleaner>>

Download(p) ==
  /\ Here(p, "downloading")
  /\ \/ archive' = remote /\ Goto(p, "hashing")
     \/ archive' = None /\ Goto(p, "undoing")
  /\ UNCHANGED <<pkg, orphans, lockFile, remote, history, faults, cleaner>>

\* What a step that fails removes: the temporary, of which nothing is ever read
\* that this fetch has not downloaded, and the package directory.
Scrap(p) == archive' = None /\ RemovesPkg /\ Goto(p, "undoing")

\* The digest, without which the package directory is left alone; then the pin
\* of packages.tdm and the signature; the archive is opened for extraction.
Hash(p) ==
  /\ Here(p, "hashing")
  /\ \/ archive' = None /\ Goto(p, "undoing") /\ UNCHANGED <<pkg, faults>>
     \/ Scrap(p)
     \/ /\ archive # None /\ archive = proc[p].pin
        /\ proc' = [proc EXCEPT ![p].at = "extracting", ![p].tarball = archive,
                                ![p].todo = FilesOf[archive]]
        /\ UNCHANGED <<pkg, archive, faults>>
  /\ UNCHANGED <<orphans, lockFile, remote, history, cleaner>>

\* extract_source_tarball_safely, one file a step, over whatever is there.
Extract(p) ==
  /\ Here(p, "extracting")
  /\ \/ \E f \in proc[p].todo :
          /\ pkg' = [pkg EXCEPT !.files[f] = proc[p].tarball]
          /\ proc' = [proc EXCEPT ![p].todo = @ \ {f}]
          /\ UNCHANGED <<archive, faults>>
     \/ /\ proc[p].todo = {}
        /\ archive' = None
        /\ Goto(p, "verifying")
        /\ UNCHANGED <<pkg, faults>>
     \/ Scrap(p)
  /\ UNCHANGED <<orphans, lockFile, remote, history, cleaner>>

\* verify_fetched_package: the manifest names this package and this version.
Verify(p) ==
  /\ Here(p, "verifying")
  /\ \/ Goto(p, "describing") /\ UNCHANGED <<pkg, faults>>
     \/ Goto(p, "undoing") /\ RemovesPkg
  /\ UNCHANGED <<archive, orphans, lockFile, remote, history, cleaner>>

\* write_meta_atomic: the sidecar appears whole, by a rename.
Describe(p) ==
  /\ Here(p, "describing")
  /\ \/ /\ pkg' = [pkg EXCEPT !.sidecar = [tarball |-> proc[p].tarball,
                                           commit |-> proc[p].commit]]
        /\ Goto(p, "marking")
        /\ UNCHANGED faults
     \/ Goto(p, "undoing") /\ RemovesPkg
  /\ UNCHANGED <<archive, orphans, lockFile, remote, history, cleaner>>

\* The marker comes last; when it cannot be written the rest stays.
Mark(p) ==
  /\ Here(p, "marking")
  /\ \/ /\ pkg' = [pkg EXCEPT !.marker = TRUE]
        /\ kept' = TRUE
        /\ Goto(p, "resolved")
     \/ Goto(p, "undoing") /\ UNCHANGED <<pkg, kept>>
  /\ UNCHANGED <<archive, orphans, lockFile, remote, leftover, faults, cleaner>>

-----------------------------------------------------------------------------

\* commit_invalidation, whose failure is only reported, then compute_dir_hash of
\* what is resolved: the answer, or an error when the backup is gone already.
Commit(p) ==
  /\ Here(p, "resolved")
  /\ \/ proc' = [proc EXCEPT ![p] = NoProc]
     \/ proc' = [proc EXCEPT ![p].at = "failed", ![p].stash = NoDir]
  /\ \/ UNCHANGED <<orphans, faults>>
     \/ proc[p].stash # NoDir /\ orphans' = orphans \cup {proc[p].stash} /\ Fault
  /\ UNCHANGED <<pkg, archive, lockFile, remote, history, cleaner>>

\* Slips, for the mutant of Undo only.
UndoDropsBackup(p) ==
  /\ Here(p, "undoing")
  /\ pkg' = NoDir
  /\ proc' = [proc EXCEPT ![p].at = "failed", ![p].stash = NoDir]
  /\ UNCHANGED <<archive, orphans, lockFile, remote, history, faults, cleaner>>

\* rollback_invalidation: the partial package goes, then the backup returns.
\* When either fails the backup keeps its own name, which the message gives.
Undo(p) ==
  /\ Here(p, "undoing")
  /\ \/ proc[p].stash = NoDir /\ Goto(p, "failed") /\ UNCHANGED <<pkg, faults>>
     \/ /\ proc[p].stash # NoDir
        /\ \/ Goto(p, "restoring") /\ pkg' = NoDir /\ UNCHANGED faults
           \/ Goto(p, "failed") /\ pkg' \in Remains(pkg) /\ Fault
  /\ UNCHANGED <<archive, orphans, lockFile, remote, history, cleaner>>

Restore(p) ==
  /\ Here(p, "restoring")
  /\ \/ /\ pkg = NoDir /\ proc[p].stash # NoDir
        /\ pkg' = proc[p].stash
        /\ proc' = [proc EXCEPT ![p].at = "failed", ![p].stash = NoDir]
        /\ UNCHANGED faults
     \/ Goto(p, "failed") /\ UNCHANGED pkg /\ Fault
     \/ (pkg # NoDir \/ proc[p].stash = NoDir) /\ Goto(p, "failed") /\ UNCHANGED <<pkg, faults>>
  /\ UNCHANGED <<archive, orphans, lockFile, remote, history, cleaner>>

\* A process ends, and its lock with it; a backup it leaves is never used again.
Leaves(p) ==
  /\ orphans' = orphans \cup ({proc[p].stash} \ {NoDir})
  /\ proc' = [proc EXCEPT ![p] = NoProc]
  /\ UNCHANGED <<pkg, archive, lockFile, remote, history, cleaner>>

\* resolve returns the error.
GiveUp(p) == Here(p, "failed") /\ Leaves(p) /\ UNCHANGED faults

-----------------------------------------------------------------------------
\* The process dies: its lock is released, its files stay.
Crash(p) == Followed /\ ~At(p, "idle") /\ Leaves(p) /\ Fault

TagMoves ==
  /\ \E t \in Tarballs \ {remote} : remote' = t
  /\ UNCHANGED <<proc, disk, history, faults, cleaner>>

Busy == \E p \in Procs : ~At(p, "idle")
Cleaning == cleaning /\ (Followed \/ ~Busy)

\* prune_store_package removes <org>/<name> with all that is under it, the lock
\* file included, in any order.  It takes no lock: installs may run beside it.
CleanBegins ==
  /\ ~cleaning /\ (Followed \/ ~Busy)
  /\ cleaning' = TRUE
  /\ torn' = (torn \/ Busy)
  /\ UNCHANGED <<proc, disk, remote, history, faults>>

CleanRemoves ==
  /\ Cleaning
  /\ \/ pkg' \in Remains(pkg) /\ UNCHANGED <<proc, archive, orphans, lockFile>>
     \/ archive' = None /\ UNCHANGED <<proc, pkg, orphans, lockFile>>
     \/ \E dir \in orphans :
          orphans' = orphans \ {dir} /\ UNCHANGED <<proc, pkg, archive, lockFile>>
     \/ \E p \in Procs : \E dir \in Remains(proc[p].stash) :
          /\ proc' = [proc EXCEPT ![p].stash = dir]
          /\ UNCHANGED <<pkg, archive, orphans, lockFile>>
     \/ lockFile' = None /\ UNCHANGED <<proc, pkg, archive, orphans>>
  /\ UNCHANGED <<remote, history, faults, cleaner>>

\* With everything gone and nobody at work the store is as good as new.
CleanEnds ==
  /\ Cleaning
  /\ pkg = NoDir /\ archive = None /\ orphans = {} /\ lockFile = None
  /\ \A p \in Procs : proc[p].stash = NoDir
  /\ cleaning' = FALSE /\ kept' = FALSE
  /\ torn' = Busy
  /\ UNCHANGED <<proc, disk, remote, leftover, faults>>

\* An error, such as a directory that is no longer empty, or an interrupt.
CleanStops ==
  /\ Cleaning
  /\ cleaning' = FALSE /\ torn' = TRUE
  /\ UNCHANGED <<proc, disk, remote, history, faults>>

Step(p) ==
  \/ \E pin \in Tarballs, mode \in Modes, sha \in {remote, None} :
       Decide(p, pin, mode, sha)
  \/ Stage(p) \/ FetchBegins(p) \/ Download(p) \/ Hash(p)
  \/ Extract(p) \/ Verify(p) \/ Describe(p) \/ Mark(p) \/ Commit(p)
  \/ Undo(p) \/ Restore(p) \/ GiveUp(p)

Next ==
  \/ \E p \in Procs : Open(p) \/ Lock(p) \/ Step(p) \/ Crash(p)
  \/ TagMoves
  \/ CleanBegins \/ CleanRemoves \/ CleanEnds \/ CleanStops

Spec == Init /\ [][Next]_vars

\* A process that has the lock runs on (downloads are cut off after 120 s), and
\* a process blocked in flock gets the lock if it is free again and again.
FairSpec == Spec /\ \A p \in Procs : WF_vars(Step(p)) /\ SF_vars(Lock(p))

-----------------------------------------------------------------------------
\* Type correctness of the store and of the processes.
TypeOK ==
  /\ proc \in [Procs -> [at : Places, pin : Commits, commit : Commits, tarball : Commits,
                          todo : SUBSET Files, inode : Inodes \cup {None},
                          found : Dirs, stash : Dirs]]
  /\ pkg \in Dirs /\ orphans \subseteq Dirs
  /\ archive \in Commits /\ remote \in Tarballs
  /\ lockFile \in Inodes \cup {None}
  /\ {kept, leftover, cleaning, torn} \subseteq BOOLEAN
  /\ faults \in 0..MaxFaults

\* The files of tarball t are all there with t's text; and nothing else is.
Holds(dir, t) == \A f \in FilesOf[t] : dir.files[f] = t
HoldsOnly(dir, t) == \A f \in Files : dir.files[f] = IF f \in FilesOf[t] THEN t ELSE None

Whole(dir) ==
  /\ dir.marker
  /\ IF dir.sidecar = NoSidecar THEN \E t \in Tarballs : Holds(dir, t)
     ELSE Holds(dir, dir.sidecar.tarball)

\* is_cached trusts the marker alone: whatever died when, a marked package has
\* every file of the tarball its sidecar names, and no other file unless some
\* fetch extracted over what an earlier one had left.
MarkedIsWhole ==
  IsCached =>
    /\ Whole(pkg)
    /\ ~leftover /\ pkg.sidecar # NoSidecar => HoldsOnly(pkg, pkg.sidecar.tarball)

\* Once installed, a whole copy is somewhere in the store until it is cleaned:
\* in place, set aside by a refresh, or orphaned by a refresh that died.
InstallSurvives ==
  kept => \E dir \in {pkg} \cup orphans \cup {proc[p].stash : p \in Procs} : Whole(dir)

\* The parts above that crashes, failed clean-ups and refreshes bear on, while
\* no clean is at work and none has torn the store (store.rs:687,704).
DiskSound == TypeOK /\ (~cleaning /\ ~torn => MarkedIsWhole /\ InstallSurvives)

\* What an install resolves to is what its packages.tdm pins, by whatever way
\* it got there: found in the cache, refreshed, fetched after a crash, or after
\* waiting for another install with another pin (provider.rs:737).
ResolvesToPin ==
  ~torn =>
    \A p \in Procs : At(p, "resolved") =>
      IsCached /\ PinHolds(proc[p].pin) /\ Holds(pkg, proc[p].pin)

\* An install that fails leaves the installed package it found: in place, or,
\* when the rollback fails too, under the name its message gives.  The one
\* exception is a refresh that was complete when the digest of its files could
\* not be computed: then the new package is in place, whole and as pinned
\* (provider.rs:751,783).
FailureKeepsInstall ==
  ~torn =>
    \A p \in Procs : At(p, "failed") /\ proc[p].found.marker =>
      \/ proc[p].found \in {pkg, proc[p].stash}
      \/ IsCached /\ PinHolds(proc[p].pin) /\ Holds(pkg, proc[p].pin)

\* An install that waits for the lock comes to an end, however many fail or die
\* holding it (store.rs:2421).
InstallsReturn == \A p \in Procs : At(p, "locking") ~> At(p, "idle") \/ ~Followed
=============================================================================
