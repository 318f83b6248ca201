------------------------- MODULE StoreInstallProofs -------------------------
(***************************************************************************)
(* Proofs about StoreInstall, for any number of installing processes, any  *)
(* tarballs and files, and any number of crashes, failed clean-ups and     *)
(* cache cleans.  Whoever holds the lock works alone, so the invariant     *)
(* relates its record to the package directory: where the install it found *)
(* is, and how far the fetch has come.                                     *)
(***************************************************************************)
EXTENDS StoreInstall, TLAPS

\* A directory that carries the marker is whole, with nothing else in it unless
\* some fetch extracted over leftovers.
Fine(dir, left) ==
  dir.marker =>
    /\ Whole(dir)
    /\ ~left /\ dir.sidecar # NoSidecar => HoldsOnly(dir, dir.sidecar.tarball)

Fetching == {"downloading", "hashing", "extracting", "verifying", "describing", "marking"}
Extracted == {"verifying", "describing", "marking"}

\* While process record r holds the lock and the package directory is dir:
\* the backup is the install that was found; ...
StashSound(r, dir, left) ==
  /\ r.at \in {"idle", "locking", "deciding", "staging"} => r.stash = NoDir
  /\ r.stash # NoDir => r.stash = r.found /\ r.stash.marker /\ Fine(r.stash, left)
  /\ r.at = "restoring" => r.stash # NoDir
\* ... that install is still in place, or set aside, but for a refresh that was
\* complete when it failed; ...
Pinned(r, dir) ==
  dir.marker /\ dir.sidecar # NoSidecar /\ dir.sidecar.tarball = r.pin /\ Holds(dir, r.pin)
FoundSound(r, dir) ==
  /\ r.at \in {"deciding", "staging"} => dir.marker = r.found.marker
  /\ r.at \in {"deciding", "staging"} /\ r.found.marker => dir = r.found
  /\ r.at = "failed" /\ r.found.marker => r.found \in {dir, r.stash} \/ Pinned(r, dir)
  /\ r.at \in Fetching \cup {"fetching", "undoing", "restoring"} =>
       (r.found.marker /\ ~dir.marker => r.stash = r.found)
\* ... a fetch fills a directory without the marker; ...
FetchSound(r, dir, left) ==
  /\ r.at = "staging" => dir.marker
  /\ r.at \in Fetching \cup {"undoing", "restoring"} => ~dir.marker
  /\ r.at \in {"downloading", "hashing"} /\ ~left => dir = NoDir
  /\ r.at \in Extracted \cup {"extracting"} => r.tarball \in Tarballs /\ r.tarball = r.pin
  /\ r.at = "extracting" =>
       /\ r.todo \subseteq FilesOf[r.tarball]
       /\ \A f \in FilesOf[r.tarball] \ r.todo : dir.files[f] = r.tarball
       /\ ~left => \A f \in Files : dir.files[f] = IF f \in FilesOf[r.tarball] \ r.todo
                                                   THEN r.tarball ELSE None
  /\ r.at \in Extracted => Holds(dir, r.tarball) /\ (~left => HoldsOnly(dir, r.tarball))
  /\ r.at = "marking" => dir.sidecar.tarball = r.tarball
\* ... and what is resolved is what is pinned.
PinSound(r, dir) ==
  /\ r.at = "fetching" /\ dir.marker =>
       dir.sidecar # NoSidecar /\ dir.sidecar.tarball = r.pin
  /\ r.at = "resolved" => Pinned(r, dir)

Sound(r, dir, left) ==
  StashSound(r, dir, left) /\ FoundSound(r, dir) /\ FetchSound(r, dir, left) /\ PinSound(r, dir)

\* The lock of acquire_install_lock keeps a second install out, ...
OneInstaller == \A p, q \in Procs : Locked(p) /\ Locked(q) => p = q
\* ... for whoever has opened the lock file has the inode that is at its path.
SameLock ==
  /\ \A p \in Procs : ~At(p, "idle") => lockFile # None /\ proc[p].inode = lockFile
  /\ OneInstaller

\* The store while no clean is at work, nor has torn it; ...
Intact ==
  /\ TypeOK /\ ~torn /\ ~cleaning /\ SameLock
  /\ \A p \in Procs : Sound(proc[p], pkg, leftover)
  /\ MarkedIsWhole /\ InstallSurvives

\* ... and otherwise: a clean that has met no install, or a torn store.
IInv == TypeOK /\ (~torn => Intact \/ (cleaning /\ ~Busy))

-----------------------------------------------------------------------------
(***************************************************************************)
(* Process records and package directories.                                *)
(***************************************************************************)
ProcStates == [at : Places, pin : Commits, commit : Commits, tarball : Commits,
               todo : SUBSET Files, inode : Inodes \cup {None},
               found : Dirs, stash : Dirs]

LEMMA Blank ==
  /\ NoDir \in Dirs /\ NoSidecar \in [tarball : Commits, commit : Commits]
  /\ NoProc \in ProcStates /\ NoProc.at = "idle" /\ NoProc.stash = NoDir
  /\ ~NoDir.marker /\ ~Whole(NoDir)
<1>1. NoSidecar \in [tarball : Commits, commit : Commits]
  BY DEF NoSidecar, Commits
<1>2. NoDir \in Dirs /\ ~NoDir.marker
  BY <1>1 DEF NoDir, Dirs, Commits
<1>3. NoProc \in ProcStates /\ NoProc.at = "idle" /\ NoProc.stash = NoDir
  BY <1>2, StoreInstallAssumption DEF NoProc, ProcStates, Places, Commits
<1>4. ~Whole(NoDir)
  BY <1>2 DEF Whole
<1> QED
  BY <1>1, <1>2, <1>3, <1>4

\* The record of a process that only moves on.
MovedTo(r, old, place) ==
  /\ r \in ProcStates
  /\ r.at = place /\ r.pin = old.pin /\ r.tarball = old.tarball /\ r.todo = old.todo
  /\ r.inode = old.inode /\ r.found = old.found /\ r.stash = old.stash

LEMMA GotoMoves ==
  ASSUME TypeOK, NEW p \in Procs, NEW place \in Places, Goto(p, place)
  PROVE  \E r : proc' = [proc EXCEPT ![p] = r] /\ MovedTo(r, proc[p], place)
<1> DEFINE r == [proc[p] EXCEPT !.at = place]
<1>1. proc[p] \in ProcStates
  BY DEF TypeOK, ProcStates
<1>2. MovedTo(r, proc[p], place)
  BY <1>1 DEF MovedTo, ProcStates
<1>3. proc' = [proc EXCEPT ![p] = r]
  BY DEF Goto
<1> QED
  BY <1>2, <1>3

\* What a removal leaves of a directory.
LEMMA RemainsOf ==
  ASSUME NEW dir \in Dirs, NEW d \in Remains(dir)
  PROVE  d \in Dirs /\ (~dir.marker => ~d.marker)
<1> PICK S \in SUBSET Files, sidecar \in {dir.sidecar, NoSidecar}, marker \in {dir.marker, FALSE} :
      d = [files |-> [f \in Files |-> IF f \in S THEN dir.files[f] ELSE None],
           sidecar |-> sidecar, marker |-> marker]
  BY DEF Remains
<1>1. [f \in Files |-> IF f \in S THEN dir.files[f] ELSE None] \in [Files -> Commits]
  BY DEF Dirs, Commits
<1>2. sidecar \in [tarball : Commits, commit : Commits] /\ marker \in BOOLEAN
  BY Blank DEF Dirs
<1> QED
  BY <1>1, <1>2 DEF Dirs

LEMMA RemovedPkg ==
  ASSUME TypeOK, RemovesPkg
  PROVE  /\ pkg' \in Dirs /\ (~pkg.marker => ~pkg'.marker)
         /\ faults' \in 0..MaxFaults /\ (faults' = faults \/ Fault)
BY RemainsOf, Blank, StoreInstallAssumption DEF TypeOK, RemovesPkg, Fault

\* What is fine stays fine when the history records one more leftover.
LEMMA FineStays ==
  ASSUME NEW dir, NEW l, NEW m, l => m, Fine(dir, l)
  PROVE  Fine(dir, m)
BY DEF Fine

\* A process outside the lock has nothing set aside, so the whole copy that
\* survives is in place, orphaned, or in the hands of the lock's holder.
LEMMA OutsideTheLock ==
  ASSUME Intact, NEW p \in Procs, Locked(p)
  PROVE  /\ \A q \in Procs : q # p => ~Locked(q) /\ proc[q].stash = NoDir
         /\ kept => Whole(pkg) \/ Whole(proc[p].stash) \/ \E d \in orphans : Whole(d)
<1>1. \A q \in Procs : q # p => ~Locked(q) /\ proc[q].stash = NoDir
  BY DEF Intact, SameLock, OneInstaller, Locked, Sound, StashSound
<1> QED
  BY <1>1, Blank DEF Intact, InstallSurvives

\* A step of the lock's holder keeps the invariant if it leaves a sound record
\* over a fine directory, and a whole copy if there was an install.
LEMMA HolderStep ==
  ASSUME Intact, NEW p \in Procs, Locked(p),
         NEW CONSTANT r \in ProcStates, NEW CONSTANT dir \in Dirs,
         r.at = "idle" \/ r.inode = proc[p].inode, r.at # "locking",
         proc' = [proc EXCEPT ![p] = r], pkg' = dir,
         Sound(r, dir, leftover'), Fine(dir, leftover'),
         kept' => Whole(dir) \/ Whole(r.stash) \/ \E d \in orphans' : Whole(d),
         orphans' \subseteq Dirs, archive' \in Commits,
         kept' \in BOOLEAN, leftover' \in BOOLEAN, faults' \in 0..MaxFaults,
         UNCHANGED <<lockFile, remote, cleaner>>
  PROVE  Intact'
<1>1. /\ proc'[p] = r /\ \A q \in Procs : q # p => proc'[q] = proc[q]
      /\ proc \in [Procs -> ProcStates]
  BY DEF Intact, TypeOK, ProcStates
<1>2. \A q \in Procs : q # p => ~Locked(q) /\ proc[q].stash = NoDir
  BY OutsideTheLock
<1>3. TypeOK'
  <2>1. proc' \in [Procs -> ProcStates]
    BY <1>1
  <2> QED
    BY <2>1 DEF Intact, TypeOK, ProcStates, cleaner
<1>4. SameLock'
  <2>1. \A q \in Procs : ~At(q, "idle")' => lockFile' # None /\ proc'[q].inode = lockFile'
    BY <1>1 DEF Intact, SameLock, At, Locked
  <2>2. OneInstaller'
    BY <1>1, <1>2 DEF OneInstaller, Locked
  <2> QED
    BY <2>1, <2>2 DEF SameLock
<1>5. \A q \in Procs : Sound(proc'[q], pkg', leftover')
  <2> TAKE q \in Procs
  <2>1. CASE q = p
    BY <1>1, <2>1
  <2>2. CASE q # p
    <3>1. proc'[q].at \in {"idle", "locking"} /\ proc'[q].stash = NoDir
      BY <1>1, <1>2, <2>2 DEF Locked
    <3> QED
      BY <3>1 DEF Sound, StashSound, FoundSound, FetchSound, PinSound, Fetching, Extracted
  <2> QED
    BY <2>1, <2>2
<1>6. MarkedIsWhole'
  BY DEF MarkedIsWhole, IsCached, Fine
<1>7. InstallSurvives'
  BY <1>1 DEF InstallSurvives
<1> QED
  BY <1>3, <1>4, <1>5, <1>6, <1>7 DEF Intact, cleaner
-----------------------------------------------------------------------------
(***************************************************************************)
(* One lemma per step of the lock's holder.                                *)
(***************************************************************************)
LEMMA DecideIntact ==
  ASSUME Intact, NEW p \in Procs, NEW pin \in Tarballs, NEW mode \in Modes,
         NEW sha \in {remote, None}, Decide(p, pin, mode, sha)
  PROVE  Intact'
<1>1. /\ proc[p] \in ProcStates /\ pkg \in Dirs /\ Locked(p) /\ proc[p].at = "deciding"
      /\ Sound(proc[p], pkg, leftover) /\ sha \in Commits /\ pin \in Commits
  BY DEF Intact, TypeOK, ProcStates, Decide, Here, At, Locked, Commits
<1> PICK place \in {"fetching", "staging", "failed"}, commit \in {None, sha} :
      /\ proc' = [proc EXCEPT ![p].at = place, ![p].pin = pin, ![p].commit = commit]
      /\ place = "staging" => pkg.marker
      /\ place = "fetching" /\ pkg.marker => PinHolds(pin)
  BY DEF Decide, IsCached
<1> DEFINE r == [proc[p] EXCEPT !.at = place, !.pin = pin, !.commit = commit]
<1>2. /\ r \in ProcStates /\ r.at = place /\ r.pin = pin
      /\ r.inode = proc[p].inode /\ r.found = proc[p].found /\ r.stash = proc[p].stash
  BY <1>1 DEF ProcStates, Places, Commits
<1>3. proc' = [proc EXCEPT ![p] = r]
  OBVIOUS
<1> HIDE DEF r
<1>4. Sound(r, pkg, leftover)
  <2>1. StashSound(r, pkg, leftover)
    BY <1>1, <1>2 DEF Sound, StashSound
  <2>2. FoundSound(r, pkg)
    BY <1>1, <1>2, Blank DEF Sound, FoundSound, StashSound, Fetching
  <2>3. FetchSound(r, pkg, leftover)
    BY <1>1, <1>2 DEF Sound, FetchSound, Fetching, Extracted
  <2>4. PinSound(r, pkg)
    BY <1>1, <1>2 DEF PinSound, PinHolds
  <2> QED
    BY <2>1, <2>2, <2>3, <2>4 DEF Sound
<1>5. UNCHANGED <<disk, remote, history, faults, cleaner>>
  BY DEF Decide
<1>6. Fine(pkg, leftover)
  BY DEF Intact, MarkedIsWhole, IsCached, Fine
<1>7. kept => Whole(pkg) \/ Whole(r.stash) \/ \E d \in orphans : Whole(d)
  BY <1>1, <1>2, OutsideTheLock
<1>8. /\ orphans \subseteq Dirs /\ archive \in Commits /\ kept \in BOOLEAN
      /\ leftover \in BOOLEAN /\ faults \in 0..MaxFaults
  BY DEF Intact, TypeOK
<1> QED
  BY <1>1, <1>2, <1>3, <1>4, <1>5, <1>6, <1>7, <1>8, HolderStep DEF disk, history

\* A step of the holder that changes no counter and no orphan.
LEMMA HolderMoves ==
  ASSUME Intact, NEW p \in Procs, Locked(p),
         NEW CONSTANT r \in ProcStates, NEW CONSTANT dir \in Dirs,
         r.inode = proc[p].inode, r.at # "locking",
         proc' = [proc EXCEPT ![p] = r], pkg' = dir,
         Sound(r, dir, leftover'), Fine(dir, leftover'),
         \/ Whole(dir)
         \/ kept' = kept /\ (Whole(pkg) => Whole(r.stash))
            /\ (Whole(proc[p].stash) => Whole(r.stash)),
         archive' \in Commits, leftover' \in BOOLEAN, kept' \in BOOLEAN,
         faults' = faults \/ Fault,
         UNCHANGED <<orphans, lockFile, remote, cleaner>>
  PROVE  Intact'
<1>1. kept' => Whole(dir) \/ Whole(r.stash) \/ \E d \in orphans' : Whole(d)
  BY OutsideTheLock
<1>2. orphans' \subseteq Dirs /\ faults' \in 0..MaxFaults
  BY StoreInstallAssumption DEF Intact, TypeOK, Fault
<1> QED
  BY <1>1, <1>2, HolderStep

LEMMA StageIntact ==
  ASSUME Intact, NEW p \in Procs, Stage(p)
  PROVE  Intact'
<1>1. /\ proc[p] \in ProcStates /\ pkg \in Dirs /\ Locked(p) /\ proc[p].at = "staging"
      /\ Sound(proc[p], pkg, leftover) /\ archive \in Commits
      /\ leftover \in BOOLEAN /\ kept \in BOOLEAN
  BY DEF Intact, TypeOK, ProcStates, Stage, Here, At, Locked
<1>2. UNCHANGED <<archive, orphans, lockFile, remote, kept, leftover, faults, cleaner>>
  BY DEF Stage, history
<1>3. Fine(pkg, leftover)
  BY DEF Intact, MarkedIsWhole, IsCached, Fine
<1>4. proc[p].stash = NoDir /\ proc[p].found = pkg /\ pkg.marker
  BY <1>1 DEF Sound, StashSound, FoundSound, FetchSound
<1>5. CASE proc' = [proc EXCEPT ![p].at = "fetching", ![p].stash = pkg] /\ pkg' = NoDir
  <2> DEFINE r == [proc[p] EXCEPT !.at = "fetching", !.stash = pkg]
  <2>1. /\ r \in ProcStates /\ r.at = "fetching" /\ r.inode = proc[p].inode
        /\ r.found = proc[p].found /\ r.stash = pkg
    BY <1>1 DEF ProcStates, Places
  <2>2. proc' = [proc EXCEPT ![p] = r]
    BY <1>5
  <2> HIDE DEF r
  <2>3. Sound(r, NoDir, leftover)
    BY <1>3, <1>4, <2>1, Blank
       DEF Sound, StashSound, FoundSound, FetchSound, PinSound, Fetching, Extracted
  <2>4. Fine(NoDir, leftover)
    BY Blank DEF Fine
  <2>5. (Whole(pkg) => Whole(r.stash)) /\ (Whole(proc[p].stash) => Whole(r.stash))
    BY <1>4, <2>1, Blank
  <2> QED
    BY <1>1, <1>2, <1>5, <2>1, <2>2, <2>3, <2>4, <2>5, Blank, HolderMoves
<1>6. CASE Goto(p, "failed") /\ UNCHANGED pkg
  <2> PICK r : proc' = [proc EXCEPT ![p] = r] /\ MovedTo(r, proc[p], "failed")
    BY <1>6, GotoMoves DEF Intact, Places
  <2>1. Sound(r, pkg, leftover)
    BY <1>4
       DEF MovedTo, Sound, StashSound, FoundSound, FetchSound, PinSound, Fetching, Extracted
  <2>2. Whole(pkg)
    BY <1>3, <1>4 DEF Fine
  <2> QED
    BY <1>1, <1>2, <1>3, <1>6, <2>1, <2>2, HolderMoves DEF MovedTo
<1> QED
  BY <1>5, <1>6 DEF Stage

\* A cached package that passed the pin, or an empty directory to fetch into.
LEMMA FetchBeginsIntact ==
  ASSUME Intact, NEW p \in Procs, FetchBegins(p)
  PROVE  Intact'
<1>1. /\ proc[p] \in ProcStates /\ pkg \in Dirs /\ Locked(p) /\ proc[p].at = "fetching"
      /\ Sound(proc[p], pkg, leftover) /\ archive \in Commits
      /\ leftover \in BOOLEAN /\ kept \in BOOLEAN /\ TypeOK
  BY DEF Intact, TypeOK, ProcStates, FetchBegins, Here, At, Locked
<1>2. /\ UNCHANGED <<pkg, orphans, lockFile, remote, kept, faults, cleaner>>
      /\ leftover' \in BOOLEAN /\ (leftover => leftover')
      /\ ~leftover' /\ ~pkg.marker => pkg = NoDir
  BY <1>1 DEF FetchBegins, IsCached
<1>3. Fine(pkg, leftover) /\ Fine(pkg, leftover')
  BY <1>2, FineStays DEF Intact, MarkedIsWhole, IsCached, Fine
<1>4. proc[p].stash # NoDir => Fine(proc[p].stash, leftover')
  BY <1>1, <1>2, FineStays DEF Sound, StashSound
<1>5. CASE pkg.marker
  <2>1. Goto(p, "resolved") /\ archive' = archive
    BY <1>5 DEF FetchBegins, IsCached
  <2> PICK r : proc' = [proc EXCEPT ![p] = r] /\ MovedTo(r, proc[p], "resolved")
    BY <1>1, <2>1, GotoMoves DEF Places
  <2>2. Whole(pkg) /\ Holds(pkg, r.pin)
    BY <1>1, <1>3, <1>5 DEF Fine, Whole, MovedTo, Sound, PinSound
  <2>3. Sound(r, pkg, leftover')
    <3>1. StashSound(r, pkg, leftover')
      BY <1>1, <1>4 DEF MovedTo, Sound, StashSound
    <3>2. PinSound(r, pkg)
      BY <1>1, <1>5, <2>2 DEF MovedTo, Sound, PinSound, Pinned
    <3> QED
      BY <3>1, <3>2 DEF MovedTo, Sound, FoundSound, FetchSound, Fetching, Extracted
  <2> QED
    BY <1>1, <1>2, <1>3, <2>1, <2>2, <2>3, HolderMoves DEF MovedTo
<1>6. CASE ~pkg.marker
  <2>1. Goto(p, "downloading") /\ archive' = None
    BY <1>6 DEF FetchBegins, IsCached
  <2> PICK r : proc' = [proc EXCEPT ![p] = r] /\ MovedTo(r, proc[p], "downloading")
    BY <1>1, <2>1, GotoMoves DEF Places
  <2>2. Sound(r, pkg, leftover')
    <3>1. StashSound(r, pkg, leftover')
      BY <1>1, <1>4 DEF MovedTo, Sound, StashSound
    <3>2. FoundSound(r, pkg)
      BY <1>1, <1>6 DEF MovedTo, Sound, FoundSound, Fetching
    <3>3. FetchSound(r, pkg, leftover')
      BY <1>2, <1>6 DEF MovedTo, FetchSound, Fetching, Extracted
    <3> QED
      BY <3>1, <3>2, <3>3 DEF MovedTo, Sound, PinSound
  <2>3. (Whole(pkg) => Whole(r.stash)) /\ (Whole(proc[p].stash) => Whole(r.stash))
    BY <1>6 DEF Whole, MovedTo
  <2> QED
    BY <1>1, <1>2, <1>3, <2>1, <2>2, <2>3, HolderMoves DEF MovedTo, Commits
<1> QED
  BY <1>5, <1>6

\* A step of a fetch that does not reach the marker keeps what was found where
\* it is.
LEMMA FetchMoves ==
  ASSUME Intact, NEW p \in Procs, proc[p].at \in Fetching,
         NEW CONSTANT r \in ProcStates, NEW CONSTANT dir \in Dirs,
         r.at \in Fetching \cup {"undoing"}, r.inode = proc[p].inode,
         r.found = proc[p].found, r.stash = proc[p].stash,
         ~dir.marker, FetchSound(r, dir, leftover),
         proc' = [proc EXCEPT ![p] = r], pkg' = dir, archive' \in Commits,
         faults' = faults \/ Fault,
         UNCHANGED <<orphans, lockFile, remote, history, cleaner>>
  PROVE  Intact'
<1>1. /\ Locked(p) /\ Sound(proc[p], pkg, leftover)
      /\ leftover \in BOOLEAN /\ kept \in BOOLEAN /\ ~pkg.marker
  BY DEF Intact, TypeOK, Locked, Fetching, Sound, FetchSound
<1>2. Sound(r, dir, leftover)
  <2>1. StashSound(r, dir, leftover)
    BY <1>1 DEF Sound, StashSound, Fetching
  <2>2. FoundSound(r, dir)
    BY <1>1 DEF Sound, FoundSound, Fetching
  <2>3. PinSound(r, dir)
    BY DEF PinSound, Fetching
  <2> QED
    BY <2>1, <2>2, <2>3 DEF Sound
<1>3. Fine(dir, leftover)
  BY DEF Fine
<1>4. r.at # "locking" /\ ~Whole(pkg)
  BY <1>1 DEF Fetching, Whole
<1>5. leftover' = leftover /\ kept' = kept
  BY DEF history
<1> QED
  BY <1>1, <1>2, <1>3, <1>4, <1>5, HolderMoves

\* A fetch that fails, with the package directory left or removed, or half removed.
LEMMA FetchFails ==
  ASSUME Intact, NEW p \in Procs, proc[p].at \in Fetching, Goto(p, "undoing"),
         UNCHANGED <<pkg, faults>> \/ RemovesPkg, archive' \in Commits,
         UNCHANGED <<orphans, lockFile, remote, history, cleaner>>
  PROVE  Intact'
<1>1. TypeOK /\ Sound(proc[p], pkg, leftover) /\ pkg \in Dirs /\ ~pkg.marker
  BY DEF Intact, TypeOK, Sound, FetchSound
<1> PICK r : proc' = [proc EXCEPT ![p] = r] /\ MovedTo(r, proc[p], "undoing")
  BY <1>1, GotoMoves DEF Places
<1>2. pkg' \in Dirs /\ ~pkg'.marker /\ (faults' = faults \/ Fault)
  BY <1>1, RemovedPkg
<1> PICK dir : dir = pkg'
  OBVIOUS
<1>3. FetchSound(r, dir, leftover)
  BY <1>2 DEF MovedTo, FetchSound, Fetching, Extracted
<1> QED
  BY <1>2, <1>3, FetchMoves DEF MovedTo

LEMMA DownloadIntact ==
  ASSUME Intact, NEW p \in Procs, Download(p)
  PROVE  Intact'
<1>1. /\ TypeOK /\ Sound(proc[p], pkg, leftover) /\ pkg \in Dirs /\ ~pkg.marker
      /\ proc[p].at = "downloading" /\ proc[p].at \in Fetching
  BY DEF Intact, TypeOK, Download, Here, At, Fetching, Sound, FetchSound
<1>2. UNCHANGED <<pkg, orphans, lockFile, remote, history, faults, cleaner>>
      /\ archive' \in Commits
  BY <1>1 DEF Download, TypeOK, Commits
<1>3. CASE Goto(p, "undoing")
  BY <1>1, <1>2, <1>3, FetchFails
<1>4. CASE Goto(p, "hashing")
  <2> PICK r : proc' = [proc EXCEPT ![p] = r] /\ MovedTo(r, proc[p], "hashing")
    BY <1>1, <1>4, GotoMoves DEF Places
  <2>1. FetchSound(r, pkg, leftover)
    BY <1>1 DEF MovedTo, Sound, FetchSound, Fetching, Extracted
  <2> QED
    BY <1>1, <1>2, <2>1, FetchMoves DEF MovedTo, Fetching
<1> QED
  BY <1>3, <1>4 DEF Download

\* Extraction starts with every file of the tarball to do.
LEMMA HashIntact ==
  ASSUME Intact, NEW p \in Procs, Hash(p)
  PROVE  Intact'
<1>1. /\ TypeOK /\ Sound(proc[p], pkg, leftover) /\ pkg \in Dirs /\ ~pkg.marker
      /\ proc[p].at = "hashing" /\ proc[p].at \in Fetching /\ proc[p] \in ProcStates
  BY DEF Intact, TypeOK, ProcStates, Hash, Here, At, Fetching, Sound, FetchSound
<1>2. UNCHANGED <<orphans, lockFile, remote, history, cleaner>>
  BY DEF Hash
<1>3. CASE Scrap(p)
  BY <1>1, <1>2, <1>3, FetchFails DEF Scrap, Commits
<1>5. CASE archive' = None /\ Goto(p, "undoing") /\ UNCHANGED <<pkg, faults>>
  BY <1>1, <1>2, <1>5, FetchFails DEF Commits
<1>4. CASE /\ archive # None /\ archive = proc[p].pin
           /\ proc' = [proc EXCEPT ![p].at = "extracting", ![p].tarball = archive,
                                   ![p].todo = FilesOf[archive]]
           /\ UNCHANGED <<pkg, archive, faults>>
  <2>1. archive \in Tarballs /\ archive \in Commits /\ FilesOf[archive] \in SUBSET Files
    BY <1>1, <1>4, StoreInstallAssumption DEF TypeOK, Commits
  <2> DEFINE r == [proc[p] EXCEPT !.at = "extracting", !.tarball = archive,
                                  !.todo = FilesOf[archive]]
  <2>2. /\ r \in ProcStates /\ r.at = "extracting" /\ r.pin = proc[p].pin
        /\ r.tarball = archive /\ r.todo = FilesOf[archive]
        /\ r.inode = proc[p].inode /\ r.found = proc[p].found /\ r.stash = proc[p].stash
    BY <1>1, <2>1 DEF ProcStates, Places
  <2>3. proc' = [proc EXCEPT ![p] = r]
    BY <1>4
  <2> HIDE DEF r
  <2>4. ~leftover => \A f \in Files : pkg.files[f] = None
    BY <1>1 DEF Sound, FetchSound, NoDir
  <2>5. FetchSound(r, pkg, leftover)
    BY <1>1, <1>4, <2>1, <2>2, <2>4 DEF FetchSound, Fetching, Extracted
  <2> QED
    BY <1>1, <1>2, <1>4, <2>1, <2>2, <2>3, <2>5, FetchMoves DEF Fetching
<1> QED
  BY <1>3, <1>4, <1>5 DEF Hash

\* One file is written, with the text of the tarball; after the last one the
\* directory holds them all.
LEMMA ExtractIntact ==
  ASSUME Intact, NEW p \in Procs, Extract(p)
  PROVE  Intact'
<1>1. /\ TypeOK /\ Sound(proc[p], pkg, leftover) /\ pkg \in Dirs /\ ~pkg.marker
      /\ proc[p].at = "extracting" /\ proc[p].at \in Fetching /\ proc[p] \in ProcStates
      /\ archive \in Commits
  BY DEF Intact, TypeOK, ProcStates, Extract, Here, At, Fetching, Sound, FetchSound
<1>2. UNCHANGED <<orphans, lockFile, remote, history, cleaner>>
  BY DEF Extract
<1> PICK t : t = proc[p].tarball
  OBVIOUS
<1>3. /\ t \in Tarballs /\ t = proc[p].pin /\ t \in Commits /\ FilesOf[t] \subseteq Files
      /\ \A f \in FilesOf[t] \ proc[p].todo : pkg.files[f] = t
      /\ proc[p].todo \subseteq FilesOf[t]
  BY <1>1, StoreInstallAssumption DEF Sound, FetchSound, Commits
<1>4. ~leftover => \A f \in Files : pkg.files[f] = IF f \in FilesOf[t] \ proc[p].todo
                                                  THEN t ELSE None
  BY <1>1 DEF Sound, FetchSound
<1>5. CASE Scrap(p)
  BY <1>1, <1>2, <1>5, FetchFails DEF Scrap, Commits
<1>6. CASE \E f \in proc[p].todo :
             /\ pkg' = [pkg EXCEPT !.files[f] = t]
             /\ proc' = [proc EXCEPT ![p].todo = @ \ {f}]
             /\ UNCHANGED <<archive, faults>>
  <2> PICK f \in proc[p].todo :
             /\ pkg' = [pkg EXCEPT !.files[f] = t]
             /\ proc' = [proc EXCEPT ![p].todo = @ \ {f}]
             /\ UNCHANGED <<archive, faults>>
    BY <1>6
  <2> DEFINE r == [proc[p] EXCEPT !.todo = @ \ {f}]
             dir == [pkg EXCEPT !.files[f] = t]
  <2>1. /\ r \in ProcStates /\ r.at = "extracting" /\ r.pin = proc[p].pin
        /\ r.tarball = t /\ r.todo = proc[p].todo \ {f}
        /\ r.inode = proc[p].inode /\ r.found = proc[p].found /\ r.stash = proc[p].stash
    BY <1>1 DEF ProcStates
  <2>2. /\ dir \in Dirs /\ ~dir.marker /\ f \in Files
        /\ dir.files[f] = t /\ \A g \in Files : g # f => dir.files[g] = pkg.files[g]
    BY <1>1, <1>3 DEF Dirs, ProcStates
  <2>3. proc' = [proc EXCEPT ![p] = r] /\ pkg' = dir
    OBVIOUS
  <2> HIDE DEF r, dir
  <2>4. \A g \in FilesOf[t] \ r.todo : dir.files[g] = t
    BY <1>3, <2>1, <2>2
  <2>5. ASSUME f \in FilesOf[t], ~leftover
        PROVE  \A g \in Files : dir.files[g] = IF g \in FilesOf[t] \ r.todo THEN t ELSE None
    BY <1>4, <2>1, <2>2, <2>5
  <2>6. FetchSound(r, dir, leftover)
    BY <1>1, <1>3, <2>1, <2>2, <2>4, <2>5 DEF FetchSound, Fetching, Extracted
  <2> QED
    BY <1>1, <1>2, <2>1, <2>2, <2>3, <2>6, FetchMoves DEF Fetching
<1>7. CASE proc[p].todo = {} /\ archive' = None /\ Goto(p, "verifying")
           /\ UNCHANGED <<pkg, faults>>
  <2> PICK r : proc' = [proc EXCEPT ![p] = r] /\ MovedTo(r, proc[p], "verifying")
    BY <1>1, <1>7, GotoMoves DEF Places
  <2>1. Holds(pkg, t) /\ (~leftover => HoldsOnly(pkg, t))
    BY <1>3, <1>4, <1>7 DEF Holds, HoldsOnly
  <2>2. FetchSound(r, pkg, leftover)
    BY <1>1, <1>3, <2>1 DEF MovedTo, FetchSound, Fetching, Extracted
  <2> QED
    BY <1>1, <1>2, <1>7, <2>2, FetchMoves DEF MovedTo, Fetching, Commits
<1> QED
  BY <1>5, <1>6, <1>7 DEF Extract

LEMMA VerifyIntact ==
  ASSUME Intact, NEW p \in Procs, Verify(p)
  PROVE  Intact'
<1>1. /\ TypeOK /\ Sound(proc[p], pkg, leftover) /\ pkg \in Dirs /\ ~pkg.marker
      /\ proc[p].at = "verifying" /\ proc[p].at \in Fetching /\ archive \in Commits
  BY DEF Intact, TypeOK, Verify, Here, At, Fetching, Sound, FetchSound
<1>2. UNCHANGED <<archive, orphans, lockFile, remote, history, cleaner>>
  BY DEF Verify
<1>3. CASE Goto(p, "undoing") /\ RemovesPkg
  BY <1>1, <1>2, <1>3, FetchFails
<1>4. CASE Goto(p, "describing") /\ UNCHANGED <<pkg, faults>>
  <2> PICK r : proc' = [proc EXCEPT ![p] = r] /\ MovedTo(r, proc[p], "describing")
    BY <1>1, <1>4, GotoMoves DEF Places
  <2>1. FetchSound(r, pkg, leftover)
    BY <1>1 DEF MovedTo, Sound, FetchSound, Fetching, Extracted
  <2> QED
    BY <1>1, <1>2, <1>4, <2>1, FetchMoves DEF MovedTo, Fetching
<1> QED
  BY <1>3, <1>4 DEF Verify

\* The sidecar names the tarball whose files are there.
LEMMA DescribeIntact ==
  ASSUME Intact, NEW p \in Procs, Describe(p)
  PROVE  Intact'
<1>1. /\ TypeOK /\ Sound(proc[p], pkg, leftover) /\ pkg \in Dirs /\ ~pkg.marker
      /\ proc[p].at = "describing" /\ proc[p].at \in Fetching /\ archive \in Commits
      /\ proc[p] \in ProcStates
  BY DEF Intact, TypeOK, ProcStates, Describe, Here, At, Fetching, Sound, FetchSound
<1>2. UNCHANGED <<archive, orphans, lockFile, remote, history, cleaner>>
  BY DEF Describe
<1>3. CASE Goto(p, "undoing") /\ RemovesPkg
  BY <1>1, <1>2, <1>3, FetchFails
<1>4. CASE /\ pkg' = [pkg EXCEPT !.sidecar = [tarball |-> proc[p].tarball,
                                             commit |-> proc[p].commit]]
           /\ Goto(p, "marking") /\ UNCHANGED faults
  <2> PICK r : proc' = [proc EXCEPT ![p] = r] /\ MovedTo(r, proc[p], "marking")
    BY <1>1, <1>4, GotoMoves DEF Places
  <2> DEFINE dir == [pkg EXCEPT !.sidecar = [tarball |-> proc[p].tarball,
                                             commit |-> proc[p].commit]]
  <2>1. /\ dir \in Dirs /\ ~dir.marker /\ dir.files = pkg.files
        /\ dir.sidecar.tarball = proc[p].tarball
    BY <1>1 DEF Dirs, ProcStates
  <2>2. pkg' = dir
    BY <1>4
  <2> HIDE DEF dir
  <2>3. FetchSound(r, dir, leftover)
    BY <1>1, <2>1
       DEF MovedTo, Sound, FetchSound, Fetching, Extracted, Holds, HoldsOnly
  <2> QED
    BY <1>1, <1>2, <1>4, <2>1, <2>2, <2>3, FetchMoves DEF MovedTo, Fetching
<1> QED
  BY <1>3, <1>4 DEF Describe

\* The marker goes to a directory that is whole, described and pinned.
LEMMA MarkIntact ==
  ASSUME Intact, NEW p \in Procs, Mark(p)
  PROVE  Intact'
<1>1. /\ TypeOK /\ Sound(proc[p], pkg, leftover) /\ pkg \in Dirs /\ ~pkg.marker
      /\ proc[p].at = "marking" /\ proc[p].at \in Fetching /\ archive \in Commits
      /\ leftover \in BOOLEAN /\ Locked(p)
  BY DEF Intact, TypeOK, Mark, Here, At, Fetching, Sound, FetchSound, Locked
<1>2. UNCHANGED <<archive, orphans, lockFile, remote, leftover, faults, cleaner>>
  BY DEF Mark
<1>3. CASE Goto(p, "undoing") /\ UNCHANGED <<pkg, kept>>
  BY <1>1, <1>2, <1>3, FetchFails DEF history
<1>4. CASE pkg' = [pkg EXCEPT !.marker = TRUE] /\ kept' = TRUE /\ Goto(p, "resolved")
  <2> PICK r : proc' = [proc EXCEPT ![p] = r] /\ MovedTo(r, proc[p], "resolved")
    BY <1>1, <1>4, GotoMoves DEF Places
  <2> DEFINE dir == [pkg EXCEPT !.marker = TRUE]
  <2>1. /\ dir \in Dirs /\ dir.marker /\ dir.files = pkg.files /\ dir.sidecar = pkg.sidecar
    BY <1>1 DEF Dirs
  <2>2. pkg' = dir
    BY <1>4
  <2> HIDE DEF dir
  <2>3. /\ r.tarball \in Tarballs /\ r.tarball = r.pin /\ dir.sidecar.tarball = r.tarball
        /\ Holds(dir, r.tarball) /\ (~leftover => HoldsOnly(dir, r.tarball))
    BY <1>1, <2>1 DEF MovedTo, Sound, FetchSound, Extracted, Holds, HoldsOnly
  <2>4. dir.sidecar # NoSidecar
    BY <2>3, StoreInstallAssumption DEF NoSidecar
  <2>5. Whole(dir) /\ Fine(dir, leftover)
    BY <2>1, <2>3, <2>4 DEF Whole, Fine
  <2>6. Sound(r, dir, leftover)
    <3>1. StashSound(r, dir, leftover)
      BY <1>1 DEF MovedTo, Sound, StashSound
    <3>2. PinSound(r, dir)
      BY <2>1, <2>3, <2>4 DEF MovedTo, PinSound, Pinned
    <3> QED
      BY <3>1, <3>2 DEF MovedTo, Sound, FoundSound, FetchSound, Fetching, Extracted
  <2> QED
    BY <1>1, <1>2, <1>4, <2>1, <2>2, <2>5, <2>6, HolderMoves DEF MovedTo
<1> QED
  BY <1>3, <1>4 DEF Mark

\* The holder lets go of the lock; a backup it leaves is an orphan.
LEMMA LeavesIntact ==
  ASSUME Intact, NEW p \in Procs, Locked(p), Leaves(p), faults' = faults \/ Fault
  PROVE  Intact'
<1>1. /\ pkg \in Dirs /\ orphans \subseteq Dirs /\ archive \in Commits
      /\ kept \in BOOLEAN /\ leftover \in BOOLEAN /\ faults \in 0..MaxFaults
      /\ proc[p].stash \in Dirs
  BY DEF Intact, TypeOK
<1>2. /\ orphans' \subseteq Dirs /\ faults' \in 0..MaxFaults
      /\ proc' = [proc EXCEPT ![p] = NoProc]
      /\ UNCHANGED <<pkg, archive, lockFile, remote, history, cleaner>>
  BY <1>1, StoreInstallAssumption DEF Leaves, Fault
<1>3. Fine(pkg, leftover)
  BY DEF Intact, MarkedIsWhole, IsCached, Fine
<1>4. Sound(NoProc, pkg, leftover)
  BY Blank DEF Sound, StashSound, FoundSound, FetchSound, PinSound, Fetching, Extracted
<1>5. kept => Whole(pkg) \/ \E d \in orphans' : Whole(d)
  BY OutsideTheLock, Blank DEF Leaves
<1> QED
  BY <1>1, <1>2, <1>3, <1>4, <1>5, Blank, HolderStep DEF history

\* The backup is dropped, or becomes an orphan, when the new package is in place;
\* its digest is the answer, or fails.
LEMMA CommitIntact ==
  ASSUME Intact, NEW p \in Procs, Commit(p)
  PROVE  Intact'
<1>1. /\ proc[p].at = "resolved" /\ Locked(p) /\ Sound(proc[p], pkg, leftover)
      /\ proc[p] \in ProcStates /\ pkg \in Dirs /\ orphans \subseteq Dirs
      /\ archive \in Commits /\ kept \in BOOLEAN /\ leftover \in BOOLEAN
      /\ faults \in 0..MaxFaults /\ proc[p].stash \in Dirs
  BY DEF Intact, TypeOK, ProcStates, Commit, Here, At, Locked
<1>2. Whole(pkg) /\ Fine(pkg, leftover)
  BY <1>1 DEF Intact, MarkedIsWhole, IsCached, Sound, PinSound, Pinned, Fine
<1>3. /\ orphans' \subseteq Dirs /\ faults' \in 0..MaxFaults
      /\ UNCHANGED <<pkg, archive, lockFile, remote, history, cleaner>>
  BY <1>1, StoreInstallAssumption DEF Commit, Fault
<1>4. CASE proc' = [proc EXCEPT ![p] = NoProc]
  <2>1. Sound(NoProc, pkg, leftover)
    BY Blank DEF Sound, StashSound, FoundSound, FetchSound, PinSound, Fetching, Extracted
  <2> QED
    BY <1>1, <1>2, <1>3, <1>4, <2>1, Blank, HolderStep DEF history
<1>5. CASE proc' = [proc EXCEPT ![p].at = "failed", ![p].stash = NoDir]
  <2> DEFINE r == [proc[p] EXCEPT !.at = "failed", !.stash = NoDir]
  <2>1. /\ r \in ProcStates /\ r.at = "failed" /\ r.inode = proc[p].inode
        /\ r.pin = proc[p].pin /\ r.stash = NoDir
    BY <1>1, Blank DEF ProcStates, Places
  <2>2. proc' = [proc EXCEPT ![p] = r]
    BY <1>5
  <2> HIDE DEF r
  <2>3. Sound(r, pkg, leftover)
    <3>1. Pinned(r, pkg)
      BY <1>1, <2>1 DEF Sound, PinSound, Pinned
    <3> QED
      BY <2>1, <3>1
         DEF Sound, StashSound, FoundSound, FetchSound, PinSound, Fetching, Extracted
  <2> QED
    BY <1>1, <1>2, <1>3, <2>1, <2>2, <2>3, HolderStep DEF history
<1> QED
  BY <1>4, <1>5 DEF Commit

LEMMA GiveUpIntact ==
  ASSUME Intact, NEW p \in Procs, GiveUp(p)
  PROVE  Intact'
<1>1. Locked(p)
  BY DEF GiveUp, Here, At, Locked
<1> QED
  BY <1>1, LeavesIntact DEF GiveUp

\* A rollback that fails keeps the backup, which is the install that was found.
LEMMA RollbackFails ==
  ASSUME Intact, NEW p \in Procs, proc[p].at \in {"undoing", "restoring"},
         proc[p].stash # NoDir \/ UNCHANGED pkg,
         Goto(p, "failed"), UNCHANGED pkg \/ pkg' \in Remains(pkg), faults' = faults \/ Fault,
         UNCHANGED <<archive, orphans, lockFile, remote, history, cleaner>>
  PROVE  Intact'
<1>1. /\ TypeOK /\ Sound(proc[p], pkg, leftover) /\ pkg \in Dirs /\ ~pkg.marker
      /\ Locked(p) /\ archive \in Commits /\ leftover \in BOOLEAN /\ kept \in BOOLEAN
  BY DEF Intact, TypeOK, Locked, Sound, FetchSound
<1> PICK r : proc' = [proc EXCEPT ![p] = r] /\ MovedTo(r, proc[p], "failed")
  BY <1>1, GotoMoves DEF Places
<1>2. pkg' \in Dirs /\ ~pkg'.marker
  BY <1>1, RemainsOf
<1> PICK dir : dir = pkg'
  OBVIOUS
<1>3. Sound(r, dir, leftover)
  <2>1. StashSound(r, dir, leftover)
    BY <1>1 DEF MovedTo, Sound, StashSound
  <2>2. FoundSound(r, dir)
    BY <1>1 DEF MovedTo, Sound, FoundSound
  <2> QED
    BY <2>1, <2>2 DEF MovedTo, Sound, FetchSound, PinSound, Fetching, Extracted
<1>4. Fine(dir, leftover) /\ ~Whole(pkg)
  BY <1>1, <1>2 DEF Fine, Whole
<1>5. (Whole(pkg) => Whole(r.stash)) /\ (Whole(proc[p].stash) => Whole(r.stash))
  BY <1>4 DEF MovedTo
<1> QED
  BY <1>1, <1>2, <1>3, <1>4, <1>5, HolderMoves DEF MovedTo, history

LEMMA UndoIntact ==
  ASSUME Intact, NEW p \in Procs, Undo(p)
  PROVE  Intact'
<1>1. /\ TypeOK /\ Sound(proc[p], pkg, leftover) /\ pkg \in Dirs /\ ~pkg.marker
      /\ proc[p].at = "undoing" /\ Locked(p) /\ archive \in Commits
      /\ leftover \in BOOLEAN /\ kept \in BOOLEAN
  BY DEF Intact, TypeOK, Undo, Here, At, Locked, Sound, FetchSound
<1>2. UNCHANGED <<archive, orphans, lockFile, remote, history, cleaner>>
  BY DEF Undo
<1>3. CASE proc[p].stash = NoDir /\ Goto(p, "failed") /\ UNCHANGED <<pkg, faults>>
  BY <1>1, <1>2, <1>3, RollbackFails
<1>4. CASE proc[p].stash # NoDir /\ Goto(p, "failed") /\ pkg' \in Remains(pkg) /\ Fault
  BY <1>1, <1>2, <1>4, RollbackFails
<1>5. CASE /\ proc[p].stash # NoDir
           /\ Goto(p, "restoring") /\ pkg' = NoDir /\ UNCHANGED faults
  <2> PICK r : proc' = [proc EXCEPT ![p] = r] /\ MovedTo(r, proc[p], "restoring")
    BY <1>1, <1>5, GotoMoves DEF Places
  <2>1. Sound(r, NoDir, leftover)
    <3>1. StashSound(r, NoDir, leftover) /\ FoundSound(r, NoDir)
      BY <1>1, <1>5 DEF MovedTo, Sound, StashSound, FoundSound, Fetching
    <3>2. FetchSound(r, NoDir, leftover) /\ PinSound(r, NoDir)
      BY Blank DEF MovedTo, FetchSound, PinSound, Fetching, Extracted
    <3> QED
      BY <3>1, <3>2 DEF Sound
  <2>2. Fine(NoDir, leftover) /\ ~Whole(pkg) /\ NoDir \in Dirs
    BY <1>1, Blank DEF Fine, Whole
  <2> QED
    BY <1>1, <1>2, <1>5, <2>1, <2>2, HolderMoves DEF MovedTo, history
<1> QED
  BY <1>3, <1>4, <1>5 DEF Undo

LEMMA RestoreIntact ==
  ASSUME Intact, NEW p \in Procs, Restore(p)
  PROVE  Intact'
<1>1. /\ Sound(proc[p], pkg, leftover) /\ ~pkg.marker /\ proc[p] \in ProcStates
      /\ proc[p].at = "restoring" /\ Locked(p) /\ archive \in Commits
      /\ leftover \in BOOLEAN /\ kept \in BOOLEAN
  BY DEF Intact, TypeOK, ProcStates, Restore, Here, At, Locked, Sound, FetchSound
<1>2. UNCHANGED <<archive, orphans, lockFile, remote, history, cleaner>>
  BY DEF Restore
<1>3. CASE /\ pkg' = proc[p].stash
           /\ proc' = [proc EXCEPT ![p].at = "failed", ![p].stash = NoDir]
           /\ UNCHANGED faults
  <2> DEFINE r == [proc[p] EXCEPT !.at = "failed", !.stash = NoDir]
  <2>1. /\ r \in ProcStates /\ r.at = "failed" /\ r.inode = proc[p].inode
        /\ r.found = proc[p].found /\ r.stash = NoDir
    BY <1>1, Blank DEF ProcStates, Places
  <2>2. proc' = [proc EXCEPT ![p] = r]
    BY <1>3
  <2> HIDE DEF r
  <2> PICK dir : dir = proc[p].stash
    OBVIOUS
  <2>3. dir \in Dirs /\ dir = r.found /\ dir.marker /\ Fine(dir, leftover)
    BY <1>1, <2>1 DEF ProcStates, Sound, StashSound, FetchSound
  <2>4. Sound(r, dir, leftover)
    BY <2>1, <2>3 DEF Sound, StashSound, FoundSound, FetchSound, PinSound,
                      Fetching, Extracted
  <2>5. Whole(dir)
    BY <2>3 DEF Fine
  <2> QED
    BY <1>1, <1>2, <1>3, <2>1, <2>2, <2>3, <2>4, <2>5, HolderMoves DEF history
<1>4. CASE Goto(p, "failed") /\ UNCHANGED pkg /\ (faults' = faults \/ Fault)
  BY <1>1, <1>2, <1>4, RollbackFails
<1> QED
  BY <1>3, <1>4 DEF Restore
-----------------------------------------------------------------------------
(***************************************************************************)
(* Steps outside the lock.                                                 *)
(***************************************************************************)
\* A process that does not hold the lock changes its own record only.
LEMMA OutsideStep ==
  ASSUME Intact, NEW p \in Procs, ~Locked(p), NEW CONSTANT r \in ProcStates,
         proc' = [proc EXCEPT ![p] = r], r.stash = NoDir,
         Sound(r, pkg, leftover), SameLock',
         lockFile' \in Inodes \cup {None}, faults' \in 0..MaxFaults,
         UNCHANGED <<pkg, archive, orphans, remote, history, cleaner>>
  PROVE  Intact'
<1>1. /\ proc'[p] = r /\ \A q \in Procs : q # p => proc'[q] = proc[q]
      /\ proc \in [Procs -> ProcStates] /\ proc[p].stash = NoDir
  BY DEF Intact, TypeOK, ProcStates, Locked, Sound, StashSound
<1>2. TypeOK'
  <2>1. proc' \in [Procs -> ProcStates]
    BY <1>1
  <2> QED
    BY <2>1 DEF Intact, TypeOK, ProcStates, history, cleaner
<1>3. \A q \in Procs : Sound(proc'[q], pkg', leftover')
  BY <1>1 DEF Intact, history
<1>4. MarkedIsWhole' /\ InstallSurvives'
  <2>1. {proc'[q].stash : q \in Procs} = {proc[q].stash : q \in Procs}
    BY <1>1
  <2> QED
    BY <2>1 DEF Intact, MarkedIsWhole, InstallSurvives, IsCached, history
<1> QED
  BY <1>2, <1>3, <1>4 DEF Intact, cleaner

LEMMA OpenIntact ==
  ASSUME Intact, NEW p \in Procs, Open(p)
  PROVE  Intact'
<1>1. /\ proc[p].at = "idle" /\ ~Locked(p) /\ proc \in [Procs -> ProcStates]
      /\ lockFile \in Inodes \cup {None} /\ ~torn /\ ~cleaning
      /\ faults \in 0..MaxFaults
  BY DEF Intact, TypeOK, ProcStates, Open, Here, At, Locked
<1>2. /\ lockFile' \in Inodes \cup {None} /\ lockFile' # None
      /\ lockFile # None => lockFile' = lockFile
      /\ UNCHANGED <<pkg, archive, orphans, remote, history, faults, cleaner>>
  <2>1. NotOpen # {} => (CHOOSE i \in NotOpen : TRUE) \in Inodes
    BY DEF NotOpen
  <2>2. torn' = torn
    BY <1>1 DEF Open, Intact, TypeOK
  <2> QED
    BY <1>1, <2>1, <2>2, StoreInstallAssumption DEF Open, cleaner
<1> PICK i : i = lockFile'
  OBVIOUS
<1> DEFINE r == [NoProc EXCEPT !.at = "locking", !.inode = i]
<1>3. /\ r \in ProcStates /\ r.at = "locking" /\ r.inode = i /\ r.stash = NoDir
  BY <1>2, Blank DEF ProcStates, Places
<1>4. proc' = [proc EXCEPT ![p] = r]
  BY DEF Open
<1> HIDE DEF r
<1>5. SameLock'
  <2>1. proc'[p] = r /\ \A q \in Procs : q # p => proc'[q] = proc[q]
    BY <1>1, <1>4
  <2>2. \A q \in Procs : ~At(q, "idle")' => lockFile' # None /\ proc'[q].inode = lockFile'
    BY <1>2, <1>3, <2>1 DEF Intact, SameLock, At
  <2>3. OneInstaller'
    BY <1>3, <2>1 DEF Intact, SameLock, OneInstaller, Locked
  <2> QED
    BY <2>2, <2>3 DEF SameLock
<1>6. Sound(r, pkg, leftover)
  BY <1>3 DEF Sound, StashSound, FoundSound, FetchSound, PinSound, Fetching, Extracted
<1> QED
  BY <1>1, <1>2, <1>3, <1>4, <1>5, <1>6, OutsideStep

\* flock succeeds only when no process holds the one inode they all have open.
LEMMA LockIntact ==
  ASSUME Intact, NEW p \in Procs, Lock(p)
  PROVE  Intact'
<1>1. /\ proc[p].at = "locking" /\ ~Locked(p) /\ proc \in [Procs -> ProcStates]
      /\ lockFile \in Inodes \cup {None} /\ faults \in 0..MaxFaults /\ pkg \in Dirs
      /\ proc[p].stash = NoDir
  BY DEF Intact, TypeOK, ProcStates, Lock, Here, At, Locked, Sound, StashSound
<1>2. UNCHANGED <<disk, remote, history, faults, cleaner>>
  BY DEF Lock
<1>3. \A q \in Procs : ~Locked(q)
  BY <1>1 DEF Intact, SameLock, Here, At, Lock, LockIsFree, Locked
<1> DEFINE x == IF IsCached THEN pkg ELSE NoDir
           r == [proc[p] EXCEPT !.at = "deciding", !.found = x]
<1>4. x \in Dirs /\ x.marker = pkg.marker /\ (x.marker => pkg = x)
  BY <1>1, Blank DEF IsCached, Dirs
<1>5. proc' = [proc EXCEPT ![p] = r]
  BY DEF Lock
<1> HIDE DEF x
<1>6. /\ r \in ProcStates /\ r.at = "deciding" /\ r.inode = proc[p].inode
      /\ r.found = x /\ r.stash = NoDir
  BY <1>1, <1>4 DEF ProcStates, Places
<1> HIDE DEF r
<1>7. SameLock'
  <2>1. proc'[p] = r /\ \A q \in Procs : q # p => proc'[q] = proc[q]
    BY <1>1, <1>5
  <2>2. \A q \in Procs : ~At(q, "idle")' => lockFile' # None /\ proc'[q].inode = lockFile'
    BY <1>1, <1>2, <1>6, <2>1 DEF Intact, SameLock, At, disk
  <2>3. OneInstaller'
    BY <1>3, <2>1 DEF OneInstaller, Locked
  <2> QED
    BY <2>2, <2>3 DEF SameLock
<1>8. Sound(r, pkg, leftover)
  BY <1>4, <1>6, Blank
     DEF Sound, StashSound, FoundSound, FetchSound, PinSound, Fetching, Extracted
<1> QED
  BY <1>1, <1>2, <1>5, <1>6, <1>7, <1>8, OutsideStep DEF disk

\* The lock of a dead process is free, its backup an orphan.
LEMMA CrashIntact ==
  ASSUME Intact, NEW p \in Procs, Crash(p)
  PROVE  Intact'
<1>1. CASE Locked(p)
  BY <1>1, LeavesIntact DEF Crash
<1>2. CASE ~Locked(p)
  <2>1. proc[p].stash = NoDir /\ proc \in [Procs -> ProcStates]
    BY <1>2 DEF Intact, TypeOK, ProcStates, Locked, Sound, StashSound
  <2>2. /\ orphans' = orphans /\ faults' \in 0..MaxFaults
        /\ proc' = [proc EXCEPT ![p] = NoProc]
        /\ UNCHANGED <<pkg, archive, lockFile, remote, history, cleaner>>
        /\ lockFile \in Inodes \cup {None}
    BY <2>1, StoreInstallAssumption DEF Crash, Leaves, Fault, Intact, TypeOK
  <2>3. SameLock'
    <3>1. proc'[p] = NoProc /\ \A q \in Procs : q # p => proc'[q] = proc[q]
      BY <2>1, <2>2
    <3> QED
      BY <2>2, <3>1, Blank DEF Intact, SameLock, OneInstaller, At, Locked
  <2>4. Sound(NoProc, pkg, leftover)
    BY Blank DEF Sound, StashSound, FoundSound, FetchSound, PinSound, Fetching, Extracted
  <2> QED
    BY <1>2, <2>2, <2>3, <2>4, Blank, OutsideStep
<1> QED
  BY <1>1, <1>2
-----------------------------------------------------------------------------
(***************************************************************************)
(* Types, over a torn store too, and cleans.                               *)
(***************************************************************************)
\* A step of a process keeps the types if its record and what it writes do.
LEMMA Typed ==
  ASSUME TypeOK, NEW p \in Procs, NEW r \in ProcStates, proc' = [proc EXCEPT ![p] = r],
         pkg' \in Dirs, orphans' \subseteq Dirs, archive' \in Commits,
         lockFile' \in Inodes \cup {None}, faults' \in 0..MaxFaults,
         {kept', leftover', torn'} \subseteq BOOLEAN, UNCHANGED <<remote, cleaning>>
  PROVE  TypeOK'
<1>1. proc' \in [Procs -> ProcStates]
  BY DEF TypeOK, ProcStates
<1> QED
  BY <1>1 DEF TypeOK, ProcStates

\* The same when the process only moves on.
LEMMA TypedMove ==
  ASSUME TypeOK, NEW p \in Procs, NEW place \in Places, Goto(p, place),
         pkg' \in Dirs, archive' \in Commits, faults' \in 0..MaxFaults,
         {kept', leftover'} \subseteq BOOLEAN, UNCHANGED <<orphans, lockFile, remote, cleaner>>
  PROVE  TypeOK'
<1> PICK r : proc' = [proc EXCEPT ![p] = r] /\ MovedTo(r, proc[p], place)
  BY GotoMoves
<1>1. /\ orphans' \subseteq Dirs /\ lockFile' \in Inodes \cup {None} /\ torn' \in BOOLEAN
      /\ UNCHANGED <<remote, cleaning>> /\ r \in ProcStates
  BY DEF TypeOK, cleaner, MovedTo
<1> QED
  BY <1>1, Typed

LEMMA LeavesTyped ==
  ASSUME TypeOK, NEW p \in Procs, Leaves(p), faults' = faults \/ Fault
  PROVE  TypeOK'
<1>1. /\ orphans' \subseteq Dirs /\ faults' \in 0..MaxFaults
      /\ UNCHANGED <<pkg, archive, lockFile, remote, kept, leftover, cleaning, torn>>
      /\ proc' = [proc EXCEPT ![p] = NoProc]
  BY StoreInstallAssumption DEF TypeOK, Leaves, Fault, history, cleaner
<1>2. /\ pkg' \in Dirs /\ archive' \in Commits /\ lockFile' \in Inodes \cup {None}
      /\ {kept', leftover', torn'} \subseteq BOOLEAN
  BY <1>1 DEF TypeOK
<1> QED
  BY <1>1, <1>2, Blank, Typed

LEMMA StepTyped ==
  ASSUME TypeOK, NEW p \in Procs, Step(p)
  PROVE  TypeOK'
<1>1. /\ proc[p] \in ProcStates /\ pkg \in Dirs /\ orphans \subseteq Dirs
      /\ archive \in Commits /\ remote \in Tarballs /\ lockFile \in Inodes \cup {None}
      /\ {kept, leftover, torn} \subseteq BOOLEAN /\ faults \in 0..MaxFaults
  BY DEF TypeOK, ProcStates
<1>2. NoDir \in Dirs /\ None \in Commits /\ Tarballs \subseteq Commits
  BY Blank DEF Commits
<1>3. Fault => faults' \in 0..MaxFaults
  BY <1>1, StoreInstallAssumption DEF Fault
<1>4. ASSUME NEW pin \in Tarballs, NEW mode \in Modes, NEW sha \in {remote, None},
             Decide(p, pin, mode, sha)
      PROVE  TypeOK'
  <2> PICK place \in {"fetching", "staging", "failed"}, commit \in {None, sha} :
        proc' = [proc EXCEPT ![p].at = place, ![p].pin = pin, ![p].commit = commit]
    BY <1>4 DEF Decide
  <2> DEFINE r == [proc[p] EXCEPT !.at = place, !.pin = pin, !.commit = commit]
  <2>1. r \in ProcStates
    BY <1>1, <1>2 DEF ProcStates, Places
  <2>2. proc' = [proc EXCEPT ![p] = r]
    OBVIOUS
  <2> HIDE DEF r
  <2> QED
    BY <1>1, <1>4, <2>1, <2>2, Typed DEF Decide, disk, history, cleaner
<1>5. ASSUME Stage(p) PROVE TypeOK'
  <2>1. CASE Goto(p, "failed") /\ UNCHANGED pkg
    BY <1>1, <1>5, <2>1, TypedMove DEF Stage, history, Places
  <2>2. CASE proc' = [proc EXCEPT ![p].at = "fetching", ![p].stash = pkg] /\ pkg' = NoDir
    <3> DEFINE r == [proc[p] EXCEPT !.at = "fetching", !.stash = pkg]
    <3>1. r \in ProcStates
      BY <1>1 DEF ProcStates, Places
    <3>2. proc' = [proc EXCEPT ![p] = r]
      BY <2>2
    <3> HIDE DEF r
    <3> QED
      BY <1>1, <1>2, <1>5, <2>2, <3>1, <3>2, Typed DEF Stage, history, cleaner
  <2> QED
    BY <1>5, <2>1, <2>2 DEF Stage
<1>6. ASSUME FetchBegins(p) PROVE TypeOK'
  <2>1. PICK place \in {"resolved", "downloading"} : Goto(p, place) /\ archive' \in {archive, None}
    BY <1>6 DEF FetchBegins
  <2> QED
    BY <1>1, <1>2, <1>6, <2>1, TypedMove DEF FetchBegins, Places
<1>7. ASSUME Download(p) PROVE TypeOK'
  <2>1. PICK place \in {"hashing", "undoing"} : Goto(p, place) /\ archive' \in {remote, None}
    BY <1>7 DEF Download
  <2> QED
    BY <1>1, <1>2, <1>7, <2>1, TypedMove DEF Download, history, Places
<1>8. ASSUME Goto(p, "undoing"), archive' \in {archive, None},
             UNCHANGED <<pkg, faults>> \/ RemovesPkg,
             UNCHANGED <<orphans, lockFile, remote, history, cleaner>>
      PROVE  TypeOK'
  <2>1. pkg' \in Dirs /\ faults' \in 0..MaxFaults
    BY <1>1, <1>8, RemovedPkg
  <2> QED
    BY <1>1, <1>2, <1>8, <2>1, TypedMove DEF history, Places
<1>9. ASSUME Hash(p) PROVE TypeOK'
  <2>1. CASE Scrap(p) \/ (archive' = None /\ Goto(p, "undoing") /\ UNCHANGED <<pkg, faults>>)
    BY <1>8, <1>9, <2>1 DEF Hash, Scrap
  <2>2. CASE /\ archive # None
             /\ proc' = [proc EXCEPT ![p].at = "extracting", ![p].tarball = archive,
                                     ![p].todo = FilesOf[archive]]
             /\ UNCHANGED <<pkg, archive, faults>>
    <3> DEFINE r == [proc[p] EXCEPT !.at = "extracting", !.tarball = archive,
                                    !.todo = FilesOf[archive]]
    <3>1. FilesOf[archive] \in SUBSET Files
      BY <1>1, <2>2, StoreInstallAssumption DEF Commits
    <3>2. r \in ProcStates
      BY <1>1, <3>1 DEF ProcStates, Places
    <3>3. proc' = [proc EXCEPT ![p] = r]
      BY <2>2
    <3> HIDE DEF r
    <3> QED
      BY <1>1, <1>9, <2>2, <3>2, <3>3, Typed DEF Hash, history, cleaner
  <2> QED
    BY <1>9, <2>1, <2>2 DEF Hash
<1>10. ASSUME Extract(p) PROVE TypeOK'
  <2>1. CASE Scrap(p)
    BY <1>8, <1>10, <2>1 DEF Extract, Scrap
  <2>2. CASE archive' = None /\ Goto(p, "verifying") /\ UNCHANGED <<pkg, faults>>
    BY <1>1, <1>2, <1>10, <2>2, TypedMove DEF Extract, history, Places
  <2>3. CASE \E f \in proc[p].todo :
               /\ pkg' = [pkg EXCEPT !.files[f] = proc[p].tarball]
               /\ proc' = [proc EXCEPT ![p].todo = @ \ {f}]
               /\ UNCHANGED <<archive, faults>>
    <3> PICK f \in proc[p].todo :
               /\ pkg' = [pkg EXCEPT !.files[f] = proc[p].tarball]
               /\ proc' = [proc EXCEPT ![p].todo = @ \ {f}]
               /\ UNCHANGED <<archive, faults>>
      BY <2>3
    <3> DEFINE r == [proc[p] EXCEPT !.todo = @ \ {f}]
    <3>1. r \in ProcStates /\ pkg' \in Dirs
      BY <1>1 DEF ProcStates, Dirs
    <3>2. proc' = [proc EXCEPT ![p] = r]
      OBVIOUS
    <3> HIDE DEF r
    <3> QED
      BY <1>1, <1>10, <3>1, <3>2, Typed DEF Extract, history, cleaner
  <2> QED
    BY <1>10, <2>1, <2>2, <2>3 DEF Extract
<1>11. ASSUME Verify(p) PROVE TypeOK'
  <2>1. CASE Goto(p, "describing") /\ UNCHANGED <<pkg, faults>>
    BY <1>1, <1>11, <2>1, TypedMove DEF Verify, history, Places
  <2> QED
    BY <1>8, <1>11, <2>1 DEF Verify
<1>12. ASSUME Describe(p) PROVE TypeOK'
  <2>1. CASE /\ pkg' = [pkg EXCEPT !.sidecar = [tarball |-> proc[p].tarball,
                                                commit |-> proc[p].commit]]
             /\ Goto(p, "marking") /\ UNCHANGED faults
    <3>1. pkg' \in Dirs
      BY <1>1, <2>1 DEF Dirs, ProcStates
    <3> QED
      BY <1>1, <1>12, <2>1, <3>1, TypedMove DEF Describe, history, Places
  <2> QED
    BY <1>8, <1>12, <2>1 DEF Describe
<1>13. ASSUME Mark(p) PROVE TypeOK'
  <2>1. PICK place \in {"resolved", "undoing"} : Goto(p, place) /\ kept' \in {kept, TRUE}
    BY <1>13 DEF Mark
  <2>2. pkg' \in Dirs
    BY <1>1, <1>13 DEF Mark, Dirs
  <2> QED
    BY <1>1, <1>13, <2>1, <2>2, TypedMove DEF Mark, Places
<1>14. ASSUME Commit(p) PROVE TypeOK'
  <2>1. PICK r \in ProcStates : proc' = [proc EXCEPT ![p] = r]
    <3>1. CASE proc' = [proc EXCEPT ![p] = NoProc]
      BY <3>1, Blank
    <3>2. CASE proc' = [proc EXCEPT ![p].at = "failed", ![p].stash = NoDir]
      <4> DEFINE r == [proc[p] EXCEPT !.at = "failed", !.stash = NoDir]
      <4>1. r \in ProcStates
        BY <1>1, <1>2 DEF ProcStates, Places
      <4> QED
        BY <3>2, <4>1
    <3> QED
      BY <1>14, <3>1, <3>2 DEF Commit
  <2>2. orphans' \subseteq Dirs /\ faults' \in 0..MaxFaults
    BY <1>1, <1>3, <1>14 DEF Commit, ProcStates
  <2> QED
    BY <1>1, <1>14, <2>1, <2>2, Typed DEF Commit, history, cleaner
<1>15. ASSUME Undo(p) PROVE TypeOK'
  <2>1. PICK place \in {"failed", "restoring"} : Goto(p, place)
    BY <1>15 DEF Undo
  <2>2. pkg' \in Dirs /\ faults' \in 0..MaxFaults
    BY <1>1, <1>2, <1>3, <1>15, RemainsOf DEF Undo
  <2> QED
    BY <1>1, <1>15, <2>1, <2>2, TypedMove DEF Undo, history, Places
<1>16. ASSUME Restore(p) PROVE TypeOK'
  <2>1. CASE Goto(p, "failed") /\ UNCHANGED pkg /\ (faults' = faults \/ Fault)
    BY <1>1, <1>3, <1>16, <2>1, TypedMove DEF Restore, history, Places
  <2>2. CASE /\ pkg' = proc[p].stash
             /\ proc' = [proc EXCEPT ![p].at = "failed", ![p].stash = NoDir]
             /\ UNCHANGED faults
    <3> DEFINE r == [proc[p] EXCEPT !.at = "failed", !.stash = NoDir]
    <3>1. r \in ProcStates /\ pkg' \in Dirs
      BY <1>1, <1>2, <2>2 DEF ProcStates, Places
    <3>2. proc' = [proc EXCEPT ![p] = r]
      BY <2>2
    <3> HIDE DEF r
    <3> QED
      BY <1>1, <1>16, <2>2, <3>1, <3>2, Typed DEF Restore, history, cleaner
  <2> QED
    BY <1>16, <2>1, <2>2 DEF Restore
<1>17. ASSUME GiveUp(p) PROVE TypeOK'
  BY <1>17, LeavesTyped DEF GiveUp
<1> QED
  BY <1>4, <1>5, <1>6, <1>7, <1>9, <1>10, <1>11, <1>12, <1>13, <1>14, <1>15, <1>16, <1>17
     DEF Step

LEMMA NextTyped == TypeOK /\ [Next]_vars => TypeOK'
<1> SUFFICES ASSUME TypeOK, [Next]_vars PROVE TypeOK'
  OBVIOUS
<1>1. ASSUME NEW p \in Procs, Open(p) PROVE TypeOK'
  <2> PICK i : i = lockFile'
    OBVIOUS
  <2>1. i \in Inodes \cup {None}
    <3>1. NotOpen # {} => (CHOOSE x \in NotOpen : TRUE) \in Inodes
      BY DEF NotOpen
    <3> QED
      BY <1>1, <3>1 DEF Open, TypeOK
  <2> DEFINE r == [NoProc EXCEPT !.at = "locking", !.inode = i]
  <2>2. r \in ProcStates
    BY <2>1, Blank DEF ProcStates, Places
  <2>3. proc' = [proc EXCEPT ![p] = r]
    BY <1>1 DEF Open
  <2> HIDE DEF r
  <2>4. /\ UNCHANGED <<pkg, archive, orphans, remote, kept, leftover, faults, cleaning>>
        /\ torn' \in BOOLEAN
    BY <1>1 DEF Open, history, TypeOK
  <2>5. /\ pkg' \in Dirs /\ orphans' \subseteq Dirs /\ archive' \in Commits
        /\ faults' \in 0..MaxFaults /\ {kept', leftover'} \subseteq BOOLEAN
    BY <2>4 DEF TypeOK
  <2> QED
    BY <2>1, <2>2, <2>3, <2>4, <2>5, Typed
<1>2. ASSUME NEW p \in Procs, Lock(p) PROVE TypeOK'
  <2> DEFINE x == IF IsCached THEN pkg ELSE NoDir
             r == [proc[p] EXCEPT !.at = "deciding", !.found = x]
  <2>1. x \in Dirs
    BY Blank DEF TypeOK
  <2> HIDE DEF x
  <2>2. r \in ProcStates
    BY <2>1 DEF TypeOK, ProcStates, Places
  <2>3. proc' = [proc EXCEPT ![p] = r]
    BY <1>2 DEF Lock, x
  <2> HIDE DEF r
  <2> QED
    BY <1>2, <2>2, <2>3, Typed DEF Lock, disk, history, cleaner, TypeOK
<1>3. ASSUME NEW p \in Procs, Crash(p) PROVE TypeOK'
  BY <1>3, LeavesTyped DEF Crash
<1>4. CASE TagMoves
  BY <1>4 DEF TagMoves, disk, history, cleaner, TypeOK
<1>5. CASE CleanBegins
  BY <1>5 DEF CleanBegins, disk, history, TypeOK, Busy
<1>6. CASE CleanRemoves
  <2>1. UNCHANGED <<remote, kept, leftover, faults, cleaning, torn>>
    BY <1>6 DEF CleanRemoves, history, cleaner
  <2>2. CASE \E p \in Procs : \E dir \in Remains(proc[p].stash) :
               /\ proc' = [proc EXCEPT ![p].stash = dir]
               /\ UNCHANGED <<pkg, archive, orphans, lockFile>>
    <3> PICK p \in Procs : \E dir \in Remains(proc[p].stash) :
               /\ proc' = [proc EXCEPT ![p].stash = dir]
               /\ UNCHANGED <<pkg, archive, orphans, lockFile>>
      BY <2>2
    <3> PICK dir \in Remains(proc[p].stash) :
               /\ proc' = [proc EXCEPT ![p].stash = dir]
               /\ UNCHANGED <<pkg, archive, orphans, lockFile>>
      OBVIOUS
    <3> DEFINE r == [proc[p] EXCEPT !.stash = dir]
    <3>1. dir \in Dirs
      BY RemainsOf DEF TypeOK
    <3>2. r \in ProcStates
      BY <3>1 DEF TypeOK, ProcStates
    <3>3. proc' = [proc EXCEPT ![p] = r]
      OBVIOUS
    <3> HIDE DEF r
    <3> QED
      BY <2>1, <3>2, <3>3, Typed DEF TypeOK
  <2>3. CASE /\ pkg' \in {pkg} \cup Remains(pkg) /\ archive' \in {archive, None}
             /\ orphans' \subseteq orphans /\ lockFile' \in {lockFile, None} /\ proc' = proc
    BY <2>1, <2>3, RemainsOf DEF TypeOK, Commits
  <2> QED
    BY <1>6, <2>2, <2>3 DEF CleanRemoves
<1>7. CASE CleanEnds
  BY <1>7 DEF CleanEnds, disk, TypeOK, Busy
<1>8. CASE CleanStops
  BY <1>8 DEF CleanStops, disk, history, TypeOK
<1>9. CASE UNCHANGED vars
  BY <1>9 DEF vars, disk, history, cleaner, TypeOK
<1> QED
  BY <1>1, <1>2, <1>3, <1>4, <1>5, <1>6, <1>7, <1>8, <1>9, StepTyped DEF Next

\* A clean that ends with nobody at work leaves an empty store.
LEMMA CleanEndsIntact ==
  ASSUME TypeOK, TypeOK', CleanEnds, ~Busy
  PROVE  Intact'
<1>1. \A p \in Procs : proc'[p].at = "idle" /\ proc'[p].stash = NoDir
  BY DEF CleanEnds, Busy, At
<1>2. SameLock'
  BY <1>1 DEF SameLock, OneInstaller, At, Locked
<1>3. \A p \in Procs : Sound(proc'[p], pkg', leftover')
  BY <1>1 DEF Sound, StashSound, FoundSound, FetchSound, PinSound, Fetching, Extracted
<1>4. MarkedIsWhole' /\ InstallSurvives' /\ ~torn' /\ ~cleaning'
  BY Blank DEF CleanEnds, disk, MarkedIsWhole, IsCached, InstallSurvives
<1> QED
  BY <1>2, <1>3, <1>4 DEF Intact

LEMMA InitIInv == Init => IInv
<1> SUFFICES ASSUME Init PROVE Intact
  BY DEF Intact, IInv
<1>1. ASSUME NEW t \in Tarballs
      PROVE  /\ Legacy(t) \in Dirs /\ Legacy(t).marker /\ Legacy(t).sidecar = NoSidecar
             /\ Holds(Legacy(t), t)
  <2>1. FilesOf[t] \subseteq Files
    BY StoreInstallAssumption
  <2> QED
    BY <2>1, Blank DEF Legacy, NoDir, Dirs, Commits, Holds
<1>2. pkg \in Dirs /\ Fine(pkg, leftover) /\ (pkg.marker => Whole(pkg))
  BY <1>1, Blank DEF Init, Fine, Whole
<1>3. TypeOK
  <2>1. proc \in [Procs -> ProcStates] /\ kept \in BOOLEAN
    BY <1>2, Blank DEF Init, Dirs
  <2>2. /\ orphans \subseteq Dirs /\ archive \in Commits
        /\ remote \in Tarballs /\ leftover \in BOOLEAN
    BY DEF Init, Commits
  <2>3. lockFile \in Inodes \cup {None} /\ faults = 0 /\ cleaning = FALSE /\ torn = FALSE
    BY DEF Init
  <2>4. 0 \in 0..MaxFaults
    BY StoreInstallAssumption
  <2> QED
    BY <1>2, <2>1, <2>2, <2>3, <2>4 DEF TypeOK, ProcStates
<1>4. \A p \in Procs : proc[p].at = "idle" /\ proc[p].stash = NoDir
  BY Blank DEF Init
<1>5. SameLock /\ \A p \in Procs : Sound(proc[p], pkg, leftover)
  BY <1>4 DEF SameLock, OneInstaller, At, Locked, Sound, StashSound, FoundSound,
              FetchSound, PinSound, Fetching, Extracted
<1>6. MarkedIsWhole /\ InstallSurvives
  BY <1>2 DEF Init, MarkedIsWhole, IsCached, Fine, InstallSurvives
<1> QED
  BY <1>3, <1>5, <1>6 DEF Intact, Init

LEMMA NextIInv == IInv /\ [Next]_vars => IInv'
<1> SUFFICES ASSUME IInv, [Next]_vars PROVE IInv'
  OBVIOUS
<1>1. TypeOK /\ TypeOK'
  BY NextTyped DEF IInv
<1>2. CASE Intact
  <2>1. ASSUME NEW p \in Procs, Open(p) \/ Lock(p) \/ Step(p) \/ Crash(p) PROVE Intact'
    <3>1. CASE Step(p)
      BY <1>2, <3>1, DecideIntact, StageIntact, FetchBeginsIntact, DownloadIntact, HashIntact,
         ExtractIntact, VerifyIntact, DescribeIntact, MarkIntact, CommitIntact, UndoIntact,
         RestoreIntact, GiveUpIntact
         DEF Step
    <3> QED
      BY <1>2, <2>1, <3>1, OpenIntact, LockIntact, CrashIntact
  <2>2. CASE TagMoves \/ UNCHANGED vars
    <3>1. UNCHANGED <<proc, pkg, orphans, lockFile, kept, leftover, cleaning, torn>>
      BY <2>2 DEF TagMoves, vars, disk, history, cleaner
    <3>2. UNCHANGED <<SameLock, MarkedIsWhole, InstallSurvives>>
      BY <3>1 DEF SameLock, OneInstaller, At, Locked, MarkedIsWhole, InstallSurvives, IsCached
    <3>3. \A p \in Procs : Sound(proc'[p], pkg', leftover')
      BY <1>2, <3>1 DEF Intact
    <3> QED
      BY <1>1, <1>2, <3>1, <3>2, <3>3 DEF Intact, IInv
  <2>3. CASE CleanBegins
    <3>1. cleaning' /\ (~torn' => ~Busy')
      BY <1>2, <2>3 DEF CleanBegins, Busy, At, Intact
    <3> QED
      BY <1>1, <3>1 DEF IInv
  <2>4. ~Cleaning
    BY <1>2 DEF Intact, Cleaning
  <2> QED
    BY <1>1, <2>1, <2>2, <2>3, <2>4 DEF IInv, Next, CleanRemoves, CleanEnds, CleanStops
<1>3. CASE ~torn /\ cleaning /\ ~Busy
  <2>1. ASSUME NEW p \in Procs, Open(p) \/ Lock(p) \/ Step(p) \/ Crash(p) PROVE torn'
    <3>1. At(p, "idle")
      BY <1>3 DEF Busy
    <3>2. Open(p)
      BY <2>1, <3>1
         DEF Here, At, Lock, Step, Crash, Decide, Stage, FetchBegins, Download, Hash, Extract,
             Verify, Describe, Mark, Commit, Undo, Restore, GiveUp
    <3> QED
      BY <1>3, <3>2 DEF Open
  <2>2. CASE CleanEnds
    BY <1>1, <1>3, <2>2, CleanEndsIntact DEF IInv
  <2>3. CASE CleanStops
    BY <1>1, <2>3 DEF CleanStops, IInv
  <2>4. CASE CleanRemoves
    <3>1. \A p \in Procs : proc'[p].at = "idle"
      <4>1. \A p \in Procs : proc[p].at = "idle"
        BY <1>3 DEF Busy, At
      <4> QED
        BY <1>1, <2>4, <4>1 DEF CleanRemoves, TypeOK
    <3>2. ~Busy' /\ cleaning'
      BY <1>3, <2>4, <3>1 DEF Busy, At, CleanRemoves, cleaner
    <3> QED
      BY <1>1, <3>2 DEF IInv
  <2>5. CASE TagMoves \/ UNCHANGED vars
    BY <1>1, <1>3, <2>5 DEF TagMoves, vars, cleaner, IInv, Busy, At
  <2> QED
    BY <1>1, <1>3, <2>1, <2>2, <2>3, <2>4, <2>5 DEF IInv, Next, CleanBegins
<1>4. CASE torn
  <2>1. CASE CleanEnds /\ ~Busy
    BY <1>1, <2>1, CleanEndsIntact DEF IInv
  <2>2. CASE CleanEnds /\ Busy
    BY <1>1, <2>2 DEF IInv, CleanEnds
  <2>3. CASE ~CleanEnds
    <3>1. ASSUME NEW p \in Procs, Open(p) \/ Lock(p) \/ Step(p) \/ Crash(p) PROVE torn'
      BY <1>4, <3>1
         DEF Open, Lock, Step, Crash, Leaves, Decide, Stage, FetchBegins, Download, Hash,
             Extract, Verify, Describe, Mark, Commit, Undo, Restore, GiveUp, cleaner
    <3>2. ASSUME TagMoves \/ CleanBegins \/ CleanRemoves \/ CleanStops \/ UNCHANGED vars
          PROVE  torn'
      BY <1>4, <3>2 DEF TagMoves, CleanBegins, CleanRemoves, CleanStops, cleaner, vars
    <3>3. torn'
      BY <2>3, <3>1, <3>2 DEF Next
    <3> QED
      BY <1>1, <3>3 DEF IInv
  <2> QED
    BY <2>1, <2>2, <2>3
<1> QED
  BY <1>2, <1>3, <1>4 DEF IInv

LEMMA Inductive == Spec => []IInv
BY InitIInv, NextIInv, PTL DEF Spec

\* Every variable keeps its type; and while no clean is at work or has torn the
\* store, whatever died when, a marked package has every file of the tarball its
\* sidecar names, and a whole copy of what was installed is there, in place or
\* set aside.
THEOREM DiskStaysSound == Spec => []DiskSound
<1>1. IInv => DiskSound
  BY DEF IInv, Intact, DiskSound
<1> QED
  BY <1>1, Inductive, PTL

\* An install answers with the package packages.tdm pins, whether it found it,
\* refreshed it, fetched it over the leftovers of one that died, or waited for
\* one with another pin.
THEOREM PinsResolved == Spec => []ResolvesToPin
<1>1. IInv => ResolvesToPin
  BY DEF IInv, Intact, Busy, ResolvesToPin, At, IsCached, PinHolds, Sound, PinSound, Pinned
<1> QED
  BY <1>1, Inductive, PTL

\* An install that fails leaves the install it found, in place or under the name
\* its message gives, or the complete new one whose digest failed.
THEOREM FailuresKeepInstall == Spec => []FailureKeepsInstall
<1>1. IInv => FailureKeepsInstall
  BY DEF IInv, Intact, Busy, FailureKeepsInstall, At, IsCached, PinHolds, Sound, FoundSound, Pinned
<1> QED
  BY <1>1, Inductive, PTL
=============================================================================
