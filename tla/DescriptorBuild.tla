-------------------------- MODULE DescriptorBuild --------------------------
(***************************************************************************)
(* Building from a descriptor (cli/build_descriptor.rs): a build sweeps    *)
(* the staging directories of dead builds, takes .taida/build/.lock,       *)
(* builds its units into a staging directory of its own, and then replaces *)
(* the committed units and artifact-map.json, restoring what it displaced  *)
(* when that fails.                                                        *)
(*                                                                         *)
(* An action is one file-system step, so builds interleave, fail and die   *)
(* between any two of them.  Each process builds once; its pid is not used *)
(* again.  An output's content is the process that built it, whole or in   *)
(* part.  Left out: staging directories that are removed for their age or  *)
(* their owner, and calls that fail before the lock is taken, which end    *)
(* the build with nothing done.                                            *)
(***************************************************************************)
EXTENDS Naturals, FiniteSets

CONSTANTS
  Procs,     \* building processes, that is, their pids
  Units,     \* BuildUnits and AssetBundles of the descriptor
  Map,       \* artifact-map.json
  None,      \* no file, no process
  MaxFaults, \* bound on failing file-system calls, those of a rollback apart
  MaxCrashes \* bound on dying processes

ASSUME DescriptorBuildAssumption ==
  /\ IsFiniteSet(Procs) /\ IsFiniteSet(Units)
  /\ Map \notin Units /\ None \notin Procs
  /\ MaxFaults \in Nat /\ MaxCrashes \in Nat

VARIABLES
  proc,    \* each process: where it is and what it keeps in memory
  staging, \* its .tmp-<id> directory, with the displaced outputs in it
  final,   \* the committed outputs
  lock,    \* the lock file: who created it and the pid it holds so far
  faults, crashes,
  stolen,  \* history: whether a lock was removed that is not the one that was read
  spoilt   \* history: the builds one of whose rollback calls has failed

vars == <<proc, staging, final, lock, faults, crashes, stolen, spoilt>>
bounds == <<faults, crashes, stolen, spoilt>>

Outputs == Units \cup {Map}
Nothing == [o \in Outputs |-> None]
Gone == [dir |-> FALSE, tx |-> FALSE, staged |-> {}, replaced |-> Nothing]
Free == [by |-> None, pid |-> None]
Idle == [at |-> "idle", scan |-> {}, seen |-> None, tries |-> 0, todo |-> {},
         wants |-> {}, before |-> Nothing, result |-> "none"]
Locked == {"writing", "making", "naming", "building", "backing", "placing", "undoing",
           "restoring", "cleaning", "unlocking"}
Running == Locked \cup {"scanning", "checking", "removing", "locking", "reading", "probing",
                       "unlinking"}

Init ==
  /\ proc = [p \in Procs |-> Idle]
  /\ staging = [p \in Procs |-> Gone]
  /\ final = Nothing
  /\ lock = Free
  /\ faults = 0 /\ crashes = 0 /\ stolen = FALSE /\ spoilt = {}

At(p, place) == proc[p].at = place
Goto(p, place) == proc' = [proc EXCEPT ![p].at = place]
Leave(p, place, result) ==
  proc' = [proc EXCEPT ![p].at = place, ![p].result = result, ![p].todo = {}]
\* A process that is gone keeps nothing but its name on what it built.
Exit(p, place) ==
  proc' = [proc EXCEPT ![p] = [Idle EXCEPT !.at = place, !.wants = proc[p].wants]]
Fault == faults < MaxFaults /\ faults' = faults + 1 /\ UNCHANGED <<crashes, stolen, spoilt>>

\* descriptor_pid_alive: a process is gone when it was killed or has returned.
PidGone(q) == At(q, "dead") \/ At(q, "ended")
-----------------------------------------------------------------------------
\* DescriptorTransaction::new makes the build root and lists it.
Start(p) ==
  /\ At(p, "idle")
  /\ \E units \in (SUBSET Units) \ {{}} :
       proc' = [proc EXCEPT ![p] = [Idle EXCEPT !.at = "scanning", !.wants = units \cup {Map},
                                                !.scan = {q \in Procs : staging[q].dir}]]
  /\ UNCHANGED <<staging, final, lock, bounds>>

\* cleanup_stale_descriptor_staging, before any lock: transaction.json is read;
\* a directory without that file stays.
Examine(p, q) ==
  /\ At(p, "scanning") /\ q \in proc[p].scan
  /\ proc' = IF staging[q].tx
             THEN [proc EXCEPT ![p].scan = @ \ {q}, ![p].seen = q, ![p].at = "checking"]
             ELSE [proc EXCEPT ![p].scan = @ \ {q}]
  /\ UNCHANGED <<staging, final, lock, bounds>>

\* A transaction.json that its build is writing, or was when it ended, does not
\* parse, and one that its build is removing cannot be read: errors, all.
ExamineFails(p, q) ==
  /\ At(p, "scanning") /\ q \in proc[p].scan
  /\ \/ At(q, "naming") \/ At(q, "cleaning")
     \/ PidGone(q) /\ staging[q].dir /\ ~staging[q].tx
  /\ Exit(p, "ended")
  /\ UNCHANGED <<staging, final, lock, bounds>>

\* The directory is stale when the process that transaction.json names is gone.
CheckOwner(p) ==
  /\ At(p, "checking")
  /\ Goto(p, IF PidGone(proc[p].seen) THEN "removing" ELSE "scanning")
  /\ UNCHANGED <<staging, final, lock, bounds>>

\* It may have been removed meanwhile, by its own build or by another: an error.
RemoveStale(p) ==
  /\ At(p, "removing")
  /\ IF staging[proc[p].seen].dir
     THEN /\ proc' = [proc EXCEPT ![p].at = "scanning", ![p].seen = None]
          /\ staging' = [staging EXCEPT ![proc[p].seen] = Gone]
     ELSE Exit(p, "ended") /\ UNCHANGED staging
  /\ UNCHANGED <<final, lock, bounds>>

ScanDone(p) ==
  /\ At(p, "scanning") /\ proc[p].scan = {}
  /\ Goto(p, "locking")
  /\ UNCHANGED <<staging, final, lock, bounds>>

\* DescriptorBuildLock::acquire: create_new, three times at most.
CreateLock(p) ==
  /\ At(p, "locking")
  /\ \/ /\ proc[p].tries < 3 /\ lock = Free
        /\ lock' = [by |-> p, pid |-> None]
        /\ proc' = [proc EXCEPT ![p].at = "writing", ![p].tries = 0, ![p].before = final]
     \/ proc[p].tries < 3 /\ lock # Free /\ Goto(p, "reading") /\ UNCHANGED lock
     \/ proc[p].tries = 3 /\ Exit(p, "ended") /\ UNCHANGED lock
  /\ UNCHANGED <<staging, final, bounds>>

\* descriptor_lock_pid: without a lock, or a pid in it, the build gives up.
ReadLock(p) ==
  /\ At(p, "reading")
  /\ IF lock.pid # None
     THEN proc' = [proc EXCEPT ![p].at = "probing", ![p].seen = lock.pid]
     ELSE Exit(p, "ended")
  /\ UNCHANGED <<staging, final, lock, bounds>>

\* Then descriptor_pid_alive, whatever has become of the lock.
ProbePid(p) ==
  /\ At(p, "probing")
  /\ IF PidGone(proc[p].seen) THEN Goto(p, "unlinking") ELSE Exit(p, "ended")
  /\ UNCHANGED <<staging, final, lock, bounds>>

\* remove_file takes away whatever lock is there by now.
Unlink(p) ==
  /\ At(p, "unlinking")
  /\ IF lock = Free
     THEN Exit(p, "ended") /\ UNCHANGED <<lock, stolen>>
     ELSE /\ proc' = [proc EXCEPT ![p].at = "locking", ![p].seen = None, ![p].tries = @ + 1]
          /\ lock' = Free
          /\ stolen' = (stolen \/ lock.by # proc[p].seen)
  /\ UNCHANGED <<staging, final, faults, crashes, spoilt>>

\* The pid is written through the open file, be it unlinked or not.
WriteLock(p) ==
  /\ At(p, "writing")
  /\ lock' = IF lock.by = p THEN [lock EXCEPT !.pid = p] ELSE lock
  /\ Goto(p, "making")
  /\ UNCHANGED <<staging, final, bounds>>

\* Every exit from here on drops the lock, whoever's it is.
WriteLockFails(p) ==
  /\ At(p, "writing") /\ Fault
  /\ Leave(p, "unlocking", "failed")
  /\ UNCHANGED <<staging, final, lock>>
-----------------------------------------------------------------------------
MakeStaging(p) ==
  /\ At(p, "making")
  /\ staging' = [staging EXCEPT ![p].dir = TRUE]
  /\ Goto(p, "naming")
  /\ UNCHANGED <<final, lock, bounds>>

WriteTransaction(p) ==
  /\ At(p, "naming")
  /\ staging' = [staging EXCEPT ![p].tx = TRUE]
  /\ Goto(p, "building")
  /\ UNCHANGED <<final, lock, bounds>>

\* DescriptorTransaction::new fails: the staging directory stays behind.
NewFails(p) ==
  /\ At(p, "making") \/ At(p, "naming")
  /\ Fault
  /\ Leave(p, "unlocking", "failed")
  /\ UNCHANGED <<staging, final, lock>>

\* Hooks, assets, child builds and write_artifact_map; any of them may fail.
Build(p) ==
  /\ At(p, "building")
  /\ \/ /\ staging' = [staging EXCEPT ![p].staged = proc[p].wants]
        /\ proc' = [proc EXCEPT ![p].at = "backing", ![p].todo = proc[p].wants]
     \/ Leave(p, "cleaning", "failed") /\ UNCHANGED staging
  /\ UNCHANGED <<final, lock, bounds>>

\* collect_descriptor_replacements: the units in some order, then the map.
Collected(todo) == IF todo = {Map} THEN todo ELSE todo \ {Map}

\* Slips, for the mutant of MapTellsTruth only.
BackUpKeepsMap(p) ==
  /\ At(p, "backing")
  /\ \E o \in Collected(proc[p].todo) :
       /\ proc' = [proc EXCEPT ![p].todo = @ \ {o}]
       /\ staging' = IF o = Map THEN staging ELSE [staging EXCEPT ![p].replaced[o] = final[o]]
       /\ final' = IF o = Map THEN final ELSE [final EXCEPT ![o] = None]
  /\ UNCHANGED <<lock, bounds>>
\* commit_descriptor_transaction, first loop: committed outputs that exist are
\* moved into the staging directory.
BackUp(p) ==
  /\ At(p, "backing")
  /\ \E o \in Collected(proc[p].todo) :
       /\ proc' = [proc EXCEPT ![p].todo = @ \ {o}]
       /\ staging' = [staging EXCEPT ![p].replaced[o] = final[o]]
       /\ final' = [final EXCEPT ![o] = None]
  /\ UNCHANGED <<lock, bounds>>

BackedUp(p) ==
  /\ At(p, "backing") /\ Collected(proc[p].todo) = {}
  /\ proc' = [proc EXCEPT ![p].at = "placing", ![p].todo = proc[p].wants]
  /\ UNCHANGED <<staging, final, lock, bounds>>

\* A failure in the first loop returns at once, and the driver cleans up: what
\* was displaced already goes with the staging directory.
BackUpFails(p) ==
  /\ At(p, "backing") /\ proc[p].todo # {} /\ Fault
  /\ Leave(p, "cleaning", "torn")
  /\ UNCHANGED <<staging, final, lock>>

\* Second loop.
Place(p) ==
  /\ At(p, "placing")
  /\ \E o \in Collected(proc[p].todo) \cap staging[p].staged :
       /\ proc' = [proc EXCEPT ![p].todo = @ \ {o}]
       /\ staging' = [staging EXCEPT ![p].staged = @ \ {o}]
       /\ final' = [final EXCEPT ![o] = p]
  /\ UNCHANGED <<lock, bounds>>

\* A staged output is missing or cannot be renamed: the rollback.  What was
\* committed goes, then the displaced outputs come back, the last one first.
PlaceFails(p) ==
  /\ At(p, "placing") /\ proc[p].todo # {} /\ Fault
  /\ proc' = [proc EXCEPT ![p].at = "undoing", ![p].result = "failed",
                          ![p].todo = proc[p].wants \ proc[p].todo]
  /\ UNCHANGED <<staging, final, lock>>

\* Any call of the rollback may fail; its error is ignored.
RollbackFails(p) == spoilt' = spoilt \cup {p} /\ UNCHANGED <<faults, crashes, stolen>>

Undo(p) ==
  /\ At(p, "undoing")
  /\ \E o \in proc[p].todo :
       /\ proc' = [proc EXCEPT ![p].todo = @ \ {o}]
       /\ \/ final' = [final EXCEPT ![o] = None] /\ UNCHANGED bounds
          \/ UNCHANGED final /\ RollbackFails(p)
  /\ UNCHANGED <<staging, lock>>

Displaced(p) == {o \in Outputs : staging[p].replaced[o] # None}
LastFirst(S) == IF Map \in S THEN {Map} ELSE S

\* Slips, for the mutant of EndsWell only.
UndoneOnly(p) ==
  /\ At(p, "undoing") /\ proc[p].todo = {}
  /\ proc' = [proc EXCEPT ![p].at = "restoring", ![p].todo = {}]
  /\ UNCHANGED <<staging, final, lock, bounds>>
Undone(p) ==
  /\ At(p, "undoing") /\ proc[p].todo = {}
  /\ proc' = [proc EXCEPT ![p].at = "restoring", ![p].todo = Displaced(p)]
  /\ UNCHANGED <<staging, final, lock, bounds>>

\* A rename of a backup: over what is left of an output of this build it may
\* succeed, if that is a file or an empty directory.
Restore(p) ==
  /\ At(p, "restoring")
  /\ \E o \in LastFirst(proc[p].todo) :
       /\ proc' = [proc EXCEPT ![p].todo = @ \ {o}]
       /\ \/ /\ final[o] \in {None, p}
             /\ final' = [final EXCEPT ![o] = staging[p].replaced[o]]
             /\ staging' = [staging EXCEPT ![p].replaced[o] = None]
             /\ UNCHANGED bounds
          \/ RollbackFails(p) /\ UNCHANGED <<staging, final>>
  /\ UNCHANGED lock

Restored(p) ==
  /\ At(p, "restoring") /\ proc[p].todo = {}
  /\ Goto(p, "cleaning")
  /\ UNCHANGED <<staging, final, lock, bounds>>

Committed(p) ==
  /\ At(p, "placing") /\ proc[p].todo = {}
  /\ Leave(p, "cleaning", "ok")
  /\ UNCHANGED <<staging, final, lock, bounds>>

\* tx.cleanup, with the displaced outputs that are still there; of what it may
\* leave, only transaction.json is looked at again.
CleanUp(p) ==
  /\ At(p, "cleaning")
  /\ \/ staging' = [staging EXCEPT ![p] = Gone] /\ UNCHANGED bounds
     \/ \E tx \in {staging[p].tx, FALSE} :
          staging' = [staging EXCEPT ![p] = [Gone EXCEPT !.dir = TRUE, !.tx = tx]] /\ Fault
  /\ Goto(p, "unlocking")
  /\ UNCHANGED <<final, lock>>

\* Drop for DescriptorBuildLock: an error is ignored, and the lock stays.
DropLock(p) ==
  /\ At(p, "unlocking")
  /\ \/ lock' = Free /\ UNCHANGED bounds
     \/ UNCHANGED lock /\ Fault
  /\ Exit(p, "ended")
  /\ UNCHANGED <<staging, final>>

Crash(p) ==
  /\ proc[p].at \in Running /\ crashes < MaxCrashes
  /\ crashes' = crashes + 1
  /\ Exit(p, "dead")
  /\ UNCHANGED <<staging, final, lock, faults, stolen, spoilt>>

AcquireStep(p) ==
  \/ Start(p) \/ (\E q \in Procs : Examine(p, q) \/ ExamineFails(p, q))
  \/ CheckOwner(p) \/ RemoveStale(p) \/ ScanDone(p)
  \/ CreateLock(p) \/ ReadLock(p) \/ ProbePid(p) \/ Unlink(p)
  \/ WriteLock(p) \/ WriteLockFails(p)

CommitStep(p) ==
  \/ BackUp(p) \/ BackedUp(p) \/ BackUpFails(p) \/ Place(p) \/ PlaceFails(p)
  \/ Undo(p) \/ Undone(p) \/ Restore(p) \/ Restored(p) \/ Committed(p)

Step(p) ==
  \/ AcquireStep(p)
  \/ MakeStaging(p) \/ WriteTransaction(p) \/ NewFails(p) \/ Build(p)
  \/ CommitStep(p) \/ CleanUp(p) \/ DropLock(p)

Next == \E p \in Procs : Step(p) \/ Crash(p)

Spec == Init /\ [][Next]_vars
-----------------------------------------------------------------------------
TypeOK ==
  /\ proc \in [Procs -> [at : Running \cup {"idle", "ended", "dead"}, scan : SUBSET Procs,
                          seen : Procs \cup {None}, tries : 0..3, todo : SUBSET Outputs,
                          wants : SUBSET Outputs,
                          before : [Outputs -> Procs \cup {None}],
                          result : {"none", "ok", "failed", "torn"}]]
  /\ staging \in [Procs -> [dir : BOOLEAN, tx : BOOLEAN, staged : SUBSET Outputs,
                             replaced : [Outputs -> Procs \cup {None}]]]
  /\ final \in [Outputs -> Procs \cup {None}]
  /\ lock \in [by : Procs \cup {None}, pid : Procs \cup {None}]
  /\ faults \in 0..MaxFaults /\ crashes \in 0..MaxCrashes /\ stolen \in BOOLEAN
  /\ spoilt \subseteq Procs

\* docs/reference/build_descriptors.md 8.1 and 8.3: .lock is the exclusive lock
\* of a running build, and one that is left by a dead process is taken over.
OneBuilder == \A p, q \in Procs : proc[p].at \in Locked /\ proc[q].at \in Locked => p = q

\* Whatever build fails or dies when, artifact-map.json never names as its own
\* an output that another build made: each is the map's build's, or missing, or
\* left there by a build whose rollback has itself failed (2226-2235).  Said of
\* builds that the lock keeps apart.
MapTellsTruth ==
  final[Map] # None /\ ~stolen =>
    \A o \in proc[final[Map]].wants : final[o] \in {final[Map], None} \cup spoilt

\* A build that succeeds has put every output it was asked for in place.  One
\* that fails has left the committed ones as they were, unless it failed while
\* it moved them away (result "torn") or a call of its rollback failed too; then
\* some are missing, and in the second case some may be its own.
EndsWell ==
  \A p \in Procs : At(p, "unlocking") /\ ~stolen =>
    CASE proc[p].result = "ok" -> \A o \in proc[p].wants : final[o] = p
      [] proc[p].result = "failed" /\ p \notin spoilt -> final = proc[p].before
      [] proc[p].result = "failed" /\ p \in spoilt ->
           \A o \in Outputs : final[o] \in {proc[p].before[o], None, p}
      [] proc[p].result = "torn" -> \A o \in Outputs : final[o] \in {proc[p].before[o], None}

\* docs/reference/build_descriptors.md 8.2: on failure the staging directory is
\* removed and the committed area stays untouched.  Asked of builds of which a
\* single call fails, so not of those whose rollback fails as well.
FailureTouchesNothing ==
  \A p \in Procs : At(p, "unlocking") /\ ~stolen =>
    proc[p].result = "ok" \/ p \in spoilt \/ final = proc[p].before
=============================================================================
