---------------------------- MODULE BuildCommit ----------------------------
(***************************************************************************)
(* How a JavaScript build replaces its outputs (cli/build.rs,              *)
(* commit_staged_js_outputs): every staged file is copied next to its      *)
(* place, every file in place is renamed to a backup, every copy is        *)
(* renamed into place, and the backups are removed; a failure on the way   *)
(* undoes what was done.                                                   *)
(*                                                                         *)
(* An action is one file-system step; a build may fail at any and die      *)
(* between two.  Temporary and backup names are unique to a build, so what *)
(* a dead one leaves is never touched again.  A file's content is the      *)
(* build that made it.  One build runs at a time.                          *)
(***************************************************************************)
EXTENDS Naturals, FiniteSets

CONSTANTS
  Builds,     \* build commands, one after the other
  Paths,      \* final output paths
  PathOf,     \* the final path of each staged output; modules outside the
              \* source tree may share one
  None,       \* no file
  MaxOutputs, \* staged outputs of a build, at most
  MaxFaults,  \* bound on failing file-system calls, in each build
  MaxCrashes  \* bound on builds that die

Outputs == 1..MaxOutputs

ASSUME BuildCommitAssumption ==
  /\ IsFiniteSet(Builds) /\ None \notin Builds
  /\ MaxOutputs \in Nat \ {0} /\ MaxFaults \in Nat /\ MaxCrashes \in Nat
  /\ PathOf \in [Outputs -> Paths]

VARIABLES
  build,  \* each build: where it is, and its StagedJsCommits
  final,  \* the files in place
  kept,   \* history: the paths some build has succeeded in writing
  crashes

vars == <<build, final, kept, crashes>>

NoBackups == [i \in Outputs |-> None]
Idle == [at |-> "idle", count |-> 0, idx |-> 1, temp |-> {}, backup |-> NoBackups,
         before |-> [p \in Paths |-> None], faults |-> 0]
Running == {"copying", "backing", "placing", "restoring", "finishing"}
Ended == {"ok", "failed", "dead"}

Init ==
  /\ build = [b \in Builds |-> Idle]
  /\ final = [p \in Paths |-> None]
  /\ kept = {} /\ crashes = 0

At(b, place) == build[b].at = place
Path(b) == PathOf[build[b].idx]
\* The build goes on to the next output, or to the first of the next loop.
Advanced(r, next) ==
  IF r.idx < r.count THEN [r EXCEPT !.idx = @ + 1] ELSE [r EXCEPT !.idx = 1, !.at = next]
Advance(b, r, next) == build' = [build EXCEPT ![b] = Advanced(r, next)]
FaultIn(b) == build[b].faults < MaxFaults
-----------------------------------------------------------------------------
\* The outputs are staged; a build that fails to transpile never gets here.
Start(b) ==
  /\ At(b, "idle") /\ \A other \in Builds : build[other].at \notin Running
  /\ \E n \in Outputs :
       build' = [build EXCEPT ![b] = [Idle EXCEPT !.at = "copying", !.count = n,
                                                  !.before = final]]
  /\ UNCHANGED <<final, kept, crashes>>

Copy(b) ==
  /\ At(b, "copying")
  /\ Advance(b, [build[b] EXCEPT !.temp = @ \cup {build[b].idx}], "backing")
  /\ UNCHANGED <<final, kept, crashes>>

\* create_dir_all fails: the copies made so far stay behind.
MakeDirFails(b) ==
  /\ At(b, "copying") /\ FaultIn(b)
  /\ build' = [build EXCEPT ![b].at = "failed"]
  /\ UNCHANGED <<final, kept, crashes>>

\* fs::copy fails: the earlier copies go, a partial one may stay.
CopyFails(b) ==
  /\ At(b, "copying") /\ FaultIn(b)
  /\ \E partial \in SUBSET {build[b].idx} :
       build' = [build EXCEPT ![b].at = "failed", ![b].temp = partial]
  /\ UNCHANGED <<final, kept, crashes>>

\* Slips, for the mutant of VersionKept only.
BackUpRemoves(b) ==
  /\ At(b, "backing")
  /\ Advance(b, build[b], "placing")
  /\ final' = [final EXCEPT ![Path(b)] = None]
  /\ UNCHANGED <<kept, crashes>>
BackUp(b) ==
  /\ At(b, "backing")
  /\ Advance(b, [build[b] EXCEPT !.backup[build[b].idx] = final[Path(b)]], "placing")
  /\ final' = [final EXCEPT ![Path(b)] = None]
  /\ UNCHANGED <<kept, crashes>>

\* The copies go, then the backups made so far come back.
BackUpFails(b) ==
  /\ At(b, "backing") /\ FaultIn(b) /\ final[Path(b)] # None
  /\ build' = [build EXCEPT ![b].at = "restoring", ![b].temp = {}, ![b].idx = 1,
                            ![b].faults = @ + 1]
  /\ UNCHANGED <<final, kept, crashes>>

Place(b) ==
  /\ At(b, "placing")
  /\ Advance(b, [build[b] EXCEPT !.temp = @ \ {build[b].idx}], "finishing")
  /\ final' = [final EXCEPT ![Path(b)] = b]
  /\ UNCHANGED <<kept, crashes>>

\* The files placed so far go first, then each output's copy goes and its
\* backup comes back.
PlacedSoFar(b) == {PathOf[i] : i \in 1..(build[b].idx - 1)}
PlaceFails(b) ==
  /\ At(b, "placing") /\ FaultIn(b)
  /\ final' = [p \in Paths |-> IF p \in PlacedSoFar(b) THEN None ELSE final[p]]
  /\ build' = [build EXCEPT ![b].at = "restoring", ![b].idx = 1, ![b].faults = @ + 1]
  /\ UNCHANGED <<kept, crashes>>

\* Slips, for the mutant of EndsWell only.
RestoreAll(b) ==
  /\ At(b, "restoring")
  /\ final' = [final EXCEPT ![Path(b)] = build[b].backup[build[b].idx]]
  /\ Advance(b, [build[b] EXCEPT !.temp = @ \ {build[b].idx},
                                 !.backup[build[b].idx] = None], "failed")
  /\ UNCHANGED <<kept, crashes>>
Restore(b) ==
  /\ At(b, "restoring")
  /\ LET saved == build[b].backup[build[b].idx] IN
       final' = IF saved = None THEN final ELSE [final EXCEPT ![Path(b)] = saved]
  /\ Advance(b, [build[b] EXCEPT !.temp = @ \ {build[b].idx},
                                 !.backup[build[b].idx] = None], "failed")
  /\ UNCHANGED <<kept, crashes>>

\* The last loop removes the backups.
Finish(b) ==
  /\ At(b, "finishing")
  /\ Advance(b, [build[b] EXCEPT !.backup[build[b].idx] = None], "ok")
  /\ kept' = kept \cup {Path(b)}
  /\ UNCHANGED <<final, crashes>>

Crash(b) ==
  /\ build[b].at \in Running /\ crashes < MaxCrashes
  /\ build' = [build EXCEPT ![b].at = "dead"]
  /\ crashes' = crashes + 1
  /\ UNCHANGED <<final, kept>>

Step(b) ==
  \/ Start(b) \/ Copy(b) \/ MakeDirFails(b) \/ CopyFails(b) \/ BackUp(b) \/ BackUpFails(b)
  \/ Place(b) \/ PlaceFails(b) \/ Restore(b) \/ Finish(b)

Next == \E b \in Builds : Step(b) \/ Crash(b)

Spec == Init /\ [][Next]_vars
-----------------------------------------------------------------------------
TypeOK ==
  /\ build \in [Builds -> [at : {"idle"} \cup Running \cup Ended, count : 0..MaxOutputs,
                            idx : Outputs, temp : SUBSET Outputs,
                            backup : [Outputs -> Builds \cup {None}],
                            before : [Paths -> Builds \cup {None}], faults : 0..MaxFaults]]
  /\ final \in [Paths -> Builds \cup {None}]
  /\ kept \subseteq Paths /\ crashes \in 0..MaxCrashes

\* A build that succeeds leaves every output in place, and neither copies nor
\* backups.  One that fails, of a single fault, leaves every path as it was
\* before, new ones absent, and no backup, whatever paths coincide
\* (build.rs:1097,1116).
EndsWell ==
  [][\A b \in Builds : build[b].at \in Running =>
       CASE build'[b].at = "ok" ->
              /\ build'[b].temp = {} /\ build'[b].backup = NoBackups
              /\ \A i \in 1..build[b].count : final'[PathOf[i]] = b
         [] build'[b].at = "failed" -> final' = build[b].before /\ build'[b].backup = NoBackups
         [] OTHER -> TRUE]_vars

\* Once a build has written a path, some build's version of it is on disk, in
\* place or as a backup, whatever fails or dies afterwards (build.rs:1086).
VersionKept ==
  \A p \in kept :
    \/ final[p] # None
    \/ \E b \in Builds, i \in Outputs : PathOf[i] = p /\ build[b].backup[i] # None
=============================================================================
