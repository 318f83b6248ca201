----------------------- MODULE DescriptorBuildProofs -----------------------
(***************************************************************************)
(* Proofs about DescriptorBuild, for any finite sets of processes and      *)
(* units and any number of faults and deaths: its state is well typed, and *)
(* as long as no build removes another lock than the one it has read, the  *)
(* lock keeps builds apart, the artifact map tells the truth and a build   *)
(* ends with its outputs in place or with what it found.                   *)
(*                                                                         *)
(* A step gives one process a new record (Becomes) and at most one staging *)
(* directory another content.  The first part is about such records alone, *)
(* the second about the steps, the third about the lock, the last about    *)
(* the outputs.                                                            *)
(***************************************************************************)
EXTENDS DescriptorBuild, TLAPS

PlaceNames == Running \cup {"idle", "ended", "dead"}
Results == {"none", "ok", "failed", "torn"}
Contents == [Outputs -> Procs \cup {None}]

\* What a process has in memory.
ProcStates ==
  [at : PlaceNames, scan : SUBSET Procs, seen : Procs \cup {None}, tries : 0..3,
   todo : SUBSET Outputs, wants : SUBSET Outputs, before : Contents, result : Results]

StagingStates == [dir : BOOLEAN, tx : BOOLEAN, staged : SUBSET Outputs, replaced : Contents]

\* p goes on with the record r.
Becomes(p, r) == r \in ProcStates /\ proc' = [proc EXCEPT ![p] = r]

BoundsTyped ==
  faults \in 0..MaxFaults /\ crashes \in 0..MaxCrashes /\ spoilt \subseteq Procs

LEMMA TypeParts ==
  TypeOK <=> /\ proc \in [Procs -> ProcStates]
             /\ staging \in [Procs -> StagingStates]
             /\ final \in Contents
             /\ lock \in [by : Procs \cup {None}, pid : Procs \cup {None}]
             /\ BoundsTyped /\ stolen \in BOOLEAN
BY DEF TypeOK, ProcStates, StagingStates, PlaceNames, Results, Contents, BoundsTyped

LEMMA TypePartsNext ==
  TypeOK' <=> /\ proc' \in [Procs -> ProcStates]
              /\ staging' \in [Procs -> StagingStates]
              /\ final' \in Contents
              /\ lock' \in [by : Procs \cup {None}, pid : Procs \cup {None}]
              /\ BoundsTyped' /\ stolen' \in BOOLEAN
BY DEF TypeOK, ProcStates, StagingStates, PlaceNames, Results, Contents, BoundsTyped

LEMMA PlaceFacts ==
  /\ Locked \subseteq PlaceNames
  /\ {"scanning", "checking", "removing", "locking", "reading", "probing", "unlinking", "idle",
      "ended", "dead"} \subseteq PlaceNames \ Locked
  /\ {"idle", "ended", "dead"} \cap Running = {}
BY DEF PlaceNames, Running, Locked

LEMMA Empties ==
  Idle \in ProcStates /\ Nothing \in Contents /\ Gone \in StagingStates
<1>1. Nothing \in Contents
  BY DEF Nothing, Contents
<1>2. "idle" \in PlaceNames /\ 0 \in 0..3
  BY DEF PlaceNames
<1>3. Idle \in ProcStates
  BY <1>1, <1>2 DEF Idle, ProcStates, Results
<1> QED
  BY <1>1, <1>3 DEF Gone, StagingStates

\* The shapes the new record of a process has.
LEMMA GotoRecord ==
  ASSUME NEW r \in ProcStates, NEW place \in PlaceNames
  PROVE  /\ [r EXCEPT !.at = place] \in ProcStates
         /\ [r EXCEPT !.at = place].at = place
         /\ [r EXCEPT !.at = place].seen = r.seen
BY DEF ProcStates

LEMMA LeaveRecord ==
  ASSUME NEW r \in ProcStates, NEW place \in PlaceNames, NEW result \in Results
  PROVE  /\ [r EXCEPT !.at = place, !.result = result, !.todo = {}] \in ProcStates
         /\ [r EXCEPT !.at = place, !.result = result, !.todo = {}].at = place
BY DEF ProcStates

LEMMA ExitRecord ==
  ASSUME NEW r \in ProcStates, NEW place \in PlaceNames
  PROVE  /\ [Idle EXCEPT !.at = place, !.wants = r.wants] \in ProcStates
         /\ [Idle EXCEPT !.at = place, !.wants = r.wants].at = place
<1>1. r.wants \in SUBSET Outputs
  BY DEF ProcStates
<1> QED
  BY <1>1, Empties DEF ProcStates

LEMMA TodoRecord ==
  ASSUME NEW r \in ProcStates, NEW todo \in SUBSET Outputs
  PROVE  /\ [r EXCEPT !.todo = todo] \in ProcStates
         /\ [r EXCEPT !.todo = todo].at = r.at
BY DEF ProcStates

LEMMA LoopRecord ==
  ASSUME NEW r \in ProcStates, NEW place \in PlaceNames, NEW todo \in SUBSET Outputs
  PROVE  /\ [r EXCEPT !.at = place, !.todo = todo] \in ProcStates
         /\ [r EXCEPT !.at = place, !.todo = todo].at = place
BY DEF ProcStates

\* The same three for the processes.
LEMMA GotoBecomes ==
  ASSUME NEW p \in Procs, proc \in [Procs -> ProcStates], NEW place \in PlaceNames,
         Goto(p, place)
  PROVE  \E r \in ProcStates : r.at = place /\ r.seen = proc[p].seen /\ Becomes(p, r)
<1>1. proc' = [proc EXCEPT ![p] = [proc[p] EXCEPT !.at = place]]
  BY DEF Goto
<1>2. proc[p] \in ProcStates
  OBVIOUS
<1> QED
  BY <1>1, <1>2, GotoRecord DEF Becomes

LEMMA LeaveBecomes ==
  ASSUME NEW p \in Procs, proc \in [Procs -> ProcStates], NEW place \in PlaceNames,
         NEW result \in Results, Leave(p, place, result)
  PROVE  \E r \in ProcStates : r.at = place /\ Becomes(p, r)
<1>1. proc' = [proc EXCEPT ![p] = [proc[p] EXCEPT !.at = place, !.result = result, !.todo = {}]]
  BY DEF Leave
<1>2. proc[p] \in ProcStates
  OBVIOUS
<1> QED
  BY <1>1, <1>2, LeaveRecord DEF Becomes

LEMMA ExitBecomes ==
  ASSUME NEW p \in Procs, proc \in [Procs -> ProcStates], NEW place \in PlaceNames,
         Exit(p, place)
  PROVE  \E r \in ProcStates : r.at = place /\ Becomes(p, r)
<1>1. proc' = [proc EXCEPT ![p] = [Idle EXCEPT !.at = place, !.wants = proc[p].wants]]
  BY DEF Exit
<1>2. proc[p] \in ProcStates
  OBVIOUS
<1> QED
  BY <1>1, <1>2, ExitRecord DEF Becomes

\* And those of a staging directory.
LEMMA StagingFlags ==
  ASSUME NEW s \in StagingStates
  PROVE  [s EXCEPT !.dir = TRUE] \in StagingStates /\ [s EXCEPT !.tx = TRUE] \in StagingStates
BY DEF StagingStates

LEMMA StagedRecord ==
  ASSUME NEW s \in StagingStates, NEW S \in SUBSET Outputs
  PROVE  [s EXCEPT !.staged = S] \in StagingStates
BY DEF StagingStates

LEMMA ReplacedRecord ==
  ASSUME NEW s \in StagingStates, NEW o \in Outputs, NEW v \in Procs \cup {None}
  PROVE  [s EXCEPT !.replaced[o] = v] \in StagingStates
BY DEF StagingStates, Contents
-----------------------------------------------------------------------------
\* A step of p that has nothing to do with the lock.
Quiet(p) ==
  /\ ~PidGone(p)
  /\ \E r \in ProcStates :
       /\ Becomes(p, r)
       /\ r.at \notin {"reading", "probing", "unlinking"}
       /\ r.at \in Locked => proc[p].at \in Locked
  /\ UNCHANGED <<lock, stolen>>

FinalTyped == final \in Contents
StagingTyped == staging \in [Procs -> StagingStates]

LEMMA ScanQuiet ==
  ASSUME TypeOK, NEW p \in Procs,
         \/ Start(p) \/ (\E q \in Procs : Examine(p, q) \/ ExamineFails(p, q))
         \/ CheckOwner(p) \/ RemoveStale(p) \/ ScanDone(p)
  PROVE  Quiet(p) /\ StagingTyped' /\ FinalTyped' /\ UNCHANGED <<faults, crashes, spoilt>>
<1>0. /\ proc \in [Procs -> ProcStates] /\ proc[p] \in ProcStates
      /\ staging \in [Procs -> StagingStates] /\ final \in Contents
  BY TypeParts
<1> USE <1>0, PlaceFacts
<1> SUFFICES /\ ~PidGone(p)
             /\ \E r \in ProcStates :
                  /\ Becomes(p, r)
                  /\ r.at \in {"scanning", "checking", "removing", "locking", "ended"}
             /\ StagingTyped' /\ UNCHANGED <<final, lock, bounds>>
  BY DEF Quiet, FinalTyped, bounds
<1>g. proc[p].at \in {"idle", "scanning", "checking", "removing"} => ~PidGone(p)
  BY DEF PidGone, At
<1>1. CASE Start(p)
  <2>1. PICK units \in (SUBSET Units) \ {{}} :
          proc' = [proc EXCEPT ![p] = [Idle EXCEPT !.at = "scanning", !.wants = units \cup {Map},
                                                !.scan = {q \in Procs : staging[q].dir}]]
    BY <1>1 DEF Start
  <2> DEFINE found == {q \in Procs : staging[q].dir}
             wanted == units \cup {Map}
             r == [Idle EXCEPT !.at = "scanning", !.wants = wanted, !.scan = found]
  <2>2. found \in SUBSET Procs /\ wanted \in SUBSET Outputs
    BY DEF Outputs
  <2>3. r \in ProcStates /\ r.at = "scanning"
    <3> HIDE DEF found, wanted
    <3> QED
      BY <2>2, Empties DEF ProcStates
  <2> QED
    BY <1>1, <1>g, <2>1, <2>3 DEF Start, At, Becomes, StagingTyped
<1>2. ASSUME NEW q \in Procs, Examine(p, q)
      PROVE  \E r \in ProcStates : Becomes(p, r) /\ r.at \in {"scanning", "checking"}
  <2> DEFINE s == proc[p]
  <2>1. CASE staging[q].tx
    <3> DEFINE r == [s EXCEPT !.scan = @ \ {q}, !.seen = q, !.at = "checking"]
    <3>1. proc' = [proc EXCEPT ![p] = r]
      BY <1>2, <2>1 DEF Examine
    <3>2. s \in ProcStates
      OBVIOUS
    <3>3. r \in ProcStates /\ r.at = "checking"
      <4> HIDE DEF s
      <4> QED
        BY <3>2 DEF ProcStates
    <3> QED
      BY <3>1, <3>3 DEF Becomes
  <2>2. CASE ~staging[q].tx
    <3> DEFINE r == [s EXCEPT !.scan = @ \ {q}]
    <3>1. proc' = [proc EXCEPT ![p] = r]
      BY <1>2, <2>2 DEF Examine
    <3>2. s \in ProcStates /\ s.at = "scanning"
      BY <1>2 DEF Examine, At
    <3>3. r \in ProcStates /\ r.at = "scanning"
      <4> HIDE DEF s
      <4> QED
        BY <3>2 DEF ProcStates
    <3> QED
      BY <3>1, <3>3 DEF Becomes
  <2> QED
    BY <2>1, <2>2
<1>3. CASE \E q \in Procs : Examine(p, q) \/ ExamineFails(p, q)
  <2>1. CASE \E q \in Procs : Examine(p, q)
    BY <1>g, <1>2, <2>1 DEF Examine, At, StagingTyped
  <2>2. CASE \E q \in Procs : ExamineFails(p, q)
    BY <1>g, <2>2, ExitBecomes DEF ExamineFails, At, StagingTyped
  <2> QED
    BY <1>3, <2>1, <2>2
<1>4. CASE RemoveStale(p)
  <2>1. CASE staging[proc[p].seen].dir
    <3> DEFINE s == proc[p]
               r == [s EXCEPT !.at = "scanning", !.seen = None]
    <3>1. proc' = [proc EXCEPT ![p] = r]
      BY <1>4, <2>1 DEF RemoveStale
    <3>2. s \in ProcStates
      OBVIOUS
    <3>3. r \in ProcStates /\ r.at = "scanning"
      <4> HIDE DEF s
      <4> QED
        BY <3>2 DEF ProcStates
    <3>4. staging' \in [Procs -> StagingStates]
      BY <1>4, <2>1, Empties DEF RemoveStale
    <3> QED
      BY <1>4, <1>g, <3>1, <3>3, <3>4 DEF RemoveStale, At, Becomes, StagingTyped
  <2>2. CASE ~staging[proc[p].seen].dir
    BY <1>4, <1>g, <2>2, ExitBecomes DEF RemoveStale, At, StagingTyped
  <2> QED
    BY <2>1, <2>2
<1>5. CASE ScanDone(p)
  BY <1>5, <1>g, GotoBecomes DEF ScanDone, At, StagingTyped
<1>6. CASE CheckOwner(p)
  <2>1. PICK place \in {"removing", "scanning"} : Goto(p, place)
    BY <1>6 DEF CheckOwner
  <2> QED
    BY <1>6, <1>g, <2>1, GotoBecomes DEF CheckOwner, At, StagingTyped
<1> QED
  BY <1>1, <1>3, <1>4, <1>5, <1>6

LEMMA FaultTyped ==
  ASSUME BoundsTyped, Fault
  PROVE  BoundsTyped' /\ UNCHANGED stolen
BY DescriptorBuildAssumption DEF Fault, BoundsTyped

LEMMA TransactionQuiet ==
  ASSUME TypeOK, NEW p \in Procs,
         \/ WriteLockFails(p) \/ MakeStaging(p) \/ WriteTransaction(p) \/ NewFails(p)
         \/ Build(p) \/ CleanUp(p) \/ Crash(p)
  PROVE  Quiet(p) /\ StagingTyped' /\ FinalTyped' /\ BoundsTyped'
<1>0. /\ proc \in [Procs -> ProcStates] /\ proc[p] \in ProcStates
      /\ staging \in [Procs -> StagingStates] /\ staging[p] \in StagingStates
      /\ final \in Contents /\ BoundsTyped
  BY TypeParts
<1>p. /\ {"making", "naming", "building", "backing", "cleaning", "unlocking"} \subseteq Locked
      /\ Locked \subseteq PlaceNames
      /\ "failed" \in Results /\ "dead" \in PlaceNames \ Locked
      /\ {"reading", "probing", "unlinking"} \cap Locked = {}
  BY PlaceFacts DEF Locked, Results
<1>g. proc[p].at \in Running => ~PidGone(p)
  BY PlaceFacts DEF PidGone, At
<1>r. Locked \subseteq Running
  BY DEF Running
<1>b. UNCHANGED bounds => BoundsTyped' /\ UNCHANGED stolen
  BY <1>0 DEF bounds, BoundsTyped
<1> USE <1>0, <1>p, <1>g, <1>r, <1>b
<1>1. CASE WriteLockFails(p)
  BY <1>1, LeaveBecomes, FaultTyped DEF WriteLockFails, At, Quiet, StagingTyped, FinalTyped, Locked
<1>2. CASE MakeStaging(p)
  <2>1. staging' \in [Procs -> StagingStates]
    <3>1. staging' = [staging EXCEPT ![p] = [staging[p] EXCEPT !.dir = TRUE]]
      BY <1>2 DEF MakeStaging
    <3>2. [staging[p] EXCEPT !.dir = TRUE] \in StagingStates
      BY StagingFlags
    <3> QED
      BY <3>1, <3>2
  <2> QED
    BY <1>2, <2>1, GotoBecomes DEF MakeStaging, At, Quiet, StagingTyped, FinalTyped, Locked
<1>3. CASE WriteTransaction(p)
  <2>1. staging' \in [Procs -> StagingStates]
    <3>1. staging' = [staging EXCEPT ![p] = [staging[p] EXCEPT !.tx = TRUE]]
      BY <1>3 DEF WriteTransaction
    <3>2. [staging[p] EXCEPT !.tx = TRUE] \in StagingStates
      BY StagingFlags
    <3> QED
      BY <3>1, <3>2
  <2> QED
    BY <1>3, <2>1, GotoBecomes
       DEF WriteTransaction, At, Quiet, StagingTyped, FinalTyped, Locked
<1>4. CASE NewFails(p)
  BY <1>4, LeaveBecomes, FaultTyped DEF NewFails, At, Quiet, StagingTyped, FinalTyped, Locked
<1>5. CASE Build(p)
  <2>1. CASE Leave(p, "cleaning", "failed") /\ UNCHANGED staging
    BY <1>5, <2>1, LeaveBecomes DEF Build, At, Quiet, StagingTyped, FinalTyped, Locked
  <2>2. CASE /\ staging' = [staging EXCEPT ![p].staged = proc[p].wants]
             /\ proc' = [proc EXCEPT ![p].at = "backing", ![p].todo = proc[p].wants]
    <3>1. proc[p].wants \in SUBSET Outputs
      BY DEF ProcStates
    <3> DEFINE s == staging[p]
               w == proc[p].wants
               r == proc[p]
    <3>2. [s EXCEPT !.staged = w] \in StagingStates
      <4>1. s \in StagingStates /\ w \in SUBSET Outputs
        BY <3>1
      <4> HIDE DEF s, w
      <4> QED
        BY <4>1 DEF StagingStates
    <3>3. /\ [r EXCEPT !.at = "backing", !.todo = w] \in ProcStates
          /\ [r EXCEPT !.at = "backing", !.todo = w].at = "backing"
      <4>1. r \in ProcStates /\ w \in SUBSET Outputs /\ "backing" \in PlaceNames
        BY <3>1
      <4> HIDE DEF r, w
      <4> QED
        BY <4>1 DEF ProcStates
    <3>4. Becomes(p, [r EXCEPT !.at = "backing", !.todo = w])
      BY <2>2, <3>3 DEF Becomes
    <3> QED
      BY <1>5, <2>2, <3>2, <3>3, <3>4
         DEF Build, At, Quiet, StagingTyped, FinalTyped, Locked
  <2> QED
    BY <1>5, <2>1, <2>2 DEF Build
<1>6. CASE CleanUp(p)
  <2>1. StagingTyped'
    <3>1. ASSUME NEW tx \in BOOLEAN PROVE [Gone EXCEPT !.dir = TRUE, !.tx = tx] \in StagingStates
      BY Empties DEF StagingStates
    <3>2. staging[p].tx \in BOOLEAN
      BY DEF StagingStates
    <3> QED
      BY <1>6, <3>1, <3>2, Empties DEF CleanUp, StagingTyped
  <2>2. BoundsTyped' /\ UNCHANGED stolen
    BY <1>6, FaultTyped DEF CleanUp
  <2> QED
    BY <1>6, <2>1, <2>2, GotoBecomes DEF CleanUp, At, Quiet, FinalTyped, Locked
<1>7. CASE Crash(p)
  BY <1>7, ExitBecomes, DescriptorBuildAssumption
     DEF Crash, At, Quiet, StagingTyped, FinalTyped, BoundsTyped
<1> QED
  BY <1>1, <1>2, <1>3, <1>4, <1>5, <1>6, <1>7

LEMMA CommitQuiet ==
  ASSUME TypeOK, NEW p \in Procs, CommitStep(p)
  PROVE  Quiet(p) /\ StagingTyped' /\ FinalTyped' /\ BoundsTyped'
<1>0. /\ proc \in [Procs -> ProcStates] /\ proc[p] \in ProcStates
      /\ staging \in [Procs -> StagingStates] /\ staging[p] \in StagingStates
      /\ final \in Contents /\ BoundsTyped
  BY TypeParts
<1>p. /\ {"backing", "placing", "undoing", "restoring", "cleaning"} \subseteq Locked
      /\ Locked \subseteq PlaceNames
      /\ {"reading", "probing", "unlinking", "ended", "dead"} \cap Locked = {}
      /\ "failed" \in Results /\ "ok" \in Results /\ "torn" \in Results
  BY PlaceFacts DEF Locked, Results
<1> DEFINE r == proc[p]
           s == staging[p]
<1>r. r \in ProcStates /\ s \in StagingStates /\ r.wants \in SUBSET Outputs
      /\ r.todo \in SUBSET Outputs
  BY <1>0 DEF ProcStates
<1>b. UNCHANGED bounds => BoundsTyped' /\ UNCHANGED stolen
  BY <1>0 DEF bounds, BoundsTyped
<1>g. proc[p].at \in Locked => ~PidGone(p)
  BY <1>p DEF PidGone, At
<1>f. RollbackFails(p) => BoundsTyped' /\ UNCHANGED stolen
  BY <1>0 DEF RollbackFails, BoundsTyped
<1> USE <1>0, <1>p, <1>b, <1>g, <1>f
<1>1. CASE BackUp(p)
  <2>1. PICK o \in Collected(proc[p].todo) :
          /\ proc' = [proc EXCEPT ![p].todo = @ \ {o}]
          /\ staging' = [staging EXCEPT ![p].replaced[o] = final[o]]
          /\ final' = [final EXCEPT ![o] = None]
    BY <1>1 DEF BackUp
  <2>2. o \in Outputs /\ final[o] \in Procs \cup {None}
    BY <1>r DEF Collected, Contents
  <2>3. final' \in Contents
    BY <2>1 DEF Contents
  <2>4. staging' \in [Procs -> StagingStates]
    <3>1. [s EXCEPT !.replaced[o] = final[o]] \in StagingStates
      BY <1>r, <2>2, ReplacedRecord
    <3> QED
      BY <2>1, <3>1
  <2>5. /\ [r EXCEPT !.todo = @ \ {o}] \in ProcStates
        /\ [r EXCEPT !.todo = @ \ {o}].at = r.at
    <3>1. r.todo \ {o} \in SUBSET Outputs
      BY <1>r
    <3> QED
      BY <1>r, <3>1, TodoRecord
  <2> QED
    BY <1>1, <2>1, <2>3, <2>4, <2>5
       DEF BackUp, At, Quiet, Becomes, StagingTyped, FinalTyped
<1>2. CASE BackedUp(p)
  <2>1. /\ [r EXCEPT !.at = "placing", !.todo = r.wants] \in ProcStates
        /\ [r EXCEPT !.at = "placing", !.todo = r.wants].at = "placing"
    <3>1. "placing" \in PlaceNames
      OBVIOUS
    <3> HIDE DEF r
    <3> QED
      BY <1>r, <3>1 DEF ProcStates
  <2> QED
    BY <1>2, <2>1 DEF BackedUp, At, Quiet, Becomes, StagingTyped, FinalTyped
<1>3. CASE BackUpFails(p)
  BY <1>3, LeaveBecomes, FaultTyped DEF BackUpFails, At, Quiet, StagingTyped, FinalTyped
<1>4. CASE Place(p)
  <2>1. PICK o \in Collected(proc[p].todo) \cap staging[p].staged :
          /\ proc' = [proc EXCEPT ![p].todo = @ \ {o}]
          /\ staging' = [staging EXCEPT ![p].staged = @ \ {o}]
          /\ final' = [final EXCEPT ![o] = p]
    BY <1>4 DEF Place
  <2>2. final' \in Contents
    BY <2>1 DEF Contents
  <2>3. staging' \in [Procs -> StagingStates]
    <3>1. s.staged \ {o} \in SUBSET Outputs
      BY <1>r DEF StagingStates
    <3>2. [s EXCEPT !.staged = s.staged \ {o}] \in StagingStates
      BY <1>r, <3>1, StagedRecord
    <3> QED
      BY <2>1, <3>2
  <2>4. /\ [r EXCEPT !.todo = @ \ {o}] \in ProcStates
        /\ [r EXCEPT !.todo = @ \ {o}].at = r.at
    <3>1. r.todo \ {o} \in SUBSET Outputs
      BY <1>r
    <3> QED
      BY <1>r, <3>1, TodoRecord
  <2> QED
    BY <1>4, <2>1, <2>2, <2>3, <2>4
       DEF Place, At, Quiet, Becomes, StagingTyped, FinalTyped
<1>5. CASE PlaceFails(p)
  <2> DEFINE committed == proc[p].wants \ proc[p].todo
  <2>1. /\ [r EXCEPT !.at = "undoing", !.result = "failed", !.todo = committed] \in ProcStates
        /\ [r EXCEPT !.at = "undoing", !.result = "failed", !.todo = committed].at = "undoing"
    <3>1. committed \in SUBSET Outputs /\ "undoing" \in PlaceNames
      BY <1>r
    <3> HIDE DEF r, committed
    <3> QED
      BY <1>r, <3>1 DEF ProcStates
  <2> QED
    BY <1>5, <2>1, FaultTyped DEF PlaceFails, At, Quiet, Becomes, StagingTyped, FinalTyped
<1>6. CASE Undo(p) \/ Restore(p)
  <2>1. PICK o \in proc[p].todo : proc' = [proc EXCEPT ![p].todo = @ \ {o}]
    BY <1>6 DEF Undo, Restore, LastFirst
  <2>2. /\ [r EXCEPT !.todo = @ \ {o}] \in ProcStates
        /\ [r EXCEPT !.todo = @ \ {o}].at = r.at
    <3>1. r.todo \ {o} \in SUBSET Outputs
      BY <1>r
    <3> QED
      BY <1>r, <3>1, TodoRecord
  <2>3. proc[p].at \in Locked /\ UNCHANGED lock
    BY <1>6 DEF Undo, Restore, At
  <2>4. FinalTyped' /\ StagingTyped' /\ BoundsTyped' /\ UNCHANGED stolen
    <3>1. CASE Undo(p)
      BY <3>1 DEF Undo, FinalTyped, StagingTyped, Contents
    <3>2. ASSUME NEW x \in Outputs,
                 final' = [final EXCEPT ![x] = staging[p].replaced[x]],
                 staging' = [staging EXCEPT ![p].replaced[x] = None]
          PROVE  FinalTyped' /\ StagingTyped'
      <4>1. s.replaced[x] \in Procs \cup {None}
        BY <1>r DEF StagingStates, Contents
      <4>2. [s EXCEPT !.replaced[x] = None] \in StagingStates
        BY <1>r, ReplacedRecord
      <4> QED
        BY <3>2, <4>1, <4>2 DEF FinalTyped, StagingTyped, Contents
    <3>3. CASE Restore(p)
      <4>1. LastFirst(proc[p].todo) \subseteq Outputs
        BY <1>r DEF LastFirst
      <4> QED
        BY <3>2, <3>3, <4>1 DEF Restore, FinalTyped, StagingTyped
    <3> QED
      BY <1>6, <3>1, <3>3
  <2> QED
    BY <2>1, <2>2, <2>3, <2>4 DEF Quiet, Becomes
<1>9. CASE Undone(p)
  <2>1. /\ [r EXCEPT !.at = "restoring", !.todo = Displaced(p)] \in ProcStates
        /\ [r EXCEPT !.at = "restoring", !.todo = Displaced(p)].at = "restoring"
    <3>1. Displaced(p) \in SUBSET Outputs /\ "restoring" \in PlaceNames
      BY DEF Displaced
    <3> QED
      BY <1>r, <3>1, LoopRecord
  <2> QED
    BY <1>9, <2>1 DEF Undone, At, Quiet, Becomes, StagingTyped, FinalTyped
<1>7. CASE Restored(p)
  BY <1>7, GotoBecomes DEF Restored, At, Quiet, StagingTyped, FinalTyped
<1>8. CASE Committed(p)
  BY <1>8, LeaveBecomes DEF Committed, At, Quiet, StagingTyped, FinalTyped
<1> QED
  BY <1>1, <1>2, <1>3, <1>4, <1>5, <1>6, <1>7, <1>8, <1>9 DEF CommitStep
-----------------------------------------------------------------------------
(* The lock.                                                               *)

\* A build that is about to remove a lock has seen its owner gone, and the gone
\* stay gone.
SeenGone ==
  \A p \in Procs :
    /\ At(p, "probing") => proc[p].seen \in Procs
    /\ At(p, "unlinking") => proc[p].seen \in Procs /\ PidGone(proc[p].seen)

\* Whoever went past the lock is its creator.
LockHeld == \A p \in Procs : proc[p].at \in Locked => stolen \/ lock.by = p

\* A build looks at a lock only while it may try again.
MayTry ==
  \A p \in Procs : proc[p].at \in {"reading", "probing", "unlinking"} => proc[p].tries < 3

LockInv == SeenGone /\ LockHeld /\ MayTry

Others(p) == \A q \in Procs \ {p} : proc'[q] = proc[q]

LEMMA BecomesAt ==
  ASSUME NEW p \in Procs, proc \in [Procs -> ProcStates], NEW r, Becomes(p, r)
  PROVE  proc' \in [Procs -> ProcStates] /\ proc'[p] = r /\ Others(p)
BY DEF Becomes, Others

LEMMA QuietKeeps ==
  ASSUME TypeOK, LockInv, NEW p \in Procs, Quiet(p)
  PROVE  LockInv' /\ proc' \in [Procs -> ProcStates]
<1>1. PICK r \in ProcStates :
        /\ Becomes(p, r)
        /\ r.at \notin {"reading", "probing", "unlinking"}
        /\ r.at \in Locked => proc[p].at \in Locked
  BY DEF Quiet
<1>2. proc' \in [Procs -> ProcStates] /\ proc'[p] = r /\ Others(p)
  BY <1>1, BecomesAt, TypeParts
<1>3. ~PidGone(p) /\ UNCHANGED <<lock, stolen>>
  BY DEF Quiet
<1>5. SeenGone'
  BY <1>1, <1>2, <1>3 DEF LockInv, SeenGone, PidGone, At, Others
<1>6. LockHeld'
  BY <1>1, <1>2, <1>3 DEF LockInv, LockHeld, Others
<1>7. MayTry'
  BY <1>1, <1>2 DEF LockInv, MayTry, Others
<1> QED
  BY <1>2, <1>5, <1>6, <1>7 DEF LockInv

LockTyped == lock \in [by : Procs \cup {None}, pid : Procs \cup {None}]

LEMMA LockStepKeeps ==
  ASSUME TypeOK, LockInv, NEW p \in Procs,
         \/ CreateLock(p) \/ ReadLock(p) \/ ProbePid(p) \/ Unlink(p)
         \/ WriteLock(p) \/ DropLock(p)
  PROVE  /\ LockInv' /\ proc' \in [Procs -> ProcStates] /\ LockTyped' /\ stolen' \in BOOLEAN
         /\ BoundsTyped' /\ UNCHANGED <<staging, final>>
<1>0. /\ proc \in [Procs -> ProcStates] /\ proc[p] \in ProcStates
      /\ final \in Contents /\ LockTyped /\ stolen \in BOOLEAN
      /\ BoundsTyped
  BY TypeParts DEF LockTyped
<1>p. /\ {"writing", "making", "unlocking"} \subseteq Locked /\ Locked \subseteq PlaceNames
      /\ {"reading", "probing", "unlinking", "locking", "ended", "dead"} \subseteq PlaceNames \ Locked
      /\ None \notin Procs
  BY PlaceFacts, DescriptorBuildAssumption DEF Locked
<1>n. Free.by = None /\ Free.pid = None /\ Free \in [by : Procs \cup {None}, pid : Procs \cup {None}]
  BY DEF Free
<1>b. UNCHANGED bounds => BoundsTyped' /\ stolen' = stolen
  BY <1>0 DEF bounds, BoundsTyped
<1>g. proc[p].at \in {"locking", "reading", "probing", "unlinking", "writing", "unlocking"} =>
        ~PidGone(p)
  BY DEF PidGone, At
<1> DEFINE s == proc[p]
<1>1. CASE CreateLock(p)
  <2>1. CASE /\ lock = Free
             /\ lock' = [by |-> p, pid |-> None]
             /\ proc' = [proc EXCEPT ![p].at = "writing", ![p].tries = 0, ![p].before = final]
    <3> DEFINE r == [s EXCEPT !.at = "writing", !.tries = 0, !.before = final]
    <3>1. r \in ProcStates /\ r.at = "writing"
      <4>1. s \in ProcStates /\ "writing" \in PlaceNames /\ 0 \in 0..3
        BY <1>0, <1>p
      <4> HIDE DEF s
      <4> QED
        BY <1>0, <4>1 DEF ProcStates
    <3>2. proc' = [proc EXCEPT ![p] = r]
      BY <2>1
    <3> HIDE DEF r
    <3>3. proc' \in [Procs -> ProcStates] /\ proc'[p] = r /\ Others(p)
      BY <1>0, <3>1, <3>2, BecomesAt DEF Becomes
    <3>4. lock'.by = p /\ lock'.pid = None /\ LockTyped' /\ stolen' = stolen
      BY <1>1, <2>1 DEF LockTyped, CreateLock, bounds
    <3>5. SeenGone'
      BY <1>1, <1>p, <3>1, <3>3 DEF LockInv, SeenGone, PidGone, At, Others, CreateLock
    <3>6. LockHeld'
      BY <1>p, <1>n, <2>1, <3>3, <3>4 DEF LockInv, LockHeld, Others
    <3>7. MayTry'
      BY <3>1, <3>3 DEF LockInv, MayTry, Others
    <3> QED
      BY <1>0, <1>1, <1>b, <3>3, <3>4, <3>5, <3>6, <3>7 DEF LockInv, CreateLock
  <2>2. CASE proc[p].tries < 3 /\ Goto(p, "reading") /\ UNCHANGED lock
    <3> DEFINE r == [s EXCEPT !.at = "reading"]
    <3>1. r \in ProcStates /\ r.at = "reading" /\ r.tries < 3
      <4>1. s \in ProcStates /\ "reading" \in PlaceNames /\ s.tries < 3
        BY <1>0, <1>p, <2>2
      <4> HIDE DEF s
      <4> QED
        BY <4>1 DEF ProcStates
    <3>2. proc' = [proc EXCEPT ![p] = r]
      BY <2>2 DEF Goto
    <3> HIDE DEF r
    <3>3. proc' \in [Procs -> ProcStates] /\ proc'[p] = r /\ Others(p)
      BY <1>0, <3>1, <3>2, BecomesAt DEF Becomes
    <3>4. SeenGone'
      BY <1>1, <3>1, <3>3 DEF LockInv, SeenGone, PidGone, At, Others, CreateLock
    <3>5. LockHeld'
      BY <1>1, <1>p, <2>2, <3>1, <3>3 DEF LockInv, LockHeld, Others, CreateLock, bounds
    <3>6. MayTry'
      BY <3>1, <3>3 DEF LockInv, MayTry, Others
    <3> QED
      BY <1>0, <1>1, <1>b, <2>2, <3>3, <3>4, <3>5, <3>6 DEF LockInv, CreateLock, LockTyped
  <2>3. CASE Exit(p, "ended") /\ UNCHANGED lock
    <3>1. Quiet(p)
      BY <1>0, <1>1, <1>p, <1>b, <1>g, <2>3, ExitBecomes DEF Quiet, CreateLock, At
    <3> QED
      BY <1>0, <1>1, <1>b, <2>3, <3>1, QuietKeeps DEF CreateLock, LockTyped
  <2> QED
    BY <1>1, <2>1, <2>2, <2>3 DEF CreateLock
<1>2. CASE ReadLock(p)
  <2>1. CASE lock.pid # None
    <3> DEFINE r == [s EXCEPT !.at = "probing", !.seen = lock.pid]
    <3>1. r \in ProcStates /\ r.at = "probing" /\ r.seen \in Procs /\ r.tries < 3
      <4>1. s \in ProcStates /\ "probing" \in PlaceNames /\ s.tries < 3 /\ lock.pid \in Procs
        BY <1>0, <1>2, <1>p, <2>1 DEF LockInv, MayTry, ReadLock, At, LockTyped
      <4> HIDE DEF s
      <4> QED
        BY <4>1 DEF ProcStates
    <3>2. proc' = [proc EXCEPT ![p] = r]
      BY <1>2, <2>1 DEF ReadLock
    <3> HIDE DEF r
    <3>3. proc' \in [Procs -> ProcStates] /\ proc'[p] = r /\ Others(p)
      BY <1>0, <3>1, <3>2, BecomesAt DEF Becomes
    <3>4. SeenGone'
      BY <1>2, <1>g, <3>1, <3>3 DEF LockInv, SeenGone, PidGone, At, Others, ReadLock
    <3>5. LockHeld'
      BY <1>2, <1>p, <3>1, <3>3 DEF LockInv, LockHeld, Others, ReadLock, bounds
    <3>6. MayTry'
      BY <3>1, <3>3 DEF LockInv, MayTry, Others
    <3> QED
      BY <1>0, <1>2, <1>b, <3>3, <3>4, <3>5, <3>6 DEF LockInv, ReadLock, LockTyped
  <2>2. CASE lock.pid = None
    <3>1. Quiet(p)
      BY <1>0, <1>2, <1>p, <1>b, <1>g, <2>2, ExitBecomes DEF Quiet, ReadLock, At
    <3> QED
      BY <1>0, <1>2, <1>b, <2>2, <3>1, QuietKeeps DEF ReadLock, LockTyped
  <2> QED
    BY <2>1, <2>2
<1>6. CASE ProbePid(p)
  <2>1. CASE PidGone(proc[p].seen)
    <3>1. PICK r \in ProcStates : r.at = "unlinking" /\ r.seen = proc[p].seen /\ Becomes(p, r)
      BY <1>0, <1>6, <1>p, <2>1, GotoBecomes DEF ProbePid
    <3>2. proc' \in [Procs -> ProcStates] /\ proc'[p] = r /\ Others(p)
      BY <1>0, <3>1, BecomesAt
    <3>3. proc[p].seen \in Procs /\ proc[p].seen # p /\ proc[p].tries < 3
      BY <1>6, <1>g, <2>1 DEF LockInv, SeenGone, MayTry, ProbePid, At
    <3>4. SeenGone'
      BY <1>6, <1>g, <2>1, <3>1, <3>2, <3>3 DEF LockInv, SeenGone, PidGone, At, Others, ProbePid
    <3>5. LockHeld'
      BY <1>6, <1>p, <3>1, <3>2 DEF LockInv, LockHeld, Others, ProbePid, bounds
    <3>6. MayTry'
      <4>1. r.tries = proc[p].tries
        BY <1>0, <1>6, <2>1, <3>2 DEF ProbePid, Goto, ProcStates
      <4> QED
        BY <3>2, <3>3, <4>1 DEF LockInv, MayTry, Others
    <3> QED
      BY <1>0, <1>6, <1>b, <3>2, <3>4, <3>5, <3>6 DEF LockInv, ProbePid, LockTyped
  <2>2. CASE ~PidGone(proc[p].seen)
    <3>1. Quiet(p)
      BY <1>0, <1>6, <1>p, <1>b, <1>g, <2>2, ExitBecomes DEF Quiet, ProbePid, At
    <3> QED
      BY <1>0, <1>6, <1>b, <2>2, <3>1, QuietKeeps DEF ProbePid, LockTyped
  <2> QED
    BY <2>1, <2>2
<1>3. CASE Unlink(p)
  <2>1. CASE lock = Free
    <3>1. Quiet(p)
      BY <1>0, <1>3, <1>p, <1>g, <2>1, ExitBecomes DEF Quiet, Unlink, At
    <3> QED
      BY <1>0, <1>3, <2>1, <3>1, QuietKeeps DEF Unlink, LockTyped, BoundsTyped
  <2>2. CASE lock # Free
    <3> DEFINE r == [s EXCEPT !.at = "locking", !.seen = None, !.tries = @ + 1]
    <3>1. r.at = "locking" /\ r \in ProcStates
      <4>1. s \in ProcStates /\ "locking" \in PlaceNames /\ s.tries < 3
        BY <1>0, <1>3, <1>p DEF LockInv, MayTry, Unlink, At
      <4>2. s.tries + 1 \in 0..3
        <5> HIDE DEF s
        <5> QED
          BY <4>1 DEF ProcStates
      <4> HIDE DEF s
      <4> QED
        BY <4>1, <4>2 DEF ProcStates
    <3>2. proc' = [proc EXCEPT ![p] = r] /\ lock' = Free
          /\ stolen' = (stolen \/ lock.by # proc[p].seen)
      BY <1>3, <2>2 DEF Unlink
    <3> HIDE DEF r
    <3>3. proc' \in [Procs -> ProcStates] /\ proc'[p] = r /\ Others(p)
      BY <1>0, <3>1, <3>2, BecomesAt DEF Becomes
    <3>4. SeenGone'
      BY <1>3, <3>1, <3>3 DEF LockInv, SeenGone, PidGone, At, Others, Unlink
    <3>5. LockHeld'
      <4> SUFFICES ASSUME NEW q \in Procs, proc'[q].at \in Locked
                   PROVE  stolen'
        BY DEF LockHeld
      <4>1. q # p /\ proc[q].at \in Locked
        BY <1>p, <3>1, <3>3 DEF Others
      <4>2. stolen \/ lock.by = q
        BY <4>1 DEF LockInv, LockHeld
      <4>3. proc[p].seen \in Procs /\ proc[proc[p].seen].at \in {"dead", "ended"}
        BY <1>3 DEF LockInv, SeenGone, PidGone, Unlink, At
      <4> QED
        BY <1>0, <1>p, <3>2, <4>1, <4>2, <4>3
    <3>6. MayTry'
      BY <3>1, <3>3 DEF LockInv, MayTry, Others
    <3> QED
      BY <1>0, <1>3, <1>n, <3>2, <3>3, <3>4, <3>5, <3>6
         DEF LockInv, Unlink, LockTyped, BoundsTyped
  <2> QED
    BY <2>1, <2>2
<1>4. CASE WriteLock(p)
  <2>1. PICK r \in ProcStates : r.at = "making" /\ Becomes(p, r)
    BY <1>0, <1>4, <1>p, GotoBecomes DEF WriteLock
  <2>2. proc' \in [Procs -> ProcStates] /\ proc'[p] = r /\ Others(p)
    BY <1>0, <2>1, BecomesAt
  <2>3. LockTyped' /\ lock'.by = lock.by
    <3>1. CASE lock.by = p
      <4>1. lock' = [lock EXCEPT !.pid = p]
        BY <1>4, <3>1 DEF WriteLock
      <4> QED
        BY <1>0, <3>1, <4>1 DEF LockTyped
    <3>2. CASE lock.by # p
      BY <1>0, <1>4, <3>2 DEF WriteLock, LockTyped
    <3> QED
      BY <3>1, <3>2
  <2>4. SeenGone'
    BY <1>4, <2>1, <2>2 DEF LockInv, SeenGone, PidGone, At, Others, WriteLock
  <2>5. LockHeld'
    BY <1>4, <1>p, <2>1, <2>2, <2>3 DEF LockInv, LockHeld, Others, WriteLock, bounds, At
  <2>6. MayTry'
    BY <2>1, <2>2 DEF LockInv, MayTry, Others
  <2> QED
    BY <1>0, <1>4, <1>b, <2>2, <2>3, <2>4, <2>5, <2>6 DEF LockInv, WriteLock
<1>5. CASE DropLock(p)
  <2>1. PICK r \in ProcStates : r.at = "ended" /\ Becomes(p, r)
    BY <1>0, <1>5, <1>p, ExitBecomes DEF DropLock
  <2>2. proc' \in [Procs -> ProcStates] /\ proc'[p] = r /\ Others(p)
    BY <1>0, <2>1, BecomesAt
  <2>3. LockTyped' /\ lock' \in {lock, Free} /\ BoundsTyped' /\ stolen' = stolen
    BY <1>0, <1>5, <1>n, <1>b, FaultTyped DEF DropLock, LockTyped
  <2>4. SeenGone'
    BY <1>5, <2>1, <2>2 DEF LockInv, SeenGone, PidGone, At, Others, DropLock
  <2>5. LockHeld'
    BY <1>5, <1>p, <2>1, <2>2, <2>3 DEF LockInv, LockHeld, Others, DropLock, At
  <2>6. MayTry'
    BY <2>1, <2>2 DEF LockInv, MayTry, Others
  <2> QED
    BY <1>0, <1>5, <2>2, <2>3, <2>4, <2>5, <2>6 DEF LockInv, DropLock
<1> QED
  BY <1>1, <1>2, <1>3, <1>4, <1>5, <1>6
-----------------------------------------------------------------------------
IInv == TypeOK /\ LockInv

LEMMA Started == Init => IInv
<1> SUFFICES ASSUME Init PROVE IInv
  OBVIOUS
<1>1. TypeOK
  <2>1. 0 \in 0..MaxFaults /\ 0 \in 0..MaxCrashes
    BY DescriptorBuildAssumption
  <2>2. Free \in [by : Procs \cup {None}, pid : Procs \cup {None}]
    BY DEF Free
  <2> QED
    BY <2>1, <2>2, Empties, TypeParts DEF Init, BoundsTyped
<1>2. \A p \in Procs : proc[p].at = "idle"
  BY DEF Init, Idle
<1>3. LockInv
  BY <1>2, PlaceFacts DEF Init, LockInv, SeenGone, LockHeld, MayTry, At
<1> QED
  BY <1>1, <1>3 DEF IInv

LEMMA Kept == IInv /\ [Next]_vars => IInv'
<1> SUFFICES ASSUME IInv, [Next]_vars PROVE IInv'
  OBVIOUS
<1>0. TypeOK /\ LockInv
  BY DEF IInv
<1>1. ASSUME NEW p \in Procs, Quiet(p), StagingTyped', FinalTyped',
             BoundsTyped'
      PROVE  IInv'
  <2>1. LockInv' /\ proc' \in [Procs -> ProcStates]
    BY <1>0, <1>1, QuietKeeps
  <2>2. /\ lock' \in [by : Procs \cup {None}, pid : Procs \cup {None}]
        /\ stolen' \in BOOLEAN
    BY <1>0, <1>1, TypeParts DEF Quiet
  <2>3. TypeOK'
    BY <1>1, <2>1, <2>2, TypePartsNext DEF StagingTyped, FinalTyped
  <2> QED
    BY <2>1, <2>3 DEF IInv
<1>2. ASSUME NEW p \in Procs, Step(p) \/ Crash(p)
      PROVE  IInv'
  <2>1. CASE \/ Start(p) \/ (\E q \in Procs : Examine(p, q) \/ ExamineFails(p, q))
             \/ CheckOwner(p) \/ RemoveStale(p) \/ ScanDone(p)
    BY <1>0, <1>1, <2>1, ScanQuiet, TypeParts DEF BoundsTyped
  <2>2. CASE \/ WriteLockFails(p) \/ MakeStaging(p) \/ WriteTransaction(p) \/ NewFails(p)
             \/ Build(p) \/ CleanUp(p) \/ Crash(p)
    BY <1>0, <1>1, <2>2, TransactionQuiet
  <2>3. CASE CommitStep(p)
    BY <1>0, <1>1, <2>3, CommitQuiet
  <2>4. CASE \/ CreateLock(p) \/ ReadLock(p) \/ ProbePid(p) \/ Unlink(p)
             \/ WriteLock(p) \/ DropLock(p)
    <3>1. /\ LockInv' /\ proc' \in [Procs -> ProcStates] /\ LockTyped' /\ stolen' \in BOOLEAN
          /\ BoundsTyped' /\ UNCHANGED <<staging, final>>
      BY <1>0, <2>4, LockStepKeeps
    <3>2. TypeOK'
      BY <1>0, <3>1, TypeParts, TypePartsNext DEF LockTyped
    <3> QED
      BY <3>1, <3>2 DEF IInv
  <2> QED
    BY <1>2, <2>1, <2>2, <2>3, <2>4 DEF Step, AcquireStep
<1>3. CASE UNCHANGED vars
  BY <1>0, <1>3
     DEF IInv, vars, TypeOK, LockInv, SeenGone, LockHeld, MayTry, PidGone, At
<1> QED
  BY <1>2, <1>3 DEF Next

\* The state of the builds, their staging directories, the committed outputs
\* and the lock stay well typed; no build tries the lock a fourth time.
THEOREM TypeCorrect == Spec => []TypeOK
<1>1. IInv => TypeOK
  BY DEF IInv
<1> QED
  BY Started, Kept, <1>1, PTL DEF Spec
-----------------------------------------------------------------------------
(***************************************************************************)
(* The outputs.  While no foreign lock was removed, one build at a time    *)
(* works on them; what is in place, what it has displaced and what it      *)
(* found (before) hang together at each of its steps.  The parts are about *)
(* a process p with the record r, the committed outputs F, the outputs R   *)
(* it has displaced and the builds S whose rollback was spoilt.            *)
(***************************************************************************)
\* Before its build is over, a process has an empty staging directory.
Early == {"scanning", "checking", "removing", "locking", "reading", "probing", "unlinking",
          "writing", "making"}

RemovesGone ==
  \A p \in Procs :
    /\ At(p, "checking") => proc[p].seen \in Procs
    /\ At(p, "removing") => proc[p].seen \in Procs /\ PidGone(proc[p].seen)
\* Nothing was made by a process that has not started.
Unborn ==
  \A p \in Procs : At(p, "idle") => \A o \in Outputs :
    final[o] # p /\ \A q \in Procs : proc[q].before[o] # p /\ staging[q].replaced[o] # p
Wanting == \A p \in Procs : proc[p].at \in Running => Map \in proc[p].wants
Clean ==
  \A p \in Procs : proc[p].at \in Early \cup {"idle"} => staging[p].replaced = Nothing
Side == RemovesGone /\ Unborn /\ Wanting /\ Clean

\* The map in f names as its own only outputs of its own build, missing ones and
\* those that a spoilt rollback has left.
Honest(a, f, S) == f[Map] # None => \A o \in a[f[Map]].wants : f[o] \in {f[Map], None} \cup S

MapLast(T) == T # {} => Map \in T
Untouched(r, F, R) == F = r.before /\ R = Nothing
Displacing(r, F, R) ==
  /\ r.todo \subseteq r.wants /\ MapLast(r.todo)
  /\ \A o \in Outputs : IF o \in r.wants \ r.todo THEN F[o] = None /\ R[o] = r.before[o]
                                                 ELSE F[o] = r.before[o] /\ R[o] = None
Replacing(p, r, F, R) ==
  /\ r.todo \subseteq r.wants /\ MapLast(r.todo)
  /\ \A o \in Outputs : IF o \in r.wants
       THEN F[o] = (IF o \in r.todo THEN None ELSE p) /\ R[o] = r.before[o]
       ELSE F[o] = r.before[o] /\ R[o] = None
\* Without a failing call in the rollback only the outputs still to be removed
\* are p's, ...
Undoing(p, r, F, R, S) ==
  /\ r.result = "failed" /\ F[Map] = None /\ r.todo \subseteq r.wants
  /\ \A o \in Outputs : IF o \in r.wants
       THEN R[o] = r.before[o] /\ (F[o] = None \/ (F[o] = p /\ (o \in r.todo \/ p \in S)))
       ELSE F[o] = r.before[o] /\ R[o] = None
\* ... and then only those still to be brought back are not as they were.
Reverting(p, r, F, R, S) ==
  /\ r.result = "failed" /\ F[Map] \in {None, r.before[Map]}
  /\ \A o \in Outputs :
       /\ R[o] \in {None, r.before[o]}
       /\ F[o] \in {None, r.before[o]} \/ (F[o] = p /\ p \in S)
       /\ p \notin S => IF o \in r.todo THEN R[o] = r.before[o] ELSE F[o] = r.before[o]
Over(p, r, F, S) ==
  \/ r.result = "ok" /\ \A o \in r.wants : F[o] = p
  \/ /\ r.result = "failed" /\ (p \notin S => F = r.before)
     /\ \A o \in Outputs : F[o] \in {None, r.before[o], p}
  \/ r.result = "torn" /\ \A o \in Outputs : F[o] \in {r.before[o], None}
Progress(p, r, F, R, S) ==
  /\ r.at \in {"writing", "making", "naming", "building"} => Untouched(r, F, R)
  /\ r.at = "backing" => Displacing(r, F, R)
  /\ r.at = "placing" => Replacing(p, r, F, R)
  /\ r.at = "undoing" => Undoing(p, r, F, R, S)
  /\ r.at = "restoring" => Reverting(p, r, F, R, S)
  /\ r.at \in {"cleaning", "unlocking"} => Over(p, r, F, S)

InStep ==
  ~stolen => /\ Honest(proc, final, spoilt)
             /\ \A p \in Procs : proc[p].at \in Locked =>
                  /\ Honest(proc, proc[p].before, spoilt)
                  /\ Progress(p, proc[p], final, staging[p].replaced, spoilt)

\* Honesty is about the builds the map names, and survives missing outputs.
LEMMA HonestKept ==
  ASSUME NEW CONSTANT a, NEW CONSTANT b, NEW CONSTANT f \in Contents,
         NEW CONSTANT S, NEW CONSTANT T, S \subseteq T, Honest(a, f, S),
         \A q \in Procs : f[Map] = q => b[q].wants = a[q].wants
  PROVE  Honest(b, f, T)
BY DEF Honest, Contents, Outputs

LEMMA HonestThinner ==
  ASSUME NEW CONSTANT a \in [Procs -> ProcStates], NEW CONSTANT f \in Contents,
         NEW CONSTANT g, NEW CONSTANT S, NEW CONSTANT T, S \subseteq T, Honest(a, f, S),
         g[Map] \in {f[Map], None}, \A o \in Outputs : g[o] \in {f[o], None} \cup T
  PROVE  Honest(a, g, T)
<1> SUFFICES ASSUME g[Map] # None, NEW o \in a[g[Map]].wants
             PROVE  g[o] \in {g[Map], None} \cup T
  BY DEF Honest
<1>1. g[Map] = f[Map] /\ f[Map] \in Procs
  BY DEF Contents, Outputs
<1>2. a[f[Map]].wants \subseteq Outputs
  BY <1>1 DEF ProcStates
<1>3. o \in Outputs /\ f[o] \in {f[Map], None} \cup S
  BY <1>1, <1>2 DEF Honest
<1> QED
  BY <1>1, <1>3

\* What the side conditions need of a step of p.
Tidy(p) ==
  /\ ~PidGone(p) /\ proc'[p].at # "idle" /\ Others(p)
  /\ proc'[p].at = "checking" => proc'[p].seen \in Procs
  /\ proc'[p].at = "removing" => proc'[p].seen \in Procs /\ PidGone(proc'[p].seen)
  /\ proc'[p].at \in Running => Map \in proc'[p].wants
  /\ proc'[p].at \in Early => staging'[p].replaced = Nothing
  /\ \A o \in Outputs :
       /\ final'[o] \in {None, p, final[o], staging[p].replaced[o]}
       /\ proc'[p].before[o] \in {None, proc[p].before[o], final[o]}
       /\ staging'[p].replaced[o] \in {None, staging[p].replaced[o], final[o]}
  /\ \A q \in Procs \ {p} : staging'[q].replaced \in {staging[q].replaced, Nothing}

LEMMA SideKept ==
  ASSUME TypeOK, Side, NEW p \in Procs, Tidy(p)
  PROVE  Side'
<1>1. RemovesGone'
  BY DEF Side, RemovesGone, PidGone, Tidy, Others, At
<1>2. Unborn'
  <2> SUFFICES ASSUME NEW u \in Procs, proc'[u].at = "idle", NEW o \in Outputs
               PROVE  /\ final'[o] # u
                      /\ \A q \in Procs : proc'[q].before[o] # u /\ staging'[q].replaced[o] # u
    BY DEF Unborn, At
  <2>1. u # p /\ u # None /\ proc[u].at = "idle"
    BY DescriptorBuildAssumption DEF Tidy, Others
  <2>2. final[o] # u /\ \A q \in Procs : proc[q].before[o] # u /\ staging[q].replaced[o] # u
    BY <2>1 DEF Side, Unborn, At
  <2>3. final'[o] # u /\ proc'[p].before[o] # u /\ staging'[p].replaced[o] # u
    BY <2>1, <2>2 DEF Tidy
  <2>4. ASSUME NEW q \in Procs, q # p
        PROVE  proc'[q].before[o] # u /\ staging'[q].replaced[o] # u
    BY <2>1, <2>2, <2>4 DEF Tidy, Others, Nothing
  <2> QED
    BY <2>3, <2>4
<1>3. Wanting'
  BY DEF Side, Wanting, Tidy, Others
<1>4. Clean'
  BY DEF Side, Clean, Tidy, Others
<1> QED
  BY <1>1, <1>2, <1>3, <1>4 DEF Side

\* A step of a process that does not hold the lock afterwards.
LEMMA PassiveKept ==
  ASSUME TypeOK, Side, InStep, NEW p \in Procs, Others(p),
         proc'[p].at \notin Locked, UNCHANGED <<final, spoilt>>, stolen => stolen',
         proc[p].at = "idle" \/ proc'[p].wants = proc[p].wants,
         \A q \in Procs \ {p} : proc[q].at \in Locked =>
           staging'[q].replaced = staging[q].replaced
  PROVE  InStep'
<1>1. /\ proc \in [Procs -> ProcStates] /\ final \in Contents
      /\ \A q \in Procs : proc[q].before \in Contents
  BY TypeParts DEF ProcStates
<1>2. ASSUME NEW CONSTANT f \in Contents, Honest(proc, f, spoilt),
             proc[p].at = "idle" => f[Map] # p
      PROVE  Honest(proc', f, spoilt')
  <2>1. \A q \in Procs : f[Map] = q => proc'[q].wants = proc[q].wants
    BY <1>2 DEF Others
  <2> PICK a, b, S : a = proc /\ b = proc' /\ S = spoilt
    OBVIOUS
  <2>2. Honest(a, f, S) /\ \A q \in Procs : f[Map] = q => b[q].wants = a[q].wants
    BY <1>2, <2>1
  <2>3. Honest(b, f, S)
    BY <2>2, HonestKept
  <2> QED
    BY <2>3
<1> SUFFICES ASSUME ~stolen'
             PROVE  /\ Honest(proc', final', spoilt')
                    /\ \A q \in Procs : proc'[q].at \in Locked =>
                         /\ Honest(proc', proc'[q].before, spoilt')
                         /\ Progress(q, proc'[q], final', staging'[q].replaced, spoilt')
  BY DEF InStep
<1>3. /\ Honest(proc, final, spoilt)
      /\ \A q \in Procs : proc[q].at \in Locked =>
           /\ Honest(proc, proc[q].before, spoilt)
           /\ Progress(q, proc[q], final, staging[q].replaced, spoilt)
  BY DEF InStep
<1>4. proc[p].at = "idle" => final[Map] # p /\ \A q \in Procs : proc[q].before[Map] # p
  BY DEF Side, Unborn, At, Outputs
<1>5. Honest(proc', final', spoilt')
  <2> PICK f : f = final
    OBVIOUS
  <2>1. f \in Contents /\ Honest(proc, f, spoilt) /\ (proc[p].at = "idle" => f[Map] # p)
    BY <1>1, <1>3, <1>4
  <2> QED
    BY <1>2, <2>1
<1>6. ASSUME NEW q \in Procs, proc'[q].at \in Locked
      PROVE  /\ Honest(proc', proc'[q].before, spoilt')
             /\ Progress(q, proc'[q], final', staging'[q].replaced, spoilt')
  <2>1. q # p /\ proc'[q] = proc[q]
    BY <1>6 DEF Others
  <2>2. Honest(proc', proc[q].before, spoilt')
    <3> PICK f : f = proc[q].before
      OBVIOUS
    <3>1. f \in Contents /\ Honest(proc, f, spoilt) /\ (proc[p].at = "idle" => f[Map] # p)
      BY <1>1, <1>3, <1>4, <1>6, <2>1
    <3> QED
      BY <1>2, <3>1
  <2>3. staging'[q].replaced = staging[q].replaced
    BY <1>6, <2>1
  <2> QED
    BY <1>3, <1>6, <2>1, <2>2, <2>3
<1> QED
  BY <1>5, <1>6

\* A step of the one process that holds the lock afterwards.
LEMMA OwnerKept ==
  ASSUME TypeOK, LockInv', NEW p \in Procs, Others(p), TypeOK',
         proc'[p].at \in Locked, proc'[p].wants = proc[p].wants,
         ~stolen' => /\ Honest(proc, final', spoilt') /\ Honest(proc, proc'[p].before, spoilt')
                     /\ Progress(p, proc'[p], final', staging'[p].replaced, spoilt')
  PROVE  InStep'
<1> SUFFICES ASSUME ~stolen'
             PROVE  /\ Honest(proc', final', spoilt')
                    /\ \A q \in Procs : proc'[q].at \in Locked =>
                         /\ Honest(proc', proc'[q].before, spoilt')
                         /\ Progress(q, proc'[q], final', staging'[q].replaced, spoilt')
  BY DEF InStep
<1>1. \A q \in Procs : proc'[q].at \in Locked => q = p
  BY DEF LockInv, LockHeld
<1>2. final' \in Contents /\ proc'[p].before \in Contents
  BY TypePartsNext DEF ProcStates
<1>3. ASSUME NEW CONSTANT f \in Contents, Honest(proc, f, spoilt')
      PROVE  Honest(proc', f, spoilt')
  <2>1. \A q \in Procs : proc'[q].wants = proc[q].wants
    BY DEF Others
  <2> PICK a, b, S : a = proc /\ b = proc' /\ S = spoilt'
    OBVIOUS
  <2>2. Honest(a, f, S) /\ \A q \in Procs : b[q].wants = a[q].wants
    BY <1>3, <2>1
  <2>3. Honest(b, f, S)
    BY <2>2, HonestKept
  <2> QED
    BY <2>3
<1>4. Honest(proc', final', spoilt') /\ Honest(proc', proc'[p].before, spoilt')
  <2> PICK f, g : f = final' /\ g = proc'[p].before
    OBVIOUS
  <2>1. f \in Contents /\ g \in Contents /\ Honest(proc, f, spoilt') /\ Honest(proc, g, spoilt')
    BY <1>2
  <2>2. Honest(proc', f, spoilt') /\ Honest(proc', g, spoilt')
    BY <1>3, <2>1
  <2> QED
    BY <2>2
<1> QED
  BY <1>1, <1>4
-----------------------------------------------------------------------------
\* A step of p that leaves it without the lock.
Bystands(p) ==
  /\ Others(p) /\ ~PidGone(p) /\ proc'[p].at \notin Locked \cup {"idle"}
  /\ proc'[p].at = "checking" => proc'[p].seen \in Procs
  /\ proc'[p].at = "removing" => proc'[p].seen \in Procs /\ PidGone(proc'[p].seen)
  /\ proc'[p].at \in Running => Map \in proc'[p].wants
  /\ proc'[p].at \in Early => proc[p].at \in Early \cup {"idle"}
  /\ proc[p].at = "idle" \/ proc'[p].wants = proc[p].wants
  /\ proc'[p].before \in {proc[p].before, Nothing}
  /\ UNCHANGED <<final, spoilt>> /\ (stolen => stolen')
  /\ \A q \in Procs : \/ staging'[q].replaced = staging[q].replaced
                      \/ PidGone(q) /\ staging'[q].replaced = Nothing

LEMMA BystanderKept ==
  ASSUME TypeOK, Side, InStep, NEW p \in Procs, Bystands(p)
  PROVE  Side' /\ InStep'
<1>d. \A q \in Procs : PidGone(q) => proc[q].at \notin Locked
  BY PlaceFacts DEF PidGone, At
<1>1. Tidy(p)
  <2>1. proc'[p].at \in Early => staging'[p].replaced = Nothing
    BY DEF Bystands, Side, Clean
  <2>2. \A o \in Outputs : Nothing[o] = None
    BY DEF Nothing
  <2> QED
    BY <2>1, <2>2 DEF Bystands, Tidy
<1>2. \A q \in Procs \ {p} : proc[q].at \in Locked =>
        staging'[q].replaced = staging[q].replaced
  BY <1>d DEF Bystands
<1>3. InStep'
  BY <1>2, PassiveKept DEF Bystands
<1> QED
  BY <1>1, <1>3, SideKept

\* A step of p under the lock.
Works(p) ==
  /\ Others(p) /\ proc[p].at \in Locked /\ proc'[p].at \in Locked
  /\ proc'[p].wants = proc[p].wants /\ proc'[p].before = proc[p].before
  /\ proc'[p].at \in Early => proc[p].at \in Early /\ staging'[p].replaced = staging[p].replaced
  /\ stolen' = stolen /\ spoilt \subseteq spoilt'
  /\ \A o \in Outputs :
       /\ final'[o] \in {None, p, final[o], staging[p].replaced[o]}
       /\ staging'[p].replaced[o] \in {None, staging[p].replaced[o], final[o]}
  /\ \A q \in Procs \ {p} : staging'[q] = staging[q]

LEMMA WorkerKept ==
  ASSUME TypeOK, TypeOK', LockInv', Side, InStep, NEW p \in Procs, Works(p),
         ~stolen => Honest(proc, final', spoilt') /\ Progress(p, proc'[p], final', staging'[p].replaced, spoilt')
  PROVE  Side' /\ InStep'
<1>l. /\ Locked \subseteq Running
      /\ {"dead", "ended", "idle", "removing", "checking"} \cap Locked = {}
  BY PlaceFacts DEF Running
<1>1. Tidy(p)
  <2>1. Map \in proc'[p].wants
    BY <1>l DEF Works, Side, Wanting
  <2>2. proc'[p].at \in Early => staging'[p].replaced = Nothing
    BY DEF Works, Side, Clean
  <2> QED
    BY <1>l, <2>1, <2>2 DEF Works, Tidy, PidGone, At
<1>2. ~stolen => Honest(proc, proc[p].before, spoilt')
  BY DEF InStep, Works, Honest
<1>3. ~stolen' => /\ Honest(proc, final', spoilt') /\ Honest(proc, proc'[p].before, spoilt')
                  /\ Progress(p, proc'[p], final', staging'[p].replaced, spoilt')
  BY <1>2 DEF Works
<1>4. InStep'
  BY <1>3, OwnerKept DEF Works
<1> QED
  BY <1>1, <1>4, SideKept

\* The new records, field by field.
LEMMA GotoFields ==
  ASSUME NEW p \in Procs, proc \in [Procs -> ProcStates], NEW place, Goto(p, place)
  PROVE  /\ Others(p) /\ proc'[p].at = place /\ proc'[p].wants = proc[p].wants
         /\ proc'[p].before = proc[p].before /\ proc'[p].result = proc[p].result
         /\ proc'[p].todo = proc[p].todo /\ proc'[p].seen = proc[p].seen
BY DEF Goto, Others, ProcStates

LEMMA LeaveFields ==
  ASSUME NEW p \in Procs, proc \in [Procs -> ProcStates], NEW place, NEW result,
         Leave(p, place, result)
  PROVE  /\ Others(p) /\ proc'[p].at = place /\ proc'[p].wants = proc[p].wants
         /\ proc'[p].before = proc[p].before /\ proc'[p].result = result
BY DEF Leave, Others, ProcStates

LEMMA ExitFields ==
  ASSUME NEW p \in Procs, proc \in [Procs -> ProcStates], NEW place, Exit(p, place)
  PROVE  /\ Others(p) /\ proc'[p].at = place /\ proc'[p].wants = proc[p].wants
         /\ proc'[p].before = Nothing
BY DEF Exit, Others, ProcStates, Idle

LEMMA TodoFields ==
  ASSUME NEW p \in Procs, proc \in [Procs -> ProcStates], NEW o,
         proc' = [proc EXCEPT ![p].todo = @ \ {o}]
  PROVE  /\ Others(p) /\ proc'[p].at = proc[p].at /\ proc'[p].wants = proc[p].wants
         /\ proc'[p].before = proc[p].before /\ proc'[p].todo = proc[p].todo \ {o}
         /\ proc'[p].result = proc[p].result
BY DEF Others, ProcStates

LEMMA LoopFields ==
  ASSUME NEW p \in Procs, proc \in [Procs -> ProcStates], NEW place,
         NEW todo, proc' = [proc EXCEPT ![p].at = place, ![p].todo = todo]
  PROVE  /\ Others(p) /\ proc'[p].at = place /\ proc'[p].wants = proc[p].wants
         /\ proc'[p].before = proc[p].before /\ proc'[p].todo = todo
         /\ proc'[p].result = proc[p].result
BY DEF Others, ProcStates

LEMMA BystanderSteps ==
  ASSUME TypeOK, Side, NEW p \in Procs,
         \/ Start(p) \/ (\E q \in Procs : Examine(p, q) \/ ExamineFails(p, q))
         \/ CheckOwner(p) \/ RemoveStale(p) \/ ScanDone(p) \/ ReadLock(p) \/ ProbePid(p)
         \/ Unlink(p) \/ DropLock(p) \/ Crash(p)
         \/ CreateLock(p) /\ (proc[p].tries = 3 \/ lock # Free)
  PROVE  Bystands(p)
<1>0. /\ proc \in [Procs -> ProcStates] /\ proc[p] \in ProcStates
      /\ staging \in [Procs -> StagingStates] /\ stolen \in BOOLEAN
  BY TypeParts
<1>l. /\ Locked \cap {"scanning", "checking", "removing", "locking", "reading", "probing",
                      "unlinking", "idle", "ended", "dead"} = {}
      /\ Running \cap {"ended", "dead", "idle"} = {} /\ "unlocking" \in Running
      /\ {"scanning", "checking", "removing", "locking", "reading", "probing", "unlinking"}
           \subseteq Running
  BY PlaceFacts DEF Running, Locked
<1>e. Early \cap {"ended", "dead"} = {}
  BY DEF Early
<1>w. proc[p].at \in Running => Map \in proc[p].wants
  BY DEF Side, Wanting
<1>g. proc[p].at \in Running \cup {"idle"} => ~PidGone(p)
  BY <1>l DEF PidGone, At
<1> USE <1>0, <1>g
<1>1. ASSUME NEW place \in {"ended", "dead"}, Exit(p, place), proc[p].at \in Running,
             UNCHANGED <<staging, final, stolen, spoilt>>
      PROVE  Bystands(p)
  BY <1>1, <1>l, <1>e, ExitFields DEF Bystands
<1>2. CASE Start(p)
  <2>1. PICK units \in (SUBSET Units) \ {{}} :
          proc' = [proc EXCEPT ![p] = [Idle EXCEPT !.at = "scanning", !.wants = units \cup {Map},
                                                !.scan = {q \in Procs : staging[q].dir}]]
    BY <1>2 DEF Start
  <2>2. /\ Others(p) /\ proc'[p].at = "scanning" /\ Map \in proc'[p].wants
        /\ proc'[p].before = Nothing
    BY <2>1 DEF Others, Idle
  <2> QED
    BY <1>2, <1>l, <2>2 DEF Bystands, Start, At, Early, bounds
<1>3. ASSUME NEW q \in Procs, Examine(p, q)
      PROVE  Bystands(p)
  <2>1. CASE staging[q].tx
    <3>1. /\ Others(p) /\ proc'[p].at = "checking" /\ proc'[p].seen = q
          /\ proc'[p].wants = proc[p].wants /\ proc'[p].before = proc[p].before
      BY <1>3, <2>1 DEF Examine, Others, ProcStates
    <3> QED
      BY <1>3, <1>l, <1>w, <3>1 DEF Bystands, Examine, At, Early, bounds
  <2>2. CASE ~staging[q].tx
    <3>1. /\ Others(p) /\ proc'[p].at = "scanning"
          /\ proc'[p].wants = proc[p].wants /\ proc'[p].before = proc[p].before
      BY <1>3, <2>2 DEF Examine, At, Others, ProcStates
    <3> QED
      BY <1>3, <1>l, <1>w, <3>1 DEF Bystands, Examine, At, Early, bounds
  <2> QED
    BY <2>1, <2>2
<1>4. ASSUME NEW q \in Procs, ExamineFails(p, q)
      PROVE  Bystands(p)
  BY <1>1, <1>4, <1>l DEF ExamineFails, At, bounds
<1>5. CASE RemoveStale(p)
  <2>1. CASE staging[proc[p].seen].dir
    <3>1. /\ Others(p) /\ proc'[p].at = "scanning"
          /\ proc'[p].wants = proc[p].wants /\ proc'[p].before = proc[p].before
      BY <1>5, <2>1 DEF RemoveStale, Others, ProcStates
    <3>2. proc[p].seen \in Procs /\ PidGone(proc[p].seen)
      BY <1>5 DEF Side, RemovesGone, RemoveStale, At
    <3>3. \A q \in Procs : \/ staging'[q].replaced = staging[q].replaced
                           \/ PidGone(q) /\ staging'[q].replaced = Nothing
      BY <1>5, <2>1, <3>2 DEF RemoveStale, Gone
    <3> QED
      BY <1>5, <1>l, <1>w, <3>1, <3>3 DEF Bystands, RemoveStale, At, Early, bounds
  <2>2. CASE ~staging[proc[p].seen].dir
    BY <1>1, <1>5, <1>l, <2>2 DEF RemoveStale, At, bounds
  <2> QED
    BY <2>1, <2>2
<1>6. CASE ScanDone(p)
  BY <1>6, <1>l, <1>w, GotoFields DEF ScanDone, Bystands, At, Early, bounds
<1>7. CASE ReadLock(p)
  <2>1. CASE lock.pid # None
    <3>1. /\ Others(p) /\ proc'[p].at = "probing"
          /\ proc'[p].wants = proc[p].wants /\ proc'[p].before = proc[p].before
      BY <1>7, <2>1 DEF ReadLock, Others, ProcStates
    <3> QED
      BY <1>7, <1>l, <1>w, <3>1 DEF Bystands, ReadLock, At, Early, bounds
  <2>2. CASE lock.pid = None
    BY <1>1, <1>7, <1>l, <2>2 DEF ReadLock, At, bounds
  <2> QED
    BY <2>1, <2>2
<1>8. CASE Unlink(p)
  <2>1. CASE lock = Free
    BY <1>1, <1>8, <1>l, <2>1 DEF Unlink, At
  <2>2. CASE lock # Free
    <3>1. /\ Others(p) /\ proc'[p].at = "locking"
          /\ proc'[p].wants = proc[p].wants /\ proc'[p].before = proc[p].before
      BY <1>8, <2>2 DEF Unlink, Others, ProcStates
    <3>2. stolen => stolen'
      BY <1>8, <2>2 DEF Unlink
    <3> QED
      BY <1>8, <1>l, <1>w, <3>1, <3>2 DEF Bystands, Unlink, At, Early
  <2> QED
    BY <2>1, <2>2
<1>9. CASE DropLock(p)
  BY <1>1, <1>9, <1>l DEF DropLock, At, bounds, Fault
<1>10. CASE Crash(p)
  BY <1>1, <1>10, <1>l DEF Crash
<1>11. CASE CreateLock(p) /\ (proc[p].tries = 3 \/ lock # Free)
  <2>1. CASE Goto(p, "reading")
    BY <1>11, <1>l, <1>w, <2>1, GotoFields DEF CreateLock, Bystands, At, Early, bounds
  <2>2. CASE Exit(p, "ended")
    BY <1>1, <1>11, <1>l, <2>2 DEF CreateLock, At, bounds
  <2> QED
    BY <1>11, <2>1, <2>2 DEF CreateLock
<1>12. CASE CheckOwner(p)
  <2>1. PICK place \in {"removing", "scanning"} :
          Goto(p, place) /\ (place = "removing" => PidGone(proc[p].seen))
    BY <1>12 DEF CheckOwner
  <2>2. /\ Others(p) /\ proc'[p].at = place /\ proc'[p].wants = proc[p].wants
        /\ proc'[p].before = proc[p].before /\ proc'[p].seen = proc[p].seen
    BY <2>1, GotoFields
  <2>3. proc[p].seen \in Procs
    BY <1>12 DEF Side, RemovesGone, CheckOwner, At
  <2>4. place = "removing" => PidGone(proc'[p].seen)
    BY <2>1, <2>2
  <2> QED
    BY <1>12, <1>l, <1>w, <2>2, <2>3, <2>4 DEF CheckOwner, Bystands, At, Early, bounds
<1>13. CASE ProbePid(p)
  <2>1. CASE Goto(p, "unlinking")
    BY <1>13, <1>l, <1>w, <2>1, GotoFields DEF ProbePid, Bystands, At, Early, bounds
  <2>2. CASE Exit(p, "ended")
    BY <1>1, <1>13, <1>l, <2>2 DEF ProbePid, At, bounds
  <2> QED
    BY <1>13, <2>1, <2>2 DEF ProbePid
<1> QED
  BY <1>2, <1>3, <1>4, <1>5, <1>6, <1>7, <1>8, <1>9, <1>10, <1>11, <1>12, <1>13

\* What the steps under the lock start from.
Holding(p) ==
  /\ proc \in [Procs -> ProcStates]
  /\ staging \in [Procs -> StagingStates]
  /\ final \in Contents /\ staging[p].replaced \in Contents
  /\ proc[p].before \in Contents
  /\ proc[p].wants \in SUBSET Outputs /\ proc[p].todo \in SUBSET Outputs
  /\ Map \in Outputs /\ None \notin Procs
  /\ proc[p].at \in Running => Map \in proc[p].wants
  /\ ~stolen /\ proc[p].at \in Locked =>
       /\ Honest(proc, final, spoilt) /\ Honest(proc, proc[p].before, spoilt)
       /\ Progress(p, proc[p], final, staging[p].replaced, spoilt)

LEMMA Holds ==
  ASSUME TypeOK, Side, InStep, NEW p \in Procs
  PROVE  Holding(p)
<1>1. /\ proc \in [Procs -> ProcStates] /\ staging \in [Procs -> StagingStates]
      /\ final \in Contents
  BY TypeParts
<1>2. /\ staging[p].replaced \in Contents /\ proc[p].before \in Contents
      /\ proc[p].wants \in SUBSET Outputs /\ proc[p].todo \in SUBSET Outputs
  BY <1>1 DEF ProcStates, StagingStates
<1>3. Map \in Outputs /\ None \notin Procs
  BY DescriptorBuildAssumption DEF Outputs
<1> QED
  BY <1>1, <1>2, <1>3 DEF Holding, Side, Wanting, InStep

\* A step under the lock does its part of the work.
Advances(p) ==
  /\ Works(p)
  /\ ~stolen => /\ Honest(proc, final', spoilt')
                /\ Progress(p, proc'[p], final', staging'[p].replaced, spoilt')

LEMMA SetUpSteps ==
  ASSUME NEW p \in Procs, Holding(p),
         \/ WriteLock(p) \/ WriteLockFails(p) \/ MakeStaging(p) \/ WriteTransaction(p)
         \/ NewFails(p) \/ Build(p)
  PROVE  Advances(p)
<1>0. /\ proc \in [Procs -> ProcStates] /\ staging \in [Procs -> StagingStates]
      /\ final \in Contents
  BY DEF Holding
<1>l. {"writing", "making", "naming", "building", "backing", "cleaning", "unlocking"}
        \subseteq Locked
  BY DEF Locked
<1>1. ~stolen /\ proc[p].at \in {"writing", "making", "naming", "building"} =>
        /\ Honest(proc, final, spoilt) /\ final = proc[p].before /\ staging[p].replaced = Nothing
  BY <1>l DEF Holding, Progress, Untouched
<1> USE <1>0
<1>2. CASE WriteLock(p)
  <2>1. /\ Others(p) /\ proc'[p].at = "making" /\ proc'[p].wants = proc[p].wants
        /\ proc'[p].before = proc[p].before
    BY <1>2, GotoFields DEF WriteLock
  <2> QED
    BY <1>1, <1>2, <1>l, <2>1
       DEF WriteLock, At, bounds, Advances, Works, Early, Progress, Untouched
<1>3. CASE MakeStaging(p)
  <2>1. /\ Others(p) /\ proc'[p].at = "naming" /\ proc'[p].wants = proc[p].wants
        /\ proc'[p].before = proc[p].before
    BY <1>3, GotoFields DEF MakeStaging
  <2>2. /\ staging'[p].replaced = staging[p].replaced
        /\ \A q \in Procs \ {p} : staging'[q] = staging[q]
    BY <1>3 DEF MakeStaging, StagingStates
  <2> QED
    BY <1>1, <1>3, <1>l, <2>1, <2>2
       DEF MakeStaging, At, bounds, Advances, Works, Early, Progress, Untouched
<1>4. CASE WriteTransaction(p)
  <2>1. /\ Others(p) /\ proc'[p].at = "building" /\ proc'[p].wants = proc[p].wants
        /\ proc'[p].before = proc[p].before
    BY <1>4, GotoFields DEF WriteTransaction
  <2>2. /\ staging'[p].replaced = staging[p].replaced
        /\ \A q \in Procs \ {p} : staging'[q] = staging[q]
    BY <1>4 DEF WriteTransaction, StagingStates
  <2> QED
    BY <1>1, <1>4, <1>l, <2>1, <2>2
       DEF WriteTransaction, At, bounds, Advances, Works, Early, Progress, Untouched
<1>5. ASSUME proc[p].at \in {"writing", "making", "naming", "building"},
             NEW place \in {"cleaning", "unlocking"}, Leave(p, place, "failed"),
             UNCHANGED <<staging, final, stolen, spoilt>>
      PROVE  Advances(p)
  <2>1. /\ Others(p) /\ proc'[p].at = place /\ proc'[p].wants = proc[p].wants
        /\ proc'[p].before = proc[p].before /\ proc'[p].result = "failed"
    BY <1>5, LeaveFields
  <2> QED
    BY <1>1, <1>5, <1>l, <2>1 DEF Advances, Works, Early, Progress, Over
<1>6. CASE WriteLockFails(p)
  BY <1>5, <1>6 DEF WriteLockFails, At, Fault
<1>7. CASE NewFails(p)
  BY <1>5, <1>7 DEF NewFails, At, Fault
<1>8. CASE Build(p)
  <2>1. CASE Leave(p, "cleaning", "failed") /\ UNCHANGED staging
    BY <1>5, <1>8, <2>1 DEF Build, At, bounds
  <2>2. CASE /\ staging' = [staging EXCEPT ![p].staged = proc[p].wants]
             /\ proc' = [proc EXCEPT ![p].at = "backing", ![p].todo = proc[p].wants]
    <3>1. /\ Others(p) /\ proc'[p].at = "backing" /\ proc'[p].wants = proc[p].wants
          /\ proc'[p].before = proc[p].before /\ proc'[p].todo = proc[p].wants
      BY <2>2 DEF Others, ProcStates
    <3>2. /\ staging'[p].replaced = staging[p].replaced
          /\ \A q \in Procs \ {p} : staging'[q] = staging[q]
      BY <2>2 DEF StagingStates
    <3>3. Map \in proc[p].wants
      BY <1>8 DEF Build, At, Holding, Running, Locked
    <3>4. ~stolen => Displacing(proc'[p], final', staging'[p].replaced)
      BY <1>1, <1>8, <3>1, <3>2, <3>3 DEF Build, At, Displacing, MapLast, Nothing
    <3> QED
      BY <1>1, <1>8, <1>l, <3>1, <3>2, <3>4
         DEF Build, At, bounds, Advances, Works, Early, Progress
  <2> QED
    BY <1>8, <2>1, <2>2 DEF Build
<1> QED
  BY <1>2, <1>3, <1>4, <1>6, <1>7, <1>8

\* The outputs are worked on in an order that leaves the map to the end.
LEMMA MapComesLast ==
  ASSUME NEW T, MapLast(T)
  PROVE  /\ Collected(T) \subseteq T /\ (Collected(T) = {} => T = {})
         /\ \A o \in Collected(T) : MapLast(T \ {o}) /\ (o = Map => T = {Map})
BY DEF MapLast, Collected

\* Displacing an output, or bringing one back, changes only that one's record.
LEMMA ReplacedFields ==
  ASSUME NEW p \in Procs, staging \in [Procs -> StagingStates], NEW o \in Outputs,
         NEW v, staging' = [staging EXCEPT ![p].replaced[o] = v]
  PROVE  /\ staging'[p].replaced = [staging[p].replaced EXCEPT ![o] = v]
         /\ \A q \in Procs \ {p} : staging'[q] = staging[q]
BY DEF StagingStates

LEMMA ThinnerOutputs ==
  ASSUME NEW p \in Procs, Holding(p), ~stolen, proc[p].at \in Locked,
         spoilt \subseteq spoilt',
         \/ \A o \in Outputs : final'[o] \in {final[o], None}
         \/ /\ final'[Map] \in {proc[p].before[Map], None}
            /\ \A o \in Outputs : final'[o] \in {proc[p].before[o], None} \cup spoilt'
  PROVE  Honest(proc, final', spoilt')
<1> PICK a, f, b, g, S, T : /\ a = proc /\ f = final /\ b = proc[p].before /\ g = final'
                            /\ S = spoilt /\ T = spoilt'
  OBVIOUS
<1>1. /\ a \in [Procs -> ProcStates] /\ f \in Contents /\ b \in Contents /\ S \subseteq T
      /\ Honest(a, f, S) /\ Honest(a, b, S) /\ Map \in Outputs
  BY DEF Holding
<1>2. \/ g[Map] \in {f[Map], None} /\ \A o \in Outputs : g[o] \in {f[o], None} \cup T
      \/ g[Map] \in {b[Map], None} /\ \A o \in Outputs : g[o] \in {b[o], None} \cup T
  BY <1>1
<1>3. Honest(a, g, T)
  BY <1>1, <1>2, HonestThinner
<1> QED
  BY <1>3

LEMMA DisplaceSteps ==
  ASSUME NEW p \in Procs, Holding(p), BackUp(p) \/ BackedUp(p) \/ BackUpFails(p)
  PROVE  Advances(p)
<1>0. /\ proc \in [Procs -> ProcStates] /\ staging \in [Procs -> StagingStates]
      /\ final \in Contents /\ staging[p].replaced \in Contents
      /\ proc[p].wants \in SUBSET Outputs
  BY DEF Holding
<1>l. {"backing", "placing", "cleaning"} \subseteq Locked /\ "backing" \in Running
  BY DEF Locked, Running
<1>e. Early \cap {"backing", "placing", "cleaning"} = {}
  BY DEF Early
<1>b. proc[p].at = "backing"
  BY DEF BackUp, BackedUp, BackUpFails, At
<1>1. ~stolen => Honest(proc, final, spoilt) /\ Displacing(proc[p], final, staging[p].replaced)
  BY <1>b, <1>l DEF Holding, Progress
<1> USE <1>0
<1>2. CASE BackUp(p)
  <2>1. PICK o \in Collected(proc[p].todo) :
          /\ proc' = [proc EXCEPT ![p].todo = @ \ {o}]
          /\ staging' = [staging EXCEPT ![p].replaced[o] = final[o]]
          /\ final' = [final EXCEPT ![o] = None]
    BY <1>2 DEF BackUp
  <2>2. o \in proc[p].todo /\ o \in Outputs
    BY DEF Collected, Holding
  <2>3. /\ Others(p) /\ proc'[p].at = "backing" /\ proc'[p].wants = proc[p].wants
        /\ proc'[p].before = proc[p].before /\ proc'[p].todo = proc[p].todo \ {o}
    BY <1>b, <2>1, TodoFields
  <2>4. /\ staging'[p].replaced = [staging[p].replaced EXCEPT ![o] = final[o]]
        /\ \A q \in Procs \ {p} : staging'[q] = staging[q]
    BY <2>1, <2>2, ReplacedFields
  <2>5. \A x \in Outputs :
          /\ final'[x] = IF x = o THEN None ELSE final[x]
          /\ staging'[p].replaced[x] = IF x = o THEN final[o] ELSE staging[p].replaced[x]
    BY <2>1, <2>4 DEF Contents
  <2>6. Works(p)
    BY <1>2, <1>b, <1>l, <1>e, <2>3, <2>4, <2>5 DEF Works, BackUp, bounds
  <2>7. ASSUME ~stolen PROVE Honest(proc, final', spoilt')
    <3>1. \A x \in Outputs : final'[x] \in {final[x], None}
      BY <2>5
    <3>2. spoilt \subseteq spoilt'
      BY <1>2 DEF BackUp, bounds
    <3> QED
      BY <1>b, <1>l, <2>7, <3>1, <3>2, ThinnerOutputs
  <2>8. ASSUME ~stolen PROVE Displacing(proc'[p], final', staging'[p].replaced)
    <3>1. Displacing(proc[p], final, staging[p].replaced)
      BY <1>1, <2>8
    <3>2. proc'[p].todo \subseteq proc'[p].wants /\ MapLast(proc'[p].todo)
      BY <2>3, <3>1, MapComesLast DEF Displacing
    <3>3. ASSUME NEW x \in Outputs
          PROVE  IF x \in proc'[p].wants \ proc'[p].todo
                   THEN final'[x] = None /\ staging'[p].replaced[x] = proc'[p].before[x]
                   ELSE final'[x] = proc'[p].before[x] /\ staging'[p].replaced[x] = None
      BY <2>2, <2>3, <2>5, <3>1 DEF Displacing
    <3> QED
      BY <3>2, <3>3 DEF Displacing
  <2> QED
    BY <2>3, <2>6, <2>7, <2>8 DEF Advances, Progress
<1>3. CASE BackedUp(p)
  <2>1. /\ Others(p) /\ proc'[p].at = "placing" /\ proc'[p].wants = proc[p].wants
        /\ proc'[p].before = proc[p].before /\ proc'[p].todo = proc[p].wants
    BY <1>3 DEF BackedUp, Others, ProcStates
  <2>2. Works(p)
    BY <1>3, <1>b, <1>l, <1>e, <2>1 DEF Works, BackedUp, bounds
  <2>3. ASSUME ~stolen PROVE Replacing(p, proc'[p], final', staging'[p].replaced)
    <3>1. Displacing(proc[p], final, staging[p].replaced)
      BY <1>1, <2>3
    <3>2. proc[p].todo = {}
      BY <1>3, <3>1, MapComesLast DEF BackedUp, Displacing
    <3>3. Map \in proc[p].wants
      BY <1>b, <1>l DEF Holding
    <3> QED
      BY <1>3, <2>1, <3>1, <3>2, <3>3 DEF BackedUp, bounds, Displacing, Replacing, MapLast
  <2> QED
    BY <1>1, <1>3, <2>1, <2>2, <2>3 DEF Advances, Progress, BackedUp, bounds
<1>4. CASE BackUpFails(p)
  <2>1. /\ Others(p) /\ proc'[p].at = "cleaning" /\ proc'[p].wants = proc[p].wants
        /\ proc'[p].before = proc[p].before /\ proc'[p].result = "torn"
    BY <1>4, LeaveFields DEF BackUpFails
  <2>2. Works(p)
    BY <1>4, <1>b, <1>l, <1>e, <2>1 DEF Works, BackUpFails, Fault
  <2>3. ASSUME ~stolen PROVE Over(p, proc'[p], final', spoilt')
    BY <1>1, <1>4, <2>1, <2>3 DEF BackUpFails, Displacing, Over
  <2> QED
    BY <1>1, <1>4, <2>1, <2>2, <2>3 DEF Advances, Progress, BackUpFails, Fault
<1> QED
  BY <1>2, <1>3, <1>4

LEMMA ReplaceSteps ==
  ASSUME NEW p \in Procs, Holding(p), Place(p) \/ PlaceFails(p) \/ Committed(p)
  PROVE  Advances(p)
<1>0. /\ proc \in [Procs -> ProcStates] /\ staging \in [Procs -> StagingStates]
      /\ final \in Contents /\ staging[p].replaced \in Contents
      /\ proc[p].wants \in SUBSET Outputs
  BY DEF Holding
<1>l. {"placing", "undoing", "cleaning"} \subseteq Locked /\ "placing" \in Running
  BY DEF Locked, Running
<1>e. Early \cap {"placing", "undoing", "cleaning"} = {}
  BY DEF Early
<1>b. proc[p].at = "placing"
  BY DEF Place, PlaceFails, Committed, At
<1>1. ~stolen => Honest(proc, final, spoilt) /\ Replacing(p, proc[p], final, staging[p].replaced)
  BY <1>b, <1>l DEF Holding, Progress
<1> USE <1>0
<1>2. CASE Place(p)
  <2>1. PICK o \in Collected(proc[p].todo) \cap staging[p].staged :
          /\ proc' = [proc EXCEPT ![p].todo = @ \ {o}]
          /\ staging' = [staging EXCEPT ![p].staged = @ \ {o}]
          /\ final' = [final EXCEPT ![o] = p]
    BY <1>2 DEF Place
  <2>2. o \in proc[p].todo /\ o \in Outputs
    BY DEF Collected, Holding
  <2>3. /\ Others(p) /\ proc'[p].at = "placing" /\ proc'[p].wants = proc[p].wants
        /\ proc'[p].before = proc[p].before /\ proc'[p].todo = proc[p].todo \ {o}
    BY <1>b, <2>1, TodoFields
  <2>4. /\ staging'[p].replaced = staging[p].replaced
        /\ \A q \in Procs \ {p} : staging'[q] = staging[q]
    BY <2>1 DEF StagingStates
  <2>5. \A x \in Outputs : final'[x] = IF x = o THEN p ELSE final[x]
    BY <2>1 DEF Contents
  <2>6. Works(p)
    BY <1>2, <1>b, <1>l, <1>e, <2>3, <2>4, <2>5 DEF Works, Place, bounds
  <2>7. ASSUME ~stolen PROVE Replacing(p, proc'[p], final', staging'[p].replaced)
    <3>1. Replacing(p, proc[p], final, staging[p].replaced)
      BY <1>1, <2>7
    <3>2. proc'[p].todo \subseteq proc'[p].wants /\ MapLast(proc'[p].todo)
      BY <2>3, <3>1, MapComesLast DEF Replacing
    <3>3. ASSUME NEW x \in Outputs
          PROVE  IF x \in proc'[p].wants
                   THEN /\ final'[x] = IF x \in proc'[p].todo THEN None ELSE p
                        /\ staging'[p].replaced[x] = proc'[p].before[x]
                   ELSE final'[x] = proc'[p].before[x] /\ staging'[p].replaced[x] = None
      BY <2>2, <2>3, <2>4, <2>5, <3>1 DEF Replacing
    <3> QED
      BY <3>2, <3>3 DEF Replacing
  <2>8. ASSUME ~stolen PROVE Honest(proc, final', spoilt')
    <3>1. Replacing(p, proc[p], final, staging[p].replaced)
      BY <1>1, <2>8
    <3>m. Map \in Outputs
      BY DEF Holding
    <3>2. CASE o = Map
      <4>1. proc[p].todo = {Map}
        BY <2>1, <3>1, <3>2, MapComesLast DEF Replacing
      <4>2. final'[Map] = p /\ \A x \in proc[p].wants : final'[x] = p
        BY <2>5, <3>1, <3>2, <3>m, <4>1 DEF Replacing
      <4> QED
        BY <4>2 DEF Honest
    <3>3. CASE o # Map
      <4>1. Map \in proc[p].todo /\ Map \in proc[p].wants
        BY <2>2, <3>1 DEF Replacing, MapLast
      <4>2. final'[Map] = None
        BY <2>5, <3>1, <3>3, <3>m, <4>1 DEF Replacing
      <4> QED
        BY <4>2 DEF Honest
    <3> QED
      BY <3>2, <3>3
  <2> QED
    BY <2>3, <2>6, <2>7, <2>8 DEF Advances, Progress
<1>3. CASE PlaceFails(p)
  <2>1. /\ Others(p) /\ proc'[p].at = "undoing" /\ proc'[p].wants = proc[p].wants
        /\ proc'[p].before = proc[p].before /\ proc'[p].result = "failed"
        /\ proc'[p].todo = proc[p].wants \ proc[p].todo
    BY <1>3 DEF PlaceFails, Others, ProcStates
  <2>2. proc[p].todo # {} /\ UNCHANGED <<staging, final, stolen, spoilt>>
    BY <1>3 DEF PlaceFails, Fault
  <2>3. Works(p)
    BY <1>b, <1>l, <1>e, <2>1, <2>2 DEF Works
  <2>4. ASSUME ~stolen PROVE Undoing(p, proc'[p], final', staging'[p].replaced, spoilt')
    <3>1. Replacing(p, proc[p], final, staging[p].replaced)
      BY <1>1, <2>4
    <3>2. Map \in proc[p].todo /\ Map \in proc[p].wants /\ Map \in Outputs
      BY <2>2, <3>1 DEF Replacing, MapLast, Holding
    <3>3. final'[Map] = None
      BY <2>2, <3>1, <3>2 DEF Replacing
    <3>4. ASSUME NEW o \in Outputs
          PROVE  IF o \in proc[p].wants
                   THEN /\ staging'[p].replaced[o] = proc[p].before[o]
                        /\ \/ final'[o] = None
                           \/ final'[o] = p /\ o \in proc[p].wants \ proc[p].todo
                   ELSE final'[o] = proc[p].before[o] /\ staging'[p].replaced[o] = None
      BY <2>2, <3>1 DEF Replacing
    <3> QED
      BY <2>1, <3>3, <3>4 DEF Undoing
  <2> QED
    BY <1>1, <2>1, <2>2, <2>3, <2>4 DEF Advances, Progress
<1>4. CASE Committed(p)
  <2>1. /\ Others(p) /\ proc'[p].at = "cleaning" /\ proc'[p].wants = proc[p].wants
        /\ proc'[p].before = proc[p].before /\ proc'[p].result = "ok"
    BY <1>4, LeaveFields DEF Committed
  <2>2. Works(p)
    BY <1>4, <1>b, <1>l, <1>e, <2>1 DEF Works, Committed, bounds
  <2>3. ASSUME ~stolen PROVE Over(p, proc'[p], final', spoilt')
    BY <1>1, <1>4, <2>1, <2>3 DEF Committed, Replacing, Over
  <2> QED
    BY <1>1, <1>4, <2>1, <2>2, <2>3 DEF Advances, Progress, Committed, bounds
<1> QED
  BY <1>2, <1>3, <1>4

LEMMA UndoSteps ==
  ASSUME NEW p \in Procs, Holding(p), Undo(p) \/ Undone(p)
  PROVE  Advances(p)
<1>0. /\ proc \in [Procs -> ProcStates] /\ staging \in [Procs -> StagingStates]
      /\ final \in Contents /\ staging[p].replaced \in Contents
      /\ proc[p].wants \in SUBSET Outputs /\ proc[p].todo \in SUBSET Outputs
  BY DEF Holding
<1>l. {"undoing", "restoring"} \subseteq Locked
  BY DEF Locked
<1>e. Early \cap {"undoing", "restoring"} = {}
  BY DEF Early
<1>b. proc[p].at = "undoing"
  BY DEF Undo, Undone, At
<1>1. ~stolen => /\ Honest(proc, final, spoilt)
                 /\ Undoing(p, proc[p], final, staging[p].replaced, spoilt)
  BY <1>b, <1>l DEF Holding, Progress
<1> USE <1>0
<1>2. CASE Undo(p)
  <2>1. PICK o \in proc[p].todo :
          /\ proc' = [proc EXCEPT ![p].todo = @ \ {o}]
          /\ \/ final' = [final EXCEPT ![o] = None] /\ UNCHANGED bounds
             \/ UNCHANGED final /\ RollbackFails(p)
    BY <1>2 DEF Undo
  <2>2. /\ Others(p) /\ proc'[p].at = "undoing" /\ proc'[p].wants = proc[p].wants
        /\ proc'[p].before = proc[p].before /\ proc'[p].todo = proc[p].todo \ {o}
        /\ proc'[p].result = proc[p].result
    BY <1>b, <2>1, TodoFields
  <2>3. staging' = staging /\ stolen' = stolen /\ spoilt \subseteq spoilt'
    BY <1>2, <2>1 DEF Undo, bounds, RollbackFails
  <2>4. \A x \in Outputs : final'[x] \in {final[x], None}
    BY <2>1 DEF Contents
  <2>5. Works(p)
    BY <1>b, <1>l, <1>e, <2>2, <2>3, <2>4 DEF Works
  <2>6. ASSUME ~stolen PROVE Honest(proc, final', spoilt')
    BY <1>b, <1>l, <2>3, <2>4, <2>6, ThinnerOutputs
  <2>7. ASSUME ~stolen PROVE Undoing(p, proc'[p], final', staging'[p].replaced, spoilt')
    <3>1. Undoing(p, proc[p], final, staging[p].replaced, spoilt)
      BY <1>1, <2>7
    <3>2. final'[Map] = None
      BY <2>4, <3>1 DEF Undoing, Outputs
    <3>3. ASSUME NEW x \in Outputs, x \in proc[p].wants
          PROVE  \/ final'[x] = None
                 \/ final'[x] = p /\ (x \in proc'[p].todo \/ p \in spoilt')
      <4>1. CASE final' = [final EXCEPT ![o] = None]
        BY <2>2, <2>3, <3>1, <3>3, <4>1 DEF Undoing, Contents
      <4>2. CASE final' = final /\ p \in spoilt'
        BY <3>1, <3>3, <4>2 DEF Undoing
      <4> QED
        BY <2>1, <4>1, <4>2 DEF RollbackFails
    <3>4. ASSUME NEW x \in Outputs, x \notin proc[p].wants
          PROVE  final'[x] = proc[p].before[x]
      <4>1. final[x] = proc[p].before[x]
        BY <3>1, <3>4 DEF Undoing
      <4>2. o \in Outputs
        OBVIOUS
      <4>3. o \in proc[p].wants
        BY <3>1 DEF Undoing
      <4> QED
        BY <2>1, <3>4, <4>1, <4>2, <4>3 DEF Contents
    <3> QED
      BY <2>2, <2>3, <3>1, <3>2, <3>3, <3>4 DEF Undoing
  <2> QED
    BY <2>2, <2>5, <2>6, <2>7 DEF Advances, Progress
<1>3. CASE Undone(p)
  <2>1. /\ Others(p) /\ proc'[p].at = "restoring" /\ proc'[p].wants = proc[p].wants
        /\ proc'[p].before = proc[p].before /\ proc'[p].todo = Displaced(p)
        /\ proc'[p].result = proc[p].result
    BY <1>3, LoopFields DEF Undone
  <2>2. proc[p].todo = {} /\ UNCHANGED <<staging, final, stolen, spoilt>>
    BY <1>3 DEF Undone, bounds
  <2>3. Works(p)
    BY <1>b, <1>l, <1>e, <2>1, <2>2 DEF Works
  <2>4. ASSUME ~stolen PROVE Reverting(p, proc'[p], final', staging'[p].replaced, spoilt')
    <3>1. Undoing(p, proc[p], final, staging[p].replaced, spoilt)
      BY <1>1, <2>4
    <3>2. /\ Map \in Outputs /\ proc'[p].result = "failed"
          /\ final'[Map] \in {None, proc'[p].before[Map]}
      BY <2>1, <2>2, <3>1 DEF Undoing, Holding
    <3>3. ASSUME NEW o \in Outputs
          PROVE  /\ staging'[p].replaced[o] \in {None, proc'[p].before[o]}
                 /\ \/ final'[o] \in {None, proc'[p].before[o]}
                    \/ final'[o] = p /\ p \in spoilt'
                 /\ p \notin spoilt' =>
                      IF o \in proc'[p].todo THEN staging'[p].replaced[o] = proc'[p].before[o]
                                             ELSE final'[o] = proc'[p].before[o]
      <4>1. o \in proc'[p].todo <=> staging[p].replaced[o] # None
        BY <2>1 DEF Displaced
      <4> QED
        BY <2>1, <2>2, <3>1, <4>1 DEF Undoing
    <3> QED
      BY <3>2, <3>3 DEF Reverting
  <2> QED
    BY <1>1, <2>1, <2>2, <2>3, <2>4 DEF Advances, Progress
<1> QED
  BY <1>2, <1>3

LEMMA RevertSteps ==
  ASSUME NEW p \in Procs, Holding(p), Restore(p) \/ Restored(p) \/ CleanUp(p)
  PROVE  Advances(p)
<1>0. /\ proc \in [Procs -> ProcStates] /\ staging \in [Procs -> StagingStates]
      /\ final \in Contents /\ staging[p].replaced \in Contents
      /\ proc[p].wants \in SUBSET Outputs /\ proc[p].todo \in SUBSET Outputs
      /\ Map \in Outputs /\ proc[p].before \in Contents
  BY DEF Holding
<1>l. {"restoring", "cleaning", "unlocking"} \subseteq Locked
  BY DEF Locked
<1>e. Early \cap {"restoring", "cleaning", "unlocking"} = {}
  BY DEF Early
<1>1. /\ ~stolen /\ proc[p].at = "restoring" =>
           /\ Honest(proc, final, spoilt)
           /\ Reverting(p, proc[p], final, staging[p].replaced, spoilt)
      /\ ~stolen /\ proc[p].at = "cleaning" =>
           Honest(proc, final, spoilt) /\ Over(p, proc[p], final, spoilt)
  BY <1>l DEF Holding, Progress
<1> USE <1>0
<1>2. CASE Restore(p)
  <2>1. PICK o \in LastFirst(proc[p].todo) :
          /\ proc' = [proc EXCEPT ![p].todo = @ \ {o}]
          /\ \/ /\ final[o] \in {None, p}
                /\ final' = [final EXCEPT ![o] = staging[p].replaced[o]]
                /\ staging' = [staging EXCEPT ![p].replaced[o] = None]
                /\ UNCHANGED bounds
             \/ RollbackFails(p) /\ UNCHANGED <<staging, final>>
    BY <1>2 DEF Restore
  <2>2. o \in Outputs /\ o \in proc[p].todo
    BY <2>1 DEF LastFirst
  <2>3. /\ Others(p) /\ proc'[p].at = "restoring" /\ proc'[p].wants = proc[p].wants
        /\ proc'[p].before = proc[p].before /\ proc'[p].todo = proc[p].todo \ {o}
        /\ proc'[p].result = proc[p].result /\ proc[p].at = "restoring"
    BY <1>2, <2>1, TodoFields DEF Restore, At
  <2>4. stolen' = stolen /\ spoilt \subseteq spoilt' /\ \A q \in Procs \ {p} : staging'[q] = staging[q]
    BY <2>1, <2>2, ReplacedFields DEF bounds, RollbackFails
  <2>5. \/ /\ spoilt' = spoilt
           /\ \A x \in Outputs :
                /\ final'[x] = IF x = o THEN staging[p].replaced[o] ELSE final[x]
                /\ staging'[p].replaced[x] = IF x = o THEN None ELSE staging[p].replaced[x]
        \/ p \in spoilt' /\ UNCHANGED <<staging, final>>
    <3>1. CASE RollbackFails(p) /\ UNCHANGED <<staging, final>>
      BY <3>1 DEF RollbackFails
    <3>2. CASE /\ final' = [final EXCEPT ![o] = staging[p].replaced[o]]
               /\ staging' = [staging EXCEPT ![p].replaced[o] = None]
               /\ UNCHANGED bounds
      <4>1. staging'[p].replaced = [staging[p].replaced EXCEPT ![o] = None]
        BY <2>2, <3>2, ReplacedFields
      <4> QED
        BY <3>2, <4>1 DEF Contents, bounds
    <3> QED
      BY <2>1, <3>1, <3>2
  <2>6. Works(p)
    BY <1>l, <1>e, <2>3, <2>4, <2>5 DEF Works
  <2>7. ASSUME ~stolen
        PROVE  Reverting(p, proc'[p], final', staging'[p].replaced, spoilt')
    <3>1. Reverting(p, proc[p], final, staging[p].replaced, spoilt)
      BY <1>1, <2>3, <2>7
    <3>2. CASE p \in spoilt' /\ UNCHANGED <<staging, final>>
      BY <2>3, <3>1, <3>2 DEF Reverting
    <3>3. CASE /\ spoilt' = spoilt
               /\ \A x \in Outputs :
                    /\ final'[x] = IF x = o THEN staging[p].replaced[o] ELSE final[x]
                    /\ staging'[p].replaced[x] = IF x = o THEN None ELSE staging[p].replaced[x]
      BY <2>2, <2>3, <3>1, <3>3 DEF Reverting
    <3> QED
      BY <2>5, <3>2, <3>3
  <2>8. ASSUME ~stolen PROVE Honest(proc, final', spoilt')
    <3>1. Reverting(p, proc'[p], final', staging'[p].replaced, spoilt')
      BY <2>7, <2>8
    <3>2. /\ final'[Map] \in {proc[p].before[Map], None}
          /\ \A x \in Outputs : final'[x] \in {proc[p].before[x], None} \cup spoilt'
      BY <2>3, <3>1 DEF Reverting
    <3> QED
      BY <1>l, <2>3, <2>4, <2>8, <3>2, ThinnerOutputs
  <2> QED
    BY <2>3, <2>6, <2>7, <2>8 DEF Advances, Progress
<1>3. CASE Restored(p)
  <2>1. /\ Others(p) /\ proc'[p].at = "cleaning" /\ proc'[p].wants = proc[p].wants
        /\ proc'[p].before = proc[p].before /\ proc'[p].result = proc[p].result
    BY <1>3, GotoFields DEF Restored
  <2>2. Works(p)
    BY <1>3, <1>l, <1>e, <2>1 DEF Works, Restored, At, bounds
  <2>3. ASSUME ~stolen PROVE Over(p, proc'[p], final', spoilt')
    <3>1. Reverting(p, proc[p], final, staging[p].replaced, spoilt)
      BY <1>1, <1>3, <2>3 DEF Restored, At
    <3>2. UNCHANGED <<final, spoilt>> /\ proc[p].todo = {}
      BY <1>3 DEF Restored, bounds
    <3>3. p \notin spoilt => final = proc[p].before
      <4>1. p \notin spoilt => \A o \in Outputs : final[o] = proc[p].before[o]
        BY <3>1, <3>2 DEF Reverting
      <4> QED
        BY <4>1 DEF Contents
    <3> QED
      BY <2>1, <3>1, <3>2, <3>3 DEF Reverting, Over
  <2> QED
    BY <1>1, <1>3, <2>1, <2>2, <2>3 DEF Advances, Progress, Restored, At, bounds
<1>4. CASE CleanUp(p)
  <2>1. /\ Others(p) /\ proc'[p].at = "unlocking" /\ proc'[p].wants = proc[p].wants
        /\ proc'[p].before = proc[p].before /\ proc'[p].result = proc[p].result
    BY <1>4, GotoFields DEF CleanUp
  <2>2. /\ \A o \in Outputs : staging'[p].replaced[o] = None
        /\ \A q \in Procs \ {p} : staging'[q] = staging[q]
    <3>1. CASE staging' = [staging EXCEPT ![p] = Gone]
      BY <3>1 DEF Gone, Nothing
    <3>2. ASSUME NEW tx \in BOOLEAN,
                 staging' = [staging EXCEPT ![p] = [Gone EXCEPT !.dir = TRUE, !.tx = tx]]
          PROVE  /\ \A o \in Outputs : staging'[p].replaced[o] = None
                 /\ \A q \in Procs \ {p} : staging'[q] = staging[q]
      <4> DEFINE g == [Gone EXCEPT !.dir = TRUE, !.tx = tx]
      <4>1. g \in [dir : BOOLEAN, tx : BOOLEAN, staged : {{}}, replaced : {Nothing}]
        BY DEF Gone
      <4>2. g.replaced = Nothing
        BY <4>1
      <4> HIDE DEF g
      <4>3. staging' = [staging EXCEPT ![p] = g]
        BY <3>2 DEF g
      <4> QED
        BY <4>2, <4>3 DEF Nothing
    <3>3. staging[p].tx \in BOOLEAN
      BY DEF StagingStates
    <3> QED
      BY <1>4, <3>1, <3>2, <3>3 DEF CleanUp
  <2>3. proc[p].at = "cleaning" /\ UNCHANGED <<final, stolen, spoilt>>
    BY <1>4 DEF CleanUp, At, bounds, Fault
  <2>4. Works(p)
    BY <1>l, <1>e, <2>1, <2>2, <2>3 DEF Works
  <2>5. ASSUME ~stolen PROVE Over(p, proc'[p], final', spoilt')
    BY <1>1, <2>1, <2>3, <2>5 DEF Over
  <2> QED
    BY <1>1, <2>1, <2>3, <2>4, <2>5 DEF Advances, Progress
<1> QED
  BY <1>2, <1>3, <1>4

\* Taking the lock: what is committed now is what the build found.
LEMMA TakesLock ==
  ASSUME TypeOK, TypeOK', LockInv', Side, InStep, NEW p \in Procs, CreateLock(p),
         ~(proc[p].tries = 3 \/ lock # Free)
  PROVE  Side' /\ InStep'
<1>0. Holding(p) /\ proc \in [Procs -> ProcStates]
  BY Holds, TypeParts
<1>1. /\ proc[p].at = "locking" /\ UNCHANGED <<staging, final, stolen, spoilt>>
      /\ proc' = [proc EXCEPT ![p].at = "writing", ![p].tries = 0, ![p].before = final]
  BY DEF CreateLock, At, bounds
<1>2. /\ Others(p) /\ proc'[p].at = "writing" /\ proc'[p].wants = proc[p].wants
      /\ proc'[p].before = final
  BY <1>0, <1>1 DEF Others, ProcStates
<1>3. "writing" \in Locked /\ "locking" \in Running
  BY DEF Locked, Running
<1>4. staging[p].replaced = Nothing
  BY <1>1 DEF Side, Clean, Early
<1>5. Map \in proc[p].wants
  BY <1>0, <1>1, <1>3 DEF Holding
<1>6. Tidy(p)
  BY <1>1, <1>2, <1>4, <1>5 DEF Tidy, PidGone, At
<1>7. ~stolen' => /\ Honest(proc, final', spoilt') /\ Honest(proc, proc'[p].before, spoilt')
                  /\ Progress(p, proc'[p], final', staging'[p].replaced, spoilt')
  BY <1>1, <1>2, <1>4 DEF InStep, Progress, Untouched
<1>8. InStep'
  BY <1>2, <1>3, <1>7, OwnerKept
<1> QED
  BY <1>6, <1>8, SideKept

OInv == IInv /\ Side /\ InStep

LEMMA OutputsStarted == Init => OInv
<1> SUFFICES ASSUME Init PROVE OInv
  OBVIOUS
<1>1. IInv
  BY Started
<1>2. /\ \A p \in Procs : proc[p] = Idle /\ staging[p] = Gone
      /\ final = Nothing
  BY DEF Init
<1>3. Idle.at = "idle" /\ Idle.before = Nothing /\ Gone.replaced = Nothing
  BY DEF Idle, Gone
<1>4. \A o \in Outputs : Nothing[o] = None
  BY DEF Nothing
<1>5. "idle" \notin Running /\ "idle" \notin Locked
  BY PlaceFacts
<1>6. Side
  BY <1>2, <1>3, <1>4, <1>5, DescriptorBuildAssumption
     DEF Side, RemovesGone, Unborn, Wanting, Clean, At
<1>7. InStep
  BY <1>2, <1>3, <1>4, <1>5 DEF InStep, Honest, Outputs
<1> QED
  BY <1>1, <1>6, <1>7 DEF OInv

LEMMA OutputsKept == OInv /\ [Next]_vars => OInv'
<1> SUFFICES ASSUME OInv, [Next]_vars PROVE OInv'
  OBVIOUS
<1>0. TypeOK /\ LockInv /\ Side /\ InStep
  BY DEF OInv, IInv
<1>1. IInv' /\ TypeOK' /\ LockInv'
  BY Kept DEF OInv, IInv
<1>2. ASSUME NEW p \in Procs, Step(p) \/ Crash(p)
      PROVE  Side' /\ InStep'
  <2>1. CASE \/ Start(p) \/ (\E q \in Procs : Examine(p, q) \/ ExamineFails(p, q))
             \/ CheckOwner(p) \/ RemoveStale(p) \/ ScanDone(p) \/ ReadLock(p) \/ ProbePid(p)
             \/ Unlink(p) \/ DropLock(p) \/ Crash(p)
             \/ CreateLock(p) /\ (proc[p].tries = 3 \/ lock # Free)
    BY <1>0, <2>1, BystanderSteps, BystanderKept
  <2>2. CASE CreateLock(p) /\ ~(proc[p].tries = 3 \/ lock # Free)
    BY <1>0, <1>1, <2>2, TakesLock
  <2>3. CASE \/ WriteLock(p) \/ WriteLockFails(p) \/ MakeStaging(p) \/ WriteTransaction(p)
             \/ NewFails(p) \/ Build(p) \/ CommitStep(p) \/ CleanUp(p)
    <3>1. Holding(p)
      BY <1>0, Holds
    <3>2. Advances(p)
      BY <2>3, <3>1, SetUpSteps, DisplaceSteps, ReplaceSteps, UndoSteps, RevertSteps
         DEF CommitStep
    <3> QED
      BY <1>0, <1>1, <3>2, WorkerKept DEF Advances
  <2> QED
    BY <1>2, <2>1, <2>2, <2>3 DEF Step, AcquireStep
<1>3. CASE UNCHANGED vars
  <2> USE <1>0, <1>3 DEF vars
  <2>1. Side'
    BY DEF Side, RemovesGone, PidGone, Unborn, Wanting, Clean, At
  <2>2. InStep'
    BY DEF InStep, Honest, Progress, Untouched, Displacing, Replacing, Undoing, Reverting, Over,
           MapLast
  <2> QED
    BY <1>1, <2>1, <2>2 DEF OInv
<1> QED
  BY <1>1, <1>2, <1>3 DEF OInv, Next

\* However many builds there are, whichever of them fails or dies between any
\* two file-system steps: what artifact-map.json names as its own build's is
\* that build's, or missing, or the leftover of a build whose rollback failed
\* (until the lock of a live build is removed).
THEOREM MapStaysTrue == Spec => []MapTellsTruth
<1>1. OInv => MapTellsTruth
  BY DEF OInv, InStep, Honest, MapTellsTruth
<1> QED
  BY OutputsStarted, OutputsKept, <1>1, PTL DEF Spec

\* A build that reports success has replaced every output it was asked for;
\* one that fails before or after it displaced outputs has put the committed
\* area back, but for what calls of its rollback that failed have left missing
\* or its own; one that fails while it displaces outputs has only taken some
\* away.
THEOREM BuildsEndWell == Spec => []EndsWell
<1>1. OInv => EndsWell
  <2> SUFFICES ASSUME OInv, NEW p \in Procs, proc[p].at = "unlocking", ~stolen
               PROVE  CASE proc[p].result = "ok" -> \A o \in proc[p].wants : final[o] = p
                        [] proc[p].result = "failed" /\ p \notin spoilt -> final = proc[p].before
                        [] proc[p].result = "failed" /\ p \in spoilt ->
                             \A o \in Outputs : final[o] \in {proc[p].before[o], None, p}
                        [] proc[p].result = "torn" ->
                             \A o \in Outputs : final[o] \in {proc[p].before[o], None}
    BY DEF EndsWell, At
  <2>1. Over(p, proc[p], final, spoilt)
    BY DEF OInv, InStep, Progress, Locked
  <2> QED
    BY <2>1 DEF Over
<1> QED
  BY OutputsStarted, OutputsKept, <1>1, PTL DEF Spec
=============================================================================
