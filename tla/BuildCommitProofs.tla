------------------------- MODULE BuildCommitProofs -------------------------
(***************************************************************************)
(* Proofs about BuildCommit, for any builds, any number of outputs, paths  *)
(* shared in any way, and any number of failing calls and dying builds: a  *)
(* path some build has written always has a version on disk, and a build   *)
(* ends with all its outputs in place or with every path as it was.        *)
(***************************************************************************)
EXTENDS BuildCommit, TLAPS

Contents == Builds \cup {None}

BuildStates ==
  [at : {"idle"} \cup Running \cup Ended, count : 0..MaxOutputs, idx : Outputs,
   temp : SUBSET Outputs, backup : [Outputs -> Contents], before : [Paths -> Contents],
   faults : 0..MaxFaults]

Becomes(b, r) == r \in BuildStates /\ build' = [build EXCEPT ![b] = r]

\* The outputs of a build that is under way are numbered to its count, and one
\* build is under way.
Counted == \A b \in Builds : build[b].at \in Running => build[b].count \in Outputs /\ build[b].idx <= build[b].count
Alone == \A b, c \in Builds : build[b].at \in Running /\ build[c].at \in Running => b = c

\* A backup is on disk under the name of some build's output for the path.
Backed(p) == \E b \in Builds, i \in Outputs : PathOf[i] = p /\ build[b].backup[i] # None

\* No backup is there before its turn, and what has been backed up is out of
\* place; while outputs are placed, old versions of their paths are backups.
Turn(b) ==
  LET r == build[b] IN
  /\ r.at \in {"idle", "copying"} => \A i \in Outputs : r.backup[i] = None
  /\ r.at = "backing" =>
       /\ \A i \in Outputs : i >= r.idx => r.backup[i] = None
       /\ \A i \in Outputs : i < r.idx => final[PathOf[i]] = None
  /\ r.at = "placing" =>
       /\ \A i \in 1..r.count : PathOf[i] \in kept => Backed(PathOf[i])
       /\ \A i \in Outputs : i < r.idx => final[PathOf[i]] = b
  /\ r.at = "finishing" => \A i \in 1..r.count : final[PathOf[i]] = b

InTurn == \A b \in Builds : Turn(b)

IInv == TypeOK /\ Counted /\ Alone /\ InTurn /\ VersionKept

LEMMA TypeParts ==
  TypeOK <=> /\ build \in [Builds -> BuildStates]
             /\ final \in [Paths -> Contents]
             /\ kept \subseteq Paths /\ crashes \in 0..MaxCrashes
BY DEF TypeOK, BuildStates, Contents

LEMMA TypePartsNext ==
  TypeOK' <=> /\ build' \in [Builds -> BuildStates]
              /\ final' \in [Paths -> Contents]
              /\ kept' \subseteq Paths /\ crashes' \in 0..MaxCrashes
BY DEF TypeOK, BuildStates, Contents

LEMMA OutputFacts ==
  /\ Outputs \subseteq Nat /\ 1 \in Outputs /\ MaxOutputs \in Outputs
  /\ \A n \in Outputs : 1..n \subseteq Outputs
  /\ \A i \in Outputs : PathOf[i] \in Paths
  /\ None \notin Builds
BY BuildCommitAssumption DEF Outputs

LEMMA BecomesAt ==
  ASSUME NEW b \in Builds, build \in [Builds -> BuildStates], NEW r, Becomes(b, r)
  PROVE  /\ build' \in [Builds -> BuildStates] /\ build'[b] = r
         /\ \A c \in Builds : c # b => build'[c] = build[c]
BY DEF Becomes

\* Going on to the next output changes the place and the number only.
LEMMA AdvancedRecord ==
  ASSUME NEW r \in BuildStates, r.count \in Outputs, r.idx <= r.count,
         NEW next \in {"idle"} \cup Running \cup Ended
  PROVE  LET a == Advanced(r, next)
         IN  /\ a \in BuildStates
             /\ a.count = r.count /\ a.backup = r.backup
             /\ a.before = r.before /\ a.temp = r.temp
             /\ a.idx \in Outputs /\ a.idx <= a.count
             /\ \/ r.idx < r.count /\ a.at = r.at /\ a.idx = r.idx + 1
                \/ r.idx = r.count /\ a.at = next /\ a.idx = 1
<1>0. r.idx \in Nat /\ r.count \in Nat /\ r.count <= MaxOutputs /\ r.idx >= 1 /\ MaxOutputs \in Nat
  BY BuildCommitAssumption DEF BuildStates, Outputs
<1>1. CASE r.idx < r.count
  <2> DEFINE k == r.idx + 1
  <2>1. Advanced(r, next) = [r EXCEPT !.idx = k] /\ k \in Outputs /\ k <= r.count
    BY <1>0, <1>1 DEF Advanced, Outputs
  <2> HIDE DEF k
  <2>2. /\ [r EXCEPT !.idx = k] \in BuildStates
        /\ [r EXCEPT !.idx = k].count = r.count /\ [r EXCEPT !.idx = k].backup = r.backup
        /\ [r EXCEPT !.idx = k].idx = k /\ [r EXCEPT !.idx = k].at = r.at
        /\ [r EXCEPT !.idx = k].before = r.before /\ [r EXCEPT !.idx = k].temp = r.temp
    BY <2>1 DEF BuildStates
  <2> QED
    BY <1>1, <2>1, <2>2 DEF k
<1>2. CASE ~(r.idx < r.count)
  <2>1. Advanced(r, next) = [r EXCEPT !.idx = 1, !.at = next] /\ 1 \in Outputs /\ 1 <= r.count
        /\ r.idx = r.count
    BY <1>0, <1>2 DEF Advanced, Outputs
  <2>2. /\ [r EXCEPT !.idx = 1, !.at = next] \in BuildStates
        /\ [r EXCEPT !.idx = 1, !.at = next].count = r.count
        /\ [r EXCEPT !.idx = 1, !.at = next].backup = r.backup
        /\ [r EXCEPT !.idx = 1, !.at = next].before = r.before
        /\ [r EXCEPT !.idx = 1, !.at = next].temp = r.temp
        /\ [r EXCEPT !.idx = 1, !.at = next].idx = 1
        /\ [r EXCEPT !.idx = 1, !.at = next].at = next
    BY <2>1 DEF BuildStates
  <2> QED
    BY <2>1, <2>2
<1> QED
  BY <1>1, <1>2
-----------------------------------------------------------------------------
\* b goes on with r while no other build is under way.
Alone1(b, r) ==
  /\ Becomes(b, r)
  /\ \A c \in Builds : c # b => build[c].at \notin Running
  /\ r.at \in Running => r.count \in Outputs /\ r.idx <= r.count

LEMMA AloneKept ==
  ASSUME IInv, NEW b \in Builds, NEW r \in BuildStates, Alone1(b, r)
  PROVE  /\ build' \in [Builds -> BuildStates] /\ build'[b] = r
         /\ \A c \in Builds : c # b => build'[c] = build[c]
         /\ Counted' /\ Alone'
         /\ Turn(b)' => InTurn'
<1>1. /\ build' \in [Builds -> BuildStates] /\ build'[b] = r
      /\ \A c \in Builds : c # b => build'[c] = build[c] /\ build[c].at \notin Running
  BY TypeParts, BecomesAt DEF IInv, Alone1
<1>2. Counted' /\ Alone'
  BY <1>1 DEF IInv, Alone1, Counted, Alone
<1>3. ASSUME NEW c \in Builds, c # b
      PROVE  Turn(c)'
  <2>1. build'[c] = build[c] /\ build[c].at \notin {"copying", "backing", "placing", "finishing"}
    BY <1>1, <1>3 DEF Running
  <2> QED
    BY <2>1 DEF IInv, InTurn, Turn
<1> QED
  BY <1>1, <1>2, <1>3 DEF InTurn

\* A step that leaves files, backups and history alone.
LEMMA Still ==
  ASSUME IInv, NEW b \in Builds, NEW r \in BuildStates, Alone1(b, r),
         \A i \in Outputs : r.backup[i] = build[b].backup[i],
         UNCHANGED <<final, kept>>, crashes' \in 0..MaxCrashes, Turn(b)'
  PROVE  IInv'
<1>1. /\ build' \in [Builds -> BuildStates] /\ build'[b] = r
      /\ \A c \in Builds : c # b => build'[c] = build[c]
      /\ Counted' /\ Alone' /\ InTurn'
  BY AloneKept
<1>2. VersionKept'
  BY <1>1 DEF IInv, VersionKept
<1>3. TypeOK'
  BY <1>1, TypeParts, TypePartsNext DEF IInv
<1> QED
  BY <1>1, <1>2, <1>3 DEF IInv

LEMMA StartKeeps ==
  ASSUME IInv, NEW b \in Builds, Start(b)
  PROVE  IInv'
<1>1. PICK n \in Outputs :
        build' = [build EXCEPT ![b] = [Idle EXCEPT !.at = "copying", !.count = n, !.before = final]]
  BY DEF Start
<1> DEFINE r == [Idle EXCEPT !.at = "copying", !.count = n, !.before = final]
<1>2. /\ r \in BuildStates /\ r.at = "copying" /\ r.count = n /\ r.idx = 1
      /\ \A i \in Outputs : r.backup[i] = None
  <2>1. /\ final \in [Paths -> Contents] /\ NoBackups \in [Outputs -> Contents]
        /\ n \in 0..MaxOutputs /\ 0 \in 0..MaxFaults /\ 1 \in Outputs
        /\ "copying" \in Running
    BY TypeParts, OutputFacts, BuildCommitAssumption
       DEF IInv, NoBackups, Contents, Outputs, Running
  <2> QED
    BY <2>1 DEF Idle, BuildStates, NoBackups
<1>3. build' = [build EXCEPT ![b] = r]
  BY <1>1
<1>4. build[b].at = "idle" /\ \A i \in Outputs : build[b].backup[i] = None
  BY DEF Start, At, IInv, InTurn, Turn
<1> HIDE DEF r
<1>5. Alone1(b, r)
  <2>1. 1 <= n
    BY DEF Outputs
  <2> QED
    BY <1>2, <1>3, <1>4, <2>1 DEF Alone1, Becomes, Start, Running
<1>6. Turn(b)'
  BY <1>2, <1>5, AloneKept DEF Turn
<1> QED
  BY <1>2, <1>4, <1>5, <1>6, Still, TypeParts DEF Start, IInv

\* What a build under way has in hand.
LEMMA Working ==
  ASSUME IInv, NEW b \in Builds, build[b].at \in Running
  PROVE  /\ build[b] \in BuildStates /\ build[b].count \in Outputs
         /\ build[b].idx \in Outputs /\ build[b].idx <= build[b].count
         /\ \A c \in Builds : c # b => build[c].at \notin Running
         /\ Path(b) \in Paths /\ build[b].idx \in Nat /\ build[b].count \in Nat
<1>1. build[b] \in BuildStates
  BY TypeParts DEF IInv
<1> QED
  BY <1>1, OutputFacts DEF IInv, Counted, Alone, BuildStates, Path

LEMMA CopyKeeps ==
  ASSUME IInv, NEW b \in Builds, Copy(b) \/ MakeDirFails(b) \/ CopyFails(b) \/ Crash(b)
  PROVE  IInv'
<1>1. /\ build[b].at \in Running /\ build[b] \in BuildStates
      /\ UNCHANGED <<final, kept>> /\ crashes' \in 0..MaxCrashes
  BY TypeParts, BuildCommitAssumption
     DEF IInv, Copy, MakeDirFails, CopyFails, Crash, At, Running
<1>2. \A c \in Builds : c # b => build[c].at \notin Running
  BY <1>1, Working
<1> DEFINE s == build[b]
<1>3. CASE Copy(b)
  <2> DEFINE u == [s EXCEPT !.temp = @ \cup {s.idx}]
             r == Advanced(u, "backing")
  <2>1. u \in BuildStates /\ u.count = s.count /\ u.idx = s.idx /\ u.backup = s.backup
        /\ u.at = "copying"
    <3>1. s \in BuildStates /\ s.idx \in Outputs /\ s.at = "copying"
      BY <1>1, <1>3, Working DEF Copy, At
    <3> HIDE DEF s
    <3> QED
      BY <3>1 DEF BuildStates
  <2>2. build' = [build EXCEPT ![b] = r]
    BY <1>3 DEF Copy, Advance
  <2> HIDE DEF u
  <2>3. /\ r \in BuildStates /\ r.count \in Outputs /\ r.idx <= r.count
        /\ r.backup = s.backup /\ r.count = s.count
        /\ \/ r.at = "copying"
           \/ r.at = "backing" /\ r.idx = 1
    BY <1>1, <2>1, AdvancedRecord, Working DEF Running
  <2> HIDE DEF r
  <2>4. Alone1(b, r)
    BY <1>2, <2>2, <2>3 DEF Alone1, Becomes
  <2>5. \A i \in Outputs : s.backup[i] = None
    BY <1>3 DEF Copy, At, IInv, InTurn, Turn
  <2>6. Turn(b)'
    BY <2>3, <2>4, <2>5, AloneKept, OutputFacts DEF Turn, Outputs
  <2> QED
    BY <1>1, <2>3, <2>4, <2>6, Still
<1>4. ASSUME NEW r, r \in BuildStates, r.at \in {"failed", "dead"}, r.backup = s.backup,
             build' = [build EXCEPT ![b] = r]
      PROVE  IInv'
  <2>1. Alone1(b, r)
    BY <1>2, <1>4 DEF Alone1, Becomes, Running
  <2>2. Turn(b)'
    BY <1>4, <2>1, AloneKept DEF Turn
  <2> QED
    BY <1>1, <1>4, <2>1, <2>2, Still
<1>5. CASE MakeDirFails(b) \/ Crash(b)
  <2>1. PICK place \in {"failed", "dead"} : build' = [build EXCEPT ![b] = [s EXCEPT !.at = place]]
    BY <1>5 DEF MakeDirFails, Crash
  <2>2. /\ [s EXCEPT !.at = place] \in BuildStates
        /\ [s EXCEPT !.at = place].at = place /\ [s EXCEPT !.at = place].backup = s.backup
    <3> HIDE DEF s
    <3> QED
      BY <1>1 DEF BuildStates, Ended, s
  <2> QED
    BY <1>4, <2>1, <2>2
<1>6. CASE CopyFails(b)
  <2>1. PICK partial \in SUBSET {s.idx} :
          build' = [build EXCEPT ![b] = [s EXCEPT !.at = "failed", !.temp = partial]]
    BY <1>6 DEF CopyFails
  <2>2. partial \in SUBSET Outputs
    BY <1>1, Working
  <2>3. /\ [s EXCEPT !.at = "failed", !.temp = partial] \in BuildStates
        /\ [s EXCEPT !.at = "failed", !.temp = partial].at = "failed"
        /\ [s EXCEPT !.at = "failed", !.temp = partial].backup = s.backup
    <3> HIDE DEF s
    <3> QED
      BY <1>1, <2>2 DEF BuildStates, Ended, s
  <2> QED
    BY <1>4, <2>1, <2>3
<1> QED
  BY <1>3, <1>5, <1>6
-----------------------------------------------------------------------------
\* A build under way that goes on to the next output or the next loop.
LEMMA GoesOn ==
  ASSUME IInv, NEW b \in Builds, build[b].at \in Running,
         NEW u \in BuildStates, u.count = build[b].count, u.idx = build[b].idx,
         NEW next \in Running \cup Ended, Advance(b, u, next)
  PROVE  \E r \in BuildStates :
           /\ Alone1(b, r) /\ r.backup = u.backup /\ r.count = u.count
           /\ r.before = u.before /\ r.temp = u.temp
           /\ \/ u.idx < u.count /\ r.at = u.at /\ r.idx = u.idx + 1
              \/ u.idx = u.count /\ r.at = next /\ r.idx = 1
<1> DEFINE r == Advanced(u, next)
<1>1. u.count \in Outputs /\ u.idx <= u.count /\ \A c \in Builds : c # b => build[c].at \notin Running
  BY Working
<1>2. /\ r \in BuildStates /\ r.count = u.count /\ r.backup = u.backup
      /\ r.before = u.before /\ r.temp = u.temp
      /\ r.idx \in Outputs /\ r.idx <= r.count
      /\ \/ u.idx < u.count /\ r.at = u.at /\ r.idx = u.idx + 1
         \/ u.idx = u.count /\ r.at = next /\ r.idx = 1
  BY <1>1, AdvancedRecord
<1>3. build' = [build EXCEPT ![b] = r]
  BY DEF Advance
<1> HIDE DEF r
<1>4. Alone1(b, r)
  BY <1>1, <1>2, <1>3 DEF Alone1, Becomes
<1> QED
  BY <1>2, <1>4

\* Replacing what a state holds for one output leaves the rest of it.
LEMMA NewBackup ==
  ASSUME NEW s \in BuildStates, NEW saved \in Contents
  PROVE  LET u == [s EXCEPT !.backup[s.idx] = saved]
         IN  /\ u \in BuildStates /\ u.count = s.count /\ u.idx = s.idx /\ u.at = s.at
             /\ u.backup[s.idx] = saved
             /\ \A i \in Outputs : i # s.idx => u.backup[i] = s.backup[i]
BY DEF BuildStates

LEMMA BackUpKeeps ==
  ASSUME IInv, NEW b \in Builds, BackUp(b)
  PROVE  IInv'
<1> DEFINE s == build[b]
           p == Path(b)
           u == [s EXCEPT !.backup[s.idx] = final[p]]
<1>1. /\ s \in BuildStates /\ s.at = "backing" /\ s.at \in Running
      /\ s.idx \in Outputs /\ s.count \in Outputs /\ p \in Paths /\ p = PathOf[s.idx]
      /\ s.idx \in Nat /\ s.count \in Nat
  BY Working DEF BackUp, At, Running, Path
<1>2. /\ final \in [Paths -> Contents] /\ final' = [final EXCEPT ![p] = None]
      /\ kept' = kept /\ crashes' = crashes
  BY TypeParts DEF BackUp, IInv
<1>3. /\ u \in BuildStates /\ u.count = s.count /\ u.idx = s.idx /\ u.at = "backing"
      /\ u.backup[s.idx] = final[p]
      /\ \A i \in Outputs : i # s.idx => u.backup[i] = s.backup[i]
  <2> HIDE DEF p
  <2>1. final[p] \in Contents
    BY <1>1, <1>2
  <2> HIDE DEF s
  <2> QED
    BY <1>1, <2>1, NewBackup
<1>4. Advance(b, u, "placing")
  BY DEF BackUp
<1> HIDE DEF u
<1>5. PICK r \in BuildStates :
        /\ Alone1(b, r) /\ r.backup = u.backup /\ r.count = u.count
        /\ \/ u.idx < u.count /\ r.at = u.at /\ r.idx = u.idx + 1
           \/ u.idx = u.count /\ r.at = "placing" /\ r.idx = 1
  BY <1>1, <1>3, <1>4, GoesOn DEF Running
<1>6. /\ build' \in [Builds -> BuildStates] /\ build'[b] = r
      /\ \A c \in Builds : c # b => build'[c] = build[c]
      /\ Counted' /\ Alone' /\ (Turn(b)' => InTurn')
  BY <1>5, AloneKept
<1>7. /\ \A i \in Outputs : i >= s.idx => s.backup[i] = None
      /\ \A i \in Outputs : i < s.idx => final[PathOf[i]] = None
  BY <1>1 DEF IInv, InTurn, Turn
<1>8. ASSUME NEW q \in Paths, final[q] # None \/ Backed(q)
      PROVE  final'[q] # None \/ Backed(q)'
  <2>1. CASE Backed(q)
    <3>1. PICK c \in Builds, i \in Outputs : PathOf[i] = q /\ build[c].backup[i] # None
      BY <2>1 DEF Backed
    <3>2. build'[c].backup[i] # None
      BY <1>1, <1>3, <1>5, <1>6, <1>7, <3>1
    <3> QED
      BY <3>1, <3>2 DEF Backed
  <2>2. CASE final[q] # None /\ q = p
    <3>1. build'[b].backup[s.idx] # None
      BY <1>3, <1>5, <1>6, <2>2
    <3> QED
      BY <1>1, <2>2, <3>1 DEF Backed
  <2>3. CASE final[q] # None /\ q # p
    BY <1>2, <2>3
  <2> QED
    BY <1>8, <2>1, <2>2, <2>3
<1>9. VersionKept'
  <2>1. \A q \in kept : q \in Paths /\ (final[q] # None \/ Backed(q))
    BY TypeParts DEF IInv, VersionKept, Backed
  <2>2. \A q \in kept : final'[q] # None \/ Backed(q)'
    BY <1>8, <2>1
  <2> QED
    BY <1>2, <2>2 DEF VersionKept, Backed
<1>10. Turn(b)'
  <2>1. CASE r.at = "backing" /\ r.idx = s.idx + 1
    <3>1. \A i \in Outputs : i >= r.idx => r.backup[i] = None
      BY <1>1, <1>3, <1>5, <1>7, <2>1, OutputFacts
    <3>2. \A i \in Outputs : i < r.idx => final'[PathOf[i]] = None
      <4>1. \A i \in Outputs : i < r.idx => i < s.idx \/ i = s.idx
        <5>1. \A i, k \in Nat : i < k + 1 => i < k \/ i = k
          OBVIOUS
        <5>2. \A i \in Outputs : i \in Nat
          BY OutputFacts
        <5> QED
          BY <1>1, <2>1, <5>1, <5>2
      <4> QED
        BY <1>1, <1>2, <1>7, <4>1, OutputFacts
    <3> QED
      BY <1>6, <2>1, <3>1, <3>2 DEF Turn
  <2>2. CASE r.at = "placing" /\ r.idx = 1 /\ s.idx = s.count
    <3>1. \A i \in 1..s.count : final'[PathOf[i]] = None
      <4>1. \A i \in 1..s.count : i \in Outputs /\ (i < s.idx \/ i = s.idx)
        BY <1>1, <2>2, OutputFacts
      <4> QED
        BY <1>1, <1>2, <1>7, <4>1, OutputFacts
    <3>2. \A i \in 1..r.count : PathOf[i] \in kept' => Backed(PathOf[i])'
      BY <1>3, <1>5, <1>9, <3>1 DEF VersionKept, Backed
    <3>3. \A i \in Outputs : ~(i < 1)
      BY OutputFacts DEF Outputs
    <3> QED
      BY <1>6, <2>2, <3>2, <3>3 DEF Turn
  <2> QED
    BY <1>3, <1>5, <2>1, <2>2
<1>11. TypeOK'
  <2>1. final' \in [Paths -> Contents]
    BY <1>2 DEF Contents
  <2> QED
    BY <1>2, <1>6, <2>1, TypeParts, TypePartsNext DEF IInv
<1> QED
  BY <1>6, <1>9, <1>10, <1>11 DEF IInv

LEMMA BackUpFailsKeeps ==
  ASSUME IInv, NEW b \in Builds, BackUpFails(b)
  PROVE  IInv'
<1> DEFINE s == build[b]
           r == [s EXCEPT !.at = "restoring", !.temp = {}, !.idx = 1, !.faults = @ + 1]
<1>1. /\ s \in BuildStates /\ s.at \in Running /\ s.count \in Outputs /\ s.faults < MaxFaults
      /\ \A c \in Builds : c # b => build[c].at \notin Running
  BY Working DEF BackUpFails, At, Running, FaultIn
<1>2. /\ r \in BuildStates /\ r.at = "restoring" /\ r.idx = 1 /\ r.count = s.count
      /\ r.backup = s.backup
  <2>1. s.faults + 1 \in 0..MaxFaults /\ 1 \in Outputs /\ "restoring" \in Running
    BY <1>1, OutputFacts, BuildCommitAssumption DEF BuildStates, Running
  <2> HIDE DEF s
  <2> QED
    BY <1>1, <2>1 DEF BuildStates
<1>3. build' = [build EXCEPT ![b] = r]
  BY DEF BackUpFails
<1> HIDE DEF r
<1>4. Alone1(b, r)
  <2>1. 1 <= s.count
    BY <1>1 DEF Outputs
  <2> QED
    BY <1>1, <1>2, <1>3, <2>1 DEF Alone1, Becomes
<1>5. Turn(b)'
  BY <1>2, <1>4, AloneKept DEF Turn
<1>6. UNCHANGED <<final, kept>> /\ crashes' \in 0..MaxCrashes
  BY TypeParts DEF BackUpFails, IInv
<1> QED
  BY <1>2, <1>4, <1>5, <1>6, Still
LEMMA PlaceKeeps ==
  ASSUME IInv, NEW b \in Builds, Place(b)
  PROVE  IInv'
<1> DEFINE s == build[b]
           p == Path(b)
           u == [s EXCEPT !.temp = @ \ {s.idx}]
<1>1. /\ s \in BuildStates /\ s.at = "placing" /\ s.at \in Running
      /\ s.idx \in Outputs /\ s.count \in Outputs /\ p \in Paths /\ p = PathOf[s.idx]
      /\ s.idx \in Nat /\ s.count \in Nat
  BY Working DEF Place, At, Running, Path
<1>2. /\ final \in [Paths -> Contents] /\ final' = [final EXCEPT ![p] = b]
      /\ kept' = kept /\ crashes' = crashes
  BY TypeParts DEF Place, IInv
<1>3. /\ u \in BuildStates /\ u.count = s.count /\ u.idx = s.idx /\ u.at = "placing"
      /\ u.backup = s.backup
  <2> HIDE DEF s
  <2> QED
    BY <1>1 DEF BuildStates
<1>4. Advance(b, u, "finishing")
  BY DEF Place
<1> HIDE DEF u
<1>5. PICK r \in BuildStates :
        /\ Alone1(b, r) /\ r.backup = u.backup /\ r.count = u.count
        /\ \/ u.idx < u.count /\ r.at = u.at /\ r.idx = u.idx + 1
           \/ u.idx = u.count /\ r.at = "finishing" /\ r.idx = 1
  BY <1>1, <1>3, <1>4, GoesOn DEF Running
<1>6. /\ build' \in [Builds -> BuildStates] /\ build'[b] = r
      /\ \A c \in Builds : c # b => build'[c] = build[c]
      /\ Counted' /\ Alone' /\ (Turn(b)' => InTurn')
  BY <1>5, AloneKept
<1>7. /\ \A i \in 1..s.count : PathOf[i] \in kept => Backed(PathOf[i])
      /\ \A i \in Outputs : i < s.idx => final[PathOf[i]] = b
  BY <1>1 DEF IInv, InTurn, Turn
<1>8. \A c \in Builds : build'[c].backup = build[c].backup
  BY <1>3, <1>5, <1>6
<1>9. \A q \in Paths : Backed(q) => Backed(q)'
  BY <1>8 DEF Backed
<1>10. VersionKept'
  <2>1. \A q \in kept : q \in Paths /\ (final[q] # None \/ Backed(q))
    BY TypeParts DEF IInv, VersionKept, Backed
  <2>2. \A q \in kept : final'[q] # None \/ Backed(q)'
    BY <1>2, <1>9, <2>1, OutputFacts
  <2> QED
    BY <1>2, <2>2 DEF VersionKept, Backed
<1>11. Turn(b)'
  <2>1. \A i \in 1..s.count : PathOf[i] \in kept' => Backed(PathOf[i])'
    BY <1>1, <1>2, <1>7, <1>9, OutputFacts
  <2>2. \A i \in Outputs : i < s.idx \/ i = s.idx => final'[PathOf[i]] = b
    BY <1>1, <1>2, <1>7, OutputFacts
  <2>3. CASE r.at = "placing" /\ r.idx = s.idx + 1
    <3>1. \A i \in Outputs : i < r.idx => i < s.idx \/ i = s.idx
      <4>1. \A i, k \in Nat : i < k + 1 => i < k \/ i = k
        OBVIOUS
      <4>2. \A i \in Outputs : i \in Nat
        BY OutputFacts
      <4> QED
        BY <1>1, <2>3, <4>1, <4>2
    <3> QED
      BY <1>3, <1>5, <1>6, <2>1, <2>2, <2>3, <3>1 DEF Turn
  <2>4. CASE r.at = "finishing" /\ s.idx = s.count
    <3>1. \A i \in 1..s.count : i \in Outputs /\ (i < s.idx \/ i = s.idx)
      BY <1>1, <2>4, OutputFacts
    <3> QED
      BY <1>3, <1>5, <1>6, <2>2, <2>4, <3>1 DEF Turn
  <2> QED
    BY <1>3, <1>5, <2>3, <2>4
<1>12. TypeOK'
  <2>1. final' \in [Paths -> Contents]
    BY <1>2 DEF Contents
  <2> QED
    BY <1>2, <1>6, <2>1, TypeParts, TypePartsNext DEF IInv
<1> QED
  BY <1>6, <1>10, <1>11, <1>12 DEF IInv

\* What was placed so far replaced a version that is a backup.
LEMMA PlaceFailsKeeps ==
  ASSUME IInv, NEW b \in Builds, PlaceFails(b)
  PROVE  IInv'
<1> DEFINE s == build[b]
           r == [s EXCEPT !.at = "restoring", !.idx = 1, !.faults = @ + 1]
<1>1. /\ s \in BuildStates /\ s.at = "placing" /\ s.at \in Running /\ s.faults < MaxFaults
      /\ s.count \in Outputs /\ s.idx <= s.count /\ s.idx \in Nat /\ s.count \in Nat
      /\ \A c \in Builds : c # b => build[c].at \notin Running
  BY Working DEF PlaceFails, At, Running, FaultIn
<1>2. /\ final \in [Paths -> Contents]
      /\ final' = [q \in Paths |-> IF q \in PlacedSoFar(b) THEN None ELSE final[q]]
      /\ kept' = kept /\ crashes' = crashes
  BY TypeParts DEF PlaceFails, IInv
<1>3. r \in BuildStates /\ r.at = "restoring" /\ r.idx = 1 /\ r.count = s.count /\ r.backup = s.backup
  <2>1. s.faults + 1 \in 0..MaxFaults /\ 1 \in Outputs /\ "restoring" \in Running
    BY <1>1, OutputFacts, BuildCommitAssumption DEF BuildStates, Running
  <2> HIDE DEF s
  <2> QED
    BY <1>1, <2>1 DEF BuildStates
<1>4. build' = [build EXCEPT ![b] = r]
  BY DEF PlaceFails
<1> HIDE DEF r
<1>5. Alone1(b, r)
  <2>1. 1 <= s.count
    BY <1>1 DEF Outputs
  <2> QED
    BY <1>1, <1>3, <1>4, <2>1 DEF Alone1, Becomes
<1>6. /\ build' \in [Builds -> BuildStates] /\ build'[b] = r
      /\ \A c \in Builds : c # b => build'[c] = build[c]
      /\ Counted' /\ Alone' /\ (Turn(b)' => InTurn')
  BY <1>3, <1>5, AloneKept
<1>7. Turn(b)'
  BY <1>3, <1>6 DEF Turn
<1>8. \A q \in Paths : Backed(q) => Backed(q)'
  BY <1>3, <1>6 DEF Backed
<1>9. VersionKept'
  <2>1. \A q \in kept : q \in Paths /\ (final[q] # None \/ Backed(q))
    BY TypeParts DEF IInv, VersionKept, Backed
  <2>2. \A i \in 1..(s.idx - 1) : i \in 1..s.count
    BY <1>1
  <2>3. \A q \in kept : q \in PlacedSoFar(b) => Backed(q)
    BY <1>1, <2>2 DEF PlacedSoFar, IInv, InTurn, Turn
  <2>4. \A q \in kept : final'[q] # None \/ Backed(q)'
    BY <1>2, <1>8, <2>1, <2>3
  <2> QED
    BY <1>2, <2>4 DEF VersionKept, Backed
<1>10. TypeOK'
  <2>1. final' \in [Paths -> Contents]
    BY <1>2 DEF Contents
  <2> QED
    BY <1>2, <1>6, <2>1, TypeParts, TypePartsNext DEF IInv
<1> QED
  BY <1>6, <1>7, <1>9, <1>10 DEF IInv

LEMMA RestoreKeeps ==
  ASSUME IInv, NEW b \in Builds, Restore(b)
  PROVE  IInv'
<1> DEFINE s == build[b]
           p == Path(b)
           saved == s.backup[s.idx]
           u == [s EXCEPT !.temp = @ \ {s.idx}, !.backup[s.idx] = None]
<1>1. /\ s \in BuildStates /\ s.at = "restoring" /\ s.at \in Running
      /\ s.idx \in Outputs /\ s.count \in Outputs /\ p \in Paths /\ p = PathOf[s.idx]
  BY Working DEF Restore, At, Running, Path
<1>2. /\ final \in [Paths -> Contents]
      /\ final' = IF saved = None THEN final ELSE [final EXCEPT ![p] = saved]
      /\ kept' = kept /\ crashes' = crashes
  BY TypeParts DEF Restore, IInv
<1>3. saved \in Contents
  BY <1>1 DEF BuildStates
<1>4. /\ u \in BuildStates /\ u.count = s.count /\ u.idx = s.idx /\ u.at = "restoring"
      /\ \A i \in Outputs : i # s.idx => u.backup[i] = s.backup[i]
  <2> HIDE DEF s
  <2> QED
    BY <1>1 DEF BuildStates, Contents
<1>5. Advance(b, u, "failed")
  BY DEF Restore
<1> HIDE DEF u
<1>6. PICK r \in BuildStates :
        /\ Alone1(b, r) /\ r.backup = u.backup /\ r.count = u.count
        /\ \/ u.idx < u.count /\ r.at = u.at /\ r.idx = u.idx + 1
           \/ u.idx = u.count /\ r.at = "failed" /\ r.idx = 1
  BY <1>1, <1>4, <1>5, GoesOn DEF Ended
<1>7. /\ build' \in [Builds -> BuildStates] /\ build'[b] = r
      /\ \A c \in Builds : c # b => build'[c] = build[c]
      /\ Counted' /\ Alone' /\ (Turn(b)' => InTurn')
  BY <1>6, AloneKept
<1>8. Turn(b)'
  BY <1>4, <1>6, <1>7 DEF Turn
<1> HIDE DEF p, saved
<1>9. ASSUME NEW q \in Paths, final[q] # None \/ Backed(q)
      PROVE  final'[q] # None \/ Backed(q)'
  <2>1. CASE final[q] # None
    BY <1>2, <1>3, <2>1
  <2>2. CASE Backed(q)
    <3>1. PICK c \in Builds, i \in Outputs : PathOf[i] = q /\ build[c].backup[i] # None
      BY <2>2 DEF Backed
    <3>2. CASE c = b /\ i = s.idx
      <4>1. saved # None /\ q = p
        BY <1>1, <3>1, <3>2 DEF saved, p
      <4> QED
        BY <1>2, <4>1
    <3>3. CASE ~(c = b /\ i = s.idx)
      <4>1. build'[c].backup[i] # None
        BY <1>4, <1>6, <1>7, <3>1, <3>3
      <4> QED
        BY <3>1, <4>1 DEF Backed
    <3> QED
      BY <3>2, <3>3
  <2> QED
    BY <1>9, <2>1, <2>2
<1>10. VersionKept'
  <2>1. \A q \in kept : q \in Paths /\ (final[q] # None \/ Backed(q))
    BY TypeParts DEF IInv, VersionKept, Backed
  <2>2. \A q \in kept : final'[q] # None \/ Backed(q)'
    BY <1>9, <2>1
  <2> QED
    BY <1>2, <2>2 DEF VersionKept, Backed
<1>11. TypeOK'
  <2>1. final' \in [Paths -> Contents]
    BY <1>2, <1>3 DEF Contents
  <2> QED
    BY <1>2, <1>7, <2>1, TypeParts, TypePartsNext DEF IInv
<1> QED
  BY <1>7, <1>8, <1>10, <1>11 DEF IInv

LEMMA FinishKeeps ==
  ASSUME IInv, NEW b \in Builds, Finish(b)
  PROVE  IInv'
<1> DEFINE s == build[b]
           p == Path(b)
           u == [s EXCEPT !.backup[s.idx] = None]
<1>1. /\ s \in BuildStates /\ s.at = "finishing" /\ s.at \in Running
      /\ s.idx \in Outputs /\ s.count \in Outputs /\ s.idx <= s.count
      /\ p \in Paths /\ p = PathOf[s.idx]
  BY Working DEF Finish, At, Running, Path
<1>2. final' = final /\ kept' = kept \cup {p} /\ crashes' = crashes
  BY DEF Finish
<1>3. /\ u \in BuildStates /\ u.count = s.count /\ u.idx = s.idx /\ u.at = "finishing"
      /\ \A i \in Outputs : i # s.idx => u.backup[i] = s.backup[i]
  <2> HIDE DEF s
  <2> QED
    BY <1>1, NewBackup DEF Contents
<1>4. Advance(b, u, "ok")
  BY DEF Finish
<1> HIDE DEF u
<1>5. PICK r \in BuildStates :
        /\ Alone1(b, r) /\ r.backup = u.backup /\ r.count = u.count
        /\ \/ u.idx < u.count /\ r.at = u.at /\ r.idx = u.idx + 1
           \/ u.idx = u.count /\ r.at = "ok" /\ r.idx = 1
  BY <1>1, <1>3, <1>4, GoesOn DEF Ended
<1>6. /\ build' \in [Builds -> BuildStates] /\ build'[b] = r
      /\ \A c \in Builds : c # b => build'[c] = build[c]
      /\ Counted' /\ Alone' /\ (Turn(b)' => InTurn')
  BY <1>5, AloneKept
<1>7. \A i \in 1..s.count : final[PathOf[i]] = b
  BY <1>1 DEF IInv, InTurn, Turn
<1>8. Turn(b)'
  BY <1>2, <1>3, <1>5, <1>6, <1>7 DEF Turn
<1>9. ASSUME NEW q \in kept'
      PROVE  final'[q] # None \/ Backed(q)'
  <2>1. CASE q = p
    <3>1. s.idx \in 1..s.count
      BY <1>1 DEF Outputs
    <3> QED
      BY <1>1, <1>2, <1>7, <2>1, <3>1, OutputFacts
  <2>2. CASE q # p
    <3>1. q \in kept /\ (final[q] # None \/ Backed(q))
      BY <1>2, <1>9, <2>2 DEF IInv, VersionKept, Backed
    <3>2. CASE Backed(q)
      <4>1. PICK c \in Builds, i \in Outputs : PathOf[i] = q /\ build[c].backup[i] # None
        BY <3>2 DEF Backed
      <4>2. build'[c].backup[i] # None
        BY <1>1, <1>3, <1>5, <1>6, <2>2, <4>1
      <4> QED
        BY <4>1, <4>2 DEF Backed
    <3> QED
      BY <1>2, <3>1, <3>2
  <2> QED
    BY <2>1, <2>2
<1>10. VersionKept'
  BY <1>9 DEF VersionKept, Backed
<1>11. TypeOK'
  BY <1>1, <1>2, <1>6, TypeParts, TypePartsNext DEF IInv
<1> QED
  BY <1>6, <1>8, <1>10, <1>11 DEF IInv
-----------------------------------------------------------------------------
LEMMA Started ==
  ASSUME Init
  PROVE  IInv
<1>1. \A b \in Builds : /\ build[b].at = "idle"
                        /\ \A i \in Outputs : build[b].backup[i] = None
  BY DEF Init, Idle, NoBackups
<1>2. TypeOK
  <2>1. /\ NoBackups \in [Outputs -> Contents] /\ 1 \in Outputs /\ 0 \in 0..MaxFaults
        /\ 0 \in 0..MaxOutputs /\ 0 \in 0..MaxCrashes
        /\ [p \in Paths |-> None] \in [Paths -> Contents]
    BY OutputFacts, BuildCommitAssumption DEF NoBackups, Contents
  <2>2. Idle \in BuildStates
    BY <2>1 DEF Idle, BuildStates
  <2> QED
    BY <2>1, <2>2, TypeParts DEF Init
<1>3. Counted /\ Alone
  BY <1>1 DEF Counted, Alone, Running
<1>4. InTurn
  BY <1>1 DEF InTurn, Turn
<1>5. VersionKept
  BY DEF Init, VersionKept
<1> QED
  BY <1>2, <1>3, <1>4, <1>5 DEF IInv

LEMMA Kept ==
  ASSUME IInv, [Next]_vars
  PROVE  IInv'
<1>1. CASE UNCHANGED vars
  <2>1. UNCHANGED build /\ UNCHANGED final /\ UNCHANGED kept /\ UNCHANGED crashes
    BY <1>1 DEF vars
  <2> QED
    BY <2>1 DEF IInv, TypeOK, Counted, Alone, InTurn, Turn, Backed, VersionKept
<1>2. ASSUME NEW b \in Builds, Step(b) \/ Crash(b)
      PROVE  IInv'
  BY <1>2, StartKeeps, CopyKeeps, BackUpKeeps, BackUpFailsKeeps, PlaceKeeps,
     PlaceFailsKeeps, RestoreKeeps, FinishKeeps DEF Step
<1> QED
  BY <1>1, <1>2 DEF Next

\* Once a build has written a path, some build's version of it is on disk, in
\* place or as a backup, whatever fails or dies (build.rs:1086).
THEOREM VersionsKept == Spec => []VersionKept
<1>1. Init => IInv
  BY Started
<1>2. IInv /\ [Next]_vars => IInv'
  BY Kept
<1>3. IInv => VersionKept
  BY DEF IInv
<1> QED
  BY <1>1, <1>2, <1>3, PTL DEF Spec
-----------------------------------------------------------------------------
(***************************************************************************)
(* Undoing.  While a build with the record r is under way and F is in      *)
(* place, each path holds what it held before the build, or nothing, and   *)
(* then a backup still to be brought back holds it.                        *)
(***************************************************************************)
Saves(r) == \A i \in Outputs :
  r.backup[i] \in {None, r.before[PathOf[i]]} /\ (i > r.count => r.backup[i] = None)

\* p, where v is now, can be given back what it held, from the outputs S.
Safe(r, v, p, S) ==
  \/ v = r.before[p]
  \/ v = None /\ \E i \in S : PathOf[i] = p /\ r.backup[i] = r.before[p]

Placed(r) == {PathOf[i] : i \in 1..(r.idx - 1)}

Undo(r, F) ==
  /\ r.at \in Running => Saves(r)
  /\ r.at = "copying" => F = r.before /\ r.temp \subseteq 1..(r.idx - 1)
  /\ r.at = "backing" => r.temp \subseteq 1..r.count /\ \A p \in Paths : Safe(r, F[p], p, 1..r.count)
  /\ r.at = "placing" =>
       /\ r.temp \subseteq r.idx..r.count
       /\ \A p \in Paths : Safe(r, IF p \in Placed(r) THEN None ELSE F[p], p, 1..r.count)
       /\ \A i \in 1..r.count : PathOf[i] \in Placed(r) \/ F[PathOf[i]] = None
  /\ r.at = "restoring" =>
       /\ \A i \in Outputs : i < r.idx => r.backup[i] = None
       /\ \A p \in Paths : Safe(r, F[p], p, r.idx..r.count)
  /\ r.at = "finishing" => r.temp = {} /\ \A i \in Outputs : i < r.idx => r.backup[i] = None

Undoable == \A b \in Builds : Undo(build[b], final)

\* What EndsWell asks of a step of b that takes it from the record s to r.
EndsRight(b, s, r, F) ==
  /\ r.at = "ok" => /\ r.temp = {} /\ r.backup = NoBackups
                    /\ \A i \in 1..s.count : F[PathOf[i]] = b
  /\ r.at = "failed" => F = s.before /\ r.backup = NoBackups

\* Numbers of outputs, in the steps of the loops.
LEMMA Loops ==
  ASSUME NEW k \in Outputs, NEW n \in Outputs, k <= n
  PROVE  /\ 1..n \subseteq Outputs /\ k \in 1..n /\ n \in Nat /\ k \in Nat /\ 1 \in 1..n
         /\ k < n => (k + 1) - 1 = k /\ \A i \in Outputs : i < k + 1 => i < k \/ i = k
         /\ k = n => 1..k = 1..n /\ \A i \in Outputs : i < k \/ i = k \/ i > n
         /\ 1..k = 1..(k - 1) \cup {k} /\ 1..(1 - 1) = {}
         /\ k..n = {k} \cup (k + 1)..n /\ k \notin (k + 1)..n
         /\ \A i \in Outputs : ~(i < 1)
BY BuildCommitAssumption DEF Outputs

LEMMA NoneLeft ==
  ASSUME NEW r \in BuildStates, \A i \in Outputs : r.backup[i] = None
  PROVE  r.backup = NoBackups
BY DEF BuildStates, NoBackups

\* A step of b does its part: it can still be undone, and it ends right.
Proper(b) == Undo(build'[b], final') /\ EndsRight(b, build[b], build'[b], final')

LEMMA CopyProper ==
  ASSUME IInv, Undoable, NEW b \in Builds,
         Start(b) \/ Copy(b) \/ MakeDirFails(b) \/ CopyFails(b) \/ Crash(b)
  PROVE  Proper(b)
<1> DEFINE s == build[b]
<1>0. build \in [Builds -> BuildStates] /\ s \in BuildStates /\ final' = final
  BY TypeParts DEF IInv, Start, Copy, MakeDirFails, CopyFails, Crash
<1>1. CASE Start(b)
  <2>1. PICK n \in Outputs :
          build' = [build EXCEPT ![b] = [Idle EXCEPT !.at = "copying", !.count = n, !.before = final]]
    BY <1>1 DEF Start
  <2> DEFINE r == [Idle EXCEPT !.at = "copying", !.count = n, !.before = final]
  <2>2. /\ r.at = "copying" /\ r.before = final /\ r.temp = {}
        /\ \A i \in Outputs : r.backup[i] = None
    BY DEF Idle, NoBackups
  <2>3. build'[b] = r
    BY <1>0, <2>1
  <2> HIDE DEF r
  <2> QED
    BY <1>0, <2>2, <2>3 DEF Proper, Undo, Saves, EndsRight
<1>2. CASE Copy(b)
  <2> DEFINE u == [s EXCEPT !.temp = @ \cup {s.idx}]
  <2>1. /\ s.at = "copying" /\ s.at \in Running /\ s.idx \in Outputs
        /\ s.count \in Outputs /\ s.idx <= s.count
    BY <1>2, Working DEF Copy, At, Running
  <2>2. /\ u \in BuildStates /\ u.count = s.count /\ u.idx = s.idx /\ u.backup = s.backup
        /\ u.at = "copying" /\ u.before = s.before /\ u.temp = s.temp \cup {s.idx}
    <3> HIDE DEF s
    <3> QED
      BY <1>0, <2>1 DEF BuildStates
  <2>3. Advance(b, u, "backing")
    BY <1>2 DEF Copy
  <2> HIDE DEF u
  <2>4. PICK r \in BuildStates :
          /\ Alone1(b, r) /\ r.backup = u.backup /\ r.count = u.count
          /\ r.before = u.before /\ r.temp = u.temp
          /\ \/ u.idx < u.count /\ r.at = u.at /\ r.idx = u.idx + 1
             \/ u.idx = u.count /\ r.at = "backing" /\ r.idx = 1
    BY <2>1, <2>2, <2>3, GoesOn DEF Running
  <2>5. build'[b] = r
    BY <2>4, AloneKept
  <2>6. final = s.before /\ s.temp \subseteq 1..(s.idx - 1) /\ Saves(s)
    BY <2>1 DEF Undoable, Undo
  <2>7. r.temp \subseteq 1..s.idx /\ Saves(r) /\ final' = r.before
    BY <1>0, <2>1, <2>2, <2>4, <2>6, Loops DEF Saves
  <2>8. Undo(r, final')
    BY <2>1, <2>2, <2>4, <2>7, Loops DEF Undo, Safe
  <2> QED
    BY <2>2, <2>4, <2>5, <2>8 DEF Proper, EndsRight
<1>3. ASSUME NEW r \in BuildStates, build' = [build EXCEPT ![b] = r],
             r.at = "dead" \/ (r.at = "failed" /\ s.at = "copying" /\ r.backup = s.backup)
      PROVE  Proper(b)
  <2>1. build'[b] = r
    BY <1>0, <1>3
  <2>2. Undo(r, final')
    BY <1>3 DEF Undo, Running
  <2>3. r.at = "failed" => final' = s.before /\ r.backup = NoBackups
    <3>1. s.at = "copying" => final = s.before /\ \A i \in Outputs : s.backup[i] = None
      BY DEF Undoable, Undo, IInv, InTurn, Turn
    <3> QED
      BY <1>0, <1>3, <3>1, NoneLeft
  <2> QED
    BY <1>3, <2>1, <2>2, <2>3 DEF Proper, EndsRight
<1>4. CASE MakeDirFails(b) \/ Crash(b)
  <2>1. PICK place \in {"failed", "dead"} :
          /\ build' = [build EXCEPT ![b] = [s EXCEPT !.at = place]]
          /\ place = "dead" \/ s.at = "copying"
    BY <1>4 DEF MakeDirFails, Crash, At
  <2>2. /\ [s EXCEPT !.at = place] \in BuildStates
        /\ [s EXCEPT !.at = place].at = place /\ [s EXCEPT !.at = place].backup = s.backup
    <3> HIDE DEF s
    <3> QED
      BY <1>0 DEF BuildStates, Ended
  <2> QED
    BY <1>3, <2>1, <2>2
<1>5. CASE CopyFails(b)
  <2>1. PICK partial \in SUBSET {s.idx} :
          build' = [build EXCEPT ![b] = [s EXCEPT !.at = "failed", !.temp = partial]]
    BY <1>5 DEF CopyFails
  <2>2. partial \in SUBSET Outputs /\ s.at = "copying"
    BY <1>0, <1>5 DEF BuildStates, CopyFails, At
  <2>3. /\ [s EXCEPT !.at = "failed", !.temp = partial] \in BuildStates
        /\ [s EXCEPT !.at = "failed", !.temp = partial].at = "failed"
        /\ [s EXCEPT !.at = "failed", !.temp = partial].backup = s.backup
    <3> HIDE DEF s
    <3> QED
      BY <1>0, <2>2 DEF BuildStates, Ended
  <2> QED
    BY <1>3, <2>1, <2>2, <2>3
<1> QED
  BY <1>1, <1>2, <1>4, <1>5

\* A backup holds what its path held, and the path can be given it back.
LEMMA BackUpProper ==
  ASSUME IInv, Undoable, NEW b \in Builds, BackUp(b) \/ BackUpFails(b)
  PROVE  Proper(b)
<1> DEFINE s == build[b]
           p == Path(b)
<1>1. /\ s \in BuildStates /\ s.at = "backing" /\ s.at \in Running
      /\ s.idx \in Outputs /\ s.count \in Outputs /\ s.idx <= s.count
      /\ p \in Paths /\ p = PathOf[s.idx] /\ build \in [Builds -> BuildStates]
      /\ final \in [Paths -> Contents]
  BY Working, TypeParts DEF IInv, BackUp, BackUpFails, At, Running, Path
<1>2. /\ s.temp \subseteq 1..s.count /\ Saves(s)
      /\ \A q \in Paths : Safe(s, final[q], q, 1..s.count)
  BY <1>1 DEF Undoable, Undo
<1>3. /\ \A i \in Outputs : i >= s.idx => s.backup[i] = None
      /\ \A i \in Outputs : i < s.idx => final[PathOf[i]] = None
  BY <1>1 DEF IInv, InTurn, Turn
<1>4. CASE BackUp(b)
  <2> DEFINE u == [s EXCEPT !.backup[s.idx] = final[p]]
  <2>1. /\ u \in BuildStates /\ u.count = s.count /\ u.idx = s.idx /\ u.at = "backing"
        /\ u.before = s.before /\ u.temp = s.temp
        /\ \A i \in Outputs : u.backup[i] = IF i = s.idx THEN final[p] ELSE s.backup[i]
    <3> DEFINE v == final[p]
    <3>1. v \in Contents
      BY <1>1
    <3> HIDE DEF v, s
    <3>2. u = [s EXCEPT !.backup[s.idx] = v]
      BY DEF v
    <3>3. s.idx \in Outputs /\ s.backup \in [Outputs -> Contents]
      BY <1>1 DEF BuildStates
    <3> QED
      BY <1>1, <3>1, <3>2, <3>3 DEF BuildStates, v
  <2>2. Advance(b, u, "placing") /\ final' = [final EXCEPT ![p] = None]
    BY <1>4 DEF BackUp
  <2> HIDE DEF u
  <2>3. PICK r \in BuildStates :
          /\ Alone1(b, r) /\ r.backup = u.backup /\ r.count = u.count
          /\ r.before = u.before /\ r.temp = u.temp
          /\ \/ u.idx < u.count /\ r.at = u.at /\ r.idx = u.idx + 1
             \/ u.idx = u.count /\ r.at = "placing" /\ r.idx = 1
    BY <1>1, <2>1, <2>2, GoesOn DEF Running
  <2>4. build'[b] = r
    BY <2>3, AloneKept
  <2>5. \A q \in Paths : final'[q] = IF q = p THEN None ELSE final[q]
    BY <1>1, <2>2
  <2>6. s.idx \in 1..s.count /\ 1..s.count \subseteq Outputs /\ s.idx \in Nat /\ s.count \in Nat
    BY <1>1, Loops
  <2>7. ASSUME NEW q \in Paths
        PROVE  Safe(r, final'[q], q, 1..r.count)
    <3>1. Safe(s, final[q], q, 1..s.count)
      BY <1>2
    <3>2. CASE final[q] = s.before[q] /\ q = p
      BY <1>1, <2>1, <2>3, <2>5, <2>6, <3>2 DEF Safe
    <3>3. CASE final[q] = s.before[q] /\ q # p
      BY <2>1, <2>3, <2>5, <3>3 DEF Safe
    <3>4. CASE final[q] # s.before[q]
      <4>1. /\ final[q] = None /\ s.before[q] # None
            /\ \E i \in 1..s.count : PathOf[i] = q /\ s.backup[i] = s.before[q]
        BY <3>1, <3>4 DEF Safe
      <4>2. PICK i \in 1..s.count : PathOf[i] = q /\ s.backup[i] = s.before[q]
        BY <4>1
      <4>3. i \in Outputs /\ i # s.idx
        BY <1>1, <1>3, <2>6, <4>1, <4>2
      <4>4. r.backup[i] = r.before[q] /\ final'[q] = None
        BY <2>1, <2>3, <2>5, <4>1, <4>2, <4>3
      <4> QED
        BY <2>1, <2>3, <4>2, <4>4 DEF Safe
    <3> QED
      BY <3>2, <3>3, <3>4
  <2>8. Saves(r)
    <3>1. final[p] \in {None, s.before[p]}
      BY <1>1, <1>2 DEF Safe
    <3>2. ASSUME NEW i \in Outputs
          PROVE  r.backup[i] \in {None, r.before[PathOf[i]]} /\ (i > r.count => r.backup[i] = None)
      <4>1. CASE i = s.idx
        BY <1>1, <2>1, <2>3, <2>6, <3>1, <4>1
      <4>2. CASE i # s.idx
        BY <1>2, <2>1, <2>3, <4>2 DEF Saves
      <4> QED
        BY <4>1, <4>2
    <3> QED
      BY <3>2 DEF Saves
  <2>9. CASE r.at = "backing"
    BY <1>2, <2>1, <2>3, <2>4, <2>7, <2>8, <2>9 DEF Proper, Undo, EndsRight
  <2>10. CASE r.at = "placing" /\ r.idx = 1 /\ s.idx = s.count
    <3>1. Placed(r) = {} /\ r.temp \subseteq r.idx..r.count
      BY <1>1, <1>2, <2>1, <2>3, <2>10, Loops DEF Placed
    <3>2. \A i \in 1..r.count : final'[PathOf[i]] = None
      <4>1. \A i \in 1..s.count : i \in Outputs /\ (i < s.idx \/ i = s.idx)
        BY <2>6, <2>10
      <4>2. \A i \in 1..s.count : PathOf[i] \in Paths
        BY <4>1, OutputFacts
      <4> QED
        BY <1>1, <1>3, <2>1, <2>3, <2>5, <4>1, <4>2
    <3> QED
      BY <2>4, <2>7, <2>8, <2>10, <3>1, <3>2 DEF Proper, Undo, EndsRight
  <2> QED
    BY <2>1, <2>3, <2>9, <2>10
<1>5. CASE BackUpFails(b)
  <2> DEFINE r == [s EXCEPT !.at = "restoring", !.temp = {}, !.idx = 1, !.faults = @ + 1]
  <2>1. r.at = "restoring" /\ r.idx = 1 /\ r.count = s.count /\ r.backup = s.backup
        /\ r.before = s.before
    <3> HIDE DEF s
    <3> QED
      BY <1>1 DEF BuildStates
  <2>2. build'[b] = r /\ final' = final
    BY <1>1, <1>5 DEF BackUpFails
  <2> HIDE DEF r
  <2>3. \A i \in Outputs : ~(i < 1)
    BY <1>1, Loops
  <2>4. Undo(r, final')
    BY <1>2, <2>1, <2>2, <2>3 DEF Undo, Saves, Safe
  <2> QED
    BY <2>1, <2>2, <2>4 DEF Proper, EndsRight
<1> QED
  BY <1>4, <1>5

LEMMA PlaceProper ==
  ASSUME IInv, Undoable, NEW b \in Builds, Place(b) \/ PlaceFails(b)
  PROVE  Proper(b)
<1> DEFINE s == build[b]
           p == Path(b)
<1>1. /\ s \in BuildStates /\ s.at = "placing" /\ s.at \in Running
      /\ s.idx \in Outputs /\ s.count \in Outputs /\ s.idx <= s.count
      /\ p \in Paths /\ p = PathOf[s.idx] /\ build \in [Builds -> BuildStates]
      /\ final \in [Paths -> Contents]
  BY Working, TypeParts DEF IInv, Place, PlaceFails, At, Running, Path
<1>2. /\ s.temp \subseteq s.idx..s.count /\ Saves(s)
      /\ \A q \in Paths : Safe(s, IF q \in Placed(s) THEN None ELSE final[q], q, 1..s.count)
      /\ \A i \in 1..s.count : PathOf[i] \in Placed(s) \/ final[PathOf[i]] = None
  BY <1>1 DEF Undoable, Undo
<1>3. CASE Place(b)
  <2> DEFINE u == [s EXCEPT !.temp = @ \ {s.idx}]
  <2>1. /\ u \in BuildStates /\ u.count = s.count /\ u.idx = s.idx /\ u.at = "placing"
        /\ u.backup = s.backup /\ u.before = s.before /\ u.temp = s.temp \ {s.idx}
    <3> HIDE DEF s
    <3> QED
      BY <1>1 DEF BuildStates
  <2>2. Advance(b, u, "finishing") /\ final' = [final EXCEPT ![p] = b]
    BY <1>3 DEF Place
  <2> HIDE DEF u
  <2>3. PICK r \in BuildStates :
          /\ Alone1(b, r) /\ r.backup = u.backup /\ r.count = u.count
          /\ r.before = u.before /\ r.temp = u.temp
          /\ \/ u.idx < u.count /\ r.at = u.at /\ r.idx = u.idx + 1
             \/ u.idx = u.count /\ r.at = "finishing" /\ r.idx = 1
    BY <1>1, <2>1, <2>2, GoesOn DEF Running
  <2>4. build'[b] = r
    BY <2>3, AloneKept
  <2>5. \A q \in Paths : final'[q] = IF q = p THEN b ELSE final[q]
    BY <1>1, <2>2
  <2>6. Saves(r) /\ r.temp \subseteq (s.idx + 1)..s.count
    <3>1. s.idx..s.count = {s.idx} \cup (s.idx + 1)..s.count
      BY <1>1, Loops
    <3> QED
      BY <1>2, <2>1, <2>3, <3>1 DEF Saves
  <2>7. CASE r.at = "placing" /\ r.idx = s.idx + 1
    <3>1. Placed(r) = Placed(s) \cup {p}
      <4>1. r.idx - 1 = s.idx /\ 1..s.idx = 1..(s.idx - 1) \cup {s.idx}
        BY <1>1, <2>7, Loops DEF Outputs
      <4> QED
        BY <1>1, <4>1 DEF Placed
    <3>2. ASSUME NEW q \in Paths
          PROVE  Safe(r, IF q \in Placed(r) THEN None ELSE final'[q], q, 1..r.count)
      <4>1. Safe(s, IF q \in Placed(s) THEN None ELSE final[q], q, 1..s.count)
        BY <1>2
      <4>2. q \notin Placed(s) /\ q = p => final[q] = None
        <5>1. s.idx \in 1..s.count
          BY <1>1, Loops
        <5> QED
          BY <1>1, <1>2, <5>1
      <4>3. (IF q \in Placed(r) THEN None ELSE final'[q])
              = IF q \in Placed(s) THEN None ELSE final[q]
        BY <2>5, <3>1, <4>2
      <4>4. Safe(s, IF q \in Placed(r) THEN None ELSE final'[q], q, 1..s.count)
        BY <4>1, <4>3
      <4> QED
        BY <2>1, <2>3, <4>4 DEF Safe
    <3>3. ASSUME NEW i \in 1..r.count
          PROVE  PathOf[i] \in Placed(r) \/ final'[PathOf[i]] = None
      <4>1. i \in 1..s.count /\ PathOf[i] \in Paths
        BY <1>1, <2>1, <2>3, Loops, OutputFacts
      <4> QED
        BY <1>2, <2>5, <3>1, <4>1
    <3>4. r.temp \subseteq r.idx..r.count
      BY <2>1, <2>3, <2>6, <2>7
    <3> QED
      BY <2>4, <2>6, <2>7, <3>2, <3>3, <3>4 DEF Proper, Undo, EndsRight
  <2>8. CASE r.at = "finishing" /\ r.idx = 1 /\ s.idx = s.count
    <3>1. r.temp = {}
      <4>1. (s.idx + 1)..s.count = {}
        BY <1>1, <2>8 DEF Outputs
      <4> QED
        BY <2>6, <4>1
    <3>2. \A i \in Outputs : ~(i < r.idx)
      BY <1>1, <2>8, Loops
    <3> QED
      BY <2>4, <2>6, <2>8, <3>1, <3>2 DEF Proper, Undo, EndsRight
  <2> QED
    BY <2>1, <2>3, <2>7, <2>8
<1>4. CASE PlaceFails(b)
  <2> DEFINE r == [s EXCEPT !.at = "restoring", !.idx = 1, !.faults = @ + 1]
  <2>1. r.at = "restoring" /\ r.idx = 1 /\ r.count = s.count /\ r.backup = s.backup
        /\ r.before = s.before
    <3> HIDE DEF s
    <3> QED
      BY <1>1 DEF BuildStates
  <2>2. build'[b] = r
    BY <1>1, <1>4 DEF PlaceFails
  <2>3. \A q \in Paths : final'[q] = IF q \in Placed(s) THEN None ELSE final[q]
    BY <1>4 DEF PlaceFails, PlacedSoFar, Placed
  <2> HIDE DEF r
  <2>4. \A i \in Outputs : ~(i < 1)
    BY <1>1, Loops
  <2>5. \A q \in Paths : Safe(s, final'[q], q, 1..s.count)
    BY <1>2, <2>3
  <2>6. Undo(r, final')
    BY <1>2, <2>1, <2>4, <2>5 DEF Undo, Saves, Safe
  <2> QED
    BY <2>1, <2>2, <2>6 DEF Proper, EndsRight
<1> QED
  BY <1>3, <1>4

\* The backup of the output in hand, if there is one, goes back.
LEMMA RestoreProper ==
  ASSUME IInv, Undoable, NEW b \in Builds, Restore(b)
  PROVE  Proper(b)
<1> DEFINE s == build[b]
           p == Path(b)
           saved == s.backup[s.idx]
           u == [s EXCEPT !.temp = @ \ {s.idx}, !.backup[s.idx] = None]
<1>1. /\ s \in BuildStates /\ s.at = "restoring" /\ s.at \in Running
      /\ s.idx \in Outputs /\ s.count \in Outputs /\ s.idx <= s.count
      /\ p \in Paths /\ p = PathOf[s.idx] /\ build \in [Builds -> BuildStates]
      /\ final \in [Paths -> Contents] /\ final' \in [Paths -> Contents]
  <2>1. final' \in [Paths -> Contents]
    BY Kept, TypePartsNext, RestoreKeeps DEF IInv
  <2> QED
    BY <2>1, Working, TypeParts DEF IInv, Restore, At, Running, Path
<1>2. /\ Saves(s) /\ \A i \in Outputs : i < s.idx => s.backup[i] = None
      /\ \A q \in Paths : Safe(s, final[q], q, s.idx..s.count)
  BY <1>1 DEF Undoable, Undo
<1>3. /\ u \in BuildStates /\ u.count = s.count /\ u.idx = s.idx /\ u.at = "restoring"
      /\ u.before = s.before
      /\ \A i \in Outputs : u.backup[i] = IF i = s.idx THEN None ELSE s.backup[i]
  <2>1. s.idx \in Outputs /\ s.backup \in [Outputs -> Contents] /\ None \in Contents
    BY <1>1 DEF BuildStates, Contents
  <2> HIDE DEF s
  <2> QED
    BY <1>1, <2>1 DEF BuildStates
<1>4. Advance(b, u, "failed") /\ final' = IF saved = None THEN final ELSE [final EXCEPT ![p] = saved]
  BY DEF Restore
<1> HIDE DEF u
<1>5. PICK r \in BuildStates :
        /\ Alone1(b, r) /\ r.backup = u.backup /\ r.count = u.count
        /\ r.before = u.before /\ r.temp = u.temp
        /\ \/ u.idx < u.count /\ r.at = u.at /\ r.idx = u.idx + 1
           \/ u.idx = u.count /\ r.at = "failed" /\ r.idx = 1
  BY <1>1, <1>3, <1>4, GoesOn DEF Running, Ended
<1>6. build'[b] = r
  BY <1>5, AloneKept
<1>7. \A q \in Paths : final'[q] = IF saved # None /\ q = p THEN saved ELSE final[q]
  BY <1>1, <1>4
<1>8. s.idx..s.count = {s.idx} \cup (s.idx + 1)..s.count /\ s.idx..s.count \subseteq Outputs
  BY <1>1, BuildCommitAssumption DEF Outputs
<1>9. saved \in {None, s.before[p]}
  BY <1>1, <1>2 DEF Saves
<1>10. ASSUME NEW q \in Paths
       PROVE  Safe(r, final'[q], q, (s.idx + 1)..s.count)
  <2>1. CASE final[q] = s.before[q]
    BY <1>3, <1>5, <1>7, <1>9, <2>1 DEF Safe
  <2>2. CASE final[q] # s.before[q]
    <3>1. /\ final[q] = None /\ s.before[q] # None
          /\ \E i \in s.idx..s.count : PathOf[i] = q /\ s.backup[i] = s.before[q]
      BY <1>2, <2>2 DEF Safe
    <3>2. PICK i \in s.idx..s.count : PathOf[i] = q /\ s.backup[i] = s.before[q]
      BY <3>1
    <3>3. CASE i = s.idx
      BY <1>1, <1>3, <1>5, <1>7, <3>1, <3>2, <3>3 DEF Safe
    <3>4. CASE i # s.idx
      <4>1. i \in (s.idx + 1)..s.count /\ i \in Outputs
        BY <1>8, <3>2, <3>4
      <4>2. r.backup[i] = r.before[q]
        BY <1>3, <1>5, <3>2, <3>4, <4>1
      <4>3. CASE saved # None /\ q = p
        BY <1>3, <1>5, <1>7, <1>9, <4>3 DEF Safe
      <4>4. CASE ~(saved # None /\ q = p)
        BY <1>7, <3>1, <3>2, <4>1, <4>2, <4>4 DEF Safe
      <4> QED
        BY <4>3, <4>4
    <3> QED
      BY <3>3, <3>4
  <2> QED
    BY <2>1, <2>2
<1>11. Saves(r)
  BY <1>2, <1>3, <1>5 DEF Saves
<1>12. CASE r.at = "restoring" /\ r.idx = s.idx + 1
  <2>1. \A i \in Outputs : i < r.idx => r.backup[i] = None
    <3>1. \A i \in Outputs : i < s.idx + 1 => i < s.idx \/ i = s.idx
      BY <1>1, BuildCommitAssumption DEF Outputs
    <3> QED
      BY <1>2, <1>3, <1>5, <1>12, <3>1
  <2> QED
    BY <1>3, <1>5, <1>6, <1>10, <1>11, <1>12, <2>1 DEF Proper, Undo, EndsRight
<1>13. CASE r.at = "failed" /\ s.idx = s.count
  <2>1. (s.idx + 1)..s.count = {}
    BY <1>1, <1>13 DEF Outputs
  <2>2. \A q \in Paths : final'[q] = s.before[q]
    BY <1>3, <1>5, <1>10, <2>1 DEF Safe
  <2>3. final' = s.before
    <3>1. s.before \in [Paths -> Contents]
      BY <1>1 DEF BuildStates
    <3> QED
      BY <1>1, <2>2, <3>1
  <2>4. \A i \in Outputs : r.backup[i] = None
    <3>1. \A i \in Outputs : i < s.idx \/ i = s.idx \/ i > s.count
      BY <1>1, <1>13, Loops
    <3> QED
      BY <1>2, <1>3, <1>5, <3>1 DEF Saves
  <2>5. r.backup = NoBackups
    BY <2>4, NoneLeft
  <2> QED
    BY <1>6, <1>11, <1>13, <2>3, <2>5 DEF Proper, Undo, EndsRight
<1> QED
  BY <1>3, <1>5, <1>12, <1>13

LEMMA FinishProper ==
  ASSUME IInv, Undoable, NEW b \in Builds, Finish(b)
  PROVE  Proper(b)
<1> DEFINE s == build[b]
           u == [s EXCEPT !.backup[s.idx] = None]
<1>1. /\ s \in BuildStates /\ s.at = "finishing" /\ s.at \in Running
      /\ s.idx \in Outputs /\ s.count \in Outputs /\ s.idx <= s.count
      /\ build \in [Builds -> BuildStates] /\ final' = final
  BY Working, TypeParts DEF IInv, Finish, At, Running
<1>2. Saves(s) /\ s.temp = {} /\ \A i \in Outputs : i < s.idx => s.backup[i] = None
  BY <1>1 DEF Undoable, Undo
<1>3. /\ u \in BuildStates /\ u.count = s.count /\ u.idx = s.idx /\ u.at = "finishing"
      /\ u.before = s.before /\ u.temp = s.temp
      /\ \A i \in Outputs : u.backup[i] = IF i = s.idx THEN None ELSE s.backup[i]
  <2>1. s.idx \in Outputs /\ s.backup \in [Outputs -> Contents] /\ None \in Contents
    BY <1>1 DEF BuildStates, Contents
  <2> HIDE DEF s
  <2> QED
    BY <1>1, <2>1 DEF BuildStates
<1>4. Advance(b, u, "ok")
  BY DEF Finish
<1> HIDE DEF u
<1>5. PICK r \in BuildStates :
        /\ Alone1(b, r) /\ r.backup = u.backup /\ r.count = u.count
        /\ r.before = u.before /\ r.temp = u.temp
        /\ \/ u.idx < u.count /\ r.at = u.at /\ r.idx = u.idx + 1
           \/ u.idx = u.count /\ r.at = "ok" /\ r.idx = 1
  BY <1>1, <1>3, <1>4, GoesOn DEF Running, Ended
<1>6. build'[b] = r
  BY <1>5, AloneKept
<1>7. Saves(r)
  BY <1>2, <1>3, <1>5 DEF Saves
<1>8. CASE r.at = "finishing" /\ r.idx = s.idx + 1
  <2>1. \A i \in Outputs : i < s.idx + 1 => i < s.idx \/ i = s.idx
    BY <1>1, BuildCommitAssumption DEF Outputs
  <2>2. \A i \in Outputs : i < r.idx => r.backup[i] = None
    BY <1>2, <1>3, <1>5, <1>8, <2>1
  <2> QED
    BY <1>2, <1>3, <1>5, <1>6, <1>7, <1>8, <2>2 DEF Proper, Undo, EndsRight
<1>9. CASE r.at = "ok" /\ s.idx = s.count
  <2>1. \A i \in Outputs : i < s.idx \/ i = s.idx \/ i > s.count
    BY <1>1, <1>9, Loops
  <2>2. r.backup = NoBackups
    BY <1>2, <1>3, <1>5, <2>1, NoneLeft DEF Saves
  <2>3. \A i \in 1..s.count : final'[PathOf[i]] = b
    BY <1>1 DEF IInv, InTurn, Turn
  <2> QED
    BY <1>2, <1>3, <1>5, <1>6, <1>7, <1>9, <2>2, <2>3 DEF Proper, Undo, EndsRight, Running
<1> QED
  BY <1>3, <1>5, <1>8, <1>9

\* The other builds are not under way, and stay as they are.
LEMMA OthersRest ==
  ASSUME IInv, NEW b \in Builds, Step(b) \/ Crash(b)
  PROVE  \A c \in Builds \ {b} : build'[c] = build[c] /\ build[c].at \notin Running
<1>0. build \in [Builds -> BuildStates]
  BY TypeParts DEF IInv
<1>1. \A c \in Builds \ {b} : build'[c] = build[c]
  BY <1>0 DEF Step, Start, Copy, MakeDirFails, CopyFails, BackUp, BackUpFails, Place,
              PlaceFails, Restore, Finish, Crash, Advance
<1>2. build[b].at \in Running \/ \A c \in Builds : build[c].at \notin Running
  BY DEF Step, Start, Copy, MakeDirFails, CopyFails, BackUp, BackUpFails, Place,
         PlaceFails, Restore, Finish, Crash, At, Running
<1> QED
  BY <1>1, <1>2 DEF IInv, Alone

LEMMA StepProper ==
  ASSUME IInv, Undoable, NEW b \in Builds, Step(b) \/ Crash(b)
  PROVE  Undoable' /\ EndsRight(b, build[b], build'[b], final')
<1>1. Proper(b)
  BY CopyProper, BackUpProper, PlaceProper, RestoreProper, FinishProper DEF Step
<1>2. ASSUME NEW c \in Builds, c # b
      PROVE  Undo(build'[c], final')
  <2>1. build'[c] = build[c] /\ build[c].at \notin Running
    BY <1>2, OthersRest
  <2> QED
    BY <2>1 DEF Undo, Running
<1> QED
  BY <1>1, <1>2 DEF Proper, Undoable

\* A build that succeeds leaves all its outputs in place and nothing else; one
\* that fails leaves every path as it found it and no backup, however many of
\* its outputs share paths and wherever it fails (build.rs:1097,1116).
THEOREM BuildsEndWell == Spec => EndsWell
<1> DEFINE Good == \A b \in Builds : build[b].at \in Running =>
                     CASE build'[b].at = "ok" ->
                            /\ build'[b].temp = {} /\ build'[b].backup = NoBackups
                            /\ \A i \in 1..build[b].count : final'[PathOf[i]] = b
                       [] build'[b].at = "failed" ->
                            final' = build[b].before /\ build'[b].backup = NoBackups
                       [] OTHER -> TRUE
<1>1. Init => IInv /\ Undoable
  <2>1. ASSUME Init PROVE Undoable
    BY <2>1 DEF Init, Undoable, Undo, Idle, Running
  <2> QED
    BY <2>1, Started
<1>2. IInv /\ Undoable /\ [Next]_vars => (IInv /\ Undoable)' /\ [Good]_vars
  <2> SUFFICES ASSUME IInv, Undoable, [Next]_vars
               PROVE  (IInv /\ Undoable)' /\ [Good]_vars
    OBVIOUS
  <2>1. IInv'
    BY Kept
  <2>2. CASE UNCHANGED vars
    BY <2>1, <2>2 DEF vars, Undoable, Undo, Saves, Safe, Placed
  <2>3. ASSUME NEW b \in Builds, Step(b) \/ Crash(b)
        PROVE  Undoable' /\ Good
    <3>1. Undoable' /\ EndsRight(b, build[b], build'[b], final')
      BY <2>3, StepProper
    <3>2. \A c \in Builds \ {b} : build[c].at \notin Running
      BY <2>3, OthersRest
    <3>3. ASSUME NEW c \in Builds, build[c].at \in Running
          PROVE  CASE build'[c].at = "ok" ->
                        /\ build'[c].temp = {} /\ build'[c].backup = NoBackups
                        /\ \A i \in 1..build[c].count : final'[PathOf[i]] = c
                   [] build'[c].at = "failed" ->
                        final' = build[c].before /\ build'[c].backup = NoBackups
                   [] OTHER -> TRUE
      <4>1. c = b
        BY <3>2, <3>3
      <4> QED
        BY <3>1, <4>1 DEF EndsRight
    <3> QED
      BY <3>1, <3>3
  <2> QED
    BY <2>1, <2>2, <2>3 DEF Next
<1>3. EndsWell <=> [][Good]_vars
  BY DEF EndsWell
<1> QED
  BY <1>1, <1>2, <1>3, PTL DEF Spec
=============================================================================
