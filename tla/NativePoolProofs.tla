-------------------------- MODULE NativePoolProofs --------------------------
(***************************************************************************)
(* Proofs about NativePool, for any set of calls, any table size, any      *)
(* configured sizes, stray releases (but -1), cancelled waits and failing  *)
(* mallocs.                                                                *)
(* A step replaces the state of at most one pool, by Take, GivenBack,      *)
(* Closed or a change of its waiting count; the lemmas of the first part   *)
(* are about those replacements alone.  After them: the inductive          *)
(* invariant of the pool table, the leases, the wakeups and, resting on    *)
(* all three, the refinement of ResourcePool.  The last part is about the  *)
(* hash table of the tokens in use, PoolTokenTable.                        *)
(***************************************************************************)
EXTENDS NativePool, PoolTokenTable, FiniteSetTheorems, SequenceTheorems, TLAPS

\* What holds of one pool record whatever the calls are doing.
Sound(s) == IsFiniteSet(s.inUse) /\ WithinCapacity(s) /\ Apart(s)

\* Replacing the idle queue, the in-use set and the next token of a record.
With(s, i, x, q) == [s EXCEPT !.idle = i, !.nextToken = x, !.inUse = q]

LEMMA WithFields ==
  ASSUME NEW s \in PoolStates, NEW i \in Seq(Nat \ {0}),
         NEW x \in Nat \ {0}, NEW q \in SUBSET (Nat \ {0})
  PROVE  /\ With(s, i, x, q) \in PoolStates
         /\ With(s, i, x, q).idle = i
         /\ With(s, i, x, q).inUse = q
         /\ With(s, i, x, q).nextToken = x
         /\ With(s, i, x, q).maxSize = s.maxSize
         /\ With(s, i, x, q).maxIdle = s.maxIdle
BY DEF PoolStates, With

\* Being sound does not depend on the waiting count or on being open.
LEMMA SoundSame ==
  ASSUME NEW s, NEW u, Sound(s),
         u.idle = s.idle, u.inUse = s.inUse, u.nextToken = s.nextToken,
         u.maxSize = s.maxSize, u.maxIdle = s.maxIdle
  PROVE  Sound(u)
BY DEF Sound, WithinCapacity, Apart

Recount(s, k) == [s EXCEPT !.waiting = k]

LEMMA WaitingSet ==
  ASSUME NEW s \in PoolStates, Sound(s), NEW k
  PROVE  /\ Sound(Recount(s, k)) /\ Recount(s, k).waiting = k
         /\ k \in Nat => Recount(s, k) \in PoolStates
<1> DEFINE u == Recount(s, k)
<1>1. /\ u.idle = s.idle /\ u.inUse = s.inUse /\ u.nextToken = s.nextToken
      /\ u.maxSize = s.maxSize /\ u.maxIdle = s.maxIdle /\ u.waiting = k
  BY DEF PoolStates, Recount
<1>2. k \in Nat => u \in PoolStates
  BY DEF PoolStates, Recount
<1> HIDE DEF u
<1>3. Sound(u)
  BY <1>1, SoundSame
<1> QED
  BY <1>1, <1>2, <1>3 DEF u

\* Granting a slot keeps a pool record well formed: the token granted was idle
\* once, or never handed out.
LEMMA TakeSound ==
  ASSUME NEW s \in PoolStates, Sound(s), SlotFree(s)
  PROVE  Take(s) \in PoolStates /\ Sound(Take(s))
<1> DEFINE u == Take(s)
<1>1. CASE s.idle # <<>>
  <2> DEFINE n == Len(s.idle)
  <2>1. n \in Nat /\ n > 0 /\ \A k \in 1..n : s.idle[k] \in Nat \ {0}
    BY <1>1, EmptySeq, LenProperties DEF PoolStates
  <2>2. /\ SubSeq(s.idle, 1, n - 1) \in Seq(Nat \ {0})
        /\ Len(SubSeq(s.idle, 1, n - 1)) = n - 1
        /\ \A i \in 1..(n - 1) : SubSeq(s.idle, 1, n - 1)[i] = s.idle[i]
    <3>1. \A i \in 1..(n - 1) : s.idle[i] \in Nat \ {0}
      BY <2>1
    <3> QED
      BY <3>1, <2>1, SubSeqProperties
  <2>3. s.idle[n] \in Nat \ {0} /\ s.idle[n] \notin s.inUse
    BY <2>1 DEF Sound, Apart
  <2>4. u = With(s, SubSeq(s.idle, 1, n - 1), s.nextToken, s.inUse \cup {s.idle[n]})
    BY <1>1 DEF Take, TokenOf, With
  <2> HIDE DEF u
  <2>5. /\ u \in PoolStates
        /\ u.idle = SubSeq(s.idle, 1, n - 1) /\ u.inUse = s.inUse \cup {s.idle[n]}
        /\ u.nextToken = s.nextToken
        /\ u.maxSize = s.maxSize /\ u.maxIdle = s.maxIdle
    <3>1. s.inUse \cup {s.idle[n]} \in SUBSET (Nat \ {0}) /\ s.nextToken \in Nat \ {0}
      BY <2>3 DEF PoolStates
    <3> DEFINE i == SubSeq(s.idle, 1, n - 1)
               q == s.inUse \cup {s.idle[n]}
    <3>2. i \in Seq(Nat \ {0}) /\ q \in SUBSET (Nat \ {0})
          /\ u = With(s, i, s.nextToken, q)
      BY <2>2, <2>4, <3>1
    <3> HIDE DEF i, q
    <3>3. /\ u \in PoolStates
          /\ u.idle = i /\ u.inUse = q /\ u.nextToken = s.nextToken
          /\ u.maxSize = s.maxSize /\ u.maxIdle = s.maxIdle
      BY <3>1, <3>2, WithFields
    <3> QED
      BY <3>3 DEF i, q
  <2>6. /\ IsFiniteSet(s.inUse \cup {s.idle[n]}) /\ Cardinality(s.inUse) \in Nat
        /\ Cardinality(s.inUse \cup {s.idle[n]}) = Cardinality(s.inUse) + 1
    BY <2>3, FS_AddElement, FS_CardinalityType DEF Sound
  <2>7. WithinCapacity(u)
    <3>1. s.maxSize \in Nat /\ s.maxIdle \in Nat
      BY DEF PoolStates
    <3> QED
      BY <2>1, <2>2, <2>5, <2>6, <3>1 DEF Sound, WithinCapacity
  <2>8. Apart(u)
    <3>1. \A t \in u.inUse : t < u.nextToken
      BY <2>1, <2>5 DEF Sound, Apart
    <3>2. \A k \in 1..(n - 1) : k \in 1..n /\ k # n
      BY <2>1
    <3>3. ASSUME NEW k \in 1..(n - 1)
          PROVE  u.idle[k] < u.nextToken /\ u.idle[k] \notin u.inUse
      <4>1. u.idle[k] = s.idle[k] /\ k \in 1..n /\ n \in 1..n /\ k # n
        BY <2>1, <2>2, <2>5, <3>2
      <4>2. s.idle[k] < s.nextToken /\ s.idle[k] \notin s.inUse /\ s.idle[k] # s.idle[n]
        BY <4>1 DEF Sound, Apart
      <4> QED
        BY <2>5, <4>1, <4>2
    <3>4. \A j, k \in 1..(n - 1) : j # k => u.idle[j] # u.idle[k]
      BY <2>2, <2>5, <3>2 DEF Sound, Apart
    <3> QED
      BY <2>2, <2>5, <3>1, <3>3, <3>4 DEF Apart
  <2> QED
    BY <2>5, <2>6, <2>7, <2>8 DEF Sound, u
<1>2. CASE s.idle = <<>>
  <2>1. u = With(s, s.idle, s.nextToken + 1, s.inUse \cup {s.nextToken})
    BY <1>2 DEF Take, TokenOf, With
  <2> HIDE DEF u
  <2>2. /\ u \in PoolStates
        /\ u.idle = <<>> /\ u.inUse = s.inUse \cup {s.nextToken}
        /\ u.nextToken = s.nextToken + 1
        /\ u.maxSize = s.maxSize /\ u.maxIdle = s.maxIdle
        /\ s.nextToken \in Nat /\ s.maxSize \in Nat /\ s.maxIdle \in Nat
    <3>1. /\ s.inUse \cup {s.nextToken} \in SUBSET (Nat \ {0})
          /\ s.nextToken + 1 \in Nat \ {0} /\ s.nextToken \in Nat
          /\ s.idle \in Seq(Nat \ {0})
      BY DEF PoolStates
    <3> DEFINE i == s.idle
               q == s.inUse \cup {s.nextToken}
    <3>2. i \in Seq(Nat \ {0}) /\ q \in SUBSET (Nat \ {0})
          /\ u = With(s, i, s.nextToken + 1, q)
      BY <2>1, <3>1
    <3> HIDE DEF i, q
    <3>3. /\ u \in PoolStates
          /\ u.idle = i /\ u.inUse = q /\ u.nextToken = s.nextToken + 1
          /\ u.maxSize = s.maxSize /\ u.maxIdle = s.maxIdle
      BY <3>1, <3>2, WithFields
    <3> QED
      BY <1>2, <3>1, <3>3 DEF i, q, PoolStates
  <2>3. s.nextToken \notin s.inUse /\ s.inUse \subseteq Nat
    BY <2>2 DEF Sound, Apart, PoolStates
  <2>4. /\ IsFiniteSet(u.inUse) /\ Cardinality(s.inUse) \in Nat
        /\ Cardinality(u.inUse) = Cardinality(s.inUse) + 1
    BY <2>2, <2>3, FS_AddElement, FS_CardinalityType DEF Sound
  <2>5. WithinCapacity(u)
    BY <1>2, <2>2, <2>4, EmptySeq DEF Sound, SlotFree, WithinCapacity
  <2>6. Apart(u)
    <3>1. \A t \in u.inUse : t < u.nextToken
      BY <2>2, <2>3 DEF Sound, Apart
    <3> QED
      BY <2>2, <3>1, EmptySeq DEF Apart
  <2> QED
    BY <2>2, <2>4, <2>5, <2>6 DEF Sound, u
<1> QED
  BY <1>1, <1>2

\* Taking an in-use token back keeps a pool record well formed, deposited or
\* dropped.
LEMMA GivenBackSound ==
  ASSUME NEW s \in PoolStates, Sound(s), NEW t \in s.inUse
  PROVE  /\ GivenBack(s, t) \in PoolStates /\ Sound(GivenBack(s, t))
         /\ [s EXCEPT !.inUse = @ \ {t}] \in PoolStates
         /\ Sound([s EXCEPT !.inUse = @ \ {t}])
<1> DEFINE n == Len(s.idle)
           d == [s EXCEPT !.inUse = @ \ {t}]
           u == GivenBack(s, t)
<1>1. n \in Nat /\ t \in Nat \ {0} /\ t < s.nextToken
  BY LenProperties DEF PoolStates, Sound, Apart
<1>2. /\ IsFiniteSet(s.inUse \ {t}) /\ Cardinality(s.inUse) \in Nat
      /\ Cardinality(s.inUse \ {t}) = Cardinality(s.inUse) - 1
  BY FS_RemoveElement, FS_CardinalityType DEF Sound
<1>3. d \in PoolStates /\ Sound(d)
  <2>1. d \in PoolStates
    BY DEF PoolStates
  <2>2. WithinCapacity(d)
    BY <1>1, <1>2 DEF WithinCapacity, Sound, PoolStates
  <2>3. Apart(d)
    BY DEF Apart, Sound, PoolStates
  <2> QED
    BY <1>2, <2>1, <2>2, <2>3 DEF Sound, PoolStates
<1>4. CASE n < s.maxIdle
  <2>1. /\ Append(s.idle, t) \in Seq(Nat \ {0})
        /\ Len(Append(s.idle, t)) = n + 1
        /\ \A i \in 1..n : Append(s.idle, t)[i] = s.idle[i]
        /\ Append(s.idle, t)[n + 1] = t
    BY <1>1, AppendProperties DEF PoolStates
  <2>2. u = With(s, Append(s.idle, t), s.nextToken, s.inUse \ {t})
    BY <1>4 DEF GivenBack, Deposit, PoolStates, With
  <2> HIDE DEF u
  <2>2a. /\ u \in PoolStates
         /\ u.idle = Append(s.idle, t) /\ u.inUse = s.inUse \ {t}
         /\ u.nextToken = s.nextToken
         /\ u.maxSize = s.maxSize /\ u.maxIdle = s.maxIdle
         /\ s.maxSize \in Nat /\ s.maxIdle \in Nat
    <3>1. s.inUse \ {t} \in SUBSET (Nat \ {0}) /\ s.nextToken \in Nat \ {0}
      BY DEF PoolStates
    <3> DEFINE i == Append(s.idle, t)
               q == s.inUse \ {t}
    <3>2. i \in Seq(Nat \ {0}) /\ q \in SUBSET (Nat \ {0})
          /\ u = With(s, i, s.nextToken, q)
      BY <2>1, <2>2, <3>1
    <3> HIDE DEF i, q
    <3>3. /\ u \in PoolStates
          /\ u.idle = i /\ u.inUse = q /\ u.nextToken = s.nextToken
          /\ u.maxSize = s.maxSize /\ u.maxIdle = s.maxIdle
      BY <3>1, <3>2, WithFields
    <3> QED
      BY <3>3 DEF i, q, PoolStates
  <2>3. WithinCapacity(u)
    BY <1>1, <1>2, <1>4, <2>1, <2>2a DEF WithinCapacity, Sound, PoolStates
  <2>4. Apart(u)
    <3>1. \A i \in 1..n : s.idle[i] # t
      BY DEF Sound, Apart
    <3>2. \A i \in 1..(n + 1) : i \in 1..n \/ i = n + 1
      BY <1>1
    <3>3. \A k \in 1..(n + 1) : u.idle[k] < u.nextToken /\ u.idle[k] \notin u.inUse
      BY <1>1, <2>1, <2>2a, <3>1, <3>2 DEF Sound, Apart, PoolStates
    <3>4. \A j, k \in 1..(n + 1) : j # k => u.idle[j] # u.idle[k]
      <4>1. \A j, k \in 1..n : j # k => s.idle[j] # s.idle[k]
        BY DEF Sound, Apart
      <4>2. (\A i \in 1..n : u.idle[i] = s.idle[i]) /\ u.idle[n + 1] = t
        BY <2>1, <2>2a
      <4>3. ASSUME NEW j \in 1..(n + 1), NEW k \in 1..(n + 1), j # k
            PROVE  u.idle[j] # u.idle[k]
        <5>1. CASE j \in 1..n /\ k \in 1..n
          BY <4>1, <4>2, <4>3, <5>1
        <5>2. CASE j \in 1..n /\ k = n + 1
          BY <3>1, <4>2, <5>2
        <5>3. CASE j = n + 1 /\ k \in 1..n
          BY <3>1, <4>2, <5>3
        <5> QED
          BY <3>2, <4>3, <5>1, <5>2, <5>3
      <4> QED
        BY <4>3
    <3> QED
      BY <2>1, <2>2a, <3>3, <3>4 DEF Sound, Apart, PoolStates
  <2> QED
    BY <1>2, <1>3, <2>2a, <2>3, <2>4 DEF Sound, u
<1>5. CASE ~(n < s.maxIdle)
  <2>1. u = d
    BY <1>5 DEF GivenBack, Deposit, PoolStates
  <2> QED
    BY <1>3, <2>1
<1> QED
  BY <1>4, <1>5
-----------------------------------------------------------------------------
(***************************************************************************)
(* The inductive invariant.  The type says that no waiting count goes      *)
(* below zero, which holds because each count is the number of calls that  *)
(* are registered with the pool, and those are registered with pools that  *)
(* exist.                                                                  *)
(***************************************************************************)
Placed ==
  /\ \A p \in created : p < nextId
  /\ \A c \in Calls : call[c].at \in Blocked => call[c].pool \in created
AllSound == \A p \in PoolId : Sound(pool[p])

IInv == TypeOK /\ Placed /\ AllSound /\ WaitingCounted

\* The record poolCreate stores is sound, whatever sizes were asked.
LEMMA FreshSound ==
  ASSUME NEW open \in BOOLEAN, NEW m \in Nat, NEW i \in Nat
  PROVE  LET u == FreshPool(open, m, i)
         IN  u \in PoolStates /\ Sound(u) /\ u.waiting = 0
<1>1. /\ IsFiniteSet({}) /\ Cardinality({}) = 0
      /\ <<>> \in Seq(Nat \ {0}) /\ Len(<<>>) = 0
  BY FS_EmptySet, EmptySeq
<1> DEFINE k == IF i > m THEN m ELSE i
<1>2. k \in Nat
  OBVIOUS
<1>3. FreshPool(open, m, i) =
        [open |-> open, maxSize |-> m, maxIdle |-> k,
         idle |-> <<>>, inUse |-> {}, nextToken |-> 1, waiting |-> 0]
  BY DEF FreshPool
<1> HIDE DEF k
<1> QED
  BY <1>1, <1>2, <1>3 DEF PoolStates, Sound, WithinCapacity, Apart

\* No pool exists at the start, and no call has been made.
LEMMA InitIInv == Init => IInv
<1> SUFFICES ASSUME Init PROVE IInv
  OBVIOUS
<1> USE NativePoolAssumption
<1>1. /\ FreshPool(FALSE, 0, 0) \in PoolStates /\ Sound(FreshPool(FALSE, 0, 0))
      /\ FreshPool(FALSE, 0, 0).waiting = 0
  BY FreshSound
<1>2. TypeOK
  <2>1. NewCall \in CallStates
    BY DEF NewCall, CallStates, Places, Results
  <2>2. pool \in [PoolId -> PoolStates] /\ call \in [Calls -> CallStates]
    BY <1>1, <2>1 DEF Init
  <2>3. nextId \in 1..MaxStates
    BY DEF Init
  <2> QED
    BY <2>2, <2>3 DEF Init, TypeOK
<1>3. Placed /\ AllSound /\ WaitingCounted
  BY <1>1 DEF Init, Placed, AllSound, WaitingCounted, NewCall, Blocked
<1> QED
  BY <1>2, <1>3 DEF IInv

\* Replacing one pool record and some call records keeps types and pools
\* sound when the replacements are.
LEMMA PoolReplaced ==
  ASSUME TypeOK, AllSound, NEW p \in PoolId, NEW u \in PoolStates, Sound(u),
         pool' = [pool EXCEPT ![p] = u]
  PROVE  pool' \in [PoolId -> PoolStates] /\ AllSound'
BY DEF TypeOK, AllSound

\* The set of calls counted by a pool is finite, like the set of all calls.
LEMMA CountedFinite ==
  ASSUME NEW p
  PROVE  IsFiniteSet(Counted(p)) /\ Cardinality(Counted(p)) \in Nat
BY NativePoolAssumption, FS_Subset, FS_CardinalityType DEF Counted

\* A step that leaves the places of all calls as they are, as far as waiting
\* goes, leaves every count right.
LEMMA CountSame ==
  ASSUME WaitingCounted, created' = created,
         \A p \in created : pool'[p].waiting = pool[p].waiting,
         \A c \in Calls : (call'[c].at \in Blocked \/ call[c].at \in Blocked) =>
           call'[c].pool = call[c].pool
           /\ (call'[c].at \in Blocked <=> call[c].at \in Blocked)
  PROVE  WaitingCounted'
<1>1. \A p \in created : Counted(p)' = Counted(p)
  BY DEF Counted, Blocked
<1> QED
  BY <1>1 DEF WaitingCounted

\* A call that stops waiting leaves the set its pool counts.
LEMMA CountLeaves ==
  ASSUME IInv, NEW c \in Calls, call[c].at \in Blocked,
         NEW CONSTANT p, call[c].pool = p, NEW CONSTANT r,
         r.at \notin Blocked, call' = [call EXCEPT ![c] = r]
  PROVE  /\ p \in created /\ p \in PoolId
         /\ pool[p].waiting - 1 \in Nat
         /\ Cardinality(Counted(p)') = pool[p].waiting - 1
         /\ \A q \in PoolId : q # p => Counted(q)' = Counted(q)
<1>1. p \in created /\ p \in PoolId
  BY DEF IInv, Placed, Blocked, TypeOK
<1>2. Counted(p)' = Counted(p) \ {c} /\ c \in Counted(p)
  <2>1. call'[c] = r /\ \A d \in Calls : d # c => call'[d] = call[d]
    BY DEF IInv, TypeOK
  <2>2. c \in Counted(p)
    BY DEF Counted
  <2>3. \A d : d \in Counted(p)' <=> d \in Counted(p) /\ d # c
    BY <2>1 DEF Counted, Blocked
  <2> QED
    BY <2>2, <2>3
<1>3. \A q \in PoolId : q # p => Counted(q)' = Counted(q)
  BY DEF Counted, Blocked, IInv, TypeOK
<1>4. /\ Cardinality(Counted(p) \ {c}) = Cardinality(Counted(p)) - 1
      /\ Cardinality(Counted(p) \ {c}) \in Nat
  BY <1>2, CountedFinite, FS_RemoveElement, FS_CardinalityType
<1>5. pool[p].waiting = Cardinality(Counted(p))
  BY <1>1 DEF IInv, WaitingCounted
<1> QED
  BY <1>1, <1>2, <1>3, <1>4, <1>5
-----------------------------------------------------------------------------
(***************************************************************************)
(* One lemma per kind of step.                                             *)
(***************************************************************************)
\* Steps of the waiting calls that leave the wait, with the pool record u.
LEMMA LeaveStep ==
  ASSUME IInv, NEW c \in Calls, call[c].at \in Blocked,
         NEW CONSTANT p, call[c].pool = p,
         NEW CONSTANT r \in CallStates, r.at \notin Blocked,
         call' = [call EXCEPT ![c] = r],
         NEW CONSTANT u, Sound(u), pool' = [pool EXCEPT ![p] = u],
         pool[p].waiting - 1 \in Nat => u \in PoolStates,
         u.waiting = pool[p].waiting - 1,
         UNCHANGED <<nextId, created, mutex>>
  PROVE  IInv'
<1>1. /\ p \in created /\ p \in PoolId
      /\ pool[p].waiting - 1 \in Nat
      /\ Cardinality(Counted(p)') = pool[p].waiting - 1
      /\ \A q \in PoolId : q # p => Counted(q)' = Counted(q)
  BY CountLeaves
<1>2. pool' \in [PoolId -> PoolStates] /\ AllSound'
  BY <1>1, PoolReplaced DEF IInv
<1>3. TypeOK'
  BY <1>2 DEF IInv, TypeOK
<1>4. Placed'
  BY DEF IInv, TypeOK, Placed
<1>5. WaitingCounted'
  <2>1. \A q \in created : q # p => pool'[q].waiting = Cardinality(Counted(q)')
    BY <1>1 DEF IInv, TypeOK, WaitingCounted
  <2>2. pool'[p].waiting = Cardinality(Counted(p)')
    BY <1>1 DEF IInv, TypeOK
  <2> QED
    BY <2>1, <2>2 DEF WaitingCounted
<1> QED
  BY <1>2, <1>3, <1>4, <1>5 DEF IInv

\* Steps that change at most the record of one existing pool, to a sound one
\* with the same count, and call records without moving a call into or out of
\* the wait.
LEMMA StayStep ==
  ASSUME IInv, NEW CONSTANT p \in PoolId, NEW CONSTANT u \in PoolStates, Sound(u),
         u.waiting = pool[p].waiting, pool' = [pool EXCEPT ![p] = u],
         call' \in [Calls -> CallStates],
         \A c \in Calls : (call'[c].at \in Blocked \/ call[c].at \in Blocked) =>
           call'[c].pool = call[c].pool
           /\ (call'[c].at \in Blocked <=> call[c].at \in Blocked),
         mutex' \in {Unlocked} \cup Calls,
         UNCHANGED <<nextId, created>>
  PROVE  IInv'
<1>1. pool' \in [PoolId -> PoolStates] /\ AllSound'
  BY PoolReplaced DEF IInv
<1>2. TypeOK'
  BY <1>1 DEF IInv, TypeOK
<1>3. Placed'
  BY DEF IInv, Placed
<1>4. \A q \in created : pool'[q].waiting = pool[q].waiting
  BY DEF IInv, TypeOK
<1>5. WaitingCounted'
  BY <1>4, CountSame DEF IInv
<1> QED
  BY <1>1, <1>2, <1>3, <1>5 DEF IInv

\* The same without any change to the pools.
LEMMA CallStep ==
  ASSUME IInv, UNCHANGED <<nextId, created, pool>>,
         call' \in [Calls -> CallStates],
         \A c \in Calls : (call'[c].at \in Blocked \/ call[c].at \in Blocked) =>
           call'[c].pool = call[c].pool
           /\ (call'[c].at \in Blocked <=> call[c].at \in Blocked),
         mutex' \in {Unlocked} \cup Calls
  PROVE  IInv'
<1>1. TypeOK' /\ Placed' /\ AllSound'
  BY DEF IInv, TypeOK, Placed, AllSound
<1>2. WaitingCounted'
  BY CountSame DEF IInv
<1> QED
  BY <1>1, <1>2 DEF IInv

LEMMA CreateStep ==
  ASSUME IInv, NEW m \in Sizes \ {0}, NEW i \in Sizes, Create(m, i)
  PROVE  IInv'
<1> USE NativePoolAssumption
<1> DEFINE u == FreshPool(TRUE, m, i)
<1>1. nextId' \in 1..MaxStates /\ nextId <= nextId'
  BY DEF Create, IInv, TypeOK
<1>2. CASE nextId \in PoolId /\ created' = created \cup {nextId}
           /\ pool' = [pool EXCEPT ![nextId] = u]
  <2>1. u \in PoolStates /\ Sound(u) /\ u.waiting = 0
    BY FreshSound
  <2>2. pool' \in [PoolId -> PoolStates] /\ AllSound'
    BY <1>2, <2>1, PoolReplaced DEF IInv
  <2>3. TypeOK'
    BY <1>1, <1>2, <2>2 DEF Create, IInv, TypeOK
  <2>4. nextId' = nextId + 1
    BY <1>2 DEF Create, PoolId
  <2>5. Placed'
    BY <1>2, <2>4 DEF Create, IInv, TypeOK, Placed, PoolId
  <2> PICK n : n = nextId
    OBVIOUS
  <2>6. n \notin created /\ Counted(n)' = {}
    BY DEF Create, IInv, Placed, TypeOK, PoolId, Counted, Blocked
  <2>7. WaitingCounted'
    <3>1. \A q \in created : Counted(q)' = Counted(q) /\ pool'[q] = pool[q]
      BY <1>2, <2>6 DEF Create, Counted, IInv, TypeOK
    <3>2. pool'[n].waiting = Cardinality(Counted(n)')
      BY <1>2, <2>1, <2>6, FS_EmptySet DEF IInv, TypeOK
    <3> QED
      BY <1>2, <3>1, <3>2 DEF IInv, WaitingCounted
  <2> QED
    BY <2>2, <2>3, <2>5, <2>7 DEF IInv
<1>3. CASE UNCHANGED <<created, pool>>
  <2>1. TypeOK'
    BY <1>1, <1>3 DEF Create, IInv, TypeOK
  <2>2. Placed' /\ AllSound'
    BY <1>1, <1>3 DEF Create, IInv, TypeOK, Placed, AllSound, PoolId
  <2>3. WaitingCounted'
    BY <1>3, CountSame DEF Create, IInv
  <2> QED
    BY <2>1, <2>2, <2>3 DEF IInv
<1> QED
  BY <1>2, <1>3 DEF Create

LEMMA AcquireStepIInv ==
  ASSUME IInv, NEW c \in Calls, NEW p \in PoolId, AcquireStep(c, p)
  PROVE  IInv'
<1> USE DEF Blocked
<1>1. call[c] \in CallStates /\ p \in Nat /\ pool[p] \in PoolStates /\ Sound(pool[p])
  BY DEF IInv, TypeOK, AllSound, PoolId
<1>2. CASE AcquireRefused(c, p)
  <2>1. PICK x \in {"closed", "invalid"} :
          call' = [call EXCEPT ![c] = [@ EXCEPT !.at = "done", !.pool = p, !.result = x]]
    BY <1>2 DEF AcquireRefused, Done
  <2>2. [call[c] EXCEPT !.at = "done", !.pool = p, !.result = x] \in CallStates
    BY <1>1 DEF CallStates, Places, Results
  <2>3. call' \in [Calls -> CallStates]
    BY <2>1, <2>2 DEF IInv, TypeOK
  <2> QED
    BY <1>2, <2>1, <2>3, CallStep DEF AcquireRefused, IInv, TypeOK, CallStates
<1>3. CASE AcquireNow(c, p)
  <2>1. Take(pool[p]) \in PoolStates /\ Sound(Take(pool[p]))
        /\ Take(pool[p]).waiting = pool[p].waiting
    BY <1>1, <1>3, TakeSound DEF AcquireNow, Grantable, Take, PoolStates
  <2>2. TokenOf(pool[p]) \in Nat
    BY <1>1, EmptySeq, ElementOfSeq DEF TokenOf, PoolStates
  <2>3. call' \in [Calls -> CallStates]
    <3>1. [call[c] EXCEPT !.at = "done", !.pool = p, !.result = "ok",
                          !.token = TokenOf(pool[p]), !.held = TRUE] \in CallStates
      BY <1>1, <2>2 DEF CallStates, Places, Results
    <3> QED
      BY <1>3, <3>1 DEF AcquireNow, IInv, TypeOK
  <2> QED
    BY <1>3, <2>1, <2>3, StayStep DEF AcquireNow, IInv, TypeOK, CallStates
<1>4. CASE Register(c, p)
  <2> DEFINE u == Recount(pool[p], pool[p].waiting + 1)
  <2>1. u \in PoolStates /\ Sound(u) /\ u.waiting = pool[p].waiting + 1
    <3>1. pool[p].waiting + 1 \in Nat
      BY <1>1 DEF PoolStates
    <3> QED
      BY <1>1, <3>1, WaitingSet
  <2>2. call' \in [Calls -> CallStates]
    <3>1. [call[c] EXCEPT !.at = "registered", !.pool = p] \in CallStates
      BY <1>1 DEF CallStates, Places
    <3> QED
      BY <1>4, <3>1 DEF Register, IInv, TypeOK
  <2>3. pool' = [pool EXCEPT ![p] = u]
    BY <1>4 DEF Register, Recount
  <2> HIDE DEF u
  <2>4. pool' \in [PoolId -> PoolStates] /\ AllSound'
    BY <2>1, <2>3, PoolReplaced DEF IInv
  <2>5. TypeOK'
    BY <1>4, <2>2, <2>4 DEF Register, IInv, TypeOK
  <2>6. Placed'
    BY <1>4 DEF Register, IInv, TypeOK, Placed, CallStates
  <2>7. Counted(p)' = Counted(p) \cup {c} /\ c \notin Counted(p)
    BY <1>4 DEF Register, Counted, IInv, TypeOK, CallStates
  <2>8. \A q \in created : q # p => Counted(q)' = Counted(q)
    BY <1>4 DEF Register, Counted, IInv, TypeOK, CallStates
  <2>9. WaitingCounted'
    <3>1. pool'[p].waiting = Cardinality(Counted(p)')
      <4>1. Cardinality(Counted(p)') = Cardinality(Counted(p)) + 1
        BY <2>7, CountedFinite, FS_AddElement
      <4>2. pool[p].waiting = Cardinality(Counted(p))
        BY <1>4 DEF Register, IInv, WaitingCounted
      <4>3. pool'[p] = u
        BY <2>3 DEF IInv, TypeOK
      <4> QED
        BY <2>1, <4>1, <4>2, <4>3
    <3> QED
      BY <1>4, <2>3, <2>8, <3>1 DEF Register, IInv, TypeOK, WaitingCounted
  <2> QED
    BY <2>4, <2>5, <2>6, <2>9 DEF IInv
<1> QED
  BY <1>2, <1>3, <1>4 DEF AcquireStep

\* The registration is undone: by the caller when no thread can be started,
\* by the thread when it settles.
LEMMA WaitStepIInv ==
  ASSUME IInv, NEW c \in Calls,
         SpawnFails(c) \/ WaiterFindsClosed(c) \/ WaiterTakes(c) \/ WaiterTimesOut(c)
  PROVE  IInv'
<1> PICK p : p = call[c].pool
  OBVIOUS
<1>1. call[c].at \in Blocked
  BY DEF SpawnFails, WaiterFindsClosed, WaiterTakes, WaiterTimesOut, Blocked
<1>2. p \in PoolId /\ call[c] \in CallStates /\ pool[p] \in PoolStates /\ Sound(pool[p])
  BY <1>1 DEF IInv, Placed, TypeOK, AllSound, Blocked
<1>3. CASE WaiterTakes(c)
  <2>1. /\ Take(pool[p]) \in PoolStates /\ Sound(Take(pool[p]))
        /\ Take(pool[p]).waiting = pool[p].waiting
    <3>1. SlotFree(pool[p])
      BY <1>3 DEF WaiterTakes, Grantable
    <3>2. Take(pool[p]).waiting = pool[p].waiting
      BY <1>2 DEF Take, PoolStates
    <3> QED
      BY <1>2, <3>1, <3>2, TakeSound
  <2>2. TokenOf(pool[p]) \in Nat
    BY <1>2, EmptySeq, ElementOfSeq DEF TokenOf, PoolStates
  <2> DEFINE t == Take(pool[p])
             u == Recount(t, t.waiting - 1)
             r == [call[c] EXCEPT !.at = "resolving", !.result = "ok",
                                  !.token = TokenOf(pool[p]), !.held = TRUE]
  <2>3. r \in CallStates /\ r.at \notin Blocked
    BY <1>2, <2>2 DEF CallStates, Places, Results, Blocked
  <2>4. /\ pool' = [pool EXCEPT ![p] = u] /\ call' = [call EXCEPT ![c] = r]
        /\ UNCHANGED <<nextId, created, mutex>>
    BY <1>3 DEF WaiterTakes, Recount
  <2> HIDE DEF t
  <2>5. Sound(u) /\ u.waiting = pool[p].waiting - 1
        /\ (pool[p].waiting - 1 \in Nat => u \in PoolStates)
    BY <2>1, WaitingSet DEF t
  <2> HIDE DEF u, r
  <2> QED
    BY <1>1, <2>3, <2>4, <2>5, LeaveStep
<1>4. CASE SpawnFails(c) \/ WaiterFindsClosed(c) \/ WaiterTimesOut(c)
  <2> PICK u : u = Recount(pool[p], pool[p].waiting - 1)
    OBVIOUS
  <2>1. Sound(u) /\ u.waiting = pool[p].waiting - 1
        /\ (pool[p].waiting - 1 \in Nat => u \in PoolStates)
    BY <1>2, WaitingSet
  <2>2. pool' = [pool EXCEPT ![p] = u] /\ UNCHANGED <<nextId, created, mutex>>
    BY <1>4 DEF SpawnFails, WaiterFindsClosed, WaiterTimesOut, LeaveWaiting, Recount
  <2>3. PICK r \in CallStates : r.at \notin Blocked /\ call' = [call EXCEPT ![c] = r]
    <3>1. CASE SpawnFails(c)
      <4> DEFINE r == [call[c] EXCEPT !.at = "done", !.pool = p, !.result = "other"]
      <4>1. r \in CallStates /\ r.at \notin Blocked
        BY <1>2 DEF CallStates, Places, Results, Blocked
      <4>2. call' = [call EXCEPT ![c] = r]
        BY <3>1 DEF SpawnFails, Done
      <4> QED
        BY <4>1, <4>2
    <3>2. CASE WaiterFindsClosed(c)
      <4> DEFINE r == [call[c] EXCEPT !.at = "resolving", !.result = "closed"]
      <4>1. r \in CallStates /\ r.at \notin Blocked
        BY <1>2 DEF CallStates, Places, Results, Blocked
      <4>2. call' = [call EXCEPT ![c] = r]
        BY <3>2 DEF WaiterFindsClosed
      <4> QED
        BY <4>1, <4>2
    <3>3. CASE WaiterTimesOut(c)
      <4> DEFINE r == [call[c] EXCEPT !.at = "resolving", !.result = "timeout"]
      <4>1. r \in CallStates /\ r.at \notin Blocked
        BY <1>2 DEF CallStates, Places, Results, Blocked
      <4>2. call' = [call EXCEPT ![c] = r]
        BY <3>3 DEF WaiterTimesOut, TimedOut
      <4> QED
        BY <4>1, <4>2
    <3> QED
      BY <1>4, <3>1, <3>2, <3>3
  <2> QED
    BY <1>1, <2>1, <2>2, <2>3, LeaveStep
<1> QED
  BY <1>3, <1>4

\* A step that only moves the record of one call, inside the wait or outside it.
LEMMA MoveStep ==
  ASSUME IInv, NEW c \in Calls, NEW CONSTANT r \in CallStates,
         call' = [call EXCEPT ![c] = r], r.pool = call[c].pool,
         r.at \in Blocked <=> call[c].at \in Blocked,
         UNCHANGED <<nextId, created, pool>>, mutex' \in {Unlocked} \cup Calls
  PROVE  IInv'
<1>1. call' \in [Calls -> CallStates]
  BY DEF IInv, TypeOK
<1>2. \A d \in Calls : (call'[d].at \in Blocked \/ call[d].at \in Blocked) =>
        call'[d].pool = call[d].pool /\ (call'[d].at \in Blocked <=> call[d].at \in Blocked)
  BY DEF IInv, TypeOK
<1> QED
  BY <1>1, <1>2, CallStep

LEMMA CallOnlyIInv ==
  ASSUME IInv, NEW c \in Calls,
         \/ SpawnWaiter(c) \/ WaiterSleeps(c) \/ SleeperStep(c)
         \/ Resolve(c) \/ Cancel(c) \/ DieAsleep(c)
  PROVE  IInv'
<1>1. call[c] \in CallStates /\ mutex \in {Unlocked} \cup Calls
  BY DEF IInv, TypeOK
<1>2. UNCHANGED <<nextId, created, pool>> /\ mutex' \in {Unlocked} \cup Calls
  BY <1>1 DEF SpawnWaiter, WaiterSleeps, SleeperStep, Expires, TimesOut, SpuriousWakeup, CancelActs, Resolve, Cancel, DieAsleep
<1>3. PICK r \in CallStates :
        /\ call' = [call EXCEPT ![c] = r] /\ r.pool = call[c].pool
        /\ r.at \in Blocked <=> call[c].at \in Blocked
  <2>1. CASE SpawnWaiter(c) \/ WaiterSleeps(c) \/ SleeperStep(c) \/ DieAsleep(c)
    <3> PICK x \in {"ready", "asleep", "expired", "dying", "dead"} :
          call' = [call EXCEPT ![c].at = x] /\ call[c].at \in Blocked
      BY <2>1 DEF SpawnWaiter, WaiterSleeps, SleeperStep, Expires, TimesOut,
                  SpuriousWakeup, CancelActs, DieAsleep, Blocked
    <3> DEFINE r == [call[c] EXCEPT !.at = x]
    <3>1. r \in CallStates /\ r.pool = call[c].pool /\ r.at \in Blocked
      BY <1>1 DEF CallStates, Places, Blocked
    <3>2. call' = [call EXCEPT ![c] = r]
      OBVIOUS
    <3> QED
      BY <3>1, <3>2
  <2>4. CASE Resolve(c)
    <3> DEFINE r == [call[c] EXCEPT !.at = "done"]
    <3>1. r \in CallStates /\ r.pool = call[c].pool /\ r.at \notin Blocked
      BY <1>1 DEF CallStates, Places, Blocked
    <3>2. call' = [call EXCEPT ![c] = r] /\ call[c].at \notin Blocked
      BY <2>4 DEF Resolve, Blocked
    <3> QED
      BY <3>1, <3>2
  <2>5. CASE Cancel(c)
    <3> DEFINE r == [call[c] EXCEPT !.cancelled = TRUE]
    <3>1. r \in CallStates /\ r.pool = call[c].pool /\ r.at = call[c].at
      BY <1>1 DEF CallStates
    <3>2. call' = [call EXCEPT ![c] = r]
      BY <2>5 DEF Cancel
    <3> QED
      BY <3>1, <3>2
  <2> QED
    BY <2>1, <2>4, <2>5
<1> QED
  BY <1>2, <1>3, MoveStep

\* A broadcast and the end of a lease move no call into or out of the wait.
LEMMA WokenUnheld ==
  ASSUME IInv, NEW p, NEW t, NEW f,
         f \in {call, Woken, Unhold(call, p, t), Unhold(Woken, p, t)}
  PROVE  /\ f \in [Calls -> CallStates]
         /\ \A c \in Calls : f[c].pool = call[c].pool
                             /\ (f[c].at \in Blocked <=> call[c].at \in Blocked)
<1>1. call \in [Calls -> CallStates]
  BY DEF IInv, TypeOK
<1>2. ASSUME NEW c \in Calls
      PROVE  /\ Woken[c] \in CallStates /\ Woken[c].pool = call[c].pool
             /\ Woken[c].at \in Blocked <=> call[c].at \in Blocked
  <2>1. call[c] \in CallStates
    BY <1>1
  <2>2. CASE call[c].at = "asleep"
    BY <2>1, <2>2 DEF Woken, CallStates, Places, Blocked
  <2>3. CASE call[c].at # "asleep"
    BY <2>1, <2>3 DEF Woken
  <2> QED
    BY <2>2, <2>3
<1>3. Woken \in [Calls -> CallStates]
  <2>1. Woken = [c \in Calls |-> Woken[c]]
    BY DEF Woken
  <2> QED
    BY <1>2, <2>1
<1>4. ASSUME NEW g \in [Calls -> CallStates]
      PROVE  /\ Unhold(g, p, t) \in [Calls -> CallStates]
             /\ \A c \in Calls : Unhold(g, p, t)[c].pool = g[c].pool
                                 /\ Unhold(g, p, t)[c].at = g[c].at
  BY DEF Unhold, CallStates
<1> QED
  BY <1>1, <1>2, <1>3, <1>4

LEMMA ReleaseCloseIInv ==
  ASSUME IInv, NEW p \in PoolId,
         (\E t \in pool[p].inUse : ReleaseStep(p, t)) \/ Close(p)
  PROVE  IInv'
<1>1. pool[p] \in PoolStates /\ Sound(pool[p]) /\ mutex \in {Unlocked} \cup Calls
  BY DEF IInv, TypeOK, AllSound
<1>2. UNCHANGED <<nextId, created, mutex>>
  BY DEF ReleaseStep, Release, ReleaseOutOfMemory, Close
<1>3. /\ call' \in [Calls -> CallStates]
      /\ \A c \in Calls : call'[c].pool = call[c].pool
                          /\ (call'[c].at \in Blocked <=> call[c].at \in Blocked)
  <2>1. CASE Close(p)
    BY <2>1, WokenUnheld DEF Close
  <2>2. CASE \E t \in pool[p].inUse : ReleaseStep(p, t)
    <3> PICK t \in pool[p].inUse : ReleaseStep(p, t)
      BY <2>2
    <3> DEFINE Fine(f) == /\ f \in [Calls -> CallStates]
                          /\ \A c \in Calls : f[c].pool = call[c].pool
                               /\ (f[c].at \in Blocked <=> call[c].at \in Blocked)
    <3>1. Fine(Unhold(Woken, p, t)) /\ Fine(Unhold(call, p, t))
      BY WokenUnheld
    <3>2. call' = Unhold(Woken, p, t) \/ call' = Unhold(call, p, t)
      BY DEF ReleaseStep, Release, ReleaseOutOfMemory
    <3>3. Fine(call')
      BY <3>1, <3>2
    <3> QED
      BY <3>3
  <2> QED
    BY <2>1, <2>2
<1>4. PICK u \in PoolStates : /\ Sound(u) /\ u.waiting = pool[p].waiting
                              /\ pool' = [pool EXCEPT ![p] = u]
  <2>1. CASE Close(p)
    <3> DEFINE u == Closed(pool[p])
    <3>1. u \in PoolStates
      BY <1>1, EmptySeq DEF Closed, PoolStates
    <3>2. /\ u.idle = <<>> /\ u.inUse = {} /\ u.waiting = pool[p].waiting
          /\ u.maxSize \in Nat /\ u.maxIdle \in Nat
      BY <1>1 DEF Closed, PoolStates
    <3>3. pool' = [pool EXCEPT ![p] = u]
      BY <2>1 DEF Close
    <3> HIDE DEF u
    <3>4. Sound(u)
      <4>1. Len(<<>>) = 0 /\ Cardinality({}) = 0 /\ IsFiniteSet({})
        BY EmptySeq, FS_EmptySet
      <4> QED
        BY <3>2, <4>1 DEF Sound, WithinCapacity, Apart
    <3> QED
      BY <3>1, <3>2, <3>3, <3>4
  <2>2. CASE \E t \in pool[p].inUse : ReleaseStep(p, t)
    <3> PICK t \in pool[p].inUse : ReleaseStep(p, t)
      BY <2>2
    <3>1. CASE Release(p, t)
      <4> DEFINE u == GivenBack(pool[p], t)
      <4>1. u \in PoolStates /\ Sound(u)
        BY <1>1, GivenBackSound
      <4>2. u.waiting = pool[p].waiting
        BY <1>1 DEF GivenBack, PoolStates
      <4>3. pool' = [pool EXCEPT ![p] = u]
        BY <3>1 DEF Release
      <4> HIDE DEF u
      <4> QED
        BY <4>1, <4>2, <4>3
    <3>2. CASE ReleaseOutOfMemory(p, t)
      <4> DEFINE u == [pool[p] EXCEPT !.inUse = @ \ {t}]
      <4>1. u \in PoolStates /\ Sound(u)
        BY <1>1, GivenBackSound
      <4>2. u.waiting = pool[p].waiting
        BY <1>1 DEF PoolStates
      <4>3. pool' = [pool EXCEPT ![p] = u]
        BY <3>2 DEF ReleaseOutOfMemory
      <4> HIDE DEF u
      <4> QED
        BY <4>1, <4>2, <4>3
    <3> QED
      BY <3>1, <3>2 DEF ReleaseStep
  <2> QED
    BY <2>1, <2>2
<1> QED
  BY <1>1, <1>2, <1>3, <1>4, StayStep
-----------------------------------------------------------------------------
LEMMA NextIInv == IInv /\ [Next]_vars => IInv'
<1> SUFFICES ASSUME IInv, [Next]_vars PROVE IInv'
  OBVIOUS
<1>1. CASE \E m \in Sizes \ {0}, i \in Sizes : Create(m, i)
  BY <1>1, CreateStep
<1>2. CASE \E c \in Calls, p \in PoolId : AcquireStep(c, p)
  BY <1>2, AcquireStepIInv
<1>3. CASE \E c \in Calls : SpawnStep(c) \/ WaiterChecks(c) \/ SleeperStep(c)
                            \/ WaiterTimesOut(c) \/ DieAsleep(c)
                            \/ Resolve(c) \/ Cancel(c)
  BY <1>3, WaitStepIInv, CallOnlyIInv DEF SpawnStep, WaiterChecks
<1>4. CASE \E p \in PoolId : (\E t \in pool[p].inUse : ReleaseStep(p, t)) \/ Close(p)
  BY <1>4, ReleaseCloseIInv
<1>5. CASE UNCHANGED vars
  BY <1>5 DEF vars, IInv, TypeOK, Placed, AllSound, WaitingCounted, Counted
<1> QED
  BY <1>1, <1>2, <1>3, <1>4, <1>5 DEF Next

\* The inductive invariant holds in every reachable state.
LEMMA Inductive == Spec => []IInv
BY InitIInv, NextIInv, PTL DEF Spec

\* Every variable keeps its type; in particular no step takes a waiting count
\* below zero, though closing never resets it and five places lower it.
THEOREM TypeCorrect == Spec => []TypeOK
<1>1. IInv => TypeOK
  BY DEF IInv
<1> QED
  BY <1>1, Inductive, PTL

\* No pool ever holds more than maxSize resources or more than maxIdle idle
\* ones, whatever the program closes, cancels or releases and when, a release
\* of -1 excepted.
THEOREM CapacityKept == Spec => []Capacity
<1>1. IInv => Capacity
  BY DEF IInv, TypeOK, AllSound, Sound, Capacity
<1> QED
  BY <1>1, Inductive, PTL

\* A token is in use, idle once, or not handed out yet: no resource is ever
\* lent to two callers by the pool's own accounting.
THEOREM TokensKeptApart == Spec => []TokensApart
<1>1. IInv => TokensApart
  BY DEF IInv, TypeOK, AllSound, Sound, TokensApart
<1> QED
  BY <1>1, Inductive, PTL

\* The waiting count of a pool is the number of calls blocked on it, and of the
\* wait threads that a Cancel killed in their sleep.
THEOREM WaitingIsCounted == Spec => []WaitingCounted
<1>1. IInv => WaitingCounted
  BY DEF IInv
<1> QED
  BY <1>1, Inductive, PTL
-----------------------------------------------------------------------------
(***************************************************************************)
(* Leases.  A call that was not granted a slot yet holds nothing and has   *)
(* no result; a lease names a pool that exists; a pool that does not exist *)
(* yet has handed out nothing.                                             *)
(***************************************************************************)
Early == {"new"} \cup Blocked

Fresh ==
  \A c \in Calls : call[c].at \in Early =>
    call[c].result = "none" /\ call[c].token = 0 /\ ~call[c].held
Lent == \A c \in Calls : call[c].held => call[c].pool \in created
Untouched ==
  \A p \in PoolId \ created :
    /\ ~pool[p].open
    /\ pool[p].idle = <<>> /\ pool[p].inUse = {} /\ pool[p].nextToken = 1

LInv == Fresh /\ Lent /\ Untouched /\ LeasesAccounted

\* What a step leaves of a call: its lease, and its result once settled.
KeepsLease(c) ==
  /\ call'[c].held = call[c].held
  /\ call[c].held => call'[c].pool = call[c].pool /\ call'[c].token = call[c].token
KeepsFresh(c) ==
  call'[c].at \in Early =>
    /\ call[c].at \in Early
    /\ call'[c].result = call[c].result /\ call'[c].token = call[c].token
    /\ call'[c].held = call[c].held
KeepsAsleep(c) == call[c].at = "asleep" /\ call'[c].pool = call[c].pool

LEMMA InitLInv == Init => LInv
BY DEF Init, LInv, Fresh, Lent, Untouched, LeasesAccounted, NewCall, FreshPool

\* Steps that end no lease and grant none, and give back nothing.
LEMMA LeaseSame ==
  ASSUME LInv, created' = created,
         \A c \in Calls : KeepsLease(c) /\ KeepsFresh(c),
         \A p \in created : pool'[p].open => pool[p].open /\ pool'[p].inUse = pool[p].inUse,
         \A p \in PoolId \ created : pool'[p] = pool[p]
  PROVE  LInv'
<1>1. Fresh' /\ Lent' /\ Untouched'
  BY DEF LInv, Fresh, Lent, Untouched, KeepsLease, KeepsFresh
<1>2. ASSUME NEW p \in created, pool'[p].open
      PROVE  /\ pool'[p].inUse = {call'[c].token : c \in Holders(p)'}
             /\ \A c, d \in Holders(p)' : call'[c].token = call'[d].token => c = d
  <2>1. Holders(p)' = Holders(p) /\ \A c \in Holders(p) : call'[c].token = call[c].token
    <3>1. \A c \in Calls : c \in Holders(p)' <=> c \in Holders(p)
      BY DEF Holders, KeepsLease
    <3> QED
      BY <3>1 DEF Holders, KeepsLease
  <2>2. pool'[p].inUse = pool[p].inUse /\ pool[p].open
    BY <1>2
  <2> QED
    BY <2>1, <2>2 DEF LInv, LeasesAccounted
<1> QED
  BY <1>1, <1>2 DEF LInv, LeasesAccounted

\* The token a grant hands out is in nobody's hands.
LEMMA TokenNew ==
  ASSUME NEW s \in PoolStates, Sound(s)
  PROVE  TokenOf(s) \notin s.inUse /\ TokenOf(s) \in Nat \ {0}
<1>1. CASE s.idle # <<>>
  <2>1. Len(s.idle) \in 1..Len(s.idle) /\ s.idle[Len(s.idle)] \in Nat \ {0}
    BY <1>1, EmptySeq, LenProperties, ElementOfSeq DEF PoolStates
  <2> QED
    BY <1>1, <2>1 DEF TokenOf, Sound, Apart
<1>2. CASE s.idle = <<>>
  BY <1>2 DEF TokenOf, Sound, Apart, PoolStates
<1> QED
  BY <1>1, <1>2

\* A grant adds one lease, with a token no other call of the pool holds.
LEMMA GrantKeepsLeases ==
  ASSUME TypeOK, LInv, NEW c \in Calls, ~call[c].held, NEW CONSTANT p \in created,
         NEW CONSTANT r, NEW CONSTANT t, NEW CONSTANT u, pool[p].open, u.open,
         t \notin pool[p].inUse, u.inUse = pool[p].inUse \cup {t},
         r.pool = p, r.token = t, r.held, r.at \notin Early,
         pool' = [pool EXCEPT ![p] = u], call' = [call EXCEPT ![c] = r],
         created' = created
  PROVE  LInv'
<1>1. /\ call'[c] = r /\ \A d \in Calls : d # c => call'[d] = call[d]
      /\ pool'[p] = u /\ \A q \in PoolId : q # p => pool'[q] = pool[q]
      /\ p \in PoolId /\ created \subseteq PoolId
  BY DEF TypeOK
<1>2. Fresh' /\ Lent' /\ Untouched'
  BY <1>1 DEF LInv, Fresh, Lent, Untouched
<1>3. ASSUME NEW q \in created, q # p, pool'[q].open
      PROVE  /\ pool'[q].inUse = {call'[d].token : d \in Holders(q)'}
             /\ \A d, e \in Holders(q)' : call'[d].token = call'[e].token => d = e
  <2>1. \A d \in Calls : d \in Holders(q)' <=> d \in Holders(q)
    BY <1>1, <1>3 DEF Holders
  <2>2. Holders(q)' = Holders(q) /\ c \notin Holders(q)
    BY <2>1 DEF Holders
  <2>3. \A d \in Holders(q) : call'[d].token = call[d].token
    BY <1>1, <2>2 DEF Holders
  <2> QED
    BY <1>1, <1>3, <2>2, <2>3 DEF LInv, LeasesAccounted
<1>4. /\ pool'[p].inUse = {call'[d].token : d \in Holders(p)'}
      /\ \A d, e \in Holders(p)' : call'[d].token = call'[e].token => d = e
  <2>1. \A d \in Calls : d \in Holders(p)' <=> d \in Holders(p) \/ d = c
    BY <1>1 DEF Holders
  <2>2. Holders(p)' = Holders(p) \cup {c} /\ c \notin Holders(p)
    BY <2>1 DEF Holders
  <2>3. \A d \in Holders(p) : call'[d].token = call[d].token /\ call[d].token # t
    BY <1>1, <2>2 DEF Holders, LInv, LeasesAccounted
  <2>4. pool[p].inUse = {call[d].token : d \in Holders(p)}
        /\ \A d, e \in Holders(p) : call[d].token = call[e].token => d = e
    BY DEF LInv, LeasesAccounted
  <2>5. {call'[d].token : d \in Holders(p)'} = {call[d].token : d \in Holders(p)} \cup {t}
    BY <1>1, <2>2, <2>3
  <2> QED
    BY <1>1, <2>2, <2>3, <2>4, <2>5
<1> QED
  BY <1>1, <1>2, <1>3, <1>4 DEF LInv, LeasesAccounted

\* An accepted release ends the one lease of its token.
LEMMA ReleaseKeepsLeases ==
  ASSUME TypeOK, LInv, NEW CONSTANT p \in created, NEW CONSTANT t \in pool[p].inUse,
         NEW CONSTANT u, pool[p].open, u.inUse = pool[p].inUse \ {t},
         NEW CONSTANT f \in [Calls -> CallStates],
         \A c \in Calls : /\ f[c].pool = call[c].pool /\ f[c].token = call[c].token
                          /\ f[c].held = call[c].held /\ f[c].result = call[c].result
                          /\ f[c].at \in Early <=> call[c].at \in Early,
         pool' = [pool EXCEPT ![p] = u], call' = Unhold(f, p, t), created' = created
  PROVE  LInv'
<1>1. /\ pool'[p] = u /\ \A q \in PoolId : q # p => pool'[q] = pool[q]
      /\ p \in PoolId /\ created \subseteq PoolId
  BY DEF TypeOK
<1>2. \A c \in Calls :
        /\ call'[c].pool = call[c].pool /\ call'[c].token = call[c].token
        /\ call'[c].result = call[c].result
        /\ call'[c].at \in Early <=> call[c].at \in Early
        /\ call'[c].held <=> (call[c].held /\ ~(call[c].pool = p /\ call[c].token = t))
  <2> TAKE c \in Calls
  <2>1. f[c] \in CallStates
    OBVIOUS
  <2>2. call'[c] = IF f[c].pool = p /\ f[c].token = t
                   THEN [f[c] EXCEPT !.held = FALSE] ELSE f[c]
    BY DEF Unhold
  <2>3. CASE f[c].pool = p /\ f[c].token = t
    BY <2>1, <2>2, <2>3 DEF CallStates
  <2>4. CASE ~(f[c].pool = p /\ f[c].token = t)
    BY <2>1, <2>2, <2>4 DEF CallStates
  <2> QED
    BY <2>3, <2>4
<1>3. Fresh' /\ Lent' /\ Untouched'
  <2>1. Fresh'
    <3> SUFFICES ASSUME NEW c \in Calls, call'[c].at \in Early
                 PROVE  call'[c].result = "none" /\ call'[c].token = 0 /\ ~call'[c].held
      BY DEF Fresh
    <3> QED
      BY <1>2 DEF LInv, Fresh
  <2> QED
    BY <1>1, <1>2, <2>1 DEF LInv, Lent, Untouched
<1>4. ASSUME NEW q \in created, q # p, pool'[q].open
      PROVE  /\ pool'[q].inUse = {call'[d].token : d \in Holders(q)'}
             /\ \A d, e \in Holders(q)' : call'[d].token = call'[e].token => d = e
  <2>1. \A d \in Calls : d \in Holders(q)' <=> d \in Holders(q)
    BY <1>2, <1>4 DEF Holders
  <2>2. Holders(q)' = Holders(q)
    BY <2>1 DEF Holders
  <2>3. \A d \in Holders(q) : call'[d].token = call[d].token
    BY <1>2 DEF Holders
  <2> QED
    BY <1>1, <1>4, <2>2, <2>3 DEF LInv, LeasesAccounted
<1>5. /\ pool'[p].inUse = {call'[d].token : d \in Holders(p)'}
      /\ \A d, e \in Holders(p)' : call'[d].token = call'[e].token => d = e
  <2>1. \A d \in Calls : d \in Holders(p)' <=> (d \in Holders(p) /\ call[d].token # t)
    BY <1>2 DEF Holders
  <2>2. \A d \in Holders(p)' : d \in Holders(p) /\ call[d].token # t
                               /\ call'[d].token = call[d].token
    BY <1>2, <2>1 DEF Holders
  <2>3. pool[p].inUse = {call[d].token : d \in Holders(p)}
        /\ \A d, e \in Holders(p) : call[d].token = call[e].token => d = e
    BY DEF LInv, LeasesAccounted
  <2>4. \A x : x \in {call'[d].token : d \in Holders(p)'}
               <=> (x \in {call[d].token : d \in Holders(p)} /\ x # t)
    BY <2>1, <2>2 DEF Holders
  <2>5. pool'[p].inUse = {call'[d].token : d \in Holders(p)'}
    <3> DEFINE old == {call[d].token : d \in Holders(p)}
               new == {call'[d].token : d \in Holders(p)'}
    <3>1. pool'[p].inUse = old \ {t} /\ \A x : x \in new <=> x \in old /\ x # t
      BY <1>1, <2>3, <2>4
    <3> HIDE DEF old, new
    <3> QED
      BY <3>1 DEF new
  <2> QED
    BY <2>2, <2>3, <2>5
<1> QED
  BY <1>1, <1>3, <1>4, <1>5 DEF LInv, LeasesAccounted

\* A broadcast changes where a call is, and nothing else of it.
LEMMA WokenSame ==
  ASSUME TypeOK
  PROVE  /\ Woken \in [Calls -> CallStates]
         /\ \A c \in Calls :
              /\ Woken[c].pool = call[c].pool /\ Woken[c].token = call[c].token
              /\ Woken[c].held = call[c].held /\ Woken[c].result = call[c].result
              /\ Woken[c].at \in Early <=> call[c].at \in Early
              /\ Woken[c].at \in Blocked <=> call[c].at \in Blocked
              /\ Woken[c].at = "expired" <=> call[c].at = "expired"
              /\ Woken[c].at # "asleep"
              /\ Woken[c].at = "new" <=> call[c].at = "new"
<1>1. ASSUME NEW c \in Calls
      PROVE  /\ Woken[c] \in CallStates
             /\ Woken[c].pool = call[c].pool /\ Woken[c].token = call[c].token
             /\ Woken[c].held = call[c].held /\ Woken[c].result = call[c].result
             /\ Woken[c].at \in Early <=> call[c].at \in Early
             /\ Woken[c].at \in Blocked <=> call[c].at \in Blocked
             /\ Woken[c].at = "expired" <=> call[c].at = "expired"
             /\ Woken[c].at # "asleep"
             /\ Woken[c].at = "new" <=> call[c].at = "new"
  <2>1. call[c] \in CallStates
    BY DEF TypeOK
  <2>2. CASE call[c].at = "asleep"
    BY <2>1, <2>2 DEF Woken, CallStates, Places, Early, Blocked
  <2>3. CASE call[c].at # "asleep"
    BY <2>1, <2>3 DEF Woken
  <2> QED
    BY <2>2, <2>3
<1>2. Woken = [c \in Calls |-> Woken[c]]
  BY DEF Woken
<1> QED
  BY <1>1, <1>2

LEMMA ReleaseLInv ==
  ASSUME TypeOK, LInv, NEW p \in PoolId, NEW t \in pool[p].inUse, ReleaseStep(p, t)
  PROVE  LInv'
<1>1. pool[p] \in PoolStates /\ call \in [Calls -> CallStates]
  BY DEF TypeOK
<1>2. p \in created /\ pool[p].open /\ created' = created
  BY DEF ReleaseStep, Release, ReleaseOutOfMemory, Releasable
<1>3. CASE Release(p, t)
  <2> DEFINE u == GivenBack(pool[p], t)
             f == Woken
  <2>1. u.inUse = pool[p].inUse \ {t}
    BY <1>1 DEF GivenBack, PoolStates
  <2>2. pool' = [pool EXCEPT ![p] = u] /\ call' = Unhold(f, p, t)
    BY <1>3 DEF Release
  <2>3. /\ f \in [Calls -> CallStates]
        /\ \A c \in Calls : /\ f[c].pool = call[c].pool /\ f[c].token = call[c].token
                            /\ f[c].held = call[c].held /\ f[c].result = call[c].result
                            /\ f[c].at \in Early <=> call[c].at \in Early
    BY WokenSame
  <2> HIDE DEF u, f
  <2> QED
    BY <1>2, <2>1, <2>2, <2>3, ReleaseKeepsLeases
<1>4. CASE ReleaseOutOfMemory(p, t)
  <2> DEFINE u == [pool[p] EXCEPT !.inUse = @ \ {t}]
             f == call
  <2>1. u.inUse = pool[p].inUse \ {t}
    BY <1>1 DEF PoolStates
  <2>2. pool' = [pool EXCEPT ![p] = u] /\ call' = Unhold(f, p, t)
    BY <1>4 DEF ReleaseOutOfMemory
  <2>3. /\ f \in [Calls -> CallStates]
        /\ \A c \in Calls : /\ f[c].pool = call[c].pool /\ f[c].token = call[c].token
                            /\ f[c].held = call[c].held /\ f[c].result = call[c].result
                            /\ f[c].at \in Early <=> call[c].at \in Early
    BY <1>1
  <2> HIDE DEF u, f
  <2> QED
    BY <1>2, <2>1, <2>2, <2>3, ReleaseKeepsLeases
<1> QED
  BY <1>3, <1>4 DEF ReleaseStep

LEMMA CloseLInv ==
  ASSUME TypeOK, LInv, NEW p \in PoolId, Close(p)
  PROVE  LInv'
<1>1. \A c \in Calls : KeepsLease(c) /\ KeepsFresh(c)
  <2>1. call' = Woken
    BY DEF Close
  <2> QED
    BY <2>1, WokenSame DEF KeepsLease, KeepsFresh
<1>2. ~pool'[p].open /\ p \in created /\ created' = created
      /\ \A q \in PoolId : q # p => pool'[q] = pool[q]
  BY DEF Close, Closed, TypeOK, PoolStates
<1> QED
  BY <1>1, <1>2, LeaseSame DEF TypeOK

LEMMA CreateLInv ==
  ASSUME IInv, LInv, NEW m \in Sizes \ {0}, NEW i \in Sizes, Create(m, i)
  PROVE  LInv'
<1>1. call' = call /\ TypeOK
  BY DEF Create, IInv
<1>2. CASE UNCHANGED <<created, pool>>
  BY <1>1, <1>2, LeaseSame DEF KeepsLease, KeepsFresh
<1>3. CASE nextId \in PoolId /\ created' = created \cup {nextId}
           /\ pool' = [pool EXCEPT ![nextId] = FreshPool(TRUE, m, i)]
  <2>1. nextId \notin created
    BY <1>1 DEF IInv, Placed, TypeOK
  <2>2. \A q \in PoolId : q # nextId => pool'[q] = pool[q]
    BY <1>1, <1>3 DEF TypeOK
  <2>3. pool'[nextId].inUse = {}
    BY <1>1, <1>3 DEF TypeOK, FreshPool
  <2>4. Fresh' /\ Lent' /\ Untouched'
    BY <1>1, <1>3, <2>2 DEF LInv, Fresh, Lent, Untouched
  <2>5. \A q : Holders(q)' = Holders(q)
    BY <1>1 DEF Holders
  <2>6. Holders(nextId) = {}
    BY <2>1 DEF LInv, Lent, Holders
  <2>7. LeasesAccounted'
    <3> SUFFICES ASSUME NEW q \in created', pool'[q].open
                 PROVE  /\ pool'[q].inUse = {call'[d].token : d \in Holders(q)'}
                        /\ \A d, e \in Holders(q)' : call'[d].token = call'[e].token => d = e
      BY DEF LeasesAccounted
    <3>1. CASE q = nextId
      <4>1. Holders(q)' = {} /\ pool'[q].inUse = {}
        BY <2>3, <2>5, <2>6, <3>1
      <4> QED
        BY <4>1
    <3>2. CASE q # nextId
      <4>1. q \in created /\ pool'[q] = pool[q]
        BY <1>1, <1>3, <2>2, <3>2 DEF TypeOK
      <4> QED
        BY <1>1, <2>5, <4>1 DEF LInv, LeasesAccounted
    <3> QED
      BY <3>1, <3>2
  <2> QED
    BY <2>4, <2>7 DEF LInv
<1> QED
  BY <1>2, <1>3 DEF Create

\* What an action does to the call it is about.
LEMMA CallMoves ==
  ASSUME TypeOK, LInv, NEW c \in Calls,
         \/ \E p \in PoolId : AcquireRefused(c, p) \/ Register(c, p)
         \/ SpawnStep(c) \/ WaiterFindsClosed(c) \/ WaiterSleeps(c)
         \/ WaiterTimesOut(c) \/ SleeperStep(c) \/ Resolve(c) \/ Cancel(c)
         \/ DieAsleep(c)
  PROVE  /\ \A d \in Calls : d # c => call'[d] = call[d]
         /\ KeepsLease(c) /\ KeepsFresh(c)
         /\ call'[c].at = "asleep" => WaiterSleeps(c) \/ KeepsAsleep(c)
         /\ call[c].result # "none" =>
              call'[c].result = call[c].result /\ call'[c].token = call[c].token
<1>1. call[c] \in CallStates /\ call \in [Calls -> CallStates]
  BY DEF TypeOK
<1>2. call[c].at \in Early => ~call[c].held /\ call[c].result = "none"
  BY DEF LInv, Fresh
<1> DEFINE Moves(r) ==
             /\ r.held = call[c].held
             /\ call[c].held => r.pool = call[c].pool /\ r.token = call[c].token
             /\ r.at \in Early => /\ call[c].at \in Early
                                  /\ r.result = call[c].result /\ r.token = call[c].token
             /\ r.at = "asleep" => \/ WaiterSleeps(c)
                                  \/ (call[c].at = "asleep" /\ r.pool = call[c].pool)
             /\ call[c].result # "none" =>
                  r.result = call[c].result /\ r.token = call[c].token
<1>3. ASSUME NEW r, Moves(r), call' = [call EXCEPT ![c] = r]
      PROVE  /\ \A d \in Calls : d # c => call'[d] = call[d]
             /\ KeepsLease(c) /\ KeepsFresh(c)
             /\ call'[c].at = "asleep" => WaiterSleeps(c) \/ KeepsAsleep(c)
             /\ call[c].result # "none" =>
                  call'[c].result = call[c].result /\ call'[c].token = call[c].token
  BY <1>1, <1>3 DEF KeepsLease, KeepsFresh, KeepsAsleep
<1>4. \E r : Moves(r) /\ call' = [call EXCEPT ![c] = r]
  <2>1. CASE \E p \in PoolId : AcquireRefused(c, p)
    <3> PICK p \in PoolId, x \in {"closed", "invalid"} :
          call[c].at = "new" /\ Done(c, p, x)
      BY <2>1 DEF AcquireRefused
    <3> DEFINE r == [call[c] EXCEPT !.at = "done", !.pool = p, !.result = x]
    <3>1. Moves(r)
      BY <1>1, <1>2 DEF CallStates, Early, Blocked
    <3>2. call' = [call EXCEPT ![c] = r]
      BY DEF Done
    <3> QED
      BY <3>1, <3>2
  <2>2. CASE \E p \in PoolId : Register(c, p)
    <3> PICK p \in PoolId : Register(c, p)
      BY <2>2
    <3> DEFINE r == [call[c] EXCEPT !.at = "registered", !.pool = p]
    <3>1. Moves(r)
      BY <1>1, <1>2 DEF Register, CallStates, Early, Blocked
    <3>2. call' = [call EXCEPT ![c] = r]
      BY DEF Register
    <3> QED
      BY <3>1, <3>2
  <2>3. CASE SpawnFails(c)
    <3> DEFINE r == [call[c] EXCEPT !.at = "done", !.pool = call[c].pool, !.result = "other"]
    <3>1. Moves(r)
      BY <1>1, <1>2, <2>3 DEF SpawnFails, CallStates, Early, Blocked
    <3>2. call' = [call EXCEPT ![c] = r]
      BY <2>3 DEF SpawnFails, Done
    <3> QED
      BY <3>1, <3>2
  <2>4. CASE WaiterFindsClosed(c)
    <3> DEFINE r == [call[c] EXCEPT !.at = "resolving", !.result = "closed"]
    <3>1. Moves(r)
      BY <1>1, <1>2, <2>4 DEF WaiterFindsClosed, CallStates, Early, Blocked
    <3>2. call' = [call EXCEPT ![c] = r]
      BY <2>4 DEF WaiterFindsClosed
    <3> QED
      BY <3>1, <3>2
  <2>5. CASE WaiterTimesOut(c)
    <3> DEFINE r == [call[c] EXCEPT !.at = "resolving", !.result = "timeout"]
    <3>1. Moves(r)
      BY <1>1, <1>2, <2>5 DEF WaiterTimesOut, TimesOut, CallStates, Early, Blocked
    <3>2. call' = [call EXCEPT ![c] = r]
      BY <2>5 DEF WaiterTimesOut, TimedOut
    <3> QED
      BY <3>1, <3>2
  <2>6. CASE SpawnWaiter(c) \/ WaiterSleeps(c) \/ SleeperStep(c) \/ Resolve(c)
             \/ DieAsleep(c)
    <3> PICK x \in {"ready", "asleep", "expired", "dying", "dead", "done"} :
          /\ call' = [call EXCEPT ![c] = [@ EXCEPT !.at = x]]
          /\ x # "done" => call[c].at \in Blocked
          /\ x = "asleep" => WaiterSleeps(c)
      BY <2>6 DEF SpawnWaiter, WaiterSleeps, SleeperStep, Expires, TimesOut, SpuriousWakeup, CancelActs, Resolve, DieAsleep, Blocked
    <3> DEFINE r == [call[c] EXCEPT !.at = x]
    <3>1. Moves(r)
      BY <1>1 DEF CallStates, Early, Blocked
    <3>2. call' = [call EXCEPT ![c] = r]
      OBVIOUS
    <3> QED
      BY <3>1, <3>2
  <2>7. CASE Cancel(c)
    <3> DEFINE r == [call[c] EXCEPT !.cancelled = TRUE]
    <3>1. Moves(r)
      BY <1>1 DEF CallStates
    <3>2. call' = [call EXCEPT ![c] = r]
      BY <2>7 DEF Cancel
    <3> QED
      BY <3>1, <3>2
  <2> QED
    BY <2>1, <2>2, <2>3, <2>4, <2>5, <2>6, <2>7 DEF SpawnStep
<1> HIDE DEF Moves
<1> QED
  BY <1>3, <1>4

\* ... and to the pools: it moves a call or a waiting count, no token.
LEMMA PoolsKept ==
  ASSUME IInv, NEW c \in Calls,
         \/ \E p \in PoolId : AcquireRefused(c, p) \/ Register(c, p)
         \/ SpawnStep(c) \/ WaiterFindsClosed(c) \/ WaiterSleeps(c)
         \/ WaiterTimesOut(c) \/ SleeperStep(c) \/ Resolve(c) \/ Cancel(c)
         \/ DieAsleep(c)
  PROVE  /\ created' = created
         /\ \A p \in PoolId \ created : pool'[p] = pool[p]
         /\ \A p \in PoolId :
              /\ pool'[p].open = pool[p].open
              /\ pool'[p].maxSize = pool[p].maxSize /\ pool'[p].maxIdle = pool[p].maxIdle
              /\ pool'[p].idle = pool[p].idle /\ pool'[p].inUse = pool[p].inUse
              /\ pool'[p].nextToken = pool[p].nextToken
<1>1. created' = created
  BY DEF AcquireRefused, Register, SpawnStep, SpawnWaiter, SpawnFails, WaiterFindsClosed,
         WaiterSleeps, WaiterTimesOut, SleeperStep, Expires, TimesOut, SpuriousWakeup, CancelActs, Resolve, Cancel, DieAsleep
<1>2. pool' = pool \/ \E p \in created : \E k : pool' = [pool EXCEPT ![p] = Recount(@, k)]
  <2>1. CASE \E p \in PoolId : Register(c, p)
    <3> PICK p \in PoolId : Register(c, p)
      BY <2>1
    <3>1. p \in created /\ pool' = [pool EXCEPT ![p] = Recount(@, pool[p].waiting + 1)]
      BY DEF Register, Recount
    <3> QED
      BY <3>1
  <2>2. CASE SpawnFails(c) \/ WaiterFindsClosed(c) \/ WaiterTimesOut(c)
    <3> DEFINE p == call[c].pool
    <3>1. p \in created
      BY <2>2 DEF IInv, Placed, Blocked, SpawnFails, WaiterFindsClosed,
                  WaiterTimesOut, TimesOut
    <3>2. pool' = [pool EXCEPT ![p] = Recount(@, pool[p].waiting - 1)]
      BY <2>2 DEF SpawnFails, WaiterFindsClosed, WaiterTimesOut, LeaveWaiting, Recount
    <3> QED
      BY <3>1, <3>2
  <2>3. CASE \/ \E p \in PoolId : AcquireRefused(c, p)
             \/ SpawnWaiter(c) \/ WaiterSleeps(c) \/ SleeperStep(c) \/ Resolve(c)
             \/ Cancel(c) \/ DieAsleep(c)
    BY <2>3 DEF AcquireRefused, SpawnWaiter, WaiterSleeps, SleeperStep, Expires, TimesOut, SpuriousWakeup, CancelActs, Resolve, Cancel,
                DieAsleep
  <2> QED
    BY <2>1, <2>2, <2>3 DEF SpawnStep
<1>3. pool \in [PoolId -> PoolStates] /\ created \subseteq PoolId
  BY DEF IInv, TypeOK
<1>4. CASE pool' = pool
  BY <1>1, <1>4
<1>5. CASE \E p \in created : \E k : pool' = [pool EXCEPT ![p] = Recount(@, k)]
  <2> PICK p \in created : \E k : pool' = [pool EXCEPT ![p] = Recount(@, k)]
    BY <1>5
  <2> PICK k : pool' = [pool EXCEPT ![p] = Recount(@, k)]
    OBVIOUS
  <2>1. pool'[p] = Recount(pool[p], k) /\ \A q \in PoolId : q # p => pool'[q] = pool[q]
    BY <1>3
  <2>2. /\ pool'[p].open = pool[p].open
        /\ pool'[p].maxSize = pool[p].maxSize /\ pool'[p].maxIdle = pool[p].maxIdle
        /\ pool'[p].idle = pool[p].idle /\ pool'[p].inUse = pool[p].inUse
        /\ pool'[p].nextToken = pool[p].nextToken
    BY <1>3, <2>1 DEF Recount, PoolStates
  <2> QED
    BY <1>1, <2>1, <2>2
<1> QED
  BY <1>2, <1>4, <1>5

\* A slot granted at once, or by the thread that waited for it.
LEMMA GrantIs ==
  ASSUME IInv, NEW c \in Calls, WaiterTakes(c) \/ \E p \in PoolId : AcquireNow(c, p)
  PROVE  \E p \in created : \E r, u :
           /\ call[c].at = "new" \/ (call[c].at = "ready" /\ call[c].pool = p)
           /\ Grantable(pool[p]) /\ created' = created
           /\ call' = [call EXCEPT ![c] = r]
           /\ r.at \in {"done", "resolving"} /\ r.pool = p /\ r.result = "ok"
           /\ r.token = TokenOf(pool[p]) /\ r.held
           /\ pool' = [pool EXCEPT ![p] = u]
           /\ u.open /\ u.maxSize = pool[p].maxSize /\ u.maxIdle = pool[p].maxIdle
           /\ u.idle = Take(pool[p]).idle /\ u.nextToken = Take(pool[p]).nextToken
           /\ u.inUse = pool[p].inUse \cup {TokenOf(pool[p])}
<1>1. TypeOK /\ call[c] \in CallStates
  BY DEF IInv, TypeOK
<1>2. CASE \E p \in PoolId : AcquireNow(c, p)
  <2> PICK p \in PoolId : AcquireNow(c, p)
    BY <1>2
  <2>1. pool[p] \in PoolStates /\ p \in created /\ pool[p].open
    BY <1>1 DEF AcquireNow, TypeOK, Grantable
  <2> DEFINE u == Take(pool[p])
             r == [call[c] EXCEPT !.at = "done", !.pool = p, !.result = "ok",
                                  !.token = TokenOf(pool[p]), !.held = TRUE]
  <2>2. /\ u.open /\ u.maxSize = pool[p].maxSize /\ u.maxIdle = pool[p].maxIdle
        /\ u.inUse = pool[p].inUse \cup {TokenOf(pool[p])}
    BY <2>1 DEF Take, PoolStates
  <2>3. /\ r.at \in {"done", "resolving"} /\ r.pool = p /\ r.result = "ok"
        /\ r.token = TokenOf(pool[p]) /\ r.held
    BY <1>1 DEF CallStates
  <2>4. /\ call' = [call EXCEPT ![c] = r] /\ pool' = [pool EXCEPT ![p] = u]
        /\ Grantable(pool[p]) /\ created' = created /\ call[c].at = "new"
    BY DEF AcquireNow
  <2> HIDE DEF r
  <2> QED
    BY <2>1, <2>2, <2>3, <2>4
<1>3. CASE WaiterTakes(c)
  <2> PICK p : p = call[c].pool
    OBVIOUS
  <2>1. p \in created /\ call[c].at = "ready"
    BY <1>3 DEF WaiterTakes, IInv, Placed, Blocked
  <2>2. pool[p] \in PoolStates /\ pool[p].open
    BY <1>1, <1>3, <2>1 DEF WaiterTakes, TypeOK, Grantable
  <2> DEFINE u == [Take(pool[p]) EXCEPT !.waiting = @ - 1]
             r == [call[c] EXCEPT !.at = "resolving", !.result = "ok",
                                  !.token = TokenOf(pool[p]), !.held = TRUE]
  <2>3. /\ u.open /\ u.maxSize = pool[p].maxSize /\ u.maxIdle = pool[p].maxIdle
        /\ u.inUse = pool[p].inUse \cup {TokenOf(pool[p])}
        /\ u.idle = Take(pool[p]).idle /\ u.nextToken = Take(pool[p]).nextToken
    BY <2>2 DEF Take, PoolStates
  <2>4. /\ r.at \in {"done", "resolving"} /\ r.pool = p /\ r.result = "ok"
        /\ r.token = TokenOf(pool[p]) /\ r.held
    BY <1>1 DEF CallStates
  <2>5. /\ call' = [call EXCEPT ![c] = r] /\ pool' = [pool EXCEPT ![p] = u]
        /\ Grantable(pool[p]) /\ created' = created
    BY <1>3 DEF WaiterTakes
  <2> HIDE DEF r, u
  <2> QED
    BY <2>1, <2>3, <2>4, <2>5
<1> QED
  BY <1>2, <1>3

LEMMA GrantLInv ==
  ASSUME IInv, LInv, NEW c \in Calls,
         WaiterTakes(c) \/ \E p \in PoolId : AcquireNow(c, p)
  PROVE  LInv'
<1> PICK p \in created : \E r, u :
           /\ call[c].at = "new" \/ (call[c].at = "ready" /\ call[c].pool = p)
           /\ Grantable(pool[p]) /\ created' = created
           /\ call' = [call EXCEPT ![c] = r]
           /\ r.at \in {"done", "resolving"} /\ r.pool = p
           /\ r.token = TokenOf(pool[p]) /\ r.held
           /\ pool' = [pool EXCEPT ![p] = u]
           /\ u.open /\ u.inUse = pool[p].inUse \cup {TokenOf(pool[p])}
  BY GrantIs
<1> PICK r, u :
           /\ call[c].at = "new" \/ (call[c].at = "ready" /\ call[c].pool = p)
           /\ Grantable(pool[p]) /\ created' = created
           /\ call' = [call EXCEPT ![c] = r]
           /\ r.at \in {"done", "resolving"} /\ r.pool = p
           /\ r.token = TokenOf(pool[p]) /\ r.held
           /\ pool' = [pool EXCEPT ![p] = u]
           /\ u.open /\ u.inUse = pool[p].inUse \cup {TokenOf(pool[p])}
  OBVIOUS
<1>1. pool[p] \in PoolStates /\ Sound(pool[p]) /\ pool[p].open /\ TypeOK
  BY DEF IInv, TypeOK, AllSound, Grantable
<1>2. ~call[c].held /\ r.at \notin Early
  BY DEF LInv, Fresh, Early, Blocked
<1> DEFINE t == TokenOf(pool[p])
<1>3. t \notin pool[p].inUse
  BY <1>1, TokenNew
<1> HIDE DEF t
<1>4. r.token = t /\ u.inUse = pool[p].inUse \cup {t}
  BY DEF t
<1> QED
  BY <1>1, <1>2, <1>3, <1>4, GrantKeepsLeases

\* The actions of a call that take no slot.
LEMMA MoveLInv ==
  ASSUME IInv, LInv, NEW c \in Calls,
         \/ \E p \in PoolId : AcquireRefused(c, p) \/ Register(c, p)
         \/ SpawnStep(c) \/ WaiterFindsClosed(c) \/ WaiterSleeps(c)
         \/ WaiterTimesOut(c) \/ SleeperStep(c) \/ Resolve(c) \/ Cancel(c)
         \/ DieAsleep(c)
  PROVE  LInv'
<1>1. TypeOK /\ created \subseteq PoolId
  BY DEF IInv, TypeOK
<1>2. \A d \in Calls : KeepsLease(d) /\ KeepsFresh(d)
  BY <1>1, CallMoves DEF KeepsLease, KeepsFresh
<1>3. /\ created' = created
      /\ \A p \in PoolId \ created : pool'[p] = pool[p]
      /\ \A p \in created : pool'[p].open = pool[p].open /\ pool'[p].inUse = pool[p].inUse
  BY <1>1, PoolsKept
<1> QED
  BY <1>2, <1>3, LeaseSame

LEMMA NextLInv == IInv /\ LInv /\ [Next]_vars => LInv'
<1> SUFFICES ASSUME IInv, LInv, [Next]_vars PROVE LInv'
  OBVIOUS
<1>1. CASE \E m \in Sizes \ {0}, i \in Sizes : Create(m, i)
  BY <1>1, CreateLInv
<1>2. CASE \E c \in Calls, p \in PoolId : AcquireStep(c, p)
  BY <1>2, MoveLInv, GrantLInv DEF AcquireStep
<1>3. CASE \E c \in Calls : SpawnStep(c) \/ WaiterChecks(c) \/ SleeperStep(c)
                            \/ WaiterTimesOut(c) \/ DieAsleep(c)
                            \/ Resolve(c) \/ Cancel(c)
  BY <1>3, MoveLInv, GrantLInv DEF WaiterChecks
<1>4. CASE \E p \in PoolId : (\E t \in pool[p].inUse : ReleaseStep(p, t)) \/ Close(p)
  BY <1>4, ReleaseLInv, CloseLInv DEF IInv
<1>5. CASE UNCHANGED vars
  BY <1>5, LeaseSame DEF vars, KeepsLease, KeepsFresh
<1> QED
  BY <1>1, <1>2, <1>3, <1>4, <1>5 DEF Next

LEMMA LeasesInductive == Spec => [](IInv /\ LInv)
BY InitIInv, NextIInv, InitLInv, NextLInv, PTL DEF Spec

\* The tokens an open pool counts as in use are those of the calls that hold
\* one, one call each: no lease is lost and none is shared, whatever stray
\* token the program releases and whichever thread it cancels.
THEOREM LeasesAreAccounted == Spec => []LeasesAccounted
<1>1. LInv => LeasesAccounted
  BY DEF LInv
<1> QED
  BY <1>1, LeasesInductive, PTL
-----------------------------------------------------------------------------
\* A settled call keeps its result and its token.
LEMMA StepSettledOnce ==
  ASSUME IInv, LInv, [Next]_vars, NEW c \in Calls, call[c].result # "none"
  PROVE  call'[c].result = call[c].result /\ call'[c].token = call[c].token
<1>1. TypeOK
  BY DEF IInv
<1>2. CASE \E m \in Sizes \ {0}, i \in Sizes : Create(m, i)
  BY <1>2 DEF Create
<1>3. CASE \E d \in Calls : WaiterTakes(d) \/ \E p \in PoolId : AcquireNow(d, p)
  <2> PICK d \in Calls : WaiterTakes(d) \/ \E p \in PoolId : AcquireNow(d, p)
    BY <1>3
  <2>1. d # c
    BY DEF LInv, Fresh, Early, Blocked, WaiterTakes, AcquireNow
  <2>2. call'[c] = call[c]
    BY <1>1, <2>1 DEF WaiterTakes, AcquireNow, TypeOK
  <2> QED
    BY <2>2
<1>4. CASE \E d \in Calls :
             \/ \E p \in PoolId : AcquireRefused(d, p) \/ Register(d, p)
             \/ SpawnStep(d) \/ WaiterFindsClosed(d) \/ WaiterSleeps(d)
             \/ WaiterTimesOut(d) \/ SleeperStep(d) \/ Resolve(d) \/ Cancel(d)
             \/ DieAsleep(d)
  BY <1>1, <1>4, CallMoves
<1>5. CASE \E p \in PoolId : \E t \in pool[p].inUse : ReleaseStep(p, t)
  <2> PICK p \in PoolId : \E t \in pool[p].inUse : ReleaseStep(p, t)
    BY <1>5
  <2> PICK t \in pool[p].inUse : ReleaseStep(p, t)
    OBVIOUS
  <2>1. call[c] \in CallStates /\ Woken[c] \in CallStates
        /\ Woken[c].result = call[c].result /\ Woken[c].token = call[c].token
    BY <1>1, WokenSame DEF TypeOK
  <2>2. call' = Unhold(Woken, p, t) \/ call' = Unhold(call, p, t)
    BY DEF ReleaseStep, Release, ReleaseOutOfMemory
  <2> QED
    BY <2>1, <2>2 DEF Unhold, CallStates
<1>6. CASE \E p \in PoolId : Close(p)
  BY <1>1, <1>6, WokenSame DEF Close
<1>7. CASE UNCHANGED vars
  BY <1>7 DEF vars
<1> QED
  BY <1>2, <1>3, <1>4, <1>5, <1>6, <1>7 DEF Next, AcquireStep, WaiterChecks

\* No release, close, cancel or later turn of its own thread gives a settled
\* acquire another result or another token.
THEOREM SettlesOnce == Spec => SettledOnce
<1>1. IInv /\ LInv /\ [Next]_vars =>
        [\A c \in Calls : call[c].result # "none" =>
           call'[c].result = call[c].result /\ call'[c].token = call[c].token]_vars
  BY StepSettledOnce
<1> QED
  BY <1>1, LeasesInductive, PTL DEF Spec, SettledOnce
-----------------------------------------------------------------------------
(***************************************************************************)
(* Wakeups.  A step that takes a slot finds one free, so nobody sleeps on  *)
(* that pool; one that frees a slot or closes the pool wakes everybody,    *)
(* but for ReleaseOutOfMemory, which happens in starved pools only.        *)
(***************************************************************************)
LEMMA WakeSame ==
  ASSUME TypeOK, Placed, NoLostWakeup,
         \A c \in Calls : call'[c].at = "asleep" =>
           call[c].at = "asleep" /\ call'[c].pool = call[c].pool,
         \A p \in created \ Starved :
           \/ /\ pool'[p].open = pool[p].open /\ pool'[p].maxSize = pool[p].maxSize
              /\ pool'[p].idle = pool[p].idle /\ pool'[p].inUse = pool[p].inUse
           \/ SlotFree(pool[p])
  PROVE  NoLostWakeup'
BY DEF NoLostWakeup, SlotFree, Placed, Blocked

LEMMA NextNoLostWakeup ==
  ASSUME IInv, LInv, NoLostWakeup, [Next]_vars
  PROVE  NoLostWakeup'
<1>1. TypeOK /\ Placed /\ created \subseteq PoolId
  BY DEF IInv, TypeOK
<1>2. CASE \E m \in Sizes \ {0}, i \in Sizes : Create(m, i)
  <2> PICK m \in Sizes \ {0}, i \in Sizes : Create(m, i)
    BY <1>2
  <2>1. call' = call /\ \A p \in created : pool'[p] = pool[p]
    <3>1. \A p \in created : p # nextId /\ p \in PoolId
      BY <1>1 DEF TypeOK, Placed, PoolId
    <3>2. pool' = pool \/ pool' = [pool EXCEPT ![nextId] = FreshPool(TRUE, m, i)]
      BY DEF Create
    <3> QED
      BY <1>1, <3>1, <3>2 DEF Create, TypeOK
  <2> QED
    BY <1>1, <2>1, WakeSame
<1>3. CASE \E c \in Calls : WaiterTakes(c) \/ \E p \in PoolId : AcquireNow(c, p)
  <2> PICK c \in Calls : WaiterTakes(c) \/ \E p \in PoolId : AcquireNow(c, p)
    BY <1>3
  <2> PICK p \in created : \E r, u :
        /\ call' = [call EXCEPT ![c] = r] /\ r.at \in {"done", "resolving"}
        /\ Grantable(pool[p]) /\ pool' = [pool EXCEPT ![p] = u]
    BY GrantIs
  <2> PICK r, u :
        /\ call' = [call EXCEPT ![c] = r] /\ r.at \in {"done", "resolving"}
        /\ Grantable(pool[p]) /\ pool' = [pool EXCEPT ![p] = u]
    OBVIOUS
  <2>1. \A d \in Calls : call'[d].at = "asleep" => call'[d] = call[d]
    BY <1>1 DEF TypeOK
  <2>2. \A q \in created : pool'[q] = pool[q] \/ SlotFree(pool[q])
    BY <1>1 DEF Grantable, TypeOK
  <2> QED
    BY <1>1, <2>1, <2>2, WakeSame
<1>4. CASE \E c \in Calls : WaiterSleeps(c)
  <2> PICK c \in Calls : WaiterSleeps(c)
    BY <1>4
  <2>1. pool' = pool /\ pool[call[c].pool].open /\ ~SlotFree(pool[call[c].pool])
    BY DEF WaiterSleeps
  <2>2. \A d \in Calls : call'[d].pool = call[d].pool
                         /\ (d # c => call'[d].at = call[d].at)
    BY <1>1 DEF WaiterSleeps, TypeOK, CallStates
  <2> QED
    BY <2>1, <2>2 DEF NoLostWakeup
<1>5. CASE \E c \in Calls :
             \/ \E p \in PoolId : AcquireRefused(c, p) \/ Register(c, p)
             \/ SpawnStep(c) \/ WaiterFindsClosed(c)
             \/ WaiterTimesOut(c) \/ SleeperStep(c) \/ Resolve(c) \/ Cancel(c)
             \/ DieAsleep(c)
  <2> PICK c \in Calls :
             \/ \E p \in PoolId : AcquireRefused(c, p) \/ Register(c, p)
             \/ SpawnStep(c) \/ WaiterFindsClosed(c)
             \/ WaiterTimesOut(c) \/ SleeperStep(c) \/ Resolve(c) \/ Cancel(c)
             \/ DieAsleep(c)
    BY <1>5
  <2>1. \A d \in Calls : d # c => call'[d] = call[d]
    BY <1>1, CallMoves
  <2>2. call'[c].at = "asleep" => WaiterSleeps(c) \/ KeepsAsleep(c)
    BY <1>1, CallMoves
  <2>3. \A p \in created :
          /\ pool'[p].open = pool[p].open /\ pool'[p].maxSize = pool[p].maxSize
          /\ pool'[p].idle = pool[p].idle /\ pool'[p].inUse = pool[p].inUse
    BY <1>1, PoolsKept
  <2>4. CASE WaiterSleeps(c)
    BY <1>4, <2>4
  <2>5. CASE ~WaiterSleeps(c)
    BY <1>1, <2>1, <2>2, <2>3, <2>5, WakeSame DEF KeepsAsleep
  <2> QED
    BY <2>4, <2>5
<1>6. CASE \E p \in PoolId : (\E t \in pool[p].inUse : Release(p, t)) \/ Close(p)
  <2> PICK p \in PoolId : (\E t \in pool[p].inUse : Release(p, t)) \/ Close(p)
    BY <1>6
  <2>1. \A d \in Calls : Woken[d] \in CallStates /\ Woken[d].at # "asleep"
    BY <1>1, WokenSame
  <2>2. call' = Woken \/ \E t : call' = Unhold(Woken, p, t)
    BY DEF Release, Close
  <2>3. \A d \in Calls : call'[d].at # "asleep"
    BY <2>1, <2>2 DEF Unhold, CallStates
  <2> QED
    BY <2>3 DEF NoLostWakeup
<1>8. CASE \E p \in PoolId : \E t \in pool[p].inUse : ReleaseOutOfMemory(p, t)
  <2> PICK p \in PoolId : \E t \in pool[p].inUse : ReleaseOutOfMemory(p, t)
    BY <1>8
  <2> PICK t \in pool[p].inUse : ReleaseOutOfMemory(p, t)
    OBVIOUS
  <2>1. \A d \in Calls : call'[d].at = call[d].at /\ call'[d].pool = call[d].pool
    BY <1>1 DEF ReleaseOutOfMemory, Unhold, TypeOK, CallStates
  <2>2. \A q \in created \ Starved : pool'[q] = pool[q]
    BY <1>1 DEF ReleaseOutOfMemory, TypeOK
  <2> QED
    BY <1>1, <2>1, <2>2, WakeSame
<1>7. CASE UNCHANGED vars
  BY <1>7 DEF vars, NoLostWakeup, SlotFree
<1> QED
  BY <1>2, <1>3, <1>4, <1>5, <1>6, <1>7, <1>8
     DEF Next, AcquireStep, WaiterChecks, ReleaseStep

\* In a pool whose idle queue never fails to grow, a wait thread sleeps only
\* while the pool is open and full, whatever else fails or is cancelled: no
\* release or close between its test and its sleep is missed.
THEOREM NoWakeupIsLost == Spec => []NoLostWakeup
<1>1. Init => NoLostWakeup
  BY DEF Init, NoLostWakeup, NewCall
<1>2. IInv /\ LInv /\ NoLostWakeup /\ [Next]_vars => NoLostWakeup'
  BY NextNoLostWakeup
<1> QED
  BY <1>1, <1>2, LeasesInductive, PTL DEF Spec
-----------------------------------------------------------------------------
(***************************************************************************)
(* Refinement.  Each step is a step of the abstract pool it is about and   *)
(* leaves every other pool as it was.  The deadline that wakes a sleeper   *)
(* maps to a timeout that finds no free slot, because no wakeup is lost.   *)
(***************************************************************************)
\* The abstract outcome and lease of a call record, seen from pool p.
OutcomeOf(r, p) ==
  IF r.pool # p THEN "none"
  ELSE IF r.at = "expired" THEN "timeout"
  ELSE IF r.at \in Blocked THEN "waiting" ELSE r.result
LeaseOf(r, p) == IF r.pool = p THEN r.token ELSE 0

LEMMA OutcomeIs ==
  ASSUME NEW p
  PROVE  /\ Outcome(p) = [c \in Calls |-> OutcomeOf(call[c], p)]
         /\ Lease(p) = [c \in Calls |-> LeaseOf(call[c], p)]
         /\ Outcome(p)' = [c \in Calls |-> OutcomeOf(call'[c], p)]
         /\ Lease(p)' = [c \in Calls |-> LeaseOf(call'[c], p)]
BY DEF Outcome, Lease, OutcomeOf, LeaseOf, Blocked

\* The instance brings its own name for the cardinality of a set.
LEMMA CardinalityIs ==
  ASSUME NEW p, NEW S
  PROVE  Abstract(p)!Cardinality(S) = Cardinality(S)
BY DEF Abstract!Cardinality, Cardinality

\* What the abstract pool p sees of the pool table.
SamePool(p) ==
  /\ p \in created' <=> p \in created
  /\ pool'[p].open = pool[p].open
  /\ pool'[p].maxSize = pool[p].maxSize /\ pool'[p].maxIdle = pool[p].maxIdle
  /\ pool'[p].idle = pool[p].idle /\ pool'[p].inUse = pool[p].inUse
  /\ pool'[p].nextToken = pool[p].nextToken

LEMMA Stutters ==
  ASSUME NEW p \in PoolId, SamePool(p),
         \A c \in Calls : /\ OutcomeOf(call'[c], p) = OutcomeOf(call[c], p)
                          /\ LeaseOf(call'[c], p) = LeaseOf(call[c], p)
  PROVE  UNCHANGED Abstract(p)!vars
<1>1. Outcome(p)' = Outcome(p) /\ Lease(p)' = Lease(p)
  BY OutcomeIs
<1> QED
  BY <1>1 DEF Abstract!vars, SamePool

LEMMA InitRefines == Init => \A p \in PoolId : Abstract(p)!Init
<1> SUFFICES ASSUME Init, NEW p \in PoolId PROVE Abstract(p)!Init
  OBVIOUS
<1>1. pool[p] = FreshPool(FALSE, 0, 0) /\ created = {}
  BY DEF Init
<1>2. Outcome(p) = [c \in Calls |-> "none"]
  BY DEF Init, Outcome, NewCall, Blocked
<1>3. Lease(p) = [c \in Calls |-> 0]
  BY DEF Init, Lease, NewCall
<1> QED
  BY <1>1, <1>2, <1>3 DEF Abstract!Init, FreshPool

\* A call that changes its record, seen from any pool.
LEMMA OneCall ==
  ASSUME TypeOK, NEW p, NEW c \in Calls, NEW r, call' = [call EXCEPT ![c] = r]
  PROVE  /\ Outcome(p)' = [Outcome(p) EXCEPT ![c] = OutcomeOf(r, p)]
         /\ Lease(p)' = [Lease(p) EXCEPT ![c] = LeaseOf(r, p)]
         /\ Outcome(p)[c] = OutcomeOf(call[c], p) /\ Lease(p)[c] = LeaseOf(call[c], p)
<1>1. call'[c] = r /\ \A d \in Calls : d # c => call'[d] = call[d]
  BY DEF TypeOK
<1> QED
  BY <1>1, OutcomeIs

LEMMA CreateRefines ==
  ASSUME IInv, LInv, NEW m \in Sizes \ {0}, NEW i \in Sizes, Create(m, i),
         NEW p \in PoolId
  PROVE  [Abstract(p)!Next]_(Abstract(p)!vars)
<1>1. TypeOK /\ call' = call
  BY DEF IInv, Create
<1>2. CASE UNCHANGED <<created, pool>>
  BY <1>1, <1>2, Stutters DEF SamePool
<1>3. CASE /\ nextId \in PoolId /\ created' = created \cup {nextId}
           /\ pool' = [pool EXCEPT ![nextId] = FreshPool(TRUE, m, i)]
  <2>1. CASE p # nextId
    <3>1. SamePool(p)
      BY <1>1, <1>3, <2>1 DEF SamePool, TypeOK
    <3> QED
      BY <1>1, <3>1, Stutters
  <2>2. CASE p = nextId
    <3>1. p \notin created /\ p \in created'
      BY <1>1, <1>3, <2>2 DEF IInv, Placed, TypeOK
    <3>2. pool'[p] = FreshPool(TRUE, m, i)
      BY <1>1, <1>3, <2>2 DEF TypeOK
    <3>3. pool[p].idle = <<>> /\ pool[p].inUse = {} /\ pool[p].nextToken = 1
      BY <3>1 DEF LInv, Untouched
    <3>4. Outcome(p)' = Outcome(p) /\ Lease(p)' = Lease(p)
      BY <1>1, OutcomeIs
    <3>5. Abstract(p)!Create
      BY <3>1, <3>2, <3>3, <3>4 DEF Abstract!Create, FreshPool
    <3> QED
      BY <3>5 DEF Abstract!Next
  <2> QED
    BY <2>1, <2>2
<1> QED
  BY <1>2, <1>3 DEF Create

\* A call whose record becomes r leaves the pools it does not name alone.
LEMMA OtherPools ==
  ASSUME TypeOK, LInv, NEW c \in Calls, NEW CONSTANT r, call' = [call EXCEPT ![c] = r],
         NEW CONSTANT q, r.pool = q,
         call[c].at = "new" \/ call[c].pool = q,
         NEW p \in PoolId, p # q, SamePool(p)
  PROVE  UNCHANGED Abstract(p)!vars
<1>1. call'[c] = r /\ \A d \in Calls : d # c => call'[d] = call[d]
  BY DEF TypeOK
<1>2. OutcomeOf(call[c], p) = "none" /\ LeaseOf(call[c], p) = 0
  BY DEF OutcomeOf, LeaseOf, LInv, Fresh, Early, Blocked
<1>3. OutcomeOf(r, p) = "none" /\ LeaseOf(r, p) = 0
  BY DEF OutcomeOf, LeaseOf
<1> QED
  BY <1>1, <1>2, <1>3, Stutters

LEMMA GrantRefines ==
  ASSUME IInv, LInv, NEW c \in Calls,
         WaiterTakes(c) \/ \E q \in PoolId : AcquireNow(c, q),
         NEW p \in PoolId
  PROVE  [Abstract(p)!Next]_(Abstract(p)!vars)
<1> DEFINE Granted(q, r, u) ==
             /\ call[c].at = "new" \/ (call[c].at = "ready" /\ call[c].pool = q)
             /\ Grantable(pool[q]) /\ created' = created
             /\ call' = [call EXCEPT ![c] = r]
             /\ r.at \in {"done", "resolving"} /\ r.pool = q /\ r.result = "ok"
             /\ r.token = TokenOf(pool[q]) /\ r.held
             /\ pool' = [pool EXCEPT ![q] = u]
             /\ u.open /\ u.maxSize = pool[q].maxSize /\ u.maxIdle = pool[q].maxIdle
             /\ u.idle = Take(pool[q]).idle /\ u.nextToken = Take(pool[q]).nextToken
             /\ u.inUse = pool[q].inUse \cup {TokenOf(pool[q])}
<1>1. \E q \in created : \E r, u : Granted(q, r, u)
  BY GrantIs
<1> PICK q \in created : \E r, u : Granted(q, r, u)
  BY <1>1
<1> PICK r, u : Granted(q, r, u)
  OBVIOUS
<1>2. TypeOK /\ q \in PoolId /\ pool[q] \in PoolStates
  BY DEF IInv, TypeOK
<1> HIDE DEF Granted
<1>a. /\ call[c].at = "new" \/ (call[c].at = "ready" /\ call[c].pool = q)
      /\ call' = [call EXCEPT ![c] = r]
      /\ r.at \in {"done", "resolving"} /\ r.pool = q /\ r.result = "ok"
      /\ r.token = TokenOf(pool[q])
  BY DEF Granted
<1>b. /\ Grantable(pool[q]) /\ created' = created
      /\ pool' = [pool EXCEPT ![q] = u]
      /\ u.open /\ u.maxSize = pool[q].maxSize /\ u.maxIdle = pool[q].maxIdle
      /\ u.idle = Take(pool[q]).idle /\ u.nextToken = Take(pool[q]).nextToken
      /\ u.inUse = pool[q].inUse \cup {TokenOf(pool[q])}
  BY DEF Granted
<1>3. CASE p # q
  <2>1. SamePool(p)
    BY <1>2, <1>3, <1>b DEF SamePool, TypeOK
  <2> QED
    BY <1>2, <1>3, <1>a, <2>1, OtherPools
<1>4. CASE p = q
  <2>1. /\ Outcome(p)' = [Outcome(p) EXCEPT ![c] = OutcomeOf(r, p)]
        /\ Lease(p)' = [Lease(p) EXCEPT ![c] = LeaseOf(r, p)]
        /\ Outcome(p)[c] = OutcomeOf(call[c], p) /\ Lease(p)[c] = LeaseOf(call[c], p)
    <3>1. call' = [call EXCEPT ![c] = r] /\ TypeOK
      BY <1>2, <1>a
    <3> QED
      BY <3>1, OneCall
  <2>2. OutcomeOf(r, p) = "ok" /\ LeaseOf(r, p) = TokenOf(pool[p])
    BY <1>4, <1>a DEF OutcomeOf, LeaseOf, Blocked
  <2>3. Outcome(p)[c] \in {"none", "waiting"}
    BY <1>4, <1>a, <2>1 DEF OutcomeOf, LInv, Fresh, Early, Blocked
  <2>4. pool'[p] = u
    BY <1>2, <1>4, <1>b DEF TypeOK
  <2>5. Lease(p)'[c] = TokenOf(pool[p])
    BY <2>1, <2>2 DEF Lease
  <2>6. CASE pool[p].idle # <<>>
    <3>1. /\ u.idle = SubSeq(pool[p].idle, 1, Len(pool[p].idle) - 1)
          /\ u.nextToken = pool[p].nextToken
          /\ TokenOf(pool[p]) = pool[p].idle[Len(pool[p].idle)]
      BY <1>2, <1>4, <1>b, <2>6 DEF Take, TokenOf, PoolStates
    <3>2. Abstract(p)!Grant(c)
      BY <1>4, <1>b, <2>1, <2>2, <2>3, <2>4, <2>5, <2>6, <3>1
         DEF Abstract!Grant, Grantable
    <3> QED
      BY <3>2 DEF Abstract!Next
  <2>7. CASE pool[p].idle = <<>>
    <3>1. /\ u.idle = pool[p].idle
          /\ u.nextToken = pool[p].nextToken + 1
          /\ TokenOf(pool[p]) = pool[p].nextToken
          /\ Cardinality(pool[p].inUse) < pool[p].maxSize
      BY <1>2, <1>4, <1>b, <2>7 DEF Take, TokenOf, PoolStates, Grantable, SlotFree
    <3>2. /\ pool'[p].idle = pool[p].idle /\ pool'[p].nextToken = pool[p].nextToken + 1
          /\ pool'[p].inUse = pool[p].inUse \cup {Lease(p)'[c]}
          /\ pool'[p].open /\ pool[p].open /\ p \in created /\ p \in created'
          /\ pool'[p].maxSize = pool[p].maxSize /\ pool'[p].maxIdle = pool[p].maxIdle
      BY <1>4, <1>b, <2>4, <2>5, <3>1 DEF Grantable
    <3>3. /\ Lease(p)' = [Lease(p) EXCEPT ![c] = pool[p].nextToken]
          /\ Outcome(p)' = [Outcome(p) EXCEPT ![c] = "ok"]
      BY <2>1, <2>2, <3>1
    <3>4. Abstract(p)!Grant(c)
      BY <2>3, <2>7, <3>1, <3>2, <3>3, CardinalityIs DEF Abstract!Grant
    <3> QED
      BY <3>4 DEF Abstract!Next
  <2> QED
    BY <2>6, <2>7
<1> QED
  BY <1>3, <1>4

\* The steps of a call that settle it without a slot, start its wait or end it.
LEMMA SettleRefines ==
  ASSUME IInv, LInv, NoLostWakeup, NEW c \in Calls,
         \/ \E q \in PoolId : AcquireRefused(c, q) \/ Register(c, q)
         \/ SpawnFails(c) \/ WaiterFindsClosed(c) \/ Expires(c),
         NEW p \in PoolId \ Starved
  PROVE  [Abstract(p)!Next]_(Abstract(p)!vars)
<1>1. TypeOK /\ call[c] \in CallStates /\ SamePool(p)
  BY PoolsKept DEF IInv, TypeOK, SamePool, SpawnStep, SleeperStep
<1> DEFINE Heard == {"registered", "ready", "asleep"}
           Settles(q, r) ==
             /\ call' = [call EXCEPT ![c] = r] /\ r.pool = q /\ r.token = call[c].token
             /\ call[c].at = "new" \/ (call[c].at \in Heard /\ call[c].pool = q)
             /\ \/ /\ r.at \notin Blocked /\ r.result = "closed"
                   /\ q \in created /\ ~pool[q].open
                \/ /\ call[c].at = "new"
                   /\ r.at \notin Blocked /\ r.result = "invalid"
                \/ /\ call[c].at \in Heard
                   /\ r.at \notin Blocked /\ r.result = "other"
                \/ /\ call[c].at = "new" /\ q \in created
                   /\ pool[q].open /\ ~SlotFree(pool[q]) /\ r.at \in Heard
                \/ /\ call[c].at \in Heard /\ q \in created
                   /\ q \notin Starved => pool[q].open /\ ~SlotFree(pool[q])
                   /\ r.at = "expired"
<1>2. \E q, r : Settles(q, r)
  <2>1. CASE \E q \in PoolId : AcquireRefused(c, q)
    <3> PICK q \in PoolId : AcquireRefused(c, q)
      BY <2>1
    <3> PICK x \in {"closed", "invalid"} :
          /\ call' = [call EXCEPT ![c] = [@ EXCEPT !.at = "done", !.pool = q, !.result = x]]
          /\ call[c].at = "new" /\ (x = "closed" => q \in created /\ ~pool[q].open)
      BY DEF AcquireRefused, Done
    <3> DEFINE r == [call[c] EXCEPT !.at = "done", !.pool = q, !.result = x]
    <3>1. r.at \notin Blocked /\ r.result = x /\ r.pool = q /\ r.token = call[c].token
      BY <1>1 DEF CallStates, Blocked
    <3>2. call' = [call EXCEPT ![c] = r]
      OBVIOUS
    <3> HIDE DEF r
    <3>3. Settles(q, r)
      BY <3>1, <3>2
    <3> QED
      BY <3>3
  <2>2. CASE \E q \in PoolId : Register(c, q)
    <3> PICK q \in PoolId : Register(c, q)
      BY <2>2
    <3> DEFINE r == [call[c] EXCEPT !.at = "registered", !.pool = q]
    <3>1. r.at \in Heard /\ r.pool = q /\ r.token = call[c].token
      BY <1>1 DEF CallStates
    <3>2. /\ call' = [call EXCEPT ![c] = r] /\ call[c].at = "new"
          /\ q \in created /\ pool[q].open /\ ~SlotFree(pool[q])
      BY DEF Register
    <3> HIDE DEF r
    <3>3. Settles(q, r)
      BY <3>1, <3>2
    <3> QED
      BY <3>3
  <2>3. CASE WaiterFindsClosed(c)
    <3> PICK q : q = call[c].pool
      OBVIOUS
    <3> DEFINE r == [call[c] EXCEPT !.at = "resolving", !.result = "closed"]
    <3>1. r.at \notin Blocked /\ r.pool = q /\ r.token = call[c].token /\ r.result = "closed"
      BY <1>1 DEF CallStates, Blocked
    <3>2. /\ call' = [call EXCEPT ![c] = r] /\ call[c].at \in Heard
          /\ q \in created /\ ~pool[q].open
      BY <2>3 DEF WaiterFindsClosed, Blocked, IInv, Placed
    <3> HIDE DEF r
    <3>3. Settles(q, r)
      BY <3>1, <3>2
    <3> QED
      BY <3>3
  <2>4. CASE Expires(c)
    <3> PICK q : q = call[c].pool
      OBVIOUS
    <3> DEFINE r == [call[c] EXCEPT !.at = "expired"]
    <3>1. r.at = "expired" /\ r.pool = q /\ r.token = call[c].token
      BY <1>1 DEF CallStates
    <3>2. call' = [call EXCEPT ![c] = r] /\ call[c].at = "asleep"
      BY <2>4 DEF Expires, TimesOut
    <3>3. /\ q \in created /\ call[c].at \in Heard
          /\ q \notin Starved => pool[q].open /\ ~SlotFree(pool[q])
      BY <3>2 DEF Blocked, IInv, Placed, NoLostWakeup
    <3> HIDE DEF r
    <3>4. Settles(q, r)
      BY <3>1, <3>2, <3>3
    <3> QED
      BY <3>4
  <2>5. CASE SpawnFails(c)
    <3> PICK q : q = call[c].pool
      OBVIOUS
    <3> DEFINE r == [call[c] EXCEPT !.at = "done", !.pool = q, !.result = "other"]
    <3>1. r.at \notin Blocked /\ r.pool = q /\ r.token = call[c].token /\ r.result = "other"
      BY <1>1 DEF CallStates, Blocked
    <3>2. call' = [call EXCEPT ![c] = r] /\ call[c].at \in Heard
      BY <2>5 DEF SpawnFails, Done
    <3> HIDE DEF r
    <3>3. Settles(q, r)
      BY <3>1, <3>2
    <3> QED
      BY <3>3
  <2> QED
    BY <2>1, <2>2, <2>3, <2>4, <2>5
<1> PICK q, r : Settles(q, r)
  BY <1>2
<1>3. CASE p # q
  BY <1>1, <1>3, OtherPools
<1>4. CASE p = q
  <2>1. /\ Outcome(p)' = [Outcome(p) EXCEPT ![c] = OutcomeOf(r, p)]
        /\ Lease(p)' = [Lease(p) EXCEPT ![c] = LeaseOf(r, p)]
        /\ Outcome(p)[c] = OutcomeOf(call[c], p) /\ Lease(p)[c] = LeaseOf(call[c], p)
    BY <1>1, OneCall
  <2>2. call[c].token = 0 /\ call[c].result = "none"
    BY DEF LInv, Fresh, Early, Blocked
  <2>3. Lease(p)' = Lease(p)
    <3>1. LeaseOf(r, p) = 0 /\ Lease(p)[c] = 0
      BY <2>1, <2>2 DEF LeaseOf
    <3> QED
      BY <2>1, <3>1 DEF Lease
  <2>4. /\ call[c].at = "new" => Outcome(p)[c] = "none"
        /\ call[c].at \in Heard => Outcome(p)[c] = "waiting"
        /\ r.at \in Heard => OutcomeOf(r, p) = "waiting"
        /\ r.at = "expired" => OutcomeOf(r, p) = "timeout"
        /\ r.at \notin Blocked => OutcomeOf(r, p) = r.result
    BY <1>4, <2>1, <2>2 DEF OutcomeOf, Blocked
  <2>5. \/ Abstract(p)!Refuse(c) \/ Abstract(p)!Wait(c) \/ Abstract(p)!TimeOut(c)
    <3>1. /\ Outcome(p)' = [Outcome(p) EXCEPT ![c] = OutcomeOf(r, p)]
          /\ Lease(p)' = Lease(p) /\ SamePool(p)
      BY <1>1, <2>1, <2>3
    <3>2. CASE r.at \notin Blocked /\ r.result = "closed" /\ p \in created /\ ~pool[p].open
      <4>1. Outcome(p)[c] \in {"none", "waiting"} /\ OutcomeOf(r, p) = "closed"
        BY <2>4, <3>2
      <4> QED
        BY <3>1, <3>2, <4>1 DEF Abstract!Refuse, SamePool
    <3>3. CASE call[c].at = "new" /\ r.at \notin Blocked /\ r.result = "invalid"
      <4>1. Outcome(p)[c] = "none" /\ OutcomeOf(r, p) = "invalid"
        BY <2>4, <3>3
      <4> QED
        BY <3>1, <4>1 DEF Abstract!Refuse, SamePool
    <3>4. CASE /\ call[c].at = "new" /\ p \in created
               /\ pool[p].open /\ ~SlotFree(pool[p]) /\ r.at \in Heard
      <4>1. Outcome(p)[c] = "none" /\ OutcomeOf(r, p) = "waiting"
        BY <2>4, <3>4
      <4> QED
        BY <3>1, <3>4, <4>1, CardinalityIs
           DEF Abstract!Wait, Abstract!SlotFree, SlotFree, SamePool
    <3>6. CASE call[c].at \in Heard /\ r.at \notin Blocked /\ r.result = "other"
      <4>1. Outcome(p)[c] = "waiting" /\ OutcomeOf(r, p) = "other"
        BY <2>4, <3>6
      <4> QED
        BY <3>1, <4>1 DEF Abstract!Refuse, SamePool
    <3>5. CASE /\ call[c].at \in Heard /\ p \in created
               /\ pool[p].open /\ ~SlotFree(pool[p]) /\ r.at = "expired"
      <4>1. Outcome(p)[c] = "waiting" /\ OutcomeOf(r, p) = "timeout"
        BY <2>4, <3>5
      <4> QED
        BY <3>1, <3>5, <4>1, CardinalityIs
           DEF Abstract!TimeOut, Abstract!SlotFree, SlotFree, SamePool
    <3> QED
      BY <1>4, <3>2, <3>3, <3>4, <3>5, <3>6
  <2> QED
    BY <2>5 DEF Abstract!Next
<1> QED
  BY <1>3, <1>4

\* Where a call is inside its wait, or once its deadline has passed, is not seen.
LEMMA MoveRefines ==
  ASSUME IInv, LInv, NEW c \in Calls,
         \/ SpawnWaiter(c) \/ WaiterSleeps(c) \/ SpuriousWakeup(c) \/ CancelActs(c)
         \/ WaiterTimesOut(c) \/ Resolve(c) \/ Cancel(c) \/ DieAsleep(c),
         NEW p \in PoolId
  PROVE  UNCHANGED Abstract(p)!vars
<1>1. TypeOK /\ call[c] \in CallStates /\ SamePool(p)
  BY PoolsKept DEF IInv, TypeOK, SamePool, SpawnStep, SleeperStep
<1> DEFINE Heard == Blocked \ {"expired"}
           Alike(r) ==
             /\ r.pool = call[c].pool /\ r.token = call[c].token
             /\ \/ r.at = call[c].at /\ r.result = call[c].result
                \/ r.at \in Heard /\ call[c].at \in Heard
                \/ r.at = "done" /\ call[c].at = "resolving" /\ r.result = call[c].result
                \/ r.at = "resolving" /\ call[c].at = "expired" /\ r.result = "timeout"
<1>2. \E r : call' = [call EXCEPT ![c] = r] /\ Alike(r)
  <2>1. CASE Cancel(c)
    <3> DEFINE r == [call[c] EXCEPT !.cancelled = TRUE]
    <3>1. Alike(r)
      BY <1>1 DEF CallStates
    <3>2. call' = [call EXCEPT ![c] = r]
      BY <2>1 DEF Cancel
    <3> QED
      BY <3>1, <3>2
  <2>2. CASE WaiterTimesOut(c)
    <3> DEFINE r == [call[c] EXCEPT !.at = "resolving", !.result = "timeout"]
    <3>1. Alike(r)
      BY <1>1, <2>2 DEF CallStates, WaiterTimesOut
    <3>2. call' = [call EXCEPT ![c] = r]
      BY <2>2 DEF WaiterTimesOut, TimedOut
    <3> QED
      BY <3>1, <3>2
  <2>3. CASE ~Cancel(c) /\ ~WaiterTimesOut(c)
    <3> PICK x \in {"ready", "asleep", "dying", "dead", "done"} :
          /\ call' = [call EXCEPT ![c] = [@ EXCEPT !.at = x]]
          /\ x # "done" => call[c].at \in Heard
          /\ x = "done" => call[c].at = "resolving"
      BY <2>3 DEF SpawnWaiter, WaiterSleeps, SpuriousWakeup, CancelActs, Resolve,
                  DieAsleep, Blocked
    <3> DEFINE r == [call[c] EXCEPT !.at = x]
    <3>1. Alike(r)
      BY <1>1 DEF CallStates, Blocked
    <3>2. call' = [call EXCEPT ![c] = r]
      OBVIOUS
    <3> QED
      BY <3>1, <3>2
  <2> QED
    BY <2>1, <2>2, <2>3
<1> PICK r : call' = [call EXCEPT ![c] = r] /\ Alike(r)
  BY <1>2
<1>3. call'[c] = r /\ \A d \in Calls : d # c => call'[d] = call[d]
  BY <1>1 DEF TypeOK
<1>4. OutcomeOf(r, p) = OutcomeOf(call[c], p) /\ LeaseOf(r, p) = LeaseOf(call[c], p)
  BY DEF OutcomeOf, LeaseOf, Blocked
<1> QED
  BY <1>1, <1>3, <1>4, Stutters

\* Neither a release nor a close changes the outcome or the token of a call.
LEMMA ReleaseCloseRefines ==
  ASSUME IInv, NEW q \in PoolId,
         (\E t \in pool[q].inUse : ReleaseStep(q, t)) \/ Close(q),
         NEW p \in PoolId \ Starved
  PROVE  [Abstract(p)!Next]_(Abstract(p)!vars)
<1>1. TypeOK /\ pool[q] \in PoolStates
  BY DEF IInv, TypeOK
<1>2. CASE \E t \in pool[q].inUse : Release(q, t)
  <2> PICK t \in pool[q].inUse : Release(q, t)
    BY <1>2
  <2>1. \A c \in Calls : /\ OutcomeOf(call'[c], p) = OutcomeOf(call[c], p)
                         /\ LeaseOf(call'[c], p) = LeaseOf(call[c], p)
    <3> TAKE c \in Calls
    <3>1. /\ Woken[c] \in CallStates
          /\ Woken[c].pool = call[c].pool /\ Woken[c].token = call[c].token
          /\ Woken[c].result = call[c].result
          /\ Woken[c].at \in Blocked <=> call[c].at \in Blocked
          /\ Woken[c].at = "expired" <=> call[c].at = "expired"
      BY <1>1, WokenSame
    <3>2. /\ call'[c].pool = Woken[c].pool /\ call'[c].token = Woken[c].token
          /\ call'[c].result = Woken[c].result /\ call'[c].at = Woken[c].at
      BY <3>1 DEF Release, Unhold, CallStates
    <3> QED
      BY <3>1, <3>2 DEF OutcomeOf, LeaseOf
  <2>2. created' = created /\ pool' = [pool EXCEPT ![q] = GivenBack(pool[q], t)]
    BY DEF Release
  <2>3. CASE p # q
    <3>1. SamePool(p)
      BY <1>1, <2>2, <2>3 DEF SamePool, TypeOK
    <3> QED
      BY <2>1, <3>1, Stutters
  <2>4. CASE p = q
    <3>1. Outcome(p)' = Outcome(p) /\ Lease(p)' = Lease(p)
      BY <2>1, OutcomeIs
    <3>2. pool'[p] = GivenBack(pool[p], t) /\ t \in pool[p].inUse
          /\ p \in created /\ p \in created' /\ pool[p].open
      BY <1>1, <2>2, <2>4 DEF TypeOK, Release, Releasable
    <3>3. /\ pool'[p].open /\ pool'[p].maxSize = pool[p].maxSize
          /\ pool'[p].maxIdle = pool[p].maxIdle /\ pool'[p].nextToken = pool[p].nextToken
          /\ pool'[p].inUse = pool[p].inUse \ {t}
          /\ pool'[p].idle = IF Len(pool[p].idle) < pool[p].maxIdle
                             THEN Append(pool[p].idle, t) ELSE pool[p].idle
      BY <1>1, <2>4, <3>2 DEF GivenBack, Deposit, PoolStates
    <3>4. Abstract(p)!Release(t)
      BY <3>1, <3>2, <3>3 DEF Abstract!Release
    <3> QED
      BY <3>2, <3>4 DEF Abstract!Next
  <2> QED
    BY <2>3, <2>4
<1>3. CASE Close(q)
  <2>1. \A c \in Calls : /\ OutcomeOf(call'[c], p) = OutcomeOf(call[c], p)
                         /\ LeaseOf(call'[c], p) = LeaseOf(call[c], p)
    BY <1>1, <1>3, WokenSame DEF Close, OutcomeOf, LeaseOf
  <2>2. created' = created /\ pool' = [pool EXCEPT ![q] = Closed(pool[q])]
    BY <1>3 DEF Close
  <2>3. CASE p # q
    <3>1. SamePool(p)
      BY <1>1, <2>2, <2>3 DEF SamePool, TypeOK
    <3> QED
      BY <2>1, <3>1, Stutters
  <2>4. CASE p = q
    <3>1. Outcome(p)' = Outcome(p) /\ Lease(p)' = Lease(p)
      BY <2>1, OutcomeIs
    <3>2. pool'[p] = Closed(pool[p]) /\ p \in created /\ p \in created' /\ pool[p].open
      BY <1>1, <1>3, <2>2, <2>4 DEF TypeOK, Close
    <3>3. /\ ~pool'[p].open /\ pool'[p].maxSize = pool[p].maxSize
          /\ pool'[p].maxIdle = pool[p].maxIdle /\ pool'[p].nextToken = pool[p].nextToken
          /\ pool'[p].inUse = {} /\ pool'[p].idle = <<>>
      BY <1>1, <2>4, <3>2 DEF Closed, PoolStates
    <3>4. Abstract(p)!Close
      BY <3>1, <3>2, <3>3 DEF Abstract!Close
    <3> QED
      BY <3>4 DEF Abstract!Next
  <2> QED
    BY <2>3, <2>4
<1>4. CASE \E t \in pool[q].inUse : ReleaseOutOfMemory(q, t)
  <2> PICK t \in pool[q].inUse : ReleaseOutOfMemory(q, t)
    BY <1>4
  <2>1. \A c \in Calls : /\ OutcomeOf(call'[c], p) = OutcomeOf(call[c], p)
                         /\ LeaseOf(call'[c], p) = LeaseOf(call[c], p)
    BY <1>1 DEF ReleaseOutOfMemory, Unhold, OutcomeOf, LeaseOf, TypeOK, CallStates
  <2>2. SamePool(p)
    BY <1>1 DEF ReleaseOutOfMemory, SamePool, TypeOK
  <2> QED
    BY <2>1, <2>2, Stutters
<1> QED
  BY <1>2, <1>3, <1>4 DEF ReleaseStep

LEMMA NextRefines ==
  ASSUME IInv, LInv, NoLostWakeup, [Next]_vars, NEW p \in PoolId \ Starved
  PROVE  [Abstract(p)!Next]_(Abstract(p)!vars)
<1>1. CASE \E m \in Sizes \ {0}, i \in Sizes : Create(m, i)
  BY <1>1, CreateRefines
<1>2. CASE \E c \in Calls, q \in PoolId : AcquireStep(c, q)
  BY <1>2, SettleRefines, GrantRefines DEF AcquireStep
<1>3. CASE \E c \in Calls : SpawnStep(c) \/ WaiterChecks(c) \/ SleeperStep(c)
                            \/ WaiterTimesOut(c) \/ DieAsleep(c)
                            \/ Resolve(c) \/ Cancel(c)
  BY <1>3, MoveRefines, SettleRefines, GrantRefines DEF SpawnStep, SleeperStep, WaiterChecks
<1>4. CASE \E q \in PoolId : (\E t \in pool[q].inUse : ReleaseStep(q, t)) \/ Close(q)
  BY <1>4, ReleaseCloseRefines
<1>5. CASE UNCHANGED vars
  <2>1. SamePool(p) /\ call' = call
    BY <1>5 DEF vars, SamePool
  <2> QED
    BY <2>1, Stutters
<1> QED
  BY <1>1, <1>2, <1>3, <1>4, <1>5 DEF Next

\* Every pool of the table whose idle queue never fails to grow implements the
\* abstract waiting semaphore: a lease is granted only from a free slot, "closed"
\* comes only from a closed pool, and a deadline passes only while the pool is
\* open and full, though "timeout" is reported when the thread has the mutex.
THEOREM PoolsImplement == Spec => ImplementsPool
<1>1. IInv /\ LInv /\ NoLostWakeup /\ [Next]_vars =>
        [\A p \in PoolId \ Starved : [Abstract(p)!Next]_(Abstract(p)!vars)]_vars
  BY NextRefines
<1>2. Spec => []NoLostWakeup
  BY NoWakeupIsLost
<1>3. Init => \A p \in PoolId \ Starved : Abstract(p)!Init
  BY InitRefines
<1> QED
  BY <1>1, <1>2, <1>3, LeasesInductive, PTL DEF Spec, ImplementsPool
-----------------------------------------------------------------------------
(***************************************************************************)
(* The hash table in which a pool keeps its tokens in use, for any size,   *)
(* any capacity of at least twice that, and any hash.  Its caller adds a   *)
(* token only below maxSize and only when it is not in use: the last       *)
(* theorem says so of every pool.                                          *)
(***************************************************************************)
\* The values a slot may hold, and the tokens that have a home.
Held == LeaseTokens \cup {Empty, Tombstone}
Homed == LeaseTokens \cup AskedTokens

\* From any home a search visits every slot, and each once.
LEMMA Probes ==
  ASSUME NEW t \in Homed
  PROVE  /\ \A k \in Slots : Probe(t, k) \in Slots
         /\ \A s \in Slots : \E k \in Slots : Probe(t, k) = s
         /\ \A j, k \in Slots : Probe(t, j) = Probe(t, k) => j = k
<1>1. Cap \in Nat /\ Cap >= 4 /\ Home(t) \in 0..(Cap - 1)
  BY TokenTableAssumption DEF Homed
<1>p. PICK h : h = Home(t)
  OBVIOUS
<1>2. h \in 0..(Cap - 1) /\ \A k : Probe(t, k) = IF h + k < Cap THEN h + k ELSE h + k - Cap
  BY <1>1, <1>p DEF Probe
<1>3. \A k \in 0..(Cap - 1) : (IF h + k < Cap THEN h + k ELSE h + k - Cap) \in 0..(Cap - 1)
  BY <1>1, <1>2
<1>4. ASSUME NEW s \in 0..(Cap - 1)
      PROVE  \E k \in 0..(Cap - 1) : (IF h + k < Cap THEN h + k ELSE h + k - Cap) = s
  <2> DEFINE k == IF s >= h THEN s - h ELSE s - h + Cap
  <2>1. k \in 0..(Cap - 1) /\ (IF h + k < Cap THEN h + k ELSE h + k - Cap) = s
    BY <1>1, <1>2
  <2> QED
    BY <2>1
<1>5. ASSUME NEW j \in 0..(Cap - 1), NEW k \in 0..(Cap - 1),
             (IF h + j < Cap THEN h + j ELSE h + j - Cap) = (IF h + k < Cap THEN h + k ELSE h + k - Cap)
      PROVE  j = k
  BY <1>1, <1>2, <1>5
<1>6. \A k \in Slots : Probe(t, k) \in Slots
  BY <1>2, <1>3 DEF Slots
<1>7. \A s \in Slots : \E k \in Slots : Probe(t, k) = s
  BY <1>2, <1>4 DEF Slots
<1>8. \A j, k \in Slots : Probe(t, j) = Probe(t, k) => j = k
  BY <1>2, <1>5 DEF Slots
<1> QED
  BY <1>6, <1>7, <1>8

\* What every search relies on, whatever the length says.
Searchable ==
  /\ table \in [Slots -> Held]
  /\ NoDuplicates
  /\ Reachable

\* A token that is not in the table enters it at the first free slot.
LEMMA AddKeeps ==
  ASSUME Searchable,
         NEW t \in LeaseTokens, NEW k \in Slots, t \notin InUse, AddPlaces(t, k)
  PROVE  /\ Searchable' /\ InUse' = InUse \cup {t}
         /\ len' = len + 1 /\ answer' = TRUE
<1> DEFINE s == Probe(t, k)
<1>1. s \in Slots
  BY Probes DEF Homed
<1>2. LeaseTokens \subseteq Nat \ {0} /\ t # Empty /\ t # Tombstone
  BY TokenTableAssumption DEF Empty, Tombstone
<1>3. \A r \in Slots : table[r] # t
  BY <1>2 DEF InUse
<1>4. /\ table[s] \in {Empty, Tombstone}
      /\ \A j \in 0..(k - 1) : table[Probe(t, j)] \notin {Empty, Tombstone}
  BY <1>1, <1>3 DEF AddPlaces, StopsAt, AddStops
<1>5. table' = [table EXCEPT ![s] = t] /\ len' = len + 1 /\ answer' = TRUE
  BY <1>1, <1>3 DEF AddPlaces
<1> HIDE DEF s
<1>6. /\ table' \in [Slots -> Held] /\ table'[s] = t
      /\ \A r \in Slots : r # s => table'[r] = table[r]
  BY <1>1, <1>5 DEF Searchable, Held
<1>7. NoDuplicates'
  BY <1>3, <1>6 DEF Searchable, NoDuplicates, Slots
<1>8. ASSUME NEW u \in LeaseTokens, NEW l \in Slots, table'[Probe(u, l)] = u,
             NEW j \in 0..(l - 1)
      PROVE  table'[Probe(u, j)] # Empty
  <2>1. l \in Int /\ j \in Int /\ j \in Slots /\ j # l /\ j < l
    BY <1>8, TokenTableAssumption DEF Slots
  <2>2. Probe(u, l) \in Slots /\ Probe(u, j) \in Slots
    BY <2>1, Probes DEF Homed
  <2>3. CASE u = t
    <3>1. Probe(t, l) = s
      BY <1>3, <1>6, <1>8, <2>2, <2>3
    <3>2. l = k
      BY <3>1, Probes DEF Homed, s
    <3>3. table[Probe(t, j)] # Empty
      BY <1>4, <1>8, <3>2
    <3> QED
      BY <1>2, <1>6, <2>2, <2>3, <3>3
  <2>4. CASE u # t
    <3>1. Probe(u, l) # s /\ table[Probe(u, l)] = u
      BY <1>6, <1>8, <2>2, <2>4
    <3>2. table[Probe(u, j)] # Empty
      BY <1>8, <3>1 DEF Searchable, Reachable
    <3> QED
      BY <1>2, <1>6, <2>2, <3>2
  <2> QED
    BY <2>3, <2>4
<1>9. Reachable'
  BY <1>8 DEF Reachable, Slots, Probe, Empty
<1>10. InUse' = InUse \cup {t}
  <2>1. ASSUME NEW v \in InUse' PROVE v \in InUse \cup {t}
    BY <1>6, <2>1 DEF InUse, Slots, Empty, Tombstone
  <2>2. ASSUME NEW v \in InUse PROVE v \in InUse'
    <3>1. PICK r \in Slots : v = table[r] /\ v \notin {Empty, Tombstone}
      BY DEF InUse
    <3>2. r # s
      BY <1>4, <3>1
    <3> QED
      BY <1>6, <3>1, <3>2 DEF InUse, Slots, Empty, Tombstone
  <2>3. t \in InUse'
    BY <1>1, <1>2, <1>6 DEF InUse, Slots, Empty, Tombstone
  <2> QED
    BY <2>1, <2>2, <2>3
<1> QED
  BY <1>5, <1>6, <1>7, <1>9, <1>10 DEF Searchable, Held, Slots, Empty, Tombstone

\* A token that is found leaves a tombstone, which no search stops at.
LEMMA RemoveKeeps ==
  ASSUME Searchable,
         NEW t \in AskedTokens, t # Tombstone,
         NEW k \in Slots, RemoveTakes(t, k)
  PROVE  /\ Searchable' /\ t \in InUse /\ InUse' = InUse \ {t}
         /\ len' = len - 1 /\ answer' = TRUE
<1> DEFINE s == Probe(t, k)
<1>1. s \in Slots
  BY Probes DEF Homed
<1>2. table[s] = t /\ t # Empty /\ t # Tombstone
  BY DEF RemoveTakes, StopsAt, RemoveStops
<1>3. table' = [table EXCEPT ![s] = Tombstone] /\ len' = len - 1 /\ answer' = TRUE
  BY DEF RemoveTakes
<1> HIDE DEF s
<1>4. /\ table' \in [Slots -> Held] /\ table'[s] = Tombstone
      /\ \A r \in Slots : r # s => table'[r] = table[r]
  BY <1>1, <1>3 DEF Searchable, Held
<1>5. Tombstone # Empty
  BY DEF Tombstone, Empty
<1>6. NoDuplicates'
  BY <1>4 DEF Searchable, NoDuplicates, Slots, Tombstone
<1>7. ASSUME NEW u \in LeaseTokens, NEW l \in Slots, table'[Probe(u, l)] = u,
             NEW j \in 0..(l - 1)
      PROVE  table'[Probe(u, j)] # Empty
  <2>1. j \in Slots /\ u # Tombstone
    BY <1>7, TokenTableAssumption DEF Slots, Tombstone
  <2>2. Probe(u, l) \in Slots /\ Probe(u, j) \in Slots
    BY <2>1, Probes DEF Homed
  <2>3. table[Probe(u, l)] = u
    BY <1>4, <1>7, <2>1, <2>2
  <2>4. table[Probe(u, j)] # Empty
    BY <1>7, <2>3 DEF Searchable, Reachable
  <2> QED
    BY <1>4, <1>5, <2>2, <2>4
<1>8. Reachable'
  BY <1>7 DEF Reachable, Slots, Probe, Empty
<1>9. InUse' = InUse \ {t}
  <2>1. ASSUME NEW v \in InUse' PROVE v \in InUse \ {t}
    <3>1. PICK r \in Slots : v = table'[r] /\ v \notin {Empty, Tombstone}
      BY <2>1 DEF InUse, Slots, Empty, Tombstone
    <3>2. r # s /\ v = table[r]
      BY <1>4, <3>1
    <3>3. v # t
      BY <1>1, <1>2, <3>1, <3>2 DEF Searchable, NoDuplicates
    <3> QED
      BY <3>1, <3>2, <3>3 DEF InUse
  <2>2. ASSUME NEW v \in InUse \ {t} PROVE v \in InUse'
    <3>1. PICK r \in Slots : v = table[r] /\ v \notin {Empty, Tombstone}
      BY DEF InUse
    <3>2. r # s
      BY <1>2, <3>1
    <3> QED
      BY <1>4, <3>1, <3>2 DEF InUse, Slots, Empty, Tombstone
  <2> QED
    BY <2>1, <2>2
<1>10. t \in InUse
  BY <1>1, <1>2 DEF InUse
<1> QED
  BY <1>3, <1>4, <1>6, <1>8, <1>9, <1>10 DEF Searchable, Held, Slots, Empty, Tombstone

\* A search that ends without the token is right: no empty slot lies before it.
LEMMA MissIsAbsence ==
  ASSUME Searchable,
         NEW t \in AskedTokens, RemoveMisses(t)
  PROVE  t \notin InUse
<1> SUFFICES ASSUME t \in InUse PROVE FALSE
  OBVIOUS
<1>1. PICK s \in Slots : table[s] = t /\ t # Empty /\ t # Tombstone
  BY DEF InUse
<1>2. t \in LeaseTokens
  BY <1>1 DEF Searchable, Held
<1>3. PICK k \in Slots : Probe(t, k) = s
  BY Probes DEF Homed
<1>4. CASE NeverStops(t, RemoveStops(t))
  BY <1>1, <1>3, <1>4 DEF NeverStops, RemoveStops
<1>5. ASSUME NEW j \in Slots, StopsAt(t, RemoveStops(t), j),
             table[Probe(t, j)] = Empty
      PROVE  FALSE
  <2>1. j \in Int /\ k \in Int /\ j >= 0 /\ k >= 0
    BY DEF Slots
  <2>2. CASE j = k
    BY <1>1, <1>3, <1>5, <2>2
  <2>3. CASE j < k
    <3>1. j \in 0..(k - 1)
      BY <2>1, <2>3
    <3> QED
      BY <1>1, <1>2, <1>3, <1>5, <3>1 DEF Searchable, Reachable
  <2>4. CASE k < j
    <3>1. k \in 0..(j - 1)
      BY <2>1, <2>4
    <3> QED
      BY <1>1, <1>3, <1>5, <3>1 DEF StopsAt, RemoveStops
  <2> QED
    BY <2>1, <2>2, <2>3, <2>4
<1> QED
  BY <1>4, <1>5 DEF RemoveMisses

LEMMA InUseFinite ==
  ASSUME Searchable
  PROVE  IsFiniteSet(InUse) /\ Cardinality(InUse) \in Nat
<1>1. IsFiniteSet(Slots)
  BY FS_Interval, TokenTableAssumption DEF Slots
<1> DEFINE all == {table[s] : s \in Slots}
<1>2. table \in Surjection(Slots, all)
  BY DEF Surjection, Searchable
<1>3. IsFiniteSet(all)
  BY <1>1, <1>2, FS_Surjection
<1>4. InUse \subseteq all
  BY DEF InUse
<1> QED
  BY <1>3, <1>4, FS_Subset, FS_CardinalityType

\* Fewer tokens than half the slots leave a slot for one more.
LEMMA RoomForOne ==
  ASSUME Searchable, NEW t \in LeaseTokens,
         Cardinality(InUse) < MaxSize
  PROVE  ~NeverStops(t, AddStops(t))
<1> SUFFICES ASSUME NeverStops(t, AddStops(t)) PROVE FALSE
  OBVIOUS
<1>1. \A s \in Slots : table[s] \in InUse
  <2> SUFFICES ASSUME NEW s \in Slots PROVE table[s] \in InUse
    OBVIOUS
  <2>1. PICK k \in Slots : Probe(t, k) = s
    BY Probes DEF Homed
  <2> QED
    BY <2>1 DEF NeverStops, AddStops, InUse
<1>2. Cap \in Nat /\ MaxSize \in Nat \ {0} /\ Cap >= 2 * MaxSize
  BY TokenTableAssumption
<1>3. IsFiniteSet(InUse) /\ Cardinality(InUse) \in Nat
  BY InUseFinite
<1>6. IsFiniteSet(Slots) /\ Cardinality(Slots) = Cap
  BY <1>2, FS_Interval DEF Slots
<1>4. table \in Injection(Slots, InUse)
  BY <1>1 DEF Injection, IsInjective, Searchable, NoDuplicates, InUse
<1>5. Cardinality(Slots) <= Cardinality(InUse)
  BY <1>3, <1>4, FS_Injection
<1> QED
  BY <1>2, <1>3, <1>5, <1>6

\* The inductive invariant.  The length is counted right as long as nobody
\* asks for the value of a tombstone.
LengthCounted == len = Cardinality(InUse) /\ len <= MaxSize
TableInv ==
  /\ Searchable /\ answer \in BOOLEAN
  /\ Tombstone \notin AskedTokens => LengthCounted

LEMMA TableStarted == ASSUME TableInit PROVE TableInv
<1>1. \A s \in Slots : table[s] = Empty
  BY DEF TableInit
<1>2. \A t \in LeaseTokens : t # Empty
  BY TokenTableAssumption DEF Empty
<1>3. Searchable
  <2>1. table \in [Slots -> Held] /\ NoDuplicates
    BY <1>1 DEF TableInit, Held, NoDuplicates
  <2>2. Reachable
    BY <1>1, <1>2, Probes DEF Reachable, Homed
  <2> QED
    BY <2>1, <2>2 DEF Searchable
<1>4. InUse = {}
  BY <1>1 DEF InUse
<1> QED
  BY <1>3, <1>4, FS_EmptySet, TokenTableAssumption DEF TableInv, LengthCounted, TableInit

\* What a step does to the table and what it answers, in terms of the set.
LEMMA TableSteps ==
  ASSUME TableInv, TableNext
  PROVE  /\ Searchable'
         /\ \/ \E t \in LeaseTokens :
                  /\ t \notin InUse /\ Cardinality(InUse) < MaxSize
                  /\ InUse' = InUse \cup {t} /\ len' = len + 1 /\ answer' = TRUE
            \/ \E t \in AskedTokens :
                  /\ t # Tombstone /\ t \in InUse
                  /\ InUse' = InUse \ {t} /\ len' = len - 1 /\ answer' = TRUE
            \/ \E t \in AskedTokens :
                  /\ t \notin InUse
                  /\ InUse' = InUse /\ len' = len /\ answer' = FALSE
            \/ InUse' = {} /\ len' = 0 /\ answer' = TRUE
            \/ Tombstone \in AskedTokens /\ answer' = TRUE
<1>0. Searchable
  BY DEF TableInv
<1>1. ASSUME NEW t \in LeaseTokens, Add(t)
      PROVE  /\ Searchable' /\ t \notin InUse /\ Cardinality(InUse) < MaxSize
             /\ InUse' = InUse \cup {t} /\ len' = len + 1 /\ answer' = TRUE
  <2>1. t \notin InUse /\ Cardinality(InUse) < MaxSize
    BY <1>1 DEF Add
  <2>2. ~AddFindsFull(t)
    BY <1>0, <2>1, RoomForOne DEF AddFindsFull
  <2>3. PICK k \in Slots : AddPlaces(t, k)
    BY <1>1, <2>2 DEF Add
  <2> QED
    BY <1>0, <2>1, <2>3, AddKeeps
<1>2. ASSUME NEW t \in AskedTokens, t # Tombstone,
             NEW k \in Slots, RemoveTakes(t, k)
      PROVE  /\ Searchable' /\ t \in InUse
             /\ InUse' = InUse \ {t} /\ len' = len - 1 /\ answer' = TRUE
  BY <1>0, <1>2, RemoveKeeps
<1>3. ASSUME NEW t \in AskedTokens, t = Tombstone,
             NEW k \in Slots, RemoveTakes(t, k)
      PROVE  Searchable' /\ answer' = TRUE
  <2>1. table' = table /\ answer' = TRUE
    BY <1>0, <1>3, Probes DEF RemoveTakes, StopsAt, RemoveStops, Searchable, Homed
  <2> QED
    BY <1>0, <2>1 DEF Searchable, Held, NoDuplicates, Reachable, Slots,
       Probe, Empty, Tombstone
<1>4. ASSUME NEW t \in AskedTokens, RemoveMisses(t)
      PROVE  /\ Searchable' /\ t \notin InUse
             /\ InUse' = InUse /\ len' = len /\ answer' = FALSE
  <2>1. table' = table /\ len' = len /\ answer' = FALSE
    BY <1>4 DEF RemoveMisses
  <2>2. t \notin InUse
    BY <1>0, <1>4, MissIsAbsence
  <2> QED
    BY <1>0, <2>1, <2>2 DEF Searchable, Held, NoDuplicates, Reachable, Slots,
       Probe, Empty, Tombstone, InUse
<1>5. ASSUME Clear
      PROVE  Searchable' /\ InUse' = {} /\ len' = 0 /\ answer' = TRUE
  <2>1. table' = [s \in Slots |-> Empty] /\ len' = 0 /\ answer' = TRUE
    BY <1>5 DEF Clear
  <2>2. table' \in [Slots -> Held] /\ NoDuplicates' /\ InUse' = {}
    BY <2>1 DEF Held, NoDuplicates, InUse, Slots, Empty, Tombstone
  <2>3. \A t \in LeaseTokens : t # Empty
    BY TokenTableAssumption DEF Empty
  <2>4. \A t \in LeaseTokens, k \in Slots : table'[Probe(t, k)] = Empty
    BY <2>1, Probes DEF Homed
  <2>5. Reachable'
    BY <2>3, <2>4 DEF Reachable, Slots, Probe, Empty
  <2> QED
    BY <2>1, <2>2, <2>5 DEF Searchable, Held, Slots, Empty, Tombstone
<1>6. CASE \E t \in LeaseTokens : Add(t)
  BY <1>1, <1>6
<1>7. CASE \E t \in AskedTokens : Remove(t)
  BY <1>2, <1>3, <1>4, <1>7 DEF Remove
<1>8. CASE Clear
  BY <1>5, <1>8
<1> QED
  BY <1>6, <1>7, <1>8 DEF TableNext

LEMMA TableKept ==
  ASSUME TableInv, [TableNext]_tableVars
  PROVE  TableInv'
<1>1. CASE TableNext
  <2>1. IsFiniteSet(InUse) /\ Cardinality(InUse) \in Nat
    BY InUseFinite DEF TableInv
  <2>2. Searchable' /\ answer' \in BOOLEAN
    BY <1>1, TableSteps
  <2>3. ASSUME Tombstone \notin AskedTokens PROVE LengthCounted'
    <3>0. MaxSize \in Nat /\ len = Cardinality(InUse) /\ len <= MaxSize
      BY <2>3, TokenTableAssumption DEF TableInv, LengthCounted
    <3>1. ASSUME NEW t, t \notin InUse, Cardinality(InUse) < MaxSize,
                 InUse' = InUse \cup {t}, len' = len + 1
          PROVE  LengthCounted'
      <4>1. Cardinality(InUse \cup {t}) = Cardinality(InUse) + 1
        BY <2>1, <3>1, FS_AddElement
      <4> QED
        BY <2>1, <3>0, <3>1, <4>1 DEF LengthCounted
    <3>2. ASSUME NEW t, t \in InUse, InUse' = InUse \ {t}, len' = len - 1
          PROVE  LengthCounted'
      <4>1. Cardinality(InUse \ {t}) = Cardinality(InUse) - 1
        BY <2>1, <3>2, FS_RemoveElement
      <4> QED
        BY <2>1, <3>0, <3>2, <4>1 DEF LengthCounted
    <3>3. CASE InUse' = InUse /\ len' = len
      BY <3>0, <3>3 DEF LengthCounted
    <3>4. CASE InUse' = {} /\ len' = 0
      BY <3>0, <3>4, FS_EmptySet DEF LengthCounted
    <3> QED
      BY <1>1, <2>3, <3>1, <3>2, <3>3, <3>4, TableSteps
  <2> QED
    BY <2>2, <2>3 DEF TableInv, Tombstone
<1>2. CASE UNCHANGED tableVars
  BY <1>2 DEF TableInv, LengthCounted, Searchable, Held, tableVars, NoDuplicates, Reachable,
     Slots, Probe, Empty, Tombstone, InUse
<1> QED
  BY <1>1, <1>2

LEMMA TableInductive == TableSpec => []TableInv
<1>1. TableInit => TableInv
  BY TableStarted
<1>2. TableInv /\ [TableNext]_tableVars => TableInv'
  BY TableKept
<1> QED
  BY <1>1, <1>2, PTL DEF TableSpec

\* After any adds and removes a token is in one slot, before any empty slot of
\* its probe sequence, so poolRelease finds it; the length keeps its type.
THEOREM TableStaysSound ==
  Tombstone \notin AskedTokens => (TableSpec => []TableSound)
<1> SUFFICES ASSUME Tombstone \notin AskedTokens
             PROVE  TableSpec => []TableSound
  OBVIOUS
<1>1. TableInv => TableSound
  <2> SUFFICES ASSUME TableInv PROVE TableSound
    OBVIOUS
  <2>1. Cardinality(InUse) \in Nat /\ MaxSize \in Nat
    BY InUseFinite, TokenTableAssumption DEF TableInv
  <2>2. len \in 0..MaxSize
    BY <2>1 DEF TableInv, LengthCounted
  <2> QED
    BY <2>2 DEF TableInv, Searchable, Held, TableSound, TableTypeOK
<1> QED
  BY <1>1, TableInductive, PTL

\* The length compared with maxSize is the number of tokens in the table.
THEOREM LengthIsExact ==
  Tombstone \notin AskedTokens => (TableSpec => []LengthExact)
<1> SUFFICES ASSUME Tombstone \notin AskedTokens
             PROVE  TableSpec => []LengthExact
  OBVIOUS
<1>1. TableInv => LengthExact
  BY DEF TableInv, LengthCounted, LengthExact
<1> QED
  BY <1>1, TableInductive, PTL

\* poolAcquire never reports "out of memory" for want of a slot, whatever
\* tombstones have piled up and whatever was released.
THEOREM AddsSucceed ==
  TableSpec => []AddNeverFails
<1>1. TableInv => AddNeverFails
  BY RoomForOne DEF TableInv, AddNeverFails
<1> QED
  BY <1>1, TableInductive, PTL

\* The table answers as the set of the tokens in use would.
THEOREM TableImplements ==
  Tombstone \notin AskedTokens => (TableSpec => ImplementsSet)
<1> SUFFICES ASSUME Tombstone \notin AskedTokens
             PROVE  TableSpec => ImplementsSet
  OBVIOUS
<1>1. TableInit => AsSet!Init
  <2> SUFFICES ASSUME TableInit PROVE AsSet!Init
    OBVIOUS
  <2>1. InUse = {}
    BY DEF TableInit, InUse
  <2> QED
    BY <2>1 DEF TableInit, AsSet!Init
<1>2. TableInv /\ [TableNext]_tableVars => [AsSet!Next]_(AsSet!vars)
  <2> SUFFICES ASSUME TableInv, [TableNext]_tableVars
               PROVE  [AsSet!Next]_(AsSet!vars)
    OBVIOUS
  <2>1. CASE TableNext
    <3>2. ASSUME NEW t \in LeaseTokens, t \notin InUse,
                 InUse' = InUse \cup {t}, len' = len + 1, answer' = TRUE
          PROVE  AsSet!Next
      <4>1. AsSet!Insert(t)
        BY <3>2 DEF AsSet!Insert
      <4> QED
        BY <4>1 DEF AsSet!Next
    <3>3. ASSUME NEW t \in AskedTokens, t \in InUse,
                 InUse' = InUse \ {t}, len' = len - 1, answer' = TRUE
          PROVE  AsSet!Next
      <4>1. AsSet!TakeOut(t)
        BY <3>3 DEF AsSet!TakeOut
      <4> QED
        BY <4>1 DEF AsSet!Next
    <3>4. ASSUME NEW t \in AskedTokens, t \notin InUse,
                 InUse' = InUse, len' = len, answer' = FALSE
          PROVE  AsSet!Next
      <4>0. InUse \ {t} = InUse
        BY <3>4
      <4>3. (t \in InUse) = FALSE
        BY <3>4
      <4>2. answer' = (t \in InUse)
        BY <3>4, <4>3
      <4>1. AsSet!TakeOut(t)
        BY <3>4, <4>0, <4>2 DEF AsSet!TakeOut
      <4> QED
        BY <4>1 DEF AsSet!Next
    <3>5. ASSUME InUse' = {}, len' = 0, answer' = TRUE
          PROVE  AsSet!Next
      BY <3>5 DEF AsSet!Next, AsSet!Forget
    <3>1. AsSet!Next
      BY <2>1, <3>2, <3>3, <3>4, <3>5, TableSteps
    <3> QED
      BY <3>1
  <2>2. CASE UNCHANGED tableVars
    BY <2>2 DEF tableVars, AsSet!vars, InUse, Slots, Empty, Tombstone
  <2> QED
    BY <2>1, <2>2
<1> QED
  BY <1>1, <1>2, TableInductive, PTL DEF TableSpec, ImplementsSet, AsSet!Spec
-----------------------------------------------------------------------------
\* How the pool s may use its table, to reach the set q of tokens in use.
ByContract(s, q) ==
  \/ q = s.inUse \/ q = {}
  \/ \E t \in s.inUse : q = s.inUse \ {t}
  \/ \E t \in Nat \ {0} : /\ t \notin s.inUse /\ Cardinality(s.inUse) < s.maxSize
                          /\ q = s.inUse \cup {t}

LEMMA TakeByContract ==
  ASSUME NEW s \in PoolStates, Sound(s), SlotFree(s)
  PROVE  ByContract(s, Take(s).inUse)
<1>1. Take(s).inUse = s.inUse \cup {TokenOf(s)}
  BY DEF Take, PoolStates
<1>2. /\ Len(s.idle) \in Nat /\ Cardinality(s.inUse) \in Nat /\ s.maxSize \in Nat
      /\ Len(s.idle) + Cardinality(s.inUse) <= s.maxSize
  BY LenProperties, FS_CardinalityType DEF Sound, WithinCapacity, PoolStates
<1>3. CASE s.idle # <<>>
  <2>1. Len(s.idle) > 0
    BY <1>2, <1>3, EmptySeq DEF PoolStates
  <2>2. Len(s.idle) \in 1..Len(s.idle)
    BY <1>2, <2>1
  <2>3. TokenOf(s) \in Nat \ {0} /\ TokenOf(s) \notin s.inUse
    BY <1>3, <2>2 DEF TokenOf, PoolStates, Sound, Apart
  <2>4. Cardinality(s.inUse) < s.maxSize
    BY <1>2, <2>1
  <2> QED
    BY <1>1, <2>3, <2>4 DEF ByContract
<1>4. CASE s.idle = <<>>
  <2>1. TokenOf(s) = s.nextToken /\ Cardinality(s.inUse) < s.maxSize
    BY <1>4 DEF TokenOf, SlotFree
  <2>2. s.nextToken \in Nat \ {0} /\ s.nextToken \notin s.inUse
    BY DEF PoolStates, Sound, Apart
  <2> QED
    BY <1>1, <2>1, <2>2 DEF ByContract
<1> QED
  BY <1>3, <1>4

LEMMA StepByContract ==
  ASSUME IInv, [Next]_vars, NEW p \in created
  PROVE  ByContract(pool[p], pool'[p].inUse)
<1>1. /\ p \in PoolId /\ pool \in [PoolId -> PoolStates] /\ call \in [Calls -> CallStates]
      /\ \A q \in created : pool[q] \in PoolStates /\ Sound(pool[q])
  BY DEF IInv, TypeOK, AllSound
<1>2. CASE pool'[p].inUse = pool[p].inUse
  BY <1>2 DEF ByContract
<1>3. ASSUME NEW m, NEW i, Create(m, i)
      PROVE  ByContract(pool[p], pool'[p].inUse)
  <2>1. pool' = pool \/ pool' = [pool EXCEPT ![nextId] = FreshPool(TRUE, m, i)]
    BY <1>3 DEF Create
  <2>2. pool'[p] = pool[p] \/ pool'[p].inUse = {}
    BY <1>1, <2>1 DEF FreshPool
  <2> QED
    BY <2>2 DEF ByContract
<1>4. ASSUME NEW c \in Calls, NEW q \in PoolId, AcquireNow(c, q)
      PROVE  ByContract(pool[p], pool'[p].inUse)
  <2>1. q \in created /\ SlotFree(pool[q]) /\ pool' = [pool EXCEPT ![q] = Take(pool[q])]
    BY <1>1, <1>4 DEF AcquireNow, Grantable
  <2>2. CASE q = p
    BY <1>1, <2>1, <2>2, TakeByContract
  <2>3. CASE q # p
    BY <1>1, <1>2, <2>1, <2>3
  <2> QED
    BY <2>2, <2>3
<1>5. ASSUME NEW c \in Calls, WaiterTakes(c)
      PROVE  ByContract(pool[p], pool'[p].inUse)
  <2> DEFINE q == call[c].pool
  <2>1. /\ q \in created /\ q \in PoolId
    BY <1>1, <1>5 DEF WaiterTakes, IInv, TypeOK, Placed, Blocked
  <2>2. /\ SlotFree(pool[q])
        /\ pool' = [pool EXCEPT ![q] = [Take(pool[q]) EXCEPT !.waiting = @ - 1]]
    BY <1>5 DEF WaiterTakes, Grantable
  <2> HIDE DEF q
  <2>3. Take(pool[q]) \in PoolStates
    BY <1>1, <2>1, <2>2, TakeSound
  <2>4. CASE q = p
    <3>1. pool'[p].inUse = Take(pool[p]).inUse
      BY <1>1, <2>2, <2>3, <2>4 DEF PoolStates
    <3> QED
      BY <1>1, <2>2, <2>4, <3>1, TakeByContract
  <2>5. CASE q # p
    BY <1>1, <1>2, <2>2, <2>5
  <2> QED
    BY <2>4, <2>5
<1>6. ASSUME NEW c \in Calls,
             \/ \E q \in PoolId : AcquireRefused(c, q) \/ Register(c, q)
             \/ SpawnStep(c) \/ WaiterFindsClosed(c) \/ WaiterSleeps(c) \/ WaiterTimesOut(c)
             \/ SleeperStep(c) \/ Resolve(c) \/ Cancel(c) \/ DieAsleep(c)
      PROVE  ByContract(pool[p], pool'[p].inUse)
  <2>1. \/ pool' = pool
        \/ \E q, k : pool' = [pool EXCEPT ![q].waiting = k]
    BY <1>6 DEF AcquireRefused, Register, SpawnStep, SpawnWaiter, SpawnFails, WaiterFindsClosed,
       WaiterSleeps, WaiterTimesOut, SleeperStep, Expires, TimesOut, SpuriousWakeup, CancelActs, Resolve, Cancel, DieAsleep, LeaveWaiting
  <2>2. CASE pool' = pool
    BY <1>2, <2>2
  <2>3. ASSUME NEW q, NEW k, pool' = [pool EXCEPT ![q].waiting = k]
        PROVE  ByContract(pool[p], pool'[p].inUse)
    <3>1. pool[p] \in PoolStates
      BY <1>1
    <3>2. [pool[p] EXCEPT !.waiting = k].inUse = pool[p].inUse
      BY <3>1 DEF PoolStates
    <3>3. pool'[p] = pool[p] \/ pool'[p] = [pool[p] EXCEPT !.waiting = k]
      BY <1>1, <2>3
    <3> QED
      BY <1>2, <3>2, <3>3
  <2> QED
    BY <2>1, <2>2, <2>3
<1>7. ASSUME NEW q \in PoolId, NEW t \in pool[q].inUse, ReleaseStep(q, t)
      PROVE  ByContract(pool[p], pool'[p].inUse)
  <2>1. \/ pool' = [pool EXCEPT ![q] = GivenBack(pool[q], t)]
        \/ pool' = [pool EXCEPT ![q] = [pool[q] EXCEPT !.inUse = @ \ {t}]]
    BY <1>1, <1>7 DEF ReleaseStep, Release, ReleaseOutOfMemory
  <2>2. CASE q = p
    <3>2. pool[p] \in PoolStates
      BY <1>1
    <3>3. GivenBack(pool[p], t).inUse = pool[p].inUse \ {t}
      BY <3>2 DEF GivenBack, PoolStates
    <3>4. [pool[p] EXCEPT !.inUse = @ \ {t}].inUse = pool[p].inUse \ {t}
      BY <3>2 DEF PoolStates
    <3>5. \/ pool'[p] = GivenBack(pool[p], t)
          \/ pool'[p] = [pool[p] EXCEPT !.inUse = @ \ {t}]
      BY <1>1, <2>1, <2>2
    <3>1. pool'[p].inUse = pool[p].inUse \ {t}
      BY <3>3, <3>4, <3>5
    <3> QED
      BY <2>2, <3>1 DEF ByContract
  <2>3. CASE q # p
    BY <1>1, <1>2, <2>1, <2>3
  <2> QED
    BY <2>2, <2>3
<1>8. ASSUME NEW q \in PoolId, Close(q)
      PROVE  ByContract(pool[p], pool'[p].inUse)
  <2>1. pool' = [pool EXCEPT ![q] = Closed(pool[q])]
    BY <1>1, <1>8 DEF Close
  <2>2. pool'[p] = pool[p] \/ pool'[p].inUse = {}
    BY <1>1, <2>1 DEF Closed, PoolStates
  <2> QED
    BY <2>2 DEF ByContract
<1>9. CASE UNCHANGED vars
  BY <1>2, <1>9 DEF vars
<1> QED
  BY <1>3, <1>4, <1>5, <1>6, <1>7, <1>8, <1>9
     DEF Next, AcquireStep, WaiterChecks

\* Each pool uses its table by contract: it adds a token only when that is not
\* in use and fewer than maxSize are, it removes one that is in use, and it
\* clears the table when it closes.  That is the guard of Add, under which the
\* theorems above hold.
THEOREM PoolsKeepContract ==
  Spec => [][\A p \in created : ByContract(pool[p], pool'[p].inUse)]_vars
<1>1. IInv /\ [Next]_vars =>
        [\A p \in created : ByContract(pool[p], pool'[p].inUse)]_vars
  BY StepByContract
<1> QED
  BY <1>1, Inductive, PTL DEF Spec
=============================================================================
