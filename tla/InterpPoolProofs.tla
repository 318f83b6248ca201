-------------------------- MODULE InterpPoolProofs --------------------------
(***************************************************************************)
(* Proofs about InterpPool, for any finite set of calls, any table size,   *)
(* any configured sizes and stray releases.  The first part is about one   *)
(* pool record and what a step may replace it by; then the inductive       *)
(* invariant of the table and its calls, and the refinement of             *)
(* ResourcePool, which needs no further assumption: a poll is one step     *)
(* under the lock, so a timeout has looked for a slot itself.              *)
(***************************************************************************)
EXTENDS InterpPool, FiniteSetTheorems, SequenceTheorems, TLAPS

\* What holds of the record of one pool that was created.
WithinCapacity(s) ==
  /\ Len(s.idle) + Cardinality(s.inUse) <= s.maxSize
  /\ Len(s.idle) <= s.maxIdle
Apart(s) ==
  /\ \A t \in s.inUse : t < s.nextToken
  /\ \A k \in 1..Len(s.idle) : s.idle[k] < s.nextToken /\ s.idle[k] \notin s.inUse
  /\ \A j, k \in 1..Len(s.idle) : j # k => s.idle[j] # s.idle[k]
\* What holds of one pool record whatever the calls are doing.
Sound(s) == IsFiniteSet(s.inUse) /\ WithinCapacity(s) /\ Apart(s)

\* Replacing the idle queue, the in-use set and the next token of a record.
With(s, i, x, q) == [s EXCEPT !.idle = i, !.nextToken = x, !.inUse = q]

LEMMA WithFields ==
  ASSUME NEW s \in PoolStates, NEW i \in Seq(Nat \ {0}),
         NEW x \in Nat \ {0}, NEW q \in SUBSET (Nat \ {0})
  PROVE  /\ With(s, i, x, q) \in PoolStates
         /\ With(s, i, x, q).idle = i
         /\ With(s, i, x, q).inUse = q
         /\ With(s, i, x, q).nextToken = x
         /\ With(s, i, x, q).maxSize = s.maxSize
         /\ With(s, i, x, q).maxIdle = s.maxIdle
BY DEF PoolStates, With

\* Being sound does not depend on the waiting count or on being open.
LEMMA SoundSame ==
  ASSUME NEW s, NEW u, Sound(s),
         u.idle = s.idle, u.inUse = s.inUse, u.nextToken = s.nextToken,
         u.maxSize = s.maxSize, u.maxIdle = s.maxIdle
  PROVE  Sound(u)
BY DEF Sound, WithinCapacity, Apart

Recount(s, k) == [s EXCEPT !.waiting = k]

LEMMA WaitingSet ==
  ASSUME NEW s \in PoolStates, Sound(s), NEW k
  PROVE  /\ Sound(Recount(s, k)) /\ Recount(s, k).waiting = k
         /\ k \in Nat => Recount(s, k) \in PoolStates
<1> DEFINE u == Recount(s, k)
<1>1. /\ u.idle = s.idle /\ u.inUse = s.inUse /\ u.nextToken = s.nextToken
      /\ u.maxSize = s.maxSize /\ u.maxIdle = s.maxIdle /\ u.waiting = k
  BY DEF PoolStates, Recount
<1>2. k \in Nat => u \in PoolStates
  BY DEF PoolStates, Recount
<1> HIDE DEF u
<1>3. Sound(u)
  BY <1>1, SoundSame
<1> QED
  BY <1>1, <1>2, <1>3 DEF u

\* Granting a slot keeps a pool record well formed: the token granted was idle
\* once, or never handed out.
LEMMA TakeSound ==
  ASSUME NEW s \in PoolStates, Sound(s), SlotFree(s)
  PROVE  Take(s) \in PoolStates /\ Sound(Take(s))
<1> DEFINE u == Take(s)
<1>1. CASE s.idle # <<>>
  <2> DEFINE n == Len(s.idle)
  <2>1. n \in Nat /\ n > 0 /\ \A k \in 1..n : s.idle[k] \in Nat \ {0}
    BY <1>1, EmptySeq, LenProperties DEF PoolStates
  <2>2. /\ SubSeq(s.idle, 1, n - 1) \in Seq(Nat \ {0})
        /\ Len(SubSeq(s.idle, 1, n - 1)) = n - 1
        /\ \A i \in 1..(n - 1) : SubSeq(s.idle, 1, n - 1)[i] = s.idle[i]
    <3>1. \A i \in 1..(n - 1) : s.idle[i] \in Nat \ {0}
      BY <2>1
    <3> QED
      BY <3>1, <2>1, SubSeqProperties
  <2>3. s.idle[n] \in Nat \ {0} /\ s.idle[n] \notin s.inUse
    BY <2>1 DEF Sound, Apart
  <2>4. u = With(s, SubSeq(s.idle, 1, n - 1), s.nextToken, s.inUse \cup {s.idle[n]})
    BY <1>1 DEF Take, TokenOf, With
  <2> HIDE DEF u
  <2>5. /\ u \in PoolStates
        /\ u.idle = SubSeq(s.idle, 1, n - 1) /\ u.inUse = s.inUse \cup {s.idle[n]}
        /\ u.nextToken = s.nextToken
        /\ u.maxSize = s.maxSize /\ u.maxIdle = s.maxIdle
    <3>1. s.inUse \cup {s.idle[n]} \in SUBSET (Nat \ {0}) /\ s.nextToken \in Nat \ {0}
      BY <2>3 DEF PoolStates
    <3> DEFINE i == SubSeq(s.idle, 1, n - 1)
               q == s.inUse \cup {s.idle[n]}
    <3>2. i \in Seq(Nat \ {0}) /\ q \in SUBSET (Nat \ {0})
          /\ u = With(s, i, s.nextToken, q)
      BY <2>2, <2>4, <3>1
    <3> HIDE DEF i, q
    <3>3. /\ u \in PoolStates
          /\ u.idle = i /\ u.inUse = q /\ u.nextToken = s.nextToken
          /\ u.maxSize = s.maxSize /\ u.maxIdle = s.maxIdle
      BY <3>1, <3>2, WithFields
    <3> QED
      BY <3>3 DEF i, q
  <2>6. /\ IsFiniteSet(s.inUse \cup {s.idle[n]}) /\ Cardinality(s.inUse) \in Nat
        /\ Cardinality(s.inUse \cup {s.idle[n]}) = Cardinality(s.inUse) + 1
    BY <2>3, FS_AddElement, FS_CardinalityType DEF Sound
  <2>7. WithinCapacity(u)
    <3>1. s.maxSize \in Nat /\ s.maxIdle \in Nat
      BY DEF PoolStates
    <3> QED
      BY <2>1, <2>2, <2>5, <2>6, <3>1 DEF Sound, WithinCapacity
  <2>8. Apart(u)
    <3>1. \A t \in u.inUse : t < u.nextToken
      BY <2>1, <2>5 DEF Sound, Apart
    <3>2. \A k \in 1..(n - 1) : k \in 1..n /\ k # n
      BY <2>1
    <3>3. ASSUME NEW k \in 1..(n - 1)
          PROVE  u.idle[k] < u.nextToken /\ u.idle[k] \notin u.inUse
      <4>1. u.idle[k] = s.idle[k] /\ k \in 1..n /\ n \in 1..n /\ k # n
        BY <2>1, <2>2, <2>5, <3>2
      <4>2. s.idle[k] < s.nextToken /\ s.idle[k] \notin s.inUse /\ s.idle[k] # s.idle[n]
        BY <4>1 DEF Sound, Apart
      <4> QED
        BY <2>5, <4>1, <4>2
    <3>4. \A j, k \in 1..(n - 1) : j # k => u.idle[j] # u.idle[k]
      BY <2>2, <2>5, <3>2 DEF Sound, Apart
    <3> QED
      BY <2>2, <2>5, <3>1, <3>3, <3>4 DEF Apart
  <2> QED
    BY <2>5, <2>6, <2>7, <2>8 DEF Sound, u
<1>2. CASE s.idle = <<>>
  <2>1. u = With(s, s.idle, s.nextToken + 1, s.inUse \cup {s.nextToken})
    BY <1>2 DEF Take, TokenOf, With
  <2> HIDE DEF u
  <2>2. /\ u \in PoolStates
        /\ u.idle = <<>> /\ u.inUse = s.inUse \cup {s.nextToken}
        /\ u.nextToken = s.nextToken + 1
        /\ u.maxSize = s.maxSize /\ u.maxIdle = s.maxIdle
        /\ s.nextToken \in Nat /\ s.maxSize \in Nat /\ s.maxIdle \in Nat
    <3>1. /\ s.inUse \cup {s.nextToken} \in SUBSET (Nat \ {0})
          /\ s.nextToken + 1 \in Nat \ {0} /\ s.nextToken \in Nat
          /\ s.idle \in Seq(Nat \ {0})
      BY DEF PoolStates
    <3> DEFINE i == s.idle
               q == s.inUse \cup {s.nextToken}
    <3>2. i \in Seq(Nat \ {0}) /\ q \in SUBSET (Nat \ {0})
          /\ u = With(s, i, s.nextToken + 1, q)
      BY <2>1, <3>1
    <3> HIDE DEF i, q
    <3>3. /\ u \in PoolStates
          /\ u.idle = i /\ u.inUse = q /\ u.nextToken = s.nextToken + 1
          /\ u.maxSize = s.maxSize /\ u.maxIdle = s.maxIdle
      BY <3>1, <3>2, WithFields
    <3> QED
      BY <1>2, <3>1, <3>3 DEF i, q, PoolStates
  <2>3. s.nextToken \notin s.inUse /\ s.inUse \subseteq Nat
    BY <2>2 DEF Sound, Apart, PoolStates
  <2>4. /\ IsFiniteSet(u.inUse) /\ Cardinality(s.inUse) \in Nat
        /\ Cardinality(u.inUse) = Cardinality(s.inUse) + 1
    BY <2>2, <2>3, FS_AddElement, FS_CardinalityType DEF Sound
  <2>5. WithinCapacity(u)
    BY <1>2, <2>2, <2>4, EmptySeq DEF Sound, SlotFree, WithinCapacity
  <2>6. Apart(u)
    <3>1. \A t \in u.inUse : t < u.nextToken
      BY <2>2, <2>3 DEF Sound, Apart
    <3> QED
      BY <2>2, <3>1, EmptySeq DEF Apart
  <2> QED
    BY <2>2, <2>4, <2>5, <2>6 DEF Sound, u
<1> QED
  BY <1>1, <1>2

\* Taking an in-use token back keeps a pool record well formed, deposited or
\* dropped.
LEMMA GivenBackSound ==
  ASSUME NEW s \in PoolStates, Sound(s), NEW t \in s.inUse
  PROVE  /\ GivenBack(s, t) \in PoolStates /\ Sound(GivenBack(s, t))
         /\ [s EXCEPT !.inUse = @ \ {t}] \in PoolStates
         /\ Sound([s EXCEPT !.inUse = @ \ {t}])
<1> DEFINE n == Len(s.idle)
           d == [s EXCEPT !.inUse = @ \ {t}]
           u == GivenBack(s, t)
<1>1. n \in Nat /\ t \in Nat \ {0} /\ t < s.nextToken
  BY LenProperties DEF PoolStates, Sound, Apart
<1>2. /\ IsFiniteSet(s.inUse \ {t}) /\ Cardinality(s.inUse) \in Nat
      /\ Cardinality(s.inUse \ {t}) = Cardinality(s.inUse) - 1
  BY FS_RemoveElement, FS_CardinalityType DEF Sound
<1>3. d \in PoolStates /\ Sound(d)
  <2>1. d \in PoolStates
    BY DEF PoolStates
  <2>2. WithinCapacity(d)
    BY <1>1, <1>2 DEF WithinCapacity, Sound, PoolStates
  <2>3. Apart(d)
    BY DEF Apart, Sound, PoolStates
  <2> QED
    BY <1>2, <2>1, <2>2, <2>3 DEF Sound, PoolStates
<1>4. CASE n < s.maxIdle
  <2>1. /\ Append(s.idle, t) \in Seq(Nat \ {0})
        /\ Len(Append(s.idle, t)) = n + 1
        /\ \A i \in 1..n : Append(s.idle, t)[i] = s.idle[i]
        /\ Append(s.idle, t)[n + 1] = t
    BY <1>1, AppendProperties DEF PoolStates
  <2>2. u = With(s, Append(s.idle, t), s.nextToken, s.inUse \ {t})
    BY <1>4 DEF GivenBack, Deposit, PoolStates, With
  <2> HIDE DEF u
  <2>2a. /\ u \in PoolStates
         /\ u.idle = Append(s.idle, t) /\ u.inUse = s.inUse \ {t}
         /\ u.nextToken = s.nextToken
         /\ u.maxSize = s.maxSize /\ u.maxIdle = s.maxIdle
         /\ s.maxSize \in Nat /\ s.maxIdle \in Nat
    <3>1. s.inUse \ {t} \in SUBSET (Nat \ {0}) /\ s.nextToken \in Nat \ {0}
      BY DEF PoolStates
    <3> DEFINE i == Append(s.idle, t)
               q == s.inUse \ {t}
    <3>2. i \in Seq(Nat \ {0}) /\ q \in SUBSET (Nat \ {0})
          /\ u = With(s, i, s.nextToken, q)
      BY <2>1, <2>2, <3>1
    <3> HIDE DEF i, q
    <3>3. /\ u \in PoolStates
          /\ u.idle = i /\ u.inUse = q /\ u.nextToken = s.nextToken
          /\ u.maxSize = s.maxSize /\ u.maxIdle = s.maxIdle
      BY <3>1, <3>2, WithFields
    <3> QED
      BY <3>3 DEF i, q, PoolStates
  <2>3. WithinCapacity(u)
    BY <1>1, <1>2, <1>4, <2>1, <2>2a DEF WithinCapacity, Sound, PoolStates
  <2>4. Apart(u)
    <3>1. \A i \in 1..n : s.idle[i] # t
      BY DEF Sound, Apart
    <3>2. \A i \in 1..(n + 1) : i \in 1..n \/ i = n + 1
      BY <1>1
    <3>3. \A k \in 1..(n + 1) : u.idle[k] < u.nextToken /\ u.idle[k] \notin u.inUse
      BY <1>1, <2>1, <2>2a, <3>1, <3>2 DEF Sound, Apart, PoolStates
    <3>4. \A j, k \in 1..(n + 1) : j # k => u.idle[j] # u.idle[k]
      <4>1. \A j, k \in 1..n : j # k => s.idle[j] # s.idle[k]
        BY DEF Sound, Apart
      <4> QED
        BY <2>1, <2>2a, <3>1, <3>2, <4>1
    <3> QED
      BY <2>1, <2>2a, <3>3, <3>4 DEF Sound, Apart, PoolStates
  <2> QED
    BY <1>2, <1>3, <2>2a, <2>3, <2>4 DEF Sound, u
<1>5. CASE ~(n < s.maxIdle)
  <2>1. u = d
    BY <1>5 DEF GivenBack, Deposit, PoolStates
  <2> QED
    BY <1>3, <2>1
<1> QED
  BY <1>4, <1>5
-----------------------------------------------------------------------------
(***************************************************************************)
\* The token a grant hands out is in nobody's hands.
LEMMA TokenNew ==
  ASSUME NEW s \in PoolStates, Sound(s)
  PROVE  TokenOf(s) \notin s.inUse /\ TokenOf(s) \in Nat \ {0}
<1>1. CASE s.idle # <<>>
  <2>1. Len(s.idle) \in 1..Len(s.idle) /\ s.idle[Len(s.idle)] \in Nat \ {0}
    BY <1>1, EmptySeq, LenProperties, ElementOfSeq DEF PoolStates
  <2> QED
    BY <1>1, <2>1 DEF TokenOf, Sound, Apart
<1>2. CASE s.idle = <<>>
  BY <1>2 DEF TokenOf, Sound, Apart, PoolStates
<1> QED
  BY <1>1, <1>2

-----------------------------------------------------------------------------
(***************************************************************************)
(* The inductive invariant.  PoolSound is not inductive alone: ids are     *)
(* handed out in order (Numbered), so a pool is created over an empty      *)
(* record (Absent); a call that has no answer yet has no token, and one    *)
(* that waits or holds a lease names a pool that exists (Placed).          *)
(***************************************************************************)
Numbered == created = 1..Cardinality(created)
Absent == \A p \in PoolId \ created : pool[p] = NoPool
Placed ==
  \A c \in Calls : LET r == call[c] IN
    /\ r.at \in {"new", "waiting"} => r.token = 0 /\ ~r.held /\ r.result = "none"
    /\ r.at = "new" => r.pool = 0
    /\ r.at = "waiting" \/ r.held => r.pool \in created
AllSound == \A p \in created : Sound(pool[p])

Counted(p) == {c \in Calls : call[c].pool = p /\ call[c].at = "waiting"}
Holders(p) == {c \in Calls : call[c].pool = p /\ call[c].held}
Lent(p) ==
  /\ pool[p].inUse = {call[c].token : c \in Holders(p)}
  /\ \A c, d \in Holders(p) : call[c].token = call[d].token => c = d

IInv == /\ TypeOK /\ Numbered /\ Absent /\ Placed /\ AllSound
        /\ WaitingCounted /\ LeasesAccounted

LEMMA Parts ==
  /\ WaitingCounted <=> \A p \in created : pool[p].waiting = Cardinality(Counted(p))
  /\ LeasesAccounted <=> \A p \in created : pool[p].open => Lent(p)
BY DEF WaitingCounted, Counted, LeasesAccounted, Lent, Holders

\* The record poolCreate stores is sound, whatever sizes were asked.
FreshPool(m, i) ==
  [NoPool EXCEPT !.open = TRUE, !.maxSize = m, !.maxIdle = IF i > m THEN m ELSE i]

LEMMA FreshSound ==
  /\ NoPool \in PoolStates
  /\ \A m, i \in Nat : LET u == FreshPool(m, i) IN
       /\ u \in PoolStates /\ Sound(u)
       /\ u.open /\ u.waiting = 0 /\ u.inUse = {} /\ u.idle = <<>> /\ u.nextToken = 1
       /\ u.maxSize = m /\ u.maxIdle = IF i > m THEN m ELSE i
<1>1. /\ IsFiniteSet({}) /\ Cardinality({}) = 0
      /\ <<>> \in Seq(Nat \ {0}) /\ Len(<<>>) = 0
  BY FS_EmptySet, EmptySeq
<1>2. NoPool \in PoolStates
  BY <1>1 DEF NoPool, PoolStates
<1>3. ASSUME NEW m \in Nat, NEW i \in Nat
      PROVE  LET u == FreshPool(m, i) IN
             /\ u \in PoolStates /\ Sound(u)
             /\ u.open /\ u.waiting = 0 /\ u.inUse = {} /\ u.idle = <<>> /\ u.nextToken = 1
             /\ u.maxSize = m /\ u.maxIdle = IF i > m THEN m ELSE i
  <2> DEFINE k == IF i > m THEN m ELSE i
  <2>1. k \in Nat
    OBVIOUS
  <2>2. FreshPool(m, i) = [NoPool EXCEPT !.open = TRUE, !.maxSize = m, !.maxIdle = k]
    BY DEF FreshPool
  <2> HIDE DEF k
  <2>3. LET u == FreshPool(m, i) IN
        /\ u \in PoolStates
        /\ u.open /\ u.waiting = 0 /\ u.inUse = {} /\ u.idle = <<>> /\ u.nextToken = 1
        /\ u.maxSize = m /\ u.maxIdle = k
    <3>1. /\ NoPool.waiting = 0 /\ NoPool.inUse = {} /\ NoPool.idle = <<>>
          /\ NoPool.nextToken = 1
      BY DEF NoPool
    <3> QED
      BY <1>2, <2>1, <2>2, <3>1 DEF PoolStates
  <2>4. Sound(FreshPool(m, i))
    BY <1>1, <2>1, <2>3 DEF Sound, WithinCapacity, Apart
  <2> QED
    BY <2>3, <2>4 DEF k
<1> QED
  BY <1>2, <1>3

\* No pool exists at the start, and no call has been made.
LEMMA InitIInv == Init => IInv
<1> SUFFICES ASSUME Init PROVE IInv
  OBVIOUS
<1>1. TypeOK
  <2>1. NewCall \in CallStates /\ NoPool \in PoolStates
    BY FreshSound DEF NewCall, CallStates
  <2> QED
    BY <2>1 DEF Init, TypeOK
<1>2. Numbered
  BY FS_EmptySet DEF Init, Numbered
<1>3. Absent /\ Placed /\ AllSound /\ WaitingCounted /\ LeasesAccounted
  BY DEF Init, Absent, Placed, AllSound, WaitingCounted, LeasesAccounted, NewCall
<1> QED
  BY <1>1, <1>2, <1>3 DEF IInv

\* Sets of calls are finite, like the set of all calls.
LEMMA CountedFinite ==
  ASSUME NEW p
  PROVE  IsFiniteSet(Counted(p)) /\ Cardinality(Counted(p)) \in Nat
BY InterpPoolAssumption, FS_Subset, FS_CardinalityType DEF Counted

\* The next id is not in use yet.
LEMMA NextId ==
  ASSUME TypeOK, Numbered
  PROVE  LET p == Cardinality(created) + 1 IN
         /\ p \in Nat /\ p \notin created
         /\ created \cup {p} = 1..p /\ Cardinality(created \cup {p}) = p
<1> DEFINE k == Cardinality(created)
           p == k + 1
<1>1. IsFiniteSet(created)
  <2>1. IsFiniteSet(PoolId)
    BY InterpPoolAssumption, FS_Interval DEF PoolId
  <2> QED
    BY <2>1, FS_Subset DEF TypeOK
<1>2. k \in Nat /\ created = 1..k
  BY <1>1, FS_CardinalityType DEF Numbered
<1> HIDE DEF k
<1>3. p \notin created /\ created \cup {p} = 1..p
  BY <1>2
<1>4. Cardinality(created \cup {p}) = k + 1
  BY <1>1, <1>3, FS_AddElement DEF k
<1> QED
  BY <1>2, <1>3, <1>4 DEF k
-----------------------------------------------------------------------------
(***************************************************************************)
(* Steps of one call.  Whatever becomes of it, the call counts in one pool *)
(* at most, before and after.                                              *)
(***************************************************************************)
\* The call c becomes r, the record of pool p becomes u.
MayBecome(c, p, r) ==
  /\ r.pool = p /\ r.at # "new"
  /\ call[c].at = "new" \/ (call[c].at = "waiting" /\ call[c].pool = p)
  /\ r.at = "waiting" => /\ call[c].at = "new"
                         /\ r.token = 0 /\ ~r.held /\ r.result = "none"
Counts(c, p, r, u) ==
  u.waiting = pool[p].waiting + (IF r.at = "waiting" THEN 1 ELSE 0)
                              - (IF call[c].at = "waiting" THEN 1 ELSE 0)
Lends(p, r, u) ==
  /\ u.open = pool[p].open
  /\ \/ ~r.held /\ u.inUse = pool[p].inUse
     \/ /\ r.held /\ r.token \notin pool[p].inUse
        /\ u.inUse = pool[p].inUse \cup {r.token}

LEMMA CountOne ==
  ASSUME TypeOK, Placed, NEW c \in Calls, NEW CONSTANT p, NEW CONSTANT r,
         MayBecome(c, p, r), call' = [call EXCEPT ![c] = r]
  PROVE  /\ \A q \in PoolId : q # p => Counted(q)' = Counted(q)
         /\ c \in Counted(p) <=> call[c].at = "waiting"
         /\ Counted(p)' = IF r.at = "waiting" THEN Counted(p) \cup {c}
                                              ELSE Counted(p) \ {c}
<1>1. call'[c] = r /\ \A d \in Calls : d # c => call'[d] = call[d]
  BY DEF TypeOK
<1>2. \A q \in PoolId, d \in Calls : q # p => (d \in Counted(q)' <=> d \in Counted(q))
  BY <1>1 DEF Counted, MayBecome, Placed, PoolId
<1>3. \A d \in Calls : d \in Counted(p)' <=> IF d = c THEN r.at = "waiting" ELSE d \in Counted(p)
  BY <1>1 DEF Counted, MayBecome
<1>4. Counted(p)' = IF r.at = "waiting" THEN Counted(p) \cup {c} ELSE Counted(p) \ {c}
  BY <1>3 DEF Counted
<1>5. c \in Counted(p) <=> call[c].at = "waiting"
  BY DEF Counted, MayBecome
<1> QED
  BY <1>2, <1>4, <1>5 DEF Counted

\* The waiting count follows the set it counts.
LEMMA CountFollows ==
  ASSUME IInv, NEW c \in Calls, NEW CONSTANT p \in created, NEW CONSTANT r, NEW CONSTANT u,
         MayBecome(c, p, r), Counts(c, p, r, u), call' = [call EXCEPT ![c] = r]
  PROVE  u.waiting \in Nat /\ u.waiting = Cardinality(Counted(p)')
<1>1. /\ c \in Counted(p) <=> call[c].at = "waiting"
      /\ Counted(p)' = IF r.at = "waiting" THEN Counted(p) \cup {c} ELSE Counted(p) \ {c}
  BY CountOne DEF IInv
<1>2. /\ pool[p].waiting = Cardinality(Counted(p))
      /\ IsFiniteSet(Counted(p)) /\ Cardinality(Counted(p)) \in Nat
  BY Parts, CountedFinite DEF IInv
<1>3. CASE r.at = "waiting"
  <2>1. c \notin Counted(p) /\ call[c].at # "waiting" /\ Counted(p)' = Counted(p) \cup {c}
    BY <1>1, <1>3 DEF MayBecome
  <2>2. Cardinality(Counted(p) \cup {c}) = Cardinality(Counted(p)) + 1
    BY <1>2, <2>1, FS_AddElement
  <2> QED
    BY <1>2, <1>3, <2>1, <2>2 DEF Counts
<1>4. CASE r.at # "waiting" /\ call[c].at = "waiting"
  <2>1. c \in Counted(p) /\ Counted(p)' = Counted(p) \ {c}
    BY <1>1, <1>4
  <2>2. /\ Cardinality(Counted(p) \ {c}) = Cardinality(Counted(p)) - 1
        /\ Cardinality(Counted(p) \ {c}) \in Nat
    BY <1>2, <2>1, FS_RemoveElement, FS_CardinalityType
  <2> QED
    BY <1>2, <1>4, <2>1, <2>2 DEF Counts
<1>5. CASE r.at # "waiting" /\ call[c].at # "waiting"
  <2>1. Counted(p)' = Counted(p)
    BY <1>1, <1>5
  <2> QED
    BY <1>2, <1>5, <2>1 DEF Counts
<1> QED
  BY <1>3, <1>4, <1>5

\* A call that has no answer holds nothing, and a grant hands out a token that
\* nobody holds.
LEMMA LeaseOne ==
  ASSUME IInv, NEW c \in Calls, NEW CONSTANT p \in created, NEW CONSTANT r, NEW CONSTANT u,
         MayBecome(c, p, r), Lends(p, r, u), created' = created,
         call' = [call EXCEPT ![c] = r], pool' = [pool EXCEPT ![p] = u]
  PROVE  \A q \in created : pool'[q].open => Lent(q)'
<1>1. /\ call'[c] = r /\ \A d \in Calls : d # c => call'[d] = call[d]
      /\ pool'[p] = u /\ \A q \in PoolId : q # p => pool'[q] = pool[q]
      /\ created \subseteq PoolId
  BY DEF IInv, TypeOK
<1>2. ~call[c].held
  BY DEF IInv, Placed, MayBecome
<1>3. ASSUME NEW q \in created, q # p, pool'[q].open PROVE Lent(q)'
  <2>1. Holders(q)' = Holders(q) /\ c \notin Holders(q)
    <3>1. \A d \in Calls : d \in Holders(q)' <=> d \in Holders(q)
      BY <1>1, <1>2, <1>3 DEF Holders, MayBecome
    <3> QED
      BY <1>2, <3>1 DEF Holders
  <2>2. \A d \in Holders(q) : call'[d].token = call[d].token
    BY <1>1, <2>1 DEF Holders
  <2> QED
    BY <1>1, <1>3, <2>1, <2>2, Parts DEF IInv, Lent
<1>4. ASSUME pool'[p].open PROVE Lent(p)'
  <2>1. pool[p].open /\ Lent(p)
    BY <1>1, <1>4, Parts DEF Lends, IInv
  <2>2. \A d \in Calls : d \in Holders(p)' <=> IF d = c THEN r.held ELSE d \in Holders(p)
    BY <1>1 DEF Holders, MayBecome
  <2>3. c \notin Holders(p) /\ \A d \in Holders(p) : call'[d].token = call[d].token
    BY <1>1, <1>2 DEF Holders
  <2>4. CASE ~r.held
    <3>1. Holders(p)' = Holders(p)
      BY <1>2, <2>2, <2>4 DEF Holders
    <3> QED
      BY <1>1, <2>1, <2>3, <2>4, <3>1 DEF Lent, Lends
  <2>5. CASE r.held
    <3>1. Holders(p)' = Holders(p) \cup {c}
      BY <2>2, <2>5 DEF Holders
    <3>2. /\ u.inUse = pool[p].inUse \cup {r.token}
          /\ \A d \in Holders(p) : call[d].token # r.token
      BY <2>1, <2>5 DEF Lends, Lent
    <3>3. {call'[d].token : d \in Holders(p)'} = {call[d].token : d \in Holders(p)} \cup {r.token}
      BY <1>1, <2>3, <3>1
    <3> QED
      BY <1>1, <2>1, <2>3, <3>1, <3>2, <3>3 DEF Lent
  <2> QED
    BY <2>4, <2>5
<1> QED
  BY <1>3, <1>4

\* A call and its pool change together.
LEMMA CallStep ==
  ASSUME IInv, NEW c \in Calls, NEW CONSTANT p \in created,
         NEW CONSTANT r \in CallStates, NEW CONSTANT u,
         MayBecome(c, p, r), Counts(c, p, r, u), Lends(p, r, u),
         u.waiting \in Nat => u \in PoolStates, Sound(u),
         call' = [call EXCEPT ![c] = r], pool' = [pool EXCEPT ![p] = u],
         UNCHANGED <<created, awaiting>>
  PROVE  IInv'
<1>1. /\ call'[c] = r /\ \A d \in Calls : d # c => call'[d] = call[d]
      /\ pool'[p] = u /\ \A q \in PoolId : q # p => pool'[q] = pool[q]
      /\ created \subseteq PoolId /\ p \in PoolId
  BY DEF IInv, TypeOK
<1>2. u.waiting \in Nat /\ u.waiting = Cardinality(Counted(p)')
  BY CountFollows
<1>3. TypeOK'
  BY <1>2 DEF IInv, TypeOK
<1>4. Numbered' /\ Absent' /\ AllSound'
  BY <1>1 DEF IInv, Numbered, Absent, AllSound
<1>5. Placed'
  BY <1>1 DEF IInv, Placed, MayBecome
<1>6. WaitingCounted'
  <2>1. \A q \in PoolId : q # p => Counted(q)' = Counted(q)
    BY CountOne DEF IInv
  <2>2. \A q \in created : pool'[q].waiting = Cardinality(Counted(q)')
    BY <1>1, <1>2, <2>1, Parts DEF IInv
  <2> QED
    BY <2>2 DEF WaitingCounted, Counted
<1>7. LeasesAccounted'
  <2>1. \A q \in created : pool'[q].open => Lent(q)'
    BY LeaseOne
  <2> QED
    BY <2>1 DEF LeasesAccounted, Lent, Holders
<1> QED
  BY <1>3, <1>4, <1>5, <1>6, <1>7 DEF IInv
-----------------------------------------------------------------------------
(***************************************************************************)
(* The same steps as actions: what r and u are.                            *)
(***************************************************************************)
Moves(c, p, r, u) ==
  /\ MayBecome(c, p, r) /\ Counts(c, p, r, u) /\ Lends(p, r, u)
  /\ (u.waiting \in Nat => u \in PoolStates) /\ Sound(u)
  /\ u.maxSize = pool[p].maxSize /\ u.maxIdle = pool[p].maxIdle
  /\ call' = [call EXCEPT ![c] = r] /\ pool' = [pool EXCEPT ![p] = u]
  /\ UNCHANGED <<created, awaiting>>

\* A slot is granted, to a new call or to one that waits.
Grants(c, p, r, u) ==
  /\ pool[p].open /\ SlotFree(pool[p])
  /\ r.at = "done" /\ r.result = "ok" /\ r.held /\ r.token = TokenOf(pool[p])
  /\ u.idle = Take(pool[p]).idle /\ u.nextToken = Take(pool[p]).nextToken
  /\ u.inUse = pool[p].inUse \cup {TokenOf(pool[p])}

LEMMA GrantIs ==
  ASSUME IInv, NEW c \in Calls, PollTakes(c) \/ \E p \in PoolId : AcquireNow(c, p)
  PROVE  \E p \in created : \E r \in CallStates : \E u :
           Moves(c, p, r, u) /\ Grants(c, p, r, u)
<1> PICK p : \/ p \in PoolId /\ AcquireNow(c, p)
             \/ p = call[c].pool /\ PollTakes(c)
  OBVIOUS
<1>1. /\ p \in created /\ p \in PoolId /\ pool[p].open /\ SlotFree(pool[p])
      /\ pool[p] \in PoolStates /\ Sound(pool[p])
      /\ call[c].at = "new" \/ (call[c].at = "waiting" /\ call[c].pool = p)
  BY DEF AcquireNow, PollTakes, IInv, TypeOK, Placed, AllSound
<1> DEFINE s == pool[p]
           r == [at |-> "done", pool |-> p, result |-> "ok",
                 token |-> TokenOf(s), held |-> TRUE]
           k == s.waiting - (IF call[c].at = "waiting" THEN 1 ELSE 0)
           u == Recount(Take(s), k)
<1>2. TokenOf(s) \notin s.inUse /\ TokenOf(s) \in Nat \ {0}
  BY <1>1, TokenNew
<1>3. /\ Take(s) \in PoolStates /\ Sound(Take(s))
      /\ Take(s).open = s.open /\ Take(s).waiting = s.waiting
      /\ Take(s).maxSize = s.maxSize /\ Take(s).maxIdle = s.maxIdle
      /\ Take(s).inUse = s.inUse \cup {TokenOf(s)}
  <2>1. Take(s) \in PoolStates /\ Sound(Take(s))
    BY <1>1, TakeSound
  <2> QED
    BY <1>1, <2>1 DEF Take, PoolStates
<1>4. /\ Sound(u) /\ u.waiting = k /\ (k \in Nat => u \in PoolStates)
      /\ u.open = s.open /\ u.inUse = s.inUse \cup {TokenOf(s)}
      /\ u.maxSize = s.maxSize /\ u.maxIdle = s.maxIdle
      /\ u.idle = Take(s).idle /\ u.nextToken = Take(s).nextToken
  <2>1. Sound(u) /\ u.waiting = k /\ (k \in Nat => u \in PoolStates)
    BY <1>3, WaitingSet
  <2> QED
    BY <1>3, <2>1 DEF Recount, PoolStates
<1>5. call' = [call EXCEPT ![c] = r] /\ UNCHANGED <<created, awaiting>>
  BY DEF AcquireNow, PollTakes, Granted
<1>6. pool' = [pool EXCEPT ![p] = u]
  <2>1. CASE call[c].at = "waiting"
    <3>1. PollTakes(c) /\ p = call[c].pool
      BY <2>1 DEF AcquireNow
    <3>2. u = [Take(s) EXCEPT !.waiting = @ - 1]
      BY <1>1, <1>3, <2>1 DEF Recount
    <3> QED
      BY <3>1, <3>2 DEF PollTakes
  <2>2. CASE call[c].at # "waiting"
    <3>1. AcquireNow(c, p)
      BY <2>2 DEF PollTakes
    <3>2. u = Take(s)
      <4>1. k = Take(s).waiting
        BY <1>1, <1>3, <2>2 DEF PoolStates
      <4> QED
        BY <1>3, <4>1 DEF Recount, PoolStates
    <3> QED
      BY <1>1, <3>1, <3>2 DEF AcquireNow, IInv, TypeOK
  <2> QED
    BY <2>1, <2>2
<1>7. r \in CallStates
  BY <1>1, <1>2 DEF CallStates, PoolId
<1>8. MayBecome(c, p, r) /\ Counts(c, p, r, u) /\ Lends(p, r, u)
  <2>1. MayBecome(c, p, r) /\ Lends(p, r, u)
    BY <1>1, <1>2, <1>4 DEF MayBecome, Lends
  <2>2. Counts(c, p, r, u)
    BY <1>1, <1>4 DEF Counts, PoolStates
  <2> QED
    BY <2>1, <2>2
<1>9. Grants(c, p, r, u)
  BY <1>1, <1>4 DEF Grants
<1> HIDE DEF r, u
<1>10. Moves(c, p, r, u)
  <2>1. u.waiting \in Nat => u \in PoolStates
    BY <1>4
  <2> QED
    BY <1>4, <1>5, <1>6, <1>8, <2>1 DEF Moves
<1> QED
  BY <1>1, <1>7, <1>9, <1>10

\* The wait begins, or ends without a slot: "timeout" only while the pool is
\* open and full, "closed" only once it is closed.
Answers(c, p, r, u) ==
  /\ \/ r.at = "waiting" /\ pool[p].open /\ ~SlotFree(pool[p]) /\ call[c].at = "new"
     \/ /\ r.at = "done" /\ call[c].at = "waiting"
        /\ \/ r.result = "timeout" /\ pool[p].open /\ ~SlotFree(pool[p])
           \/ r.result = "closed" /\ ~pool[p].open
  /\ r.token = 0 /\ u.open = pool[p].open
  /\ u.idle = pool[p].idle /\ u.nextToken = pool[p].nextToken /\ u.inUse = pool[p].inUse

LEMMA AnswerIs ==
  ASSUME IInv, NEW c \in Calls,
         PollFindsClosed(c) \/ PollTimesOut(c) \/ \E p \in PoolId : Wait(c, p)
  PROVE  \E p \in created : \E r \in CallStates : \E u :
           Moves(c, p, r, u) /\ Answers(c, p, r, u)
<1> PICK p : \/ p \in PoolId /\ Wait(c, p)
             \/ p = call[c].pool /\ (PollFindsClosed(c) \/ PollTimesOut(c))
  OBVIOUS
<1>1. /\ p \in created /\ p \in PoolId /\ pool[p] \in PoolStates /\ Sound(pool[p])
      /\ call[c].at = "new" \/ (call[c].at = "waiting" /\ call[c].pool = p)
      /\ call[c] \in CallStates
      /\ ~call[c].held /\ call[c].token = 0 /\ call[c].result = "none"
  BY DEF Wait, PollFindsClosed, PollTimesOut, IInv, TypeOK, Placed, AllSound
<1> DEFINE s == pool[p]
           k == IF call[c].at = "new" THEN s.waiting + 1 ELSE s.waiting - 1
           u == Recount(s, k)
<1>2. /\ Sound(u) /\ u.waiting = k /\ (k \in Nat => u \in PoolStates)
      /\ u.open = s.open /\ u.inUse = s.inUse
      /\ u.maxSize = s.maxSize /\ u.maxIdle = s.maxIdle
      /\ u.idle = s.idle /\ u.nextToken = s.nextToken
  <2>1. Sound(u) /\ u.waiting = k /\ (k \in Nat => u \in PoolStates)
    BY <1>1, WaitingSet
  <2> QED
    BY <1>1, <2>1 DEF Recount, PoolStates
<1>3. CASE call[c].at = "new"
  <2> DEFINE r == [call[c] EXCEPT !.at = "waiting", !.pool = p]
  <2>1. Wait(c, p)
    BY <1>3 DEF PollFindsClosed, PollTimesOut
  <2>2. /\ r \in CallStates /\ r.at = "waiting" /\ r.pool = p /\ r.token = 0
        /\ ~r.held /\ r.result = "none"
    <3>1. p \in Nat
      BY <1>1 DEF PoolId
    <3> QED
      BY <1>1, <3>1 DEF CallStates
  <2>3. /\ call' = [call EXCEPT ![c] = r] /\ UNCHANGED <<created, awaiting>>
        /\ pool' = [pool EXCEPT ![p] = u]
        /\ s.open /\ ~SlotFree(s)
    <3>1. u = [s EXCEPT !.waiting = s.waiting + 1]
      BY <1>3 DEF Recount
    <3>2. pool' = [pool EXCEPT ![p] = [s EXCEPT !.waiting = s.waiting + 1]]
      BY <2>1 DEF Wait
    <3>3. call' = [call EXCEPT ![c] = r] /\ UNCHANGED <<created, awaiting>>
          /\ s.open /\ ~SlotFree(s)
      BY <2>1 DEF Wait
    <3> QED
      BY <3>1, <3>2, <3>3
  <2> HIDE DEF r, u
  <2>4. MayBecome(c, p, r) /\ Counts(c, p, r, u) /\ Lends(p, r, u) /\ Answers(c, p, r, u)
    <3>1. MayBecome(c, p, r) /\ Lends(p, r, u) /\ Answers(c, p, r, u)
      BY <1>2, <1>3, <2>2, <2>3 DEF MayBecome, Lends, Answers
    <3>2. Counts(c, p, r, u)
      BY <1>1, <1>2, <1>3, <2>2 DEF Counts, PoolStates
    <3> QED
      BY <3>1, <3>2
  <2>5. Moves(c, p, r, u)
    BY <1>2, <2>3, <2>4 DEF Moves
  <2> QED
    BY <1>1, <2>2, <2>4, <2>5
<1>4. CASE call[c].at = "waiting"
  <2> DEFINE x == IF s.open THEN "timeout" ELSE "closed"
             r == [call[c] EXCEPT !.at = "done", !.result = x]
  <2>1. /\ p = call[c].pool /\ (PollFindsClosed(c) \/ PollTimesOut(c))
        /\ s.open => ~SlotFree(s)
    BY <1>4 DEF Wait, PollFindsClosed, PollTimesOut, PastDeadline
  <2>2. /\ r \in CallStates /\ r.at = "done" /\ r.pool = p /\ r.token = 0 /\ ~r.held
        /\ r.result = x
    BY <1>1, <1>4 DEF CallStates
  <2>3. /\ call' = [call EXCEPT ![c] = r] /\ UNCHANGED <<created, awaiting>>
        /\ pool' = [pool EXCEPT ![p] = u]
    <3>1. CASE PollFindsClosed(c)
      BY <1>1, <1>4, <3>1 DEF PollFindsClosed, Recount
    <3>2. CASE PollTimesOut(c)
      BY <1>1, <1>4, <3>2 DEF PollTimesOut, PastDeadline, Recount
    <3> QED
      BY <2>1, <3>1, <3>2
  <2> HIDE DEF r, u
  <2>4. MayBecome(c, p, r) /\ Counts(c, p, r, u) /\ Lends(p, r, u) /\ Answers(c, p, r, u)
    <3>1. MayBecome(c, p, r) /\ Lends(p, r, u) /\ Answers(c, p, r, u)
      BY <1>1, <1>2, <1>4, <2>1, <2>2 DEF MayBecome, Lends, Answers
    <3>2. Counts(c, p, r, u)
      BY <1>1, <1>2, <1>4, <2>2 DEF Counts, PoolStates
    <3> QED
      BY <3>1, <3>2
  <2>5. Moves(c, p, r, u)
    BY <1>2, <2>3, <2>4 DEF Moves
  <2> QED
    BY <1>1, <2>2, <2>4, <2>5
<1> QED
  BY <1>1, <1>3, <1>4

\* Neither breaks the invariant.
LEMMA MoveIInv ==
  ASSUME IInv, NEW c \in Calls,
         \/ PollTakes(c) \/ PollFindsClosed(c) \/ PollTimesOut(c)
         \/ \E p \in PoolId : AcquireNow(c, p) \/ Wait(c, p)
  PROVE  IInv'
<1>1. \E p \in created : \E r \in CallStates : \E u : Moves(c, p, r, u)
  BY GrantIs, AnswerIs
<1> PICK p \in created, r \in CallStates : \E u : Moves(c, p, r, u)
  BY <1>1
<1> PICK u : Moves(c, p, r, u)
  OBVIOUS
<1> QED
  BY CallStep DEF Moves

\* A refusal by the arguments, an unknown pool or a closed one touches no pool.
LEMMA RefuseIInv ==
  ASSUME IInv, NEW c \in Calls, NEW p \in PoolId, Refuse(c, p)
  PROVE  IInv'
<1>1. PICK r : /\ r = "invalid" \/ (r = "closed" /\ p \in created /\ ~pool[p].open)
               /\ call' = [call EXCEPT ![c] = [@ EXCEPT !.at = "done", !.pool = p, !.result = r]]
  BY DEF Refuse
<1> DEFINE x == [call[c] EXCEPT !.at = "done", !.pool = p, !.result = r]
<1>2. call[c] \in CallStates /\ call[c].at = "new" /\ ~call[c].held /\ p \in Nat
  BY DEF Refuse, IInv, TypeOK, Placed, PoolId
<1>3. x \in CallStates /\ x.at = "done" /\ ~x.held
  BY <1>1, <1>2 DEF CallStates
<1>4. /\ call'[c] = x /\ \A d \in Calls : d # c => call'[d] = call[d]
      /\ call' \in [Calls -> CallStates]
  BY <1>1, <1>3 DEF IInv, TypeOK
<1>5. UNCHANGED <<created, pool, awaiting>>
  BY DEF Refuse
<1> HIDE DEF x
<1>6. TypeOK' /\ Numbered' /\ Absent' /\ AllSound'
  BY <1>4, <1>5 DEF IInv, TypeOK, Numbered, Absent, AllSound
<1>7. Placed'
  BY <1>3, <1>4, <1>5 DEF IInv, Placed
<1>8. \A q \in created : Counted(q)' = Counted(q) /\ Holders(q)' = Holders(q)
  BY <1>2, <1>3, <1>4 DEF Counted, Holders
<1>9. WaitingCounted'
  <2>1. \A q \in created : pool'[q].waiting = Cardinality(Counted(q)')
    BY <1>5, <1>8, Parts DEF IInv
  <2> QED
    BY <1>5, <2>1 DEF WaitingCounted, Counted
<1>10. LeasesAccounted'
  <2>1. \A q \in created : \A d \in Holders(q) : call'[d].token = call[d].token
    BY <1>2, <1>4 DEF Holders
  <2>2. \A q \in created : pool'[q].open => Lent(q)'
    BY <1>5, <1>8, <2>1, Parts DEF IInv, Lent
  <2> QED
    BY <1>5, <2>2 DEF LeasesAccounted, Lent, Holders
<1> QED
  BY <1>6, <1>7, <1>9, <1>10 DEF IInv
-----------------------------------------------------------------------------
(***************************************************************************)
(* Steps of a pool: created, given a token back, closed.                   *)
(***************************************************************************)
LEMMA CreateIInv ==
  ASSUME IInv, NEW m \in Sizes \ {0}, NEW i \in Sizes, Create(m, i)
  PROVE  IInv'
<1> PICK p : p = Cardinality(created) + 1
  OBVIOUS
<1> DEFINE u == FreshPool(m, i)
<1>1. /\ p \in PoolId /\ created' = created \cup {p} /\ pool' = [pool EXCEPT ![p] = u]
      /\ UNCHANGED <<call, awaiting>>
  BY DEF Create, FreshPool
<1>2. p \notin created /\ created' = 1..p /\ Cardinality(created') = p
  BY <1>1, NextId DEF IInv
<1>3. u \in PoolStates /\ Sound(u) /\ u.waiting = 0 /\ u.inUse = {}
  BY FreshSound, InterpPoolAssumption
<1> HIDE DEF u
<1>4. pool'[p] = u /\ \A q \in PoolId : q # p => pool'[q] = pool[q]
  BY <1>1 DEF IInv, TypeOK
<1>5. TypeOK' /\ Numbered' /\ Absent' /\ AllSound' /\ Placed'
  <2>1. TypeOK' /\ Numbered'
    BY <1>1, <1>2, <1>3 DEF IInv, TypeOK, Numbered
  <2>2. created \subseteq PoolId
    BY DEF IInv, TypeOK
  <2>3. Absent' /\ AllSound'
    BY <1>1, <1>3, <1>4, <2>2 DEF IInv, Absent, AllSound
  <2>4. Placed'
    BY <1>1 DEF IInv, Placed
  <2> QED
    BY <2>1, <2>3, <2>4
<1>6. Counted(p) = {} /\ Holders(p) = {}
  BY <1>2 DEF IInv, Placed, Counted, Holders
<1>7. WaitingCounted'
  <2>1. \A q \in created' : pool'[q].waiting = Cardinality(Counted(q))
    <3>1. \A q \in created : q # p /\ q \in PoolId
      BY <1>2 DEF IInv, TypeOK
    <3>2. \A q \in created : pool'[q].waiting = Cardinality(Counted(q))
      BY <1>4, <3>1, Parts DEF IInv
    <3>3. pool'[p].waiting = Cardinality(Counted(p))
      BY <1>3, <1>4, <1>6, FS_EmptySet
    <3> QED
      BY <1>1, <3>2, <3>3
  <2> QED
    BY <1>1, <2>1 DEF WaitingCounted, Counted
<1>8. LeasesAccounted'
  <2>1. \A q \in created : q # p /\ q \in PoolId
    BY <1>2 DEF IInv, TypeOK
  <2>0. \A q : Holders(q)' = Holders(q)
    BY <1>1 DEF Holders
  <2>2. ASSUME NEW q \in created, pool'[q].open PROVE Lent(q)'
    <3>1. pool'[q] = pool[q] /\ Lent(q)
      BY <1>4, <2>1, <2>2, Parts DEF IInv
    <3> QED
      BY <1>1, <2>0, <3>1 DEF Lent
  <2>3. Lent(p)'
    <3>1. pool'[p].inUse = {} /\ Holders(p)' = {}
      BY <1>3, <1>4, <1>6, <2>0
    <3> QED
      BY <3>1 DEF Lent
  <2>4. \A q \in created' : pool'[q].open => Lent(q)'
    BY <1>1, <2>2, <2>3
  <2> QED
    BY <2>4 DEF LeasesAccounted, Lent, Holders
<1> QED
  BY <1>5, <1>7, <1>8 DEF IInv

\* Whoever gives a token back, its one lease ends.
LEMMA ReleaseIInv ==
  ASSUME IInv, NEW p \in PoolId, NEW t \in pool[p].inUse, Release(p, t)
  PROVE  IInv'
<1> DEFINE u == GivenBack(pool[p], t)
<1>1. /\ p \in created /\ pool[p].open /\ pool' = [pool EXCEPT ![p] = u]
      /\ call' = [c \in Calls |-> IF call[c].pool = p /\ call[c].token = t
                                  THEN [call[c] EXCEPT !.held = FALSE] ELSE call[c]]
      /\ UNCHANGED <<created, awaiting>>
  BY DEF Release
<1>2. pool[p] \in PoolStates /\ Sound(pool[p]) /\ call \in [Calls -> CallStates]
  BY <1>1 DEF IInv, TypeOK, AllSound
<1>3. /\ u \in PoolStates /\ Sound(u)
      /\ u.open = pool[p].open /\ u.waiting = pool[p].waiting
      /\ u.inUse = pool[p].inUse \ {t}
  <2>1. u \in PoolStates /\ Sound(u)
    BY <1>2, GivenBackSound
  <2> QED
    BY <1>2, <2>1 DEF GivenBack, PoolStates
<1> HIDE DEF u
<1>4. pool'[p] = u /\ \A q \in PoolId : q # p => pool'[q] = pool[q]
  BY <1>1 DEF IInv, TypeOK
<1>5. \A c \in Calls :
        /\ call'[c] \in CallStates
        /\ call'[c].at = call[c].at /\ call'[c].pool = call[c].pool
        /\ call'[c].token = call[c].token /\ call'[c].result = call[c].result
        /\ call'[c].held <=> call[c].held /\ ~(call[c].pool = p /\ call[c].token = t)
  BY <1>1, <1>2 DEF CallStates
<1>6. TypeOK' /\ Numbered' /\ Absent' /\ AllSound' /\ Placed'
  <2>1. call' \in [Calls -> CallStates]
    BY <1>1, <1>5
  <2>2. TypeOK'
    BY <1>1, <1>3, <2>1 DEF IInv, TypeOK
  <2>3. created \subseteq PoolId
    BY DEF IInv, TypeOK
  <2>4. Numbered' /\ Absent' /\ AllSound'
    BY <1>1, <1>3, <1>4, <2>3 DEF IInv, Numbered, Absent, AllSound
  <2>5. Placed'
    BY <1>1, <1>5 DEF IInv, Placed
  <2> QED
    BY <2>2, <2>4, <2>5
<1>7. WaitingCounted'
  <2>1. \A q \in created : Counted(q)' = Counted(q)
    BY <1>5 DEF Counted
  <2>2. \A q \in created : pool'[q].waiting = pool[q].waiting
    BY <1>3, <1>4 DEF IInv, TypeOK
  <2>3. \A q \in created : pool'[q].waiting = Cardinality(Counted(q)')
    BY <2>1, <2>2, Parts DEF IInv
  <2> QED
    BY <1>1, <2>3 DEF WaitingCounted, Counted
<1>8. LeasesAccounted'
  <2>1. ASSUME NEW q \in created, pool'[q].open PROVE Lent(q)'
    <3>1. q \in PoolId /\ Lent(q)
      BY <1>1, <1>3, <1>4, <2>1, Parts DEF IInv, TypeOK
    <3>2. \A c \in Calls : c \in Holders(q)' <=> c \in Holders(q) /\ ~(q = p /\ call[c].token = t)
      BY <1>5 DEF Holders
    <3>3. CASE q # p
      <4>1. Holders(q)' = Holders(q)
        BY <3>2, <3>3 DEF Holders
      <4>2. \A c \in Holders(q) : call'[c].token = call[c].token
        BY <1>5 DEF Holders
      <4> QED
        BY <1>4, <3>1, <3>3, <4>1, <4>2 DEF Lent
    <3>4. CASE q = p
      <4>1. Holders(q)' = {c \in Holders(q) : call[c].token # t}
        BY <3>2, <3>4 DEF Holders
      <4>2. \A c \in Holders(q) : call'[c].token = call[c].token
        BY <1>5 DEF Holders
      <4>3. {call'[c].token : c \in Holders(q)'} = {call[c].token : c \in Holders(q)} \ {t}
        BY <4>1, <4>2
      <4> QED
        BY <1>3, <1>4, <3>1, <3>4, <4>1, <4>2, <4>3 DEF Lent
    <3> QED
      BY <3>3, <3>4
  <2> QED
    BY <1>1, <2>1 DEF LeasesAccounted, Lent, Holders
<1> QED
  BY <1>6, <1>7, <1>8 DEF IInv

\* A closed pool is empty; its waiters are counted until they look.
LEMMA CloseIInv ==
  ASSUME IInv, NEW p \in PoolId, Close(p)
  PROVE  IInv'
<1> DEFINE u == Closed(pool[p])
<1>1. /\ p \in created /\ pool' = [pool EXCEPT ![p] = u]
      /\ UNCHANGED <<created, call, awaiting>>
  BY DEF Close
<1>2. pool[p] \in PoolStates /\ Sound(pool[p])
  BY <1>1 DEF IInv, TypeOK, AllSound
<1>3. /\ IsFiniteSet({}) /\ Cardinality({}) = 0
      /\ <<>> \in Seq(Nat \ {0}) /\ Len(<<>>) = 0
  BY FS_EmptySet, EmptySeq
<1>4. /\ u \in PoolStates /\ ~u.open /\ u.waiting = pool[p].waiting
      /\ u.inUse = {} /\ u.idle = <<>> /\ u.maxSize \in Nat /\ u.maxIdle \in Nat
  BY <1>2, <1>3 DEF Closed, PoolStates
<1>5. Sound(u)
  BY <1>3, <1>4 DEF Sound, WithinCapacity, Apart
<1> HIDE DEF u
<1>6. pool'[p] = u /\ \A q \in PoolId : q # p => pool'[q] = pool[q]
  BY <1>1 DEF IInv, TypeOK
<1>7. created \subseteq PoolId
  BY DEF IInv, TypeOK
<1>8. TypeOK' /\ Numbered' /\ Absent' /\ AllSound' /\ Placed'
  BY <1>1, <1>4, <1>5, <1>6, <1>7 DEF IInv, TypeOK, Numbered, Absent, AllSound, Placed
<1>9. WaitingCounted'
  <2>1. \A q \in created : pool'[q].waiting = pool[q].waiting
    BY <1>4, <1>6, <1>7
  <2> QED
    BY <1>1, <2>1 DEF IInv, WaitingCounted
<1>10. LeasesAccounted'
  <2>1. \A q \in created : pool'[q].open => q # p /\ pool[q].open /\ pool'[q].inUse = pool[q].inUse
    BY <1>4, <1>6, <1>7
  <2> QED
    BY <1>1, <2>1 DEF IInv, LeasesAccounted
<1> QED
  BY <1>8, <1>9, <1>10 DEF IInv
-----------------------------------------------------------------------------
LEMMA NextIInv == IInv /\ [Next]_vars => IInv'
<1> SUFFICES ASSUME IInv, [Next]_vars PROVE IInv'
  OBVIOUS
<1>1. CASE \E m \in Sizes \ {0}, i \in Sizes : Create(m, i)
  BY <1>1, CreateIInv
<1>2. CASE \E c \in Calls, p \in PoolId : Refuse(c, p) \/ AcquireNow(c, p) \/ Wait(c, p)
  BY <1>2, RefuseIInv, MoveIInv
<1>3. CASE \E c \in Calls : Poll(c)
  BY <1>3, MoveIInv DEF Poll
<1>4. CASE AwaitOther \/ Resume \/ \E c \in Calls : AwaitCall(c)
  <2>1. awaiting' \in Calls \cup {None, Other} /\ UNCHANGED <<created, pool, call>>
    BY <1>4 DEF AwaitOther, Resume, AwaitCall
  <2> QED
    BY <2>1 DEF IInv, TypeOK, Numbered, Absent, Placed, AllSound,
                WaitingCounted, LeasesAccounted
<1>5. CASE \E p \in PoolId : (\E t \in pool[p].inUse : Release(p, t)) \/ Close(p)
  BY <1>5, ReleaseIInv, CloseIInv
<1>6. CASE UNCHANGED vars
  BY <1>6 DEF vars, IInv, TypeOK, Numbered, Absent, Placed, AllSound,
              WaitingCounted, LeasesAccounted
<1> QED
  BY <1>1, <1>2, <1>3, <1>4, <1>5, <1>6 DEF Next

LEMMA Inductive == Spec => []IInv
BY InitIInv, NextIInv, PTL DEF Spec

\* In the interpreter too a pool never lends more than maxSize resources or one
\* resource twice, counts the calls that wait for it, and knows each of its
\* leases, whatever the program does with its tokens and its Asyncs.
THEOREM PoolsStaySound == Spec => []PoolSound
<1>1. IInv => PoolSound
  <2> SUFFICES ASSUME IInv PROVE PoolSound
    OBVIOUS
  <2>1. CapacityAndTokens
    <3> SUFFICES ASSUME NEW p \in created
                 PROVE  LET s == pool[p] IN
                        /\ Len(s.idle) + Cardinality(s.inUse) <= s.maxSize
                        /\ \A t \in s.inUse : t < s.nextToken
                        /\ \A k \in 1..Len(s.idle) :
                             s.idle[k] < s.nextToken /\ s.idle[k] \notin s.inUse
                        /\ \A j, k \in 1..Len(s.idle) : s.idle[j] = s.idle[k] => j = k
      BY DEF CapacityAndTokens
    <3> QED
      BY DEF IInv, AllSound, Sound, WithinCapacity, Apart
  <2> QED
    BY <2>1 DEF IInv, PoolSound
<1> QED
  BY <1>1, Inductive, PTL
-----------------------------------------------------------------------------
(***************************************************************************)
(* Refinement.  Each step is a step of the abstract pool it is about and   *)
(* leaves every other pool as it was; awaiting is not seen by any pool.    *)
(***************************************************************************)
\* The abstract outcome and lease of a call record, seen from pool p.
OutcomeOf(r, p) ==
  IF r.pool # p THEN "none" ELSE IF r.at = "waiting" THEN "waiting" ELSE r.result
LeaseOf(r, p) == IF r.pool = p THEN r.token ELSE 0

LEMMA OutcomeIs ==
  ASSUME NEW CONSTANT p
  PROVE  /\ Outcome(p) = [c \in Calls |-> OutcomeOf(call[c], p)]
         /\ Lease(p) = [c \in Calls |-> LeaseOf(call[c], p)]
         /\ Outcome(p)' = [c \in Calls |-> OutcomeOf(call'[c], p)]
         /\ Lease(p)' = [c \in Calls |-> LeaseOf(call'[c], p)]
BY DEF Outcome, Lease, OutcomeOf, LeaseOf

\* The instance brings its own name for the cardinality of a set.
LEMMA CardinalityIs ==
  ASSUME NEW p, NEW S
  PROVE  Abstract(p)!Cardinality(S) = Cardinality(S)
BY DEF Abstract!Cardinality, Cardinality

\* What the abstract pool p sees of the pool table.
SamePool(p) ==
  /\ p \in created' <=> p \in created
  /\ pool'[p].open = pool[p].open
  /\ pool'[p].maxSize = pool[p].maxSize /\ pool'[p].maxIdle = pool[p].maxIdle
  /\ pool'[p].idle = pool[p].idle /\ pool'[p].inUse = pool[p].inUse
  /\ pool'[p].nextToken = pool[p].nextToken

LEMMA SameCalls ==
  ASSUME NEW CONSTANT p,
         \A c \in Calls : /\ OutcomeOf(call'[c], p) = OutcomeOf(call[c], p)
                          /\ LeaseOf(call'[c], p) = LeaseOf(call[c], p)
  PROVE  Outcome(p)' = Outcome(p) /\ Lease(p)' = Lease(p)
BY OutcomeIs

LEMMA Stutters ==
  ASSUME NEW CONSTANT p \in PoolId, SamePool(p),
         \A c \in Calls : /\ OutcomeOf(call'[c], p) = OutcomeOf(call[c], p)
                          /\ LeaseOf(call'[c], p) = LeaseOf(call[c], p)
  PROVE  UNCHANGED Abstract(p)!vars
<1>1. Outcome(p)' = Outcome(p) /\ Lease(p)' = Lease(p)
  BY SameCalls
<1> QED
  BY <1>1 DEF Abstract!vars, SamePool

LEMMA InitRefines == Init => \A p \in PoolId : Abstract(p)!Init
<1> SUFFICES ASSUME Init, NEW p \in PoolId PROVE Abstract(p)!Init
  OBVIOUS
<1>1. pool[p] = NoPool /\ created = {}
  BY DEF Init
<1>2. Outcome(p) = [c \in Calls |-> "none"] /\ Lease(p) = [c \in Calls |-> 0]
  BY DEF Init, Outcome, Lease, NewCall
<1> QED
  BY <1>1, <1>2 DEF Abstract!Init, NoPool

\* A call that changes its record, seen from any pool.
LEMMA OneCall ==
  ASSUME TypeOK, NEW CONSTANT p, NEW c \in Calls, NEW CONSTANT r,
         call' = [call EXCEPT ![c] = r]
  PROVE  /\ Outcome(p)' = [Outcome(p) EXCEPT ![c] = OutcomeOf(r, p)]
         /\ Lease(p)' = [Lease(p) EXCEPT ![c] = LeaseOf(r, p)]
         /\ Outcome(p)[c] = OutcomeOf(call[c], p) /\ Lease(p)[c] = LeaseOf(call[c], p)
<1>1. call'[c] = r /\ \A d \in Calls : d # c => call'[d] = call[d]
  BY DEF TypeOK
<1> QED
  BY <1>1, OutcomeIs

\* A call whose record becomes r leaves the pools it does not name alone.
LEMMA OtherPools ==
  ASSUME IInv, NEW c \in Calls, NEW CONSTANT r, call' = [call EXCEPT ![c] = r],
         NEW CONSTANT q, MayBecome(c, q, r),
         NEW CONSTANT p \in PoolId, p # q, SamePool(p)
  PROVE  UNCHANGED Abstract(p)!vars
<1>1. call'[c] = r /\ \A d \in Calls : d # c => call'[d] = call[d]
  BY DEF IInv, TypeOK
<1>2. OutcomeOf(call[c], p) = "none" /\ LeaseOf(call[c], p) = 0
  BY DEF OutcomeOf, LeaseOf, IInv, Placed, MayBecome, PoolId
<1>3. OutcomeOf(r, p) = "none" /\ LeaseOf(r, p) = 0
  BY DEF OutcomeOf, LeaseOf, MayBecome
<1> QED
  BY <1>1, <1>2, <1>3, Stutters

LEMMA CreateRefines ==
  ASSUME IInv, NEW m \in Sizes \ {0}, NEW i \in Sizes, Create(m, i), NEW CONSTANT p \in PoolId
  PROVE  [Abstract(p)!Next]_(Abstract(p)!vars)
<1> PICK q : q = Cardinality(created) + 1
  OBVIOUS
<1> DEFINE u == FreshPool(m, i)
<1>1. /\ q \in PoolId /\ created' = created \cup {q} /\ pool' = [pool EXCEPT ![q] = u]
      /\ call' = call /\ q \notin created
  BY NextId DEF Create, FreshPool, IInv
<1>2. u.open /\ u.inUse = {} /\ u.idle = <<>> /\ u.nextToken = 1
      /\ u.maxSize = m /\ u.maxIdle = IF i > m THEN m ELSE i
  BY FreshSound, InterpPoolAssumption
<1> HIDE DEF u
<1>3. CASE p # q
  <2>1. SamePool(p)
    BY <1>1, <1>3 DEF SamePool, IInv, TypeOK
  <2> QED
    BY <1>1, <2>1, Stutters
<1>4. CASE p = q
  <2>1. pool'[p] = u /\ pool[p] = NoPool /\ p \notin created /\ p \in created'
    BY <1>1, <1>4 DEF IInv, TypeOK, Absent
  <2>2. pool[p].idle = <<>> /\ pool[p].inUse = {} /\ pool[p].nextToken = 1
    BY <2>1 DEF NoPool
  <2>3. Abstract(p)!Create
    <3>1. Outcome(p)' = Outcome(p) /\ Lease(p)' = Lease(p)
      BY <1>1, SameCalls
    <3> QED
      BY <1>2, <2>1, <2>2, <3>1 DEF Abstract!Create
  <2> QED
    BY <2>3 DEF Abstract!Next
<1> QED
  BY <1>3, <1>4

LEMMA GrantRefines ==
  ASSUME IInv, NEW c \in Calls, PollTakes(c) \/ \E q \in PoolId : AcquireNow(c, q),
         NEW CONSTANT p \in PoolId
  PROVE  [Abstract(p)!Next]_(Abstract(p)!vars)
<1>1. \E q \in created : \E r \in CallStates : \E u : Moves(c, q, r, u) /\ Grants(c, q, r, u)
  BY GrantIs
<1> PICK q \in created, r \in CallStates : \E u : Moves(c, q, r, u) /\ Grants(c, q, r, u)
  BY <1>1
<1> PICK u : Moves(c, q, r, u) /\ Grants(c, q, r, u)
  OBVIOUS
<1>2. TypeOK /\ q \in PoolId /\ pool[q] \in PoolStates
  BY DEF IInv, TypeOK
<1>3. /\ MayBecome(c, q, r) /\ call' = [call EXCEPT ![c] = r]
      /\ pool' = [pool EXCEPT ![q] = u] /\ created' = created
  BY DEF Moves
<1>4. CASE p # q
  <2>1. SamePool(p)
    BY <1>2, <1>3, <1>4 DEF SamePool, TypeOK
  <2> QED
    BY <1>3, <1>4, <2>1, OtherPools
<1>5. CASE p = q
  <2>1. /\ Outcome(p)' = [Outcome(p) EXCEPT ![c] = OutcomeOf(r, p)]
        /\ Lease(p)' = [Lease(p) EXCEPT ![c] = LeaseOf(r, p)]
        /\ Outcome(p)[c] = OutcomeOf(call[c], p) /\ Lease(p)[c] = LeaseOf(call[c], p)
    BY <1>2, <1>3, OneCall
  <2>2. OutcomeOf(r, p) = "ok" /\ LeaseOf(r, p) = TokenOf(pool[p])
    BY <1>3, <1>5 DEF OutcomeOf, LeaseOf, MayBecome, Grants
  <2>3. Outcome(p)[c] \in {"none", "waiting"}
    BY <1>3, <1>5, <2>1 DEF OutcomeOf, MayBecome, IInv, Placed
  <2>4. pool'[p] = u
    BY <1>2, <1>3, <1>5 DEF TypeOK
  <2>5. Lease(p)'[c] = TokenOf(pool[p])
    BY <2>1, <2>2 DEF Lease
  <2>6. /\ u.open /\ pool[p].open /\ p \in created /\ p \in created'
        /\ u.maxSize = pool[p].maxSize /\ u.maxIdle = pool[p].maxIdle
        /\ u.inUse = pool[p].inUse \cup {TokenOf(pool[p])}
        /\ u.idle = Take(pool[p]).idle /\ u.nextToken = Take(pool[p]).nextToken
        /\ SlotFree(pool[p])
    BY <1>3, <1>5 DEF Moves, Grants, Lends
  <2>7. CASE pool[p].idle # <<>>
    <3>1. /\ u.idle = SubSeq(pool[p].idle, 1, Len(pool[p].idle) - 1)
          /\ u.nextToken = pool[p].nextToken
          /\ TokenOf(pool[p]) = pool[p].idle[Len(pool[p].idle)]
      BY <1>2, <1>5, <2>6, <2>7 DEF Take, TokenOf, PoolStates
    <3>2. Abstract(p)!Grant(c)
      BY <2>1, <2>2, <2>3, <2>4, <2>5, <2>6, <2>7, <3>1 DEF Abstract!Grant
    <3> QED
      BY <3>2 DEF Abstract!Next
  <2>8. CASE pool[p].idle = <<>>
    <3>1. /\ u.idle = pool[p].idle
          /\ u.nextToken = pool[p].nextToken + 1
          /\ TokenOf(pool[p]) = pool[p].nextToken
          /\ Cardinality(pool[p].inUse) < pool[p].maxSize
      BY <1>2, <1>5, <2>6, <2>8 DEF Take, TokenOf, PoolStates, SlotFree
    <3>2. /\ pool'[p].idle = pool[p].idle /\ pool'[p].nextToken = pool[p].nextToken + 1
          /\ pool'[p].inUse = pool[p].inUse \cup {Lease(p)'[c]}
          /\ pool'[p].open /\ pool[p].open /\ p \in created /\ p \in created'
          /\ pool'[p].maxSize = pool[p].maxSize /\ pool'[p].maxIdle = pool[p].maxIdle
      BY <2>4, <2>5, <2>6, <3>1
    <3>3. /\ Lease(p)' = [Lease(p) EXCEPT ![c] = pool[p].nextToken]
          /\ Outcome(p)' = [Outcome(p) EXCEPT ![c] = "ok"]
      BY <2>1, <2>2, <3>1
    <3>4. Abstract(p)!Grant(c)
      BY <2>3, <2>8, <3>1, <3>2, <3>3, CardinalityIs DEF Abstract!Grant
    <3> QED
      BY <3>4 DEF Abstract!Next
  <2> QED
    BY <2>7, <2>8
<1> QED
  BY <1>4, <1>5

LEMMA AnswerRefines ==
  ASSUME IInv, NEW c \in Calls,
         PollFindsClosed(c) \/ PollTimesOut(c) \/ \E q \in PoolId : Wait(c, q),
         NEW CONSTANT p \in PoolId
  PROVE  [Abstract(p)!Next]_(Abstract(p)!vars)
<1>1. \E q \in created : \E r \in CallStates : \E u : Moves(c, q, r, u) /\ Answers(c, q, r, u)
  BY AnswerIs
<1> PICK q \in created, r \in CallStates : \E u : Moves(c, q, r, u) /\ Answers(c, q, r, u)
  BY <1>1
<1> PICK u : Moves(c, q, r, u) /\ Answers(c, q, r, u)
  OBVIOUS
<1>2. TypeOK /\ q \in PoolId
  BY DEF IInv, TypeOK
<1>3. /\ MayBecome(c, q, r) /\ call' = [call EXCEPT ![c] = r]
      /\ pool' = [pool EXCEPT ![q] = u] /\ created' = created
  BY DEF Moves
<1>4. SamePool(p)
  BY <1>2, <1>3 DEF SamePool, TypeOK, Moves, Answers
<1>5. CASE p # q
  BY <1>3, <1>4, <1>5, OtherPools
<1>6. CASE p = q
  <2>1. /\ Outcome(p)' = [Outcome(p) EXCEPT ![c] = OutcomeOf(r, p)]
        /\ Lease(p)' = [Lease(p) EXCEPT ![c] = LeaseOf(r, p)]
        /\ Outcome(p)[c] = OutcomeOf(call[c], p) /\ Lease(p)[c] = LeaseOf(call[c], p)
    BY <1>2, <1>3, OneCall
  <2>2. LeaseOf(r, p) = 0 /\ LeaseOf(call[c], p) = 0
    BY <1>3, <1>6 DEF LeaseOf, MayBecome, Answers, IInv, Placed
  <2>3. Lease(p)' = Lease(p)
    <3>1. LeaseOf(r, p) = 0 /\ Lease(p)[c] = 0
      BY <2>1, <2>2
    <3> QED
      BY <2>1, <3>1 DEF Lease
  <2>4. p \in created /\ pool[p].open = pool'[p].open
    BY <1>4, <1>6 DEF SamePool
  <2>5. CASE r.at = "waiting"
    <3>1. /\ OutcomeOf(call[c], p) = "none" /\ OutcomeOf(r, p) = "waiting"
          /\ pool[p].open /\ ~SlotFree(pool[p])
      BY <1>3, <1>6, <2>5 DEF OutcomeOf, MayBecome, Answers, IInv, Placed, PoolId
    <3>2. Abstract(p)!Wait(c)
      BY <1>3, <1>4, <2>1, <2>3, <2>4, <3>1, CardinalityIs
         DEF Abstract!Wait, Abstract!SlotFree, SlotFree, SamePool
    <3> QED
      BY <3>2 DEF Abstract!Next
  <2>6. CASE r.at # "waiting"
    <3>1. /\ OutcomeOf(call[c], p) = "waiting" /\ OutcomeOf(r, p) = r.result
          /\ \/ r.result = "timeout" /\ pool[p].open /\ ~SlotFree(pool[p])
             \/ r.result = "closed" /\ ~pool[p].open
      BY <1>3, <1>6, <2>6 DEF OutcomeOf, MayBecome, Answers
    <3>2. CASE r.result = "timeout"
      <4>1. Abstract(p)!TimeOut(c)
        BY <1>3, <1>4, <2>1, <2>3, <2>4, <3>1, <3>2, CardinalityIs
           DEF Abstract!TimeOut, Abstract!SlotFree, SlotFree, SamePool
      <4> QED
        BY <4>1 DEF Abstract!Next
    <3>3. CASE r.result = "closed"
      <4>1. Abstract(p)!Refuse(c)
        BY <1>3, <1>4, <2>1, <2>3, <2>4, <3>1, <3>3
           DEF Abstract!Refuse, SamePool
      <4> QED
        BY <4>1 DEF Abstract!Next
    <3> QED
      BY <3>1, <3>2, <3>3
  <2> QED
    BY <2>5, <2>6
<1> QED
  BY <1>5, <1>6

\* A refusal changes one call and no pool.
LEMMA RefuseRefines ==
  ASSUME IInv, NEW c \in Calls, NEW CONSTANT q \in PoolId, Refuse(c, q),
         NEW CONSTANT p \in PoolId
  PROVE  [Abstract(p)!Next]_(Abstract(p)!vars)
<1>1. PICK x : /\ x = "invalid" \/ (x = "closed" /\ q \in created /\ ~pool[q].open)
               /\ call' = [call EXCEPT ![c] = [@ EXCEPT !.at = "done", !.pool = q, !.result = x]]
  BY DEF Refuse
<1>2. /\ call[c] \in CallStates /\ call[c].at = "new" /\ ~call[c].held
      /\ call[c].token = 0 /\ call[c].result = "none" /\ call[c].pool = 0
      /\ q \in Nat /\ q # 0
  BY DEF Refuse, IInv, TypeOK, Placed, PoolId
<1>3. PICK y : /\ y.at = "done" /\ y.pool = q /\ y.token = 0 /\ y.result = x
               /\ call' = [call EXCEPT ![c] = y]
  <2> DEFINE r == [call[c] EXCEPT !.at = "done", !.pool = q, !.result = x]
  <2>1. r.at = "done" /\ r.pool = q /\ r.token = 0 /\ r.result = x
    BY <1>1, <1>2 DEF CallStates
  <2>2. call' = [call EXCEPT ![c] = r]
    BY <1>1
  <2> HIDE DEF r
  <2> QED
    BY <2>1, <2>2
<1>4. TypeOK /\ call' = [call EXCEPT ![c] = y]
  BY <1>3 DEF IInv
<1>5. SamePool(p) /\ created' = created /\ pool' = pool
  BY DEF Refuse, SamePool
<1>6. CASE p # q
  <2>1. MayBecome(c, q, y)
    BY <1>2, <1>3 DEF MayBecome
  <2> QED
    BY <1>4, <1>5, <1>6, <2>1, OtherPools
<1>7. CASE p = q
  <2>1. /\ Outcome(p)' = [Outcome(p) EXCEPT ![c] = OutcomeOf(y, p)]
        /\ Lease(p)' = [Lease(p) EXCEPT ![c] = LeaseOf(y, p)]
        /\ Outcome(p)[c] = OutcomeOf(call[c], p) /\ Lease(p)[c] = LeaseOf(call[c], p)
    BY <1>4, OneCall
  <2>2. OutcomeOf(y, p) = x /\ LeaseOf(y, p) = 0 /\ Outcome(p)[c] = "none" /\ Lease(p)[c] = 0
    BY <1>2, <1>3, <1>7, <2>1 DEF OutcomeOf, LeaseOf
  <2>3. Lease(p)' = Lease(p)
    BY <2>1, <2>2 DEF Lease
  <2>4. Abstract(p)!Refuse(c)
    BY <1>1, <1>5, <1>7, <2>1, <2>2, <2>3 DEF Abstract!Refuse
  <2> QED
    BY <2>4 DEF Abstract!Next
<1> QED
  BY <1>6, <1>7

LEMMA ReleaseRefines ==
  ASSUME IInv, NEW CONSTANT q \in PoolId, NEW CONSTANT t \in pool[q].inUse, Release(q, t),
         NEW CONSTANT p \in PoolId
  PROVE  [Abstract(p)!Next]_(Abstract(p)!vars)
<1>1. /\ q \in created /\ pool[q].open /\ created' = created
      /\ pool' = [pool EXCEPT ![q] = GivenBack(pool[q], t)]
      /\ call' = [c \in Calls |-> IF call[c].pool = q /\ call[c].token = t
                                  THEN [call[c] EXCEPT !.held = FALSE] ELSE call[c]]
  BY DEF Release
<1>2. TypeOK /\ pool[q] \in PoolStates
  BY DEF IInv, TypeOK
<1>3. \A c \in Calls : /\ OutcomeOf(call'[c], p) = OutcomeOf(call[c], p)
                       /\ LeaseOf(call'[c], p) = LeaseOf(call[c], p)
  <2>1. \A c \in Calls : /\ call'[c].at = call[c].at /\ call'[c].pool = call[c].pool
                         /\ call'[c].token = call[c].token /\ call'[c].result = call[c].result
    BY <1>1, <1>2 DEF TypeOK, CallStates
  <2> QED
    BY <2>1 DEF OutcomeOf, LeaseOf
<1>4. CASE p # q
  <2>1. SamePool(p)
    BY <1>1, <1>2, <1>4 DEF SamePool, TypeOK
  <2> QED
    BY <1>3, <2>1, Stutters
<1>5. CASE p = q
  <2>1. Outcome(p)' = Outcome(p) /\ Lease(p)' = Lease(p)
    BY <1>3, SameCalls
  <2>2. pool'[p] = GivenBack(pool[p], t) /\ t \in pool[p].inUse
        /\ p \in created /\ p \in created' /\ pool[p].open
    BY <1>1, <1>2, <1>5 DEF TypeOK
  <2>3. /\ pool'[p].open /\ pool'[p].maxSize = pool[p].maxSize
        /\ pool'[p].maxIdle = pool[p].maxIdle /\ pool'[p].nextToken = pool[p].nextToken
        /\ pool'[p].inUse = pool[p].inUse \ {t}
        /\ pool'[p].idle = IF Len(pool[p].idle) < pool[p].maxIdle
                           THEN Append(pool[p].idle, t) ELSE pool[p].idle
    BY <1>2, <1>5, <2>2 DEF GivenBack, Deposit, PoolStates
  <2>4. Abstract(p)!Release(t)
    BY <2>1, <2>2, <2>3 DEF Abstract!Release
  <2> QED
    BY <2>2, <2>4 DEF Abstract!Next
<1> QED
  BY <1>4, <1>5

LEMMA CloseRefines ==
  ASSUME IInv, NEW CONSTANT q \in PoolId, Close(q), NEW CONSTANT p \in PoolId
  PROVE  [Abstract(p)!Next]_(Abstract(p)!vars)
<1>1. /\ q \in created /\ pool[q].open /\ created' = created
      /\ pool' = [pool EXCEPT ![q] = Closed(pool[q])] /\ call' = call
  BY DEF Close
<1>2. TypeOK /\ pool[q] \in PoolStates
  BY DEF IInv, TypeOK
<1>3. CASE p # q
  <2>1. SamePool(p)
    BY <1>1, <1>2, <1>3 DEF SamePool, TypeOK
  <2> QED
    BY <1>1, <2>1, Stutters
<1>4. CASE p = q
  <2>1. Outcome(p)' = Outcome(p) /\ Lease(p)' = Lease(p)
    BY <1>1, SameCalls
  <2>2. pool'[p] = Closed(pool[p]) /\ p \in created /\ p \in created' /\ pool[p].open
    BY <1>1, <1>2, <1>4 DEF TypeOK
  <2>3. /\ ~pool'[p].open /\ pool'[p].maxSize = pool[p].maxSize
        /\ pool'[p].maxIdle = pool[p].maxIdle /\ pool'[p].nextToken = pool[p].nextToken
        /\ pool'[p].inUse = {} /\ pool'[p].idle = <<>>
    BY <1>2, <1>4, <2>2 DEF Closed, PoolStates
  <2>4. Abstract(p)!Close
    BY <2>1, <2>2, <2>3 DEF Abstract!Close
  <2> QED
    BY <2>4 DEF Abstract!Next
<1> QED
  BY <1>3, <1>4

LEMMA NextRefines ==
  ASSUME IInv, [Next]_vars, NEW CONSTANT p \in PoolId
  PROVE  [Abstract(p)!Next]_(Abstract(p)!vars)
<1>1. CASE \E m \in Sizes \ {0}, i \in Sizes : Create(m, i)
  BY <1>1, CreateRefines
<1>2. CASE \E c \in Calls, q \in PoolId : Refuse(c, q) \/ AcquireNow(c, q) \/ Wait(c, q)
  BY <1>2, RefuseRefines, GrantRefines, AnswerRefines
<1>3. CASE \E c \in Calls : Poll(c)
  BY <1>3, GrantRefines, AnswerRefines DEF Poll
<1>4. CASE \E q \in PoolId : (\E t \in pool[q].inUse : Release(q, t)) \/ Close(q)
  BY <1>4, ReleaseRefines, CloseRefines
<1>5. CASE AwaitOther \/ Resume \/ UNCHANGED vars \/ \E c \in Calls : AwaitCall(c)
  <2>1. SamePool(p) /\ call' = call
    BY <1>5 DEF AwaitOther, Resume, AwaitCall, vars, SamePool
  <2> QED
    BY <2>1, Stutters
<1> QED
  BY <1>1, <1>2, <1>3, <1>4, <1>5 DEF Next

\* Every pool of the interpreter implements the abstract waiting semaphore: a
\* lease is granted only from a free slot, a timeout is reported only by a poll
\* that found none, "closed" only by a closed pool, and a closed pool is empty
\* for good.
THEOREM PollingImplements == Spec => ImplementsPool
<1>1. IInv /\ [Next]_vars =>
        [\A p \in PoolId : [Abstract(p)!Next]_(Abstract(p)!vars)]_vars
  BY NextRefines
<1> QED
  BY <1>1, InitRefines, Inductive, PTL DEF Spec, ImplementsPool
=============================================================================
