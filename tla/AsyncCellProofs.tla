-------------------------- MODULE AsyncCellProofs --------------------------
(***************************************************************************)
(* Proofs about AsyncCell, for any set of pending values and lists of any  *)
(* length: a pending value has one result, whoever awaits it and however   *)
(* many Timeouts have expired on it, and All answers in list order.        *)
(***************************************************************************)
EXTENDS AsyncCell, SequenceTheorems, WellFoundedInduction, TLAPS

Results == Outcomes \cup Ready \cup {"already"}

Ops == [mold : {"none", "await", "timeout", "all", "race"}, list : Seq(Values),
        todo : Seq(Values), got : Seq(Results), blocked : BOOLEAN]

Typed ==
  /\ cell \in [Cells -> {"absent", "waiting", "done"} \cup Outcomes]
  /\ sent \in [Cells -> {"nothing"} \cup Outcomes]
  /\ seen \in [Cells -> SUBSET Results]
  /\ op \in Ops

\* Done stands in the cell the program is blocked on, and in no other.
DoneIsBlocked ==
  /\ op.blocked => op.todo # <<>> /\ Current \in Cells /\ cell[Current] = "done"
  /\ \A c \in Cells : cell[c] = "done" => op.blocked /\ c = Current

\* What a cell has cached is what the task sent.
CachedIsSent == \A c \in Cells : cell[c] \in Outcomes => cell[c] = sent[c]

IInv == Typed /\ DoneIsBlocked /\ CachedIsSent /\ OneResult

LEMMA Words ==
  /\ "nothing" \notin Outcomes /\ "done" \notin Outcomes
  /\ "waiting" \notin Outcomes /\ "absent" \notin Outcomes
BY DEF Outcomes

LEMMA ListsAreSeqs ==
  ASSUME NEW list \in Lists
  PROVE  list \in Seq(Values) /\ list # <<>> /\ Head(list) \in Values
<1>1. PICK n \in 1..MaxList : list \in [1..n -> Values]
  BY DEF Lists
<1>2. n \in Nat /\ n >= 1
  BY <1>1, AsyncCellAssumption
<1>3. list \in Seq(Values) /\ Len(list) = n
  BY <1>1, <1>2
<1> QED
  BY <1>2, <1>3

LEMMA Started == Init => IInv
BY DEF Init, IInv, Typed, DoneIsBlocked, CachedIsSent, OneResult, NoOp, Ops, Outcomes

\* The item in hand gets a result: nothing is blocked any more.
LEMMA GotKeeps ==
  ASSUME IInv, op.todo # <<>>, NEW result \in Results, Got(result),
         Current \in Cells => result = sent[Current] /\ result # "nothing",
         UNCHANGED sent
  PROVE  op' \in Ops /\ ~op'.blocked /\ seen' \in [Cells -> SUBSET Results] /\ OneResult'
<1>1. Tail(op.todo) \in Seq(Values) /\ Append(op.got, result) \in Seq(Results)
  BY DEF IInv, Typed, Ops
<1>2. op' \in Ops /\ ~op'.blocked
  <2> DEFINE t == Tail(op.todo)
             g == Append(op.got, result)
  <2>1. op' = [op EXCEPT !.todo = t, !.got = g, !.blocked = FALSE] /\ op \in Ops
    BY DEF Got, IInv, Typed
  <2>2. t \in Seq(Values) /\ g \in Seq(Results)
    BY <1>1
  <2> HIDE DEF t, g
  <2> QED
    BY <2>1, <2>2 DEF Ops
<1>3. seen' = IF Current \in Cells THEN [seen EXCEPT ![Current] = @ \cup {result}] ELSE seen
  BY DEF Got
<1>4. seen' \in [Cells -> SUBSET Results] /\ OneResult'
  BY <1>3 DEF IInv, Typed, OneResult
<1> QED
  BY <1>2, <1>4

LEMMA Kept == IInv /\ [Next]_vars => IInv'
<1> SUFFICES ASSUME IInv, [Next]_vars PROVE IInv'
  OBVIOUS
<1> USE Words
<1>0. /\ cell \in [Cells -> {"absent", "waiting", "done"} \cup Outcomes]
      /\ sent \in [Cells -> {"nothing"} \cup Outcomes]
      /\ seen \in [Cells -> SUBSET Results] /\ op \in Ops
  BY DEF IInv, Typed
<1>o. op.todo \in Seq(Values) /\ NoOp \in Ops /\ NoOp.blocked = FALSE
  BY <1>0 DEF Ops, NoOp
<1>n. Running => ~op.blocked
  BY DEF Running, NoOp
<1>1. ASSUME NEW c \in Cells, Make(c)
      PROVE  IInv'
  BY <1>0, <1>1 DEF Make, IInv, Typed, DoneIsBlocked, CachedIsSent, OneResult, Current
<1>2. ASSUME NEW c \in Cells, TaskSends(c)
      PROVE  IInv'
  <2>1. seen[c] = {} /\ cell[c] \notin Outcomes
    BY <1>0, <1>2 DEF TaskSends, IInv, CachedIsSent, OneResult
  <2> QED
    BY <1>0, <1>2, <2>1
       DEF TaskSends, IInv, Typed, DoneIsBlocked, CachedIsSent, OneResult, Current
<1>3. ASSUME NEW list \in Lists, Race(list)
      PROVE  IInv'
  <2>1. op' \in Ops /\ ~op'.blocked
    <3>1. <<Head(list)>> \in Seq(Values) /\ list \in Seq(Values)
      BY ListsAreSeqs
    <3> DEFINE todo == <<Head(list)>>
    <3>2. CASE op' = [NoOp EXCEPT !.mold = "race", !.list = list, !.todo = todo]
      <4>1. todo \in Seq(Values)
        BY <3>1
      <4> HIDE DEF todo
      <4> QED
        BY <1>o, <3>1, <3>2, <4>1 DEF Ops
    <3> QED
      BY <1>0, <1>n, <1>3, <3>2 DEF Race
  <2> QED
    BY <1>0, <1>n, <1>3, <2>1
       DEF Race, IInv, Typed, DoneIsBlocked, CachedIsSent, OneResult
<1>4. ASSUME NEW list \in Lists, NEW mold \in {"await", "timeout", "all"}, Begin(mold, list)
      PROVE  IInv'
  <2>1. op' \in Ops /\ ~op'.blocked
    <3>1. list \in Seq(Values)
      BY ListsAreSeqs
    <3> QED
      BY <1>o, <1>4, <3>1 DEF Begin, Ops
  <2> QED
    BY <1>0, <1>n, <1>4, <2>1
       DEF Begin, IInv, Typed, DoneIsBlocked, CachedIsSent, OneResult
<1>5. CASE ResolveReady
  <2>1. Current \notin Cells /\ Current \in Results
    BY <1>5, ReadyAssumption DEF ResolveReady, Results
  <2>2. op' \in Ops /\ ~op'.blocked /\ seen' \in [Cells -> SUBSET Results] /\ OneResult'
    BY <1>5, <2>1, GotKeeps DEF ResolveReady
  <2>3. ~op.blocked
    BY <2>1 DEF IInv, DoneIsBlocked
  <2> QED
    BY <1>0, <1>5, <2>2, <2>3 DEF ResolveReady, IInv, Typed, DoneIsBlocked, CachedIsSent
<1>6. CASE TakeReceiver
  <2>1. op' \in Ops /\ op'.blocked /\ op'.todo = op.todo
    BY <1>0, <1>6 DEF TakeReceiver, Ops
  <2> QED
    BY <1>0, <1>6, <2>1
       DEF TakeReceiver, IInv, Typed, DoneIsBlocked, CachedIsSent, OneResult, Current
<1>7. CASE ReplayResult
  <2>1. cell[Current] \in Outcomes /\ cell[Current] = sent[Current] /\ Current \in Cells
    BY <1>0, <1>7 DEF ReplayResult, IInv, DoneIsBlocked, CachedIsSent
  <2>2. op' \in Ops /\ ~op'.blocked /\ seen' \in [Cells -> SUBSET Results] /\ OneResult'
    <3>1. Got(cell[Current]) /\ cell[Current] \in Results
      BY <1>7, <2>1 DEF ReplayResult, Results
    <3> QED
      BY <1>7, <2>1, <3>1, GotKeeps DEF ReplayResult
  <2> QED
    BY <1>0, <1>7, <2>2 DEF ReplayResult, IInv, Typed, DoneIsBlocked, CachedIsSent
<1>8. CASE Receive
  <2>1. Current \in Cells /\ op.todo # <<>> /\ sent[Current] \in Outcomes
    BY <1>0, <1>8 DEF Receive, IInv, DoneIsBlocked
  <2>2. op' \in Ops /\ ~op'.blocked /\ seen' \in [Cells -> SUBSET Results] /\ OneResult'
    BY <1>8, <2>1, GotKeeps DEF Receive, Results
  <2> QED
    BY <1>0, <1>8, <2>1, <2>2 DEF Receive, IInv, Typed, DoneIsBlocked, CachedIsSent
<1>9. CASE Expire
  BY <1>0, <1>o, <1>9 DEF Expire, IInv, Typed, DoneIsBlocked, CachedIsSent, OneResult
<1>10. CASE Finish
  <2>1. ~op.blocked
    BY <1>10 DEF Finish, IInv, DoneIsBlocked
  <2> QED
    BY <1>0, <1>o, <1>10, <2>1
       DEF Finish, IInv, Typed, DoneIsBlocked, CachedIsSent, OneResult
<1>11. CASE UNCHANGED vars
  BY <1>0, <1>11 DEF vars, IInv, Typed, DoneIsBlocked, CachedIsSent, OneResult, Current
<1> QED
  BY <1>1, <1>2, <1>3, <1>4, <1>5, <1>6, <1>7, <1>8, <1>9, <1>10, <1>11 DEF Next, Resolve

\* Every await of every copy of a pending value is given what its task sent,
\* and no other result (unmold.rs:58).
THEOREM OneResultEach == Spec => []OneResult
<1>1. IInv => OneResult
  BY DEF IInv
<1> QED
  BY Started, Kept, <1>1, PTL DEF Spec
-----------------------------------------------------------------------------
(* All.                                                                    *)

\* While a mold is evaluated there is no answer; All has the results of the
\* first items of its list, and the others are still to be resolved.
InOrder ==
  /\ ~Running => answer = NoAnswer
  /\ op.mold = "all" =>
       /\ Len(op.got) + Len(op.todo) = Len(op.list)
       /\ \A i \in 1..Len(op.got) : op.got[i] = ResultOf(op.list[i]) /\ op.got[i] # "nothing"
       /\ \A i \in 1..Len(op.todo) : op.todo[i] = op.list[Len(op.got) + i]

AInv == IInv /\ InOrder /\ AllInListOrder

LEMMA Least ==
  ASSUME NEW S, S \subseteq Nat, S # {}
  PROVE  Min(S) \in S /\ \A j \in S : Min(S) <= j
<1> DEFINE L == OpToRel(<, Nat)
<1>1. IsWellFoundedOn(L, Nat)
  BY NatLessThanWellFounded
<1>2. \A m, n \in Nat : m < n => <<m, n>> \in L
  BY DEF OpToRel
<1> HIDE DEF L
<1>3. PICK i \in S : \A j \in S : ~(<<j, i>> \in L)
  BY <1>1, WFMin
<1>4. \A j \in S : ~(j < i)
  BY <1>2, <1>3
<1>5. \A j \in S : i <= j
  BY <1>4
<1> QED
  BY <1>5 DEF Min

LEMMA NoOpFacts ==
  NoOp.mold = "none" /\ NoAnswer.mold = "none" /\ (Running => op.mold = "none")
BY DEF NoOp, NoAnswer, Running

\* An item's result joins those of the items before it.
LEMMA GotInOrder ==
  ASSUME IInv, InOrder, op.todo # <<>>, NEW result \in Results, Got(result),
         result = ResultOf(Current), result # "nothing", UNCHANGED <<sent, answer>>
  PROVE  InOrder' /\ AllInListOrder'
<1>p. PICK t, g : t = Tail(op.todo) /\ g = Append(op.got, result)
  OBVIOUS
<1>0. /\ op \in Ops /\ op.todo \in Seq(Values) /\ op.got \in Seq(Results)
      /\ op.list \in Seq(Values)
  BY DEF IInv, Typed, Ops
<1>n. /\ Len(t) = Len(op.todo) - 1 /\ Len(g) = Len(op.got) + 1 /\ Len(op.todo) >= 1
      /\ Len(op.todo) \in Nat /\ Len(op.got) \in Nat /\ Len(op.list) \in Nat
      /\ Len(t) \in Nat /\ Len(g) \in Nat
  BY <1>0, <1>p
<1>1. /\ \A i \in 1..Len(t) : t[i] = op.todo[i + 1]
      /\ \A i \in 1..Len(op.got) : g[i] = op.got[i]
      /\ g[Len(op.got) + 1] = result /\ Current = op.todo[1]
  BY <1>0, <1>p DEF Current
<1>2. op'.mold = op.mold /\ op'.list = op.list /\ op'.todo = t /\ op'.got = g
  BY <1>0, <1>p DEF Got, Ops
<1>3. ~Running /\ answer = NoAnswer
  BY DEF Running, NoOp, InOrder
<1>4. AllInListOrder'
  BY <1>3, NoOpFacts DEF AllInListOrder
<1>5. ASSUME op.mold = "all"
      PROVE  /\ Len(g) + Len(t) = Len(op.list)
             /\ \A i \in 1..Len(g) : g[i] = ResultOf(op.list[i]) /\ g[i] # "nothing"
             /\ \A i \in 1..Len(t) : t[i] = op.list[Len(g) + i]
  <2>1. /\ Len(op.got) + Len(op.todo) = Len(op.list)
        /\ \A i \in 1..Len(op.got) : op.got[i] = ResultOf(op.list[i]) /\ op.got[i] # "nothing"
        /\ \A i \in 1..Len(op.todo) : op.todo[i] = op.list[Len(op.got) + i]
    BY <1>5 DEF InOrder
  <2>2. g[Len(op.got) + 1] = ResultOf(op.list[Len(op.got) + 1])
    BY <1>1, <1>n, <2>1
  <2>3. \A i \in 1..Len(g) : i \in 1..Len(op.got) \/ i = Len(op.got) + 1
    BY <1>n
  <2>4. \A i \in 1..Len(g) : g[i] = ResultOf(op.list[i]) /\ g[i] # "nothing"
    BY <1>1, <2>1, <2>2, <2>3
  <2>5. ASSUME NEW i \in 1..Len(t)
        PROVE  t[i] = op.list[Len(g) + i]
    <3>1. i + 1 \in 1..Len(op.todo) /\ Len(g) + i = Len(op.got) + (i + 1)
      BY <1>n
    <3> QED
      BY <1>1, <2>1, <3>1
  <2>6. Len(g) + Len(t) = Len(op.list)
    <3>1. PICK x, y, n, m : /\ x = Len(op.got) /\ y = Len(op.todo)
                            /\ n = Len(g) /\ m = Len(t)
      OBVIOUS
    <3>2. x \in Nat /\ y \in Nat /\ n = x + 1 /\ m = y - 1
      BY <1>n, <3>1
    <3>3. n + m = x + y
      BY <3>2
    <3> QED
      BY <2>1, <3>1, <3>3, Zenon
  <2> QED
    BY <2>4, <2>5, <2>6
<1>6. \A v \in Values : ResultOf(v)' = ResultOf(v)
  BY DEF ResultOf
<1>7. ASSUME op.mold = "all" PROVE \A i \in 1..Len(g) : op.list[i] \in Values
  <2>1. \A x, y, z \in Nat : y >= 1 /\ (x + 1) + (y - 1) = z => x + 1 <= z
    OBVIOUS
  <2>2. Len(g) + Len(t) = Len(op.list)
    BY <1>5, <1>7
  <2>3. Len(g) <= Len(op.list)
    BY <1>n, <2>1, <2>2
  <2>4. \A i \in 1..Len(g) : i \in 1..Len(op.list)
    BY <1>n, <2>3
  <2> QED
    BY <1>0, <2>4
<1>8. (op.mold = "all" =>
         /\ Len(op.got) + Len(op.todo) = Len(op.list)
         /\ \A i \in 1..Len(op.got) : op.got[i] = ResultOf(op.list[i]) /\ op.got[i] # "nothing"
         /\ \A i \in 1..Len(op.todo) : op.todo[i] = op.list[Len(op.got) + i])'
  BY <1>2, <1>5, <1>6, <1>7
<1>9. (~Running => answer = NoAnswer)'
  BY <1>3
<1> QED
  BY <1>4, <1>8, <1>9 DEF InOrder

\* What All answers with, given the results of its list.
LEMMA AnswersInOrder ==
  ASSUME NEW CONSTANT got \in Seq(Results), NEW CONSTANT list \in Seq(Values),
         Len(got) = Len(list), \A i \in 1..Len(got) : got[i] = ResultOf(list[i])
  PROVE  LET bad == {i \in DOMAIN list : ResultOf(list[i]) \in Rejections}
         IN  IF bad = {} THEN Outcome(got) = [i \in DOMAIN list |-> ResultOf(list[i])]
             ELSE \E i \in bad : (\A j \in bad : i <= j) /\ Outcome(got) = <<ResultOf(list[i])>>
<1> DEFINE bad == {i \in DOMAIN list : ResultOf(list[i]) \in Rejections}
<1>1. DOMAIN list = 1..Len(got) /\ DOMAIN got = 1..Len(got) /\ Len(got) \in Nat
  OBVIOUS
<1>2. Rejected(got) = bad
  BY <1>1 DEF Rejected
<1>3. CASE bad = {}
  <2>1. Outcome(got) = got
    BY <1>2, <1>3 DEF Outcome
  <2>2. got = [i \in DOMAIN list |-> ResultOf(list[i])]
    BY <1>1
  <2> QED
    BY <1>3, <2>1, <2>2
<1>4. CASE bad # {}
  <2>1. bad \subseteq Nat
    BY <1>1
  <2> HIDE DEF bad
  <2>2. Min(bad) \in bad /\ \A j \in bad : Min(bad) <= j
    BY <1>4, <2>1, Least
  <2>3. Outcome(got) = <<got[Min(bad)]>>
    BY <1>2, <1>4 DEF Outcome
  <2>4. Min(bad) \in 1..Len(got)
    BY <1>1, <2>2 DEF bad
  <2>5. Outcome(got) = <<ResultOf(list[Min(bad)])>>
    BY <2>3, <2>4
  <2> QED
    BY <1>4, <2>2, <2>5 DEF bad
<1> QED
  BY <1>3, <1>4

LEMMA AllStarted == Init => AInv
<1> SUFFICES ASSUME Init PROVE AInv
  OBVIOUS
<1>1. IInv
  BY Started
<1>2. InOrder /\ AllInListOrder
  BY NoOpFacts DEF Init, InOrder, AllInListOrder, Running
<1> QED
  BY <1>1, <1>2 DEF AInv

\* A step that gives no item a result.
LEMMA WaitsInOrder ==
  ASSUME AInv, op.mold = "all" =>
           op'.list = op.list /\ op'.todo = op.todo /\ op'.got = op.got,
         op'.mold = op.mold, Running => Running', UNCHANGED answer,
         \A c \in Cells : sent[c] # "nothing" => sent'[c] = sent[c],
         Running => UNCHANGED sent
  PROVE  InOrder' /\ AllInListOrder'
<1>0. op \in Ops /\ op.list \in Seq(Values) /\ op.got \in Seq(Results)
  BY DEF AInv, IInv, Typed, Ops
<1>1. \A v \in Values : ResultOf(v) # "nothing" => ResultOf(v)' = ResultOf(v)
  BY DEF ResultOf, Values
<1>2. (~Running => answer = NoAnswer)'
  BY DEF AInv, InOrder
<1>3. ASSUME op.mold = "all"
      PROVE  (/\ Len(op.got) + Len(op.todo) = Len(op.list)
              /\ \A i \in 1..Len(op.got) : op.got[i] = ResultOf(op.list[i]) /\ op.got[i] # "nothing"
              /\ \A i \in 1..Len(op.todo) : op.todo[i] = op.list[Len(op.got) + i])'
  <2>1. /\ Len(op.got) + Len(op.todo) = Len(op.list)
        /\ \A i \in 1..Len(op.got) : op.got[i] = ResultOf(op.list[i]) /\ op.got[i] # "nothing"
        /\ \A i \in 1..Len(op.todo) : op.todo[i] = op.list[Len(op.got) + i]
    BY <1>3 DEF AInv, InOrder
  <2>2. ASSUME NEW i \in 1..Len(op.got) PROVE op.list[i] \in Values
    <3>1. Len(op.got) \in Nat /\ Len(op.todo) \in Nat /\ Len(op.list) \in Nat
      BY <1>0 DEF Ops
    <3>p. PICK g, t, l : g = Len(op.got) /\ t = Len(op.todo) /\ l = Len(op.list)
      OBVIOUS
    <3>3. g \in Nat /\ t \in Nat /\ l \in Nat /\ g + t = l /\ i \in 1..g
      BY <2>1, <2>2, <3>1, <3>p, Zenon
    <3>4. i \in 1..l
      BY ONLY <3>3, SMT
    <3>2. i \in 1..Len(op.list)
      BY <3>4, <3>p, Zenon
    <3> QED
      BY <1>0, <3>2
  <2>3. \A i \in 1..Len(op.got) : op.got[i] = ResultOf(op.list[i])'
    <3>1. op'.list = op.list
      BY <1>3
    <3>2. \A i \in 1..Len(op.got) : ResultOf(op.list[i])' = ResultOf(op.list[i])
      BY <1>1, <2>1, <2>2, <3>1 DEF ResultOf, Values
    <3> QED
      BY <2>1, <3>2
  <2> QED
    BY <1>3, <2>1, <2>3
<1>4. InOrder'
  BY <1>2, <1>3 DEF InOrder
<1>5. AllInListOrder'
  <2>1. CASE Running
    BY <2>1 DEF AInv, AllInListOrder, ResultOf
  <2>2. CASE ~Running
    BY <2>2, NoOpFacts DEF AInv, InOrder, AllInListOrder
  <2> QED
    BY <2>1, <2>2
<1> QED
  BY <1>4, <1>5

LEMMA AllKept == AInv /\ [Next]_vars => AInv'
<1> SUFFICES ASSUME AInv, [Next]_vars PROVE AInv'
  OBVIOUS
<1>0. IInv /\ InOrder /\ AllInListOrder /\ IInv'
  BY Kept DEF AInv
<1>t. /\ cell \in [Cells -> {"absent", "waiting", "done"} \cup Outcomes]
      /\ sent \in [Cells -> {"nothing"} \cup Outcomes] /\ op \in Ops
  BY <1>0 DEF IInv, Typed
<1> USE Words
<1> SUFFICES InOrder' /\ AllInListOrder'
  BY <1>0 DEF AInv
<1>1. ASSUME NEW c \in Cells, Make(c)
      PROVE  InOrder' /\ AllInListOrder'
  <2>1. UNCHANGED <<op, sent, answer>>
    BY <1>1 DEF Make
  <2> QED
    BY <2>1, WaitsInOrder DEF Running
<1>2. ASSUME NEW c \in Cells, TaskSends(c)
      PROVE  InOrder' /\ AllInListOrder'
  <2>1. /\ ~Running /\ UNCHANGED <<op, answer>>
        /\ \A d \in Cells : sent[d] # "nothing" => sent'[d] = sent[d]
    BY <1>2, <1>t DEF TaskSends, Running, NoOp
  <2> QED
    BY <2>1, WaitsInOrder DEF Running
<1>3. ASSUME NEW list \in Lists, Race(list)
      PROVE  InOrder' /\ AllInListOrder'
  <2>1. op' = op \/ op'.mold = "race"
    BY <1>3 DEF Race, NoOp
  <2>2. op' = op => Running'
    BY <1>3 DEF Race, Running
  <2>3. answer' = NoAnswer \/ (answer'.mold = "race" /\ op' = op)
    BY <1>3 DEF Race
  <2>4. Running
    BY <1>3 DEF Race
  <2> QED
    BY <2>1, <2>2, <2>3, <2>4, NoOpFacts DEF InOrder, AllInListOrder, Running
<1>4. ASSUME NEW list \in Lists, NEW mold \in {"await", "timeout", "all"}, Begin(mold, list)
      PROVE  InOrder' /\ AllInListOrder'
  <2>1. op'.list = list /\ op'.todo = list /\ op'.got = <<>> /\ answer' = NoAnswer
    BY <1>4 DEF Begin, NoOp
  <2>2. list \in Seq(Values)
    BY ListsAreSeqs
  <2>3. /\ Len(<<>>) + Len(list) = Len(list)
        /\ \A i \in 1..Len(list) : list[i] = list[Len(<<>>) + i]
        /\ \A i \in 1..Len(<<>>) : FALSE
    BY <2>2
  <2>4. InOrder'
    BY <2>1, <2>3 DEF InOrder
  <2> QED
    BY <2>1, <2>4, NoOpFacts DEF AllInListOrder
<1>5. CASE ResolveReady
  <2>1. Current \in Ready /\ Current \in Results /\ Current # "nothing" /\ Current = ResultOf(Current)
    BY <1>5 DEF ResolveReady, Results, Ready, ResultOf
  <2> QED
    BY <1>0, <1>5, <2>1, GotInOrder DEF ResolveReady
<1>6. CASE TakeReceiver
  <2>1. /\ op'.mold = op.mold /\ op'.list = op.list /\ op'.todo = op.todo /\ op'.got = op.got
        /\ ~Running /\ op'.blocked /\ UNCHANGED <<sent, answer>>
    BY <1>6, <1>t DEF TakeReceiver, Running, NoOp, Ops
  <2> QED
    BY <2>1, WaitsInOrder
<1>7. ASSUME op.todo # <<>>, Current \in Cells, Got(sent[Current]),
             sent[Current] \in Outcomes, UNCHANGED <<sent, answer>>
      PROVE  InOrder' /\ AllInListOrder'
  <2>1. sent[Current] = ResultOf(Current)
    BY <1>7, ReadyAssumption DEF ResultOf
  <2> QED
    BY <1>0, <1>7, <2>1, GotInOrder DEF Results
<1>8. CASE ReplayResult
  <2>1. cell[Current] \in Outcomes /\ cell[Current] = sent[Current] /\ Current \in Cells
    BY <1>0, <1>t, <1>8 DEF ReplayResult, IInv, DoneIsBlocked, CachedIsSent
  <2> QED
    BY <1>7, <1>8, <2>1 DEF ReplayResult
<1>9. CASE Receive
  <2>1. Current \in Cells /\ op.todo # <<>> /\ sent[Current] \in Outcomes
    BY <1>0, <1>t, <1>9 DEF Receive, IInv, DoneIsBlocked
  <2> QED
    BY <1>7, <1>9, <2>1 DEF Receive
<1>10. CASE Expire
  BY <1>10, NoOpFacts DEF Expire, InOrder, AllInListOrder, Running
<1>11. CASE Finish
  <2>1. /\ op' = NoOp /\ answer'.mold = op.mold /\ answer'.list = op.list
        /\ answer'.result = Outcome(op.got) /\ op.todo = <<>> /\ sent' = sent
    BY <1>11 DEF Finish
  <2>2. InOrder'
    BY <2>1, NoOpFacts DEF InOrder, Running
  <2>3. ASSUME op.mold = "all"
        PROVE  AllInListOrder'
    <3>1. /\ Len(op.got) + Len(op.todo) = Len(op.list) /\ op.got \in Seq(Results)
          /\ op.list \in Seq(Values)
          /\ \A i \in 1..Len(op.got) : op.got[i] = ResultOf(op.list[i])
      BY <1>0, <1>t, <2>3 DEF InOrder, Ops
    <3>2. Len(op.todo) = 0
      BY <2>1
    <3>3. Len(op.got) = Len(op.list)
      BY <3>1, <3>2
    <3> PICK got, list : got = op.got /\ list = op.list
      OBVIOUS
    <3>4. LET bad == {i \in DOMAIN list : ResultOf(list[i]) \in Rejections}
          IN  IF bad = {} THEN Outcome(got) = [i \in DOMAIN list |-> ResultOf(list[i])]
              ELSE \E i \in bad : (\A j \in bad : i <= j) /\ Outcome(got) = <<ResultOf(list[i])>>
      BY <3>1, <3>3, AnswersInOrder
    <3> QED
      BY <2>1, <3>4 DEF AllInListOrder, ResultOf
  <2>4. op.mold # "all" => AllInListOrder'
    BY <2>1 DEF AllInListOrder
  <2> QED
    BY <2>2, <2>3, <2>4
<1>12. CASE UNCHANGED vars
  <2>1. UNCHANGED <<op, sent, answer>>
    BY <1>12 DEF vars
  <2> QED
    BY <2>1, WaitsInOrder DEF Running
<1> QED
  BY <1>1, <1>2, <1>3, <1>4, <1>5, <1>6, <1>8, <1>9, <1>10, <1>11, <1>12 DEF Next, Resolve

\* All answers with what the tasks of its list have sent, in the order of the
\* list, or throws the rejection that comes first in it (mold.rs:4715,4725).
THEOREM AllKeepsListOrder == Spec => []AllInListOrder
<1>1. AInv => AllInListOrder
  BY DEF AInv
<1> QED
  BY AllStarted, AllKept, <1>1, PTL DEF Spec
=============================================================================
