----------------------------- MODULE AsyncCell -----------------------------
(***************************************************************************)
(* The pending Async values of the interpreter (interpreter/unmold.rs and  *)
(* mold.rs).  Copies of one value share a cell, a PendingState behind a    *)
(* mutex, and awaiting any copy goes through the cell: it takes the        *)
(* receiver of the task's channel out, blocks on it, and caches what came. *)
(* A Timeout that expires puts the receiver back.  All resolves its items  *)
(* one by one; Race resolves the first.                                    *)
(*                                                                         *)
(* The program runs on one thread and so do the tasks, only while the      *)
(* program blocks.  A list holds copies of pending values, a value several *)
(* times perhaps, and values that are settled from the start.              *)
(***************************************************************************)
EXTENDS Naturals, Sequences, FiniteSetsExt

CONSTANTS
  Cells,  \* pending Async values the program may make
  MaxList \* bound on the lists given to All and Race

ASSUME AsyncCellAssumption == MaxList \in Nat \ {0}

Outcomes == {"value", "error", "closed"} \* closed: the task died without a word
Ready == {"fulfilled", "rejected"}       \* settled when they were made
Rejections == {"error", "closed", "already", "rejected"}

ASSUME ReadyAssumption == Cells \cap Ready = {}

Values == Cells \cup Ready
Lists == UNION {[1..n -> Values] : n \in 1..MaxList}

VARIABLES
  cell,   \* the PendingState of each value
  sent,   \* what each task has sent through its channel
  op,     \* the mold being evaluated, its list, and how far it is
  answer, \* history: the mold just finished, its list and what it answered
  seen    \* history: the results the program has been given for each cell

vars == <<cell, sent, op, answer, seen>>

NoOp == [mold |-> "none", list |-> <<>>, todo |-> <<>>, got |-> <<>>, blocked |-> FALSE]
NoAnswer == [mold |-> "none", list |-> <<>>, result |-> <<>>]

Init ==
  /\ cell = [c \in Cells |-> "absent"]
  /\ sent = [c \in Cells |-> "nothing"]
  /\ op = NoOp /\ answer = NoAnswer
  /\ seen = [c \in Cells |-> {}]

Running == op = NoOp
Current == Head(op.todo)
Made(list) == \A i \in DOMAIN list : list[i] \in Cells => cell[list[i]] # "absent"
-----------------------------------------------------------------------------
\* sleep, and every other call that spawns a task and answers pending.
Make(c) ==
  /\ Running /\ cell[c] = "absent"
  /\ cell' = [cell EXCEPT ![c] = "waiting"]
  /\ UNCHANGED <<sent, op, answer, seen>>

\* All[list], Timeout[c, ms], and `c >=> x`.
Begin(mold, list) ==
  /\ Running /\ Made(list)
  /\ mold \in {"await", "timeout"} => Len(list) = 1 /\ list[1] \in Cells
  /\ op' = [NoOp EXCEPT !.mold = mold, !.list = list, !.todo = list]
  /\ answer' = NoAnswer
  /\ UNCHANGED <<cell, sent, seen>>

\* Race looks for a value fulfilled from the start, then resolves the first.
Race(list) ==
  /\ Running /\ Made(list)
  /\ IF \E i \in DOMAIN list : list[i] = "fulfilled"
     THEN /\ answer' = [mold |-> "race", list |-> list, result |-> <<"fulfilled">>]
          /\ UNCHANGED op
     ELSE /\ op' = [NoOp EXCEPT !.mold = "race", !.list = list, !.todo = <<Head(list)>>]
          /\ answer' = NoAnswer
  /\ UNCHANGED <<cell, sent, seen>>

\* The item being resolved has a result.
Got(result) ==
  /\ op' = [op EXCEPT !.todo = Tail(@), !.got = Append(@, result), !.blocked = FALSE]
  /\ seen' = IF Current \in Cells THEN [seen EXCEPT ![Current] = @ \cup {result}] ELSE seen

\* resolve_async: a value settled from the start is returned as it is.
ResolveReady ==
  /\ op.todo # <<>> /\ Current \in Ready
  /\ Got(Current)
  /\ UNCHANGED <<cell, sent, answer>>

\* Done is left in the cell while the program blocks on the receiver.
TakeReceiver ==
  /\ op.todo # <<>> /\ Current \in Cells /\ ~op.blocked
  /\ cell[Current] = "waiting"
  /\ cell' = [cell EXCEPT ![Current] = "done"]
  /\ op' = [op EXCEPT !.blocked = TRUE]
  /\ UNCHANGED <<sent, answer, seen>>

\* The cached result is replayed; Done is a rejection of its own.
ReplayResult ==
  /\ op.todo # <<>> /\ Current \in Cells /\ ~op.blocked
  /\ cell[Current] \notin {"absent", "waiting"}
  /\ Got(IF cell[Current] = "done" THEN "already" ELSE cell[Current])
  /\ UNCHANGED <<cell, sent, answer>>

\* While the program blocks the runtime runs every spawned task.
TaskSends(c) ==
  /\ op.blocked /\ cell[c] # "absent" /\ sent[c] = "nothing"
  /\ \E outcome \in Outcomes : sent' = [sent EXCEPT ![c] = outcome]
  /\ UNCHANGED <<cell, op, answer, seen>>

\* Slips, for the mutant of OneResult only.
ReceiveUncached ==
  /\ op.blocked /\ sent[Current] # "nothing"
  /\ Got(sent[Current])
  /\ UNCHANGED <<cell, sent, answer>>
Receive ==
  /\ op.blocked /\ sent[Current] # "nothing"
  /\ cell' = [cell EXCEPT ![Current] = sent[Current]]
  /\ Got(sent[Current])
  /\ UNCHANGED <<sent, answer>>

\* Slips, for the mutant of AwaitReturns only.
ExpireWaitsAgain ==
  /\ op.blocked /\ op.mold = "timeout" /\ sent[Current] = "nothing"
  /\ cell' = [cell EXCEPT ![Current] = "waiting"]
  /\ op' = [op EXCEPT !.blocked = FALSE]
  /\ UNCHANGED <<sent, answer, seen>>
\* tokio polls the receiver before the deadline, so only a task that has sent
\* nothing times out; TimeoutError is thrown.
Expire ==
  /\ op.blocked /\ op.mold = "timeout" /\ sent[Current] = "nothing"
  /\ cell' = [cell EXCEPT ![Current] = "waiting"]
  /\ answer' = [mold |-> "timeout", list |-> op.list, result |-> <<"timeout">>]
  /\ op' = NoOp
  /\ UNCHANGED <<sent, seen>>

Rejected(results) == {i \in DOMAIN results : results[i] \in Rejections}

\* Slips, for the mutant of AllInListOrder only.
LastRejection(results) ==
  IF Rejected(results) = {} THEN results ELSE <<results[Max(Rejected(results))]>>
\* All throws the first rejection of the list, if there is one.
Outcome(results) ==
  IF Rejected(results) = {} THEN results ELSE <<results[Min(Rejected(results))]>>

Finish ==
  /\ ~Running /\ op.todo = <<>>
  /\ answer' = [mold |-> op.mold, list |-> op.list, result |-> Outcome(op.got)]
  /\ op' = NoOp
  /\ UNCHANGED <<cell, sent, seen>>

Resolve ==
  ResolveReady \/ TakeReceiver \/ ReplayResult \/ Receive \/ Expire

Next ==
  \/ \E c \in Cells : Make(c) \/ TaskSends(c)
  \/ \E list \in Lists : Race(list) \/ \E mold \in {"await", "timeout", "all"} : Begin(mold, list)
  \/ Resolve
  \/ Finish

Spec == Init /\ [][Next]_vars

\* The interpreter goes on, and a task that runs comes to an end.
FairSpec == Spec /\ WF_vars(Resolve) /\ WF_vars(Finish) /\ \A c \in Cells : WF_vars(TaskSends(c))
-----------------------------------------------------------------------------
TypeOK ==
  /\ cell \in [Cells -> {"absent", "waiting", "done"} \cup Outcomes]
  /\ sent \in [Cells -> {"nothing"} \cup Outcomes]
  /\ op.mold \in {"none", "await", "timeout", "all", "race"} /\ op.blocked \in BOOLEAN
  /\ op.list \in Seq(Values) /\ op.todo \in Seq(Values)

\* Whichever copies of a pending value are awaited, how often, in lists, after
\* Timeouts: the program is given one result for it, the one its task sent.
OneResult == \A c \in Cells : seen[c] \subseteq {sent[c]} \ {"nothing"}

\* All answers with the results of its items in the order of the list, whatever
\* order their tasks ended in; if any is rejected it throws the rejection that
\* comes first in the list, not the one that came first in time.
ResultOf(v) == IF v \in Ready THEN v ELSE sent[v]
AllInListOrder ==
  answer.mold = "all" =>
    LET result(i) == ResultOf(answer.list[i])
        bad == {i \in DOMAIN answer.list : result(i) \in Rejections}
    IN  IF bad = {} THEN answer.result = [i \in DOMAIN answer.list |-> result(i)]
        ELSE \E i \in bad : (\A j \in bad : i <= j) /\ answer.result = <<result(i)>>

\* A program that blocks on an Async goes on: the tasks it waits for run while
\* it does, a receiver taken by an earlier Timeout included.
AwaitReturns == ~Running ~> Running
=============================================================================
