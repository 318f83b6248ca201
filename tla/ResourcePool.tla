---------------------------- MODULE ResourcePool ----------------------------
(***************************************************************************)
(* What one pool of the taida-lang/pool package promises, whatever the     *)
(* backend: a waiting semaphore over leased tokens.  Every acquire call is *)
(* settled by one atomic step, and there are no threads, no locks and no   *)
(* wakeups here.  NativePool (the pthread runtime) and InterpPool (the     *)
(* tokio tasks of the interpreter) are both shown to implement it.         *)
(***************************************************************************)
EXTENDS Integers, Sequences, FiniteSets

CONSTANTS
  Calls,  \* the poolAcquire calls of a run, one identity per call
  Sizes   \* the maxSize and maxIdle values the program configures

VARIABLES
  phase,     \* "absent" before poolCreate, then "open", then "closed"
  maxSize, maxIdle,
  idle,      \* tokens deposited with their resource; the last one is reused
  inUse,     \* tokens out on lease
  nextToken, \* the next fresh token
  outcome,   \* outcome[c]: "none", "waiting", or how call c was settled
  lease      \* lease[c]: the token call c was granted (0: none)

vars == <<phase, maxSize, maxIdle, idle, inUse, nextToken, outcome, lease>>

Outcomes == {"none", "waiting", "ok", "closed", "timeout", "invalid", "other"}

TypeOK ==
  /\ phase \in {"absent", "open", "closed"}
  /\ maxSize \in Nat /\ maxIdle \in Nat
  /\ idle \in Seq(Nat \ {0})
  /\ inUse \in SUBSET (Nat \ {0})
  /\ nextToken \in Nat \ {0}
  /\ outcome \in [Calls -> Outcomes]
  /\ lease \in [Calls -> Nat]

Init ==
  /\ phase = "absent"
  /\ maxSize = 0 /\ maxIdle = 0
  /\ idle = <<>> /\ inUse = {} /\ nextToken = 1
  /\ outcome = [c \in Calls |-> "none"]
  /\ lease = [c \in Calls |-> 0]

SlotFree == idle # <<>> \/ Cardinality(inUse) < maxSize

Create ==
  /\ phase = "absent"
  /\ \E m \in Sizes \ {0}, i \in Sizes :
       /\ maxSize' = m
       /\ maxIdle' = IF i > m THEN m ELSE i
  /\ phase' = "open"
  /\ UNCHANGED <<idle, inUse, nextToken, outcome, lease>>

\* A lease is granted to a new call or to a waiting one.
Grant(c) ==
  /\ outcome[c] \in {"none", "waiting"}
  /\ phase = "open"
  /\ \/ /\ idle # <<>>
        /\ idle' = SubSeq(idle, 1, Len(idle) - 1)
        /\ lease' = [lease EXCEPT ![c] = idle[Len(idle)]]
        /\ UNCHANGED nextToken
     \/ /\ idle = <<>>
        /\ Cardinality(inUse) < maxSize
        /\ lease' = [lease EXCEPT ![c] = nextToken]
        /\ nextToken' = nextToken + 1
        /\ UNCHANGED idle
  /\ inUse' = inUse \cup {lease'[c]}
  /\ outcome' = [outcome EXCEPT ![c] = "ok"]
  /\ UNCHANGED <<phase, maxSize, maxIdle>>

\* A call waits only while no slot is free, and its deadline passes only then:
\* the timeout is decided here, and may be reported later.
Wait(c) ==
  /\ outcome[c] = "none"
  /\ phase = "open"
  /\ ~SlotFree
  /\ outcome' = [outcome EXCEPT ![c] = "waiting"]
  /\ UNCHANGED <<phase, maxSize, maxIdle, idle, inUse, nextToken, lease>>

TimeOut(c) ==
  /\ outcome[c] = "waiting"
  /\ phase = "open"
  /\ ~SlotFree
  /\ outcome' = [outcome EXCEPT ![c] = "timeout"]
  /\ UNCHANGED <<phase, maxSize, maxIdle, idle, inUse, nextToken, lease>>

\* "closed" is reported only by a closed pool, and to every waiter of it.
Refuse(c) ==
  /\ \/ /\ outcome[c] \in {"none", "waiting"}
        /\ phase = "closed"
        /\ outcome' = [outcome EXCEPT ![c] = "closed"]
     \/ /\ outcome[c] = "none"
        /\ outcome' = [outcome EXCEPT ![c] = "invalid"]
     \/ /\ outcome[c] = "waiting"
        /\ outcome' = [outcome EXCEPT ![c] = "other"]
  /\ UNCHANGED <<phase, maxSize, maxIdle, idle, inUse, nextToken, lease>>

Release(t) ==
  /\ phase = "open"
  /\ t \in inUse
  /\ inUse' = inUse \ {t}
  /\ idle' = IF Len(idle) < maxIdle THEN Append(idle, t) ELSE idle
  /\ UNCHANGED <<phase, maxSize, maxIdle, nextToken, outcome, lease>>

Close ==
  /\ phase = "open"
  /\ phase' = "closed"
  /\ idle' = <<>> /\ inUse' = {}
  /\ UNCHANGED <<maxSize, maxIdle, nextToken, outcome, lease>>

Next ==
  \/ Create
  \/ \E c \in Calls : Grant(c) \/ Wait(c) \/ TimeOut(c) \/ Refuse(c)
  \/ \E t \in inUse : Release(t)
  \/ Close

Spec == Init /\ [][Next]_vars
=============================================================================
