----------------------------- MODULE InterpPool -----------------------------
(***************************************************************************)
(* The resource pools of the interpreter (interpreter/os.rs): a table of   *)
(* pools under one mutex.  A poolAcquire that finds its pool exhausted     *)
(* spawns a tokio task that looks at the table every two milliseconds      *)
(* until it can settle, and sends the result over a oneshot channel.       *)
(*                                                                         *)
(* The tokio runtime is a current-thread one: its tasks run only while the *)
(* program is inside block_on, that is, while it awaits something, and the *)
(* program runs only while they do not.  A task that settles sends its     *)
(* result before it yields, so each poll is one step.  Cancel in the       *)
(* interpreter answers a new Async and leaves the task alone, so it        *)
(* changes nothing here.                                                   *)
(***************************************************************************)
EXTENDS Integers, Sequences, FiniteSets

CONSTANTS
  Calls,      \* the poolAcquire calls of a run
  MaxPools,   \* pool ids run from 1 to MaxPools; the code has no bound
  Sizes,      \* maxSize and maxIdle values the program configures
  StrayTokens \* tokens the program may pass to poolRelease unasked

ASSUME InterpPoolAssumption ==
  IsFiniteSet(Calls) /\ MaxPools \in Nat /\ Sizes \subseteq Nat /\ StrayTokens \subseteq Nat

VARIABLES
  created, \* keys of pool_states: the ids below next_pool_id
  pool,    \* the PoolState of each id
  call,    \* each poolAcquire call and its task
  awaiting \* what the program blocks on: a call, "other", or nothing (None)

vars == <<created, pool, call, awaiting>>

None == "none"

\* block_on for something that is not a pool: a sleep, a socket, or a Timeout
\* mold around a poolAcquire, which gives the receiver back when it expires.
Other == "other"

PoolId == 1..MaxPools
PoolStates == [open : BOOLEAN, maxSize : Nat, maxIdle : Nat,
               idle : Seq(Nat \ {0}), inUse : SUBSET (Nat \ {0}),
               nextToken : Nat \ {0}, waiting : Nat]

CallStates == [at : {"new", "waiting", "done"}, pool : Nat,
               result : {"none", "ok", "closed", "timeout", "invalid"},
               token : Nat, held : BOOLEAN]
NewCall == [at |-> "new", pool |-> 0, result |-> "none", token |-> 0, held |-> FALSE]
NoPool == [open |-> FALSE, maxSize |-> 0, maxIdle |-> 0, idle |-> <<>>,
           inUse |-> {}, nextToken |-> 1, waiting |-> 0]

Init ==
  /\ created = {}
  /\ pool = [p \in PoolId |-> NoPool]
  /\ call = [c \in Calls |-> NewCall]
  /\ awaiting = None

\* next_pool_id hands out ids in order.
Create(m, i) ==
  LET p == Cardinality(created) + 1 IN
  /\ awaiting = None /\ p \in PoolId
  /\ created' = created \cup {p}
  /\ pool' = [pool EXCEPT ![p] =
                [NoPool EXCEPT !.open = TRUE, !.maxSize = m,
                               !.maxIdle = IF i > m THEN m ELSE i]]
  /\ UNCHANGED <<call, awaiting>>

SlotFreeOffByOne(s) == s.idle # <<>> \/ Cardinality(s.inUse) <= s.maxSize
SlotFree(s) == s.idle # <<>> \/ Cardinality(s.inUse) < s.maxSize

\* idle.pop(), or a fresh token, entered in in_use_tokens.
TokenOf(s) == IF s.idle # <<>> THEN s.idle[Len(s.idle)] ELSE s.nextToken
Take(s) ==
  [s EXCEPT !.idle = IF s.idle # <<>> THEN SubSeq(s.idle, 1, Len(s.idle) - 1) ELSE <<>>,
            !.nextToken = IF s.idle # <<>> THEN @ ELSE @ + 1,
            !.inUse = @ \cup {TokenOf(s)}]

Granted(c, p) ==
  [call EXCEPT ![c] = [at |-> "done", pool |-> p, result |-> "ok",
                       token |-> TokenOf(pool[p]), held |-> TRUE]]

\* A bad timeout is refused before the pool is looked at, then an unknown pool,
\* then a closed one.
Refuse(c, p) ==
  /\ awaiting = None /\ call[c].at = "new"
  /\ \E r \in {"invalid"} \cup (IF p \in created /\ ~pool[p].open THEN {"closed"} ELSE {}) :
       call' = [call EXCEPT ![c] = [@ EXCEPT !.at = "done", !.pool = p, !.result = r]]
  /\ UNCHANGED <<created, pool, awaiting>>

AcquireNow(c, p) ==
  /\ awaiting = None /\ call[c].at = "new"
  /\ p \in created /\ pool[p].open /\ SlotFree(pool[p])
  /\ call' = Granted(c, p)
  /\ pool' = [pool EXCEPT ![p] = Take(@)]
  /\ UNCHANGED <<created, awaiting>>

Wait(c, p) ==
  /\ awaiting = None /\ call[c].at = "new"
  /\ p \in created /\ pool[p].open /\ ~SlotFree(pool[p])
  /\ call' = [call EXCEPT ![c] = [@ EXCEPT !.at = "waiting", !.pool = p]]
  /\ pool' = [pool EXCEPT ![p].waiting = @ + 1]
  /\ UNCHANGED <<created, awaiting>>
-----------------------------------------------------------------------------
\* One poll of a task under the lock.  The close is seen before a slot, a slot
\* before the deadline; a poll that finds none of them sleeps again.
PollFindsClosed(c) ==
  LET p == call[c].pool IN
  /\ awaiting # None /\ call[c].at = "waiting" /\ ~pool[p].open
  /\ call' = [call EXCEPT ![c] = [@ EXCEPT !.at = "done", !.result = "closed"]]
  /\ pool' = [pool EXCEPT ![p].waiting = @ - 1]
  /\ UNCHANGED <<created, awaiting>>

PollTakes(c) ==
  LET p == call[c].pool IN
  /\ awaiting # None /\ call[c].at = "waiting" /\ pool[p].open /\ SlotFree(pool[p])
  /\ call' = Granted(c, p)
  /\ pool' = [pool EXCEPT ![p] = [Take(pool[p]) EXCEPT !.waiting = @ - 1]]
  /\ UNCHANGED <<created, awaiting>>

DeadlineMoves(c) == FALSE
DeadlineFirst(c) == pool[call[c].pool].open
PastDeadline(c) == pool[call[c].pool].open /\ ~SlotFree(pool[call[c].pool])
PollTimesOut(c) ==
  /\ awaiting # None /\ call[c].at = "waiting" /\ PastDeadline(c)
  /\ call' = [call EXCEPT ![c] = [@ EXCEPT !.at = "done", !.result = "timeout"]]
  /\ pool' = [pool EXCEPT ![call[c].pool].waiting = @ - 1]
  /\ UNCHANGED <<created, awaiting>>

\* `>=>`, All and Race block on the receiver of a pending call.
AwaitCall(c) ==
  /\ awaiting = None /\ call[c].at = "waiting"
  /\ awaiting' = c
  /\ UNCHANGED <<created, pool, call>>

AwaitOther ==
  /\ awaiting = None
  /\ awaiting' = Other
  /\ UNCHANGED <<created, pool, call>>

Settled(c) == call[c].at = "done"
Resume ==
  /\ awaiting # None
  /\ awaiting # Other => Settled(awaiting)
  /\ awaiting' = None
  /\ UNCHANGED <<created, pool, call>>
-----------------------------------------------------------------------------
\* poolRelease: any token in use is accepted, whoever holds it.
Deposit(s, t) == IF Len(s.idle) < s.maxIdle THEN Append(s.idle, t) ELSE s.idle
GivenBackInUse(s, t) == [s EXCEPT !.idle = Deposit(s, t)]
GivenBack(s, t) == [s EXCEPT !.inUse = @ \ {t}, !.idle = Deposit(s, t)]
Release(p, t) ==
  /\ awaiting = None
  /\ p \in created /\ pool[p].open /\ t \in pool[p].inUse
  /\ \/ t \in StrayTokens
     \/ \E c \in Calls : call[c].at = "done" /\ call[c].pool = p
                         /\ call[c].held /\ call[c].token = t
  /\ pool' = [pool EXCEPT ![p] = GivenBack(@, t)]
  /\ call' = [c \in Calls |-> IF call[c].pool = p /\ call[c].token = t
                              THEN [call[c] EXCEPT !.held = FALSE] ELSE call[c]]
  /\ UNCHANGED <<created, awaiting>>

Closed(s) == [s EXCEPT !.open = FALSE, !.idle = <<>>, !.inUse = {}]
Close(p) ==
  /\ awaiting = None
  /\ p \in created /\ pool[p].open
  /\ pool' = [pool EXCEPT ![p] = Closed(@)]
  /\ UNCHANGED <<created, call, awaiting>>

Poll(c) == PollFindsClosed(c) \/ PollTakes(c) \/ PollTimesOut(c)

Next ==
  \/ \E m \in Sizes \ {0}, i \in Sizes : Create(m, i)
  \/ \E c \in Calls, p \in PoolId : Refuse(c, p) \/ AcquireNow(c, p) \/ Wait(c, p)
  \/ \E c \in Calls : Poll(c) \/ AwaitCall(c)
  \/ AwaitOther \/ Resume
  \/ \E p \in PoolId : (\E t \in pool[p].inUse : Release(p, t)) \/ Close(p)

Spec == Init /\ [][Next]_vars

\* Inside block_on the runtime keeps polling the spawned tasks, whose deadlines
\* are absolute, and whatever else the program awaits answers in the end.
\* Nothing makes the program await.
FairSpec == Spec /\ WF_vars(Resume) /\ \A c \in Calls : WF_vars(Poll(c))
-----------------------------------------------------------------------------
TypeOK ==
  /\ created \in SUBSET PoolId
  /\ pool \in [PoolId -> PoolStates]
  /\ call \in [Calls -> CallStates]
  /\ awaiting \in Calls \cup {None, Other}

\* Tasks and the program together never lease more than maxSize resources, and
\* a token is idle or in use, never both, and idle once.
CapacityAndTokens ==
  \A p \in created : LET s == pool[p] IN
    /\ Len(s.idle) + Cardinality(s.inUse) <= s.maxSize
    /\ \A t \in s.inUse : t < s.nextToken
    /\ \A k \in 1..Len(s.idle) : s.idle[k] < s.nextToken /\ s.idle[k] \notin s.inUse
    /\ \A j, k \in 1..Len(s.idle) : s.idle[j] = s.idle[k] => j = k

\* poolHealth.waiting is the number of calls whose task is still polling.
WaitingCounted ==
  \A p \in created :
    pool[p].waiting = Cardinality({c \in Calls : call[c].pool = p /\ call[c].at = "waiting"})

\* The tokens in use in an open pool are those of the calls that hold a lease,
\* those the program never awaits included.
LeasesAccounted ==
  \A p \in created : pool[p].open =>
    LET holders == {c \in Calls : call[c].pool = p /\ call[c].held}
    IN  /\ pool[p].inUse = {call[c].token : c \in holders}
        /\ \A c, d \in holders : call[c].token = call[d].token => c = d

\* The parts above, for programs, tasks and closed pools together.
PoolSound == TypeOK /\ CapacityAndTokens /\ WaitingCounted /\ LeasesAccounted

\* A program that awaits a poolAcquire gets its answer, even if nobody releases
\* or closes: the task it waits for is driven by that same await.
AwaitReturns == \A c \in Calls : awaiting = c ~> awaiting = None

\* What becomes of the calls of pool p, seen from outside.
Outcome(p) == [c \in Calls |-> IF call[c].pool # p THEN "none"
                               ELSE IF call[c].at = "waiting" THEN "waiting"
                               ELSE call[c].result]
Lease(p) == [c \in Calls |-> IF call[c].pool = p THEN call[c].token ELSE 0]

\* The polling pool implements the same abstract semaphore as the native one.
Abstract(p) == INSTANCE ResourcePool WITH
  phase <- IF p \notin created THEN "absent"
           ELSE IF pool[p].open THEN "open" ELSE "closed",
  maxSize <- pool[p].maxSize, maxIdle <- pool[p].maxIdle,
  idle <- pool[p].idle, inUse <- pool[p].inUse, nextToken <- pool[p].nextToken,
  outcome <- Outcome(p), lease <- Lease(p)
ImplementsPool ==
  /\ \A p \in PoolId : Abstract(p)!Init
  /\ [][\A p \in PoolId : [Abstract(p)!Next]_(Abstract(p)!vars)]_vars
=============================================================================
