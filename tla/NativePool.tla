----------------------------- MODULE NativePool -----------------------------
(***************************************************************************)
(* The resource pools of the native runtime (native_runtime/tls.c): a      *)
(* table of pools under one process-wide mutex and condition variable.  A  *)
(* poolAcquire that finds its pool exhausted registers as a waiter and     *)
(* hands the wait to a background pthread, which resolves the pending      *)
(* Async.  Cancel[async]() (native_runtime/core.c) may pthread_cancel that *)
(* thread.  Code between a lock and its unlock is one step here; a program *)
(* thread may be at any point of any other call meanwhile.                 *)
(*                                                                         *)
(* The in-use tokens are the set PoolTokenTable shows its open-addressing  *)
(* table to be; resources travel with their token and are left out.  The   *)
(* program may release any integer; -1, the table's tombstone, is left out *)
(* here and everywhere below (see the README).                             *)
(***************************************************************************)
EXTENDS Integers, Sequences, FiniteSets

CONSTANTS
  Calls,       \* the poolAcquire calls of a run: each makes one Async object
  MaxStates,   \* TAIDA_POOL_MAX_STATES: pool ids run from 1 to MaxStates - 1
  Sizes,       \* maxSize and maxIdle values the program configures
  StrayTokens, \* tokens the program may pass to poolRelease unasked, but -1
  Cancellable, \* the calls whose pending Async the program may Cancel
  Starved,     \* the pools whose idle queue may fail to grow
  MayFail      \* whether the other allocations and pthread_create may fail

ASSUME NativePoolAssumption ==
  /\ IsFiniteSet(Calls)
  /\ MaxStates \in Nat \ {0}
  /\ Sizes \subseteq Nat
  /\ StrayTokens \subseteq Nat
  /\ Cancellable \subseteq Calls
  /\ Starved \subseteq Nat
  /\ MayFail \in BOOLEAN

VARIABLES
  nextId,  \* taida_pool_next_id
  created, \* ids whose entry of taida_pool_states is not NULL
  pool,    \* the taida_pool_state of each id
  call,    \* the progress of each poolAcquire call and of its wait thread
  mutex    \* taida_pool_mutex between steps: Unlocked, or the dead wait
           \* thread that left it locked

vars == <<nextId, created, pool, call, mutex>>

PoolId == 1..(MaxStates - 1)
Unlocked == "unlocked"

\* Where a call is: "new" before it is made; "registered" between waiting++
\* and pthread_create; its thread "ready" for the mutex, "asleep" in
\* pthread_cond_timedwait, "expired" when the deadline woke it and "dying" when
\* a Cancel did, both still without the mutex; "dead" with it; "resolving"
\* after its last unlock; "done" when its Async is fulfilled.
Blocked == {"registered", "ready", "asleep", "expired", "dying", "dead"}
Places == {"new", "resolving", "done"} \cup Blocked
Results == {"none", "ok", "closed", "timeout", "invalid", "other"}

PoolStates == [open : BOOLEAN, maxSize : Nat, maxIdle : Nat,
               idle : Seq(Nat \ {0}), inUse : SUBSET (Nat \ {0}),
               nextToken : Nat \ {0}, waiting : Nat]
CallStates == [at : Places, pool : Nat, result : Results, token : Nat,
               held : BOOLEAN, cancelled : BOOLEAN]

\* calloc, and the fields poolCreate sets: a maxIdle above maxSize is cut down.
FreshPool(open, m, i) ==
  [open |-> open, maxSize |-> m, maxIdle |-> IF i > m THEN m ELSE i,
   idle |-> <<>>, inUse |-> {}, nextToken |-> 1, waiting |-> 0]
NewCall == [at |-> "new", pool |-> 0, result |-> "none", token |-> 0,
            held |-> FALSE, cancelled |-> FALSE]

Init ==
  /\ nextId = 1
  /\ created = {}
  /\ pool = [p \in PoolId |-> FreshPool(FALSE, 0, 0)]
  /\ call = [c \in Calls |-> NewCall]
  /\ mutex = Unlocked
-----------------------------------------------------------------------------
\* poolCreate.  An id is consumed whether or not the table has room for it;
\* nextId stops at MaxStates here, where the code fails the same way forever.
Create(m, i) ==
  /\ mutex = Unlocked
  /\ nextId' = IF nextId = MaxStates THEN nextId ELSE nextId + 1
  /\ \/ /\ nextId \in PoolId
        /\ created' = created \cup {nextId}
        /\ pool' = [pool EXCEPT ![nextId] = FreshPool(TRUE, m, i)]
     \/ /\ nextId = MaxStates \/ MayFail
        /\ UNCHANGED <<created, pool>>
  /\ UNCHANGED <<call, mutex>>

\* taida_pool_try_take_slot: the last idle entry with the token it had, or a
\* fresh token while fewer than maxSize are in use.  PoolTokenTable shows why
\* its third outcome, a full table, does not occur.
SlotFreeOffByOne(s) == s.idle # <<>> \/ Cardinality(s.inUse) <= s.maxSize
SlotFree(s) == s.idle # <<>> \/ Cardinality(s.inUse) < s.maxSize
TokenOf(s) == IF s.idle # <<>> THEN s.idle[Len(s.idle)] ELSE s.nextToken
TakeForgetsReuse(s) ==
  IF s.idle # <<>> THEN [s EXCEPT !.idle = SubSeq(@, 1, Len(@) - 1)]
  ELSE [s EXCEPT !.nextToken = @ + 1, !.inUse = @ \cup {s.nextToken}]
Take(s) ==
  [s EXCEPT !.idle = IF s.idle # <<>> THEN SubSeq(s.idle, 1, Len(s.idle) - 1)
                                      ELSE s.idle,
            !.nextToken = IF s.idle # <<>> THEN @ ELSE @ + 1,
            !.inUse = @ \cup {TokenOf(s)}]

Grantable(s) == s.open /\ SlotFree(s)

StillWaiting(p) == pool
LeaveWaiting(p) == [pool EXCEPT ![p].waiting = @ - 1]

Done(c, p, r) ==
  call' = [call EXCEPT ![c] = [@ EXCEPT !.at = "done", !.pool = p, !.result = r]]

\* poolAcquire settled before it waits: a bad timeout or handle, a closed
\* pool, or (AcquireNow) a free slot.
AcquireRefused(c, p) ==
  /\ call[c].at = "new" /\ mutex = Unlocked
  /\ IF p \in created /\ ~pool[p].open THEN Done(c, p, "closed")
                                       ELSE Done(c, p, "invalid")
  /\ UNCHANGED <<nextId, created, pool, mutex>>

AcquireNow(c, p) ==
  /\ call[c].at = "new" /\ mutex = Unlocked
  /\ p \in created /\ Grantable(pool[p])
  /\ call' = [call EXCEPT ![c] =
                [@ EXCEPT !.at = "done", !.pool = p, !.result = "ok",
                          !.token = TokenOf(pool[p]), !.held = TRUE]]
  /\ pool' = [pool EXCEPT ![p] = Take(@)]
  /\ UNCHANGED <<nextId, created, mutex>>

\* poolAcquire of an exhausted pool: counted as waiting at once, ...
Register(c, p) ==
  /\ call[c].at = "new" /\ mutex = Unlocked
  /\ p \in created /\ pool[p].open
  /\ ~SlotFree(pool[p])
  /\ call' = [call EXCEPT ![c] = [@ EXCEPT !.at = "registered", !.pool = p]]
  /\ pool' = [pool EXCEPT ![p].waiting = @ + 1]
  /\ UNCHANGED <<nextId, created, mutex>>

\* ... then, the mutex released, its thread is started and the pending Async
\* returned, or the registration is undone under the mutex.
SpawnWaiter(c) ==
  /\ call[c].at = "registered"
  /\ call' = [call EXCEPT ![c].at = "ready"]
  /\ UNCHANGED <<nextId, created, pool, mutex>>

SpawnFails(c) ==
  /\ MayFail
  /\ call[c].at = "registered" /\ mutex = Unlocked
  /\ Done(c, call[c].pool, "other")
  /\ pool' = LeaveWaiting(call[c].pool)
  /\ UNCHANGED <<nextId, created, mutex>>
-----------------------------------------------------------------------------
\* taida_pool_acquire_wait_thread holding the mutex, at the top of its loop.
WaiterFindsClosed(c) ==
  LET p == call[c].pool IN
  /\ call[c].at = "ready" /\ mutex = Unlocked
  /\ ~pool[p].open
  /\ call' = [call EXCEPT ![c] = [@ EXCEPT !.at = "resolving", !.result = "closed"]]
  /\ pool' = LeaveWaiting(p)
  /\ UNCHANGED <<nextId, created, mutex>>

WaiterTakes(c) ==
  LET p == call[c].pool IN
  /\ call[c].at = "ready" /\ mutex = Unlocked
  /\ Grantable(pool[p])
  /\ call' = [call EXCEPT ![c] =
                [@ EXCEPT !.at = "resolving", !.result = "ok",
                          !.token = TokenOf(pool[p]), !.held = TRUE]]
  /\ pool' = [pool EXCEPT ![p] = [Take(pool[p]) EXCEPT !.waiting = @ - 1]]
  /\ UNCHANGED <<nextId, created, mutex>>

\* pthread_cond_timedwait releases the mutex and sleeps in one step.
WaiterSleeps(c) ==
  LET p == call[c].pool IN
  /\ call[c].at = "ready" /\ mutex = Unlocked
  /\ pool[p].open
  /\ ~SlotFree(pool[p])
  /\ call' = [call EXCEPT ![c].at = "asleep"]
  /\ UNCHANGED <<nextId, created, pool, mutex>>

\* The deadline wakes a sleeper: pthread_cond_timedwait will return ETIMEDOUT
\* whatever happens to the pool before the thread has the mutex again.
DeadlineRearmed(c) == FALSE
TimesOutUnchecked(c) == call[c].at \in {"ready", "asleep"}
TimesOut(c) == call[c].at = "asleep"

Expires(c) ==
  /\ TimesOut(c)
  /\ call' = [call EXCEPT ![c].at = "expired"]
  /\ UNCHANGED <<nextId, created, pool, mutex>>

\* ETIMEDOUT with the mutex held: neither open nor the slots are looked at.
TimedOut(c) ==
  [call EXCEPT ![c] = [@ EXCEPT !.at = "resolving", !.result = "timeout"]]

WaiterTimesOut(c) ==
  /\ call[c].at = "expired" /\ mutex = Unlocked
  /\ call' = TimedOut(c)
  /\ pool' = LeaveWaiting(call[c].pool)
  /\ UNCHANGED <<nextId, created, mutex>>

SpuriousWakeup(c) ==
  /\ call[c].at = "asleep"
  /\ call' = [call EXCEPT ![c].at = "ready"]
  /\ UNCHANGED <<nextId, created, pool, mutex>>

\* Value and tag, the release fence, then the fulfilled status.
Resolve(c) ==
  /\ call[c].at = "resolving"
  /\ call' = [call EXCEPT ![c].at = "done"]
  /\ UNCHANGED <<nextId, created, pool, mutex>>

\* pthread_cond_broadcast: every sleeper, whichever pool it waits for.
WokenNobody == call
Woken == [c \in Calls |->
            IF call[c].at = "asleep" THEN [call[c] EXCEPT !.at = "ready"]
                                     ELSE call[c]]
-----------------------------------------------------------------------------
\* poolRelease of a token in use.  The lease of the call that held it ends.
Unhold(f, p, t) ==
  [c \in Calls |-> IF f[c].pool = p /\ f[c].token = t
                   THEN [f[c] EXCEPT !.held = FALSE] ELSE f[c]]

Releasable(p, t) ==
  /\ mutex = Unlocked
  /\ p \in created /\ pool[p].open
  /\ t \in pool[p].inUse
  /\ \/ t \in StrayTokens
     \/ \E c \in Calls : call[c].at = "done" /\ call[c].pool = p
                         /\ call[c].held /\ call[c].token = t

Deposit(s, t) == IF Len(s.idle) < s.maxIdle THEN Append(s.idle, t) ELSE s.idle
GivenBackInUse(s, t) == [s EXCEPT !.idle = Deposit(s, t)]
GivenBack(s, t) == [s EXCEPT !.inUse = @ \ {t}, !.idle = Deposit(s, t)]

Release(p, t) ==
  /\ Releasable(p, t)
  /\ pool' = [pool EXCEPT ![p] = GivenBack(@, t)]
  /\ call' = Unhold(Woken, p, t)
  /\ UNCHANGED <<nextId, created, mutex>>

\* taida_pool_push_idle out of memory: the token has left the in-use table,
\* the resource is dropped, and the early return skips the broadcast.
ReleaseOutOfMemory(p, t) ==
  /\ p \in Starved
  /\ Releasable(p, t)
  /\ Len(pool[p].idle) < pool[p].maxIdle
  /\ pool' = [pool EXCEPT ![p].inUse = @ \ {t}]
  /\ call' = Unhold(call, p, t)
  /\ UNCHANGED <<nextId, created, mutex>>

ClosedUncounted(s) ==
  [s EXCEPT !.open = FALSE, !.idle = <<>>, !.inUse = {}, !.waiting = 0]
Closed(s) == [s EXCEPT !.open = FALSE, !.idle = <<>>, !.inUse = {}]

Close(p) ==
  /\ mutex = Unlocked
  /\ p \in created /\ pool[p].open
  /\ pool' = [pool EXCEPT ![p] = Closed(@)]
  /\ call' = Woken
  /\ UNCHANGED <<nextId, created, mutex>>

\* Cancel of a pending Async the program holds: pthread_cancel and detach.
CancelSettles(c) ==
  /\ c \in Cancellable
  /\ call[c].at \in {"ready", "asleep", "expired", "resolving"}
  /\ call' = [call EXCEPT ![c] = [@ EXCEPT !.cancelled = TRUE, !.result = "other"]]
  /\ UNCHANGED <<nextId, created, pool, mutex>>
Cancel(c) ==
  /\ c \in Cancellable
  /\ call[c].at \in {"ready", "asleep", "expired", "resolving"}
  /\ call' = [call EXCEPT ![c].cancelled = TRUE]
  /\ UNCHANGED <<nextId, created, pool, mutex>>

\* pthread_cond_timedwait is the thread's only cancellation point: it takes
\* the mutex back and the thread exits with it, no cleanup handler pushed.
CancelActs(c) ==
  /\ call[c].cancelled
  /\ call[c].at = "asleep"
  /\ call' = [call EXCEPT ![c].at = "dying"]
  /\ UNCHANGED <<nextId, created, pool, mutex>>

DieAsleep(c) ==
  /\ call[c].at = "dying" /\ mutex = Unlocked
  /\ call' = [call EXCEPT ![c].at = "dead"]
  /\ mutex' = c
  /\ UNCHANGED <<nextId, created, pool>>
-----------------------------------------------------------------------------
AcquireStep(c, p) == AcquireRefused(c, p) \/ AcquireNow(c, p) \/ Register(c, p)
SpawnStep(c) == SpawnWaiter(c) \/ SpawnFails(c)
WaiterChecks(c) == WaiterFindsClosed(c) \/ WaiterTakes(c) \/ WaiterSleeps(c)
SleeperStep(c) == Expires(c) \/ SpuriousWakeup(c) \/ CancelActs(c)
ReleaseStep(p, t) == Release(p, t) \/ ReleaseOutOfMemory(p, t)

Next ==
  \/ \E m \in Sizes \ {0}, i \in Sizes : Create(m, i)
  \/ \E c \in Calls, p \in PoolId : AcquireStep(c, p)
  \/ \E c \in Calls : SpawnStep(c) \/ WaiterChecks(c) \/ SleeperStep(c)
                      \/ WaiterTimesOut(c) \/ DieAsleep(c)
                      \/ Resolve(c) \/ Cancel(c)
  \/ \E p \in PoolId : (\E t \in pool[p].inUse : ReleaseStep(p, t)) \/ Close(p)

Spec == Init /\ [][Next]_vars

\* A started call and its thread run on; the deadline is absolute, so a thread
\* that keeps going back to sleep is timed out there in the end.  Nothing
\* makes the program release, close or cancel.
Fairness ==
  \A c \in Calls : /\ WF_vars(SpawnStep(c)) /\ WF_vars(Resolve(c))
                   /\ SF_vars(WaiterChecks(c)) /\ SF_vars(Expires(c))
                   /\ WF_vars(WaiterTimesOut(c)) /\ WF_vars(DieAsleep(c))

FairSpec == Spec /\ Fairness
-----------------------------------------------------------------------------
TypeOK ==
  /\ nextId \in 1..MaxStates
  /\ created \in SUBSET PoolId
  /\ pool \in [PoolId -> PoolStates]
  /\ call \in [Calls -> CallStates]
  /\ mutex \in {Unlocked} \cup Calls

\* Pools never hold more than maxSize resources, idle and on lease together,
\* nor more than maxIdle idle ones, whatever tokens but -1 the program
\* releases, so the leases that fast acquires, woken threads and releases make
\* never add up to more than poolCreate allowed.
WithinCapacity(s) ==
  /\ Len(s.idle) + Cardinality(s.inUse) <= s.maxSize
  /\ Len(s.idle) <= s.maxIdle
Capacity == \A p \in created : WithinCapacity(pool[p])

\* A token is in one place only: in use, idle once, or not handed out yet.  A
\* poolRelease that let a token be idle twice, or idle and in use, would lend
\* one resource to two callers.
Apart(s) ==
  /\ \A t \in s.inUse : t < s.nextToken
  /\ \A k \in 1..Len(s.idle) : s.idle[k] < s.nextToken /\ s.idle[k] \notin s.inUse
  /\ \A j, k \in 1..Len(s.idle) : j # k => s.idle[j] # s.idle[k]
TokensApart == \A p \in created : Apart(pool[p])

\* While a pool is open the tokens it counts as in use are exactly those of
\* the calls that were granted one and whose release has not been accepted,
\* one call each: no lease is lost, none is shared by two calls.
Holders(p) == {c \in Calls : call[c].pool = p /\ call[c].held}
LeasesAccounted ==
  \A p \in created : pool[p].open =>
    /\ pool[p].inUse = {call[c].token : c \in Holders(p)}
    /\ \A c, d \in Holders(p) : call[c].token = call[d].token => c = d

\* poolHealth.waiting is the number of acquires blocked on the pool: raised on
\* one thread, lowered on another, in five places.  The wait threads that died
\* in their sleep stay counted; without Cancel there are none.
Counted(p) == {c \in Calls : call[c].pool = p /\ call[c].at \in Blocked}
WaitingCounted == \A p \in created : pool[p].waiting = Cardinality(Counted(p))

\* No lost wakeup: a thread sleeps only while its pool is open and has no free
\* slot, though every pool shares one condition variable and threads expire or
\* die in their sleep.  Starved pools are left out: there a release that cannot
\* store the resource frees its slot and wakes nobody.
NoLostWakeup ==
  \A c \in Calls : call[c].at = "asleep" /\ call[c].pool \notin Starved =>
    pool[call[c].pool].open /\ ~SlotFree(pool[call[c].pool])

\* A thread that never exits with the mutex leaves every pool operation, and
\* poolHealth, able to answer.
PoolAnswers == mutex = Unlocked

\* A settled call is settled once: its result and token never change after its
\* thread's last unlock, though release, close and Cancel still run.
SettledOnce ==
  [][\A c \in Calls : call[c].result # "none" =>
       call'[c].result = call[c].result /\ call'[c].token = call[c].token]_vars

\* Every poolAcquire call made is answered in the end, by a slot, a close or its
\* deadline, unless a cancelled wait thread has died with the mutex.
EveryAcquireSettles ==
  <>[](mutex = Unlocked => \A c \in Calls : call[c].at \in {"new", "done"})

\* Each pool that is not starved implements the abstract pool.  A call times
\* out at the instant its deadline wakes it, and then its pool is open and full;
\* the thread, which does not look again, may only have the mutex, and report
\* the timeout, after a release or a close has changed that.
Outcome(p) ==
  [c \in Calls |-> IF call[c].pool # p THEN "none"
                   ELSE IF call[c].at = "expired" THEN "timeout"
                   ELSE IF call[c].at \in Blocked THEN "waiting"
                   ELSE call[c].result]
Lease(p) == [c \in Calls |-> IF call[c].pool = p THEN call[c].token ELSE 0]
Abstract(p) == INSTANCE ResourcePool WITH
  phase <- IF p \notin created THEN "absent"
           ELSE IF pool[p].open THEN "open" ELSE "closed",
  maxSize <- pool[p].maxSize, maxIdle <- pool[p].maxIdle,
  idle <- pool[p].idle, inUse <- pool[p].inUse,
  nextToken <- pool[p].nextToken,
  outcome <- Outcome(p), lease <- Lease(p)
ImplementsPool ==
  /\ \A p \in PoolId \ Starved : Abstract(p)!Init
  /\ [][\A p \in PoolId \ Starved : [Abstract(p)!Next]_(Abstract(p)!vars)]_vars
=============================================================================
