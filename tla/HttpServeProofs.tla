-------------------------- MODULE HttpServeProofs --------------------------
(***************************************************************************)
(* Proofs about HttpServe, for any set of connections, any limits and any  *)
(* number of workers up to maxConnections, whatever clients and handlers   *)
(* do.  Sockets are handed from the accept loop to the queue to a worker;  *)
(* the invariant says who holds which and what each count counts.          *)
(***************************************************************************)
EXTENDS HttpServe, FiniteSetTheorems, SequenceTheorems, TLAPS

\* A worker carries its connection until it has closed the socket.
Free == {"idle", "asleep", "exited"}
Carries(w) == IF worker[w].at = "closed" THEN NoConn ELSE worker[w].conn

Queued(c) == \E k \in 1..Len(queue) : queue[k] = c
Carried(c) == \E w \in Workers : Carries(w) = c

\* The accept loop holds a socket only between accept and the queue, and a
\* worker has a connection exactly between taking it and leaving it.
Placed ==
  /\ accepted = NoConn <=> main # "holding"
  /\ \A w \in Workers : worker[w].conn = NoConn <=> worker[w].at \in Free

\* No connection is held in two places, and the open ones are those held.
HeldOnce ==
  /\ \A j, k \in 1..Len(queue) : queue[j] = queue[k] => j = k
  /\ \A c \in Conns : accepted = c => ~Queued(c) /\ ~Carried(c)
  /\ \A c \in Conns : ~(Queued(c) /\ Carried(c))
  /\ \A v, w \in Workers : Carries(v) = Carries(w) => v = w \/ Carries(v) = NoConn

OpenHeld ==
  \A c \in Conns : socket[c] = "open" <=> accepted = c \/ Queued(c) \/ Carried(c)

\* active counts the workers that have a connection, closed or not, and with
\* the queue and the socket being accepted it stays within maxConnections.
Engaged == {w \in Workers : worker[w].conn # NoConn}
Handling == {w \in Workers : worker[w].at = "handling"}
Idle == {w \in Workers : worker[w].at = "idle"}
ActiveCounted == active = Cardinality(Engaged)
Accepting == IF main \in {"accepting", "holding"} THEN 1 ELSE 0
Bounded == active + Len(queue) + Accepting <= MaxConn

\* Once the accept loop has stopped nothing is queued any more.
Ended ==
  /\ main \in {"joining", "returned"} => shutdown /\ queue = <<>>
  /\ main = "returned" => \A w \in Workers : worker[w].at = "exited"

Ownership == Placed /\ HeldOnce /\ OpenHeld
Counts == ActiveCounted /\ Bounded /\ HandlerLimit /\ NoLostSignal
IInv == TypeOK /\ Ownership /\ Counts /\ Ended
-----------------------------------------------------------------------------
(* Counting workers, and moving one. *)

WorkerStates == [at : WorkerPlaces, conn : Conns \cup {NoConn}]

\* Two finite sets that differ at most in x.
LEMMA DifferInOne ==
  ASSUME NEW S, NEW T, NEW x, IsFiniteSet(S), S \ {x} = T \ {x}
  PROVE  /\ IsFiniteSet(T) /\ Cardinality(S) \in Nat /\ Cardinality(T) \in Nat
         /\ x \in S /\ x \notin T => Cardinality(T) = Cardinality(S) - 1
         /\ x \notin S /\ x \in T => Cardinality(T) = Cardinality(S) + 1
         /\ (x \in S <=> x \in T) => Cardinality(T) = Cardinality(S)
<1> DEFINE R == S \ {x}
<1>1. IsFiniteSet(R) /\ Cardinality(R) \in Nat
  BY FS_RemoveElement, FS_CardinalityType
<1>2. T = R \/ T = R \cup {x}
  OBVIOUS
<1>3. S = R \/ S = R \cup {x}
  OBVIOUS
<1>4. x \notin R
  OBVIOUS
<1> HIDE DEF R
<1>5. /\ IsFiniteSet(R \cup {x})
      /\ Cardinality(R \cup {x}) = Cardinality(R) + 1
  BY <1>1, <1>4, FS_AddElement
<1>6. CASE T = R /\ S = R
  BY <1>1, <1>4, <1>6
<1>7. CASE T = R /\ S = R \cup {x}
  BY <1>1, <1>4, <1>5, <1>7
<1>8. CASE T = R \cup {x} /\ S = R
  BY <1>1, <1>4, <1>5, <1>8
<1>9. CASE T = R \cup {x} /\ S = R \cup {x}
  BY <1>1, <1>4, <1>5, <1>9
<1> QED
  BY <1>2, <1>3, <1>6, <1>7, <1>8, <1>9

\* What the counts of workers become when only worker w changes.
OnlyMoves(w) == \A v \in Workers : v # w => worker'[v] = worker[v]

LEMMA WorkersFinite ==
  /\ IsFiniteSet(Engaged) /\ Cardinality(Engaged) \in 0..Cardinality(Workers)
  /\ IsFiniteSet(Handling) /\ Cardinality(Handling) \in Nat
  /\ IsFiniteSet(Idle) /\ Cardinality(Idle) \in Nat
<1>1. IsFiniteSet(Workers) /\ Cardinality(Workers) \in Nat
  BY HttpServeAssumption, FS_CardinalityType
<1>2. Engaged \in SUBSET Workers /\ Handling \in SUBSET Workers /\ Idle \in SUBSET Workers
  BY DEF Engaged, Handling, Idle
<1>3. /\ IsFiniteSet(Engaged) /\ IsFiniteSet(Handling) /\ IsFiniteSet(Idle)
      /\ Cardinality(Engaged) <= Cardinality(Workers)
  BY <1>1, <1>2, FS_Subset
<1>4. /\ Cardinality(Engaged) \in Nat /\ Cardinality(Handling) \in Nat
      /\ Cardinality(Idle) \in Nat
  BY <1>3, FS_CardinalityType
<1> QED
  BY <1>1, <1>3, <1>4

LEMMA EngagedChange ==
  ASSUME NEW w \in Workers, OnlyMoves(w)
  PROVE  /\ Cardinality(Engaged)' \in 0..Cardinality(Workers)
         /\ Cardinality(Engaged) \in Nat
         /\ worker[w].conn # NoConn /\ worker'[w].conn = NoConn =>
              Cardinality(Engaged)' = Cardinality(Engaged) - 1
         /\ worker[w].conn = NoConn /\ worker'[w].conn # NoConn =>
              Cardinality(Engaged)' = Cardinality(Engaged) + 1
         /\ (worker[w].conn = NoConn <=> worker'[w].conn = NoConn) =>
              Cardinality(Engaged)' = Cardinality(Engaged)
<1>1. Engaged \ {w} = Engaged' \ {w}
  BY DEF OnlyMoves, Engaged
<1>2. w \in Engaged <=> worker[w].conn # NoConn
  BY DEF Engaged
<1>3. w \in Engaged' <=> worker'[w].conn # NoConn
  BY DEF Engaged
<1>4. Engaged' \in SUBSET Workers
  BY DEF Engaged
<1>5. Cardinality(Engaged)' <= Cardinality(Workers) /\ Cardinality(Workers) \in Nat
  BY <1>4, FS_Subset, FS_CardinalityType, HttpServeAssumption
<1> QED
  BY <1>1, <1>2, <1>3, <1>5, WorkersFinite, DifferInOne

LEMMA HandlingChange ==
  ASSUME NEW w \in Workers, OnlyMoves(w)
  PROVE  /\ Cardinality(Handling)' \in Nat /\ Cardinality(Handling) \in Nat
         /\ worker[w].at = "handling" /\ worker'[w].at # "handling" =>
              Cardinality(Handling)' = Cardinality(Handling) - 1
         /\ worker[w].at # "handling" /\ worker'[w].at = "handling" =>
              Cardinality(Handling)' = Cardinality(Handling) + 1
         /\ (worker[w].at = "handling" <=> worker'[w].at = "handling") =>
              Cardinality(Handling)' = Cardinality(Handling)
<1>1. Handling \ {w} = Handling' \ {w}
  BY DEF OnlyMoves, Handling
<1>2. w \in Handling <=> worker[w].at = "handling"
  BY DEF Handling
<1>3. w \in Handling' <=> worker'[w].at = "handling"
  BY DEF Handling
<1> QED
  BY <1>1, <1>2, <1>3, WorkersFinite, DifferInOne

LEMMA IdleChange ==
  ASSUME NEW w \in Workers, OnlyMoves(w)
  PROVE  /\ Cardinality(Idle)' \in Nat /\ Cardinality(Idle) \in Nat
         /\ worker[w].at = "idle" /\ worker'[w].at # "idle" =>
              Cardinality(Idle)' = Cardinality(Idle) - 1
         /\ worker[w].at # "idle" /\ worker'[w].at = "idle" =>
              Cardinality(Idle)' = Cardinality(Idle) + 1
         /\ (worker[w].at = "idle" <=> worker'[w].at = "idle") =>
              Cardinality(Idle)' = Cardinality(Idle)
<1>1. Idle \ {w} = Idle' \ {w}
  BY DEF OnlyMoves, Idle
<1>2. w \in Idle <=> worker[w].at = "idle"
  BY DEF Idle
<1>3. w \in Idle' <=> worker'[w].at = "idle"
  BY DEF Idle
<1> QED
  BY <1>1, <1>2, <1>3, WorkersFinite, DifferInOne

\* A worker at a new place keeps its connection; the others stay.
LEMMA GoesTo ==
  ASSUME TypeOK, NEW w \in Workers, NEW a \in WorkerPlaces, NEW b \in WorkerPlaces,
         Goes(w, a, b)
  PROVE  /\ worker' \in [Workers -> WorkerStates] /\ OnlyMoves(w)
         /\ worker[w].at = a /\ worker'[w].at = b
         /\ worker'[w].conn = worker[w].conn
BY DEF TypeOK, Goes, OnlyMoves, WorkerStates

LEMMA BecomesState ==
  ASSUME TypeOK, NEW w \in Workers, NEW r \in WorkerStates,
         worker' = [worker EXCEPT ![w] = r]
  PROVE  worker' \in [Workers -> WorkerStates] /\ OnlyMoves(w) /\ worker'[w] = r
BY DEF TypeOK, OnlyMoves, WorkerStates

\* Who holds what depends on these alone.
LEMMA SameHolders ==
  ASSUME HeldOnce, OpenHeld, accepted' = accepted, queue' = queue,
         \A w \in Workers : Carries(w)' = Carries(w),
         \A c \in Conns : socket'[c] = "open" <=> socket[c] = "open"
  PROVE  HeldOnce' /\ OpenHeld'
<1>1. \A c : (Queued(c)' <=> Queued(c)) /\ (Carried(c)' <=> Carried(c))
  BY DEF Queued, Carried
<1>2. HeldOnce'
  BY <1>1 DEF HeldOnce
<1>3. OpenHeld'
  BY <1>1 DEF OpenHeld
<1> QED
  BY <1>2, <1>3
-----------------------------------------------------------------------------
(* The steps, those that hand no socket on first. *)

Busy == WorkerPlaces \ (Free \cup {"closed"})

\* A step in which every worker keeps its hold and the queue, the socket being
\* accepted and the set of open sockets stay.
LEMMA KeepsHold ==
  ASSUME IInv, main' \in MainPlaces, main' = "holding" <=> main = "holding",
         UNCHANGED <<accepted, queue, active>>,
         socket' \in [Conns -> {"none", "backlog", "open", "closed", "refused"}],
         \A c \in Conns : socket'[c] = "open" <=> socket[c] = "open",
         worker' \in [Workers -> WorkerStates],
         \A w \in Workers : /\ worker'[w].conn = worker[w].conn
                            /\ worker'[w].at \in Free <=> worker[w].at \in Free
                            /\ worker'[w].at = "closed" <=> worker[w].at = "closed",
         requests' \in Nat, handled' \in Nat, shutdown' \in BOOLEAN,
         Bounded', HandlerLimit', NoLostSignal', Ended'
  PROVE  IInv'
<1>1. TypeOK'
  BY DEF IInv, TypeOK, WorkerStates
<1>2. Placed'
  BY DEF IInv, Ownership, Placed
<1>3. HeldOnce' /\ OpenHeld'
  BY SameHolders DEF IInv, Ownership, Carries
<1>4. ActiveCounted'
  <2>1. Engaged' = Engaged
    BY DEF Engaged
  <2> QED
    BY <2>1 DEF IInv, Counts, ActiveCounted
<1> QED
  BY <1>1, <1>2, <1>3, <1>4 DEF IInv, Ownership, Counts

\* The accept loop moves, or a client connects, and no worker does.
LEMMA MainOnlyIInv ==
  ASSUME IInv,
         \/ \E c \in Conns : Connect(c)
         \/ MainChecks \/ MainWakesForNothing \/ AcceptTimesOut \/ AcceptFails \/ Join
  PROVE  IInv'
<1>1. /\ UNCHANGED <<accepted, queue, worker, active, requests, handled, shutdown>>
      /\ main' \in MainPlaces
      /\ main' = "holding" <=> main = "holding"
  BY DEF IInv, TypeOK, MainPlaces, Connect, MainChecks, MainWakesForNothing,
         AcceptTimesOut, AcceptFails, Join
<1>2. /\ socket' \in [Conns -> {"none", "backlog", "open", "closed", "refused"}]
      /\ \A c \in Conns : socket'[c] = "open" <=> socket[c] = "open"
  BY DEF IInv, TypeOK, Connect, MainChecks, MainWakesForNothing, AcceptTimesOut,
         AcceptFails, Join
<1>3. Bounded'
  <2>1. active \in Nat /\ Len(queue) \in Nat /\ MaxConn \in Nat
    BY HttpServeAssumption, LenProperties, FS_CardinalityType DEF IInv, TypeOK
  <2>2. active + Len(queue) + Accepting <= MaxConn
    BY DEF IInv, Counts, Bounded
  <2>3. Accepting' = 1 => Accepting = 1 \/ ~Full
    BY DEF Accepting, Connect, MainChecks, MainWakesForNothing, AcceptTimesOut,
           AcceptFails, Join
  <2>4. Accepting \in {0, 1} /\ Accepting' \in {0, 1}
    BY DEF Accepting
  <2> QED
    BY <1>1, <2>1, <2>2, <2>3, <2>4 DEF Bounded, Full
<1>4. HandlerLimit' /\ NoLostSignal'
  BY <1>1 DEF IInv, Counts, HandlerLimit, NoLostSignal
<1>5. Ended'
  BY <1>1 DEF IInv, Ended, Connect, MainChecks, MainWakesForNothing, AcceptTimesOut,
              AcceptFails, Join
<1>6. worker' \in [Workers -> WorkerStates] /\ requests' \in Nat /\ handled' \in Nat
      /\ shutdown' \in BOOLEAN
  BY <1>1 DEF IInv, TypeOK, WorkerStates
<1> QED
  BY <1>1, <1>2, <1>3, <1>4, <1>5, <1>6, KeepsHold

\* A worker with an open connection goes on to another such place.
LEMMA BusyMove ==
  ASSUME IInv, NEW w \in Workers, NEW a \in Busy, NEW b \in Busy, Goes(w, a, b),
         UNCHANGED <<main, accepted, queue, socket, active, shutdown>>,
         requests' \in Nat, handled' \in Nat, HandlerLimit'
  PROVE  IInv'
<1> USE DEF Busy, Free
<1>1. /\ worker' \in [Workers -> WorkerStates] /\ OnlyMoves(w)
      /\ worker[w].at = a /\ worker'[w].at = b /\ worker'[w].conn = worker[w].conn
  BY GoesTo DEF IInv
<1>2. \A v \in Workers : /\ worker'[v].conn = worker[v].conn
                         /\ worker'[v].at \in Free <=> worker[v].at \in Free
                         /\ worker'[v].at = "closed" <=> worker[v].at = "closed"
                         /\ worker'[v].at = "asleep" <=> worker[v].at = "asleep"
                         /\ worker'[v].at = "exited" <=> worker[v].at = "exited"
  BY <1>1 DEF OnlyMoves
<1>3. NoLostSignal'
  <2>1. Cardinality(Idle)' = Cardinality(Idle)
    BY <1>1, IdleChange
  <2> QED
    BY <1>2, <2>1 DEF IInv, Counts, NoLostSignal, Idle
<1>4. Bounded' /\ Ended'
  BY <1>2 DEF IInv, Counts, Bounded, Accepting, Ended
<1>5. main' \in MainPlaces /\ shutdown' \in BOOLEAN
      /\ socket' \in [Conns -> {"none", "backlog", "open", "closed", "refused"}]
  BY DEF IInv, TypeOK
<1> QED
  BY <1>1, <1>2, <1>3, <1>4, <1>5, KeepsHold

\* A worker without one goes on to another such place: nobody falls asleep or
\* leaves with a socket queued.
LEMMA FreeMove ==
  ASSUME IInv, NEW w \in Workers, NEW a \in {"idle", "asleep"}, NEW b \in Free,
         Goes(w, a, b), queue = <<>> \/ (a = "asleep" /\ b = "idle"),
         UNCHANGED <<main, accepted, queue, socket, active, requests, handled, shutdown>>
  PROVE  IInv'
<1> USE DEF Free
<1>1. queue = <<>> \/ (a = "asleep" /\ b = "idle")
  OBVIOUS
<1>2. UNCHANGED <<main, accepted, queue, socket, active, requests, handled, shutdown>>
  OBVIOUS
<1>3. /\ worker' \in [Workers -> WorkerStates] /\ OnlyMoves(w)
      /\ worker[w].at = a /\ worker'[w].at = b /\ worker'[w].conn = worker[w].conn
  BY <1>1, GoesTo DEF IInv, WorkerPlaces
<1>4. \A v \in Workers : /\ worker'[v].conn = worker[v].conn
                         /\ worker'[v].at \in Free <=> worker[v].at \in Free
                         /\ worker'[v].at = "closed" <=> worker[v].at = "closed"
                         /\ worker[v].at = "exited" => worker'[v].at = "exited"
  BY <1>3 DEF OnlyMoves
<1>5. NoLostSignal'
  <2>1. CASE queue = <<>>
    <3>1. Len(queue') = 0 /\ Cardinality(Idle)' \in Nat
      BY <1>2, <1>3, <2>1, IdleChange, EmptySeq
    <3> QED
      BY <3>1 DEF NoLostSignal, Idle
  <2>2. CASE a = "asleep" /\ b = "idle"
    <3>1. /\ Cardinality(Idle)' = Cardinality(Idle) + 1
          /\ Cardinality(Idle) \in Nat /\ Len(queue) \in Nat
      BY <1>3, <2>2, IdleChange, LenProperties DEF IInv, TypeOK
    <3>2. Len(queue) <= Cardinality(Idle)
      BY <1>3, <2>2 DEF IInv, Counts, NoLostSignal, Idle
    <3> QED
      BY <1>2, <3>1, <3>2 DEF NoLostSignal, Idle
  <2> QED
    BY <1>1, <2>1, <2>2
<1>6. HandlerLimit'
  <2>1. Cardinality(Handling)' = Cardinality(Handling)
    BY <1>1, <1>3, HandlingChange
  <2> QED
    BY <1>2, <2>1 DEF IInv, Counts, HandlerLimit, Handling
<1>7. Bounded' /\ Ended'
  BY <1>2, <1>4 DEF IInv, Counts, Bounded, Accepting, Ended
<1>8. main' \in MainPlaces /\ shutdown' \in BOOLEAN /\ requests' \in Nat /\ handled' \in Nat
      /\ socket' \in [Conns -> {"none", "backlog", "open", "closed", "refused"}]
  BY <1>2 DEF IInv, TypeOK
<1> QED
  BY <1>2, <1>3, <1>4, <1>5, <1>6, <1>7, <1>8, KeepsHold

LEMMA FreeMoveIInv ==
  ASSUME IInv, NEW w \in Workers, Sleep(w) \/ Exit(w) \/ WorkerWakesForNothing(w)
  PROVE  IInv'
<1>1. CASE Sleep(w)
  BY <1>1, FreeMove, "idle" \in {"idle", "asleep"}, "asleep" \in Free DEF Sleep, Free
<1>2. CASE Exit(w)
  BY <1>2, FreeMove, "idle" \in {"idle", "asleep"}, "exited" \in Free DEF Exit, Free
<1>3. CASE WorkerWakesForNothing(w)
  BY <1>3, FreeMove, "asleep" \in {"idle", "asleep"}, "idle" \in Free
  DEF WorkerWakesForNothing, Free
<1> QED
  BY <1>1, <1>2, <1>3

\* Requests are claimed below the limit and handled once each.
LEMMA BusyMoveIInv ==
  ASSUME IInv, NEW w \in Workers,
         \/ Talk(w) \/ CountBad(w) \/ Claim(w) \/ BodyFails(w) \/ CallHandler(w)
         \/ CheckLimit(w) \/ WsCheckLimit(w)
  PROVE  IInv'
<1> DEFINE H == Cardinality(Handling)
<1>1. /\ H \in Nat /\ requests \in Nat /\ handled \in Nat /\ MaxRequests \in Nat
      /\ requests <= MaxRequests /\ handled + H <= requests
  BY WorkersFinite, HttpServeAssumption DEF IInv, TypeOK, Counts, HandlerLimit, Handling
<1>2. UNCHANGED <<main, accepted, queue, socket, active, shutdown>>
  BY DEF Talk, CountBad, Claim, BodyFails, CallHandler, CheckLimit, WsCheckLimit
<1>3. SUFFICES ASSUME NEW a \in Busy, NEW b \in Busy, Goes(w, a, b),
                      requests' \in Nat, handled' \in Nat, requests' <= MaxRequests,
                      \/ /\ a # "handling" /\ b # "handling"
                         /\ handled' = handled /\ requests' >= requests
                      \/ /\ a # "handling" /\ b = "handling"
                         /\ handled' = handled /\ requests' = requests + 1
                      \/ /\ a = "handling" /\ b # "handling"
                         /\ handled' <= handled + 1 /\ requests' = requests
               PROVE  IInv'
  <2> USE DEF Busy, WorkerPlaces, Free, Exhausted
  <2>1. CASE Talk(w)
    BY <1>1, <1>3, <2>1 DEF Talk
  <2>2. CASE CountBad(w)
    BY <1>1, <1>3, <2>2 DEF CountBad
  <2>3. CASE Claim(w)
    BY <1>1, <1>3, <2>3 DEF Claim
  <2>4. CASE BodyFails(w)
    BY <1>1, <1>3, <2>4 DEF BodyFails
  <2>5. CASE CallHandler(w)
    BY <1>1, <1>3, <2>5 DEF CallHandler
  <2>6. CASE CheckLimit(w)
    BY <1>1, <1>3, <2>6 DEF CheckLimit
  <2>7. CASE WsCheckLimit(w)
    BY <1>1, <1>3, <2>7 DEF WsCheckLimit
  <2> QED
    BY <2>1, <2>2, <2>3, <2>4, <2>5, <2>6, <2>7
<1>4. /\ OnlyMoves(w) /\ worker[w].at = a /\ worker'[w].at = b
  BY <1>3, GoesTo DEF IInv, Busy
<1>5. HandlerLimit'
  <2>1. H' \in Nat /\ handled' + H' <= requests'
    BY <1>1, <1>3, <1>4, HandlingChange
  <2> QED
    BY <1>3, <2>1 DEF HandlerLimit, Handling
<1> QED
  BY <1>2, <1>3, <1>5, BusyMove
-----------------------------------------------------------------------------
(* The steps that hand a socket on, and the broadcasts. *)

SocketStates == {"none", "backlog", "open", "closed", "refused"}

\* What the invariant says of the numbers, in one place.
LEMMA Numbers ==
  ASSUME IInv
  PROVE  /\ active \in Nat /\ Len(queue) \in Nat /\ MaxConn \in Nat
         /\ queue \in Seq(Conns) /\ \A k \in 1..Len(queue) : queue[k] \in Conns
         /\ active + Len(queue) + Accepting <= MaxConn
         /\ active = Cardinality(Engaged)
         /\ requests \in Nat /\ handled \in Nat /\ shutdown \in BOOLEAN
         /\ worker \in [Workers -> WorkerStates] /\ socket \in [Conns -> SocketStates]
BY HttpServeAssumption, FS_CardinalityType, LenProperties
DEF IInv, TypeOK, Counts, Bounded, ActiveCounted, WorkerStates, SocketStates

\* A broadcast leaves nobody asleep and every worker its connection.
LEMMA Broadcast ==
  ASSUME IInv
  PROVE  /\ AllWoken \in [Workers -> WorkerStates]
         /\ \A v \in Workers :
              /\ AllWoken[v].conn = worker[v].conn /\ AllWoken[v].at # "asleep"
              /\ worker[v].at # "asleep" => AllWoken[v] = worker[v]
              /\ worker[v].at = "asleep" => AllWoken[v].at = "idle"
BY DEF IInv, TypeOK, AllWoken, WorkerStates, WorkerPlaces

LEMMA WsStopIInv ==
  ASSUME IInv, NEW w \in Workers, WsStop(w)
  PROVE  IInv'
<1> USE DEF Free
<1>1. /\ worker' \in [Workers -> WorkerStates]
      /\ worker'[w].at = "closing" /\ worker'[w].conn = worker[w].conn
      /\ worker[w].at = "wsStopping"
      /\ \A v \in Workers : v # w => worker'[v] = AllWoken[v]
  BY Broadcast DEF WsStop, WorkerStates, WorkerPlaces
<1>2. UNCHANGED <<main, accepted, queue, socket, active, requests, handled>> /\ shutdown'
  BY DEF WsStop
<1>3. \A v \in Workers : /\ worker'[v].conn = worker[v].conn
                         /\ worker'[v].at \in Free <=> worker[v].at \in Free
                         /\ worker'[v].at = "closed" <=> worker[v].at = "closed"
                         /\ worker'[v].at = "handling" <=> worker[v].at = "handling"
                         /\ worker[v].at = "exited" => worker'[v].at = "exited"
                         /\ worker'[v].at # "asleep"
  BY <1>1, Broadcast
<1>4. NoLostSignal' /\ HandlerLimit'
  <2>1. Handling' = Handling
    BY <1>3 DEF Handling
  <2> QED
    BY <1>2, <1>3, <2>1 DEF IInv, Counts, NoLostSignal, HandlerLimit, Handling
<1>5. Bounded' /\ Ended'
  BY <1>2, <1>3 DEF IInv, Counts, Bounded, Accepting, Ended
<1>6. main' \in MainPlaces /\ socket' \in [Conns -> SocketStates] /\ shutdown' \in BOOLEAN
      /\ requests' \in Nat /\ handled' \in Nat
  <2>1. shutdown' \in BOOLEAN
    BY DEF WsStop
  <2> QED
    BY <1>2, <2>1 DEF IInv, TypeOK, SocketStates
<1> QED
  BY <1>1, <1>2, <1>3, <1>4, <1>5, <1>6, KeepsHold DEF SocketStates

LEMMA AcceptIInv ==
  ASSUME IInv, NEW c \in Conns, Accept(c)
  PROVE  IInv'
<1>1. /\ main = "accepting" /\ main' = "holding" /\ accepted' = c /\ accepted = NoConn
      /\ socket[c] = "backlog" /\ socket' = [socket EXCEPT ![c] = "open"] /\ c # NoConn
      /\ UNCHANGED <<queue, worker, active, requests, handled, shutdown>>
  BY HttpServeAssumption DEF Accept, IInv, Ownership, Placed
<1>2. TypeOK'
  BY <1>1 DEF IInv, TypeOK, MainPlaces
<1>3. /\ \A d : (Queued(d)' <=> Queued(d)) /\ (Carried(d)' <=> Carried(d))
      /\ \A w \in Workers : Carries(w)' = Carries(w)
  BY <1>1 DEF Queued, Carried, Carries
<1>4. ~Queued(c) /\ ~Carried(c)
  BY <1>1 DEF IInv, Ownership, OpenHeld
<1>5. Placed'
  BY <1>1 DEF IInv, Ownership, Placed
<1>6. HeldOnce'
  BY <1>1, <1>3, <1>4 DEF IInv, Ownership, HeldOnce
<1>7. OpenHeld'
  <2>1. \A d \in Conns : socket'[d] = IF d = c THEN "open" ELSE socket[d]
    BY <1>1 DEF IInv, TypeOK
  <2> QED
    BY HttpServeAssumption, <1>1, <1>3, <2>1 DEF IInv, Ownership, OpenHeld
<1>8. Counts'
  BY <1>1 DEF IInv, Counts, ActiveCounted, Bounded, Accepting, HandlerLimit,
              NoLostSignal, Engaged
<1>9. Ended'
  BY <1>1 DEF IInv, Ended
<1> QED
  BY <1>2, <1>5, <1>6, <1>7, <1>8, <1>9 DEF IInv, Ownership

LEMMA StopIInv ==
  ASSUME IInv, Stop
  PROVE  IInv'
<1> USE DEF Free
<1>1. /\ main = "stopping" /\ main' = "joining" /\ shutdown' = TRUE
      /\ socket' = Drained /\ queue' = <<>> /\ worker' = AllWoken /\ accepted = NoConn
      /\ UNCHANGED <<accepted, active, requests, handled>>
  BY DEF Stop, IInv, Ownership, Placed
<1>2. worker' \in [Workers -> WorkerStates]
      /\ \A v \in Workers : /\ worker'[v].conn = worker[v].conn
                            /\ worker'[v].at \in Free <=> worker[v].at \in Free
                            /\ worker'[v].at = "closed" <=> worker[v].at = "closed"
                            /\ worker'[v].at = "handling" <=> worker[v].at = "handling"
                            /\ worker'[v].at # "asleep"
  BY <1>1, Broadcast
<1>3. Len(queue') = 0 /\ queue' \in Seq(Conns) /\ \A d : ~Queued(d)'
  BY <1>1, EmptySeq DEF Queued
<1>4. socket' \in [Conns -> SocketStates]
      /\ \A d \in Conns : socket'[d] = "open" <=> socket[d] = "open" /\ ~Queued(d)
  BY <1>1, Numbers DEF Drained, Queued, SocketStates
<1>5. /\ \A d : Carried(d)' <=> Carried(d)
      /\ \A w \in Workers : Carries(w)' = Carries(w)
  BY <1>2 DEF Carried, Carries
<1>6. TypeOK'
  BY <1>1, <1>2, <1>3, <1>4 DEF IInv, TypeOK, MainPlaces, WorkerStates, SocketStates
<1>7. Placed'
  BY <1>1, <1>2 DEF IInv, Ownership, Placed
<1>8. HeldOnce'
  <2>1. \A j, k \in 1..Len(queue') : FALSE
    BY <1>3
  <2> QED
    BY HttpServeAssumption, <1>1, <1>3, <1>5, <2>1 DEF IInv, Ownership, HeldOnce
<1>9. OpenHeld'
  BY HttpServeAssumption, <1>1, <1>3, <1>4, <1>5 DEF IInv, Ownership, OpenHeld, HeldOnce
<1>10. Counts'
  <2>1. Engaged' = Engaged /\ Handling' = Handling
    BY <1>2 DEF Engaged, Handling
  <2>2. Bounded'
    BY <1>1, <1>3, Numbers DEF Bounded, Accepting
  <2>3. ActiveCounted' /\ HandlerLimit'
    BY <1>1, <2>1 DEF IInv, Counts, ActiveCounted, HandlerLimit, Handling
  <2>4. NoLostSignal'
    BY <1>2 DEF NoLostSignal
  <2> QED
    BY <2>2, <2>3, <2>4 DEF Counts
<1>11. Ended'
  BY <1>1 DEF Ended
<1> QED
  BY <1>6, <1>7, <1>8, <1>9, <1>10, <1>11 DEF IInv, Ownership
LEMMA DequeueIInv ==
  ASSUME IInv, NEW w \in Workers, Dequeue(w)
  PROVE  IInv'
<1> USE DEF Free
<1> DEFINE c == queue[1]
           n == Len(queue)
<1>1. /\ worker[w].at = "idle" /\ worker[w].conn = NoConn
      /\ UNCHANGED <<main, accepted, socket, requests, handled, shutdown>>
      /\ active' = active + 1 /\ queue' = Tail(queue)
      /\ worker' = [worker EXCEPT ![w] = [at |-> "handshake", conn |-> c]]
  BY DEF Dequeue, IInv, Ownership, Placed
<1>2. /\ n \in Nat /\ n > 0 /\ c \in Conns /\ Len(queue') = n - 1 /\ queue' \in Seq(Conns)
      /\ \A k \in 1..(n - 1) : queue'[k] = queue[k + 1]
  BY Numbers, EmptySeq, HeadTailProperties, LenProperties DEF Dequeue
<1>3. /\ worker' \in [Workers -> WorkerStates] /\ OnlyMoves(w)
      /\ worker'[w].at = "handshake" /\ worker'[w].conn = c /\ c # NoConn
  <2>1. [at |-> "handshake", conn |-> c] \in WorkerStates
    BY <1>2 DEF WorkerStates, WorkerPlaces
  <2> QED
    BY <1>1, <1>2, <2>1, BecomesState, HttpServeAssumption DEF IInv
<1>4. \A d : Queued(d)' <=> Queued(d) /\ d # c
  <2>1. ASSUME NEW d, Queued(d)' PROVE Queued(d) /\ d # c
    <3>1. PICK k \in 1..(n - 1) : queue'[k] = d
      BY <1>2, <2>1 DEF Queued
    <3>2. k + 1 \in 1..n /\ k + 1 # 1 /\ 1 \in 1..n /\ queue[k + 1] = d
      BY <1>2, <3>1
    <3> QED
      BY <3>2 DEF Queued, IInv, Ownership, HeldOnce
  <2>2. ASSUME NEW d, Queued(d), d # c PROVE Queued(d)'
    <3>1. PICK k \in 1..n : queue[k] = d
      BY <2>2 DEF Queued
    <3>2. k - 1 \in 1..(n - 1) /\ (k - 1) + 1 = k
      BY <1>2, <2>2, <3>1
    <3> QED
      BY <1>2, <3>1, <3>2 DEF Queued
  <2> QED
    BY <2>1, <2>2
<1>5. /\ Carries(w) = NoConn /\ Carries(w)' = c
      /\ \A v \in Workers : v # w => Carries(v)' = Carries(v)
  BY <1>1, <1>3 DEF Carries, OnlyMoves
<1>6. \A d \in Conns : Carried(d)' <=> Carried(d) \/ d = c
  BY <1>5, HttpServeAssumption DEF Carried
<1>7. Queued(c)
  BY <1>2 DEF Queued
<1>8. TypeOK'
  <2>1. active' \in 0..Cardinality(Workers)
    <3>1. Cardinality(Engaged)' = Cardinality(Engaged) + 1
      BY <1>1, <1>3, EngagedChange
    <3>2. Cardinality(Engaged)' \in 0..Cardinality(Workers)
      BY <1>3, EngagedChange
    <3> QED
      BY <1>1, <3>1, <3>2, Numbers
  <2> QED
    BY <1>1, <1>2, <1>3, <2>1 DEF IInv, TypeOK, WorkerStates
<1>9. Placed'
  BY <1>1, <1>3 DEF IInv, Ownership, Placed, OnlyMoves
<1>10. HeldOnce'
  <2>1. \A j, k \in 1..(n - 1) : queue'[j] = queue'[k] => j = k
    <3>1. \A j, k \in 1..n : queue[j] = queue[k] => j = k
      BY DEF IInv, Ownership, HeldOnce
    <3>2. \A j \in 1..(n - 1) : j + 1 \in 1..n
      BY <1>2
    <3>3. \A j, k \in 1..(n - 1) : j + 1 = k + 1 => j = k
      BY <1>2
    <3> QED
      BY <1>2, <3>1, <3>2, <3>3
  <2>2. \A d \in Conns : accepted' = d => ~Queued(d)' /\ ~Carried(d)'
    BY <1>1, <1>4, <1>6, <1>7 DEF IInv, Ownership, HeldOnce
  <2>3. \A d \in Conns : ~(Queued(d)' /\ Carried(d)')
    BY <1>4, <1>6 DEF IInv, Ownership, HeldOnce
  <2>4. \A u, v \in Workers : Carries(u)' = Carries(v)' => u = v \/ Carries(u)' = NoConn
    <3>1. \A v \in Workers : Carries(v) # c
      BY <1>2, <1>7 DEF IInv, Ownership, HeldOnce, Carried
    <3> QED
      BY <1>5, <3>1 DEF IInv, Ownership, HeldOnce
  <2> QED
    BY <1>2, <2>1, <2>2, <2>3, <2>4 DEF HeldOnce
<1>11. OpenHeld'
  BY <1>1, <1>4, <1>6, <1>7 DEF IInv, Ownership, OpenHeld
<1>12. Counts'
  <2>1. ActiveCounted'
    BY <1>1, <1>2, <1>3, EngagedChange, Numbers DEF ActiveCounted
  <2>2. Bounded'
    <3>1. Accepting' = Accepting /\ Accepting \in {0, 1}
      BY <1>1 DEF Accepting
    <3> QED
      BY <1>1, <1>2, <3>1, Numbers DEF Bounded
  <2>3. HandlerLimit'
    <3>1. Cardinality(Handling)' = Cardinality(Handling)
      BY <1>1, <1>3, HandlingChange
    <3> QED
      BY <1>1, <3>1 DEF IInv, Counts, HandlerLimit, Handling
  <2>4. NoLostSignal'
    <3>1. /\ Cardinality(Idle)' = Cardinality(Idle) - 1 /\ Cardinality(Idle) \in Nat
      BY <1>1, <1>3, IdleChange
    <3>2. (\E v \in Workers : worker'[v].at = "asleep") => n <= Cardinality(Idle)
      BY <1>1, <1>3 DEF IInv, Counts, NoLostSignal, Idle, OnlyMoves
    <3> QED
      BY <1>2, <3>1, <3>2 DEF NoLostSignal, Idle
  <2> QED
    BY <2>1, <2>2, <2>3, <2>4 DEF Counts
<1>13. Ended'
  <2>1. main \notin {"joining", "returned"}
    BY DEF IInv, Ended, Dequeue
  <2> QED
    BY <1>1, <2>1 DEF Ended
<1> QED
  BY <1>8, <1>9, <1>10, <1>11, <1>12, <1>13 DEF IInv, Ownership

\* A worker closes its socket, and leaves with the accept loop signalled.
LEMMA CloseSocketIInv ==
  ASSUME IInv, NEW w \in Workers, CloseSocket(w)
  PROVE  IInv'
<1> USE DEF Free
<1> DEFINE c == worker[w].conn
<1>1. /\ worker' \in [Workers -> WorkerStates] /\ OnlyMoves(w)
      /\ worker[w].at = "closing" /\ worker'[w].at = "closed" /\ worker'[w].conn = c
  BY GoesTo DEF IInv, CloseSocket, WorkerPlaces
<1>2. /\ socket' = [socket EXCEPT ![c] = "closed"]
      /\ UNCHANGED <<main, accepted, queue, active, requests, handled, shutdown>>
  BY DEF CloseSocket
<1>3. c \in Conns /\ c # NoConn
  BY <1>1, Numbers, HttpServeAssumption DEF IInv, Ownership, Placed, WorkerStates
<1>4. /\ Carries(w) = c /\ Carries(w)' = NoConn
      /\ \A v \in Workers : v # w => Carries(v)' = Carries(v)
      /\ \A d : Queued(d)' <=> Queued(d)
  BY <1>1, <1>2 DEF Carries, OnlyMoves, Queued
<1>5. \A d \in Conns : Carried(d)' <=> Carried(d) /\ d # c
  <2>1. \A v \in Workers : v # w => Carries(v) # c
    BY <1>3, <1>4 DEF IInv, Ownership, HeldOnce
  <2> QED
    BY <1>4, <2>1, HttpServeAssumption DEF Carried
<1>6. Carried(c) /\ ~Queued(c) /\ accepted # c
  BY <1>3, <1>4 DEF Carried, IInv, Ownership, HeldOnce
<1>7. TypeOK'
  BY <1>1, <1>2 DEF IInv, TypeOK, WorkerStates
<1>8. Placed'
  BY <1>1, <1>2 DEF IInv, Ownership, Placed, OnlyMoves
<1>9. HeldOnce'
  <2>1. \A u, v \in Workers : Carries(u)' = Carries(v)' => u = v \/ Carries(u)' = NoConn
    BY <1>4 DEF IInv, Ownership, HeldOnce
  <2> QED
    BY <1>2, <1>4, <1>5, <2>1 DEF IInv, Ownership, HeldOnce
<1>10. OpenHeld'
  <2>1. \A d \in Conns : socket'[d] = IF d = c THEN "closed" ELSE socket[d]
    BY <1>2, Numbers
  <2> QED
    BY <1>2, <1>4, <1>5, <1>6, <2>1 DEF IInv, Ownership, OpenHeld
<1>11. Counts'
  <2>1. /\ Cardinality(Engaged)' = Cardinality(Engaged)
        /\ Cardinality(Handling)' = Cardinality(Handling)
        /\ Cardinality(Idle)' = Cardinality(Idle)
    BY <1>1, <1>3, EngagedChange, HandlingChange, IdleChange
  <2>2. (\E v \in Workers : worker'[v].at = "asleep") => \E v \in Workers : worker[v].at = "asleep"
    BY <1>1 DEF OnlyMoves
  <2> QED
    BY <1>2, <2>1, <2>2 DEF IInv, Counts, ActiveCounted, Bounded, Accepting,
       HandlerLimit, NoLostSignal, Handling, Idle
<1>12. Ended'
  BY <1>1, <1>2 DEF IInv, Ended, OnlyMoves
<1> QED
  BY <1>7, <1>8, <1>9, <1>10, <1>11, <1>12 DEF IInv, Ownership

LEMMA LeaveIInv ==
  ASSUME IInv, NEW w \in Workers, Leave(w)
  PROVE  IInv'
<1> USE DEF Free
<1>1. /\ worker' \in [Workers -> WorkerStates] /\ OnlyMoves(w)
      /\ worker[w].at = "closed" /\ worker[w].conn # NoConn
      /\ worker'[w].at = "idle" /\ worker'[w].conn = NoConn
  <2>1. [at |-> "idle", conn |-> NoConn] \in WorkerStates
    BY DEF WorkerStates, WorkerPlaces
  <2> QED
    BY <2>1, BecomesState DEF IInv, Ownership, Placed, Leave
<1>2. /\ UNCHANGED <<accepted, queue, socket, requests, handled, shutdown>>
      /\ active' = active - 1 /\ main' = MainSignalled
  BY DEF Leave
<1>3. \A v \in Workers : Carries(v)' = Carries(v)
  BY <1>1 DEF Carries, OnlyMoves
<1>4. HeldOnce' /\ OpenHeld'
  BY <1>2, <1>3, SameHolders DEF IInv, Ownership
<1>5. Cardinality(Engaged)' = Cardinality(Engaged) - 1
      /\ Cardinality(Engaged)' \in 0..Cardinality(Workers)
  BY <1>1, EngagedChange
<1>6. TypeOK'
  BY <1>1, <1>2, <1>5, Numbers DEF IInv, TypeOK, WorkerStates, MainPlaces, MainSignalled
<1>7. Placed'
  BY <1>1, <1>2 DEF IInv, Ownership, Placed, OnlyMoves, MainSignalled
<1>8. Counts'
  <2>1. ActiveCounted'
    BY <1>2, <1>5, Numbers DEF ActiveCounted
  <2>2. Bounded'
    <3>1. Accepting' = Accepting /\ Accepting \in {0, 1}
      BY <1>2 DEF Accepting, MainSignalled
    <3> QED
      BY <1>2, <3>1, Numbers DEF Bounded
  <2>3. HandlerLimit'
    <3>1. Cardinality(Handling)' = Cardinality(Handling)
      BY <1>1, HandlingChange
    <3> QED
      BY <1>2, <3>1 DEF IInv, Counts, HandlerLimit, Handling
  <2>4. NoLostSignal'
    <3>1. Cardinality(Idle)' = Cardinality(Idle) + 1 /\ Cardinality(Idle) \in Nat
      BY <1>1, IdleChange
    <3>2. (\E v \in Workers : worker'[v].at = "asleep") => Len(queue) <= Cardinality(Idle)
      BY <1>1 DEF IInv, Counts, NoLostSignal, Idle, OnlyMoves
    <3> QED
      BY <1>2, <3>1, <3>2, Numbers DEF NoLostSignal, Idle
  <2> QED
    BY <2>1, <2>2, <2>3, <2>4 DEF Counts
<1>9. Ended'
  BY <1>1, <1>2 DEF IInv, Ended, OnlyMoves, MainSignalled
<1> QED
  BY <1>4, <1>6, <1>7, <1>8, <1>9 DEF IInv, Ownership
\* The accept loop queues the socket it holds and wakes a sleeping worker for
\* it; a full queue would close it instead.
LEMMA EnqueueIInv ==
  ASSUME IInv, Enqueue
  PROVE  IInv'
<1> USE DEF Free
<1> DEFINE c == accepted
           n == Len(queue)
<1>1. /\ main = "holding" /\ main' = "checking" /\ accepted' = NoConn
      /\ UNCHANGED <<active, requests, handled, shutdown>>
      /\ c \in Conns /\ c # NoConn
  BY HttpServeAssumption DEF Enqueue, IInv, TypeOK, Ownership, Placed
<1>2. ~Queued(c) /\ ~Carried(c) /\ socket[c] = "open"
  BY <1>1 DEF IInv, Ownership, HeldOnce, OpenHeld
<1>3. Accepting = 1 /\ Accepting' = 0 /\ ~(\E k \in 1..n : queue[k] = c)
  BY <1>1, <1>2 DEF Accepting, Queued
<1>4. CASE queue' = Append(queue, accepted) /\ SignalAvailable /\ UNCHANGED socket
  <2>1. /\ queue' \in Seq(Conns) /\ Len(queue') = n + 1 /\ n \in Nat /\ queue'[n + 1] = c
        /\ \A k \in 1..n : queue'[k] = queue[k]
    BY <1>1, <1>4, Numbers, AppendProperties
  <2>2. \A d : Queued(d)' <=> Queued(d) \/ d = c
    <3>1. \A k : k \in 1..(n + 1) <=> k \in 1..n \/ k = n + 1
      BY <2>1
    <3> QED
      BY <2>1, <3>1 DEF Queued
  <2>3. /\ worker' \in [Workers -> WorkerStates]
        /\ \A v \in Workers : worker'[v].conn = worker[v].conn
        /\ \A v \in Workers : \/ worker'[v].at = worker[v].at
                              \/ worker[v].at = "asleep" /\ worker'[v].at = "idle"
    <3>1. \A v \in Workers : [worker[v] EXCEPT !.at = "idle"] \in WorkerStates
      BY Numbers DEF WorkerStates, WorkerPlaces
    <3>2. CASE worker' = worker
      BY <3>2, Numbers
    <3>3. CASE \E w \in Workers : /\ worker[w].at = "asleep"
                                  /\ worker' = [worker EXCEPT ![w].at = "idle"]
      BY <3>1, <3>3, Numbers DEF WorkerStates
    <3> QED
      BY <1>4, <3>2, <3>3 DEF SignalAvailable
  <2>4. \A w \in Workers : Carries(w)' = Carries(w)
    BY <2>3 DEF Carries
  <2>5. \A d : Carried(d)' <=> Carried(d)
    BY <2>4 DEF Carried
  <2>6. TypeOK'
    BY <1>1, <1>4, <2>1, <2>3 DEF IInv, TypeOK, MainPlaces, WorkerStates
  <2>7. Placed'
    BY <1>1, <2>3 DEF IInv, Ownership, Placed
  <2>8. HeldOnce'
    <3>1. \A j, k \in 1..(n + 1) : queue'[j] = queue'[k] => j = k
      <4>1. \A j, k \in 1..n : queue[j] = queue[k] => j = k
        BY DEF IInv, Ownership, HeldOnce
      <4>2. \A k \in 1..(n + 1) : k \in 1..n \/ k = n + 1
        BY <2>1
      <4> QED
        BY <1>3, <2>1, <4>1, <4>2
    <3> QED
      BY <1>1, <1>2, <2>1, <2>2, <2>4, <2>5, <3>1, HttpServeAssumption
      DEF IInv, Ownership, HeldOnce
  <2>9. OpenHeld'
    BY <1>1, <1>4, <2>2, <2>5, HttpServeAssumption DEF IInv, Ownership, OpenHeld
  <2>10. ActiveCounted' /\ HandlerLimit'
    <3>1. Engaged' = Engaged /\ Handling' = Handling
      BY <2>3 DEF Engaged, Handling
    <3> QED
      BY <1>1, <3>1 DEF IInv, Counts, ActiveCounted, HandlerLimit, Handling
  <2>11. Bounded'
    BY <1>1, <1>3, <2>1, Numbers DEF Bounded
  <2>12. NoLostSignal'
    <3>1. SUFFICES ASSUME NEW v \in Workers, worker'[v].at = "asleep"
                   PROVE  Len(queue') <= Cardinality(Idle)'
      BY DEF NoLostSignal, Idle
    <3>2. worker[v].at = "asleep"
      BY <2>3, <3>1
    <3>3. PICK w \in Workers : worker[w].at = "asleep"
                               /\ worker' = [worker EXCEPT ![w].at = "idle"]
      BY <1>4, <3>2 DEF SignalAvailable
    <3>4. OnlyMoves(w) /\ worker'[w].at = "idle"
      BY <3>3, Numbers DEF OnlyMoves, WorkerStates
    <3>5. Cardinality(Idle)' = Cardinality(Idle) + 1 /\ Cardinality(Idle) \in Nat
      BY <3>3, <3>4, IdleChange
    <3>6. n <= Cardinality(Idle)
      BY <3>2 DEF IInv, Counts, NoLostSignal, Idle
    <3> QED
      BY <2>1, <3>5, <3>6
  <2>13. Ended'
    BY <1>1 DEF Ended
  <2> QED
    BY <2>6, <2>7, <2>8, <2>9, <2>10, <2>11, <2>12, <2>13 DEF IInv, Ownership, Counts
<1>5. CASE socket' = [socket EXCEPT ![accepted] = "closed"] /\ UNCHANGED <<queue, worker>>
  <2>1. /\ \A d : (Queued(d)' <=> Queued(d)) /\ (Carried(d)' <=> Carried(d))
        /\ \A w \in Workers : Carries(w)' = Carries(w)
    BY <1>5 DEF Queued, Carried, Carries
  <2>2. TypeOK' /\ Placed'
    BY <1>1, <1>5 DEF IInv, TypeOK, MainPlaces, Ownership, Placed
  <2>3. HeldOnce'
    BY <1>1, <1>5, <2>1, HttpServeAssumption DEF IInv, Ownership, HeldOnce
  <2>4. OpenHeld'
    <3>1. \A d \in Conns : socket'[d] = IF d = c THEN "closed" ELSE socket[d]
      BY <1>5, Numbers
    <3> QED
      BY <1>1, <1>2, <2>1, <3>1, HttpServeAssumption DEF IInv, Ownership, OpenHeld
  <2>5. Counts'
    <3>1. Bounded'
      BY <1>1, <1>3, <1>5, Numbers DEF Bounded
    <3> QED
      BY <1>1, <1>5, <3>1 DEF IInv, Counts, ActiveCounted, Engaged, HandlerLimit, NoLostSignal
  <2> QED
    BY <1>1, <2>2, <2>3, <2>4, <2>5 DEF IInv, Ownership, Ended
<1> QED
  BY <1>4, <1>5 DEF Enqueue
-----------------------------------------------------------------------------
LEMMA InitIInv == Init => IInv
<1> SUFFICES ASSUME Init PROVE IInv
  OBVIOUS
<1> USE DEF Init, Free
<1>1. Engaged = {} /\ Handling = {} /\ Idle = Workers
  BY DEF Engaged, Handling, Idle
<1>2. /\ Cardinality(Engaged) = 0 /\ Cardinality(Handling) = 0
      /\ Cardinality(Workers) \in Nat /\ MaxConn \in Nat /\ MaxRequests \in Nat
      /\ Len(queue) = 0 /\ queue \in Seq(Conns)
  BY <1>1, FS_EmptySet, FS_CardinalityType, HttpServeAssumption, EmptySeq
<1>3. TypeOK
  <2>1. worker \in [Workers -> [at : WorkerPlaces, conn : Conns \cup {NoConn}]]
    BY DEF WorkerPlaces
  <2>2. active \in 0..Cardinality(Workers)
    BY <1>2
  <2> QED
    BY <1>2, <2>1, <2>2 DEF TypeOK, MainPlaces
<1>4. \A c \in Conns : ~Queued(c) /\ ~Carried(c)
  BY <1>2, HttpServeAssumption DEF Queued, Carried, Carries
<1>5. Ownership
  <2>1. Placed
    BY DEF Placed
  <2>2. \A j, k \in 1..Len(queue) : FALSE
    BY <1>2
  <2>3. HeldOnce
    BY <1>4, <2>2, HttpServeAssumption DEF HeldOnce, Carries
  <2>4. OpenHeld
    BY <1>4, HttpServeAssumption DEF OpenHeld
  <2> QED
    BY <2>1, <2>3, <2>4 DEF Ownership
<1>6. Counts
  <2>1. Bounded /\ ActiveCounted
    BY <1>2 DEF Bounded, Accepting, ActiveCounted
  <2>2. HandlerLimit /\ NoLostSignal
    BY <1>2 DEF HandlerLimit, NoLostSignal, Handling
  <2> QED
    BY <2>1, <2>2 DEF Counts
<1> QED
  BY <1>3, <1>5, <1>6 DEF IInv, Ended

LEMMA StutterIInv ==
  ASSUME IInv, UNCHANGED vars
  PROVE  IInv'
<1>1. \A c : (Queued(c)' <=> Queued(c)) /\ (Carried(c)' <=> Carried(c))
  BY DEF vars, Queued, Carried, Carries
<1>2. \A w : Carries(w)' = Carries(w)
  BY DEF vars, Carries
<1>3. Ownership'
  BY <1>1, <1>2 DEF vars, IInv, Ownership, Placed, HeldOnce, OpenHeld
<1> QED
  BY <1>3 DEF vars, IInv, TypeOK, Counts, ActiveCounted, Bounded, Accepting, Engaged,
              HandlerLimit, NoLostSignal, Ended

LEMMA NextIInv == IInv /\ [Next]_vars => IInv'
<1> SUFFICES ASSUME IInv, [Next]_vars PROVE IInv'
  OBVIOUS
<1>1. CASE \E c \in Conns : Connect(c)
  BY <1>1, MainOnlyIInv
<1>2. CASE MainChecks \/ MainWakesForNothing \/ AcceptTimesOut \/ AcceptFails \/ Join
  BY <1>2, MainOnlyIInv
<1>3. CASE \E c \in Conns : Accept(c)
  BY <1>3, AcceptIInv
<1>4. CASE Enqueue
  BY <1>4, EnqueueIInv
<1>5. CASE Stop
  BY <1>5, StopIInv
<1>6. CASE \E w \in Workers : WorkerStep(w) \/ WorkerWakesForNothing(w)
  BY <1>6, FreeMoveIInv, BusyMoveIInv, WsStopIInv, DequeueIInv, CloseSocketIInv, LeaveIInv
  DEF WorkerStep
<1>7. CASE UNCHANGED vars
  BY <1>7, StutterIInv
<1> QED
  BY <1>1, <1>2, <1>3, <1>4, <1>5, <1>6, <1>7 DEF Next, MainStep

LEMMA Inductive == Spec => []IInv
BY InitIInv, NextIInv, PTL DEF Spec
-----------------------------------------------------------------------------
(* What the invariant says of the properties. *)

LEMMA UnionBound ==
  ASSUME NEW S, NEW T, IsFiniteSet(S), IsFiniteSet(T)
  PROVE  /\ IsFiniteSet(S \cup T) /\ Cardinality(S \cup T) \in Nat
         /\ Cardinality(S \cup T) <= Cardinality(S) + Cardinality(T)
<1>1. IsFiniteSet(S \cap T) /\ IsFiniteSet(S \cup T)
  BY FS_Intersection, FS_Union
<1>2. /\ Cardinality(S) \in Nat /\ Cardinality(T) \in Nat
      /\ Cardinality(S \cap T) \in Nat /\ Cardinality(S \cup T) \in Nat
  BY <1>1, FS_CardinalityType
<1>3. Cardinality(S \cup T) = Cardinality(S) + Cardinality(T) - Cardinality(S \cap T)
  BY FS_Union
<1> QED
  BY <1>1, <1>2, <1>3

\* The open sockets are at most those accepted, queued and carried.
LEMMA OpenCounted == IInv => ConnectionLimit
<1> SUFFICES ASSUME IInv PROVE Cardinality(OpenConns) <= MaxConn
  BY DEF ConnectionLimit
<1> DEFINE n == Len(queue)
           A == {accepted} \cap Conns
           Q == {queue[k] : k \in 1..n}
           W == {worker[w].conn : w \in Engaged}
<1>1. OpenConns \subseteq (A \cup Q) \cup W
  BY HttpServeAssumption DEF OpenConns, IInv, Ownership, OpenHeld, Queued, Carried, Carries,
     Engaged
<1>2. IsFiniteSet(W) /\ Cardinality(W) \in Nat /\ Cardinality(W) <= active
  <2> DEFINE f == [w \in Engaged |-> worker[w].conn]
  <2>1. f \in Surjection(Engaged, W)
    BY DEF Surjection
  <2> HIDE DEF f
  <2> QED
    BY <2>1, WorkersFinite, FS_Surjection, FS_CardinalityType, Numbers
<1>3. IsFiniteSet(Q) /\ Cardinality(Q) \in Nat /\ Cardinality(Q) <= n
  <2> DEFINE f == [k \in 1..n |-> queue[k]]
  <2>1. f \in Surjection(1..n, Q)
    BY DEF Surjection
  <2>2. ASSUME NEW m \in Nat PROVE IsFiniteSet(1..m) /\ Cardinality(1..m) = m
    BY FS_Interval
  <2>3. n \in Nat /\ IsFiniteSet(1..n) /\ Cardinality(1..n) = n
    BY <2>2, Numbers
  <2> HIDE DEF f, n, Q
  <2> QED
    BY <2>1, <2>3, FS_Surjection, FS_CardinalityType
<1>4. IsFiniteSet(A) /\ Cardinality(A) \in Nat /\ Cardinality(A) <= Accepting
  <2>1. CASE main = "holding"
    <3>1. A \in SUBSET {accepted} /\ Accepting = 1
      BY <2>1 DEF Accepting
    <3>2. IsFiniteSet({accepted}) /\ Cardinality({accepted}) = 1
      BY FS_Singleton
    <3> QED
      BY <3>1, <3>2, FS_Subset, FS_CardinalityType
  <2>2. CASE main # "holding"
    <3>1. A = {} /\ Accepting \in {0, 1}
      BY <2>2, HttpServeAssumption DEF IInv, Ownership, Placed, Accepting
    <3> QED
      BY <3>1, FS_EmptySet
  <2> QED
    BY <2>1, <2>2
<1>5. /\ IsFiniteSet(A \cup Q) /\ Cardinality(A \cup Q) \in Nat
      /\ Cardinality(A \cup Q) <= Cardinality(A) + Cardinality(Q)
  BY <1>3, <1>4, UnionBound
<1>6. /\ IsFiniteSet((A \cup Q) \cup W) /\ Cardinality((A \cup Q) \cup W) \in Nat
      /\ Cardinality((A \cup Q) \cup W) <= Cardinality(A \cup Q) + Cardinality(W)
  BY <1>2, <1>5, UnionBound
<1>7. /\ Cardinality(OpenConns) \in Nat
      /\ Cardinality(OpenConns) <= Cardinality((A \cup Q) \cup W)
  BY <1>1, <1>6, FS_Subset, FS_CardinalityType
<1>8. Accepting \in {0, 1}
  BY DEF Accepting
<1> HIDE DEF A, Q, W
<1> QED
  BY <1>2, <1>3, <1>4, <1>5, <1>6, <1>7, <1>8, Numbers

LEMMA HeldHasOneOwner == IInv => OneOwner
<1> SUFFICES ASSUME IInv, NEW c \in Conns
             PROVE  Cardinality(Owners(c)) = IF socket[c] = "open" THEN 1 ELSE 0
  BY DEF OneOwner
<1> DEFINE A == {<<"main">> : x \in {accepted} \cap {c}}
           Q == {<<"queue", k>> : k \in {k \in 1..Len(queue) : queue[k] = c}}
           W == {<<"worker", w>> :
                   w \in {w \in Workers : worker[w].conn = c /\ worker[w].at # "closed"}}
<1>1. Owners(c) = A \cup Q \cup W
  BY DEF Owners
<1>2. /\ accepted # c => A = {}
      /\ accepted = c => A = {<<"main">>}
  OBVIOUS
<1>3. /\ ~Queued(c) => Q = {}
      /\ Queued(c) => \E o : Q = {o}
  <2>1. ~Queued(c) => Q = {}
    BY DEF Queued
  <2>2. ASSUME NEW k \in 1..Len(queue), queue[k] = c PROVE Q = {<<"queue", k>>}
    BY <2>2 DEF IInv, Ownership, HeldOnce
  <2> QED
    BY <2>1, <2>2 DEF Queued
<1>4. /\ ~Carried(c) => W = {}
      /\ Carried(c) => \E o : W = {o}
  <2>1. ~Carried(c) => W = {}
    BY DEF Carried, Carries
  <2>2. ASSUME NEW w \in Workers, Carries(w) = c PROVE W = {<<"worker", w>>}
    <3>1. c # NoConn
      BY HttpServeAssumption
    <3>2. \A v \in Workers : worker[v].conn = c /\ worker[v].at # "closed" <=> v = w
      BY <2>2, <3>1 DEF IInv, Ownership, HeldOnce, Carries
    <3> QED
      BY <3>2
  <2> QED
    BY <2>1, <2>2 DEF Carried
<1> HIDE DEF A, Q, W
<1>5. CASE socket[c] = "open"
  <2>1. \E o : Owners(c) = {o}
    BY <1>1, <1>2, <1>3, <1>4, <1>5 DEF IInv, Ownership, OpenHeld, HeldOnce
  <2> QED
    BY <1>5, <2>1, FS_Singleton
<1>6. CASE socket[c] # "open"
  <2>1. Owners(c) = {}
    BY <1>1, <1>2, <1>3, <1>4, <1>6 DEF IInv, Ownership, OpenHeld
  <2> QED
    BY <1>6, <2>1, FS_EmptySet
<1> QED
  BY <1>5, <1>6

LEMMA EndedLeavesNothing == IInv => NothingLeft
<1> SUFFICES ASSUME IInv, main = "returned"
             PROVE  /\ OpenConns = {} /\ queue = <<>> /\ active = 0
                    /\ \A w \in Workers : worker[w].at = "exited"
  BY DEF NothingLeft
<1>1. /\ queue = <<>> /\ accepted = NoConn
      /\ \A w \in Workers : worker[w].at = "exited" /\ worker[w].conn = NoConn
  BY DEF IInv, Ended, Ownership, Placed, Free
<1>2. active = 0
  <2>1. Engaged = {}
    BY <1>1 DEF Engaged
  <2> QED
    BY <2>1, FS_EmptySet, Numbers
<1>3. OpenConns = {}
  <2>1. \A c \in Conns : ~Queued(c) /\ ~Carried(c) /\ accepted # c
    BY <1>1, EmptySeq, HttpServeAssumption DEF Queued, Carried, Carries
  <2> QED
    BY <2>1 DEF OpenConns, IInv, Ownership, OpenHeld
<1> QED
  BY <1>1, <1>2, <1>3

\* At most maxConnections sockets are open at once, although the accept loop
\* checks before it waits for a client and queues long after.
THEOREM ConnectionLimitKept == Spec => []ConnectionLimit
BY Inductive, OpenCounted, PTL

\* Every open socket has exactly one owner and none is left when httpServe
\* returns: no order of accepting, queueing, closing and stopping leaks a
\* socket or closes one twice.
THEOREM SocketsKept == Spec => []SocketsSound
<1>1. IInv => SocketsSound
  BY HeldHasOneOwner, EndedLeavesNothing DEF IInv, SocketsSound
<1> QED
  BY <1>1, Inductive, PTL

\* No more handlers run than maxRequests, however many workers hold a complete
\* head when the last request is claimed.
THEOREM HandlerLimitKept == Spec => []HandlerLimit
<1>1. IInv => HandlerLimit
  BY DEF IInv, Counts
<1> QED
  BY <1>1, Inductive, PTL

\* While a worker sleeps there is an awake one coming for every queued socket:
\* one signal per socket is enough, spurious wakeups and broadcasts included.
THEOREM SignalsSuffice == Spec => []NoLostSignal
<1>1. IInv => NoLostSignal
  BY DEF IInv, Counts
<1> QED
  BY <1>1, Inductive, PTL
=============================================================================
