------------------------------ MODULE HttpServe ------------------------------
(***************************************************************************)
(* httpServe over HTTP/1.1 in the native runtime: the accept loop          *)
(* (net_h3_quic.c) and the worker threads (net_h1_h2.c) share a bounded    *)
(* queue of accepted sockets, a request count, a count of active           *)
(* connections and a shutdown flag, under one mutex with two condition     *)
(* variables.  Each critical section is one step here; a worker is at      *)
(* another point of its keep-alive loop between them.                      *)
(*                                                                         *)
(* What clients send and when is free; requests, bodies and responses are  *)
(* left out.  maxRequests = 0 (serve for ever) is not modelled.            *)
(***************************************************************************)
EXTENDS Integers, Sequences, FiniteSets

CONSTANTS
  Conns,       \* client connections, each made once
  Workers,     \* worker threads: min(maxConnections, 16) of them
  MaxConn,     \* maxConnections
  MaxRequests, \* maxRequests
  NoConn       \* not a connection

ASSUME HttpServeAssumption ==
  /\ IsFiniteSet(Conns) /\ IsFiniteSet(Workers)
  /\ MaxConn \in Nat \ {0} /\ MaxRequests \in Nat \ {0}
  /\ Cardinality(Workers) \in 1..MaxConn
  /\ NoConn \notin Conns

VARIABLES
  main,     \* where the accept loop is
  accepted, \* the connection it has accepted and not queued yet
  queue,    \* accepted connections no worker has taken
  socket,   \* the state of each connection's socket
  worker,   \* where each worker is, and its connection
  active,   \* active_connections
  requests, \* request_count
  handled,  \* handler calls so far
  shutdown  \* the shutdown flag

vars == <<main, accepted, queue, socket, worker, active, requests,
          handled, shutdown>>

QueueCap == MaxConn + 16
MainPlaces == {"checking", "waiting", "accepting", "holding", "stopping",
               "joining", "returned"}
WorkerPlaces == {"idle", "asleep", "handshake", "reading", "bad", "claiming",
                 "handling", "responded", "wsEnded", "wsStopping", "closing",
                 "closed", "exited"}

Init ==
  /\ main = "checking" /\ accepted = NoConn
  /\ queue = <<>>
  /\ socket = [c \in Conns |-> "none"]
  /\ worker = [w \in Workers |-> [at |-> "idle", conn |-> NoConn]]
  /\ active = 0 /\ requests = 0 /\ handled = 0
  /\ shutdown = FALSE

\* net_pool_requests_exhausted, and the bound the accept loop keeps.
Exhausted == requests >= MaxRequests
FullIgnoresQueue == active >= MaxConn
Full == active + Len(queue) >= MaxConn

\* A client connects while the socket listens.
Connect(c) ==
  /\ socket[c] = "none"
  /\ main \notin {"joining", "returned"}
  /\ socket' = [socket EXCEPT ![c] = "backlog"]
  /\ UNCHANGED <<main, accepted, queue, worker, active, requests, handled, shutdown>>
-----------------------------------------------------------------------------
(* The accept loop. *)

MainChecks ==
  /\ main = "checking"
  /\ main' = IF Exhausted THEN "stopping" ELSE IF Full THEN "waiting" ELSE "accepting"
  /\ UNCHANGED <<accepted, queue, socket, worker, active, requests, handled, shutdown>>

MainWakesForNothing ==
  /\ main = "waiting"
  /\ main' = "checking"
  /\ UNCHANGED <<accepted, queue, socket, worker, active, requests, handled, shutdown>>

Accept(c) ==
  /\ main = "accepting" /\ socket[c] = "backlog"
  /\ main' = "holding" /\ accepted' = c
  /\ socket' = [socket EXCEPT ![c] = "open"]
  /\ UNCHANGED <<queue, worker, active, requests, handled, shutdown>>

\* The 100 ms receive timeout, or an interrupt; any other error ends the loop.
AcceptTimesOut ==
  /\ main = "accepting"
  /\ main' = "checking"
  /\ UNCHANGED <<accepted, queue, socket, worker, active, requests, handled, shutdown>>

AcceptFails ==
  /\ main = "accepting"
  /\ main' = "stopping"
  /\ UNCHANGED <<accepted, queue, socket, worker, active, requests, handled, shutdown>>

\* pthread_cond_signal wakes one sleeping worker, if there is one.
SignalNobody == worker' = worker
SignalAvailable ==
  LET asleep == {w \in Workers : worker[w].at = "asleep"}
  IN  IF asleep = {} THEN worker' = worker
      ELSE \E w \in asleep : worker' = [worker EXCEPT ![w].at = "idle"]

Enqueue ==
  /\ main = "holding"
  /\ IF Len(queue) < QueueCap
     THEN queue' = Append(queue, accepted) /\ SignalAvailable /\ UNCHANGED socket
     ELSE socket' = [socket EXCEPT ![accepted] = "closed"] /\ UNCHANGED <<queue, worker>>
  /\ main' = "checking" /\ accepted' = NoConn
  /\ UNCHANGED <<active, requests, handled, shutdown>>

\* pthread_cond_broadcast.
NoneWoken == worker
AllWoken == [w \in Workers |-> IF worker[w].at = "asleep"
                               THEN [worker[w] EXCEPT !.at = "idle"] ELSE worker[w]]

\* The listening socket is closed, which refuses the backlog; queued sockets
\* are closed unanswered.
DrainLeaks == [c \in Conns |-> IF socket[c] = "backlog" THEN "refused" ELSE socket[c]]
Drained ==
  [c \in Conns |-> IF socket[c] = "backlog" THEN "refused"
                   ELSE IF \E k \in 1..Len(queue) : queue[k] = c THEN "closed"
                   ELSE socket[c]]
Stop ==
  /\ main = "stopping"
  /\ main' = "joining" /\ shutdown' = TRUE
  /\ socket' = Drained
  /\ queue' = <<>>
  /\ worker' = AllWoken
  /\ UNCHANGED <<accepted, active, requests, handled>>

Join ==
  /\ main = "joining"
  /\ \A w \in Workers : worker[w].at = "exited"
  /\ main' = "returned"
  /\ UNCHANGED <<accepted, queue, socket, worker, active, requests, handled, shutdown>>
-----------------------------------------------------------------------------
(* A worker thread. *)

Goes(w, from, to) ==
  /\ worker[w].at = from
  /\ worker' = [worker EXCEPT ![w].at = to]

Dequeue(w) ==
  /\ worker[w].at = "idle" /\ queue # <<>>
  /\ worker' = [worker EXCEPT ![w] = [at |-> "handshake", conn |-> Head(queue)]]
  /\ queue' = Tail(queue)
  /\ active' = active + 1
  /\ UNCHANGED <<main, accepted, socket, requests, handled, shutdown>>

Sleep(w) ==
  /\ queue = <<>> /\ ~shutdown
  /\ Goes(w, "idle", "asleep")
  /\ UNCHANGED <<main, accepted, queue, socket, active, requests, handled, shutdown>>

Exit(w) ==
  /\ queue = <<>> /\ shutdown
  /\ Goes(w, "idle", "exited")
  /\ UNCHANGED <<main, accepted, queue, socket, active, requests, handled, shutdown>>

WorkerWakesForNothing(w) ==
  /\ Goes(w, "asleep", "idle")
  /\ UNCHANGED <<main, accepted, queue, socket, active, requests, handled, shutdown>>

\* What the client sends decides: the TLS handshake; a head that is complete,
\* malformed or cut off, or a close or a timeout before any byte; a body that
\* is malformed, cut off or too large; a keep-alive or a last request.  The
\* handler decides whether the connection is aborted or was a WebSocket.
Talk(w) ==
  /\ \/ Goes(w, "handshake", "closing") \/ Goes(w, "handshake", "reading")
     \/ Goes(w, "reading", "claiming") \/ Goes(w, "reading", "bad")
     \/ Goes(w, "reading", "closing")
  /\ UNCHANGED <<main, accepted, queue, socket, active, requests, handled, shutdown>>

\* 400 was sent: counted as a request while the limit is not reached.
CountBad(w) ==
  /\ Goes(w, "bad", "closing")
  /\ requests' = IF Exhausted THEN requests ELSE requests + 1
  /\ UNCHANGED <<main, accepted, queue, socket, active, handled, shutdown>>

\* A complete head reserves a request, or is answered 503.
ClaimUnchecked(w) ==
  /\ Goes(w, "claiming", "handling")
  /\ requests' = requests + 1
  /\ UNCHANGED <<main, accepted, queue, socket, active, handled, shutdown>>
Claim(w) ==
  /\ IF Exhausted
     THEN Goes(w, "claiming", "closing") /\ UNCHANGED requests
     ELSE Goes(w, "claiming", "handling") /\ requests' = requests + 1
  /\ UNCHANGED <<main, accepted, queue, socket, active, handled, shutdown>>

BodyFails(w) ==
  /\ Goes(w, "handling", "closing")
  /\ UNCHANGED <<main, accepted, queue, socket, active, requests, handled, shutdown>>

CallHandler(w) ==
  /\ \/ Goes(w, "handling", "responded")
     \/ Goes(w, "handling", "wsEnded")
     \/ Goes(w, "handling", "closing")
  /\ handled' = handled + 1
  /\ UNCHANGED <<main, accepted, queue, socket, active, requests, shutdown>>

\* After a response the limit is read again; the loop goes on only for a
\* keep-alive connection below the limit.
CheckLimit(w) ==
  /\ \/ Goes(w, "responded", "closing")
     \/ ~Exhausted /\ Goes(w, "responded", "reading")
  /\ UNCHANGED <<main, accepted, queue, socket, active, requests, handled, shutdown>>

\* After a WebSocket the limit is read in one critical section and the
\* shutdown flag set in another.
WsCheckLimit(w) ==
  /\ Goes(w, "wsEnded", IF Exhausted THEN "wsStopping" ELSE "closing")
  /\ UNCHANGED <<main, accepted, queue, socket, active, requests, handled, shutdown>>

WsStop(w) ==
  /\ worker[w].at = "wsStopping"
  /\ worker' = [AllWoken EXCEPT ![w].at = "closing"]
  /\ shutdown' = TRUE
  /\ UNCHANGED <<main, accepted, queue, socket, active, requests, handled>>

CloseSocket(w) ==
  /\ Goes(w, "closing", "closed")
  /\ socket' = [socket EXCEPT ![worker[w].conn] = "closed"]
  /\ UNCHANGED <<main, accepted, queue, active, requests, handled, shutdown>>

\* active_connections--, and the accept loop is signalled.
MainSignalled == IF main = "waiting" THEN "checking" ELSE main
Leave(w) ==
  /\ worker[w].at = "closed"
  /\ worker' = [worker EXCEPT ![w] = [at |-> "idle", conn |-> NoConn]]
  /\ active' = active - 1
  /\ main' = MainSignalled
  /\ UNCHANGED <<accepted, queue, socket, requests, handled, shutdown>>
-----------------------------------------------------------------------------
MainStep ==
  \/ MainChecks \/ Enqueue \/ Stop \/ Join
  \/ (\E c \in Conns : Accept(c)) \/ AcceptTimesOut \/ AcceptFails

WorkerStep(w) ==
  \/ Dequeue(w) \/ Sleep(w) \/ Exit(w) \/ Talk(w) \/ CountBad(w) \/ Claim(w)
  \/ BodyFails(w) \/ CallHandler(w) \/ CheckLimit(w) \/ WsCheckLimit(w)
  \/ WsStop(w) \/ CloseSocket(w) \/ Leave(w)

Next ==
  \/ \E c \in Conns : Connect(c)
  \/ MainStep \/ MainWakesForNothing
  \/ \E w \in Workers : WorkerStep(w) \/ WorkerWakesForNothing(w)

Spec == Init /\ [][Next]_vars

\* The threads run on.  Reads and writes end by their socket timeouts, or when
\* the one-mebibyte buffer is full; a handler is assumed to return.
FairSpec == Spec /\ WF_vars(MainStep) /\ \A w \in Workers : WF_vars(WorkerStep(w))
-----------------------------------------------------------------------------
TypeOK ==
  /\ main \in MainPlaces /\ accepted \in Conns \cup {NoConn}
  /\ queue \in Seq(Conns)
  /\ socket \in [Conns -> {"none", "backlog", "open", "closed", "refused"}]
  /\ worker \in [Workers -> [at : WorkerPlaces, conn : Conns \cup {NoConn}]]
  /\ active \in 0..Cardinality(Workers)
  /\ requests \in Nat /\ handled \in Nat
  /\ shutdown \in BOOLEAN

\* No more connections are open at once than maxConnections, although the
\* accept loop reads both counts, waits for a client without the mutex, and
\* queues what it accepted later.
OpenConns == {c \in Conns : socket[c] = "open"}
ConnectionLimit == Cardinality(OpenConns) <= MaxConn

\* An open socket has one owner, the accept loop, one place in the queue or
\* one worker: it is neither leaked nor closed twice.
Owners(c) ==
  {<<"main">> : x \in {accepted} \cap {c}}
  \cup {<<"queue", k>> : k \in {k \in 1..Len(queue) : queue[k] = c}}
  \cup {<<"worker", w>> : w \in {w \in Workers : worker[w].conn = c /\ worker[w].at # "closed"}}
OneOwner == \A c \in Conns : Cardinality(Owners(c)) = IF socket[c] = "open" THEN 1 ELSE 0

\* No handler runs beyond maxRequests, however many workers hold a complete
\* head when the last request is claimed.
HandlerLimit ==
  /\ requests <= MaxRequests
  /\ handled + Cardinality({w \in Workers : worker[w].at = "handling"}) <= requests

\* Queued sockets have awake workers coming for them: while a worker sleeps,
\* there are at least as many awake ones about to look as there are sockets.
NoLostSignal ==
  (\E w \in Workers : worker[w].at = "asleep") =>
    Len(queue) <= Cardinality({w \in Workers : worker[w].at = "idle"})

\* When httpServe returns, no socket it accepted is open and no worker runs.
NothingLeft ==
  main = "returned" => /\ OpenConns = {} /\ queue = <<>> /\ active = 0
                       /\ \A w \in Workers : worker[w].at = "exited"

\* The two parts above: no way of ending, a WebSocket's included, leaks a
\* socket, closes one twice or leaves one behind.
SocketsSound == TypeOK /\ OneOwner /\ NothingLeft

\* Once maxRequests requests are claimed httpServe returns: through workers
\* reading, handling and asleep, and a worker that shut the pool down itself.
StopsAtLimit == Exhausted ~> main = "returned"

\* Every accepted connection is closed in the end, queued ones behind busy
\* workers included.
EverySocketCloses == \A c \in Conns : socket[c] = "open" ~> socket[c] = "closed"

=============================================================================
