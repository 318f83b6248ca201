------------------------------- MODULE H2Serve -------------------------------
(***************************************************************************)
(* The HTTP/2 server of the interpreter: process_frame, the frame state    *)
(* machine of one connection (interpreter/net/h2.rs), and the loops around *)
(* it (interpreter/net/eval/h2.rs), which serve one connection after the   *)
(* other, call the handler as soon as a request is complete, and answer    *)
(* before they read the next frame.                                        *)
(*                                                                         *)
(* One action is one frame read and everything the loop does because of    *)
(* it.  The peer may send any frame at any time.  Windows and bodies are   *)
(* counted in units: Window stands for 65,535 octets, MaxBody for 16 MiB.  *)
(* The fields mayReceive, granted and handled are history: what the peer   *)
(* believes it may send, what it has let us send, and which streams were   *)
(* answered.                                                               *)
(***************************************************************************)
EXTENDS Integers, FiniteSets

CONSTANTS
  Ids,           \* stream ids a frame may carry, 0 for the connection
  Window,        \* DEFAULT_INITIAL_WINDOW_SIZE
  MaxWindow,     \* MAX_FLOW_CONTROL_WINDOW
  MaxBody,       \* MAX_REQUEST_BODY_SIZE
  MaxFragments,  \* MAX_CONTINUATION_BUFFER_SIZE, in header block fragments
  MaxConcurrent, \* local_settings.max_concurrent_streams
  MaxRequests,   \* max_requests of httpServe; positive
  Lengths,       \* lengths of DATA frames
  Increments,    \* increments of WINDOW_UPDATE frames
  PeerWindows,   \* SETTINGS_INITIAL_WINDOW_SIZE values
  Replies        \* body sizes of the handler's responses

ASSUME H2Assumption ==
  /\ Ids \subseteq Nat /\ 0 \in Ids /\ IsFiniteSet(Ids)
  /\ {Window, MaxWindow, MaxBody, MaxRequests} \subseteq Nat \ {0}
  /\ {MaxFragments, MaxConcurrent} \subseteq Nat \ {0}
  /\ Window < MaxBody /\ Window <= MaxWindow
  /\ Lengths \subseteq Nat /\ Increments \subseteq Nat
  /\ PeerWindows \subseteq 0..MaxWindow /\ Replies \subseteq Nat

VARIABLES
  phase,    \* "accept", "frames" or "done": where serve_h2 is
  requests, \* total_request_count
  c         \* the H2Connection being served

vars == <<phase, requests, c>>

StreamIds == Ids \ {0}
NoAssembly == [id |-> 0, end |-> FALSE, fragments |-> 0]

\* H2Stream::new.
NewStream(h, state, headers) ==
  [state |-> state, headers |-> headers, body |-> 0, send |-> h.initWin, recv |-> Window,
   mayReceive |-> Window, granted |-> h.initWin]

\* H2Connection::new.
FreshConnection ==
  [streams |-> <<>>, send |-> Window, recv |-> Window, initWin |-> Window, lastPeer |-> 0,
   asm |-> NoAssembly, mayReceive |-> Window, granted |-> Window,
   handled |-> {}]

Init == phase = "accept" /\ requests = 0 /\ c = FreshConnection

\* serve_h2 leaves the connection: GOAWAY, shutdown, and the next accept.
Close(r) ==
  /\ phase' = IF r >= MaxRequests THEN "done" ELSE "accept"
  /\ requests' = r
  /\ c' = FreshConnection

\* A connection error: GOAWAY with the error code, and the loop returns.
ConnectionError == Close(requests)

\* The frame is dealt with and the loop goes on with connection h.
Continue(h) == c' = h /\ UNCHANGED <<phase, requests>>

\* A connection that completes TLS, ALPN and the preface; the others are
\* dropped and change nothing.
Accept == phase = "accept" /\ phase' = "frames" /\ UNCHANGED <<requests, c>>

AcceptFails == phase = "accept" /\ phase' = "done" /\ UNCHANGED <<requests, c>>

\* End of file, a reset, the read timeout, or an acknowledgement that cannot
\* be written.
ConnectionLost == phase = "frames" /\ ConnectionError

\* Anything but CONTINUATION while a header block is being assembled.
ReadsFrame == phase = "frames" /\ c.asm.id = 0
Interrupted == phase = "frames" /\ c.asm.id # 0 /\ ConnectionError

\* A frame rejected for its length, its stream id, its padding or its type.
BadFrame == ReadsFrame /\ ConnectionError

SetStream(h, s, rec) ==
  [h EXCEPT !.streams = [t \in DOMAIN h.streams \cup {s} |->
                           IF t = s THEN rec ELSE h.streams[t]]]
Without(h, S) == [h EXCEPT !.streams = [t \in DOMAIN h.streams \ S |-> h.streams[t]]]
Least(S) == CHOOSE x \in S : \A y \in S : x <= y
Usable(w) == IF w > 0 THEN w ELSE 0

\* A stream error: RST_STREAM, and the stream leaves the map.
StreamError(h, s) == Continue(Without(h, {s}))

-----------------------------------------------------------------------------
(* A complete request. *)

\* Slips, for the mutant of ReceiveWindows only.
ToppedUpTwice(w) ==
  IF w.recv < Window \div 2
  THEN [w EXCEPT !.recv = Window, !.mayReceive = @ + 2 * (Window - w.recv)] ELSE w
\* A receive window below half of the initial one is topped up to it, once a
\* request with a body is complete.
ToppedUp(w) ==
  IF w.recv < Window \div 2
  THEN [w EXCEPT !.recv = Window, !.mayReceive = @ + (Window - w.recv)] ELSE w

Replenished(h, s, n) ==
  IF n = 0 THEN h
  ELSE SetStream(ToppedUp(h), s, ToppedUp(h.streams[s]))

\* Slips, for the mutant of ResponsesFit only.
FitsConnection(h, s, n) == Least({n, Usable(h.send)})
\* Octets of a response body that fit both send windows.
Fits(h, s, n) == Least({n, Usable(h.send), Usable(h.streams[s].send)})

Debited(w, n) == [w EXCEPT !.send = @ - n, !.granted = @ - n]
Answered(h, s, n) == [SetStream(Debited(h, n), s, Debited(h.streams[s], n))
                        EXCEPT !.handled = @ \cup {s}]

\* The answered stream is closed, and closed streams leave the map.
ClosedIn(h) == {t \in DOMAIN h.streams : h.streams[t].state = "closed"}
Swept(h, s) == Without(h, ClosedIn(h) \cup {s})

\* send_h2_response with n octets of body.  It cannot wait for the peer to open
\* its windows: a body that does not fit them costs the stream and, the caller
\* taking the error for a failed write, the connection.  The loop also ends
\* when the request was the last of maxRequests.
Respond(h, s, n) ==
  LET m == Fits(h, s, n) IN
  IF m < n \/ requests + 1 >= MaxRequests THEN Close(requests + 1)
  ELSE /\ c' = Swept(Answered(h, s, n), s)
       /\ requests' = requests + 1
       /\ UNCHANGED phase

\* The handler runs; a failed one is answered with an empty 500, and a value
\* that is no response closes the connection.
Handle(h, s) ==
  \/ \E n \in Replies : Respond(h, s, n)
  \/ Respond(h, s, 0)
  \/ Close(requests + 1)

\* process_frame takes headers and body out of the stream and returns them.
\* Headers that do not make a request are answered with RST_STREAM, and the
\* stream stays in the map as it is.
Complete(h, s) ==
  LET r == h.streams[s]
      h1 == Replenished([h EXCEPT !.streams[s].headers = "none", !.streams[s].body = 0],
                        s, r.body) IN
  IF r.headers = "good" THEN Handle(h1, s) ELSE Continue(h1)

-----------------------------------------------------------------------------
(* process_frame, frame by frame. *)

\* FRAME_SETTINGS without ACK: a new initial window moves every stream's send
\* window, also below zero.
\* Slips, for the mutant of NeverOversends only.
SettingsForStreamsToCome(h, w) ==
  [h EXCEPT !.initWin = w,
            !.streams = [s \in DOMAIN h.streams |->
                           [h.streams[s] EXCEPT !.granted = @ + (w - h.initWin)]]]
WithInitialWindow(h, w) ==
  [h EXCEPT !.initWin = w,
            !.streams = [s \in DOMAIN h.streams |->
                           [h.streams[s] EXCEPT !.send = @ + (w - h.initWin),
                                                !.granted = @ + (w - h.initWin)]]]
RecvSettings(w) == ReadsFrame /\ Continue(WithInitialWindow(c, w))

Active(h) == {s \in DOMAIN h.streams : h.streams[s].state # "closed"}

RoomForStream(h) == Cardinality(Active(h)) < MaxConcurrent

\* FRAME_HEADERS on a new odd stream.  A stream over the limit is refused
\* before its header block reaches the decoder, which is then behind the peer's
\* encoder: any later block may decode to anything, as it may anyway here.
HeadersRefused(s) == StreamError([c EXCEPT !.lastPeer = s], s)

\* Without END_HEADERS the block is kept for CONTINUATION frames, in a stream
\* that is idle until it is decoded.
\* Slips, for the mutant of StreamsSound only.
OpensEarly(s, end) ==
  Continue([SetStream(c, s, NewStream(c, "idle", "none"))
              EXCEPT !.lastPeer = s, !.asm = NoAssembly])
StartsAssembly(s, end) ==
  Continue([SetStream(c, s, NewStream(c, "idle", "none"))
              EXCEPT !.lastPeer = s, !.asm = [id |-> s, end |-> end, fragments |-> 1]])

\* The whole block: undecodable or too long a list is a connection error.
Decoded(h, s, block, end) ==
  IF block = "undecodable" THEN ConnectionError
  ELSE IF end THEN Complete(SetStream(h, s, [h.streams[s] EXCEPT !.state = "open",
                                                                 !.headers = block]), s)
  ELSE Continue(SetStream(h, s, [h.streams[s] EXCEPT !.state = "open", !.headers = block]))

RecvHeaders(s, block, endHeaders, end) ==
  /\ ReadsFrame
  /\ IF s % 2 = 0 \/ s <= c.lastPeer THEN ConnectionError
     ELSE IF ~RoomForStream(c) THEN HeadersRefused(s)
     ELSE IF ~endHeaders THEN StartsAssembly(s, end)
     ELSE Decoded([SetStream(c, s, NewStream(c, "idle", "none")) EXCEPT !.lastPeer = s],
                  s, block, end)

\* FRAME_CONTINUATION.
Assembled(block) ==
  Decoded([c EXCEPT !.asm = NoAssembly], c.asm.id, block, c.asm.end)
RecvContinuation(s, block, endHeaders) ==
  /\ phase = "frames"
  /\ IF c.asm.id = 0 \/ s # c.asm.id \/ c.asm.fragments >= MaxFragments THEN ConnectionError
     ELSE IF endHeaders THEN Assembled(block)
     ELSE Continue([c EXCEPT !.asm.fragments = @ + 1])

\* FRAME_DATA of n octets, m of them body and the others padding.  The peer has
\* spent its windows whatever becomes of the frame.
Spent(h, s, n) ==
  [h EXCEPT !.mayReceive = @ - n,
            !.streams = [t \in DOMAIN h.streams |->
                           IF t = s THEN [h.streams[t] EXCEPT !.mayReceive = @ - n]
                           ELSE h.streams[t]]]
WithData(h, s, n, m) ==
  [h EXCEPT !.recv = @ - n, !.streams[s].recv = @ - n, !.streams[s].body = @ + m]

OverConnectionWindow(h, n) == n > h.recv

RecvData(s, n, m, end) ==
  /\ ReadsFrame
  /\ LET h == Spent(c, s, n) IN
     IF s \notin DOMAIN c.streams \/ OverConnectionWindow(c, n) THEN ConnectionError
     ELSE IF n > c.streams[s].recv THEN StreamError(h, s)
     ELSE IF c.streams[s].body + m > MaxBody
       THEN StreamError([h EXCEPT !.recv = @ - n], s)
     ELSE IF end THEN Complete(WithData(h, s, n, m), s)
     ELSE Continue(WithData(h, s, n, m))

\* FRAME_WINDOW_UPDATE.
Raised(w, n) == [w EXCEPT !.send = @ + n, !.granted = @ + n]
RecvWindowUpdate(s, n) ==
  /\ ReadsFrame
  /\ IF s = 0
     THEN IF n = 0 \/ c.send + n > MaxWindow THEN ConnectionError ELSE Continue(Raised(c, n))
     ELSE IF n = 0 THEN StreamError(c, s)
     ELSE IF s \notin DOMAIN c.streams THEN Continue(c)
     ELSE IF c.streams[s].send + n > MaxWindow THEN StreamError(c, s)
     ELSE Continue(SetStream(c, s, Raised(c.streams[s], n)))

\* FRAME_RST_STREAM: the stream is closed but stays in the map, still taking
\* DATA, until a request is answered.
RecvReset(s) ==
  /\ ReadsFrame
  /\ s \in DOMAIN c.streams
  /\ Continue([c EXCEPT !.streams[s].state = "closed"])

Next ==
  \/ Accept \/ AcceptFails \/ ConnectionLost \/ Interrupted \/ BadFrame
  \/ \E w \in PeerWindows : RecvSettings(w)
  \/ \E s \in StreamIds, b \in {"good", "bad", "undecodable"}, eh, end \in BOOLEAN :
       RecvHeaders(s, b, eh, end)
  \/ \E s \in StreamIds, b \in {"good", "bad", "undecodable"}, eh \in BOOLEAN :
       RecvContinuation(s, b, eh)
  \/ \E s \in StreamIds, n \in Lengths, end \in BOOLEAN : \E m \in {n, n - 1} \cap Nat : RecvData(s, n, m, end)
  \/ \E s \in Ids, n \in Increments : RecvWindowUpdate(s, n)
  \/ \E s \in StreamIds : RecvReset(s)

Spec == Init /\ [][Next]_vars

-----------------------------------------------------------------------------
(* Properties. *)

Streams == [state : {"idle", "open", "closed"}, headers : {"none", "good", "bad"},
            body : 0..MaxBody, send : Int, recv : 0..Window, mayReceive : Int, granted : Int]

\* Type correctness of the server and of the connection it serves.
TypeOK ==
  /\ phase \in {"accept", "frames", "done"} /\ requests \in 0..MaxRequests
  /\ DOMAIN c.streams \subseteq StreamIds
  /\ \A s \in DOMAIN c.streams : c.streams[s] \in Streams
  /\ {c.send, c.granted, c.mayReceive} \subseteq Int /\ c.recv \in 0..Window
  /\ c.initWin \in 0..MaxWindow /\ c.lastPeer \in Ids
  /\ c.asm \in [id : Ids, end : BOOLEAN, fragments : 0..MaxFragments]
  /\ c.handled \subseteq StreamIds

\* httpServe(maxRequests) never runs the handler more often than maxRequests,
\* over all connections, and serves no frame once it has (eval/h2.rs:53,203).
BudgetKept == requests <= MaxRequests /\ (phase = "frames" => requests < MaxRequests)

\* No more streams than the limit announced in SETTINGS are ever active at
\* once, whatever order HEADERS, CONTINUATION, RST_STREAM and stream errors
\* come in (h2.rs:1716).
StreamLimit == Cardinality(Active(c)) <= MaxConcurrent

\* A peer that keeps to the windows it has been told of is never punished for
\* it: our receive windows are at least what it may still send, for the
\* connection and for every stream (h2.rs:1853,1864, eval/h2.rs:320).  And what
\* is buffered of a body has been paid for by its stream's window, so buffered
\* bodies are bounded by windows (h2.rs:1875).
ReceiveWindows ==
  /\ c.mayReceive <= c.recv
  /\ \A s \in DOMAIN c.streams :
       /\ c.streams[s].mayReceive <= c.streams[s].recv
       /\ c.streams[s].body + c.streams[s].recv <= Window

\* Responses never use more of a window than the peer has granted, through
\* SETTINGS that move the windows of open streams and through WINDOW_UPDATE
\* frames (h2.rs:1453,1597).
NeverOversends ==
  /\ c.send = c.granted /\ c.granted >= 0
  /\ \A s \in DOMAIN c.streams : c.streams[s].send = c.streams[s].granted

\* Each response fits what the peer had granted its stream before the frame
\* that completed the request: a stream's send window is honoured even when the
\* connection's would allow more (h2.rs:1475, eval/h2.rs:735).
ResponsesFit ==
  [][\A s \in c'.handled \ c.handled :
       c.granted - c'.granted
         <= Usable(IF s \in DOMAIN c.streams THEN c.streams[s].granted ELSE c.initWin)]_vars

\* A stream is idle exactly while its header block is being assembled: no other
\* frame finds it so, and none is left behind idle (h2.rs:1775,2097).
IdleIsAssembling ==
  {s \in DOMAIN c.streams : c.streams[s].state = "idle"}
    = (IF c.asm.id = 0 THEN {} ELSE {c.asm.id})

\* A request that reached the handler is gone from the map, so neither a late
\* DATA frame nor a RST_STREAM can run the handler again (eval/h2.rs:608).
AnsweredIsGone == c.handled \cap DOMAIN c.streams = {}

\* The parts above that speak of the stream map: whatever order frames come in,
\* a stream enters it, counts against the limits and leaves it when it should.
StreamsSound ==
  TypeOK /\ BudgetKept /\ StreamLimit /\ IdleIsAssembling /\ AnsweredIsGone
=============================================================================
