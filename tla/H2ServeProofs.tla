--------------------------- MODULE H2ServeProofs ---------------------------
(***************************************************************************)
(* Proofs about H2Serve, for any stream ids, window sizes, limits and      *)
(* frames.  Sound says what holds of a connection between two frames; the  *)
(* lemmas of the first part show that each operator that builds the next   *)
(* connection keeps it, those of the second take the frames one by one.    *)
(***************************************************************************)
EXTENDS H2Serve, FiniteSetTheorems, TLAPS

StreamMaps == UNION {[S -> Streams] : S \in SUBSET StreamIds}
Assemblies == [id : Ids, end : BOOLEAN, fragments : 0..MaxFragments]
Connections ==
  [streams : StreamMaps, send : Int, recv : 0..Window, initWin : 0..MaxWindow,
   lastPeer : Ids, asm : Assemblies, mayReceive : Int, granted : Int,
   handled : SUBSET StreamIds]

\* One stream: its receive window covers what the peer may send and, with what
\* is buffered, never exceeds the initial one; its send window is what the peer
\* granted.
SoundStream(r) ==
  r \in Streams /\ r.mayReceive <= r.recv /\ r.body + r.recv <= Window /\ r.send = r.granted
SoundStreams(h) == \A s \in DOMAIN h.streams : SoundStream(h.streams[s])

\* The windows of the connection.
SoundFlow(h) == h.mayReceive <= h.recv /\ h.send = h.granted /\ h.granted >= 0

\* The stream map: its ids and those answered are not above the last one
\* opened, no answered one is in it, and one is idle exactly while its header
\* block is being assembled.
SoundMap(h) ==
  /\ \A s \in DOMAIN h.streams \cup h.handled : s <= h.lastPeer
  /\ \A s \in h.handled : s \notin DOMAIN h.streams
  /\ \A s \in DOMAIN h.streams : h.streams[s].state = "idle" <=> s = h.asm.id
  /\ h.asm.id # 0 => h.asm.id \in DOMAIN h.streams

Room(h) == Cardinality(Active(h)) <= MaxConcurrent

Sound(h) ==
  h \in Connections /\ SoundStreams(h) /\ SoundFlow(h) /\ SoundMap(h) /\ Room(h)

IInv ==
  /\ phase \in {"accept", "frames", "done"} /\ requests \in 0..MaxRequests
  /\ phase # "done" => requests < MaxRequests
  /\ Sound(c)
-----------------------------------------------------------------------------
(* Building the next connection. *)

SameFlow(g, h) == /\ g.send = h.send /\ g.recv = h.recv /\ g.initWin = h.initWin
                  /\ g.mayReceive = h.mayReceive /\ g.granted = h.granted
SameRest(g, h) == /\ g.lastPeer = h.lastPeer /\ g.asm = h.asm /\ g.handled = h.handled

LEMMA IdsAreNats == StreamIds \subseteq Nat \ {0} /\ IsFiniteSet(StreamIds)
BY H2Assumption, FS_RemoveElement DEF StreamIds

LEMMA MapType ==
  ASSUME NEW S \in SUBSET StreamIds, NEW m \in [S -> Streams]
  PROVE  m \in StreamMaps
BY DEF StreamMaps

LEMMA TypedMap ==
  ASSUME NEW h \in Connections
  PROVE  /\ DOMAIN h.streams \subseteq StreamIds
         /\ h.streams \in [DOMAIN h.streams -> Streams]
         /\ \A s \in DOMAIN h.streams : h.streams[s] \in Streams
<1>1. h.streams \in StreamMaps
  BY DEF Connections
<1>2. PICK S \in SUBSET StreamIds : h.streams \in [S -> Streams]
  BY <1>1 DEF StreamMaps
<1> QED
  BY <1>2

\* Replacing the stream map of a connection, and nothing else.
LEMMA StreamsReplaced ==
  ASSUME NEW h \in Connections, NEW m \in StreamMaps
  PROVE  /\ [h EXCEPT !.streams = m] \in Connections
         /\ [h EXCEPT !.streams = m].streams = m
         /\ SameFlow([h EXCEPT !.streams = m], h) /\ SameRest([h EXCEPT !.streams = m], h)
<1> HIDE DEF StreamMaps, Assemblies
<1> QED
  BY DEF Connections, SameFlow, SameRest

LEMMA SetStreamFields ==
  ASSUME NEW h \in Connections, NEW s \in StreamIds, NEW r \in Streams
  PROVE  /\ SetStream(h, s, r) \in Connections
         /\ DOMAIN SetStream(h, s, r).streams = DOMAIN h.streams \cup {s}
         /\ SetStream(h, s, r).streams[s] = r
         /\ \A t \in DOMAIN h.streams \ {s} : SetStream(h, s, r).streams[t] = h.streams[t]
         /\ SameFlow(SetStream(h, s, r), h) /\ SameRest(SetStream(h, s, r), h)
<1> DEFINE S == DOMAIN h.streams \cup {s}
           m == [t \in S |-> IF t = s THEN r ELSE h.streams[t]]
<1>1. S \in SUBSET StreamIds /\ m \in [S -> Streams]
  BY TypedMap
<1>2. m \in StreamMaps
  BY <1>1, MapType
<1>3. SetStream(h, s, r) = [h EXCEPT !.streams = m]
  BY DEF SetStream
<1>4. DOMAIN m = S /\ m[s] = r /\ \A t \in DOMAIN h.streams \ {s} : m[t] = h.streams[t]
  OBVIOUS
<1> HIDE DEF m
<1> QED
  BY <1>2, <1>3, <1>4, StreamsReplaced

LEMMA WithoutFields ==
  ASSUME NEW h \in Connections, NEW S
  PROVE  /\ Without(h, S) \in Connections
         /\ DOMAIN Without(h, S).streams = DOMAIN h.streams \ S
         /\ \A t \in DOMAIN h.streams \ S : Without(h, S).streams[t] = h.streams[t]
         /\ SameFlow(Without(h, S), h) /\ SameRest(Without(h, S), h)
<1> DEFINE D == DOMAIN h.streams \ S
           m == [t \in D |-> h.streams[t]]
<1>1. D \in SUBSET StreamIds /\ m \in [D -> Streams]
  BY TypedMap
<1>2. m \in StreamMaps
  BY <1>1, MapType
<1>3. Without(h, S) = [h EXCEPT !.streams = m]
  BY DEF Without
<1>4. DOMAIN m = D /\ \A t \in D : m[t] = h.streams[t]
  OBVIOUS
<1> HIDE DEF m
<1> QED
  BY <1>2, <1>3, <1>4, StreamsReplaced

\* Fewer active streams leave room.
LEMMA FewerActive ==
  ASSUME NEW g \in Connections, NEW h \in Connections, Room(h), Active(g) \subseteq Active(h)
  PROVE  Room(g)
<1>1. Active(h) \in SUBSET StreamIds /\ IsFiniteSet(StreamIds)
  BY TypedMap, IdsAreNats DEF Active
<1>2. IsFiniteSet(Active(h)) /\ IsFiniteSet(Active(g))
  BY <1>1, FS_Subset
<1>3. Cardinality(Active(g)) <= Cardinality(Active(h))
  BY <1>2, FS_Subset
<1>4. /\ Cardinality(Active(g)) \in Nat /\ Cardinality(Active(h)) \in Nat
      /\ MaxConcurrent \in Nat
  BY <1>2, FS_CardinalityType, H2Assumption
<1> QED
  BY <1>3, <1>4 DEF Room

\* A connection whose streams and states are those of a sound one is sound if
\* its windows are.
LEMMA SameStates ==
  ASSUME NEW h, Sound(h), NEW g \in Connections, SameRest(g, h),
         DOMAIN g.streams = DOMAIN h.streams, SoundFlow(g), SoundStreams(g),
         \A s \in DOMAIN h.streams : g.streams[s].state = h.streams[s].state
  PROVE  Sound(g)
<1>1. Active(g) \subseteq Active(h)
  BY DEF Active
<1>2. Room(g)
  BY <1>1, FewerActive DEF Sound
<1>3. SoundMap(g)
  BY DEF Sound, SoundMap, SameRest
<1> QED
  BY <1>2, <1>3 DEF Sound, SameRest

\* Replacing a stream by one that is active or idle only if it was.
LEMMA SetStreamSound ==
  ASSUME NEW h, Sound(h), NEW s \in DOMAIN h.streams, NEW r, SoundStream(r),
         r.state = "idle" <=> h.streams[s].state = "idle",
         r.state # "closed" => h.streams[s].state # "closed"
  PROVE  Sound(SetStream(h, s, r))
<1> DEFINE g == SetStream(h, s, r)
<1>1. h \in Connections /\ s \in StreamIds /\ r \in Streams
  BY TypedMap DEF Sound, SoundStream
<1>2. /\ g \in Connections /\ DOMAIN g.streams = DOMAIN h.streams /\ g.streams[s] = r
      /\ \A t \in DOMAIN h.streams \ {s} : g.streams[t] = h.streams[t]
      /\ SameFlow(g, h) /\ SameRest(g, h)
  <2>1. /\ g \in Connections /\ DOMAIN g.streams = DOMAIN h.streams \cup {s}
        /\ g.streams[s] = r
        /\ \A t \in DOMAIN h.streams \ {s} : g.streams[t] = h.streams[t]
        /\ SameFlow(g, h) /\ SameRest(g, h)
    BY <1>1, SetStreamFields
  <2> HIDE DEF g
  <2>2. DOMAIN h.streams \cup {s} = DOMAIN h.streams
    OBVIOUS
  <2> QED
    BY <2>1, <2>2
<1> HIDE DEF g
<1>3. Room(g)
  <2>1. Active(g) \subseteq Active(h)
    BY <1>2 DEF Active
  <2> QED
    BY <1>1, <1>2, <2>1, FewerActive DEF Sound
<1>4. SoundStreams(g)
  BY <1>2 DEF Sound, SoundStreams
<1>5. SoundMap(g)
  BY <1>2 DEF Sound, SoundMap, SameRest
<1>6. SoundFlow(g)
  BY <1>2 DEF Sound, SoundFlow, SameFlow, SameRest
<1> QED
  BY <1>2, <1>3, <1>4, <1>5, <1>6 DEF Sound, g

\* Streams leave the map, but for one being assembled.
LEMMA WithoutSound ==
  ASSUME NEW h, Sound(h), NEW S, h.asm.id \notin S
  PROVE  Sound(Without(h, S))
<1> DEFINE g == Without(h, S)
<1>1. /\ h \in Connections /\ g \in Connections /\ DOMAIN g.streams = DOMAIN h.streams \ S
      /\ \A t \in DOMAIN g.streams : g.streams[t] = h.streams[t]
      /\ SameFlow(g, h) /\ SameRest(g, h)
  BY WithoutFields DEF Sound
<1> HIDE DEF g
<1>2. Room(g)
  <2>1. Active(g) \subseteq Active(h)
    BY <1>1 DEF Active
  <2> QED
    BY <1>1, <2>1, FewerActive DEF Sound
<1>3. SoundMap(g)
  BY <1>1 DEF Sound, SoundMap, SameRest
<1>4. SoundStreams(g) /\ SoundFlow(g)
  BY <1>1 DEF Sound, SoundStreams, SoundFlow, SameFlow, SameRest
<1> QED
  BY <1>1, <1>2, <1>3, <1>4 DEF Sound, g
-----------------------------------------------------------------------------
(* New streams and windows. *)

LEMMA NewStreamSound ==
  ASSUME NEW h \in Connections, NEW a \in {"idle", "open", "closed"},
         NEW b \in {"none", "good", "bad"}
  PROVE  SoundStream(NewStream(h, a, b)) /\ NewStream(h, a, b).state = a
<1>1. h.initWin \in Int /\ Window \in Nat /\ 0 \in 0..MaxBody
  BY H2Assumption DEF Connections
<1>2. NewStream(h, a, b) \in Streams
  BY <1>1 DEF NewStream, Streams
<1> QED
  BY <1>1, <1>2 DEF SoundStream, NewStream

LEMMA FreshSound == Sound(FreshConnection)
<1>1. /\ Window \in Nat /\ MaxWindow \in Nat /\ MaxFragments \in Nat /\ MaxConcurrent \in Nat
      /\ Window <= MaxWindow /\ 0 \in Ids
  BY H2Assumption
<1>2. <<>> \in [{} -> Streams] /\ DOMAIN <<>> = {}
  OBVIOUS
<1>3. FreshConnection.streams = <<>> /\ Active(FreshConnection) = {}
  BY <1>2 DEF FreshConnection, Active
<1>4. FreshConnection \in Connections
  <2>1. <<>> \in StreamMaps
    BY <1>2, MapType
  <2>2. NoAssembly \in Assemblies
    BY <1>1 DEF NoAssembly, Assemblies
  <2> QED
    BY <1>1, <2>1, <2>2 DEF FreshConnection, Connections
<1>5. SoundMap(FreshConnection)
  BY <1>2 DEF SoundMap, FreshConnection, NoAssembly
<1>6. SoundFlow(FreshConnection)
  BY <1>1 DEF SoundFlow, FreshConnection
<1>7. Room(FreshConnection)
  BY <1>1, <1>3, FS_EmptySet DEF Room
<1>8. SoundStreams(FreshConnection)
  BY <1>2, <1>3 DEF SoundStreams
<1> QED
  BY <1>4, <1>5, <1>6, <1>7, <1>8 DEF Sound

\* Replacing the map and the windows of a connection.
Rewindowed(h, m, x, r, y, g) ==
  [h EXCEPT !.streams = m, !.send = x, !.recv = r, !.mayReceive = y, !.granted = g]

LEMMA RewindowedFields ==
  ASSUME NEW h \in Connections, NEW m \in StreamMaps, NEW x \in Int, NEW r \in 0..Window,
         NEW y \in Int, NEW g \in Int
  PROVE  /\ Rewindowed(h, m, x, r, y, g) \in Connections
         /\ SameRest(Rewindowed(h, m, x, r, y, g), h)
         /\ Rewindowed(h, m, x, r, y, g).initWin = h.initWin
         /\ Rewindowed(h, m, x, r, y, g).streams = m
         /\ Rewindowed(h, m, x, r, y, g).send = x
         /\ Rewindowed(h, m, x, r, y, g).recv = r
         /\ Rewindowed(h, m, x, r, y, g).mayReceive = y
         /\ Rewindowed(h, m, x, r, y, g).granted = g
<1> HIDE DEF StreamMaps, Assemblies
<1> QED
  BY DEF Connections, SameRest, Rewindowed

\* Replacing the numbers of a stream.
Rescored(r, b, x, v, y, g) ==
  [r EXCEPT !.body = b, !.send = x, !.recv = v, !.mayReceive = y, !.granted = g]

LEMMA RescoredFields ==
  ASSUME NEW r \in Streams, NEW b \in 0..MaxBody, NEW x \in Int, NEW v \in 0..Window,
         NEW y \in Int, NEW g \in Int
  PROVE  /\ Rescored(r, b, x, v, y, g) \in Streams
         /\ Rescored(r, b, x, v, y, g).state = r.state
         /\ Rescored(r, b, x, v, y, g).body = b /\ Rescored(r, b, x, v, y, g).send = x
         /\ Rescored(r, b, x, v, y, g).recv = v /\ Rescored(r, b, x, v, y, g).mayReceive = y
         /\ Rescored(r, b, x, v, y, g).granted = g
BY DEF Streams, Rescored

\* The fields of a connection and of a stream, unfolded.
LEMMA FieldTypes ==
  ASSUME NEW h \in Connections
  PROVE  /\ h.streams \in StreamMaps /\ h.send \in Int /\ h.recv \in 0..Window
         /\ h.initWin \in 0..MaxWindow /\ h.lastPeer \in Ids /\ h.asm \in Assemblies
         /\ h.mayReceive \in Int /\ h.granted \in Int /\ h.handled \subseteq StreamIds
BY DEF Connections

LEMMA StreamTypes ==
  ASSUME NEW r \in Streams
  PROVE  /\ r.state \in {"idle", "open", "closed"} /\ r.headers \in {"none", "good", "bad"}
         /\ r.body \in 0..MaxBody /\ r.send \in Int /\ r.recv \in 0..Window
         /\ r.mayReceive \in Int /\ r.granted \in Int
BY DEF Streams

\* WINDOW_UPDATE on a stream and on the connection.
LEMMA RaisedStreamSound ==
  ASSUME NEW r, SoundStream(r), NEW n \in Nat
  PROVE  SoundStream(Raised(r, n)) /\ Raised(r, n).state = r.state
<1>1. r \in Streams
  BY DEF SoundStream
<1>2. Raised(r, n) = Rescored(r, r.body, r.send + n, r.recv, r.mayReceive, r.granted + n)
  BY <1>1 DEF Raised, Rescored, Streams
<1>3. r.send + n \in Int /\ r.granted + n \in Int
  BY <1>1, StreamTypes
<1> QED
  BY <1>1, <1>2, <1>3, StreamTypes, RescoredFields DEF SoundStream

LEMMA RaisedSound ==
  ASSUME NEW h, Sound(h), NEW n \in Nat
  PROVE  Sound(Raised(h, n)) /\ Raised(h, n).handled = h.handled
<1> DEFINE g == Raised(h, n)
<1>1. h \in Connections
  BY DEF Sound
<1>2. g = Rewindowed(h, h.streams, h.send + n, h.recv, h.mayReceive, h.granted + n)
  BY <1>1 DEF Raised, Rewindowed, Connections
<1>3. h.send + n \in Int /\ h.granted + n \in Int
  BY <1>1, FieldTypes
<1> HIDE DEF g
<1>4. /\ g \in Connections /\ SameRest(g, h) /\ g.streams = h.streams
      /\ g.send = h.send + n /\ g.recv = h.recv /\ g.mayReceive = h.mayReceive
      /\ g.granted = h.granted + n
  BY <1>1, <1>2, <1>3, FieldTypes, RewindowedFields
<1>5. SoundFlow(g) /\ SoundStreams(g)
  BY <1>1, <1>4, FieldTypes DEF Sound, SoundFlow, SoundStreams
<1>6. Sound(g)
  BY <1>4, <1>5, SameStates
<1> QED
  BY <1>4, <1>6 DEF g, SameRest
\* SETTINGS move the send window of every stream, and what was granted with it.
LEMMA SettingsSound ==
  ASSUME NEW h, Sound(h), NEW w \in PeerWindows
  PROVE  /\ Sound(WithInitialWindow(h, w))
         /\ WithInitialWindow(h, w).handled = h.handled
<1> DEFINE d == w - h.initWin
           m == [s \in DOMAIN h.streams |->
                   [h.streams[s] EXCEPT !.send = @ + d, !.granted = @ + d]]
           g == [[h EXCEPT !.initWin = w] EXCEPT !.streams = m]
<1>1. h \in Connections /\ w \in 0..MaxWindow
  BY H2Assumption DEF Sound
<1>2. d \in Int
  BY <1>1, FieldTypes, H2Assumption
<1>3. ASSUME NEW s \in DOMAIN h.streams
      PROVE  m[s] \in Streams /\ SoundStream(m[s]) /\ m[s].state = h.streams[s].state
  <2> DEFINE r == h.streams[s]
  <2>1. r \in Streams /\ SoundStream(r)
    BY <1>1, TypedMap DEF Sound, SoundStreams
  <2>2. m[s] = Rescored(r, r.body, r.send + d, r.recv, r.mayReceive, r.granted + d)
    BY <2>1 DEF Rescored, Streams
  <2> HIDE DEF r, m
  <2>3. r.send + d \in Int /\ r.granted + d \in Int
    BY <1>2, <2>1, StreamTypes
  <2> QED
    BY <2>1, <2>2, <2>3, StreamTypes, RescoredFields DEF SoundStream, r
<1>4. DOMAIN m = DOMAIN h.streams /\ m \in [DOMAIN h.streams -> Streams]
  BY <1>3
<1>5. m \in StreamMaps
  BY <1>1, <1>4, TypedMap, MapType
<1>6. WithInitialWindow(h, w) = g
  BY DEF WithInitialWindow
<1> HIDE DEF m
<1>7. /\ g \in Connections /\ SameRest(g, h) /\ g.streams = m /\ g.send = h.send
      /\ g.recv = h.recv /\ g.mayReceive = h.mayReceive /\ g.granted = h.granted
  <2> HIDE DEF StreamMaps, Assemblies
  <2> QED
    BY <1>1, <1>5 DEF Connections, SameRest
<1> HIDE DEF g
<1>8. SoundFlow(g) /\ SoundStreams(g)
  BY <1>3, <1>4, <1>7 DEF Sound, SoundFlow, SoundStreams
<1>9. Sound(g)
  BY <1>3, <1>4, <1>7, <1>8, SameStates
<1> QED
  BY <1>6, <1>7, <1>9 DEF SameRest

\* What a DATA frame of n octets costs the peer, s being open or not.
LEMMA SpentFields ==
  ASSUME NEW h, Sound(h), NEW s, NEW n \in Nat
  PROVE  /\ Spent(h, s, n) \in Connections /\ SameRest(Spent(h, s, n), h)
         /\ DOMAIN Spent(h, s, n).streams = DOMAIN h.streams
         /\ Spent(h, s, n).send = h.send /\ Spent(h, s, n).recv = h.recv
         /\ Spent(h, s, n).granted = h.granted
         /\ Spent(h, s, n).mayReceive = h.mayReceive - n
         /\ \A t \in DOMAIN h.streams \ {s} : Spent(h, s, n).streams[t] = h.streams[t]
         /\ s \in DOMAIN h.streams =>
              Spent(h, s, n).streams[s]
                = Rescored(h.streams[s], h.streams[s].body, h.streams[s].send,
                           h.streams[s].recv, h.streams[s].mayReceive - n,
                           h.streams[s].granted)
<1> DEFINE r(t) == h.streams[t]
           m == [t \in DOMAIN h.streams |->
                   IF t = s THEN [h.streams[t] EXCEPT !.mayReceive = @ - n] ELSE h.streams[t]]
           g == Spent(h, s, n)
<1>1. h \in Connections /\ h.mayReceive - n \in Int
  <2>1. h \in Connections
    BY DEF Sound
  <2> QED
    BY <2>1, FieldTypes
<1>2. \A t \in DOMAIN h.streams :
        h.streams[t] \in Streams /\ h.streams[t].mayReceive - n \in Int
  BY <1>1, TypedMap, StreamTypes
<1>3. \A t \in DOMAIN h.streams :
        [h.streams[t] EXCEPT !.mayReceive = @ - n]
          = Rescored(r(t), r(t).body, r(t).send, r(t).recv, r(t).mayReceive - n, r(t).granted)
  BY <1>2 DEF Rescored, Streams
<1>4. \A t \in DOMAIN h.streams :
        Rescored(r(t), r(t).body, r(t).send, r(t).recv, r(t).mayReceive - n, r(t).granted)
          \in Streams
  BY <1>2, StreamTypes, RescoredFields
<1>5. m \in [DOMAIN h.streams -> Streams] /\ DOMAIN m = DOMAIN h.streams
  BY <1>2, <1>3, <1>4
<1>6. m \in StreamMaps
  BY <1>1, <1>5, TypedMap, MapType
<1>7. /\ \A t \in DOMAIN h.streams \ {s} : m[t] = h.streams[t]
      /\ s \in DOMAIN h.streams =>
           m[s] = Rescored(r(s), r(s).body, r(s).send, r(s).recv, r(s).mayReceive - n,
                           r(s).granted)
  BY <1>3
<1>8. g = Rewindowed(h, m, h.send, h.recv, h.mayReceive - n, h.granted)
  BY <1>1 DEF Spent, Rewindowed, Connections
<1> HIDE DEF m, g
<1>9. /\ g \in Connections /\ SameRest(g, h) /\ g.streams = m
      /\ g.send = h.send /\ g.recv = h.recv /\ g.mayReceive = h.mayReceive - n
      /\ g.granted = h.granted
  BY <1>1, <1>6, <1>8, FieldTypes, RewindowedFields
<1> QED
  BY <1>5, <1>7, <1>9 DEF g

LEMMA SpentSound ==
  ASSUME NEW h, Sound(h), NEW s, NEW n \in Nat
  PROVE  Sound(Spent(h, s, n))
<1> DEFINE g == Spent(h, s, n)
           r == h.streams[s]
<1>1. h \in Connections
  BY DEF Sound
<1>2. /\ g \in Connections /\ SameRest(g, h) /\ DOMAIN g.streams = DOMAIN h.streams
      /\ g.send = h.send /\ g.recv = h.recv
      /\ g.mayReceive = h.mayReceive - n /\ g.granted = h.granted
      /\ \A t \in DOMAIN h.streams \ {s} : g.streams[t] = h.streams[t]
      /\ s \in DOMAIN h.streams =>
           g.streams[s] = Rescored(r, r.body, r.send, r.recv, r.mayReceive - n, r.granted)
  BY SpentFields
<1>3. ASSUME s \in DOMAIN h.streams
      PROVE  SoundStream(g.streams[s]) /\ g.streams[s].state = r.state
  <2>1. r \in Streams /\ SoundStream(r)
    BY <1>1, <1>3, TypedMap DEF Sound, SoundStreams
  <2> HIDE DEF r, g
  <2>2. r.mayReceive - n \in Int /\ r.mayReceive - n <= r.recv
    BY <2>1, StreamTypes DEF SoundStream
  <2> QED
    BY <1>2, <1>3, <2>1, <2>2, StreamTypes, RescoredFields DEF SoundStream
<1> HIDE DEF g
<1>4. SoundFlow(g)
  BY <1>1, <1>2, FieldTypes DEF Sound, SoundFlow
<1>5. SoundStreams(g) /\ \A t \in DOMAIN h.streams : g.streams[t].state = h.streams[t].state
  BY <1>2, <1>3 DEF Sound, SoundStreams
<1> QED
  BY <1>2, <1>4, <1>5, SameStates DEF g
\* One stream of the map replaced.
LEMMA MapPut ==
  ASSUME NEW h \in Connections, NEW s \in DOMAIN h.streams, NEW r \in Streams
  PROVE  /\ [h.streams EXCEPT ![s] = r] \in StreamMaps
         /\ DOMAIN [h.streams EXCEPT ![s] = r] = DOMAIN h.streams
         /\ [h.streams EXCEPT ![s] = r][s] = r
         /\ \A t \in DOMAIN h.streams \ {s} : [h.streams EXCEPT ![s] = r][t] = h.streams[t]
<1>1. /\ DOMAIN h.streams \in SUBSET StreamIds /\ h.streams \in [DOMAIN h.streams -> Streams]
  BY TypedMap
<1>2. [h.streams EXCEPT ![s] = r] \in [DOMAIN h.streams -> Streams]
  BY <1>1
<1> QED
  BY <1>1, <1>2, MapType

\* What a DATA frame within both windows adds to the body has been paid for.
LEMMA DataSound ==
  ASSUME NEW h, Sound(h), NEW s \in DOMAIN h.streams, NEW n \in Nat, NEW k \in Nat,
         k <= n, n <= h.recv, n <= h.streams[s].recv, h.streams[s].body + k <= MaxBody
  PROVE  LET g == WithData(Spent(h, s, n), s, n, k) IN
         Sound(g) /\ SameRest(g, h) /\ DOMAIN g.streams = DOMAIN h.streams
         /\ g.granted = h.granted /\ g.streams[s].granted = h.streams[s].granted
<1> DEFINE f == Spent(h, s, n)
           g == WithData(f, s, n, k)
           r == h.streams[s]
           q == f.streams[s]
           u == Rescored(q, q.body + k, q.send, q.recv - n, q.mayReceive, q.granted)
           m == [f.streams EXCEPT ![s] = u]
<1>1. h \in Connections /\ r \in Streams /\ SoundStream(r) /\ SoundFlow(h) /\ SoundStreams(h)
  BY TypedMap DEF Sound, SoundStreams
<1>2. /\ f \in Connections /\ SameRest(f, h) /\ DOMAIN f.streams = DOMAIN h.streams
      /\ f.send = h.send /\ f.recv = h.recv
      /\ f.mayReceive = h.mayReceive - n /\ f.granted = h.granted
      /\ \A t \in DOMAIN h.streams \ {s} : f.streams[t] = h.streams[t]
      /\ q = Rescored(r, r.body, r.send, r.recv, r.mayReceive - n, r.granted)
  BY SpentFields
<1> HIDE DEF f, r
<1>3. /\ q \in Streams /\ q.state = r.state /\ q.body = r.body /\ q.send = r.send
      /\ q.recv = r.recv /\ q.mayReceive = r.mayReceive - n /\ q.granted = r.granted
  <2>1. r.mayReceive - n \in Int
    BY <1>1, StreamTypes
  <2> QED
    BY <1>1, <1>2, <2>1, StreamTypes, RescoredFields
<1> HIDE DEF q
<1>4. /\ q.body + k \in 0..MaxBody /\ q.recv - n \in 0..Window /\ h.recv - n \in 0..Window
      /\ Window \in Nat /\ MaxBody \in Nat
  <2>1. /\ r.body \in 0..MaxBody /\ r.recv \in 0..Window /\ h.recv \in 0..Window
        /\ Window \in Nat /\ MaxBody \in Nat
    BY <1>1, StreamTypes, FieldTypes, H2Assumption
  <2>2. r.body + k <= MaxBody /\ n <= r.recv
    BY DEF r
  <2> QED
    BY <1>3, <2>1, <2>2
<1>5. /\ u \in Streams /\ u.state = r.state /\ u.body = r.body + k /\ u.send = r.send
      /\ u.recv = r.recv - n /\ u.mayReceive = r.mayReceive - n /\ u.granted = r.granted
  <2>1. q.send \in Int /\ q.mayReceive \in Int /\ q.granted \in Int
    BY <1>3, StreamTypes
  <2>2. /\ u \in Streams /\ u.state = q.state /\ u.body = q.body + k /\ u.send = q.send
        /\ u.recv = q.recv - n /\ u.mayReceive = q.mayReceive /\ u.granted = q.granted
    BY <1>3, <1>4, <2>1, RescoredFields
  <2> HIDE DEF u
  <2> QED
    BY <1>3, <2>2
<1>6. g = Rewindowed(f, m, f.send, f.recv - n, f.mayReceive, f.granted)
  <2>1. q = f.streams[s] /\ s \in DOMAIN f.streams
    BY <1>2 DEF q
  <2> DEFINE v == [[q EXCEPT !.recv = @ - n] EXCEPT !.body = @ + k]
             x == [[f.streams EXCEPT ![s].recv = @ - n] EXCEPT ![s].body = @ + k]
  <2>2. u = v
    BY <1>3 DEF Rescored, Streams
  <2>3. x = [f.streams EXCEPT ![s] = v]
    BY <2>1
  <2>4. g = [[f EXCEPT !.recv = f.recv - n] EXCEPT !.streams = x]
    <3> DEFINE y == [f EXCEPT !.recv = @ - n]
               z == [y EXCEPT !.streams[s].recv = @ - n]
    <3>1. y \in [DOMAIN f -> {y[i] : i \in DOMAIN f}] /\ y.streams = f.streams
      BY <1>2 DEF Connections
    <3>2. z = [y EXCEPT !.streams = [f.streams EXCEPT ![s].recv = @ - n]]
      BY <3>1
    <3>3. z.streams = [f.streams EXCEPT ![s].recv = @ - n]
      BY <1>2, <3>2 DEF Connections
    <3>4. g = [z EXCEPT !.streams[s].body = @ + k]
      BY DEF WithData
    <3> QED
      BY <3>2, <3>3, <3>4
  <2>5. x = m
    BY <2>2, <2>3
  <2> HIDE DEF x, m, g
  <2> QED
    BY <1>2, <2>4, <2>5 DEF Rewindowed, Connections
<1>7. /\ m \in StreamMaps /\ DOMAIN m = DOMAIN h.streams /\ m[s] = u
      /\ \A t \in DOMAIN h.streams \ {s} : m[t] = h.streams[t]
  <2> HIDE DEF u
  <2> QED
    BY <1>2, <1>5, MapPut
<1>8. SoundStream(u)
  <2> HIDE DEF u
  <2>1. u.mayReceive <= u.recv /\ u.body + u.recv <= Window
    <3>1. /\ r.body \in Int /\ r.recv \in Int /\ r.mayReceive \in Int /\ Window \in Int
          /\ r.mayReceive <= r.recv /\ r.body + r.recv <= Window
      BY <1>1, <1>4, StreamTypes DEF SoundStream
    <3> QED
      BY <1>5, <3>1
  <2> QED
    BY <1>1, <1>5, <2>1 DEF SoundStream
<1> HIDE DEF m, u, g
<1>9. /\ g \in Connections /\ SameRest(g, f) /\ g.streams = m /\ g.send = f.send
      /\ g.recv = h.recv - n /\ g.mayReceive = f.mayReceive /\ g.granted = f.granted
  BY <1>2, <1>4, <1>6, <1>7, FieldTypes, RewindowedFields
<1>10. SameRest(g, h)
  BY <1>2, <1>9 DEF SameRest
<1>11. SoundFlow(g) /\ SoundStreams(g)
  <2>1. h.mayReceive \in Int /\ h.recv \in Int
    BY <1>1, FieldTypes
  <2>2. g.mayReceive <= g.recv
    BY <1>1, <1>2, <1>9, <2>1 DEF SoundFlow
  <2> QED
    BY <1>1, <1>2, <1>7, <1>8, <1>9, <2>2 DEF SoundFlow, SoundStreams
<1>12. Sound(g)
  <2>1. \A t \in DOMAIN h.streams : g.streams[t].state = h.streams[t].state
    BY <1>5, <1>7, <1>9 DEF r
  <2> QED
    BY <1>7, <1>9, <1>10, <1>11, <2>1, SameStates
<1> QED
  BY <1>2, <1>5, <1>7, <1>9, <1>10, <1>12 DEF g, f, r

\* The peer has spent, and the server counts, a frame that is too much for the
\* body.
LEMMA OverlongSound ==
  ASSUME NEW h, Sound(h), NEW s, NEW n \in Nat, n <= h.recv
  PROVE  Sound([Spent(h, s, n) EXCEPT !.recv = @ - n])
         /\ SameRest([Spent(h, s, n) EXCEPT !.recv = @ - n], h)
<1> DEFINE f == Spent(h, s, n)
           g == [f EXCEPT !.recv = @ - n]
<1>1. /\ f \in Connections /\ SameRest(f, h) /\ f.recv = h.recv
      /\ f.mayReceive = h.mayReceive - n /\ f.send = h.send /\ f.granted = h.granted
  BY SpentFields
<1>2. Sound(f) /\ h \in Connections
  BY SpentSound DEF Sound
<1> HIDE DEF f
<1>3. g = Rewindowed(f, f.streams, f.send, f.recv - n, f.mayReceive, f.granted)
  BY <1>1 DEF Rewindowed, Connections
<1>4. f.recv - n \in 0..Window
  BY <1>1, <1>2, FieldTypes, H2Assumption
<1> HIDE DEF g
<1>5. /\ g \in Connections /\ SameRest(g, f) /\ g.streams = f.streams /\ g.send = f.send
      /\ g.recv = f.recv - n /\ g.mayReceive = f.mayReceive /\ g.granted = f.granted
  BY <1>1, <1>3, <1>4, FieldTypes, RewindowedFields
<1>6. SoundFlow(g) /\ SoundStreams(g)
  <2>1. /\ h.mayReceive \in Int /\ h.recv \in Int /\ h.mayReceive <= h.recv
        /\ h.send = h.granted /\ h.granted >= 0
    BY <1>2, FieldTypes DEF Sound, SoundFlow
  <2> QED
    BY <1>1, <1>2, <1>5, <2>1 DEF Sound, SoundFlow, SoundStreams
<1>7. Sound(g)
  BY <1>2, <1>5, <1>6, SameStates
<1> QED
  BY <1>1, <1>5, <1>7 DEF SameRest, f, g
-----------------------------------------------------------------------------
(* Taking a request out of a stream, and answering it. *)

Blank(h, s) == [h EXCEPT !.streams[s].headers = "none", !.streams[s].body = 0]
BlankStream(r) == [[r EXCEPT !.headers = "none"] EXCEPT !.body = 0]

LEMMA BlankStreamSound ==
  ASSUME NEW r, SoundStream(r)
  PROVE  /\ SoundStream(BlankStream(r)) /\ BlankStream(r).state = r.state
         /\ BlankStream(r).body = 0 /\ BlankStream(r).granted = r.granted
<1> DEFINE u == BlankStream(r)
<1>1. r \in Streams /\ 0 \in 0..MaxBody /\ Window \in Nat
  BY H2Assumption DEF SoundStream
<1>2. /\ u \in Streams /\ u.state = r.state /\ u.body = 0 /\ u.send = r.send
      /\ u.recv = r.recv /\ u.mayReceive = r.mayReceive /\ u.granted = r.granted
  BY <1>1 DEF BlankStream, Streams
<1> HIDE DEF u
<1>3. r.recv \in 0..Window
  BY <1>1, StreamTypes
<1>4. u.body + u.recv <= Window
  BY <1>1, <1>2, <1>3
<1> QED
  BY <1>2, <1>4 DEF SoundStream, u

LEMMA BlankSound ==
  ASSUME NEW h, Sound(h), NEW s \in DOMAIN h.streams
  PROVE  /\ Sound(Blank(h, s)) /\ SameRest(Blank(h, s), h)
         /\ DOMAIN Blank(h, s).streams = DOMAIN h.streams
         /\ Blank(h, s).granted = h.granted
         /\ Blank(h, s).streams[s].body = 0
         /\ Blank(h, s).streams[s].granted = h.streams[s].granted
<1> DEFINE g == Blank(h, s)
           u == BlankStream(h.streams[s])
           m == [h.streams EXCEPT ![s] = u]
<1>1. h \in Connections /\ SoundStream(h.streams[s])
  BY DEF Sound, SoundStreams
<1>2. g = [h EXCEPT !.streams = m]
  <2> DEFINE z == [h EXCEPT !.streams[s].headers = "none"]
             x == [h.streams EXCEPT ![s].headers = "none"]
  <2>1. z = [h EXCEPT !.streams = x] /\ z.streams = x
    BY <1>1 DEF Connections
  <2>2. g = [z EXCEPT !.streams[s].body = 0]
    BY DEF Blank
  <2>3. g = [h EXCEPT !.streams = [x EXCEPT ![s].body = 0]]
    BY <2>1, <2>2
  <2>4. [x EXCEPT ![s].body = 0] = m
    BY DEF BlankStream
  <2> QED
    BY <2>3, <2>4
<1>3. /\ SoundStream(u) /\ u.state = h.streams[s].state /\ u.body = 0
      /\ u.granted = h.streams[s].granted
  BY <1>1, BlankStreamSound
<1> HIDE DEF u
<1>4. /\ m \in StreamMaps /\ DOMAIN m = DOMAIN h.streams /\ m[s] = u
      /\ \A t \in DOMAIN h.streams \ {s} : m[t] = h.streams[t]
  BY <1>1, <1>3, MapPut DEF SoundStream
<1> HIDE DEF m, g
<1>5. g \in Connections /\ g.streams = m /\ SameFlow(g, h) /\ SameRest(g, h)
  BY <1>1, <1>2, <1>4, StreamsReplaced
<1>6. SoundFlow(g) /\ SoundStreams(g)
      /\ \A t \in DOMAIN h.streams : g.streams[t].state = h.streams[t].state
  BY <1>3, <1>4, <1>5 DEF Sound, SoundFlow, SoundStreams, SameFlow
<1>7. Sound(g)
  BY <1>4, <1>5, <1>6, SameStates
<1> QED
  BY <1>3, <1>4, <1>5, <1>7 DEF g, SameFlow

\* A window is topped up to where it began, and the peer told as much.
LEMMA ToppedUpStreamSound ==
  ASSUME NEW r, SoundStream(r), r.body = 0
  PROVE  /\ SoundStream(ToppedUp(r)) /\ ToppedUp(r).state = r.state
         /\ ToppedUp(r).granted = r.granted
<1> DEFINE y == r.mayReceive + (Window - r.recv)
           u == Rescored(r, r.body, r.send, Window, y, r.granted)
<1>1. /\ r \in Streams /\ Window \in Nat /\ Window \in 0..Window /\ r.body \in 0..MaxBody
      /\ r.recv \in Int /\ r.mayReceive \in Int /\ r.send \in Int /\ r.granted \in Int
      /\ r.mayReceive <= r.recv /\ r.send = r.granted
  BY H2Assumption, StreamTypes DEF SoundStream
<1>2. y \in Int /\ y <= Window
  BY <1>1
<1>3. ToppedUp(r) = u \/ ToppedUp(r) = r
  BY <1>1 DEF ToppedUp, Rescored, Streams
<1> HIDE DEF y
<1>4. /\ u \in Streams /\ u.state = r.state /\ u.body = r.body /\ u.send = r.send
      /\ u.recv = Window /\ u.mayReceive = y /\ u.granted = r.granted
  BY <1>1, <1>2, RescoredFields
<1> HIDE DEF u
<1>5. SoundStream(u)
  BY <1>1, <1>2, <1>4 DEF SoundStream
<1> QED
  BY <1>3, <1>4, <1>5

LEMMA ToppedUpSound ==
  ASSUME NEW h, Sound(h)
  PROVE  /\ Sound(ToppedUp(h)) /\ SameRest(ToppedUp(h), h)
         /\ ToppedUp(h).streams = h.streams /\ ToppedUp(h).granted = h.granted
<1> DEFINE y == h.mayReceive + (Window - h.recv)
           g == Rewindowed(h, h.streams, h.send, Window, y, h.granted)
<1>1. /\ h \in Connections /\ Window \in Nat /\ Window \in 0..Window /\ h.streams \in StreamMaps
      /\ h.recv \in Int /\ h.mayReceive \in Int /\ h.send \in Int /\ h.granted \in Int
      /\ h.mayReceive <= h.recv /\ h.send = h.granted /\ h.granted >= 0 /\ SoundStreams(h)
  BY H2Assumption, FieldTypes DEF Sound, SoundFlow
<1>2. y \in Int /\ y <= Window
  BY <1>1
<1>3. ToppedUp(h) = g \/ ToppedUp(h) = h
  BY <1>1 DEF ToppedUp, Rewindowed, Connections
<1> HIDE DEF y
<1>4. /\ g \in Connections /\ SameRest(g, h) /\ g.streams = h.streams /\ g.send = h.send
      /\ g.recv = Window /\ g.mayReceive = y /\ g.granted = h.granted
  BY <1>1, <1>2, RewindowedFields
<1> HIDE DEF g
<1>5. SoundFlow(g) /\ SoundStreams(g)
  BY <1>1, <1>2, <1>4 DEF SoundFlow, SoundStreams
<1>6. Sound(g)
  BY <1>4, <1>5, SameStates
<1> QED
  BY <1>3, <1>4, <1>6 DEF SameRest

LEMMA ReplenishedSound ==
  ASSUME NEW h, Sound(h), NEW s \in DOMAIN h.streams, NEW n, h.streams[s].body = 0
  PROVE  /\ Sound(Replenished(h, s, n)) /\ SameRest(Replenished(h, s, n), h)
         /\ s \in DOMAIN Replenished(h, s, n).streams
         /\ Replenished(h, s, n).granted = h.granted
         /\ Replenished(h, s, n).streams[s].granted = h.streams[s].granted
<1> DEFINE f == ToppedUp(h)
           u == ToppedUp(h.streams[s])
           g == SetStream(f, s, u)
<1>1. Replenished(h, s, n) = h \/ Replenished(h, s, n) = g
  BY DEF Replenished
<1>2. Sound(f) /\ SameRest(f, h) /\ f.streams = h.streams /\ f.granted = h.granted
  BY ToppedUpSound
<1>3. SoundStream(u) /\ u.state = h.streams[s].state /\ u.granted = h.streams[s].granted
  <2>1. SoundStream(h.streams[s])
    BY DEF Sound, SoundStreams
  <2> QED
    BY <2>1, ToppedUpStreamSound
<1> HIDE DEF f, u
<1>4. Sound(g)
  BY <1>2, <1>3, SetStreamSound
<1>5. /\ g.streams[s] = u /\ s \in DOMAIN g.streams /\ SameFlow(g, f) /\ SameRest(g, f)
  <2>1. f \in Connections /\ s \in StreamIds /\ u \in Streams
    BY <1>2, <1>3, TypedMap DEF Sound, SoundStream
  <2> QED
    BY <2>1, SetStreamFields
<1> HIDE DEF g
<1> QED
  BY <1>1, <1>2, <1>3, <1>4, <1>5 DEF SameFlow, SameRest
\* A response that fits both windows leaves them sound.
LEMMA DebitedSound ==
  ASSUME NEW h, Sound(h), NEW n \in Nat, n <= Usable(h.send)
  PROVE  /\ Sound(Debited(h, n)) /\ SameRest(Debited(h, n), h)
         /\ Debited(h, n).streams = h.streams /\ Debited(h, n).granted = h.granted - n
<1> DEFINE g == Debited(h, n)
<1>1. /\ h \in Connections /\ h.send \in Int /\ h.granted \in Int /\ h.send = h.granted
      /\ h.granted >= 0 /\ h.mayReceive <= h.recv /\ SoundStreams(h)
  BY FieldTypes DEF Sound, SoundFlow
<1>2. h.send - n \in Int /\ h.granted - n \in Int /\ h.granted - n >= 0
  BY <1>1 DEF Usable
<1>3. g = Rewindowed(h, h.streams, h.send - n, h.recv, h.mayReceive, h.granted - n)
  BY <1>1 DEF Debited, Rewindowed, Connections
<1> HIDE DEF g
<1>4. /\ g \in Connections /\ SameRest(g, h) /\ g.streams = h.streams
      /\ g.send = h.send - n /\ g.recv = h.recv /\ g.mayReceive = h.mayReceive
      /\ g.granted = h.granted - n
  BY <1>1, <1>2, <1>3, FieldTypes, RewindowedFields
<1>5. SoundFlow(g) /\ SoundStreams(g)
  BY <1>1, <1>2, <1>4 DEF SoundFlow, SoundStreams
<1>6. Sound(g)
  BY <1>4, <1>5, SameStates
<1> QED
  BY <1>4, <1>6 DEF g

LEMMA DebitedStreamSound ==
  ASSUME NEW r, SoundStream(r), NEW n \in Nat
  PROVE  SoundStream(Debited(r, n)) /\ Debited(r, n).state = r.state
<1>1. /\ r \in Streams /\ r.send - n \in Int /\ r.granted - n \in Int
  <2>1. r \in Streams
    BY DEF SoundStream
  <2> QED
    BY <2>1, StreamTypes
<1>2. Debited(r, n) = Rescored(r, r.body, r.send - n, r.recv, r.mayReceive, r.granted - n)
  BY <1>1 DEF Debited, Rescored, Streams
<1> QED
  BY <1>1, <1>2, StreamTypes, RescoredFields DEF SoundStream

\* The answered stream is gone from the map, and so are the closed ones.
LEMMA AnsweredSound ==
  ASSUME NEW h, Sound(h), h.asm.id = 0, NEW s \in DOMAIN h.streams,
         NEW n \in Nat, n <= Usable(h.send)
  PROVE  /\ Sound(Swept(Answered(h, s, n), s))
         /\ Swept(Answered(h, s, n), s).handled = h.handled \cup {s}
         /\ Swept(Answered(h, s, n), s).granted = h.granted - n
<1> DEFINE d == Debited(h, n)
           u == Debited(h.streams[s], n)
           f == SetStream(d, s, u)
           k == [f EXCEPT !.handled = @ \cup {s}]
           D == ClosedIn(k) \cup {s}
           g == Without(k, D)
<1>1. Sound(d) /\ SameRest(d, h) /\ d.streams = h.streams /\ d.granted = h.granted - n
  BY DebitedSound
<1>2. SoundStream(u) /\ u.state = h.streams[s].state /\ u \in Streams
  <2>1. SoundStream(h.streams[s])
    BY DEF Sound, SoundStreams
  <2>2. SoundStream(u) /\ u.state = h.streams[s].state
    BY <2>1, DebitedStreamSound
  <2> QED
    BY <2>2 DEF SoundStream
<1>3. Swept(Answered(h, s, n), s) = g
  BY DEF Swept, Answered
<1> HIDE DEF d, u
<1>4. Sound(f)
  BY <1>1, <1>2, SetStreamSound
<1>5. s \in StreamIds /\ SameRest(f, d) /\ SameFlow(f, d) /\ s \in DOMAIN f.streams
  <2>1. d \in Connections /\ s \in StreamIds
    BY <1>1, TypedMap DEF Sound
  <2> QED
    BY <1>2, <2>1, SetStreamFields
<1>6. f.asm.id = 0 /\ f.handled = h.handled /\ f.granted = h.granted - n
  BY <1>1, <1>5 DEF SameRest, SameFlow
<1> HIDE DEF f
<1>7. /\ k \in Connections /\ k.handled = f.handled \cup {s} /\ k.streams = f.streams
      /\ SameFlow(k, f) /\ k.lastPeer = f.lastPeer /\ k.asm = f.asm
  <2>1. f \in Connections
    BY <1>4 DEF Sound
  <2> HIDE DEF StreamMaps, Assemblies
  <2> QED
    BY <1>5, <2>1 DEF Connections, SameFlow
<1> HIDE DEF k
<1>8. /\ g \in Connections /\ DOMAIN g.streams = DOMAIN f.streams \ D
      /\ \A t \in DOMAIN g.streams : g.streams[t] = f.streams[t]
      /\ SameFlow(g, k) /\ SameRest(g, k)
  BY <1>7, WithoutFields
<1> HIDE DEF g
<1>9. Room(g)
  <2>1. Active(g) \subseteq Active(f)
    BY <1>8 DEF Active
  <2> QED
    BY <1>4, <1>8, <2>1, FewerActive DEF Sound
<1>10. SoundMap(g)
  <2>1. s \in D
    OBVIOUS
  <2> HIDE DEF D
  <2> QED
    BY <1>4, <1>5, <1>6, <1>7, <1>8, <2>1 DEF Sound, SoundMap, SameRest
<1>11. SoundStreams(g) /\ SoundFlow(g)
  BY <1>4, <1>7, <1>8 DEF Sound, SoundStreams, SoundFlow, SameFlow, SameRest
<1>12. Sound(g)
  BY <1>8, <1>9, <1>10, <1>11 DEF Sound
<1> QED
  BY <1>3, <1>6, <1>7, <1>8, <1>12 DEF SameFlow, SameRest
-----------------------------------------------------------------------------
(* The steps. *)

\* What ResponsesFit says of one step.
Fit ==
  \A s \in c'.handled \ c.handled :
    c.granted - c'.granted
      <= Usable(IF s \in DOMAIN c.streams THEN c.streams[s].granted ELSE c.initWin)

\* The loop goes on with a sound connection and answers nothing.
LEMMA ContinueKeeps ==
  ASSUME IInv, NEW h, Sound(h), h.handled = c.handled, Continue(h)
  PROVE  IInv' /\ Fit
BY DEF IInv, Continue, Fit

\* Serving ends, or starts with a new connection, after r requests.
LEMMA CloseKeeps ==
  ASSUME IInv, NEW r \in 0..MaxRequests, Close(r)
  PROVE  IInv' /\ Fit
<1>1. c' = FreshConnection /\ requests' = r /\ MaxRequests \in Nat
  BY H2Assumption DEF Close
<1>2. Sound(c') /\ c'.handled = {}
  BY <1>1, FreshSound DEF FreshConnection
<1>3. phase' \in {"accept", "done"} /\ (phase' # "done" => requests' < MaxRequests)
  BY <1>1 DEF Close
<1> QED
  BY <1>1, <1>2, <1>3 DEF IInv, Fit
LEMMA LeastOfThree ==
  ASSUME NEW i \in Nat, NEW j \in Nat, NEW k \in Nat
  PROVE  LET m == Least({i, j, k}) IN m \in Nat /\ m <= i /\ m <= j /\ m <= k
<1> DEFINE S == {i, j, k}
<1>1. \E x \in S : \A y \in S : x <= y
  OBVIOUS
<1> HIDE DEF S
<1>2. Least(S) \in S /\ \A y \in S : Least(S) <= y
  BY <1>1 DEF Least
<1> QED
  BY <1>2 DEF S

\* The granted window of a stream as the frame that completes its request finds
\* it, a new one's being the initial window.
Granted(s) == IF s \in DOMAIN c.streams THEN c.streams[s].granted ELSE c.initWin

LEMMA RespondKeeps ==
  ASSUME IInv, phase = "frames", NEW CONSTANT h, Sound(h), h.asm.id = 0,
         h.handled = c.handled, h.granted = c.granted, NEW CONSTANT s \in DOMAIN h.streams,
         h.streams[s].granted = Granted(s), NEW CONSTANT n \in Nat, Respond(h, s, n)
  PROVE  IInv' /\ Fit
<1> DEFINE m == Fits(h, s, n)
<1>1. requests + 1 \in 1..MaxRequests /\ requests \in Nat /\ MaxRequests \in Nat
  BY H2Assumption DEF IInv
<1>2. CASE m < n \/ requests + 1 >= MaxRequests
  BY <1>1, <1>2, CloseKeeps DEF Respond
<1>3. CASE ~(m < n \/ requests + 1 >= MaxRequests)
  <2>1. h.send \in Int /\ h.streams[s].send \in Int /\ h.granted \in Int
        /\ h.streams[s].send = h.streams[s].granted
    BY TypedMap, FieldTypes, StreamTypes DEF Sound, SoundStreams, SoundStream
  <2>2. Usable(h.send) \in Nat /\ Usable(h.streams[s].send) \in Nat
    BY <2>1 DEF Usable
  <2>3. m \in Nat /\ m <= Usable(h.send) /\ m <= Usable(h.streams[s].send)
    BY <2>2, LeastOfThree DEF Fits
  <2> HIDE DEF m
  <2>4. n <= Usable(h.send) /\ n <= Usable(h.streams[s].send)
    BY <1>3, <2>2, <2>3
  <2>5. /\ c' = Swept(Answered(h, s, n), s) /\ requests' = requests + 1
        /\ phase' = phase /\ requests + 1 < MaxRequests
    BY <1>1, <1>3 DEF Respond, m
  <2>6. Sound(c') /\ c'.handled = c.handled \cup {s} /\ c'.granted = c.granted - n
    BY <2>4, <2>5, AnsweredSound
  <2>7. c.granted - c'.granted <= Usable(Granted(s))
    BY <2>1, <2>4, <2>6
  <2> QED
    BY <1>1, <2>5, <2>6, <2>7 DEF IInv, Fit, Granted
<1> QED
  BY <1>2, <1>3

LEMMA CompleteKeeps ==
  ASSUME IInv, phase = "frames", NEW CONSTANT h, Sound(h), h.asm.id = 0,
         h.handled = c.handled, h.granted = c.granted, NEW CONSTANT s \in DOMAIN h.streams,
         h.streams[s].granted = Granted(s), Complete(h, s)
  PROVE  IInv' /\ Fit
<1> DEFINE f == Blank(h, s)
           n == h.streams[s].body
           g == Replenished(f, s, n)
<1>1. /\ Sound(f) /\ SameRest(f, h) /\ DOMAIN f.streams = DOMAIN h.streams
      /\ f.granted = h.granted /\ f.streams[s].body = 0
      /\ f.streams[s].granted = h.streams[s].granted
  BY BlankSound
<1>2. (IF h.streams[s].headers = "good" THEN Handle(g, s) ELSE Continue(g))
  BY DEF Complete, Blank
<1> HIDE DEF f, n
<1>3. /\ Sound(g) /\ SameRest(g, f) /\ s \in DOMAIN g.streams /\ g.granted = f.granted
      /\ g.streams[s].granted = f.streams[s].granted
  BY <1>1, ReplenishedSound
<1> HIDE DEF g
<1>4. /\ g.asm.id = 0 /\ g.handled = c.handled /\ g.granted = c.granted
      /\ g.streams[s].granted = Granted(s)
  BY <1>1, <1>3 DEF SameRest
<1>5. CASE Continue(g)
  BY <1>3, <1>4, <1>5, ContinueKeeps
<1>6. CASE Handle(g, s)
  <2>1. requests + 1 \in 0..MaxRequests
    BY H2Assumption DEF IInv
  <2>2. CASE Close(requests + 1)
    BY <2>1, <2>2, CloseKeeps
  <2>3. CASE \E k \in Nat : Respond(g, s, k)
    BY <1>3, <1>4, <2>3, RespondKeeps
  <2> QED
    BY <1>6, <2>2, <2>3, H2Assumption DEF Handle
<1> QED
  BY <1>2, <1>5, <1>6
\* Between header blocks no stream is idle.
LEMMA ReadsNoIdle ==
  ASSUME IInv, ReadsFrame
  PROVE  /\ phase = "frames" /\ c.asm.id = 0 /\ c \in Connections /\ Sound(c)
         /\ \A s \in DOMAIN c.streams : c.streams[s].state # "idle" /\ s \in StreamIds /\ s # 0
BY TypedMap, IdsAreNats DEF ReadsFrame, IInv, Sound, SoundMap

LEMMA ErrorKeeps ==
  ASSUME IInv, ConnectionError
  PROVE  IInv' /\ Fit
<1>1. requests \in 0..MaxRequests
  BY DEF IInv
<1> QED
  BY <1>1, CloseKeeps DEF ConnectionError

LEMMA AcceptKeeps ==
  ASSUME IInv, Accept \/ AcceptFails
  PROVE  IInv' /\ Fit
BY DEF IInv, Accept, AcceptFails, Fit

\* A new stream above all others, while there is room for one.
LEMMA AddedSound ==
  ASSUME NEW h, Sound(h), h.asm.id = 0, RoomForStream(h), NEW g \in Connections,
         NEW s \in StreamIds, ~(s <= h.lastPeer), g.lastPeer = s, g.handled = h.handled,
         DOMAIN g.streams = DOMAIN h.streams \cup {s}, SoundStream(g.streams[s]),
         \A t \in DOMAIN h.streams \ {s} : g.streams[t] = h.streams[t],
         g.asm.id \in {0, s}, g.streams[s].state = "idle" <=> g.asm.id = s,
         SoundFlow(g)
  PROVE  Sound(g)
<1>1. h \in Connections /\ s # 0 /\ s \in Nat /\ h.lastPeer \in Nat
  <2>1. h \in Connections
    BY DEF Sound
  <2> QED
    BY <2>1, FieldTypes, IdsAreNats, H2Assumption
<1>2. Room(g)
  <2>1. Active(h) \in SUBSET StreamIds /\ IsFiniteSet(StreamIds)
    BY <1>1, TypedMap, IdsAreNats DEF Active
  <2>2. IsFiniteSet(Active(h)) /\ Cardinality(Active(h)) \in Nat
    BY <2>1, FS_Subset, FS_CardinalityType
  <2>3. /\ IsFiniteSet(Active(h) \cup {s})
        /\ Cardinality(Active(h) \cup {s}) \in Nat
        /\ Cardinality(Active(h) \cup {s}) <= Cardinality(Active(h)) + 1
    <3> DEFINE A == Active(h)
    <3> HIDE DEF A
    <3>1. /\ IsFiniteSet(A \cup {s})
          /\ Cardinality(A \cup {s}) = IF s \in A THEN Cardinality(A) ELSE Cardinality(A) + 1
      BY <2>2, FS_AddElement DEF A
    <3> QED
      BY <2>2, <3>1 DEF A
  <2>4. Active(g) \in SUBSET (Active(h) \cup {s})
    BY DEF Active
  <2>5. /\ Cardinality(Active(g)) <= Cardinality(Active(h) \cup {s})
        /\ Cardinality(Active(g)) \in Nat
    BY <2>3, <2>4, FS_Subset, FS_CardinalityType
  <2>6. MaxConcurrent \in Nat
    BY H2Assumption
  <2> QED
    BY <2>2, <2>3, <2>5, <2>6 DEF Room, RoomForStream
<1>3. SoundMap(g)
  <2>1. \A t \in DOMAIN h.streams \cup h.handled : t \in Nat /\ t <= h.lastPeer /\ t # s
    BY <1>1, TypedMap, FieldTypes, IdsAreNats DEF Sound, SoundMap
  <2>2. \A t \in DOMAIN h.streams : h.streams[t].state # "idle" /\ t # 0
    BY <1>1, TypedMap, IdsAreNats DEF Sound, SoundMap
  <2> QED
    BY <1>1, <2>1, <2>2 DEF Sound, SoundMap
<1>4. SoundStreams(g)
  BY DEF Sound, SoundStreams
<1> QED
  BY <1>2, <1>3, <1>4 DEF Sound

\* The header block of a stream is decoded.
OpenedStream(r, block) == [r EXCEPT !.state = "open", !.headers = block]
Opened(h, s, block) == SetStream(h, s, OpenedStream(h.streams[s], block))

LEMMA OpenedStreamSound ==
  ASSUME NEW r, SoundStream(r), NEW b \in {"good", "bad"}
  PROVE  /\ SoundStream(OpenedStream(r, b)) /\ OpenedStream(r, b).state = "open"
         /\ OpenedStream(r, b).granted = r.granted
<1> DEFINE u == OpenedStream(r, b)
<1>1. r \in Streams
  BY DEF SoundStream
<1>2. /\ u \in Streams /\ u.state = "open" /\ u.body = r.body /\ u.send = r.send
      /\ u.recv = r.recv /\ u.mayReceive = r.mayReceive /\ u.granted = r.granted
  BY <1>1 DEF OpenedStream, Streams
<1> HIDE DEF u
<1> QED
  BY <1>2 DEF SoundStream, u

LEMMA DecodedKeeps ==
  ASSUME IInv, phase = "frames", NEW CONSTANT h, NEW CONSTANT s,
         NEW CONSTANT b \in {"good", "bad", "undecodable"}, NEW CONSTANT end,
         b # "undecodable" =>
           LET g == Opened(h, s, b) IN
           /\ Sound(g) /\ g.asm.id = 0 /\ g.handled = c.handled /\ g.granted = c.granted
           /\ s \in DOMAIN g.streams /\ g.streams[s].granted = Granted(s),
         Decoded(h, s, b, end)
  PROVE  IInv' /\ Fit
<1>1. CASE b = "undecodable"
  BY <1>1, ErrorKeeps DEF Decoded
<1>2. CASE b # "undecodable"
  <2> DEFINE g == Opened(h, s, b)
  <2>1. /\ Sound(g) /\ g.asm.id = 0 /\ g.handled = c.handled /\ g.granted = c.granted
        /\ s \in DOMAIN g.streams /\ g.streams[s].granted = Granted(s)
    BY <1>2
  <2>2. Complete(g, s) \/ Continue(g)
    BY <1>2 DEF Decoded, Opened, OpenedStream
  <2> HIDE DEF g
  <2>3. CASE Continue(g)
    BY <2>1, <2>3, ContinueKeeps
  <2>4. CASE Complete(g, s)
    BY <2>1, <2>4, CompleteKeeps
  <2> QED
    BY <2>2, <2>3, <2>4
<1> QED
  BY <1>1, <1>2
LEMMA RecvHeadersKeeps ==
  ASSUME IInv, NEW CONSTANT s \in StreamIds, NEW CONSTANT b \in {"good", "bad", "undecodable"},
         NEW CONSTANT eh \in BOOLEAN, NEW CONSTANT end \in BOOLEAN, RecvHeaders(s, b, eh, end)
  PROVE  IInv' /\ Fit
<1>1. /\ phase = "frames" /\ c.asm.id = 0 /\ c \in Connections /\ Sound(c) /\ s \in Ids
      /\ s # 0 /\ s \in Nat /\ c.lastPeer \in Nat /\ MaxFragments \in Nat \ {0}
  <2>1. ReadsFrame
    BY DEF RecvHeaders
  <2> QED
    BY <2>1, ReadsNoIdle, IdsAreNats, FieldTypes, H2Assumption DEF StreamIds
<1>2. CASE s % 2 = 0 \/ s <= c.lastPeer
  BY <1>2, ErrorKeeps DEF RecvHeaders
<1>3. CASE ~(s % 2 = 0 \/ s <= c.lastPeer)
  <2> DEFINE u == NewStream(c, "idle", "none")
             f == SetStream(c, s, u)
  <2>1. s \notin DOMAIN c.streams /\ s \notin c.handled
    BY <1>1, <1>3 DEF Sound, SoundMap
  <2>2. SoundStream(u) /\ u \in Streams /\ u.state = "idle" /\ u.granted = c.initWin
    <3>1. SoundStream(u) /\ u.state = "idle"
      BY <1>1, NewStreamSound
    <3> QED
      BY <3>1 DEF SoundStream, NewStream
  <2> HIDE DEF u
  <2>3. /\ f \in Connections /\ DOMAIN f.streams = DOMAIN c.streams \cup {s}
        /\ f.streams[s] = u /\ SameFlow(f, c) /\ SameRest(f, c)
        /\ \A t \in DOMAIN c.streams \ {s} : f.streams[t] = c.streams[t]
    BY <1>1, <2>2, SetStreamFields
  <2> HIDE DEF f
  <2>4. CASE ~RoomForStream(c)
    <3> DEFINE h == [c EXCEPT !.lastPeer = s]
    <3>1. /\ h \in Connections /\ h.streams = c.streams /\ SameFlow(h, c) /\ h.asm = c.asm
          /\ h.handled = c.handled /\ h.lastPeer = s
      <4> HIDE DEF StreamMaps, Assemblies
      <4> QED
        BY <1>1 DEF Connections, SameFlow
    <3>2. HeadersRefused(s) <=> Continue(Without(h, {s}))
      BY DEF HeadersRefused, StreamError
    <3> HIDE DEF h
    <3>3. SoundMap(h)
      <4>1. \A t \in DOMAIN c.streams \cup c.handled : t \in Nat /\ t <= s
        BY <1>1, <1>3, TypedMap, FieldTypes, IdsAreNats DEF Sound, SoundMap
      <4> QED
        BY <1>1, <3>1, <4>1 DEF Sound, SoundMap
    <3>4. Active(h) = Active(c)
      BY <3>1 DEF Active
    <3>5. Sound(h)
      BY <1>1, <3>1, <3>3, <3>4 DEF Sound, SoundStreams, SoundFlow, SameFlow, Room
    <3>6. Sound(Without(h, {s})) /\ Without(h, {s}).handled = c.handled
      BY <1>1, <3>1, <3>5, WithoutSound, WithoutFields DEF SameRest
    <3>7. HeadersRefused(s)
      BY <1>3, <2>4 DEF RecvHeaders
    <3> QED
      BY <3>2, <3>6, <3>7, ContinueKeeps
  <2>5. CASE RoomForStream(c) /\ ~eh
    <3> DEFINE a == [id |-> s, end |-> end, fragments |-> 1]
               g == [f EXCEPT !.lastPeer = s, !.asm = a]
    <3>1. a \in Assemblies /\ a.id = s
      BY <1>1 DEF Assemblies
    <3> HIDE DEF a
    <3>2. /\ g \in Connections /\ g.streams = f.streams /\ SameFlow(g, f) /\ g.asm = a
          /\ g.handled = f.handled /\ g.lastPeer = s
      <4> HIDE DEF StreamMaps, Assemblies
      <4> QED
        BY <1>1, <2>3, <3>1 DEF Connections, SameFlow
    <3>3. StartsAssembly(s, end) <=> Continue(g)
      BY DEF StartsAssembly, f, u, a
    <3> HIDE DEF g
    <3>4. SoundFlow(g)
      BY <1>1, <2>3, <3>2 DEF Sound, SoundFlow, SameFlow, SameRest
    <3>5. /\ g.handled = c.handled /\ DOMAIN g.streams = DOMAIN c.streams \cup {s}
          /\ g.asm.id = s /\ g.streams[s] = u
          /\ \A t \in DOMAIN c.streams \ {s} : g.streams[t] = c.streams[t]
      BY <2>3, <3>1, <3>2 DEF SameRest
    <3>6. Sound(g)
      BY <1>1, <1>3, <2>2, <2>5, <3>2, <3>4, <3>5, AddedSound
    <3>7. StartsAssembly(s, end)
      BY <1>3, <2>5 DEF RecvHeaders
    <3> QED
      BY <3>3, <3>5, <3>6, <3>7, ContinueKeeps
  <2>6. CASE RoomForStream(c) /\ eh
    <3> DEFINE h == [f EXCEPT !.lastPeer = s]
    <3>1. /\ h \in Connections /\ h.streams = f.streams /\ SameFlow(h, f) /\ h.asm = f.asm
          /\ h.handled = f.handled /\ h.lastPeer = s
      <4> HIDE DEF StreamMaps, Assemblies
      <4> QED
        BY <1>1, <2>3 DEF Connections, SameFlow
    <3>2. Decoded(h, s, b, end)
      BY <1>3, <2>6 DEF RecvHeaders, f, u
    <3> HIDE DEF h
    <3>3. ASSUME b # "undecodable"
          PROVE  LET g == Opened(h, s, b) IN
                 /\ Sound(g) /\ g.asm.id = 0 /\ g.handled = c.handled
                 /\ g.granted = c.granted
                 /\ s \in DOMAIN g.streams /\ g.streams[s].granted = Granted(s)
      <4> DEFINE r == OpenedStream(h.streams[s], b)
                 g == SetStream(h, s, r)
      <4>1. SoundStream(r) /\ r.state = "open" /\ r.granted = c.initWin /\ r \in Streams
        <5>1. h.streams[s] = u /\ b \in {"good", "bad"}
          BY <2>3, <3>1, <3>3
        <5>2. SoundStream(r) /\ r.state = "open" /\ r.granted = c.initWin
          BY <2>2, <5>1, OpenedStreamSound
        <5> QED
          BY <5>2 DEF SoundStream
      <4> HIDE DEF r
      <4>2. /\ g \in Connections /\ DOMAIN g.streams = DOMAIN h.streams \cup {s}
            /\ g.streams[s] = r /\ SameFlow(g, h) /\ SameRest(g, h)
            /\ \A t \in DOMAIN h.streams \ {s} : g.streams[t] = h.streams[t]
        BY <3>1, <4>1, SetStreamFields
      <4>3. g = Opened(h, s, b)
        BY DEF Opened, r
      <4> HIDE DEF g
      <4>4. DOMAIN g.streams = DOMAIN c.streams \cup {s}
            /\ \A t \in DOMAIN c.streams \ {s} : g.streams[t] = c.streams[t]
        BY <2>3, <3>1, <4>2
      <4>5. /\ g.asm.id = 0 /\ g.handled = c.handled /\ g.granted = c.granted
            /\ g.lastPeer = s
        BY <1>1, <2>3, <3>1, <4>2 DEF SameFlow, SameRest
      <4>6. SoundFlow(g)
        BY <1>1, <2>3, <3>1, <4>2 DEF Sound, SoundFlow, SameFlow, SameRest
      <4>7. Sound(g)
        BY <1>1, <1>3, <2>6, <4>1, <4>2, <4>4, <4>5, <4>6, AddedSound
      <4> QED
        BY <2>1, <4>1, <4>2, <4>3, <4>4, <4>5, <4>7 DEF Granted
    <3> QED
      BY <1>1, <3>2, <3>3, DecodedKeeps
  <2> QED
    BY <2>4, <2>5, <2>6
<1> QED
  BY <1>2, <1>3
LEMMA RecvContinuationKeeps ==
  ASSUME IInv, NEW CONSTANT s \in StreamIds, NEW CONSTANT b \in {"good", "bad", "undecodable"},
         NEW CONSTANT eh \in BOOLEAN, RecvContinuation(s, b, eh)
  PROVE  IInv' /\ Fit
<1>1. /\ phase = "frames" /\ c \in Connections /\ Sound(c) /\ c.asm \in Assemblies
      /\ MaxFragments \in Nat /\ 0 \in Ids
  BY FieldTypes, H2Assumption DEF RecvContinuation, IInv, Sound
<1>2. CASE c.asm.id = 0 \/ s # c.asm.id \/ c.asm.fragments >= MaxFragments
  BY <1>2, ErrorKeeps DEF RecvContinuation
<1>3. CASE /\ ~(c.asm.id = 0 \/ s # c.asm.id \/ c.asm.fragments >= MaxFragments)
           /\ ~eh
  <2> DEFINE a == [c.asm EXCEPT !.fragments = @ + 1]
             g == [c EXCEPT !.asm = a]
  <2>1. a \in Assemblies /\ a.id = c.asm.id
    BY <1>1, <1>3 DEF Assemblies
  <2>2. Continue(g)
    BY <1>3 DEF RecvContinuation
  <2> HIDE DEF a
  <2>3. /\ g \in Connections /\ g.streams = c.streams /\ SameFlow(g, c) /\ g.asm = a
        /\ g.handled = c.handled /\ g.lastPeer = c.lastPeer
    <3> HIDE DEF StreamMaps, Assemblies
    <3> QED
      BY <1>1, <2>1 DEF Connections, SameFlow
  <2> HIDE DEF g
  <2>4. SoundMap(g) /\ Active(g) = Active(c)
    BY <1>1, <2>1, <2>3 DEF Sound, SoundMap, Active
  <2>5. Sound(g)
    BY <1>1, <2>3, <2>4 DEF Sound, SoundStreams, SoundFlow, SameFlow, Room
  <2> QED
    BY <2>2, <2>3, <2>5, ContinueKeeps
<1>4. CASE /\ ~(c.asm.id = 0 \/ s # c.asm.id \/ c.asm.fragments >= MaxFragments)
           /\ eh
  <2> DEFINE h == [c EXCEPT !.asm = NoAssembly]
             end == c.asm.end
  <2>1. s \in DOMAIN c.streams /\ s = c.asm.id
    BY <1>1, <1>4 DEF Sound, SoundMap
  <2>2. NoAssembly \in Assemblies /\ NoAssembly.id = 0
    BY <1>1 DEF NoAssembly, Assemblies
  <2>3. Decoded(h, s, b, end)
    BY <1>4 DEF RecvContinuation, Assembled
  <2>4. /\ h \in Connections /\ h.streams = c.streams /\ SameFlow(h, c) /\ h.asm.id = 0
        /\ h.handled = c.handled /\ h.lastPeer = c.lastPeer
    <3> HIDE DEF StreamMaps, Assemblies
    <3> QED
      BY <1>1, <2>2 DEF Connections, SameFlow
  <2> HIDE DEF h
  <2>5. ASSUME b # "undecodable"
        PROVE  LET g == Opened(h, s, b) IN
               /\ Sound(g) /\ g.asm.id = 0 /\ g.handled = c.handled
               /\ g.granted = c.granted
               /\ s \in DOMAIN g.streams /\ g.streams[s].granted = Granted(s)
    <3> DEFINE r == OpenedStream(h.streams[s], b)
               g == SetStream(h, s, r)
    <3>1. SoundStream(r) /\ r.state = "open" /\ r.granted = Granted(s) /\ r \in Streams
      <4>1. SoundStream(h.streams[s]) /\ b \in {"good", "bad"}
        BY <1>1, <2>1, <2>4, <2>5 DEF Sound, SoundStreams
      <4>2. SoundStream(r) /\ r.state = "open" /\ r.granted = h.streams[s].granted
        BY <4>1, OpenedStreamSound
      <4> QED
        BY <2>1, <2>4, <4>2 DEF SoundStream, Granted
    <3> HIDE DEF r
    <3>2. s \in StreamIds /\ \A t \in DOMAIN c.streams : t # 0
      BY <1>1, TypedMap, IdsAreNats
    <3>3. /\ g \in Connections /\ DOMAIN g.streams = DOMAIN h.streams \cup {s}
          /\ g.streams[s] = r /\ SameFlow(g, h) /\ SameRest(g, h)
          /\ \A t \in DOMAIN h.streams \ {s} : g.streams[t] = h.streams[t]
      BY <2>4, <3>1, <3>2, SetStreamFields
    <3>4. g = Opened(h, s, b)
      BY DEF Opened, r
    <3> HIDE DEF g
    <3>5. DOMAIN g.streams = DOMAIN c.streams
          /\ \A t \in DOMAIN c.streams \ {s} : g.streams[t] = c.streams[t]
      BY <2>1, <2>4, <3>3
    <3>6. /\ g.asm.id = 0 /\ g.handled = c.handled /\ g.granted = c.granted
          /\ g.lastPeer = c.lastPeer
      BY <2>4, <3>3 DEF SameFlow, SameRest
    <3>7. Active(g) = Active(c)
      BY <1>1, <2>1, <3>1, <3>3, <3>5 DEF Active, Sound, SoundMap
    <3>8. SoundMap(g)
      BY <1>1, <2>1, <3>1, <3>2, <3>3, <3>5, <3>6 DEF Sound, SoundMap
    <3>9. SoundStreams(g)
      BY <1>1, <3>1, <3>3, <3>5 DEF Sound, SoundStreams
    <3>10. SoundFlow(g)
      BY <1>1, <2>4, <3>3 DEF Sound, SoundFlow, SameFlow, SameRest
    <3>11. Sound(g)
      BY <1>1, <3>3, <3>7, <3>8, <3>9, <3>10 DEF Sound, Room
    <3> QED
      BY <2>1, <3>1, <3>3, <3>4, <3>5, <3>6, <3>11
  <2> HIDE DEF end
  <2> QED
    BY <1>1, <2>3, <2>5, DecodedKeeps
<1> QED
  BY <1>2, <1>3, <1>4

LEMMA RecvDataKeeps ==
  ASSUME IInv, NEW CONSTANT s \in StreamIds, NEW CONSTANT n \in Lengths,
         NEW CONSTANT m \in {n, n - 1} \cap Nat, NEW CONSTANT end \in BOOLEAN,
         RecvData(s, n, m, end)
  PROVE  IInv' /\ Fit
<1>1. /\ phase = "frames" /\ c.asm.id = 0 /\ c \in Connections /\ Sound(c)
      /\ n \in Nat /\ m \in Nat /\ m <= n /\ s # 0 /\ MaxBody \in Nat
  <2>1. ReadsFrame
    BY DEF RecvData
  <2> QED
    BY <2>1, ReadsNoIdle, IdsAreNats, H2Assumption
<1> DEFINE f == Spent(c, s, n)
           k == [f EXCEPT !.recv = @ - n]
           g == WithData(f, s, n, m)
<1>2. CASE s \notin DOMAIN c.streams \/ OverConnectionWindow(c, n)
  BY <1>2, ErrorKeeps DEF RecvData
<1>3. CASE s \in DOMAIN c.streams /\ ~OverConnectionWindow(c, n)
  <2>1. /\ c.streams[s].body \in Nat /\ c.streams[s].recv \in Nat /\ c.recv \in Nat
        /\ n <= c.recv
    <3>1. c.streams[s] \in Streams
      BY <1>1, <1>3, TypedMap
    <3>2. /\ c.streams[s].body \in Nat /\ c.streams[s].recv \in Nat /\ c.recv \in Nat
      BY <1>1, <3>1, StreamTypes, FieldTypes, H2Assumption
    <3> QED
      BY <1>1, <1>3, <3>2 DEF OverConnectionWindow
  <2>2. CASE n > c.streams[s].recv
    <3>1. Continue(Without(f, {s}))
      BY <1>3, <2>2 DEF RecvData, StreamError
    <3>2. Sound(f) /\ SameRest(f, c)
      BY <1>1, SpentSound, SpentFields
    <3> HIDE DEF f
    <3>3. Sound(Without(f, {s})) /\ Without(f, {s}).handled = c.handled
      BY <1>1, <3>2, WithoutSound, WithoutFields DEF SameRest, Sound
    <3> QED
      BY <3>1, <3>3, ContinueKeeps
  <2>3. CASE ~(n > c.streams[s].recv) /\ c.streams[s].body + m > MaxBody
    <3>1. Continue(Without(k, {s}))
      BY <1>3, <2>3 DEF RecvData, StreamError
    <3>2. Sound(k) /\ SameRest(k, c)
      BY <1>1, <2>1, OverlongSound
    <3> HIDE DEF k
    <3>3. Sound(Without(k, {s})) /\ Without(k, {s}).handled = c.handled
      BY <1>1, <3>2, WithoutSound, WithoutFields DEF SameRest, Sound
    <3> QED
      BY <3>1, <3>3, ContinueKeeps
  <2>4. CASE ~(n > c.streams[s].recv) /\ ~(c.streams[s].body + m > MaxBody)
    <3>1. n <= c.streams[s].recv /\ c.streams[s].body + m <= MaxBody
      BY <1>1, <2>1, <2>4
    <3>2. Complete(g, s) \/ Continue(g)
      BY <1>3, <2>4 DEF RecvData
    <3>3. /\ Sound(g) /\ SameRest(g, c) /\ DOMAIN g.streams = DOMAIN c.streams
          /\ g.granted = c.granted /\ g.streams[s].granted = c.streams[s].granted
      BY <1>1, <1>3, <2>1, <3>1, DataSound
    <3> HIDE DEF g
    <3>4. g.asm.id = 0 /\ g.handled = c.handled /\ g.streams[s].granted = Granted(s)
      BY <1>1, <1>3, <3>3 DEF SameRest, Granted
    <3>5. CASE Continue(g)
      BY <3>3, <3>4, <3>5, ContinueKeeps
    <3>6. CASE Complete(g, s)
      BY <1>1, <1>3, <3>3, <3>4, <3>6, CompleteKeeps
    <3> QED
      BY <3>2, <3>5, <3>6
  <2> QED
    BY <2>2, <2>3, <2>4
<1> QED
  BY <1>2, <1>3
LEMMA RecvWindowUpdateKeeps ==
  ASSUME IInv, NEW CONSTANT s \in Ids, NEW CONSTANT n \in Increments, RecvWindowUpdate(s, n)
  PROVE  IInv' /\ Fit
<1>1. /\ phase = "frames" /\ c.asm.id = 0 /\ c \in Connections /\ Sound(c) /\ n \in Nat
  <2>1. ReadsFrame
    BY DEF RecvWindowUpdate
  <2> QED
    BY <2>1, ReadsNoIdle, H2Assumption
<1>2. CASE ConnectionError
  BY <1>2, ErrorKeeps
<1>3. CASE s # 0 /\ StreamError(c, s)
  <2>1. Sound(Without(c, {s})) /\ Without(c, {s}).handled = c.handled
    BY <1>1, <1>3, WithoutSound, WithoutFields DEF SameRest
  <2> QED
    BY <1>3, <2>1, ContinueKeeps DEF StreamError
<1>4. CASE Continue(c)
  BY <1>1, <1>4, ContinueKeeps
<1>5. CASE Continue(Raised(c, n))
  BY <1>1, <1>5, RaisedSound, ContinueKeeps
<1>6. CASE s \in DOMAIN c.streams /\ Continue(SetStream(c, s, Raised(c.streams[s], n)))
  <2> DEFINE r == Raised(c.streams[s], n)
             g == SetStream(c, s, r)
  <2>1. SoundStream(r) /\ r.state = c.streams[s].state /\ r \in Streams /\ s \in StreamIds
    <3>1. SoundStream(c.streams[s]) /\ s \in StreamIds
      BY <1>1, <1>6, TypedMap DEF Sound, SoundStreams
    <3>2. SoundStream(r) /\ r.state = c.streams[s].state
      BY <1>1, <3>1, RaisedStreamSound
    <3> QED
      BY <3>1, <3>2 DEF SoundStream
  <2>2. Continue(g)
    BY <1>6
  <2> HIDE DEF r
  <2>3. Sound(g)
    BY <1>1, <1>6, <2>1, SetStreamSound
  <2>4. g.handled = c.handled
    BY <1>1, <2>1, SetStreamFields DEF SameRest
  <2> HIDE DEF g
  <2> QED
    BY <2>2, <2>3, <2>4, ContinueKeeps
<1> QED
  BY <1>2, <1>3, <1>4, <1>5, <1>6 DEF RecvWindowUpdate

LEMMA RecvResetKeeps ==
  ASSUME IInv, NEW CONSTANT s \in StreamIds, RecvReset(s)
  PROVE  IInv' /\ Fit
<1>1. /\ phase = "frames" /\ c.asm.id = 0 /\ c \in Connections /\ Sound(c)
      /\ s \in DOMAIN c.streams /\ c.streams[s].state # "idle"
  <2>1. ReadsFrame
    BY DEF RecvReset
  <2> QED
    BY <2>1, ReadsNoIdle DEF RecvReset
<1> DEFINE u == [c.streams[s] EXCEPT !.state = "closed"]
           g == SetStream(c, s, u)
<1>2. SoundStream(u) /\ u.state = "closed" /\ u \in Streams /\ s \in StreamIds
  <2> DEFINE r == c.streams[s]
  <2>1. SoundStream(r) /\ r \in Streams /\ s \in StreamIds
    BY <1>1, TypedMap DEF Sound, SoundStreams
  <2> HIDE DEF r
  <2>2. LET v == [r EXCEPT !.state = "closed"] IN
          /\ v \in Streams /\ v.state = "closed" /\ v.body = r.body /\ v.send = r.send
          /\ v.recv = r.recv /\ v.mayReceive = r.mayReceive /\ v.granted = r.granted
    BY <2>1 DEF Streams
  <2>3. SoundStream([r EXCEPT !.state = "closed"])
    BY <2>1, <2>2 DEF SoundStream
  <2> QED
    BY <2>1, <2>2, <2>3 DEF r
<1>3. Continue(g)
  <2> DEFINE m == [c.streams EXCEPT ![s] = u]
             D == DOMAIN c.streams
             k == [t \in D \cup {s} |-> IF t = s THEN u ELSE c.streams[t]]
  <2>1. [c EXCEPT !.streams[s].state = "closed"] = [c EXCEPT !.streams = m]
    OBVIOUS
  <2>2. g = [c EXCEPT !.streams = k]
    BY DEF SetStream
  <2>3. k = m
    <3>1. c.streams \in [D -> Streams] /\ D \cup {s} = D
      BY <1>1, TypedMap
    <3> QED
      BY <1>1, <3>1
  <2> QED
    BY <2>1, <2>2, <2>3 DEF RecvReset
<1> HIDE DEF u
<1>4. Sound(g)
  BY <1>1, <1>2, SetStreamSound
<1>5. g.handled = c.handled
  BY <1>1, <1>2, SetStreamFields DEF SameRest
<1> HIDE DEF g
<1> QED
  BY <1>3, <1>4, <1>5, ContinueKeeps

LEMMA NextKeeps == IInv /\ Next => IInv' /\ Fit
<1> SUFFICES ASSUME IInv, Next PROVE IInv' /\ Fit
  OBVIOUS
<1>1. CASE Accept \/ AcceptFails
  BY <1>1, AcceptKeeps
<1>2. CASE ConnectionLost \/ Interrupted \/ BadFrame
  BY <1>2, ErrorKeeps DEF ConnectionLost, Interrupted, BadFrame
<1>3. CASE \E w \in PeerWindows : RecvSettings(w)
  <2>1. PICK w \in PeerWindows : RecvSettings(w)
    BY <1>3
  <2>2. Sound(WithInitialWindow(c, w)) /\ WithInitialWindow(c, w).handled = c.handled
    BY SettingsSound DEF IInv
  <2> QED
    BY <2>1, <2>2, ContinueKeeps DEF RecvSettings
<1>4. CASE \E s \in StreamIds, b \in {"good", "bad", "undecodable"}, eh, end \in BOOLEAN :
             RecvHeaders(s, b, eh, end)
  BY <1>4, RecvHeadersKeeps
<1>5. CASE \E s \in StreamIds, b \in {"good", "bad", "undecodable"}, eh \in BOOLEAN :
             RecvContinuation(s, b, eh)
  BY <1>5, RecvContinuationKeeps
<1>6. CASE \E s \in StreamIds, n \in Lengths, end \in BOOLEAN :
             \E m \in {n, n - 1} \cap Nat : RecvData(s, n, m, end)
  BY <1>6, RecvDataKeeps
<1>7. CASE \E s \in Ids, n \in Increments : RecvWindowUpdate(s, n)
  BY <1>7, RecvWindowUpdateKeeps
<1>8. CASE \E s \in StreamIds : RecvReset(s)
  BY <1>8, RecvResetKeeps
<1> QED
  BY <1>1, <1>2, <1>3, <1>4, <1>5, <1>6, <1>7, <1>8 DEF Next

LEMMA Inductive == Spec => []IInv
<1>1. Init => IInv
  BY FreshSound, H2Assumption DEF Init, IInv
<1>2. IInv /\ UNCHANGED vars => IInv'
  BY DEF IInv, vars
<1> QED
  BY <1>1, <1>2, NextKeeps, PTL DEF Spec
-----------------------------------------------------------------------------
\* Whatever frames come in whatever order, the stream map never holds more
\* active streams than announced, idle streams other than the one being
\* assembled, or a stream that has been answered; and httpServe's budget of
\* requests is kept over all connections.
THEOREM StreamsKept == Spec => []StreamsSound
<1>1. IInv => StreamsSound
  <2> SUFFICES ASSUME IInv PROVE StreamsSound
    OBVIOUS
  <2>1. c \in Connections /\ Sound(c) /\ c.asm.id \in Ids
    BY FieldTypes DEF IInv, Sound, Assemblies
  <2>2. TypeOK
    BY <2>1, TypedMap, FieldTypes DEF IInv, TypeOK, Assemblies
  <2>3. BudgetKept /\ StreamLimit
    BY <2>1, H2Assumption DEF IInv, BudgetKept, StreamLimit, Sound, Room
  <2>4. IdleIsAssembling /\ AnsweredIsGone
    BY <2>1, TypedMap, IdsAreNats DEF IdleIsAssembling, AnsweredIsGone, Sound, SoundMap
  <2> QED
    BY <2>2, <2>3, <2>4 DEF StreamsSound
<1> QED
  BY <1>1, Inductive, PTL

\* A peer that keeps to the windows it was told of never exceeds ours, and what
\* is buffered of each body is bounded by a window.
THEOREM ReceiveWindowsCover == Spec => []ReceiveWindows
<1>1. IInv => ReceiveWindows
  BY DEF IInv, Sound, SoundFlow, SoundStreams, SoundStream, ReceiveWindows
<1> QED
  BY <1>1, Inductive, PTL

\* The send windows are what the peer has granted less what was sent, through
\* every change of SETTINGS_INITIAL_WINDOW_SIZE, and the connection's is never
\* overdrawn.
THEOREM SendWindowsExact == Spec => []NeverOversends
<1>1. IInv => NeverOversends
  BY DEF IInv, Sound, SoundFlow, SoundStreams, SoundStream, NeverOversends
<1> QED
  BY <1>1, Inductive, PTL

\* No response uses more than the peer had granted its stream.
THEOREM ResponsesKeepToGrants == Spec => ResponsesFit
<1>1. IInv /\ [Next]_vars =>
        [\A s \in c'.handled \ c.handled :
           c.granted - c'.granted
             <= Usable(IF s \in DOMAIN c.streams THEN c.streams[s].granted ELSE c.initWin)]_vars
  BY NextKeeps DEF Fit
<1> QED
  BY <1>1, Inductive, PTL DEF Spec, ResponsesFit
=============================================================================
