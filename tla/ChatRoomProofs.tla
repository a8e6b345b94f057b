--------------------------- MODULE ChatRoomProofs ---------------------------
(***************************************************************************)
(* Theorems of ChatRoom, for any number of members, tabs and threads.      *)
(*                                                                         *)
(* Who is present is decided by the streams alone: the proof needs to know *)
(* of a stream only that its record keeps the reader it was opened by from *)
(* step to step, which is what IStream says.  The bounds of the types rest *)
(* on the posts under way: each goes along Course, and the sets of posts   *)
(* that have yet to store, to broadcast or to cut the buffer only shrink   *)
(* between a beginning and an end.  The flood limit rests on the history:  *)
(* Covered says that no message in the window lacks its stamp in it.       *)
(***************************************************************************)
EXTENDS ChatRoom, SequenceTheorems, FiniteSetTheorems, WellFoundedInduction, TLAPS

\* the streams, and what the steps of a stream read
IStream ==
  /\ said \in Nat
  /\ buffer \in Seq(Nat)
  /\ event \in BOOLEAN
  /\ streams \in [Tabs -> {Closed} \union Stream \union Leaving]

IPresence == IStream /\ PresentMeansConnected

-----------------------------------------------------------------------------
(* What the phases tell of a record                                        *)

\* A stream that is neither closed nor dropped is a full record of its generator.
LEMMA OpenIsStream ==
  ASSUME IStream, NEW s \in Tabs, Open(s)
  PROVE  streams[s] \in Stream
BY DEF IStream, Open, Leaving, Closed

\* A connection is not a closed one, whatever its phase.
LEMMA ConnectedNotClosed ==
  /\ \A r \in Stream \union Leaving : r # Closed /\ r.by \in Readers
BY DEF Stream, Leaving, Closed, Running

\* Changing what a stream has seen, owes or does leaves it a stream of the same reader.
LEMMA StreamKept ==
  ASSUME NEW r \in Stream, NEW p \in Running, NEW n \in Nat, NEW b \in BOOLEAN,
         NEW o \in SUBSET Nat
  PROVE  LET q == [r EXCEPT !.phase = p, !.seen = n, !.woken = b, !.owed = o]
         IN  q \in Stream /\ q.by = r.by
BY DEF Stream

\* Every connection keeps its reader.
Kept ==
  \A s \in Tabs : streams[s] # Closed => /\ streams'[s] # Closed
                                         /\ streams'[s].by = streams[s].by

\* The presence of a member rests on some connection: if every connection keeps its
\* reader and nobody becomes present, the members present stay connected.
LEMMA KeepsConnected ==
  ASSUME PresentMeansConnected, presence' \subseteq presence, Kept
  PROVE  PresentMeansConnected'
BY DEF PresentMeansConnected, Kept

\* One stream that takes a step as a stream of its reader leaves all streams typed and
\* every connection with its reader.
LEMMA OneStreamSteps ==
  ASSUME IStream, NEW s \in Tabs, streams[s] # Closed,
         NEW q \in Stream \union Leaving, q.by = streams[s].by,
         streams' = [streams EXCEPT ![s] = q]
  PROVE  streams' \in [Tabs -> {Closed} \union Stream \union Leaving] /\ Kept
<1>1. streams' \in [Tabs -> {Closed} \union Stream \union Leaving]
  BY DEF IStream
<1>2. \A t \in Tabs : streams'[t] = IF t = s THEN q ELSE streams[t]
  BY DEF IStream
<1>3. q # Closed
  BY ConnectedNotClosed
<1> QED
  BY <1>1, <1>2, <1>3 DEF Kept

-----------------------------------------------------------------------------
(* The steps of a stream                                                   *)

\* Whatever a stream finds after the messages it has seen, it goes on as a stream of
\* its reader.
LEMMA LookSteps ==
  ASSUME IStream, NEW s \in Tabs, Open(s), NEW n \in Nat, NEW flag \in BOOLEAN,
         Look(s, n, flag)
  PROVE  streams' \in [Tabs -> {Closed} \union Stream \union Leaving] /\ Kept
<1>1. streams[s] \in Stream /\ streams[s] # Closed
  BY OpenIsStream, ConnectedNotClosed
<1>2. CASE /\ Len(buffer) > n
           /\ streams' = [streams EXCEPT ![s] =
                [@ EXCEPT !.phase = "message", !.seen = n, !.woken = FALSE,
                          !.owed = streams[s].owed \ {buffer[n + 1]}]]
  <2> DEFINE o == streams[s].owed \ {buffer[n + 1]}
             q == [streams[s] EXCEPT !.phase = "message", !.seen = n, !.woken = FALSE,
                                     !.owed = o]
  <2>1. o \in SUBSET Nat
    BY <1>1 DEF Stream
  <2>2. q \in Stream /\ q.by = streams[s].by
    BY <1>1, <2>1 DEF Stream, Running
  <2>3. streams' = [streams EXCEPT ![s] = q]
    BY <1>2
  <2> QED
    BY <1>1, <2>2, <2>3, OneStreamSteps
<1>3. CASE \E phase \in {"presence", "wait"} :
             streams' = [streams EXCEPT ![s] =
               [@ EXCEPT !.phase = phase, !.seen = n, !.woken = phase = "wait" /\ flag]]
  <2>1. PICK phase \in {"presence", "wait"} :
               streams' = [streams EXCEPT ![s] =
                 [@ EXCEPT !.phase = phase, !.seen = n, !.woken = phase = "wait" /\ flag]]
    BY <1>3
  <2> DEFINE b == phase = "wait" /\ flag
             q == [streams[s] EXCEPT !.phase = phase, !.seen = n, !.woken = b]
  <2>2. b \in BOOLEAN
    OBVIOUS
  <2>3. q \in Stream /\ q.by = streams[s].by
    <3> HIDE DEF b
    <3> QED
      BY <1>1, <2>2 DEF Stream, Running
  <2>4. streams' = [streams EXCEPT ![s] = q]
    BY <2>1
  <2> QED
    BY <1>1, <2>3, <2>4, OneStreamSteps
<1> QED
  BY <1>2, <1>3 DEF Look

\* A stream that runs, wakes or times out keeps all streams typed and connected.
LEMMA TabSteps ==
  ASSUME IPresence, NEW s \in Tabs, TabStep(s) \/ TabDrop(s)
  PROVE  IPresence'
<1> USE DEF IPresence
<1>1. CASE TabTop(s) /\ Open(s)
  <2>1. streams[s].seen \in Nat
    BY <1>1, OpenIsStream DEF Stream
  <2>2. streams' \in [Tabs -> {Closed} \union Stream \union Leaving] /\ Kept
    BY <1>1, <2>1, LookSteps DEF TabTop
  <2> QED
    BY <1>1, <2>2, KeepsConnected DEF TabTop, IStream
<1>2. CASE TabNext(s)
  <2>1. Open(s) /\ streams[s].seen + 1 \in Nat
    BY <1>2, OpenIsStream DEF TabNext, Stream, Open
  <2>2. streams' \in [Tabs -> {Closed} \union Stream \union Leaving] /\ Kept
    BY <1>2, <2>1, LookSteps DEF TabNext, IStream
  <2> QED
    BY <1>2, <2>2, KeepsConnected DEF TabNext, memory, IStream
<1>3. CASE TabWait(s)
  <2>1. Open(s) /\ streams[s] \in Stream /\ streams[s] # Closed
    BY <1>3, OpenIsStream, ConnectedNotClosed DEF TabWait, Open
  <2> DEFINE q == [streams[s] EXCEPT !.phase = "wait", !.woken = event]
  <2>2. q \in Stream /\ q.by = streams[s].by
    BY <2>1 DEF Stream, Running, IStream
  <2>3. streams' = [streams EXCEPT ![s] = q]
    BY <1>3 DEF TabWait, IStream
  <2>4. streams' \in [Tabs -> {Closed} \union Stream \union Leaving] /\ Kept
    BY <2>1, <2>2, <2>3, OneStreamSteps
  <2> QED
    BY <1>3, <2>4, KeepsConnected DEF TabWait, memory, IStream
<1>4. CASE TabDrop(s)
  <2>1. streams[s] \in Stream /\ streams[s] # Closed
    BY <1>4, OpenIsStream, ConnectedNotClosed DEF TabDrop
  <2> DEFINE q == [phase |-> "dropped", by |-> streams[s].by]
  <2>2. q \in Leaving /\ q.by = streams[s].by
    BY <2>1 DEF Stream, Leaving
  <2>3. streams' = [streams EXCEPT ![s] = q]
    BY <1>4 DEF TabDrop
  <2>4. streams' \in [Tabs -> {Closed} \union Stream \union Leaving] /\ Kept
    BY <2>1, <2>2, <2>3, OneStreamSteps
  <2> QED
    BY <1>4, <2>4, KeepsConnected DEF TabDrop, memory, IStream
<1> QED
  BY <1>1, <1>2, <1>3, <1>4
  DEF TabStep, TabStart, TabWake, TabTimeout, Waiting, Open

\* A stream that opens makes its reader present; one that ends takes its reader's entry
\* with it, and nobody else's.
LEMMA TabEnds ==
  ASSUME IPresence, NEW s \in Tabs,
         TabFinally(s) \/ \E u \in Readers : TabOpen(s, u)
  PROVE  IPresence'
<1> USE DEF IPresence
<1>1. CASE \E u \in Readers : TabOpen(s, u)
  <2>1. PICK u \in Readers : TabOpen(s, u)
    BY <1>1
  <2> DEFINE q == [phase |-> "hello", by |-> u, seen |-> Len(buffer), woken |-> FALSE,
                   owed |-> {}]
  <2>2. q \in Stream /\ q.by = u
    BY LenProperties DEF Stream, Running, IStream
  <2>3. q # Closed
    BY <2>2, ConnectedNotClosed
  <2>4. streams' = [streams EXCEPT ![s] = q]
    BY <2>1 DEF TabOpen
  <2>5. \A t \in Tabs : streams'[t] = IF t = s THEN q ELSE streams[t]
    BY <2>4 DEF IStream
  <2>6. IStream'
    BY <2>1, <2>2, <2>4 DEF TabOpen, IStream
  <2>7. PresentMeansConnected'
    BY <2>1, <2>2, <2>3, <2>5 DEF TabOpen, PresentMeansConnected
  <2> QED
    BY <2>6, <2>7
<1>2. CASE TabFinally(s)
  <2>1. \A t \in Tabs : streams'[t] = IF t = s THEN Closed ELSE streams[t]
    BY <1>2 DEF TabFinally, IStream
  <2>2. IStream'
    BY <1>2 DEF TabFinally, IStream
  <2>3. PresentMeansConnected'
    BY <1>2, <2>1 DEF TabFinally, PresentMeansConnected
  <2> QED
    BY <2>2, <2>3
<1> QED
  BY <1>1, <1>2

-----------------------------------------------------------------------------
(* The steps of posts, presence updates and the process                    *)

\* A step that leaves presence and streams alone, and what a stream reads typed.
LEMMA Elsewhere ==
  ASSUME IPresence, UNCHANGED <<presence, streams>>,
         said' \in Nat, buffer' \in Seq(Nat), event' \in BOOLEAN
  PROVE  IPresence'
BY DEF IPresence, IStream, PresentMeansConnected

\* A broadcast is owed to every open stream and changes the reader of none.
LEMMA AppendSteps ==
  ASSUME IPresence, NEW h \in Handlers, PostAppend(h)
  PROVE  IPresence'
<1> USE DEF IPresence
<1> DEFINE q(s) == [streams[s] EXCEPT !.owed = streams[s].owed \union {said'}]
<1>1. said' \in Nat
  BY DEF PostAppend, IStream
<1>2. buffer' \in Seq(Nat)
  BY <1>1, AppendProperties DEF PostAppend, IStream
<1>3. ASSUME NEW s \in Tabs, Open(s)
      PROVE  q(s) \in Stream /\ q(s).by = streams[s].by /\ q(s) # Closed
  <2>1. streams[s] \in Stream
    BY <1>3, OpenIsStream
  <2>2. q(s) \in Stream /\ q(s).by = streams[s].by
    BY <1>1, <2>1 DEF Stream
  <2> QED
    BY <2>2, ConnectedNotClosed
<1>4. \A s \in Tabs : streams'[s] = IF Open(s) THEN q(s) ELSE streams[s]
  BY DEF PostAppend
<1>5. streams' \in [Tabs -> {Closed} \union Stream \union Leaving]
  <2>1. streams' = [s \in Tabs |-> IF Open(s) THEN q(s) ELSE streams[s]]
    BY DEF PostAppend
  <2>2. \A s \in Tabs : (IF Open(s) THEN q(s) ELSE streams[s])
                          \in {Closed} \union Stream \union Leaving
    BY <1>3 DEF IStream
  <2> HIDE DEF q
  <2> QED
    BY <2>1, <2>2
<1>6. Kept
  <2> HIDE DEF q
  <2> QED
    BY <1>3, <1>4 DEF Kept
<1> QED
  BY <1>1, <1>2, <1>5, <1>6, KeepsConnected DEF PostAppend, IStream

\* Setting the event marks some waiting streams as woken.
LEMMA SignalSteps ==
  ASSUME IPresence, NEW h \in Handlers, PostSignal(h)
  PROVE  IPresence'
<1> USE DEF IPresence
<1>1. PICK W \in SUBSET {s \in Tabs : Waiting(s)} :
        streams' = [s \in Tabs |-> IF s \in W THEN [streams[s] EXCEPT !.woken = TRUE]
                                             ELSE streams[s]]
  BY DEF PostSignal
<1> DEFINE q(s) == [streams[s] EXCEPT !.woken = TRUE]
<1>2. ASSUME NEW s \in W
      PROVE  q(s) \in Stream /\ q(s).by = streams[s].by /\ q(s) # Closed
  <2>1. s \in Tabs /\ Open(s)
    BY DEF Waiting, Open
  <2>2. streams[s] \in Stream
    BY <2>1, OpenIsStream
  <2>3. q(s) \in Stream /\ q(s).by = streams[s].by
    BY <2>2 DEF Stream
  <2> QED
    BY <2>3, ConnectedNotClosed
<1>3. streams' = [s \in Tabs |-> IF s \in W THEN q(s) ELSE streams[s]]
  BY <1>1
<1> HIDE DEF q
<1>4. streams' \in [Tabs -> {Closed} \union Stream \union Leaving] /\ Kept
  BY <1>2, <1>3 DEF Kept, IStream
<1> QED
  BY <1>4, KeepsConnected DEF PostSignal, IStream

\* The buffer that is cut to its bound is a buffer still.
LEMMA TrimSteps ==
  ASSUME IPresence, NEW h \in Handlers, PostTrim(h)
  PROVE  IPresence'
<1>1. Trimmed(buffer) \in Seq(Nat)
  <2>1. CASE Len(buffer) > BufferMax
    <3>1. Len(buffer) \in Nat /\ BufferMax \in Nat
      BY LenProperties, ChatAssumption DEF IPresence, IStream
    <3>2. /\ Len(buffer) - BufferMax + 1 \in 1 .. Len(buffer) + 1
          /\ Len(buffer) \in Len(buffer) - BufferMax .. Len(buffer)
      BY <2>1, <3>1
    <3> QED
      BY <2>1, <3>1, <3>2, SubSeqProperties DEF Trimmed, IPresence, IStream
  <2>2. CASE ~(Len(buffer) > BufferMax)
    BY <2>2 DEF Trimmed, IPresence, IStream
  <2> QED
    BY <2>1, <2>2
<1> QED
  BY <1>1, Elsewhere DEF PostTrim, IPresence, IStream

\* No step of a post makes anybody present or closes a stream.
LEMMA PostsKeep ==
  ASSUME IPresence, NEW h \in Handlers,
         PostStep(h) \/ \E m \in Members : PostBegin(h, m)
  PROVE  IPresence'
<1>1. CASE PostAppend(h)
  BY <1>1, AppendSteps
<1>2. CASE PostTrim(h)
  BY <1>2, TrimSteps
<1>3. CASE PostSignal(h)
  BY <1>3, SignalSteps
<1>4. CASE \E m \in Members : PostBegin(h, m)
  BY <1>4, Elsewhere DEF PostBegin, memory, IPresence, IStream
<1>5. CASE PostCheck(h) \/ PostSift(h) \/ PostCount(h) \/ PostPunish(h) \/ PostStamp(h)
             \/ PostStore(h) \/ PostFail(h)
  BY <1>5, Elsewhere
  DEF PostCheck, PostSift, PostCount, PostPunish, PostStamp, PostStore, PostFail,
      memory, IPresence, IStream
<1> QED
  BY <1>1, <1>2, <1>3, <1>4, <1>5 DEF PostStep

\* The invariant holds of an empty room, and every step keeps it.
LEMMA Inductive ==
  /\ Init => IPresence
  /\ IPresence /\ [Next]_vars => IPresence'
<1>1. Init => IPresence
  <2> SUFFICES ASSUME Init PROVE IPresence
    OBVIOUS
  <2>1. buffer \in Seq(Nat)
    BY EmptySeq DEF Init
  <2> QED
    BY <2>1 DEF Init, IPresence, IStream, PresentMeansConnected, NoStreams, Closed
<1>2. ASSUME IPresence, [Next]_vars
      PROVE  IPresence'
  <2>1. CASE \E h \in Handlers : PostStep(h) \/ \E m \in Members : PostBegin(h, m)
    BY <1>2, <2>1, PostsKeep
  <2>2. CASE \E s \in Tabs : TabStep(s) \/ TabDrop(s)
    BY <1>2, <2>2, TabSteps
  <2>3. CASE \E s \in Tabs : TabFinally(s) \/ \E u \in Readers : TabOpen(s, u)
    BY <1>2, <2>3, TabEnds
  <2>4. CASE \E m \in Members : PingBegin(m)
    BY <1>2, <2>4, Elsewhere DEF PingBegin, memory, IPresence, IStream
  <2>5. CASE \E m \in Members : PingEnd(m)
    BY <1>2, <2>5, Elsewhere DEF PingEnd, Pinged, IPresence, IStream
  <2>6. CASE Tick
    BY <1>2, <2>6, Elsewhere DEF Tick, memory, IPresence, IStream
  <2>7. CASE Restart
    <3>1. buffer' \in Seq(Nat)
      BY <2>7, EmptySeq DEF Restart
    <3>2. IStream'
      BY <1>2, <2>7, <3>1 DEF Restart, NoStreams, IPresence, IStream
    <3> QED
      BY <2>7, <3>2 DEF Restart, IPresence, PresentMeansConnected
  <2>8. CASE UNCHANGED vars
    BY <1>2, <2>8, Elsewhere DEF vars, memory, IPresence, IStream
  <2> QED
    BY <1>2, <2>1, <2>2, <2>3, <2>4, <2>5, <2>6, <2>7, <2>8 DEF Next
<1> QED
  BY <1>1, <1>2

\* Whatever posts, presence updates and tabs do at once, nobody is shown in the room
\* without a connection.
THEOREM PresentConnected == Spec => []PresentMeansConnected
<1>1. IPresence => PresentMeansConnected
  BY DEF IPresence
<1> QED
  BY Inductive, <1>1, PTL DEF Spec

-----------------------------------------------------------------------------
(* What Recent keeps                                                       *)

\* A set of numbers has a smallest one.
LEMMA SmallestNat ==
  ASSUME NEW B \in SUBSET Nat, B # {}
  PROVE  \E n \in B : \A k \in Nat : k < n => k \notin B
<1> DEFINE R == {p \in Nat \X Nat : p[1] < p[2]}
<1>1. IsWellFoundedOn(R, Nat)
  BY NatLessThanWellFounded DEF OpToRel
<1>2. PICK n \in B : \A k \in B : <<k, n>> \notin R
  <2> HIDE DEF R
  <2> QED
    BY <1>1, WFMin, Zenon
<1>3. ASSUME NEW k \in Nat, k < n, k \in B
      PROVE  FALSE
  <2>1. <<k, n>> \in Nat \X Nat /\ <<k, n>>[1] = k /\ <<k, n>>[2] = n
    OBVIOUS
  <2>2. <<k, n>> \in R
    BY <1>3, <2>1
  <2> QED
    BY <1>2, <1>3, <2>2
<1> QED
  BY <1>3

\* the first n stamps, as far as they count at t
InWindow(stamps, t, n) == {i \in 1 .. n : t < stamps[i] + FloodWindow}
Counted(stamps, t) == Cardinality(InWindow(stamps, t, Len(stamps)))

\* the function that Recent is the value of
Sifted(stamps, t, m, g) ==
  g = [n \in 0 .. m |->
         IF n = 0 THEN <<>>
         ELSE IF t < stamps[n] + FloodWindow THEN Append(g[n - 1], stamps[n])
         ELSE g[n - 1]]

LEMMA RecentIsSifted ==
  ASSUME NEW stamps, NEW t
  PROVE  Recent(stamps, t) = (CHOOSE g : Sifted(stamps, t, Len(stamps), g))[Len(stamps)]
BY Zenon DEF Recent, Sifted

\* There is such a function.
LEMMA SiftedExists ==
  ASSUME NEW stamps, NEW t, NEW m \in Nat
  PROVE  \E g : Sifted(stamps, t, m, g)
<1> DEFINE Bad == {k \in Nat : ~\E g : Sifted(stamps, t, k, g)}
<1>1. SUFFICES ASSUME Bad # {} PROVE FALSE
  OBVIOUS
<1>2. PICK m1 \in Bad : \A k \in Nat : k < m1 => k \notin Bad
  <2>1. Bad \in SUBSET Nat
    OBVIOUS
  <2> HIDE DEF Bad
  <2> QED
    BY <1>1, <2>1, SmallestNat
<1>3. m1 \in Nat /\ ~\E g : Sifted(stamps, t, m1, g)
  OBVIOUS
<1>4. CASE m1 = 0
  <2> DEFINE g == [n \in 0 .. 0 |-> <<>>]
  <2>1. Sifted(stamps, t, 0, g)
    BY DEF Sifted
  <2> QED
    BY <1>3, <1>4, <2>1
<1>5. CASE m1 # 0
  <2>1. m1 - 1 \in Nat /\ m1 - 1 < m1
    BY <1>3, <1>5
  <2>2. PICK g : Sifted(stamps, t, m1 - 1, g)
    BY <1>2, <2>1
  <2> DEFINE last == IF t < stamps[m1] + FloodWindow THEN Append(g[m1 - 1], stamps[m1])
                     ELSE g[m1 - 1]
             G == [n \in 0 .. m1 |-> IF n = m1 THEN last ELSE g[n]]
  <2>3. ASSUME NEW n \in 0 .. m1
        PROVE  G[n] = IF n = 0 THEN <<>>
                      ELSE IF t < stamps[n] + FloodWindow THEN Append(G[n - 1], stamps[n])
                      ELSE G[n - 1]
    <3>1. CASE n = m1
      <4>1. G[n] = last /\ G[n - 1] = g[n - 1]
        BY <1>3, <1>5, <3>1
      <4> QED
        BY <1>5, <3>1, <4>1
    <3>2. CASE n # m1
      <4>1. n \in 0 .. m1 - 1 /\ G[n] = g[n] /\ (n # 0 => G[n - 1] = g[n - 1])
        BY <1>3, <2>3, <3>2
      <4>2. g[n] = IF n = 0 THEN <<>>
                   ELSE IF t < stamps[n] + FloodWindow THEN Append(g[n - 1], stamps[n])
                   ELSE g[n - 1]
        <5> HIDE DEF G
        <5> QED
          BY <2>2, <4>1 DEF Sifted
      <4> HIDE DEF G
      <4> QED
        BY <4>1, <4>2
    <3> QED
      BY <3>1, <3>2
  <2>4. G = [n \in 0 .. m1 |-> G[n]]
    OBVIOUS
  <2>5. Sifted(stamps, t, m1, G)
    <3> HIDE DEF G
    <3> QED
      BY <2>3, <2>4 DEF Sifted
  <2> QED
    BY <1>3, <2>5
<1> QED
  BY <1>4, <1>5

\* The next stamp is counted or not.
LEMMA CountNext ==
  ASSUME NEW stamps, NEW t, NEW n \in Nat
  PROVE  /\ InWindow(stamps, t, n + 1) = InWindow(stamps, t, n) \union
              (IF t < stamps[n + 1] + FloodWindow THEN {n + 1} ELSE {})
         /\ IsFiniteSet(InWindow(stamps, t, n))
         /\ Cardinality(InWindow(stamps, t, n)) \in Nat
         /\ Cardinality(InWindow(stamps, t, n)) <= n
         /\ Cardinality(InWindow(stamps, t, n + 1)) =
              Cardinality(InWindow(stamps, t, n))
                + (IF t < stamps[n + 1] + FloodWindow THEN 1 ELSE 0)
<1>1. InWindow(stamps, t, n + 1) = InWindow(stamps, t, n) \union
        (IF t < stamps[n + 1] + FloodWindow THEN {n + 1} ELSE {})
  BY DEF InWindow
<1>2. IsFiniteSet(1 .. n) /\ Cardinality(1 .. n) = n
  BY FS_Interval
<1>3. InWindow(stamps, t, n) \in SUBSET (1 .. n)
  BY DEF InWindow
<1>4. /\ IsFiniteSet(InWindow(stamps, t, n))
      /\ Cardinality(InWindow(stamps, t, n)) <= n
  BY <1>2, <1>3, FS_Subset
<1>5. Cardinality(InWindow(stamps, t, n)) \in Nat
  BY <1>4, FS_CardinalityType
<1>6. n + 1 \notin InWindow(stamps, t, n)
  BY DEF InWindow
<1>7. Cardinality(InWindow(stamps, t, n) \union {n + 1}) = Cardinality(InWindow(stamps, t, n)) + 1
  BY <1>4, <1>6, FS_AddElement
<1>8. InWindow(stamps, t, n) \union {} = InWindow(stamps, t, n)
  OBVIOUS
<1>9. CASE t < stamps[n + 1] + FloodWindow
  BY <1>1, <1>4, <1>5, <1>7, <1>9
<1>10. CASE ~(t < stamps[n + 1] + FloodWindow)
  BY <1>1, <1>4, <1>5, <1>8, <1>10
<1> QED
  BY <1>9, <1>10

\* A stamp that is appended is counted while it is in the window.
LEMMA CountAppend ==
  ASSUME NEW S, NEW stamps \in Seq(S), NEW e \in S, NEW t
  PROVE  /\ Append(stamps, e) \in Seq(S)
         /\ Len(Append(stamps, e)) = Len(stamps) + 1
         /\ Counted(stamps, t) \in Nat
         /\ Counted(Append(stamps, e), t) =
              Counted(stamps, t) + (IF t < e + FloodWindow THEN 1 ELSE 0)
<1>1. Len(stamps) \in Nat
  BY LenProperties
<1> DEFINE q == Append(stamps, e)
<1>2. /\ q \in Seq(S) /\ Len(q) = Len(stamps) + 1
      /\ q[Len(stamps) + 1] = e
      /\ \A i \in 1 .. Len(stamps) : q[i] = stamps[i]
  BY <1>1, AppendProperties
<1> HIDE DEF q
<1>3. InWindow(q, t, Len(stamps)) = InWindow(stamps, t, Len(stamps))
  BY <1>1, <1>2 DEF InWindow
<1>4. Cardinality(InWindow(q, t, Len(stamps) + 1)) =
        Cardinality(InWindow(q, t, Len(stamps)))
          + (IF t < q[Len(stamps) + 1] + FloodWindow THEN 1 ELSE 0)
  BY <1>1, CountNext
<1>5. Counted(stamps, t) \in Nat
  BY <1>1, CountNext DEF Counted
<1> QED
  BY <1>2, <1>3, <1>4, <1>5 DEF Counted, q

\* Recent keeps stamps of the history only, and loses none that is in the window then or later.
LEMMA RecentKeeps ==
  ASSUME NEW S \in SUBSET Nat, NEW stamps \in Seq(S), NEW t \in Nat
  PROVE  /\ Recent(stamps, t) \in Seq(S)
         /\ Len(Recent(stamps, t)) <= Len(stamps)
         /\ \A u \in Nat : t <= u => Counted(Recent(stamps, t), u) = Counted(stamps, u)
<1>0. \A i, u \in Nat :
        Cardinality(InWindow(stamps, u, i + 1)) = Cardinality(InWindow(stamps, u, i))
          + (IF u < stamps[i + 1] + FloodWindow THEN 1 ELSE 0)
  BY CountNext, ZenonT(30)
<1>1. Len(stamps) \in Nat
  BY LenProperties
<1> DEFINE g == CHOOSE f : Sifted(stamps, t, Len(stamps), f)
<1>2. Sifted(stamps, t, Len(stamps), g)
  <2>1. \E f : Sifted(stamps, t, Len(stamps), f)
    BY <1>1, SiftedExists
  <2> QED
    BY <2>1
<1>3. Recent(stamps, t) = g[Len(stamps)]
  BY RecentIsSifted
<1> HIDE DEF g
<1>4. ASSUME NEW n \in 0 .. Len(stamps)
      PROVE  g[n] = IF n = 0 THEN <<>>
                    ELSE IF t < stamps[n] + FloodWindow THEN Append(g[n - 1], stamps[n])
                    ELSE g[n - 1]
  BY <1>2 DEF Sifted
<1> DEFINE Good(n) == /\ g[n] \in Seq(S)
                      /\ Len(g[n]) <= n
                      /\ \A u \in Nat : t <= u =>
                           Counted(g[n], u) = Cardinality(InWindow(stamps, u, n))
           Bad == {n \in 0 .. Len(stamps) : ~Good(n)}
<1>5. ASSUME Bad # {} PROVE FALSE
  <2>1. Bad \in SUBSET Nat
    BY <1>1
  <2>2. PICK n \in Bad : \A k \in Nat : k < n => k \notin Bad
    <3> HIDE DEF Bad
    <3> QED
      BY <1>5, <2>1, SmallestNat
  <2>3. n \in 0 .. Len(stamps) /\ n \in Nat /\ ~Good(n)
    BY <1>1
  <2>4. CASE n = 0
    <3>1. g[0] = <<>> /\ g[0] \in Seq(S) /\ Len(g[0]) = 0
      BY <1>4, <2>3, <2>4, EmptySeq
    <3>2. \A u : InWindow(g[0], u, 0) = InWindow(stamps, u, 0)
      BY DEF InWindow
    <3>3. \A u : Counted(g[0], u) = Cardinality(InWindow(stamps, u, 0))
      BY <3>1, <3>2 DEF Counted
    <3> QED
      BY <2>3, <2>4, <3>1, <3>3
  <2>5. CASE n # 0
    <3> DEFINE k == n - 1
               e == stamps[n]
    <3>1. k \in Nat /\ k < n /\ k \in 0 .. Len(stamps) /\ n = k + 1 /\ n \in 1 .. Len(stamps)
      BY <1>1, <2>3, <2>5
    <3>2. Good(k)
      BY <2>2, <3>1
    <3>3. e \in S /\ e \in Nat
      BY <3>1, ElementOfSeq
    <3>4. g[n] = IF t < e + FloodWindow THEN Append(g[k], e) ELSE g[k]
      BY <1>4, <2>3, <2>5
    <3>5. ASSUME NEW u \in Nat
          PROVE  Cardinality(InWindow(stamps, u, n)) =
            Cardinality(InWindow(stamps, u, k)) + (IF u < e + FloodWindow THEN 1 ELSE 0)
      <4>1. e = stamps[k + 1] /\ n = k + 1
        BY <3>1
      <4>2. Cardinality(InWindow(stamps, u, k + 1)) = Cardinality(InWindow(stamps, u, k))
              + (IF u < stamps[k + 1] + FloodWindow THEN 1 ELSE 0)
        <5> HIDE DEF k, e, Good, Bad
        <5> QED
          BY <1>0, <3>1
      <4> HIDE DEF k, e
      <4> QED
        BY <4>1, <4>2
    <3> HIDE DEF k, e
    <3>6. g[k] \in Seq(S) /\ Len(g[k]) \in Nat /\ Len(g[k]) <= k
      BY <3>2, LenProperties
    <3>7. CASE t < e + FloodWindow
      <4>1. /\ g[n] = Append(g[k], e) /\ g[n] \in Seq(S) /\ Len(g[n]) = Len(g[k]) + 1
            /\ \A u \in Nat : Counted(g[n], u) =
                 Counted(g[k], u) + (IF u < e + FloodWindow THEN 1 ELSE 0)
        <5>1. g[n] = Append(g[k], e)
          BY <3>4, <3>7
        <5> HIDE DEF Good, Bad
        <5>2. /\ Append(g[k], e) \in Seq(S) /\ Len(Append(g[k], e)) = Len(g[k]) + 1
              /\ \A u \in Nat : Counted(Append(g[k], e), u) =
                   Counted(g[k], u) + (IF u < e + FloodWindow THEN 1 ELSE 0)
          BY <3>3, <3>6, CountAppend
        <5> QED
          BY <5>1, <5>2
      <4>2. \A u \in Nat : t <= u => Counted(g[n], u) = Cardinality(InWindow(stamps, u, n))
        BY <3>2, <3>5, <4>1
      <4> QED
        BY <2>3, <3>1, <3>6, <4>1, <4>2
    <3>8. CASE ~(t < e + FloodWindow)
      <4>1. g[n] = g[k]
        BY <3>4, <3>8
      <4>2. ASSUME NEW u \in Nat, t <= u
            PROVE  Counted(g[n], u) = Cardinality(InWindow(stamps, u, n))
        <5>1. ~(u < e + FloodWindow)
          BY <3>3, <3>8, <4>2, ChatAssumption
        <5>2. Cardinality(InWindow(stamps, u, k)) \in Nat
          BY <3>1, CountNext
        <5> QED
          BY <3>2, <3>5, <4>1, <4>2, <5>1, <5>2
      <4> QED
        BY <2>3, <3>1, <3>6, <4>1, <4>2
    <3> QED
      BY <3>7, <3>8
  <2> QED
    BY <2>4, <2>5
<1>6. Good(Len(stamps))
  BY <1>1, <1>5
<1> QED
  BY <1>3, <1>6 DEF Counted
-----------------------------------------------------------------------------
(* The course of a post                                                    *)

\* how a post goes on, to "idle" where it ends
Course ==
  {<<"check", "append">>, <<"check", "sift">>, <<"sift", "count">>, <<"count", "punish">>,
   <<"count", "stamp">>, <<"punish", "append">>, <<"stamp", "store">>, <<"store", "append">>,
   <<"store", "idle">>, <<"append", "trim">>, <<"trim", "signal">>, <<"signal", "idle">>}

\* Post h goes on as r, along its course: it stays its member's, with the clock it has read.
GoesOn(h, r) ==
  /\ posts' = [posts EXCEPT ![h] = r]
  /\ posts[h] \in Early \union Late
  /\ r \in {Idle} \union Early \union Late
  /\ r \in Early \union Late => r.by = posts[h].by
  /\ r \in Early => posts[h] \in Early /\ r.at = posts[h].at
  /\ <<posts[h].pc, r.pc>> \in Course

\* The kinds of record are told apart by pc.
LEMMA PostKinds ==
  /\ Idle.pc = "idle"
  /\ \A r \in Early : r.pc \in {"check", "sift", "count", "stamp", "punish", "store"}
  /\ \A r \in Late : r.pc \in Sending
BY DEF Idle, Early, Late, PostSteps, Sending

LEMMA PostKind ==
  ASSUME TypeOK, NEW h \in Handlers
  PROVE  /\ posts[h] \in {Idle} \union Early \union Late
         /\ posts[h] = Idle <=> posts[h].pc = "idle"
         /\ posts[h] \in Early <=>
              posts[h].pc \in {"check", "sift", "count", "stamp", "punish", "store"}
         /\ posts[h] \in Late <=> posts[h].pc \in Sending
<1>1. posts[h] \in {Idle} \union Early \union Late
  BY DEF TypeOK
<1> QED
  BY <1>1, PostKinds DEF Sending

\* A post that goes to another step.
LEMMA Goes ==
  ASSUME TypeOK, NEW h \in Handlers, NEW pc \in PostSteps, Go(h, pc),
         posts[h] \in Early \/ (posts[h] \in Late /\ pc \in Sending),
         <<posts[h].pc, pc>> \in Course
  PROVE  \E r : /\ GoesOn(h, r) /\ r.pc = pc
                /\ r \in Early => r = [posts[h] EXCEPT !.pc = pc]
<1>1. CASE pc \in Sending
  <2> DEFINE r == [pc |-> pc, by |-> posts[h].by]
  <2>1. r \in Late /\ r.by = posts[h].by /\ r.pc = pc
    BY <1>1 DEF Late, Early
  <2>2. r \notin Early
    BY <2>1, PostKinds DEF Sending
  <2>3. posts' = [posts EXCEPT ![h] = r]
    BY <1>1 DEF Go, TypeOK
  <2> QED
    BY <2>1, <2>2, <2>3 DEF GoesOn
<1>2. CASE pc \notin Sending
  <2> DEFINE r == [posts[h] EXCEPT !.pc = pc]
  <2>1. r \in Early /\ r.by = posts[h].by /\ r.at = posts[h].at /\ r.pc = pc
    BY <1>2 DEF Early
  <2>2. posts' = [posts EXCEPT ![h] = r]
    BY <1>2 DEF Go, TypeOK
  <2> QED
    BY <1>2, <2>1, <2>2 DEF GoesOn
<1> QED
  BY <1>1, <1>2

\* The sift keeps stamps of the member's history.
LEMMA SiftGoes ==
  ASSUME TypeOK, NEW h \in Handlers, PostSift(h)
  PROVE  \E r \in Early : /\ GoesOn(h, r) /\ r.pc = "count"
                          /\ r.kept = Recent(history[posts[h].by], posts[h].at)
<1>1. posts[h] \in Early
  BY PostKind DEF PostSift
<1>2. posts[h].by \in Members /\ posts[h].at \in Nat
  BY <1>1 DEF Early, TypeOK, Stamps
<1>3. history[posts[h].by] \in Seq(0 .. now)
  BY <1>2 DEF TypeOK
<1> DEFINE new == Recent(history[posts[h].by], posts[h].at)
           r == [posts[h] EXCEPT !.pc = "count", !.kept = new]
<1>4. new \in Seq(0 .. now)
  <2>1. 0 .. now \subseteq Nat
    BY DEF TypeOK, Stamps
  <2> QED
    BY <1>2, <1>3, <2>1, RecentKeeps
<1>5. posts' = [posts EXCEPT ![h] = r]
  BY DEF PostSift, TypeOK
<1> HIDE DEF new
<1>6. r \in Early /\ r.by = posts[h].by /\ r.at = posts[h].at /\ r.pc = "count" /\ r.kept = new
  BY <1>1, <1>4 DEF Early, PostSteps, Sending
<1> HIDE DEF r
<1>7. GoesOn(h, r)
  BY <1>1, <1>5, <1>6 DEF GoesOn, Course, PostSift
<1> QED
  BY <1>6, <1>7 DEF new

\* The count clears what was kept and goes to the stamp or the punishment.
LEMMA CountGoes ==
  ASSUME TypeOK, NEW h \in Handlers, PostCount(h)
  PROVE  /\ posts[h] \in Early
         /\ \E r \in Early : /\ GoesOn(h, r)
                             /\ r.pc = IF Flooding(posts[h].kept) THEN "punish" ELSE "stamp"
<1>1. posts[h] \in Early
  BY PostKind DEF PostCount
<1> DEFINE pc == IF Flooding(posts[h].kept) THEN "punish" ELSE "stamp"
           r == [posts[h] EXCEPT !.pc = pc, !.kept = <<>>]
<1>2. posts' = [posts EXCEPT ![h] = r]
  BY DEF PostCount, TypeOK
<1>3. pc \in {"punish", "stamp"} /\ <<>> \in Seq(0 .. now)
  BY EmptySeq
<1> HIDE DEF pc
<1>4. r \in Early /\ r.by = posts[h].by /\ r.at = posts[h].at /\ r.pc = pc
  BY <1>1, <1>3 DEF Early, PostSteps, Sending
<1> HIDE DEF r
<1>5. <<posts[h].pc, r.pc>> \in Course
  BY <1>3, <1>4 DEF Course, PostCount
<1>6. GoesOn(h, r)
  BY <1>1, <1>2, <1>4, <1>5 DEF GoesOn
<1> QED
  BY <1>1, <1>4, <1>6 DEF pc

\* Every step of a post follows the course.
LEMMA PostGoes ==
  ASSUME TypeOK, NEW h \in Handlers, PostStep(h)
  PROVE  \E r : GoesOn(h, r)
<1>1. CASE PostCheck(h)
  <2>1. posts[h] \in Early /\ posts[h].pc = "check"
    BY <1>1, PostKind DEF PostCheck
  <2>2. \E pc \in PostSteps : Go(h, pc) /\ <<posts[h].pc, pc>> \in Course
    BY <1>1, <2>1 DEF PostCheck, Course, PostSteps, Sending
  <2>3. PICK pc \in PostSteps : Go(h, pc) /\ <<posts[h].pc, pc>> \in Course
    BY <2>2
  <2> QED
    BY <2>1, <2>3, Goes
<1>2. CASE PostSift(h)
  BY <1>2, SiftGoes
<1>3. CASE PostCount(h)
  BY <1>3, CountGoes
<1>4. CASE PostPunish(h) \/ PostStamp(h) \/ PostStore(h)
  <2>1. posts[h] \in Early
    BY <1>4, PostKind DEF PostPunish, PostStamp, PostStore
  <2>2. \E pc \in PostSteps : Go(h, pc) /\ <<posts[h].pc, pc>> \in Course
    BY <1>4 DEF PostPunish, PostStamp, PostStore, Course, PostSteps, Sending
  <2>3. PICK pc \in PostSteps : Go(h, pc) /\ <<posts[h].pc, pc>> \in Course
    BY <2>2
  <2> QED
    BY <2>1, <2>3, Goes
<1>5. CASE PostAppend(h) \/ PostTrim(h)
  <2>1. posts[h] \in Late
    BY <1>5, PostKind DEF PostAppend, PostTrim, Sending
  <2> QED
    BY <1>5, <2>1, Goes DEF PostAppend, PostTrim, Course, PostSteps, Sending
<1>6. CASE PostFail(h) \/ PostSignal(h)
  <2>1. posts[h] \in Early \union Late
    BY <1>6, PostKind DEF PostFail, PostSignal, Sending
  <2>2. posts' = [posts EXCEPT ![h] = Idle] /\ <<posts[h].pc, Idle.pc>> \in Course
    BY <1>6, PostKinds DEF PostFail, PostSignal, Course
  <2>3. Idle \notin Early \union Late
    BY PostKinds DEF Sending
  <2> QED
    BY <2>1, <2>2, <2>3 DEF GoesOn
<1> QED
  BY <1>1, <1>2, <1>3, <1>4, <1>5, <1>6 DEF PostStep
-----------------------------------------------------------------------------
(* What TypeOK rests on                                                    *)

\* the posts that may still broadcast, that may still store a message, and that have a message
\* in the buffer they have not cut yet
UnsaidSteps == {"check", "sift", "count", "stamp", "punish", "store", "append"}
UnstoredSteps == {"check", "sift", "count", "stamp", "store"}
Unsaid == {h \in Handlers : posts[h].pc \in UnsaidSteps}
Unstored == {h \in Handlers : posts[h].pc \in UnstoredSteps}
Uncut == {h \in Handlers : posts[h].pc = "trim"}

\* what is under way fits under the bounds
ISaid == said + Cardinality(Unsaid) <= MaxBroadcast
IRows == IsFiniteSet(rows) /\ Cardinality(rows) + Cardinality(Unstored) <= MaxBroadcast
IBuffer == Len(buffer) <= BufferMax + Cardinality(Uncut)

\* a member whose posts do not overlap has one at work, with the history as it left it
IOne ==
  /\ \A g, h \in Handlers, m \in Members \ overlapped : Works(g, m) /\ Works(h, m) => g = h
  /\ \A h \in Handlers :
       posts[h].pc = "count" /\ posts[h].by \notin overlapped =>
         posts[h].kept = Recent(history[posts[h].by], posts[h].at)
  /\ \A h \in Handlers :
       posts[h].pc = "stamp" /\ posts[h].by \notin overlapped =>
         Len(history[posts[h].by]) < FloodMax

\* The sets are of threads, so they can be counted.
LEMMA ThreadsCount ==
  ASSUME NEW S \in SUBSET Handlers
  PROVE  /\ IsFiniteSet(S) /\ Cardinality(S) \in Nat /\ Cardinality(S) <= Cardinality(Handlers)
         /\ Cardinality(Handlers) \in Nat
         /\ \A T \in SUBSET S : Cardinality(T) <= Cardinality(S)
         /\ \A h \in S : Cardinality(S \ {h}) = Cardinality(S) - 1
         /\ \A h \in Handlers \ S : Cardinality(S \union {h}) = Cardinality(S) + 1
<1>1. IsFiniteSet(Handlers)
  BY ChatAssumption
<1>2. IsFiniteSet(S) /\ Cardinality(S) <= Cardinality(Handlers)
  BY <1>1, FS_Subset
<1>3. Cardinality(S) \in Nat /\ Cardinality(Handlers) \in Nat
  BY <1>1, <1>2, FS_CardinalityType
<1>4. \A T \in SUBSET S : Cardinality(T) <= Cardinality(S)
  BY <1>2, FS_Subset
<1>5. \A h \in S : Cardinality(S \ {h}) = Cardinality(S) - 1
  BY <1>2, FS_RemoveElement
<1>6. \A h \in Handlers \ S : Cardinality(S \union {h}) = Cardinality(S) + 1
  BY <1>2, FS_AddElement
<1> QED
  BY <1>2, <1>3, <1>4, <1>5, <1>6

LEMMA SetsOfThreads ==
  /\ Unsaid \in SUBSET Handlers /\ Unstored \in SUBSET Handlers /\ Uncut \in SUBSET Handlers
BY DEF Unsaid, Unstored, Uncut

LEMMA SetsOfThreadsNext ==
  /\ Unsaid' \in SUBSET Handlers /\ Unstored' \in SUBSET Handlers /\ Uncut' \in SUBSET Handlers
BY DEF Unsaid, Unstored, Uncut

\* Along its course a post leaves the sets, and enters only the last one, by its broadcast.
LEMMA SetsShrink ==
  ASSUME TypeOK, NEW h \in Handlers, NEW r, GoesOn(h, r)
  PROVE  /\ Unsaid' \subseteq Unsaid /\ Unstored' \subseteq Unstored
         /\ posts[h].pc = "append" => h \in Unsaid /\ Unsaid' = Unsaid \ {h}
         /\ posts[h].pc = "store" => h \in Unstored /\ Unstored' = Unstored \ {h}
         /\ posts[h].pc = "append" => h \notin Uncut /\ Uncut' = Uncut \union {h}
         /\ posts[h].pc # "append" => Uncut' \subseteq Uncut
<1>1. \A g \in Handlers : posts'[g] = IF g = h THEN r ELSE posts[g]
  BY DEF GoesOn, TypeOK
<1>2. <<posts[h].pc, r.pc>> \in Course
  BY DEF GoesOn
<1>3. /\ r.pc \in UnsaidSteps => posts[h].pc \in UnsaidSteps
      /\ r.pc \in UnstoredSteps => posts[h].pc \in UnstoredSteps
      /\ posts[h].pc = "append" => r.pc = "trim"
      /\ posts[h].pc = "store" => r.pc \in {"append", "idle"}
      /\ r.pc = "trim" => posts[h].pc = "append"
  BY <1>2 DEF Course, UnsaidSteps, UnstoredSteps
<1>4. Unsaid' \subseteq Unsaid /\ Unstored' \subseteq Unstored
  BY <1>1, <1>3 DEF Unsaid, Unstored
<1>5. posts[h].pc = "append" => h \in Unsaid /\ Unsaid' = Unsaid \ {h}
  BY <1>1, <1>3 DEF Unsaid, UnsaidSteps
<1>6. posts[h].pc = "store" => h \in Unstored /\ Unstored' = Unstored \ {h}
  BY <1>1, <1>3 DEF Unstored, UnstoredSteps
<1>7. posts[h].pc = "append" => h \notin Uncut /\ Uncut' = Uncut \union {h}
  BY <1>1, <1>3 DEF Uncut
<1>8. posts[h].pc # "append" => Uncut' \subseteq Uncut
  BY <1>1, <1>3 DEF Uncut
<1> QED
  BY <1>4, <1>5, <1>6, <1>7, <1>8

\* A post that begins finds a place under the bounds.
LEMMA SetsGrow ==
  ASSUME TypeOK, NEW h \in Handlers, NEW m \in Members, PostBegin(h, m)
  PROVE  /\ said + Cardinality(Unsaid') <= MaxBroadcast
         /\ Cardinality(Unstored') <= Cardinality(Busy) + 1
         /\ Cardinality(Busy) \in Nat
         /\ Uncut' \subseteq Uncut
<1> DEFINE r == [pc |-> "check", by |-> m, at |-> now, kept |-> <<>>]
<1>1. \A g \in Handlers : posts'[g] = IF g = h THEN r ELSE posts[g]
  BY DEF PostBegin, TypeOK
<1>2. h \notin Busy /\ Busy \in SUBSET Handlers
  BY DEF Busy, PostBegin
<1>3. Cardinality(Busy \union {h}) = Cardinality(Busy) + 1 /\ Cardinality(Busy) \in Nat
  BY <1>2, ThreadsCount
<1>4. Unsaid' \subseteq Busy \union {h} /\ Unstored' \subseteq Busy \union {h}
  BY <1>1, PostKinds DEF Unsaid, Unstored, Busy, UnsaidSteps, UnstoredSteps
<1>5. /\ Cardinality(Unsaid') <= Cardinality(Busy \union {h})
      /\ Cardinality(Unstored') <= Cardinality(Busy \union {h})
      /\ Cardinality(Unsaid') \in Nat
  BY <1>2, <1>4, ThreadsCount, SetsOfThreadsNext
<1>6. Uncut' \subseteq Uncut
  BY <1>1 DEF Uncut
<1>7. said + Cardinality(Busy) < MaxBroadcast
  BY DEF PostBegin
<1> QED
  BY <1>3, <1>5, <1>6, <1>7, ChatAssumption DEF TypeOK
\* what posts alone, and a restart, change
ofPosts == <<rows, said, buffer, history, timedOut, posts, overlapped>>

LEMMA PostsOrNot ==
  ASSUME [Next]_vars
  PROVE  \/ \E h \in Handlers : PostStep(h)
         \/ \E h \in Handlers, m \in Members : PostBegin(h, m)
         \/ Restart
         \/ UNCHANGED ofPosts
<1>1. ASSUME NEW s \in Tabs,
             TabStep(s) \/ TabDrop(s) \/ TabFinally(s) \/ \E u \in Readers : TabOpen(s, u)
      PROVE  UNCHANGED ofPosts
  BY <1>1 DEF TabStep, TabStart, TabTop, TabNext, TabWait, TabWake, TabTimeout, TabDrop, TabFinally,
              TabOpen, ofPosts, memory
<1>2. ASSUME NEW m \in Members, PingBegin(m) \/ PingEnd(m)
      PROVE  UNCHANGED ofPosts
  BY <1>2 DEF PingBegin, PingEnd, ofPosts, memory
<1>3. CASE Tick \/ UNCHANGED vars
  BY <1>3 DEF Tick, vars, ofPosts, memory
<1> QED
  BY <1>1, <1>2, <1>3 DEF Next

\* Between two steps of a post nothing else moves it, and a restart ends it.
LEMMA SetsElsewhere ==
  /\ UNCHANGED posts => /\ Unsaid' = Unsaid /\ Unstored' = Unstored /\ Uncut' = Uncut
  /\ Restart => /\ Unsaid' = {} /\ Unstored' = {} /\ Uncut' = {}
<1>1. UNCHANGED posts => /\ Unsaid' = Unsaid /\ Unstored' = Unstored /\ Uncut' = Uncut
  BY DEF Unsaid, Unstored, Uncut
<1>2. ASSUME Restart
      PROVE  Unsaid' = {} /\ Unstored' = {} /\ Uncut' = {}
  <2>1. \A h \in Handlers : posts'[h].pc = "idle"
    BY <1>2 DEF Restart, NoPosts, Idle
  <2> QED
    BY <2>1 DEF Unsaid, Unstored, Uncut, UnsaidSteps, UnstoredSteps
<1> QED
  BY <1>1, <1>2

LEMMA NobodyCounts == Cardinality({}) = 0
BY FS_EmptySet

-----------------------------------------------------------------------------
(* The broadcasts and the buffer                                           *)

\* There are as many broadcasts as the bound lets posts begin.
LEMMA SaidStep ==
  ASSUME TypeOK, ISaid, [Next]_vars
  PROVE  said' \in 0 .. MaxBroadcast /\ ISaid'
<1> USE ChatAssumption
<1>1. said \in Nat /\ Cardinality(Unsaid) \in Nat /\ Cardinality(Unsaid') \in Nat
  BY SetsOfThreads, SetsOfThreadsNext, ThreadsCount DEF TypeOK
<1>2. CASE \E h \in Handlers : PostStep(h)
  <2>1. PICK h \in Handlers : PostStep(h)
    BY <1>2
  <2>2. PICK r : GoesOn(h, r)
    BY <2>1, PostGoes
  <2>3. CASE PostAppend(h)
    <3>1. h \in Unsaid /\ Unsaid' = Unsaid \ {h}
      BY <2>2, <2>3, SetsShrink DEF PostAppend
    <3>2. Cardinality(Unsaid') = Cardinality(Unsaid) - 1
      BY <3>1, SetsOfThreads, ThreadsCount
    <3>3. said' = said + 1
      BY <2>3 DEF PostAppend
    <3> QED
      BY <1>1, <3>2, <3>3 DEF ISaid
  <2>4. CASE ~PostAppend(h)
    <3>1. said' = said
      BY <2>1, <2>4
      DEF PostStep, PostCheck, PostSift, PostCount, PostPunish, PostStamp, PostStore, PostFail,
          PostTrim, PostSignal, memory
    <3>2. Cardinality(Unsaid') <= Cardinality(Unsaid)
      <4>1. Unsaid' \subseteq Unsaid
        BY <2>2, SetsShrink
      <4> QED
        BY <4>1, SetsOfThreads, ThreadsCount
    <3> QED
      BY <1>1, <3>1, <3>2 DEF ISaid, TypeOK
  <2> QED
    BY <2>3, <2>4
<1>3. CASE \E h \in Handlers, m \in Members : PostBegin(h, m)
  <2>1. said' = said
    BY <1>3 DEF PostBegin, memory
  <2>2. said + Cardinality(Unsaid') <= MaxBroadcast
    BY <1>3, SetsGrow
  <2> QED
    BY <2>1, <2>2 DEF ISaid, TypeOK
<1>4. CASE Restart
  <2>1. said' = said /\ Unsaid' = {}
    BY <1>4, SetsElsewhere DEF Restart
  <2> QED
    BY <1>1, <2>1, NobodyCounts DEF ISaid, TypeOK
<1>5. CASE UNCHANGED ofPosts
  <2>1. said' = said /\ Unsaid' = Unsaid
    BY <1>5, SetsElsewhere DEF ofPosts
  <2> QED
    BY <2>1 DEF ISaid, TypeOK
<1> QED
  BY <1>2, <1>3, <1>4, <1>5, PostsOrNot

\* The cut leaves the last messages of the buffer, not more than fit.
LEMMA TrimmedFits ==
  ASSUME NEW b \in Seq(Nat)
  PROVE  /\ Len(Trimmed(b)) \in Nat /\ Len(Trimmed(b)) <= BufferMax
         /\ \A i \in 1 .. Len(Trimmed(b)) : \E j \in 1 .. Len(b) : Trimmed(b)[i] = b[j]
<1>1. Len(b) \in Nat /\ BufferMax \in Nat
  BY LenProperties, ChatAssumption
<1>2. CASE Len(b) > BufferMax
  <2> DEFINE from == Len(b) - BufferMax + 1
  <2>1. from \in Int /\ Len(b) \in Int /\ from >= 1 /\ Len(b) - from + 1 = BufferMax
    BY <1>1, <1>2
  <2>2. Trimmed(b) = SubSeq(b, from, Len(b))
    BY <1>2 DEF Trimmed
  <2> HIDE DEF from
  <2>3. \A i \in from .. Len(b) : b[i] \in Nat
    BY <2>1, ElementOfSeq
  <2>4. /\ Len(SubSeq(b, from, Len(b))) = IF from <= Len(b) THEN Len(b) - from + 1 ELSE 0
        /\ \A i \in 1 .. Len(b) - from + 1 : SubSeq(b, from, Len(b))[i] = b[from + i - 1]
    BY <2>1, <2>3, SubSeqProperties
  <2>5. Len(Trimmed(b)) \in Nat /\ Len(Trimmed(b)) <= BufferMax
    BY <1>1, <2>1, <2>2, <2>4
  <2>6. ASSUME NEW i \in 1 .. Len(Trimmed(b))
        PROVE  \E j \in 1 .. Len(b) : Trimmed(b)[i] = b[j]
    <3>1. i \in 1 .. Len(b) - from + 1 /\ from + i - 1 \in 1 .. Len(b)
      BY <1>1, <2>1, <2>2, <2>4
    <3> QED
      BY <2>2, <2>4, <3>1
  <2> QED
    BY <2>5, <2>6
<1>3. CASE ~(Len(b) > BufferMax)
  BY <1>1, <1>3 DEF Trimmed
<1> QED
  BY <1>2, <1>3

\* The buffer passes its bound by a message per thread that has not cut it yet.
LEMMA BufferStep ==
  ASSUME TypeOK, IBuffer, [Next]_vars, said' \in 0 .. MaxBroadcast
  PROVE  /\ Len(buffer') <= BufferFull
         /\ \A i \in DOMAIN buffer' : buffer'[i] \in 1 .. said'
         /\ IBuffer'
<1> USE ChatAssumption
<1>1. /\ Cardinality(Uncut) \in Nat /\ Cardinality(Uncut') \in Nat
      /\ Cardinality(Uncut') <= Cardinality(Handlers) /\ Cardinality(Handlers) \in Nat
  BY SetsOfThreads, SetsOfThreadsNext, ThreadsCount
<1>2. Len(buffer) \in Nat /\ DOMAIN buffer = 1 .. Len(buffer) /\ buffer \in Seq(Nat)
  BY LenProperties DEF TypeOK
<1>3. SUFFICES /\ \A i \in DOMAIN buffer' : buffer'[i] \in 1 .. said'
               /\ Len(buffer') \in Nat
               /\ Len(buffer') <= BufferMax + Cardinality(Uncut')
  BY <1>1 DEF IBuffer, BufferFull
<1>4. ASSUME UNCHANGED <<said, buffer>>, Uncut' \subseteq Uncut, Uncut \subseteq Uncut'
      PROVE  /\ \A i \in DOMAIN buffer' : buffer'[i] \in 1 .. said'
             /\ Len(buffer') \in Nat
             /\ Len(buffer') <= BufferMax + Cardinality(Uncut')
  <2>1. Uncut' = Uncut
    BY <1>4
  <2> QED
    BY <1>2, <1>4, <2>1 DEF TypeOK, IBuffer
<1>5. CASE \E h \in Handlers : PostStep(h)
  <2>1. PICK h \in Handlers : PostStep(h)
    BY <1>5
  <2>2. PICK r : GoesOn(h, r)
    BY <2>1, PostGoes
  <2>3. CASE PostAppend(h)
    <3>1. h \notin Uncut /\ Uncut' = Uncut \union {h}
      BY <2>2, <2>3, SetsShrink DEF PostAppend
    <3>2. Cardinality(Uncut') = Cardinality(Uncut) + 1
      BY <3>1, SetsOfThreads, ThreadsCount
    <3>3. buffer' = Append(buffer, said') /\ said' = said + 1 /\ said \in Nat
      BY <2>3 DEF PostAppend, TypeOK
    <3>4. /\ Len(buffer') = Len(buffer) + 1 /\ DOMAIN buffer' = 1 .. Len(buffer) + 1
          /\ \A i \in 1 .. Len(buffer) : buffer'[i] = buffer[i]
          /\ buffer'[Len(buffer) + 1] = said'
      <4>1. said' \in Nat
        BY <3>3
      <4>2. /\ Append(buffer, said') \in Seq(Nat)
            /\ Len(Append(buffer, said')) = Len(buffer) + 1
            /\ \A i \in 1 .. Len(buffer) : Append(buffer, said')[i] = buffer[i]
            /\ Append(buffer, said')[Len(buffer) + 1] = said'
        BY <1>2, <4>1, AppendProperties
      <4>3. DOMAIN Append(buffer, said') = 1 .. Len(Append(buffer, said'))
        BY <4>2, LenProperties
      <4> QED
        BY <3>3, <4>2, <4>3
    <3>5. \A i \in DOMAIN buffer' : buffer'[i] \in 1 .. said'
      <4>1. \A i \in 1 .. Len(buffer) : buffer[i] \in 1 .. said
        BY <1>2 DEF TypeOK
      <4> QED
        BY <1>2, <3>3, <3>4, <4>1
    <3> QED
      BY <1>1, <1>2, <3>2, <3>4, <3>5 DEF IBuffer
  <2>4. CASE PostTrim(h)
    <3>1. buffer' = Trimmed(buffer) /\ said' = said
      BY <2>4 DEF PostTrim
    <3>2. Trimmed(buffer) \in Seq(Nat)
      <4>1. CASE Len(buffer) > BufferMax
        <5>1. \A i \in Len(buffer) - BufferMax + 1 .. Len(buffer) : buffer[i] \in Nat
          BY <1>2, <4>1, ElementOfSeq
        <5> QED
          BY <1>2, <4>1, <5>1, SubSeqProperties DEF Trimmed
      <4>2. CASE ~(Len(buffer) > BufferMax)
        BY <1>2, <4>2 DEF Trimmed
      <4> QED
        BY <4>1, <4>2
    <3>3. DOMAIN Trimmed(buffer) = 1 .. Len(Trimmed(buffer))
      BY <3>2, LenProperties
    <3>4. /\ Len(Trimmed(buffer)) \in Nat /\ Len(Trimmed(buffer)) <= BufferMax
          /\ \A i \in 1 .. Len(Trimmed(buffer)) :
               \E j \in 1 .. Len(buffer) : Trimmed(buffer)[i] = buffer[j]
      BY <1>2, TrimmedFits
    <3>5. \A i \in 1 .. Len(buffer) : buffer[i] \in 1 .. said
      BY <1>2 DEF TypeOK
    <3> QED
      BY <1>1, <3>1, <3>3, <3>4, <3>5
  <2>5. CASE ~PostAppend(h) /\ ~PostTrim(h)
    <3>1. UNCHANGED <<said, buffer>> /\ posts[h].pc # "append" /\ posts[h].pc # "trim"
      BY <2>1, <2>5
      DEF PostStep, PostCheck, PostSift, PostCount, PostPunish, PostStamp, PostStore, PostFail,
          PostSignal, memory
    <3>2. Uncut' \subseteq Uncut
      BY <2>2, <3>1, SetsShrink
    <3>3. Uncut \subseteq Uncut'
      BY <2>2, <3>1 DEF GoesOn, TypeOK, Uncut
    <3> QED
      BY <1>4, <3>1, <3>2, <3>3
  <2> QED
    BY <2>3, <2>4, <2>5
<1>6. CASE \E h \in Handlers, m \in Members : PostBegin(h, m)
  <2>1. UNCHANGED <<said, buffer>> /\ Uncut' \subseteq Uncut
    BY <1>6, SetsGrow DEF PostBegin, memory
  <2>2. Uncut \subseteq Uncut'
    BY <1>6, PostKinds DEF PostBegin, TypeOK, Uncut
  <2> QED
    BY <1>4, <2>1, <2>2
<1>7. CASE Restart
  <2>1. buffer' = <<>> /\ Len(<<>>) = 0 /\ DOMAIN <<>> = {}
    BY <1>7, EmptySeq DEF Restart
  <2> QED
    BY <1>1, <2>1
<1>8. CASE UNCHANGED ofPosts
  <2>1. UNCHANGED <<said, buffer>> /\ Uncut' = Uncut
    BY <1>8, SetsElsewhere DEF ofPosts
  <2> QED
    BY <1>4, <2>1
<1> QED
  BY <1>5, <1>6, <1>7, <1>8, PostsOrNot
-----------------------------------------------------------------------------
(* The rows, the histories and the posts                                   *)

\* Time goes on, by its tick alone.
LEMMA NowStep ==
  ASSUME TypeOK, [Next]_vars
  PROVE  /\ now' \in Stamps /\ now \in Nat /\ now' \in Nat
         /\ now <= now' /\ 0 .. now \subseteq 0 .. now'
         /\ (\E h \in Handlers : PostStep(h) \/ \E m \in Members : PostBegin(h, m)) => now' = now
<1>1. now' = now \/ (now < MaxTime /\ now' = now + 1)
  BY DEF Next, PostStep, PostCheck, PostSift, PostCount, PostPunish, PostStamp, PostStore, PostFail,
         PostAppend, PostTrim, PostSignal, PostBegin, TabStep, TabStart, TabTop, TabNext, TabWait,
         TabWake, TabTimeout, TabDrop, TabFinally, TabOpen, PingBegin, PingEnd, Tick, Restart, vars
<1>2. (\E h \in Handlers : PostStep(h) \/ \E m \in Members : PostBegin(h, m)) => now' = now
  BY DEF PostStep, PostCheck, PostSift, PostCount, PostPunish, PostStamp, PostStore, PostFail,
         PostAppend, PostTrim, PostSignal, PostBegin
<1> QED
  BY <1>1, <1>2, ChatAssumption DEF TypeOK, Stamps

\* A post tells a member and a time that has been.
LEMMA EarlyTells ==
  ASSUME TypeOK, NEW h \in Handlers, posts[h] \in Early
  PROVE  /\ posts[h].by \in Members /\ posts[h].at \in 0 .. now /\ posts[h].at \in Nat
         /\ posts[h].kept \in Seq(0 .. now)
         /\ history[posts[h].by] \in Seq(0 .. now)
BY DEF TypeOK, Early, Stamps

\* A post stores one message, at most as many are stored as the bound lets posts begin; a
\* restart forgets none.
LEMMA RowsStep ==
  ASSUME TypeOK, IRows, [Next]_vars
  PROVE  /\ rows' \subseteq [id : 1 .. MaxBroadcast, by : Members, at : 0 .. now', live : BOOLEAN]
         /\ IRows'
<1> USE ChatAssumption
<1>1. /\ Cardinality(Unstored) \in Nat /\ Cardinality(Unstored') \in Nat
      /\ IsFiniteSet(rows) /\ Cardinality(rows) \in Nat
  BY SetsOfThreads, SetsOfThreadsNext, ThreadsCount, FS_CardinalityType DEF IRows
<1>2. rows \subseteq [id : 1 .. MaxBroadcast, by : Members, at : 0 .. now', live : BOOLEAN]
  BY NowStep DEF TypeOK
<1>3. CASE \E h \in Handlers : PostStep(h)
  <2>1. PICK h \in Handlers : PostStep(h)
    BY <1>3
  <2>2. PICK r : GoesOn(h, r)
    BY <2>1, PostGoes
  <2>3. CASE PostStore(h)
    <3>1. h \in Unstored /\ Unstored' = Unstored \ {h}
      BY <2>2, <2>3, SetsShrink DEF PostStore
    <3>2. Cardinality(Unstored') = Cardinality(Unstored) - 1
      BY <3>1, SetsOfThreads, ThreadsCount
    <3> DEFINE q == [id |-> Cardinality(rows) + 1, by |-> posts[h].by, at |-> posts[h].at,
                     live |-> TRUE]
    <3>3. posts[h] \in Early
      BY <2>3, PostKind DEF PostStore
    <3>4. Cardinality(rows) + 1 \in 1 .. MaxBroadcast
      BY <1>1, <3>2 DEF IRows
    <3>5. q \in [id : 1 .. MaxBroadcast, by : Members, at : 0 .. now', live : BOOLEAN]
      BY <2>1, <3>3, <3>4, EarlyTells, NowStep
    <3>6. rows' = rows \union {q}
      BY <2>3 DEF PostStore
    <3> HIDE DEF q
    <3>7. IsFiniteSet(rows') /\ Cardinality(rows') <= Cardinality(rows) + 1
                             /\ Cardinality(rows') \in Nat
      <4>1. /\ IsFiniteSet(rows')
            /\ Cardinality(rows') = IF q \in rows THEN Cardinality(rows) ELSE Cardinality(rows) + 1
        BY <1>1, <3>6, FS_AddElement
      <4> QED
        BY <1>1, <4>1
    <3> QED
      BY <1>1, <1>2, <3>2, <3>5, <3>6, <3>7 DEF IRows
  <2>4. CASE ~PostStore(h)
    <3>1. rows' = rows
      BY <2>1, <2>4
      DEF PostStep, PostCheck, PostSift, PostCount, PostPunish, PostStamp, PostFail, PostAppend,
          PostTrim, PostSignal
    <3>2. Cardinality(Unstored') <= Cardinality(Unstored)
      <4>1. Unstored' \subseteq Unstored
        BY <2>2, SetsShrink
      <4> QED
        BY <4>1, SetsOfThreads, ThreadsCount
    <3> QED
      BY <1>1, <1>2, <3>1, <3>2 DEF IRows
  <2> QED
    BY <2>3, <2>4
<1>4. CASE \E h \in Handlers, m \in Members : PostBegin(h, m)
  <2>1. rows' = rows /\ Cardinality(rows) + Cardinality(Busy) < MaxBroadcast
    BY <1>4 DEF PostBegin
  <2>2. Cardinality(Unstored') <= Cardinality(Busy) + 1 /\ Cardinality(Busy) \in Nat
    BY <1>4, SetsGrow
  <2> QED
    BY <1>1, <1>2, <2>1, <2>2 DEF IRows
<1>5. CASE Restart
  <2>1. Unstored' = {} /\ rows' = {[r EXCEPT !.live = FALSE] : r \in rows}
    BY <1>5, SetsElsewhere DEF Restart
  <2> DEFINE f == [r \in rows |-> [r EXCEPT !.live = FALSE]]
  <2>2. f \in Surjection(rows, rows')
    BY <2>1 DEF Surjection
  <2>3. IsFiniteSet(rows') /\ Cardinality(rows') <= Cardinality(rows)
    BY <1>1, <2>2, FS_Surjection
  <2>4. Cardinality(rows') \in Nat
    BY <2>3, FS_CardinalityType
  <2>5. ASSUME NEW r \in rows
        PROVE  [r EXCEPT !.live = FALSE] \in
                 [id : 1 .. MaxBroadcast, by : Members, at : 0 .. now', live : BOOLEAN]
    BY <1>2
  <2> QED
    BY <1>1, <2>1, <2>3, <2>4, <2>5, NobodyCounts DEF IRows
<1>6. CASE UNCHANGED ofPosts
  <2>1. rows' = rows /\ Unstored' = Unstored
    BY <1>6, SetsElsewhere DEF ofPosts
  <2> QED
    BY <1>2, <2>1 DEF IRows
<1> QED
  BY <1>3, <1>4, <1>5, <1>6, PostsOrNot

\* The stamps of a history are times that have been, and a time-out is set from one.
LEMMA HistoryStep ==
  ASSUME TypeOK, [Next]_vars
  PROVE  /\ history' \in [Members -> Seq(0 .. now')]
         /\ timedOut' \in [Members -> 0 .. MaxTime + FloodTimeout]
<1> USE ChatAssumption
<1>1. /\ history \in [Members -> Seq(0 .. now')]
      /\ timedOut \in [Members -> 0 .. MaxTime + FloodTimeout]
  <2>1. ASSUME NEW m \in Members
        PROVE  history[m] \in Seq(0 .. now')
    <3>1. history[m] \in Seq(0 .. now) /\ 0 .. now \subseteq 0 .. now'
      BY NowStep DEF TypeOK
    <3> QED
      BY <3>1, SeqMonotonic
  <2> QED
    BY <2>1 DEF TypeOK
<1>2. ASSUME NEW h \in Handlers, PostStep(h)
      PROVE  /\ history' \in [Members -> Seq(0 .. now')]
             /\ timedOut' \in [Members -> 0 .. MaxTime + FloodTimeout]
  <2>1. now' = now
    BY <1>2, NowStep
  <2>2. CASE PostCount(h)
    <3>1. posts[h] \in Early
      BY <2>2, PostKind DEF PostCount
    <3> QED
      BY <1>1, <2>1, <2>2, <3>1, EarlyTells DEF PostCount
  <2>3. CASE PostStamp(h)
    <3>1. posts[h] \in Early
      BY <2>3, PostKind DEF PostStamp
    <3>2. Append(history[posts[h].by], posts[h].at) \in Seq(0 .. now)
      BY <3>1, EarlyTells, AppendProperties
    <3> QED
      BY <1>1, <2>1, <2>3, <3>2 DEF PostStamp
  <2>4. CASE PostPunish(h)
    <3>1. posts[h] \in Early
      BY <2>4, PostKind DEF PostPunish
    <3>2. posts[h].at + FloodTimeout \in 0 .. MaxTime + FloodTimeout
      <4>1. posts[h].at \in 0 .. now /\ posts[h].at \in Nat
        BY <3>1, EarlyTells
      <4>2. now \in 0 .. MaxTime
        BY DEF TypeOK, Stamps
      <4> QED
        BY <4>1, <4>2
    <3> QED
      BY <1>1, <2>4, <3>2 DEF PostPunish
  <2>5. CASE ~PostCount(h) /\ ~PostStamp(h) /\ ~PostPunish(h)
    <3>1. UNCHANGED <<history, timedOut>>
      BY <1>2, <2>5
      DEF PostStep, PostCheck, PostSift, PostStore, PostFail, PostAppend, PostTrim,
          PostSignal, memory
    <3> QED
      BY <1>1, <3>1
  <2> QED
    BY <2>2, <2>3, <2>4, <2>5
<1>3. CASE Restart
  <2>1. \A S : <<>> \in Seq(S)
    BY EmptySeq
  <2> QED
    BY <1>3, <2>1 DEF Restart, NoHistory, NoTimeouts
<1>4. CASE UNCHANGED ofPosts \/ \E h \in Handlers, m \in Members : PostBegin(h, m)
  <2>1. UNCHANGED <<history, timedOut>>
    BY <1>4 DEF ofPosts, PostBegin, memory
  <2> QED
    BY <1>1, <2>1
<1> QED
  BY <1>2, <1>3, <1>4, PostsOrNot

\* A thread runs no post, or one that it has read the clock for, or one that only broadcasts.
LEMMA PostsStep ==
  ASSUME TypeOK, [Next]_vars
  PROVE  posts' \in [Handlers -> {Idle} \union Early' \union Late']
<1>1. Late' = Late
  BY DEF Late
<1>2. Early \subseteq Early'
  <2>1. 0 .. now \subseteq 0 .. now'
    BY NowStep
  <2>2. Seq(0 .. now) \subseteq Seq(0 .. now')
    BY <2>1, SeqMonotonic
  <2> QED
    BY <2>1, <2>2 DEF Early
<1>3. CASE \E h \in Handlers : PostStep(h)
  <2>1. PICK h \in Handlers : PostStep(h)
    BY <1>3
  <2>2. PICK r : GoesOn(h, r)
    BY <2>1, PostGoes
  <2> QED
    BY <1>1, <1>2, <2>2 DEF GoesOn, TypeOK
<1>4. CASE \E h \in Handlers, m \in Members : PostBegin(h, m)
  <2>1. PICK h \in Handlers, m \in Members : PostBegin(h, m)
    BY <1>4
  <2> DEFINE r == [pc |-> "check", by |-> m, at |-> now, kept |-> <<>>]
  <2>2. r \in Early
    <3>1. now \in 0 .. now /\ <<>> \in Seq(0 .. now)
      BY EmptySeq DEF TypeOK, Stamps
    <3> QED
      BY <3>1 DEF Early, PostSteps, Sending
  <2>3. posts' = [posts EXCEPT ![h] = r]
    BY <2>1 DEF PostBegin
  <2> HIDE DEF r
  <2> QED
    BY <1>1, <1>2, <2>2, <2>3 DEF TypeOK
<1>5. CASE Restart
  BY <1>5 DEF Restart, NoPosts
<1>6. CASE UNCHANGED ofPosts
  BY <1>1, <1>2, <1>6 DEF ofPosts, TypeOK
<1> QED
  BY <1>3, <1>4, <1>5, <1>6, PostsOrNot
-----------------------------------------------------------------------------
(* One post at a time                                                      *)

\* Only a post that begins overlaps another.
LEMMA OverlapStep ==
  ASSUME TypeOK, [Next]_vars
  PROVE  /\ overlapped' \subseteq Members
         /\ (\E h \in Handlers : PostStep(h)) => overlapped' = overlapped
<1>1. (\E h \in Handlers : PostStep(h)) => overlapped' = overlapped
  BY DEF PostStep, PostCheck, PostSift, PostCount, PostPunish, PostStamp, PostStore, PostFail,
         PostAppend, PostTrim, PostSignal
<1>2. CASE \E h \in Handlers, m \in Members : PostBegin(h, m)
  <2>1. PICK m \in Members : overlapped' \subseteq overlapped \union {m}
    BY <1>2 DEF PostBegin
  <2>2. ~\E h \in Handlers : PostStep(h) /\ overlapped' # overlapped
    BY <1>1
  <2> QED
    BY <1>1, <2>1 DEF TypeOK
<1>3. CASE Restart
  BY <1>1, <1>3 DEF Restart
<1>4. CASE UNCHANGED ofPosts
  BY <1>1, <1>4 DEF ofPosts, TypeOK
<1>5. CASE \E h \in Handlers : PostStep(h)
  BY <1>1, <1>5 DEF TypeOK
<1> QED
  BY <1>2, <1>3, <1>4, <1>5, PostsOrNot

\* A post works as long as it is early on its course.
LEMMA EarlyWorks ==
  ASSUME TypeOK, NEW h \in Handlers, NEW m
  PROVE  Works(h, m) <=> posts[h] \in Early /\ posts[h].by = m
BY PostKind DEF Works, PostSteps, Sending

\* A post that goes on works only if it did before, for the same member.
LEMMA WorkedBefore ==
  ASSUME TypeOK, NEW h \in Handlers, NEW r, GoesOn(h, r), NEW g \in Handlers, NEW m,
         Works(g, m)'
  PROVE  Works(g, m)
<1>1. posts'[g] = IF g = h THEN r ELSE posts[g]
  BY DEF GoesOn, TypeOK
<1>2. posts'[g].pc \in PostSteps \ Sending /\ posts'[g].by = m
  BY DEF Works
<1>3. CASE g = h
  <2>1. r.pc \in PostSteps \ Sending /\ r.by = m
    BY <1>1, <1>2, <1>3
  <2>2. r \in Early
    BY <2>1, PostKinds DEF GoesOn, PostSteps, Sending
  <2>3. posts[h] \in Early /\ posts[h].by = m
    BY <2>1, <2>2 DEF GoesOn
  <2> QED
    BY <1>3, <2>3, EarlyWorks
<1>4. CASE g # h
  BY <1>1, <1>2, <1>4 DEF Works
<1> QED
  BY <1>3, <1>4

\* The step of a post that writes its member's history at most, and leaves it as the post itself
\* expects it, leaves the other members' posts with theirs.
LEMMA OneCarried ==
  ASSUME TypeOK, IOne, overlapped' = overlapped, NEW h \in Handlers, NEW r, GoesOn(h, r),
         \A m \in Members : ~Works(h, m) => history'[m] = history[m],
         posts[h].by \notin overlapped =>
           /\ r.pc = "count" => r.kept = Recent(history'[posts[h].by], posts[h].at)
           /\ r.pc = "stamp" => Len(history'[posts[h].by]) < FloodMax
  PROVE  IOne'
<1>1. \A g \in Handlers : posts'[g] = IF g = h THEN r ELSE posts[g]
  BY DEF GoesOn, TypeOK
<1>2. \A f, g \in Handlers, m \in Members \ overlapped :
        Works(f, m)' /\ Works(g, m)' => f = g
  BY WorkedBefore DEF IOne
<1>3. ASSUME NEW g \in Handlers, posts'[g].pc \in {"count", "stamp"},
             posts'[g].by \notin overlapped
      PROVE  /\ posts'[g].pc = "count" =>
                  posts'[g].kept = Recent(history'[posts'[g].by], posts'[g].at)
             /\ posts'[g].pc = "stamp" => Len(history'[posts'[g].by]) < FloodMax
  <2>1. CASE g = h
    <3>1. posts'[g] = r /\ r \in Early
      BY <1>1, <1>3, <2>1, PostKinds DEF GoesOn, Sending
    <3>2. r.by = posts[h].by /\ r.at = posts[h].at
      BY <3>1 DEF GoesOn
    <3> QED
      BY <1>3, <3>1, <3>2
  <2>2. CASE g # h
    <3>1. posts'[g] = posts[g] /\ posts[g] \in Early
      BY <1>1, <1>3, <2>2, PostKind
    <3>2. posts[g].by \in Members \ overlapped /\ Works(g, posts[g].by)
      BY <1>3, <3>1, EarlyTells, EarlyWorks
    <3>3. ~Works(h, posts[g].by)
      BY <2>2, <3>2 DEF IOne
    <3>4. history'[posts[g].by] = history[posts[g].by]
      BY <3>2, <3>3
    <3> QED
      BY <1>3, <3>1, <3>4 DEF IOne
  <2> QED
    BY <2>1, <2>2
<1> QED
  BY <1>2, <1>3 DEF IOne

\* Without an overlap a member's history stays as the post has sifted it until it is put in its
\* place, and is below the limit until the post's own stamp is added.
LEMMA OneStep ==
  ASSUME TypeOK, IOne, [Next]_vars
  PROVE  IOne' /\ \A m \in Members \ overlapped' : Len(history'[m]) <= FloodMax
<1> USE ChatAssumption
<1>1. \A m \in Members : /\ Len(history[m]) \in Nat
                         /\ m \notin overlapped => Len(history[m]) <= FloodMax
  BY LenProperties DEF TypeOK
<1>2. ASSUME NEW h \in Handlers, PostCount(h)
      PROVE  IOne' /\ \A m \in Members \ overlapped' : Len(history'[m]) <= FloodMax
  <2>0. PICK m, kept : m = posts[h].by /\ kept = posts[h].kept
    OBVIOUS
  <2>1. PICK r \in Early : /\ GoesOn(h, r)
                           /\ r.pc = IF Flooding(posts[h].kept) THEN "punish" ELSE "stamp"
    BY <1>2, CountGoes
  <2>2. posts[h] \in Early /\ overlapped' = overlapped
    BY <1>2, CountGoes DEF PostCount
  <2>3. m \in Members /\ posts[h].at \in Nat /\ history[m] \in Seq(0 .. now) /\ Works(h, m)
    BY <2>0, <2>2, EarlyTells, EarlyWorks
  <2>4. \A n \in Members : history'[n] = IF n = m THEN kept ELSE history[n]
    BY <1>2, <2>0 DEF PostCount, TypeOK
  <2>5. Len(kept) \in Nat /\ (m \notin overlapped => Len(kept) <= FloodMax)
    <3>1. m \notin overlapped => kept = Recent(history[m], posts[h].at)
      BY <1>2, <2>0 DEF IOne, PostCount
    <3>2. kept \in Seq(0 .. now)
      BY <2>0, <2>2, EarlyTells
    <3>3. Len(kept) \in Nat
      BY <3>2, LenProperties
    <3>4. Len(Recent(history[m], posts[h].at)) <= Len(history[m])
      <4>1. 0 .. now \in SUBSET Nat
        BY DEF TypeOK, Stamps
      <4> QED
        BY <2>3, <4>1, RecentKeeps
    <3> QED
      BY <1>1, <2>3, <3>1, <3>3, <3>4
  <2>6. m \notin overlapped => (r.pc = "stamp" => Len(history'[m]) < FloodMax)
    BY <2>0, <2>1, <2>3, <2>4, <2>5 DEF Flooding
  <2>7. r.pc # "count" /\ \A n \in Members : ~Works(h, n) => history'[n] = history[n]
    BY <2>1, <2>3, <2>4
  <2>8. IOne'
    BY <2>0, <2>1, <2>2, <2>6, <2>7, OneCarried
  <2> QED
    BY <1>1, <2>2, <2>4, <2>5, <2>8
<1>3. ASSUME NEW h \in Handlers, PostStamp(h)
      PROVE  IOne' /\ \A m \in Members \ overlapped' : Len(history'[m]) <= FloodMax
  <2>0. PICK m, at : m = posts[h].by /\ at = posts[h].at
    OBVIOUS
  <2>1. PICK r : GoesOn(h, r)
    BY <1>3, PostGoes DEF PostStep
  <2>2. posts[h] \in Early /\ overlapped' = overlapped
    BY <1>3, PostKind DEF PostStamp
  <2>3. m \in Members /\ at \in 0 .. now /\ history[m] \in Seq(0 .. now) /\ Works(h, m)
    BY <2>0, <2>2, EarlyTells, EarlyWorks
  <2>4. \A n \in Members : history'[n] = IF n = m THEN Append(history[m], at) ELSE history[n]
    BY <1>3, <2>0 DEF PostStamp, TypeOK
  <2>5. m \notin overlapped => Len(Append(history[m], at)) <= FloodMax
    <3>1. m \notin overlapped => Len(history[m]) < FloodMax
      BY <1>3, <2>0 DEF IOne, PostStamp
    <3>2. Len(Append(history[m], at)) = Len(history[m]) + 1
      BY <2>3, AppendProperties
    <3> QED
      BY <1>1, <2>3, <3>1, <3>2
  <2>6. r.pc # "count" /\ r.pc # "stamp"
    BY <1>3, <2>1 DEF GoesOn, Course, PostStamp
  <2>7. \A n \in Members : ~Works(h, n) => history'[n] = history[n]
    BY <2>3, <2>4
  <2>8. IOne'
    BY <2>1, <2>2, <2>6, <2>7, OneCarried
  <2> QED
    BY <1>1, <2>2, <2>4, <2>5, <2>8
<1>4. ASSUME NEW h \in Handlers, PostStep(h), ~PostCount(h), ~PostStamp(h)
      PROVE  IOne' /\ \A m \in Members \ overlapped' : Len(history'[m]) <= FloodMax
  <2>1. history' = history /\ overlapped' = overlapped
    BY <1>4
    DEF PostStep, PostCheck, PostSift, PostPunish, PostStore, PostFail, PostAppend, PostTrim,
        PostSignal, memory
  <2>2. PICK r : /\ GoesOn(h, r)
                 /\ r.pc # "stamp"
                 /\ r.pc = "count" => r.kept = Recent(history[posts[h].by], posts[h].at)
    <3>1. CASE PostSift(h)
      BY <3>1, SiftGoes
    <3>2. CASE ~PostSift(h)
      <4>1. PICK r : GoesOn(h, r)
        BY <1>4, PostGoes
      <4>2. posts[h].pc \notin {"sift", "count"}
        BY <1>4, <3>2
        DEF PostStep, PostCheck, PostPunish, PostStore, PostFail, PostAppend, PostTrim, PostSignal
      <4>3. r.pc # "stamp" /\ r.pc # "count"
        BY <4>1, <4>2 DEF GoesOn, Course
      <4> QED
        BY <4>1, <4>3
    <3> QED
      BY <3>1, <3>2
  <2>3. IOne'
    BY <2>1, <2>2, OneCarried
  <2> QED
    BY <1>1, <2>1, <2>3
<1>5. ASSUME NEW h \in Handlers, NEW m \in Members, PostBegin(h, m)
      PROVE  IOne' /\ \A n \in Members \ overlapped' : Len(history'[n]) <= FloodMax
  <2>1. PICK r : r = [pc |-> "check", by |-> m, at |-> now, kept |-> <<>>]
    OBVIOUS
  <2>2. history' = history
    BY <1>5 DEF PostBegin, memory
  <2>3. \A g \in Handlers : posts'[g] = IF g = h THEN r ELSE posts[g]
    BY <1>5, <2>1 DEF PostBegin, TypeOK
  <2>4. r.by = m /\ r.pc = "check"
    BY <2>1
  <2>5. overlapped \subseteq overlapped' /\ (m \notin overlapped' =>
          \A g \in Handlers : ~Works(g, m))
    BY <1>5 DEF PostBegin
  <2>6. ASSUME NEW f \in Handlers, NEW g \in Handlers, NEW n \in Members \ overlapped',
               Works(f, n)', Works(g, n)'
        PROVE  f = g
    <3>1. \A k \in Handlers : Works(k, n)' /\ k # h => Works(k, n)
      BY <2>3 DEF Works
    <3>2. Works(h, n)' => n = m
      BY <2>3, <2>4 DEF Works
    <3> QED
      BY <2>5, <2>6, <3>1, <3>2 DEF IOne
  <2>7. IOne'
    BY <2>2, <2>3, <2>4, <2>5, <2>6 DEF IOne
  <2> QED
    BY <1>1, <2>2, <2>5, <2>7
<1>6. CASE Restart
  <2>1. \A g \in Handlers : posts'[g] = Idle /\ Idle.pc = "idle"
    BY <1>6, PostKinds DEF Restart, NoPosts
  <2>2. \A m \in Members : history'[m] = <<>> /\ Len(<<>>) = 0
    BY <1>6, EmptySeq DEF Restart, NoHistory
  <2>3. \A g \in Handlers, m \in Members : ~Works(g, m)'
    BY <2>1 DEF Works, PostSteps
  <2> QED
    BY <2>1, <2>2, <2>3 DEF IOne
<1>7. CASE UNCHANGED ofPosts
  BY <1>1, <1>7 DEF ofPosts, IOne, Works
<1> QED
  BY <1>2, <1>3, <1>4, <1>5, <1>6, <1>7, PostsOrNot
-----------------------------------------------------------------------------
(* The presence updates and the streams                                    *)

\* Only members who are present ping, and a stream makes members present only.
LEMMA PingsStep ==
  ASSUME TypeOK, IsFiniteSet(pings), [Next]_vars
  PROVE  /\ presence' \subseteq Members
         /\ pings' \subseteq Members /\ IsFiniteSet(pings') /\ Cardinality(pings') <= MaxPings
<1> USE ChatAssumption
<1>1. Cardinality(pings) \in Nat
  BY FS_CardinalityType
<1>2. CASE \E m \in Members : PingBegin(m)
  <2>1. PICK m \in Members : PingBegin(m)
    BY <1>2
  <2>2. /\ IsFiniteSet(pings \union {m})
        /\ Cardinality(pings \union {m}) = IF m \in pings THEN Cardinality(pings)
                                           ELSE Cardinality(pings) + 1
    BY FS_AddElement
  <2> QED
    BY <1>1, <2>1, <2>2 DEF PingBegin, memory, TypeOK
<1>3. CASE \E m \in Members : PingEnd(m)
  <2>1. PICK m \in Members : PingEnd(m)
    BY <1>3
  <2>2. IsFiniteSet(pings \ {m}) /\ Cardinality(pings \ {m}) <= Cardinality(pings)
    BY FS_Subset
  <2>3. Cardinality(pings \ {m}) \in Nat
    BY <2>2, FS_CardinalityType
  <2> QED
    BY <1>1, <2>1, <2>2, <2>3 DEF PingEnd, Pinged, TypeOK
<1>4. CASE Restart
  <2>1. IsFiniteSet({}) /\ Cardinality({}) = 0
    BY FS_EmptySet
  <2> QED
    BY <1>4, <2>1 DEF Restart
<1>5. ASSUME pings' = pings, presence' \subseteq Members
      PROVE  /\ presence' \subseteq Members
             /\ pings' \subseteq Members /\ IsFiniteSet(pings') /\ Cardinality(pings') <= MaxPings
  BY <1>5 DEF TypeOK
<1>6. ASSUME NEW s \in Tabs,
             TabStep(s) \/ TabDrop(s) \/ TabFinally(s) \/ \E u \in Readers : TabOpen(s, u)
      PROVE  pings' = pings /\ presence' \subseteq Members
  BY <1>6 DEF TabStep, TabStart, TabTop, TabNext, TabWait, TabWake, TabTimeout, TabDrop, TabFinally,
              TabOpen, memory, TypeOK
<1>7. ASSUME NEW h \in Handlers, PostStep(h) \/ \E m \in Members : PostBegin(h, m)
      PROVE  pings' = pings /\ presence' \subseteq Members
  BY <1>7 DEF PostStep, PostCheck, PostSift, PostCount, PostPunish, PostStamp, PostStore, PostFail,
              PostAppend, PostTrim, PostSignal, PostBegin, memory, TypeOK
<1>8. CASE Tick \/ UNCHANGED vars
  BY <1>5, <1>8 DEF Tick, vars, memory, TypeOK
<1> QED
  BY <1>2, <1>3, <1>4, <1>5, <1>6, <1>7, <1>8 DEF Next

\* what a stream is owed has been broadcast, and it is not ahead of what the buffer may hold
SeesSome(r, n) ==
  /\ r.seen <= BufferFull /\ r.owed \subseteq 1 .. n
  /\ r.phase = "message" => r.seen < BufferFull

ISees == \A s \in Tabs : Open(s) => SeesSome(streams[s], said)

\* A stream that looks finds the buffer no longer than full, and is never ahead of it.
LEMMA LookSees ==
  ASSUME TypeOK, ISees, NEW s \in Tabs, Open(s), NEW n \in Nat, n <= BufferFull,
         NEW flag \in BOOLEAN, Look(s, n, flag)
  PROVE  SeesSome(streams'[s], said) /\ \A t \in Tabs : t # s => streams'[t] = streams[t]
<1>1. streams[s] \in Stream /\ SeesSome(streams[s], said)
  BY DEF TypeOK, Open, Closed, Leaving, ISees
<1>2. Len(buffer) \in Nat /\ Len(buffer) <= BufferFull /\ BufferFull \in Nat
  BY LenProperties, ThreadsCount, ChatAssumption DEF TypeOK, BufferFull
<1>3. ASSUME NEW q, streams' = [streams EXCEPT ![s] = q]
      PROVE  streams'[s] = q /\ \A t \in Tabs : t # s => streams'[t] = streams[t]
  BY <1>3 DEF TypeOK
<1>4. CASE /\ Len(buffer) > n
           /\ streams' = [streams EXCEPT ![s] =
                [@ EXCEPT !.phase = "message", !.seen = n, !.woken = FALSE,
                          !.owed = streams[s].owed \ {buffer[n + 1]}]]
  <2> DEFINE o == streams[s].owed \ {buffer[n + 1]}
             q == [streams[s] EXCEPT !.phase = "message", !.seen = n, !.woken = FALSE,
                                     !.owed = o]
  <2>1. o \subseteq 1 .. said
    BY <1>1 DEF SeesSome
  <2> HIDE DEF o
  <2>2. q.seen = n /\ q.owed = o
    BY <1>1 DEF Stream
  <2>3. streams' = [streams EXCEPT ![s] = q]
    BY <1>4 DEF o
  <2> HIDE DEF q
  <2>4. SeesSome(q, said)
    BY <1>2, <1>4, <2>1, <2>2 DEF SeesSome
  <2> QED
    BY <1>3, <2>3, <2>4
<1>5. CASE \E phase \in {"presence", "wait"} :
             streams' = [streams EXCEPT ![s] =
               [@ EXCEPT !.phase = phase, !.seen = n, !.woken = phase = "wait" /\ flag]]
  <2>1. PICK phase \in {"presence", "wait"} :
               streams' = [streams EXCEPT ![s] =
                 [@ EXCEPT !.phase = phase, !.seen = n, !.woken = phase = "wait" /\ flag]]
    BY <1>5
  <2> DEFINE b == phase = "wait" /\ flag
             q == [streams[s] EXCEPT !.phase = phase, !.seen = n, !.woken = b]
  <2>2. q.seen = n /\ q.owed = streams[s].owed /\ q.phase = phase
    <3> HIDE DEF b
    <3> QED
      BY <1>1 DEF Stream
  <2>3. streams' = [streams EXCEPT ![s] = q]
    BY <2>1
  <2> HIDE DEF q
  <2>4. SeesSome(q, said)
    BY <1>1, <2>2 DEF SeesSome
  <2> QED
    BY <1>3, <2>3, <2>4
<1> QED
  BY <1>4, <1>5 DEF Look

\* A stream that goes on.
LEMMA TabSees ==
  ASSUME TypeOK, ISees, NEW s \in Tabs,
         TabStep(s) \/ TabDrop(s) \/ TabFinally(s) \/ \E u \in Readers : TabOpen(s, u)
  PROVE  ISees'
<1> USE ChatAssumption
<1>1. said' = said
  BY DEF TabStep, TabStart, TabTop, TabNext, TabWait, TabWake, TabTimeout, TabDrop, TabFinally,
         TabOpen, memory
<1>2. SUFFICES /\ streams'[s].phase \notin {"closed", "dropped"} => SeesSome(streams'[s], said)
               /\ \A t \in Tabs : t # s => streams'[t] = streams[t]
  BY <1>1 DEF ISees, Open
<1>3. ASSUME NEW q, streams' = [streams EXCEPT ![s] = q]
      PROVE  streams'[s] = q /\ \A t \in Tabs : t # s => streams'[t] = streams[t]
  BY <1>3 DEF TypeOK
<1>4. ASSUME Open(s)
      PROVE  /\ streams[s] \in Stream /\ SeesSome(streams[s], said)
             /\ streams[s].seen \in Nat /\ streams[s].seen <= BufferFull
  BY <1>4 DEF TypeOK, Open, Closed, Leaving, ISees, SeesSome, Stream
<1>5. BufferFull \in Nat
  BY ThreadsCount DEF BufferFull
<1>6. CASE TabTop(s) /\ Open(s)
  BY <1>4, <1>6, LookSees DEF TabTop
<1>7. CASE TabNext(s)
  <2>1. Open(s) /\ event \in BOOLEAN /\ Look(s, streams[s].seen + 1, event)
    BY <1>7 DEF TabNext, Open, TypeOK
  <2>2. streams[s].seen + 1 \in Nat /\ streams[s].seen + 1 <= BufferFull
    BY <1>4, <1>5, <1>7, <2>1 DEF TabNext, SeesSome
  <2> QED
    BY <2>1, <2>2, LookSees
<1>8. CASE TabWait(s)
  <2>1. Open(s)
    BY <1>8 DEF TabWait, Open
  <2> DEFINE q == [streams[s] EXCEPT !.phase = "wait", !.woken = event]
  <2>2. q.phase = "wait" /\ q.seen = streams[s].seen /\ q.owed = streams[s].owed
    BY <1>4, <2>1 DEF Stream
  <2>3. streams' = [streams EXCEPT ![s] = q]
    BY <1>8 DEF TabWait, TypeOK
  <2> HIDE DEF q
  <2> QED
    BY <1>3, <1>4, <2>1, <2>2, <2>3 DEF SeesSome
<1>9. CASE TabDrop(s)
  <2> DEFINE q == [phase |-> "dropped", by |-> streams[s].by]
  <2>1. streams' = [streams EXCEPT ![s] = q] /\ q.phase = "dropped"
    BY <1>9 DEF TabDrop
  <2> QED
    BY <1>3, <2>1
<1>10. CASE TabFinally(s)
  BY <1>3, <1>10 DEF TabFinally, Closed
<1>11. CASE \E u \in Readers : TabOpen(s, u)
  <2>1. PICK u \in Readers : TabOpen(s, u)
    BY <1>11
  <2> DEFINE q == [phase |-> "hello", by |-> u, seen |-> Len(buffer), woken |-> FALSE, owed |-> {}]
  <2>2. streams' = [streams EXCEPT ![s] = q]
    BY <2>1 DEF TabOpen
  <2>3. SeesSome(q, said)
    BY DEF TypeOK, SeesSome
  <2> QED
    BY <1>3, <2>2, <2>3
<1> QED
  BY <1>6, <1>7, <1>8, <1>9, <1>10, <1>11
  DEF TabStep, TabStart, TabWake, TabTimeout, Waiting, Open

\* A broadcast is owed from then on; waking a stream changes nothing of what it has seen.
LEMMA SeesStep ==
  ASSUME TypeOK, ISees, [Next]_vars, said' \in Nat
  PROVE  ISees'
<1>1. ASSUME NEW s \in Tabs, Open(s)
      PROVE  streams[s] \in Stream /\ SeesSome(streams[s], said)
  BY <1>1 DEF TypeOK, Open, Closed, Leaving, ISees
<1>2. CASE UNCHANGED <<said, streams>>
  BY <1>2 DEF ISees, Open
<1>3. CASE \E h \in Handlers : PostAppend(h)
  <2>1. PICK h \in Handlers : PostAppend(h)
    BY <1>3
  <2>2. said' = said + 1 /\ said \in Nat
    BY <2>1 DEF PostAppend, TypeOK
  <2>3. ASSUME NEW s \in Tabs, streams'[s].phase \notin {"closed", "dropped"}
        PROVE  SeesSome(streams'[s], said')
    <3>1. Open(s)
      BY <2>1, <2>3 DEF PostAppend, Open
    <3>2. streams'[s] = [streams[s] EXCEPT !.owed = streams[s].owed \union {said'}]
      BY <2>1, <3>1 DEF PostAppend
    <3>3. /\ streams'[s].owed = streams[s].owed \union {said'}
          /\ streams'[s].seen = streams[s].seen /\ streams'[s].phase = streams[s].phase
      BY <1>1, <3>1, <3>2 DEF Stream
    <3>4. streams'[s].owed \subseteq 1 .. said'
      BY <1>1, <2>2, <3>1, <3>3 DEF SeesSome
    <3> QED
      BY <1>1, <3>1, <3>3, <3>4 DEF SeesSome
  <2> QED
    BY <2>3 DEF ISees, Open
<1>4. CASE \E h \in Handlers : PostSignal(h)
  <2>1. said' = said
    BY <1>4 DEF PostSignal
  <2>2. PICK W \in SUBSET {s \in Tabs : Waiting(s)} :
          streams' = [s \in Tabs |-> IF s \in W THEN [streams[s] EXCEPT !.woken = TRUE]
                                               ELSE streams[s]]
    BY <1>4 DEF PostSignal
  <2>3. ASSUME NEW s \in Tabs, streams'[s].phase \notin {"closed", "dropped"}
        PROVE  SeesSome(streams'[s], said)
    <3>1. CASE s \in W
      <4>1. Open(s) /\ streams'[s] = [streams[s] EXCEPT !.woken = TRUE]
        BY <2>2, <3>1 DEF Waiting, Open
      <4>2. /\ streams'[s].owed = streams[s].owed
            /\ streams'[s].seen = streams[s].seen /\ streams'[s].phase = streams[s].phase
        BY <1>1, <4>1 DEF Stream
      <4> QED
        BY <1>1, <4>1, <4>2 DEF SeesSome
    <3>2. CASE s \notin W
      <4>1. streams'[s] = streams[s] /\ Open(s)
        BY <2>2, <2>3, <3>2 DEF Open
      <4> QED
        BY <1>1, <4>1
    <3> QED
      BY <3>1, <3>2
  <2> QED
    BY <2>1, <2>3 DEF ISees, Open
<1>5. ASSUME NEW h \in Handlers, ~PostAppend(h), ~PostSignal(h),
             PostStep(h) \/ \E m \in Members : PostBegin(h, m)
      PROVE  UNCHANGED <<said, streams>>
  BY <1>5 DEF PostStep, PostCheck, PostSift, PostCount, PostPunish, PostStamp, PostStore, PostFail,
              PostTrim, PostBegin, memory
<1>6. CASE Restart
  <2>1. \A s \in Tabs : streams'[s].phase = "closed"
    BY <1>6 DEF Restart, NoStreams, Closed
  <2> QED
    BY <2>1 DEF ISees, Open
<1>7. CASE (\E m \in Members : PingBegin(m) \/ PingEnd(m)) \/ Tick \/ UNCHANGED vars
  BY <1>2, <1>7 DEF PingBegin, PingEnd, Tick, vars, memory
<1> QED
  BY <1>2, <1>3, <1>4, <1>5, <1>6, <1>7, TabSees DEF Next
-----------------------------------------------------------------------------
(* Type correctness                                                        *)

IRoom == TypeOK /\ IsFiniteSet(pings) /\ ISaid /\ IRows /\ IBuffer /\ ISees /\ IOne

LEMMA RoomAtStart == Init => IRoom
<1> SUFFICES ASSUME Init PROVE IRoom
  OBVIOUS
<1> USE ChatAssumption
<1>1. IsFiniteSet({}) /\ Cardinality({}) = 0
  BY FS_EmptySet
<1>2. \A S : <<>> \in Seq(S) /\ Len(<<>>) = 0
  BY EmptySeq
<1>3. \A h \in Handlers : posts[h] = Idle /\ Idle.pc = "idle"
  BY PostKinds DEF Init, NoPosts
<1>4. Unsaid = {} /\ Unstored = {} /\ Uncut = {}
  BY <1>3 DEF Unsaid, Unstored, Uncut, UnsaidSteps, UnstoredSteps
<1>5. Cardinality(Handlers) \in Nat
  BY ThreadsCount
<1>6. TypeOK
  <2>1. /\ now \in Stamps /\ said \in 0 .. MaxBroadcast /\ event \in BOOLEAN
        /\ rows = {} /\ presence = {} /\ pings = {}
    <3>1. /\ now = 0 /\ said = 0 /\ event = FALSE
          /\ rows = {} /\ presence = {} /\ pings = {}
      BY Zenon DEF Init
    <3>2. 0 \in 0 .. MaxTime /\ 0 \in 0 .. MaxBroadcast
      OBVIOUS
    <3> QED
      BY <3>1, <3>2 DEF Stamps
  <2>5. timedOut \in [Members -> 0 .. MaxTime + FloodTimeout]
    <3>1. 0 \in 0 .. MaxTime + FloodTimeout
      OBVIOUS
    <3> QED
      BY <3>1 DEF Init, NoTimeouts
  <2>4. /\ history \in [Members -> Seq(0 .. now)]
        /\ \A m \in Members : Len(history[m]) <= FloodMax
    <3>1. \A m \in Members : history[m] = <<>> /\ history = [n \in Members |-> <<>>]
      BY DEF Init, NoHistory
    <3>2. <<>> \in Seq(0 .. now) /\ Len(<<>>) = 0
      BY <1>2
    <3> QED
      BY <3>1, <3>2 DEF Init, NoHistory
  <2>2. buffer \in Seq(Nat) /\ Len(buffer) <= BufferFull /\ DOMAIN buffer = {}
    BY <1>2, <1>5 DEF Init, BufferFull
  <2>3. /\ posts \in [Handlers -> {Idle} \union Early \union Late]
        /\ streams \in [Tabs -> {Closed} \union Stream \union Leaving]
        /\ overlapped = {}
        /\ \A s \in Tabs : ~Open(s)
    BY DEF Init, NoPosts, NoStreams, Open, Closed
  <2> QED
    BY <1>1, <2>1, <2>2, <2>3, <2>4, <2>5 DEF TypeOK
<1>7. IOne
  <2>1. \A h \in Handlers, m \in Members : ~Works(h, m)
    BY <1>3 DEF Works, PostSteps
  <2> QED
    BY <1>3, <2>1 DEF IOne
<1> QED
  BY <1>1, <1>2, <1>3, <1>4, <1>6, <1>7
  DEF IRoom, ISaid, IRows, IBuffer, ISees, Init, Open, NoStreams, Closed

\* Every step keeps it; that the streams stay streams is known from what makes members present.
LEMMA RoomStep ==
  ASSUME IRoom, IPresence', [Next]_vars
  PROVE  IRoom'
<1> USE DEF IRoom
<1>1. said' \in 0 .. MaxBroadcast /\ ISaid'
  BY SaidStep
<1>2. /\ rows' \subseteq [id : 1 .. MaxBroadcast, by : Members, at : 0 .. now', live : BOOLEAN]
      /\ IRows'
  BY RowsStep
<1>3. /\ Len(buffer') <= BufferFull
      /\ \A i \in DOMAIN buffer' : buffer'[i] \in 1 .. said'
      /\ IBuffer'
  BY <1>1, BufferStep
<1>4. /\ history' \in [Members -> Seq(0 .. now')]
      /\ timedOut' \in [Members -> 0 .. MaxTime + FloodTimeout]
  BY HistoryStep
<1>5. posts' \in [Handlers -> {Idle} \union Early' \union Late']
  BY PostsStep
<1>6. /\ IOne' /\ \A m \in Members \ overlapped' : Len(history'[m]) <= FloodMax
      /\ overlapped' \subseteq Members
  BY OneStep, OverlapStep
<1>7. /\ presence' \subseteq Members
      /\ pings' \subseteq Members /\ IsFiniteSet(pings') /\ Cardinality(pings') <= MaxPings
  BY PingsStep
<1>8. ISees'
  BY <1>1, SeesStep
<1>9. now' \in Stamps
  BY NowStep
<1>10. /\ buffer' \in Seq(Nat) /\ event' \in BOOLEAN
       /\ streams' \in [Tabs -> {Closed} \union Stream \union Leaving]
  BY DEF IPresence, IStream
<1>11. \A s \in Tabs : streams'[s].phase \notin {"closed", "dropped"} =>
         streams'[s].seen <= BufferFull /\ streams'[s].owed \subseteq 1 .. said'
  BY <1>8 DEF ISees, SeesSome, Open
<1>12. TypeOK'
  BY <1>1, <1>2, <1>3, <1>4, <1>5, <1>6, <1>7, <1>9, <1>10, <1>11 DEF TypeOK, Open
<1> QED
  BY <1>1, <1>2, <1>3, <1>6, <1>7, <1>8, <1>12

LEMMA RoomHolds == Spec => [](IPresence /\ IRoom)
<1>1. Init => IPresence /\ IRoom
  BY Inductive, RoomAtStart
<1>2. IPresence /\ IRoom /\ [Next]_vars => (IPresence /\ IRoom)'
  BY Inductive, RoomStep
<1> QED
  BY <1>1, <1>2, PTL DEF Spec

\* Every variable keeps its type, for any number of threads: the buffer passes its bound by a
\* message per thread at most, no stream waits for a position the buffer cannot reach, and the
\* history of a member whose posts do not overlap does not grow past the limit.
THEOREM TypeCorrect == Spec => []TypeOK
<1>1. IRoom => TypeOK
  BY DEF IRoom
<1> QED
  BY <1>1, RoomHolds, PTL
-----------------------------------------------------------------------------
(* The flood limit                                                         *)

\* the messages of a member that are stored since the last restart, and those of them in the
\* window at t
Stored(m) == {q \in rows : q.by = m /\ q.live}
Fresh(m, t) == {q \in Stored(m) : t < q.at + FloodWindow}

\* from when on the history of a member tells all that matters: what a post has sifted out was
\* out of the window at the post's own time
Tells(m, t) == t >= now \/ \E h \in Handlers : Works(h, m) /\ posts[h].at <= t

\* every message in the window has its stamp in the history, and the post that is about to store
\* another has one too
Covered(m) ==
  \A t \in Nat :
    Tells(m, t) =>
      /\ Cardinality(Fresh(m, t)) <= Counted(history[m], t)
      /\ \A h \in Handlers :
           Works(h, m) /\ posts[h].pc = "store" /\ t < posts[h].at + FloodWindow =>
             Cardinality(Fresh(m, t)) < Counted(history[m], t)

\* no message of the member is later than the post
Latest(m) == \A h \in Handlers : Works(h, m) => \A q \in Stored(m) : q.at <= posts[h].at

IFlood == FloodInTurn /\ \A m \in Members \ overlapped : Covered(m) /\ Latest(m)

\* A member's messages can be counted.
LEMMA FreshCounts ==
  ASSUME TypeOK, IRows, NEW m \in Members, NEW t
  PROVE  /\ IsFiniteSet(Fresh(m, t)) /\ Cardinality(Fresh(m, t)) \in Nat
         /\ Counted(history[m], t) \in Nat /\ Counted(history[m], t) <= Len(history[m])
         /\ Len(history[m]) \in Nat
<1>1. Fresh(m, t) \in SUBSET rows
  BY DEF Fresh, Stored
<1>2. IsFiniteSet(Fresh(m, t))
  BY <1>1, FS_Subset DEF IRows
<1>3. Cardinality(Fresh(m, t)) \in Nat
  BY <1>2, FS_CardinalityType
<1>4. Len(history[m]) \in Nat
  BY LenProperties DEF TypeOK
<1> QED
  BY <1>2, <1>3, <1>4, CountNext DEF Counted

\* A member whose messages and history stay, and whose posts go on without coming to store one.
LEMMA MemberCarried ==
  ASSUME NEW m \in Members, Covered(m), Latest(m),
         now \in Nat, now' \in Nat, now <= now',
         \A q \in rows : q.by = m => q \in rows',
         \A q \in rows' : q.by = m => q \in rows,
         history'[m] = history[m],
         \A h \in Handlers : Works(h, m)' =>
           /\ Works(h, m) /\ posts'[h].at = posts[h].at
           /\ posts'[h].pc = "store" => posts[h].pc = "store"
  PROVE  Covered(m)' /\ Latest(m)'
<1>1. Stored(m)' = Stored(m)
  BY DEF Stored
<1>2. \A t \in Nat : Fresh(m, t)' = Fresh(m, t)
  BY <1>1 DEF Fresh
<1>3. \A t \in Nat : Tells(m, t)' => Tells(m, t)
  BY DEF Tells
<1>4. Covered(m)'
  BY <1>2, <1>3 DEF Covered
<1>5. Latest(m)'
  BY <1>1 DEF Latest
<1> QED
  BY <1>4, <1>5

\* Works, of the next state.
LEMMA WorksNext ==
  ASSUME TypeOK, NEW h \in Handlers, NEW r, GoesOn(h, r), NEW m
  PROVE  /\ r \in Early /\ posts[h].by = m <=> Works(h, m)'
         /\ r \in Early /\ posts[h].by = m => Works(h, m) /\ posts'[h].at = posts[h].at
         /\ posts'[h] = r
         /\ \A g \in Handlers : g # h => posts'[g] = posts[g] /\ (Works(g, m)' <=> Works(g, m))
<1>1. \A g \in Handlers : posts'[g] = IF g = h THEN r ELSE posts[g]
  BY DEF GoesOn, TypeOK
<1>2. r \in Early => r.by = posts[h].by /\ posts[h] \in Early /\ r.at = posts[h].at
  BY DEF GoesOn
<1>3. r \in Early <=> r.pc \in PostSteps \ Sending
  BY PostKinds DEF GoesOn, PostSteps, Sending
<1>4. Works(h, m)' <=> r \in Early /\ r.by = m
  BY <1>1, <1>3 DEF Works
<1>5. \A g \in Handlers : g # h => posts'[g] = posts[g] /\ (Works(g, m)' <=> Works(g, m))
  BY <1>1 DEF Works
<1>6. Works(h, m) <=> posts[h] \in Early /\ posts[h].by = m
  BY EarlyWorks
<1> QED
  BY <1>1, <1>2, <1>4, <1>5, <1>6

\* A post that works for a member worked for it before, with the same clock, and was about to
\* store if it is now.
LEMMA WorksBefore ==
  ASSUME TypeOK, NEW h \in Handlers, NEW r, GoesOn(h, r), now' = now, NEW m,
         posts[h].by # m \/ r.pc # "store", NEW g \in Handlers, Works(g, m)'
  PROVE  /\ Works(g, m) /\ posts'[g].at = posts[g].at
         /\ posts'[g].pc = "store" => posts[g].pc = "store"
<1>1. CASE g = h
  <2>1. posts[h].by = m /\ Works(h, m) /\ posts'[h].at = posts[h].at /\ posts'[h] = r
    BY <1>1, WorksNext
  <2> QED
    BY <1>1, <2>1
<1>2. CASE g # h
  <2>1. posts'[g] = posts[g] /\ Works(g, m)
    BY <1>2, WorksNext
  <2> QED
    BY <2>1
<1> QED
  BY <1>1, <1>2

\* The members whose posts do not step.
LEMMA OthersCarried ==
  ASSUME TypeOK, IFlood, NEW h \in Handlers, NEW r, GoesOn(h, r), now' = now,
         NEW m \in Members \ overlapped, m # posts[h].by, history'[m] = history[m],
         \A q \in rows : q.by = m => q \in rows', \A q \in rows' : q.by = m => q \in rows
  PROVE  Covered(m)' /\ Latest(m)'
<1>1. now \in Nat /\ now' \in Nat /\ now <= now'
  BY DEF TypeOK, Stamps
<1>2. Covered(m) /\ Latest(m)
  BY DEF IFlood
<1>3. \A g \in Handlers : Works(g, m)' =>
        /\ Works(g, m) /\ posts'[g].at = posts[g].at
        /\ posts'[g].pc = "store" => posts[g].pc = "store"
  BY WorksBefore
<1> QED
  BY <1>1, <1>2, <1>3, MemberCarried

\* The post of a member whose posts do not overlap is the only one that works for it.
LEMMA OnlyPost ==
  ASSUME IOne, NEW h \in Handlers, NEW g \in Handlers, NEW m \in Members \ overlapped,
         Works(g, m), Works(h, m)
  PROVE  g = h
BY DEF IOne

\* A post of a member whose posts have overlapped touches nobody else's.
LEMMA FloodElse ==
  ASSUME TypeOK, IFlood, NEW h \in Handlers, NEW r, GoesOn(h, r), now' = now,
         overlapped' = overlapped, posts[h].by \in overlapped,
         \A n \in Members : n # posts[h].by => history'[n] = history[n],
         \A q \in rows : q \in rows', \A q \in rows' : q.by # posts[h].by => q \in rows
  PROVE  IFlood'
<1>1. ASSUME NEW n \in Members \ overlapped'
      PROVE  Covered(n)' /\ Latest(n)'
  BY OthersCarried
<1>2. ASSUME NEW x \in rows', x.live, x.by \notin overlapped'
      PROVE  Cardinality(InWindowOf(x)') <= FloodMax
  <2>1. x \in rows
    BY <1>2
  <2>2. InWindowOf(x)' = InWindowOf(x)
    BY <1>2 DEF InWindowOf
  <2> QED
    BY <1>2, <2>1, <2>2 DEF IFlood, FloodInTurn
<1>3. FloodInTurn'
  BY <1>2 DEF FloodInTurn, InWindowOf
<1> QED
  BY <1>1, <1>3 DEF IFlood

\* A post that steps without storing or stamping.
LEMMA FloodPlain ==
  ASSUME TypeOK, IFlood, NEW h \in Handlers, NEW r, GoesOn(h, r), now' = now,
         UNCHANGED <<rows, history, overlapped>>, posts[h].pc # "stamp"
  PROVE  IFlood'
<1>1. now \in Nat /\ now' \in Nat /\ now <= now'
  BY DEF TypeOK, Stamps
<1>2. r.pc # "store"
  BY DEF GoesOn, Course
<1>3. ASSUME NEW m \in Members \ overlapped'
      PROVE  Covered(m)' /\ Latest(m)'
  <2>1. Covered(m) /\ Latest(m)
    BY DEF IFlood
  <2>2. \A g \in Handlers : Works(g, m)' =>
          /\ Works(g, m) /\ posts'[g].at = posts[g].at
          /\ posts'[g].pc = "store" => posts[g].pc = "store"
    BY <1>2, WorksBefore
  <2> QED
    BY <1>1, <2>1, <2>2, MemberCarried
<1>4. FloodInTurn'
  BY DEF IFlood, FloodInTurn, InWindowOf
<1> QED
  BY <1>3, <1>4 DEF IFlood

\* What was sifted out is out of the window for good: the history that takes the place of the
\* old one still covers the messages.
LEMMA FloodCount ==
  ASSUME TypeOK, IRows, IOne, IFlood, NEW h \in Handlers, PostCount(h), now' = now,
         posts[h].by \notin overlapped
  PROVE  IFlood'
<1>1. PICK r \in Early : /\ GoesOn(h, r)
                         /\ r.pc = IF Flooding(posts[h].kept) THEN "punish" ELSE "stamp"
  BY CountGoes
<1>2. posts[h] \in Early /\ posts[h] # Idle /\ rows' = rows /\ posts[h].pc = "count"
      /\ overlapped' = overlapped
  BY CountGoes, PostKinds DEF PostCount
<1>0. PICK m, at : m = posts[h].by /\ at = posts[h].at
  OBVIOUS
<1>3. m \in Members \ overlapped /\ at \in 0 .. now /\ at \in Nat /\ history[m] \in Seq(0 .. now)
  BY <1>0, <1>2, EarlyTells
<1>4. posts[h].kept = Recent(history[m], at)
  BY <1>0, <1>2 DEF IOne
<1>5. \A n \in Members : history'[n] = IF n = m THEN Recent(history[m], at) ELSE history[n]
  BY <1>0, <1>4 DEF PostCount, TypeOK
<1>6. \A t \in Nat : at <= t => Counted(history'[m], t) = Counted(history[m], t)
  <2>1. 0 .. now \in SUBSET Nat
    BY DEF TypeOK, Stamps
  <2>2. \A t \in Nat : at <= t => Counted(Recent(history[m], at), t) = Counted(history[m], t)
    BY <1>3, <2>1, RecentKeeps
  <2> QED
    BY <1>3, <1>5, <2>2
<1>7. Stored(m)' = Stored(m) /\ \A t : Fresh(m, t)' = Fresh(m, t)
  BY <1>2 DEF Stored, Fresh
<1>8. Works(h, m)
  BY <1>0, <1>2, EarlyWorks
<1>9. \A g \in Handlers : Works(g, m)' => g = h /\ posts'[g].at = at /\ posts'[g].pc # "store"
  <2>1. ASSUME NEW g \in Handlers, Works(g, m)'
        PROVE  g = h
    <3>1. g # h => Works(g, m)
      BY <1>1, <2>1, WorksNext
    <3> QED
      BY <1>3, <1>8, <3>1, OnlyPost
  <2>2. Works(h, m)' => posts'[h].at = at /\ posts'[h].pc # "store"
    BY <1>0, <1>1, WorksNext
  <2> QED
    BY <2>1, <2>2
<1>10. ASSUME NEW t \in Nat, Tells(m, t)'
       PROVE  Tells(m, t) /\ at <= t
  <2>1. now \in Nat
    BY DEF TypeOK, Stamps
  <2>2. at <= t
    BY <1>3, <1>9, <1>10, <2>1 DEF Tells
  <2> QED
    BY <1>0, <1>8, <2>2 DEF Tells
<1>11. Covered(m) /\ Latest(m) /\ FloodInTurn
  BY <1>3 DEF IFlood
<1>12. Covered(m)'
  BY <1>6, <1>7, <1>9, <1>10, <1>11 DEF Covered
<1>13. Latest(m)'
  BY <1>0, <1>7, <1>9, <1>8, <1>11 DEF Latest
<1>14. ASSUME NEW n \in Members \ overlapped', n # m
       PROVE  Covered(n)' /\ Latest(n)'
  BY <1>0, <1>1, <1>2, <1>5, <1>14, OthersCarried
<1>15. FloodInTurn'
  BY <1>2, <1>11 DEF FloodInTurn, InWindowOf
<1> QED
  BY <1>12, <1>13, <1>14, <1>15 DEF IFlood
\* The stamp is added before the message is stored.
LEMMA FloodStamp ==
  ASSUME TypeOK, IRows, IOne, IFlood, NEW h \in Handlers, PostStamp(h), now' = now,
         posts[h].by \notin overlapped
  PROVE  IFlood'
<1>0. PICK m, at : m = posts[h].by /\ at = posts[h].at
  OBVIOUS
<1>1. PICK r : GoesOn(h, r)
  BY PostGoes DEF PostStep
<1>2. posts[h] \in Early /\ posts[h] # Idle /\ rows' = rows /\ posts[h].pc = "stamp"
      /\ overlapped' = overlapped
  BY PostKind, PostKinds DEF PostStamp
<1>3. m \in Members \ overlapped /\ at \in 0 .. now /\ at \in Nat /\ history[m] \in Seq(0 .. now)
  BY <1>0, <1>2, EarlyTells
<1>4. \A n \in Members : history'[n] = IF n = m THEN Append(history[m], at) ELSE history[n]
  BY <1>0 DEF PostStamp, TypeOK
<1>5. \A t : Counted(history'[m], t)
            = Counted(history[m], t) + (IF t < at + FloodWindow THEN 1 ELSE 0)
  <2>1. history'[m] = Append(history[m], at)
    BY <1>3, <1>4
  <2>2. ASSUME NEW t
        PROVE  Counted(Append(history[m], at), t) =
                 Counted(history[m], t) + (IF t < at + FloodWindow THEN 1 ELSE 0)
    <3>1. PICK S, stamps : S = 0 .. now /\ stamps = history[m]
      OBVIOUS
    <3>2. stamps \in Seq(S) /\ at \in S
      BY <1>3, <3>1
    <3>3. Counted(Append(stamps, at), t) =
            Counted(stamps, t) + (IF t < at + FloodWindow THEN 1 ELSE 0)
      BY <3>2, CountAppend
    <3> QED
      BY <3>1, <3>3
  <2> QED
    BY <2>1, <2>2
<1>6. \A t : /\ Cardinality(Fresh(m, t)) \in Nat /\ Counted(history[m], t) \in Nat
  BY <1>3, FreshCounts
<1>7. Stored(m)' = Stored(m) /\ \A t : Fresh(m, t)' = Fresh(m, t)
  BY <1>2 DEF Stored, Fresh
<1>8. Works(h, m)
  BY <1>0, <1>2, EarlyWorks
<1>9. \A g \in Handlers : Works(g, m)' => g = h /\ posts'[g].at = at
  <2>1. ASSUME NEW g \in Handlers, Works(g, m)'
        PROVE  g = h
    <3>1. g # h => Works(g, m)
      BY <1>1, <2>1, WorksNext
    <3> QED
      BY <1>3, <1>8, <3>1, OnlyPost
  <2>2. Works(h, m)' => posts'[h].at = at
    BY <1>0, <1>1, WorksNext
  <2> QED
    BY <2>1, <2>2
<1>10. ASSUME NEW t \in Nat, Tells(m, t)'
       PROVE  Tells(m, t)
  BY <1>0, <1>9, <1>8, <1>10 DEF Tells
<1>11. Covered(m) /\ Latest(m) /\ FloodInTurn
  BY <1>3 DEF IFlood
<1>12. ASSUME NEW t \in Nat, Tells(m, t)'
       PROVE  /\ Cardinality(Fresh(m, t)') <= Counted(history'[m], t)
              /\ t < at + FloodWindow => Cardinality(Fresh(m, t)') < Counted(history'[m], t)
  <2>1. Cardinality(Fresh(m, t)) <= Counted(history[m], t)
    BY <1>10, <1>11, <1>12 DEF Covered
  <2> QED
    BY <1>5, <1>6, <1>7, <2>1
<1>13. Covered(m)'
  BY <1>9, <1>12 DEF Covered
<1>14. Latest(m)'
  BY <1>0, <1>7, <1>9, <1>8, <1>11 DEF Latest
<1>15. ASSUME NEW n \in Members \ overlapped', n # m
       PROVE  Covered(n)' /\ Latest(n)'
  BY <1>0, <1>1, <1>2, <1>4, <1>15, OthersCarried
<1>16. FloodInTurn'
  BY <1>2, <1>11 DEF FloodInTurn, InWindowOf
<1> QED
  BY <1>13, <1>14, <1>15, <1>16 DEF IFlood

\* The message that is stored is the member's latest; with it no more are in its window than the
\* history has stamps, and no window of an earlier one gains a message.
LEMMA FloodStore ==
  ASSUME TypeOK, IRows, IOne, IFlood, NEW h \in Handlers, PostStore(h), now' = now,
         posts[h].by \notin overlapped
  PROVE  IFlood'
<1> USE ChatAssumption
<1>0. PICK m, at, q : /\ m = posts[h].by /\ at = posts[h].at
                      /\ q = [id |-> Cardinality(rows) + 1, by |-> posts[h].by,
                              at |-> posts[h].at, live |-> TRUE]
  OBVIOUS
<1>1. PICK r : GoesOn(h, r)
  BY PostGoes DEF PostStep
<1>2. posts[h] \in Early /\ posts[h] # Idle /\ history' = history /\ posts[h].pc = "store"
      /\ overlapped' = overlapped
  BY PostKind, PostKinds DEF PostStore, memory
<1>3. m \in Members \ overlapped /\ at \in 0 .. now /\ at \in Nat /\ now \in Nat
  BY <1>0, <1>2, EarlyTells DEF TypeOK, Stamps
<1>4. rows' = rows \union {q} /\ q.by = m /\ q.at = at /\ q.live
  BY <1>0 DEF PostStore
<1>5. Works(h, m)
  BY <1>0, <1>2, EarlyWorks
<1>6. \A g \in Handlers : ~Works(g, m)'
  <2>1. ASSUME NEW g \in Handlers, Works(g, m)'
        PROVE  g = h
    <3>1. g # h => Works(g, m)
      BY <1>1, <2>1, WorksNext
    <3> QED
      BY <1>3, <1>5, <3>1, OnlyPost
  <2>2. r \notin Early
    BY <1>1, <1>2, PostKinds DEF GoesOn, Course
  <2> QED
    BY <1>0, <1>1, <2>1, <2>2, WorksNext
<1>7. Covered(m) /\ Latest(m) /\ FloodInTurn
  BY <1>3 DEF IFlood
<1>8. \A t : /\ IsFiniteSet(Fresh(m, t)) /\ Cardinality(Fresh(m, t)) \in Nat
             /\ Counted(history[m], t) \in Nat /\ Counted(history[m], t) <= Len(history[m])
             /\ Len(history[m]) \in Nat
  BY <1>3, FreshCounts
<1>9. \A t : /\ IsFiniteSet(Fresh(m, t) \union {q})
             /\ Cardinality(Fresh(m, t) \union {q}) \in Nat
             /\ Cardinality(Fresh(m, t) \union {q}) <= Cardinality(Fresh(m, t)) + 1
  <2>1. ASSUME NEW t
        PROVE  /\ IsFiniteSet(Fresh(m, t) \union {q})
               /\ Cardinality(Fresh(m, t) \union {q}) =
                    IF q \in Fresh(m, t) THEN Cardinality(Fresh(m, t))
                    ELSE Cardinality(Fresh(m, t)) + 1
    BY <1>8, FS_AddElement
  <2>2. ASSUME NEW t, NEW c, c = Cardinality(Fresh(m, t) \union {q}),
               NEW k, k = Cardinality(Fresh(m, t))
        PROVE  c \in Nat /\ c <= k + 1
    <3>1. k \in Nat
      BY <1>8, <2>2
    <3>2. c = k \/ c = k + 1
      BY <2>1, <2>2
    <3> QED
      BY <3>1, <3>2
  <2> QED
    BY <2>1, <2>2
<1>10. \A t \in Nat : Fresh(m, t)' = IF t < at + FloodWindow THEN Fresh(m, t) \union {q}
                                     ELSE Fresh(m, t)
  BY <1>4 DEF Fresh, Stored
<1>11. Covered(m)'
  <2>1. ASSUME NEW t \in Nat, Tells(m, t)'
        PROVE  Cardinality(Fresh(m, t)') <= Counted(history[m], t)
    <3>1. Tells(m, t)
      BY <1>6, <2>1 DEF Tells
    <3>2. /\ Cardinality(Fresh(m, t)) <= Counted(history[m], t)
          /\ t < at + FloodWindow => Cardinality(Fresh(m, t)) < Counted(history[m], t)
      BY <1>0, <1>2, <1>5, <1>7, <3>1 DEF Covered
    <3> QED
      BY <1>8, <1>9, <1>10, <3>2
  <2> QED
    BY <1>2, <1>6, <2>1 DEF Covered
<1>12. Latest(m)'
  BY <1>6 DEF Latest
<1>13. ASSUME NEW n \in Members \ overlapped', n # m
       PROVE  Covered(n)' /\ Latest(n)'
  BY <1>0, <1>1, <1>2, <1>4, <1>13, OthersCarried
<1>14. Cardinality(Fresh(m, at) \union {q}) <= FloodMax
  <2>1. Tells(m, at) /\ at < at + FloodWindow
    BY <1>0, <1>3, <1>5 DEF Tells
  <2>2. Cardinality(Fresh(m, at)) < Counted(history[m], at)
    BY <1>0, <1>2, <1>3, <1>5, <1>7, <2>1 DEF Covered
  <2>3. Len(history[m]) <= FloodMax
    BY <1>3 DEF TypeOK
  <2> QED
    BY <1>8, <1>9, <2>2, <2>3
<1>15. ASSUME NEW x \in rows', x.live, x.by \notin overlapped'
       PROVE  Cardinality(InWindowOf(x)') <= FloodMax
  <2>1. CASE x.by = m /\ x.at = at
    <3>1. InWindowOf(x)' \subseteq Fresh(m, at) \union {q}
      BY <1>4, <2>1 DEF InWindowOf, Fresh, Stored
    <3>2. IsFiniteSet(Fresh(m, at) \union {q})
      BY <1>9
    <3>3. /\ Cardinality(InWindowOf(x)') <= Cardinality(Fresh(m, at) \union {q})
          /\ IsFiniteSet(InWindowOf(x)')
      BY <3>1, <3>2, FS_Subset
    <3>4. Cardinality(InWindowOf(x)') \in Nat
      BY <3>3, FS_CardinalityType
    <3> QED
      BY <1>9, <1>14, <3>3, <3>4
  <2>2. CASE ~(x.by = m /\ x.at = at)
    <3>1. x \in rows
      BY <1>4, <2>2
    <3>2. x.by = m => x.at \in Nat /\ x.at < at
      <4>1. x.at \in Nat
        BY <3>1 DEF TypeOK
      <4>2. x.by = m => x.at <= at
        BY <1>0, <1>5, <1>7, <1>15, <3>1 DEF Latest, Stored
      <4> QED
        BY <1>3, <2>2, <4>1, <4>2
    <3>3. ~(q.by = x.by /\ q.at <= x.at)
      BY <1>3, <1>4, <3>2
    <3>4. InWindowOf(x)' = InWindowOf(x)
      BY <1>4, <3>3 DEF InWindowOf
    <3> QED
      BY <1>2, <1>7, <1>15, <3>1, <3>4 DEF FloodInTurn
  <2> QED
    BY <2>1, <2>2
<1>16. FloodInTurn'
  BY <1>15 DEF FloodInTurn, InWindowOf
<1> QED
  BY <1>2, <1>11, <1>12, <1>13, <1>16 DEF IFlood

\* A post that begins reads a clock that no message of its member is ahead of.
LEMMA FloodBegin ==
  ASSUME TypeOK, IFlood, NEW h \in Handlers, NEW m \in Members, PostBegin(h, m), now' = now
  PROVE  IFlood'
<1>1. PICK r : r = [pc |-> "check", by |-> m, at |-> now, kept |-> <<>>]
  OBVIOUS
<1>2. /\ \A g \in Handlers : posts'[g] = IF g = h THEN r ELSE posts[g]
      /\ rows' = rows /\ history' = history /\ now \in Nat
  BY <1>1 DEF PostBegin, TypeOK, Stamps, memory
<1>3. r.pc = "check" /\ r.by = m /\ r.at = now
  BY <1>1
<1>4. /\ overlapped \subseteq overlapped'
      /\ m \notin overlapped' => \A g \in Handlers : ~Works(g, m)
  BY DEF PostBegin
<1>5. \A g \in Handlers : g # h => \A n : Works(g, n)' <=> Works(g, n)
  BY <1>2 DEF Works
<1>6. \A n : Works(h, n)' => n = m
  BY <1>2, <1>3 DEF Works
<1>7. ASSUME NEW n \in Members \ overlapped', n # m
      PROVE  Covered(n)' /\ Latest(n)'
  <2>1. \A g \in Handlers : Works(g, n)' =>
          /\ Works(g, n) /\ posts'[g].at = posts[g].at
          /\ posts'[g].pc = "store" => posts[g].pc = "store"
    BY <1>2, <1>5, <1>6, <1>7
  <2>2. Covered(n) /\ Latest(n)
    BY <1>4 DEF IFlood
  <2> QED
    BY <1>2, <2>1, <2>2, MemberCarried
<1>8. ASSUME m \notin overlapped'
      PROVE  Covered(m)' /\ Latest(m)'
  <2>1. \A g \in Handlers : Works(g, m)' => g = h /\ posts'[g].at = now /\ posts'[g].pc = "check"
    BY <1>2, <1>3, <1>4, <1>5, <1>8
  <2>2. Stored(m)' = Stored(m) /\ \A t : Fresh(m, t)' = Fresh(m, t)
    BY <1>2 DEF Stored, Fresh
  <2>3. \A t \in Nat : Tells(m, t)' => Tells(m, t)
    BY <1>2, <2>1 DEF Tells
  <2>4. Covered(m)'
    BY <1>2, <1>4, <1>8, <2>1, <2>2, <2>3 DEF Covered, IFlood
  <2>5. \A q \in Stored(m) : q.at <= now
    BY DEF Stored, TypeOK, Stamps
  <2>6. Latest(m)'
    BY <2>1, <2>2, <2>5 DEF Latest
  <2> QED
    BY <2>4, <2>6
<1>9. FloodInTurn'
  BY <1>2, <1>4 DEF FloodInTurn, InWindowOf, IFlood
<1> QED
  BY <1>7, <1>8, <1>9 DEF IFlood

\* The process forgets the histories and begins a new reckoning.
LEMMA FloodRestart ==
  ASSUME TypeOK, Restart
  PROVE  IFlood'
<1>1. rows' = {[r EXCEPT !.live = FALSE] : r \in rows}
  BY DEF Restart
<1>2. \A r \in rows' : ~r.live
  BY <1>1 DEF TypeOK
<1>3. \A h \in Handlers, m \in Members : ~Works(h, m)'
  <2>1. \A h \in Handlers : posts'[h] = Idle /\ Idle.pc = "idle"
    BY PostKinds DEF Restart, NoPosts
  <2> QED
    BY <2>1 DEF Works, PostSteps
<1>4. \A m \in Members : Stored(m)' = {} /\ \A t : Fresh(m, t)' = {}
  BY <1>2 DEF Stored, Fresh
<1>5. Cardinality({}) = 0
  BY FS_EmptySet
<1>6. ASSUME NEW m \in Members, NEW t
      PROVE  Counted(history'[m], t) = 0
  <2>1. history'[m] = <<>> /\ Len(<<>>) = 0
    BY EmptySeq DEF Restart, NoHistory
  <2>2. InWindow(<<>>, t, 0) = {}
    BY DEF InWindow
  <2> QED
    BY <1>5, <2>1, <2>2 DEF Counted
<1>7. \A m \in Members : Covered(m)' /\ Latest(m)'
  BY <1>3, <1>4, <1>5, <1>6 DEF Covered, Latest
<1>8. FloodInTurn'
  BY <1>2 DEF FloodInTurn, InWindowOf
<1> QED
  BY <1>7, <1>8 DEF IFlood

\* Every step of the room keeps the reckoning.
LEMMA FloodStep ==
  ASSUME IRoom, IFlood, [Next]_vars
  PROVE  IFlood'
<1> USE DEF IRoom
<1>1. now \in Nat /\ now' \in Nat /\ now <= now'
  BY NowStep
<1>2. CASE \E h \in Handlers : PostStep(h)
  <2>1. PICK h \in Handlers : PostStep(h)
    BY <1>2
  <2>2. now' = now
    BY <2>1, NowStep
  <2>3. CASE ~PostCount(h) /\ ~PostStamp(h) /\ ~PostStore(h)
    <3>1. UNCHANGED <<rows, history, overlapped>> /\ posts[h].pc # "stamp"
      BY <2>1, <2>3
      DEF PostStep, PostCheck, PostSift, PostPunish, PostFail, PostAppend, PostTrim, PostSignal,
          memory
    <3>2. PICK r : GoesOn(h, r)
      BY <2>1, PostGoes
    <3> QED
      BY <2>2, <3>1, <3>2, FloodPlain
  <2>4. CASE posts[h].by \in overlapped /\ (PostCount(h) \/ PostStamp(h) \/ PostStore(h))
    <3>1. PICK r : GoesOn(h, r)
      BY <2>1, PostGoes
    <3>2. /\ overlapped' = overlapped
          /\ \A n \in Members : n # posts[h].by => history'[n] = history[n]
          /\ \A q \in rows : q \in rows'
          /\ \A q \in rows' : q.by # posts[h].by => q \in rows
      BY <2>4 DEF PostCount, PostStamp, PostStore, memory, TypeOK
    <3> QED
      BY <2>2, <2>4, <3>1, <3>2, FloodElse
  <2> QED
    BY <2>2, <2>3, <2>4, FloodCount, FloodStamp, FloodStore
<1>3. CASE \E h \in Handlers, m \in Members : PostBegin(h, m)
  <2>1. now' = now
    BY <1>3 DEF PostBegin
  <2> QED
    BY <1>3, <2>1, FloodBegin
<1>4. CASE Restart
  BY <1>4, FloodRestart
<1>5. CASE UNCHANGED ofPosts
  <2>1. UNCHANGED <<rows, history, posts, overlapped>>
    BY <1>5 DEF ofPosts
  <2>2. ASSUME NEW m \in Members \ overlapped'
        PROVE  Covered(m)' /\ Latest(m)'
    <3>1. \A h \in Handlers : Works(h, m)' =>
            /\ Works(h, m) /\ posts'[h].at = posts[h].at
            /\ posts'[h].pc = "store" => posts[h].pc = "store"
      BY <2>1 DEF Works
    <3> QED
      BY <1>1, <2>1, <3>1, MemberCarried DEF IFlood
  <2>3. FloodInTurn'
    BY <1>5, <2>1 DEF FloodInTurn, InWindowOf, IFlood, ofPosts
  <2> QED
    BY <2>2, <2>3 DEF IFlood
<1> QED
  BY <1>2, <1>3, <1>4, <1>5, PostsOrNot

LEMMA FloodAtStart == Init => IFlood
<1> SUFFICES ASSUME Init PROVE IFlood
  OBVIOUS
<1>1. rows = {} /\ \A h \in Handlers : posts[h] = Idle
  BY DEF Init, NoPosts
<1>2. \A h \in Handlers, m \in Members : ~Works(h, m)
  BY <1>1, PostKinds DEF Works, PostSteps
<1>3. \A m \in Members : Stored(m) = {} /\ \A t : Fresh(m, t) = {}
  BY <1>1 DEF Stored, Fresh
<1>4. Cardinality({}) = 0
  BY FS_EmptySet
<1>5. ASSUME NEW m \in Members, NEW t
      PROVE  Counted(history[m], t) = 0
  <2>1. history[m] = <<>> /\ Len(<<>>) = 0
    BY EmptySeq DEF Init, NoHistory
  <2>2. InWindow(<<>>, t, 0) = {}
    BY DEF InWindow
  <2> QED
    BY <1>4, <2>1, <2>2 DEF Counted
<1>6. \A m \in Members : Covered(m) /\ Latest(m)
  BY <1>2, <1>3, <1>4, <1>5 DEF Covered, Latest
<1>7. FloodInTurn
  BY <1>1 DEF FloodInTurn, InWindowOf
<1> QED
  BY <1>6, <1>7 DEF IFlood

\* No member has more messages stored within a window than the limit unless two posts of that
\* member were at work at once since the last restart, however many members post in however
\* many threads, and however long each post waits between its steps.
THEOREM FloodIsLimited == Spec => []FloodInTurn
<1>1. IRoom /\ IFlood /\ [Next]_vars => IFlood'
  BY FloodStep
<1>2. IFlood => FloodInTurn
  BY DEF IFlood
<1> QED
  BY <1>1, <1>2, FloodAtStart, RoomHolds, PTL DEF Spec
=============================================================================
