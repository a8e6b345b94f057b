------------------------------ MODULE ChatRoom ------------------------------
(***************************************************************************)
(* The chatroom of src/app/routes/chat.py: posts handled by threads of the *)
(* worker pool, one server-sent-event stream per open tab on the event     *)
(* loop, and the dictionaries, the buffer and the asyncio.Event they share *)
(* without a lock.                                                         *)
(*                                                                         *)
(* A step of a post ends where CPython 3.12 may hand the interpreter to    *)
(* another thread (a call, or a jump back in a loop); a step of a stream   *)
(* ends where its generator is suspended (a yield, or the wait).  A        *)
(* message is the number of its broadcast: what it says is left out.       *)
(***************************************************************************)
EXTENDS Naturals, FiniteSets, Sequences

CONSTANTS
  Members,        \* the accounts that use the room
  Readers,        \* who opens streams: members, and anybody else
  Tabs,           \* the connections browsers may hold open at once
  Handlers,       \* the worker threads that run posts
  BufferMax,      \* _BUFFER_MAX
  FloodMax,       \* _FLOOD_MAX
  FloodWindow,    \* _FLOOD_WINDOW
  FloodTimeout,   \* _FLOOD_TIMEOUT
  MaxTime,        \* bound of the clock
  MaxBroadcast,   \* bound of the broadcasts
  MaxPings        \* bound of the presence updates under way

ASSUME ChatAssumption ==
  /\ BufferMax \in Nat \ {0} /\ FloodMax \in Nat \ {0}
  /\ FloodWindow \in Nat \ {0} /\ FloodTimeout \in Nat \ {0}
  /\ IsFiniteSet(Handlers)
  /\ MaxTime \in Nat /\ MaxBroadcast \in Nat /\ MaxPings \in Nat

VARIABLES
  now,        \* time.monotonic()
  rows,       \* chat_messages
  buffer,     \* _chat_buffer, as the numbers of its broadcasts
  said,       \* the number of the last broadcast
  event,      \* the flag of _chat_event
  history,    \* _post_history
  timedOut,   \* _timed_out_until, 0 where there is no entry
  presence,   \* the keys of _presence; which of them are idle is left out
  posts,      \* per thread, the chat_post it runs
  pings,      \* the members with a presence update whose body is awaited
  streams,    \* per tab, the generator of its stream
  overlapped  \* history, not in the program: the members two of whose posts were at once
              \* between reading the clock and storing, since the last restart

memory == <<buffer, said, event, history, timedOut, presence>>
vars == <<now, rows, memory, posts, pings, streams, overlapped>>

Stamps == 0 .. MaxTime
Sending == {"append", "trim", "signal"}
PostSteps == {"check", "sift", "count", "stamp", "punish", "store"} \union Sending
Idle == [pc |-> "idle"]
Early == [pc : PostSteps \ Sending, by : Members, at : 0 .. now, kept : Seq(0 .. now)]
Late == [pc : Sending, by : Members]

Running == {"hello", "message", "presence", "wait"}
Closed == [phase |-> "closed"]
Stream == [phase : Running, by : Readers, seen : Nat, woken : BOOLEAN, owed : SUBSET Nat]
Leaving == [phase : {"dropped"}, by : Readers]
Open(s) == streams[s].phase \notin {"closed", "dropped"}
Waiting(s) == streams[s].phase = "wait"

\* the buffer passes its bound by one message per thread before it is cut
BufferFull == BufferMax + Cardinality(Handlers)

TypeOK ==
  /\ now \in Stamps
  /\ rows \subseteq [id : 1 .. MaxBroadcast, by : Members, at : 0 .. now, live : BOOLEAN]
  /\ said \in 0 .. MaxBroadcast
  /\ buffer \in Seq(Nat) /\ Len(buffer) <= BufferFull
  /\ \A i \in DOMAIN buffer : buffer[i] \in 1 .. said
  /\ event \in BOOLEAN
  /\ history \in [Members -> Seq(0 .. now)]
  /\ \A m \in Members \ overlapped : Len(history[m]) <= FloodMax
  /\ timedOut \in [Members -> 0 .. MaxTime + FloodTimeout]
  /\ presence \subseteq Members
  /\ posts \in [Handlers -> {Idle} \union Early \union Late]
  /\ overlapped \subseteq Members
  /\ pings \subseteq Members /\ Cardinality(pings) <= MaxPings
  /\ streams \in [Tabs -> {Closed} \union Stream \union Leaving]
  /\ \A s \in Tabs : Open(s) => streams[s].seen <= BufferFull /\ streams[s].owed \subseteq 1 .. said

NoPosts == [h \in Handlers |-> Idle]
NoStreams == [s \in Tabs |-> Closed]
NoHistory == [m \in Members |-> <<>>]
NoTimeouts == [m \in Members |-> 0]

Init ==
  /\ now = 0 /\ rows = {} /\ said = 0
  /\ buffer = <<>> /\ event = FALSE
  /\ history = NoHistory /\ timedOut = NoTimeouts /\ presence = {}
  /\ posts = NoPosts /\ pings = {} /\ streams = NoStreams /\ overlapped = {}

-----------------------------------------------------------------------------
(* POST /chat, in a thread of the worker pool.                             *)

Busy == {h \in Handlers : posts[h] # Idle}
\* a post of the member that has read the clock and is not stored yet, nor refused
Works(h, m) == posts[h].pc \in PostSteps \ Sending /\ posts[h].by = m

\* current_user, then the clock is read; the rest of the request works with that reading
PostBegin(h, m) ==
  /\ posts[h] = Idle
  /\ said + Cardinality(Busy) < MaxBroadcast
  /\ Cardinality(rows) + Cardinality(Busy) < MaxBroadcast
  /\ posts' = [posts EXCEPT ![h] = [pc |-> "check", by |-> m, at |-> now, kept |-> <<>>]]
  /\ overlapped' = IF \E g \in Handlers : Works(g, m) THEN overlapped \union {m}
                                                       ELSE overlapped
  /\ UNCHANGED <<now, rows, memory, pings, streams>>

Go(h, pc) ==
  posts' = [posts EXCEPT ![h] = IF pc \in Sending THEN [pc |-> pc, by |-> @.by]
                                         ELSE [@ EXCEPT !.pc = pc]]

\* an entry of the member in _presence is marked active; a member who is timed out is refused
TimedOut(m, t) == t < timedOut[m]
PostCheck(h) ==
  /\ posts[h].pc = "check"
  /\ Go(h, IF TimedOut(posts[h].by, posts[h].at) THEN "append" ELSE "sift")
  /\ UNCHANGED <<now, rows, memory, pings, streams, overlapped>>

\* the posts of the window are listed, and only then put in the place of the history
Recent(stamps, t) ==
  LET kept[n \in 0 .. Len(stamps)] ==
        IF n = 0 THEN <<>>
        ELSE IF t < stamps[n] + FloodWindow THEN Append(kept[n - 1], stamps[n])
        ELSE kept[n - 1]
  IN  kept[Len(stamps)]
PostSift(h) ==
  /\ posts[h].pc = "sift"
  /\ posts' = [posts EXCEPT ![h].pc = "count",
                            ![h].kept = Recent(history[posts[h].by], posts[h].at)]
  /\ UNCHANGED <<now, rows, memory, pings, streams, overlapped>>

\* Mutant: the limit is compared with > instead of >=.
FloodingLate(stamps) == Len(stamps) > FloodMax
Flooding(stamps) == Len(stamps) >= FloodMax
PostCount(h) ==
  /\ posts[h].pc = "count"
  /\ history' = [history EXCEPT ![posts[h].by] = posts[h].kept]
  /\ posts' = [posts EXCEPT ![h].pc = IF Flooding(posts[h].kept) THEN "punish" ELSE "stamp",
                            ![h].kept = <<>>]
  /\ UNCHANGED <<now, rows, buffer, said, event, timedOut, presence, pings, streams, overlapped>>

PostPunish(h) ==
  /\ posts[h].pc = "punish"
  /\ timedOut' = [timedOut EXCEPT ![posts[h].by] = posts[h].at + FloodTimeout]
  /\ Go(h, "append")
  /\ UNCHANGED <<now, rows, buffer, said, event, history, presence, pings, streams, overlapped>>

PostStamp(h) ==
  /\ posts[h].pc = "stamp"
  /\ history' = [history EXCEPT ![posts[h].by] = Append(@, posts[h].at)]
  /\ Go(h, "store")
  /\ UNCHANGED <<now, rows, buffer, said, event, timedOut, presence, pings, streams, overlapped>>

\* the transaction of the INSERT: it commits, or the request ends with its exception
PostStore(h) ==
  /\ posts[h].pc = "store"
  /\ rows' = rows \union {[id |-> Cardinality(rows) + 1, by |-> posts[h].by,
                           at |-> posts[h].at, live |-> TRUE]}
  /\ Go(h, "append")
  /\ UNCHANGED <<now, memory, pings, streams, overlapped>>

PostFail(h) ==
  /\ posts[h].pc = "store"
  /\ posts' = [posts EXCEPT ![h] = Idle]
  /\ UNCHANGED <<now, rows, memory, pings, streams, overlapped>>

\* a broadcast, of the message or of a system message: append, trim, set the event
PostAppend(h) ==
  /\ posts[h].pc = "append"
  /\ said' = said + 1
  /\ buffer' = Append(buffer, said')
  /\ streams' = [s \in Tabs |-> IF Open(s) THEN [streams[s] EXCEPT !.owed = @ \union {said'}]
                                           ELSE streams[s]]
  /\ Go(h, "trim")
  /\ UNCHANGED <<now, rows, event, history, timedOut, presence, pings, overlapped>>

Trimmed(b) == IF Len(b) > BufferMax THEN SubSeq(b, Len(b) - BufferMax + 1, Len(b)) ELSE b
PostTrim(h) ==
  /\ posts[h].pc = "trim"
  /\ buffer' = Trimmed(buffer)
  /\ Go(h, "signal")
  /\ UNCHANGED <<now, rows, said, event, history, timedOut, presence, pings, streams, overlapped>>

\* Event.set from a foreign thread: a flag already set wakes nobody; otherwise the waiters
\* are walked while the loop may change them, which ends the walk with an exception
PostSignal(h) ==
  /\ posts[h].pc = "signal"
  /\ event' = TRUE
  /\ \E W \in SUBSET {s \in Tabs : Waiting(s)} :
       /\ event => W = {}
       /\ streams' = [s \in Tabs |-> IF s \in W THEN [streams[s] EXCEPT !.woken = TRUE]
                                                ELSE streams[s]]
  /\ posts' = [posts EXCEPT ![h] = Idle]
  /\ UNCHANGED <<now, rows, buffer, said, history, timedOut, presence, pings, overlapped>>

PostStep(h) ==
  \/ PostCheck(h) \/ PostSift(h) \/ PostCount(h) \/ PostPunish(h) \/ PostStamp(h)
  \/ PostStore(h) \/ PostFail(h) \/ PostAppend(h) \/ PostTrim(h) \/ PostSignal(h)

-----------------------------------------------------------------------------
(* GET /chat/stream, a generator on the event loop.                        *)

TabOpen(s, u) ==
  /\ streams[s] = Closed
  /\ presence' = presence \union ({u} \intersect Members)
  /\ streams' = [streams EXCEPT ![s] =
       [phase |-> "hello", by |-> u, seen |-> Len(buffer), woken |-> FALSE, owed |-> {}]]
  /\ UNCHANGED <<now, rows, buffer, said, event, history, timedOut, posts, pings, overlapped>>

\* with seen messages behind it: yield the next, or a due presence line, or wait;
\* flag is the event as the stream finds it
Look(s, seen, flag) ==
  \/ /\ Len(buffer) > seen
     /\ streams' = [streams EXCEPT ![s] =
          [@ EXCEPT !.phase = "message", !.seen = seen, !.woken = FALSE,
                    !.owed = streams[s].owed \ {buffer[seen + 1]}]]
  \/ /\ Len(buffer) <= seen
     /\ \E phase \in {"presence", "wait"} :
          streams' = [streams EXCEPT ![s] =
            [@ EXCEPT !.phase = phase, !.seen = seen, !.woken = phase = "wait" /\ flag]]

TabTop(s) ==
  /\ event' = FALSE
  /\ Look(s, streams[s].seen, FALSE)
  /\ UNCHANGED <<now, rows, buffer, said, history, timedOut, presence, posts, pings, overlapped>>

TabStart(s) == streams[s].phase = "hello" /\ TabTop(s)

TabNext(s) ==
  /\ streams[s].phase = "message"
  /\ Look(s, streams[s].seen + 1, event)
  /\ UNCHANGED <<now, rows, memory, posts, pings, overlapped>>

TabWait(s) ==
  /\ streams[s].phase = "presence"
  /\ streams' = [streams EXCEPT ![s].phase = "wait", ![s].woken = event]
  /\ UNCHANGED <<now, rows, memory, posts, pings, overlapped>>

TabWake(s) == Waiting(s) /\ streams[s].woken /\ TabTop(s)
TabTimeout(s) == Waiting(s) /\ ~streams[s].woken /\ TabTop(s)

TabStep(s) == TabStart(s) \/ TabNext(s) \/ TabWait(s) \/ TabWake(s) \/ TabTimeout(s)

\* the browser goes away; the generator is closed when the server comes to it
TabDrop(s) ==
  /\ Open(s)
  /\ streams' = [streams EXCEPT ![s] = [phase |-> "dropped", by |-> @.by]]
  /\ UNCHANGED <<now, rows, memory, posts, pings, overlapped>>

TabFinally(s) ==
  /\ streams[s].phase = "dropped"
  /\ presence' = presence \ {streams[s].by}
  /\ streams' = [streams EXCEPT ![s] = Closed]
  /\ UNCHANGED <<now, rows, buffer, said, event, history, timedOut, posts, pings, overlapped>>

-----------------------------------------------------------------------------
(* POST /chat/presence, on the event loop.                                 *)

PingBegin(m) ==
  /\ m \in presence
  /\ Cardinality(pings) < MaxPings
  /\ pings' = pings \union {m}
  /\ UNCHANGED <<now, rows, memory, posts, streams, overlapped>>

\* Mutant: the update writes the entry it found before the await.
PingedAsFound(m) == presence \union {m}
\* the entry is read again after the await: it changes its mark, or its absence is a
\* KeyError and nothing is written
Pinged(m) == presence
PingEnd(m) ==
  /\ m \in pings
  /\ pings' = pings \ {m}
  /\ presence' = Pinged(m)
  /\ UNCHANGED <<now, rows, buffer, said, event, history, timedOut, posts, streams, overlapped>>

-----------------------------------------------------------------------------
Tick ==
  /\ now < MaxTime
  /\ now' = now + 1
  /\ UNCHANGED <<rows, memory, posts, pings, streams, overlapped>>

\* the process stops and starts again: only the database is kept
Restart ==
  /\ buffer' = <<>> /\ event' = FALSE
  /\ history' = NoHistory /\ timedOut' = NoTimeouts /\ presence' = {}
  /\ posts' = NoPosts /\ pings' = {} /\ streams' = NoStreams /\ overlapped' = {}
  /\ rows' = {[r EXCEPT !.live = FALSE] : r \in rows}
  /\ UNCHANGED <<now, said>>

Next ==
  \/ \E h \in Handlers : PostStep(h) \/ \E m \in Members : PostBegin(h, m)
  \/ \E s \in Tabs : \/ TabStep(s) \/ TabDrop(s) \/ TabFinally(s)
                     \/ \E u \in Readers : TabOpen(s, u)
  \/ \E m \in Members : PingBegin(m) \/ PingEnd(m)
  \/ Tick
  \/ Restart

\* the event loop resumes every generator, its wait ends after ten seconds at the latest
\* and the client takes what is sent to it; the pool runs every post to its end
Fairness ==
  /\ \A s \in Tabs : WF_vars(TabStep(s))
  /\ \A h \in Handlers : WF_vars(PostStep(h))

Spec == Init /\ [][Next]_vars
FairSpec == Spec /\ Fairness

-----------------------------------------------------------------------------
(* Properties                                                              *)

\* "SSE endpoint that pushes new chat messages and presence updates" (chat.py:104): a
\* message broadcast while a stream is open reaches that stream, unless its browser goes
\* away first, whichever wake-ups other streams and threads have lost for it.
Delivered ==
  \A s \in Tabs, k \in 1 .. MaxBroadcast :
    (Open(s) /\ k \in streams[s].owed) ~> (~Open(s) \/ k \notin streams[s].owed)

\* the messages a member has stored, since the last restart, in the window that ends with r
InWindowOf(r) ==
  {q \in rows : q.by = r.by /\ q.live /\ q.at <= r.at /\ r.at < q.at + FloodWindow}

\* "max messages in window" (chat.py:22): between two restarts no member, unless two of its
\* own posts were at work at once, has more than FloodMax messages stored in any FloodWindow
\* of the clock, in however many threads it and others post and however long each request
\* waits between reading the clock, sifting, counting and storing (chat.py:169-198).  The
\* exception is the code's: nothing keeps two posts of one member apart, and both may sift
\* and count the history before either has added its stamp.
FloodInTurn ==
  \A r \in rows :
    r.live /\ r.by \notin overlapped => Cardinality(InWindowOf(r)) <= FloodMax

\* An entry of _presence stands for a connection: nobody is shown in the room who has no
\* stream, although posts and presence updates write entries too, the latter after an
\* await during which the last stream of the member may have closed (chat.py:154-157).
PresentMeansConnected ==
  \A m \in presence : \E s \in Tabs : streams[s] # Closed /\ streams[s].by = m

=============================================================================
