----------------------------- MODULE MCChatRoom -----------------------------
(* The chatroom with the members, tabs and threads of a configuration,     *)
(* bounded in one of two ways.                                             *)
EXTENDS ChatRoom, TLC

First == CHOOSE h \in Handlers : TRUE

\* Streams and presence, with one thread for posts and as many broadcasts as the buffer holds.
OneThread ==
  /\ now <= 1 /\ said + Cardinality(Busy) <= BufferMax
  /\ Busy \subseteq {First} /\ overlapped = {}

\* All threads, broadcasts and ticks, while no stream is open.
NoTabs == streams = NoStreams /\ pings = {}

\* What leads out of the union is a browser opening a stream, a member posting or the clock
\* going on.  None of these is fair, so no behaviour that Delivered speaks of is cut short.
Bounds == OneThread \/ NoTabs
=============================================================================
