----------------------------- MODULE ForumProofs -----------------------------
(***************************************************************************)
(* Theorems of Forum, for any members, handlers and bounds.                *)
(*                                                                         *)
(* The types hold what keys and cascades promise: ids are unique, and      *)
(* posts and watches belong to threads and accounts that exist.  A reply   *)
(* keeps the writer from its INSERT to its commit, so the tables it saw    *)
(* when it listed the watchers are those it adds its post to; from this it *)
(* follows whom it told.  The counts need the posts to be finitely many.   *)
(***************************************************************************)
EXTENDS Forum, FiniteSetTheorems, WellFoundedInduction, TLAPS

Thread == [id : 1 .. MaxThreads, author : users, flags : SUBSET Flags, count : Int,
           off : BOOLEAN]
Post == [id : 1 .. MaxPosts, thread : ThreadIds, author : users, opens : BOOLEAN]

\* the tables, as TypeOK has them
IRows ==
  /\ users \subseteq Members
  /\ threads \subseteq Thread /\ \A t, s \in threads : t.id = s.id => t = s
  /\ posts \subseteq Post /\ \A p, q \in posts : p.id = q.id => p = q
  /\ watchers \subseteq users \X ThreadIds

\* what a handler holds between its steps, and what one does that keeps the writer
Telling == [pc : {"tell", "commit"}, by : Members, thread : Nat, quote : Nat, post : Nat,
            list : SUBSET Members, todo : SUBSET Members, told : [Members -> Nat]]
Request ==
  {Idle} \union [pc : {"reply"}, by : Members, thread : Nat, quote : Nat]
         \union Telling
         \union [pc : {"delete"}, post : Nat, thread : Nat]
         \union [pc : {"drop"}, thread : Nat]
         \union [pc : {"toggle"}, thread : Nat, flag : Flags, on : BOOLEAN]
         \union [pc : {"watch"}, by : Members, thread : Nat, on : BOOLEAN]
IReq == req \in [Handlers -> Request]

\* One handler at most keeps the writer, and its thread, its author, the id it was given and
\* the watchers it listed are what the tables still say.
IHold ==
  /\ \A h, g \in Handlers : Writing(h) /\ Writing(g) => h = g
  /\ \A h \in Handlers : Writing(h) =>
       /\ req[h].thread \in ThreadIds /\ req[h].by \in users
       /\ req[h].post = NewId(posts) /\ NewId(posts) <= MaxPosts
       /\ req[h].list = Watching(req[h].thread)

\* whom r has told when those of todo are left, and when nothing is
ToldSoFar(r) ==
  /\ r.todo \subseteq r.list \ {r.by}
  /\ \A w \in Members : r.told[w] = IF w \in (r.list \ {r.by}) \ r.todo THEN 1 ELSE 0
ToldAll(r) ==
  \A w \in Members :
    r.told[w] = IF w \in (r.list \union AuthorOf(r.quote)) \ {r.by} THEN 1 ELSE 0
ITold ==
  \A h \in Handlers : /\ (req[h].pc = "tell" => ToldSoFar(req[h]))
                      /\ (req[h].pc = "commit" => ToldAll(req[h]))

-----------------------------------------------------------------------------
(* The id of a new row                                                     *)

\* A bounded set of numbers with 0 in it has a highest one.
LEMMA BoundedHasMax ==
  ASSUME NEW S \in SUBSET Nat, 0 \in S, NEW n \in Nat, \A x \in S : x <= n
  PROVE  Max(S) \in S /\ \A x \in S : x <= Max(S)
<1> DEFINE Above == {k \in Nat : \A x \in S : x <= k}
<1>1. PICK m \in Above : \A k \in Above : <<k, m>> \notin OpToRel(<, Nat)
  <2>1. Above \subseteq Nat /\ Above # {}
    OBVIOUS
  <2> QED
    BY <2>1, NatLessThanWellFounded, WFMin, Zenon
<1>2. \A k \in Above : ~(k < m)
  BY <1>1 DEF OpToRel
<1>3. m \in S
  <2>1. SUFFICES ASSUME m \notin S
                 PROVE  FALSE
    OBVIOUS
  <2>2. m - 1 \in Above
    BY <2>1
  <2> QED
    BY <1>2, <2>2
<1>4. \A y \in S : m >= y
  OBVIOUS
<1>5. Max(S) \in S /\ \A y \in S : Max(S) >= y
  BY <1>3, <1>4, Zenon DEF Max
<1> QED
  BY <1>5

\* No row has the id that the next row gets.
LEMMA NewIdIsNew ==
  ASSUME NEW R, NEW n \in Nat, \A r \in R : r.id \in 1 .. n
  PROVE  NewId(R) \in Nat \ {0} /\ \A r \in R : r.id # NewId(R)
<1> DEFINE S == {0} \union {r.id : r \in R}
<1>1. S \in SUBSET Nat /\ 0 \in S /\ \A x \in S : x <= n
  OBVIOUS
<1>2. \A r \in R : r.id \in S
  OBVIOUS
<1> HIDE DEF S
<1>3. Max(S) \in S /\ \A x \in S : x <= Max(S)
  BY <1>1, BoundedHasMax
<1>4. Max(S) \in Nat /\ \A r \in R : r.id \in Nat /\ r.id <= Max(S)
  BY <1>1, <1>2, <1>3
<1>5. NewId(R) = 1 + Max(S)
  BY DEF NewId, S
<1>6. \A m \in Nat : 1 + m \in Nat \ {0} /\ \A k \in Nat : k <= m => k # 1 + m
  OBVIOUS
<1> QED
  BY <1>4, <1>5, <1>6

-----------------------------------------------------------------------------
(* Types                                                                   *)

\* What a reply holds once its row is in: nobody is told yet.
Held(h) ==
  [pc |-> "tell", by |-> req[h].by, thread |-> req[h].thread, quote |-> req[h].quote,
   post |-> NewId(posts), list |-> Watching(req[h].thread),
   todo |-> Watching(req[h].thread) \ {req[h].by}, told |-> [w \in Members |-> 0]]

LEMMA InsertHeld ==
  ASSUME IRows, IReq, NEW h \in Handlers, ReplyInsert(h)
  PROVE  \/ Done(h)
         \/ /\ req' = [req EXCEPT ![h] = Held(h)]
            /\ Held(h) \in Request
            /\ req[h].thread \in ThreadIds /\ req[h].by \in users /\ NewId(posts) <= MaxPosts
<1>1. SUFFICES ASSUME req[h].thread \in ThreadIds, req[h].by \in users
               PROVE  /\ req' = [req EXCEPT ![h] = Held(h)] /\ NewId(posts) <= MaxPosts
                      /\ Held(h) \in Request
  BY DEF ReplyInsert
<1>2. req' = [req EXCEPT ![h] = Held(h)] /\ NewId(posts) <= MaxPosts
  BY <1>1 DEF ReplyInsert, Held
<1>3. req[h] \in [pc : {"reply"}, by : Members, thread : Nat, quote : Nat]
  BY DEF ReplyInsert, IReq, Request, Telling, Idle
<1>4. \A i : Watching(i) \subseteq Members
  BY DEF Watching, IRows
<1>5. NewId(posts) \in Nat
  <2>1. \A q \in posts : q.id \in 1 .. MaxPosts
    BY DEF IRows, Post
  <2> QED
    BY <2>1, NewIdIsNew, ForumAssumption
<1>6. Held(h) \in Request
  BY <1>3, <1>4, <1>5 DEF Held, Request, Telling
<1> QED
  BY <1>2, <1>6

LEMMA WriterHolds ==
  ASSUME IReq, NEW h \in Handlers, Writing(h)
  PROVE  req[h] \in Telling
BY DEF IReq, Request, Telling, Writing, Idle

LEMMA TellHeld ==
  ASSUME IReq, NEW h \in Handlers, ReplyTell(h)
  PROVE  \E w \in req[h].todo, r \in Request :
            /\ req' = [req EXCEPT ![h] = r]
            /\ r = [req[h] EXCEPT !.todo = @ \ {w}, !.told[w] = @ + 1]
<1>1. PICK w \in req[h].todo :
        req' = [req EXCEPT ![h].todo = @ \ {w}, ![h].told[w] = @ + 1]
  BY DEF ReplyTell
<1> DEFINE s == req[h]
           told == [s.told EXCEPT ![w] = @ + 1]
           r == [s EXCEPT !.todo = @ \ {w}, !.told = told]
<1>2. s \in Telling
  BY WriterHolds DEF ReplyTell, Writing
<1>3. r = [req[h] EXCEPT !.todo = @ \ {w}, !.told[w] = @ + 1]
  BY <1>2 DEF Telling
<1>4. req' = [req EXCEPT ![h] = r]
  BY <1>1, <1>3 DEF IReq
<1>5. s.todo \ {w} \in SUBSET Members /\ told \in [Members -> Nat]
  BY <1>1, <1>2 DEF Telling
<1> HIDE DEF s, told
<1>6. r \in Request
  BY <1>2, <1>5 DEF Request, Telling
<1> QED
  BY <1>3, <1>4, <1>6

LEMMA QuoteHeld ==
  ASSUME IReq, NEW h \in Handlers, ReplyQuote(h)
  PROVE  \E r \in Request :
            /\ req' = [req EXCEPT ![h] = r]
            /\ r = [req[h] EXCEPT !.pc = "commit",
                      !.told = [w \in Members |->
                                  req[h].told[w] + IF w \in Quoted(req[h]) THEN 1 ELSE 0]]
<1> DEFINE told == [w \in Members |-> req[h].told[w] + IF w \in Quoted(req[h]) THEN 1 ELSE 0]
           r == [req[h] EXCEPT !.pc = "commit", !.told = told]
<1>1. req' = [req EXCEPT ![h].pc = "commit", ![h].told = told]
  BY DEF ReplyQuote
<1>2. req[h] \in Telling
  BY WriterHolds DEF ReplyQuote, Writing
<1>3. told \in [Members -> Nat]
  BY <1>2 DEF Telling
<1> HIDE DEF told
<1>4. r \in Request
  BY <1>2, <1>3 DEF Request, Telling
<1>5. req' = [req EXCEPT ![h] = r]
  BY <1>1 DEF IReq
<1> QED
  BY <1>4, <1>5 DEF told

\* A handler begins with ids of rows it just read.
LEMMA ReqStep ==
  ASSUME IRows, IReq, [Next]_vars
  PROVE  IReq'
<1>1. ASSUME NEW h \in Handlers, NEW r \in Request, req' = [req EXCEPT ![h] = r]
      PROVE  IReq'
  BY <1>1 DEF IReq
<1>2. Idle \in Request
  BY DEF Request
<1>3. ASSUME NEW h \in Handlers, NEW m \in Members, NEW p \in posts, DeleteRead(h, m, p)
      PROVE  IReq'
  <2>1. p.id \in Nat /\ p.thread \in Nat
    BY DEF IRows, Post, ThreadIds, Thread
  <2>2. [pc |-> "delete", post |-> p.id, thread |-> p.thread] \in Request
    BY <2>1 DEF Request
  <2> QED
    BY <1>1, <1>3, <2>2 DEF DeleteRead, Start
<1>4. ASSUME NEW h \in Handlers, NEW m \in Members, NEW t \in threads,
             \/ DropRead(h, m, t) \/ WatchRead(h, m, t)
             \/ \E q \in Quotes : ReplyRead(h, m, t, q)
             \/ \E f \in Flags : ToggleRead(h, m, t, f)
      PROVE  IReq'
  <2>1. t.id \in Nat
    BY DEF IRows, Thread
  <2>2. /\ \A q \in Quotes : [pc |-> "reply", by |-> m, thread |-> t.id, quote |-> q] \in Request
        /\ [pc |-> "drop", thread |-> t.id] \in Request
        /\ [pc |-> "watch", by |-> m, thread |-> t.id, on |-> <<m, t.id>> \notin watchers]
             \in Request
    BY <2>1, ForumAssumption DEF Request
  <2>3. \A f \in Flags :
          [pc |-> "toggle", thread |-> t.id, flag |-> f, on |-> f \notin t.flags] \in Request
    BY <2>1 DEF Request
  <2> QED
    BY <1>1, <1>4, <2>2, <2>3 DEF ReplyRead, DropRead, WatchRead, ToggleRead, Start
<1>5. ASSUME NEW h \in Handlers,
             \/ ReplyCommit(h) \/ DeleteWrite(h) \/ DropWrite(h) \/ ToggleWrite(h)
             \/ WatchWrite(h) \/ Locked(h)
      PROVE  IReq'
  BY <1>1, <1>2, <1>5 DEF ReplyCommit, DeleteWrite, DropWrite, ToggleWrite, WatchWrite, Locked,
     Done
<1>6. CASE Restart
  BY <1>2, <1>6 DEF Restart, IReq
<1>7. CASE UNCHANGED req
  BY <1>7 DEF IReq
<1>8. ASSUME NEW h \in Handlers, ReplyInsert(h)
      PROVE  IReq'
  BY <1>1, <1>2, <1>8, InsertHeld DEF ReplyInsert, Done
<1>9. ASSUME NEW h \in Handlers, ReplyTell(h) \/ ReplyQuote(h)
      PROVE  IReq'
  BY <1>1, <1>9, TellHeld, QuoteHeld
<1> QED
  BY <1>3, <1>4, <1>5, <1>6, <1>7, <1>8, <1>9 DEF Next, vars, NewThread, DeleteUser

\* The tables and what the handlers hold are all that TypeOK speaks of.
LEMMA TypesMeet ==
  ASSUME IReq, IRows
  PROVE  TypeOK
<1>1. \A h \in Handlers :
        req[h] = Idle \/ req[h].pc \in Waiting \union {"tell", "commit"}
  BY DEF IReq, Request, Telling, Waiting
<1> QED
  BY <1>1 DEF IRows, TypeOK, Thread, Post

\* A transaction that rewrites threads in place and leaves their ids and authors alone.
LEMMA Rewritten ==
  ASSUME IRows, NEW f, \A t \in threads : f[t] \in Thread /\ f[t].id = t.id,
         threads' = {f[t] : t \in threads}, users' = users
  PROVE  /\ threads' \subseteq Thread'
         /\ \A t, s \in threads' : t.id = s.id => t = s
         /\ ThreadIds' = ThreadIds
<1>1. Thread' = Thread
  BY DEF Thread
<1>2. \A t, s \in threads' : t.id = s.id => t = s
  <2>1. SUFFICES ASSUME NEW t \in threads', NEW s \in threads', t.id = s.id
                 PROVE  t = s
    OBVIOUS
  <2>2. PICK x \in threads, y \in threads : t = f[x] /\ s = f[y]
    OBVIOUS
  <2>3. x.id = y.id
    BY <2>1, <2>2
  <2> QED
    BY <2>2, <2>3 DEF IRows
<1>3. ThreadIds' = ThreadIds
  BY DEF ThreadIds
<1> QED
  BY <1>1, <1>2, <1>3


\* A thread keeps all but its count, and its mark, when the count changes.
LEMMA Recounted ==
  ASSUME IRows, NEW t \in threads, NEW n \in Int
  PROVE  /\ Counted(t, n) \in Thread /\ Spoiled(t) \in Thread
         /\ Counted(t, n).id = t.id /\ Spoiled(t).id = t.id
         /\ Counted(t, n).author = t.author /\ Spoiled(t).author = t.author
         /\ Counted(t, n).off = t.off /\ (~t.off => Counted(t, n).count = n)
<1>1. t \in Thread
  BY DEF IRows
<1>2. Counted(t, n) = [id |-> t.id, author |-> t.author, flags |-> t.flags,
                       count |-> IF t.off THEN 0 ELSE n, off |-> t.off]
  BY <1>1 DEF Counted, Thread
<1>3. Spoiled(t) \in Thread
  <2> DEFINE u == [t EXCEPT !.off = TRUE]
  <2>1. u \in Thread
    BY <1>1 DEF Thread
  <2>2. Spoiled(t) = [u EXCEPT !.count = 0]
    BY DEF Spoiled
  <2> HIDE DEF u
  <2>3. [u EXCEPT !.count = 0] \in Thread
    BY <2>1 DEF Thread
  <2> QED
    BY <2>2, <2>3
<1>4. Spoiled(t).id = t.id /\ Spoiled(t).author = t.author
  BY <1>1 DEF Spoiled, Thread
<1> QED
  BY <1>1, <1>2, <1>3, <1>4 DEF Thread

\* A new post belongs to a thread and an account that exist.
LEMMA PostAdded ==
  ASSUME IRows, NEW i \in ThreadIds, NEW m \in users, NewId(posts) <= MaxPosts,
         NEW p, p = [id |-> NewId(posts), thread |-> i, author |-> m, opens |-> FALSE]
  PROVE  /\ posts \union {p} \subseteq Post
         /\ \A q, r \in posts \union {p} : q.id = r.id => q = r
         /\ p \notin posts
<1>1. \A q \in posts : q.id \in 1 .. MaxPosts
  BY DEF IRows, Post
<1>2. NewId(posts) \in Nat \ {0} /\ \A q \in posts : q.id # NewId(posts)
  BY <1>1, NewIdIsNew, ForumAssumption
<1>3. NewId(posts) \in 1 .. MaxPosts
  BY <1>2, ForumAssumption
<1>4. p \in Post /\ p.id = NewId(posts)
  BY <1>3 DEF Post
<1> QED
  BY <1>2, <1>4 DEF IRows

LEMMA NewThreadRows ==
  ASSUME IRows, NEW m \in Members, NewThread(m)
  PROVE  IRows'
<1> DEFINE t == [id |-> NewId(threads), author |-> m, flags |-> {}, count |-> 0, off |-> FALSE]
           p == [id |-> NewId(posts), thread |-> NewId(threads), author |-> m, opens |-> TRUE]
<1>1. /\ m \in users /\ users' = users
      /\ threads' = threads \union {t} /\ NewId(threads) <= MaxThreads
      /\ posts' = posts \union {p} /\ NewId(posts) <= MaxPosts
      /\ watchers' = watchers \union {<<m, NewId(threads)>>}
  BY DEF NewThread
<1>2. /\ \A s \in threads : s.id \in 1 .. MaxThreads
      /\ \A q \in posts : q.id \in 1 .. MaxPosts
  BY DEF IRows, Thread, Post
<1>3. /\ NewId(threads) \in Nat \ {0} /\ \A s \in threads : s.id # NewId(threads)
      /\ NewId(posts) \in Nat \ {0} /\ \A q \in posts : q.id # NewId(posts)
  BY <1>2, NewIdIsNew, ForumAssumption
<1>4. NewId(threads) \in 1 .. MaxThreads /\ NewId(posts) \in 1 .. MaxPosts
  BY <1>1, <1>3, ForumAssumption
<1>5. t \in Thread /\ Thread' = Thread
  BY <1>1, <1>4 DEF Thread
<1>6. ThreadIds' = ThreadIds \union {NewId(threads)}
  <2>1. t.id = NewId(threads)
    OBVIOUS
  <2> HIDE DEF t
  <2> QED
    BY <1>1, <2>1 DEF ThreadIds
<1>7. Post \subseteq Post' /\ p \in Post'
  BY <1>1, <1>4, <1>6 DEF Post
<1>8. t.id = NewId(threads) /\ p.id = NewId(posts)
  OBVIOUS
<1> HIDE DEF t, p
<1>9. /\ threads' \subseteq Thread' /\ \A s, r \in threads' : s.id = r.id => s = r
      /\ posts' \subseteq Post' /\ \A s, r \in posts' : s.id = r.id => s = r
  BY <1>1, <1>3, <1>5, <1>7, <1>8 DEF IRows
<1>10. watchers' \subseteq users' \X ThreadIds'
  BY <1>1, <1>6 DEF IRows
<1> QED
  BY <1>1, <1>9, <1>10 DEF IRows

\* What a commit writes, in terms of the tables.
LEMMA Commits ==
  ASSUME IHold, NEW h \in Handlers, ReplyCommit(h)
  PROVE  /\ req[h].thread \in ThreadIds /\ req[h].by \in users /\ NewId(posts) <= MaxPosts
         /\ users' = users /\ watchers' = watchers
         /\ posts' = posts \union {[id |-> NewId(posts), thread |-> req[h].thread,
                                   author |-> req[h].by, opens |-> FALSE]}
         /\ threads' = {IF t.id = req[h].thread THEN Counted(t, t.count + 1) ELSE t :
                        t \in threads}
<1>1. Writing(h)
  BY DEF ReplyCommit, Writing
<1> QED
  BY <1>1 DEF ReplyCommit, IHold

LEMMA ReplyRows ==
  ASSUME IRows, IHold, NEW h \in Handlers, ReplyCommit(h)
  PROVE  IRows'
<1> DEFINE i == req[h].thread
           p == [id |-> NewId(posts), thread |-> i, author |-> req[h].by, opens |-> FALSE]
           f == [t \in threads |-> IF t.id = i THEN Counted(t, t.count + 1) ELSE t]
<1>1. /\ users' = users /\ watchers' = watchers
      /\ i \in ThreadIds /\ req[h].by \in users /\ NewId(posts) <= MaxPosts
      /\ posts' = posts \union {p}
      /\ threads' = {f[t] : t \in threads}
  BY Commits
<1>2. \A t \in threads : f[t] \in Thread /\ f[t].id = t.id
  <2>1. \A t \in threads : t.count + 1 \in Int /\ t \in Thread
    BY DEF IRows, Thread
  <2> QED
    BY <2>1, Recounted
<1>3. /\ threads' \subseteq Thread' /\ \A t, s \in threads' : t.id = s.id => t = s
      /\ ThreadIds' = ThreadIds
  <2> HIDE DEF f
  <2> QED
    BY <1>1, <1>2, Rewritten
<1>4. posts' \subseteq Post /\ \A q, r \in posts' : q.id = r.id => q = r
  <2> DEFINE m == req[h].by
  <2>1. p = [id |-> NewId(posts), thread |-> i, author |-> m, opens |-> FALSE]
    OBVIOUS
  <2>2. i \in ThreadIds /\ m \in users /\ NewId(posts) <= MaxPosts /\ posts' = posts \union {p}
    BY <1>1
  <2> HIDE DEF f, p, i, m
  <2>3. posts \union {p} \subseteq Post
    BY <2>1, <2>2, PostAdded, ZenonT(30)
  <2>4. \A q, r \in posts \union {p} : q.id = r.id => q = r
    BY <2>1, <2>2, PostAdded, ZenonT(30)
  <2> QED
    BY <2>2, <2>3, <2>4
<1>5. Post' = Post
  BY <1>1, <1>3 DEF Post
<1> QED
  BY <1>1, <1>3, <1>4, <1>5 DEF IRows

\* A step that rewrites threads and takes posts and watches away.
LEMMA FewerRows ==
  ASSUME IRows, NEW f, \A t \in threads : f[t] \in Thread /\ f[t].id = t.id,
         threads' = {f[t] : t \in threads}, users' = users,
         posts' \subseteq posts, watchers' \subseteq users \X ThreadIds
  PROVE  IRows'
<1>1. /\ threads' \subseteq Thread' /\ \A t, s \in threads' : t.id = s.id => t = s
      /\ ThreadIds' = ThreadIds
  BY Rewritten
<1>2. Post' = Post
  BY <1>1 DEF Post
<1> QED
  BY <1>1, <1>2 DEF IRows

LEMMA DeleteRows ==
  ASSUME IRows, NEW h \in Handlers, DeleteWrite(h)
  PROVE  IRows'
<1> DEFINE gone == {p \in posts : p.id = req[h].post}
           torn == {req[h].thread} \union {p.thread : p \in gone}
           f == [t \in threads |->
                   IF t.id \notin torn THEN t
                   ELSE IF gone # {} /\ torn = {req[h].thread}
                   THEN Counted(t, LessOne(t.count)) ELSE Spoiled(t)]
<1>1. /\ users' = users /\ watchers' = watchers /\ posts' = posts \ gone
      /\ threads' = {f[t] : t \in threads}
  BY DEF DeleteWrite
<1>2. \A t \in threads : f[t] \in Thread /\ f[t].id = t.id
  <2> HIDE DEF gone, torn
  <2>1. \A t \in threads : LessOne(t.count) \in Int /\ t \in Thread
    BY DEF IRows, Thread, LessOne
  <2> QED
    BY <2>1, Recounted
<1>3. watchers \subseteq users \X ThreadIds
  BY DEF IRows
<1> HIDE DEF f, gone
<1> QED
  BY <1>1, <1>2, <1>3, FewerRows

LEMMA ToggleRows ==
  ASSUME IRows, IReq, NEW h \in Handlers, ToggleWrite(h)
  PROVE  IRows'
<1> DEFINE f == [t \in threads |->
                   IF t.id # req[h].thread THEN t
                   ELSE [t EXCEPT !.flags = IF req[h].on THEN t.flags \union {req[h].flag}
                                            ELSE t.flags \ {req[h].flag}]]
<1>1. /\ users' = users /\ watchers' = watchers /\ posts' = posts
      /\ threads' = {f[t] : t \in threads}
  BY DEF ToggleWrite
<1>2. req[h].flag \in Flags
  BY DEF ToggleWrite, IReq, Request, Telling, Idle
<1>3. \A t \in threads : f[t] \in Thread /\ f[t].id = t.id
  BY <1>2 DEF Thread, IRows
<1>4. watchers \subseteq users \X ThreadIds
  BY DEF IRows
<1> HIDE DEF f
<1> QED
  BY <1>1, <1>3, <1>4, FewerRows

\* A thread goes with its posts and watches.
LEMMA DropRows ==
  ASSUME IRows, NEW h \in Handlers, DropWrite(h)
  PROVE  IRows'
<1>1. ThreadIds' = ThreadIds \ {req[h].thread}
  BY DEF DropWrite, ThreadIds
<1>2. \A w \in watchers' : w \in users \X ThreadIds /\ w[2] # req[h].thread
  BY DEF DropWrite, IRows
<1>3. watchers' \subseteq users' \X ThreadIds'
  BY <1>1, <1>2 DEF DropWrite
<1>4. Thread' = Thread
  BY DEF DropWrite, Thread
<1>5. posts' \subseteq Post'
  BY <1>1 DEF DropWrite, IRows, Post, PostsWithout
<1> QED
  BY <1>3, <1>4, <1>5 DEF DropWrite, IRows, PostsWithout

LEMMA WatchRows ==
  ASSUME IRows, NEW h \in Handlers, WatchWrite(h)
  PROVE  IRows'
<1>1. watchers' \subseteq users \X ThreadIds
  BY DEF WatchWrite, IRows
<1> QED
  BY <1>1 DEF WatchWrite, IRows, Thread, Post, ThreadIds

\* An account goes with its threads, the posts in them, its posts elsewhere and its watches.
LEMMA DeleteUserRows ==
  ASSUME IRows, NEW m \in Members, DeleteUser(m)
  PROVE  IRows'
<1> DEFINE own == {t.id : t \in {s \in threads : s.author = m}}
           hit == {p.thread : p \in {q \in posts : q.author = m}}
           f == [t \in threads |-> IF t.id \in hit THEN Spoiled(t) ELSE t]
           left == {s \in threads : s.author # m}
<1>1. /\ users' = users \ {m}
      /\ threads' = {f[t] : t \in left}
      /\ posts' = {p \in PostsWithout(own) : p.author # m}
      /\ watchers' = {w \in watchers : w[1] # m /\ w[2] \notin own}
  BY DEF DeleteUser
<1>2. \A t \in left : f[t].id = t.id /\ f[t] \in Thread'
  <2> HIDE DEF hit
  <2>1. \A t \in left : f[t].id = t.id /\ f[t].author = t.author /\ f[t] \in Thread
    <3>1. \A t \in threads : Spoiled(t).id = t.id /\ Spoiled(t).author = t.author
                            /\ Spoiled(t) \in Thread /\ t \in Thread
      <4>1. 0 \in Int
        OBVIOUS
      <4> QED
        BY <4>1, Recounted DEF IRows
    <3> QED
      BY <3>1
  <2>2. \A t \in left : f[t].author \in users \ {m}
    BY <2>1 DEF Thread, IRows
  <2>3. \A r \in Thread : r.author \in users' => r \in Thread'
    BY DEF Thread
  <2> QED
    BY <1>1, <2>1, <2>2, <2>3
<1>3. threads' \subseteq Thread' /\ \A t, s \in threads' : t.id = s.id => t = s
  <2>1. threads' \subseteq Thread'
    <3> HIDE DEF f, left
    <3> QED
      BY <1>1, <1>2
  <2>2. \A t, s \in left : t.id = s.id => t = s
    BY DEF IRows
  <2>3. ASSUME NEW t \in threads', NEW s \in threads', t.id = s.id
        PROVE  t = s
    <3> HIDE DEF f, left
    <3>1. PICK x \in left, y \in left : t = f[x] /\ s = f[y]
      BY <1>1
    <3> QED
      BY <1>2, <2>2, <2>3, <3>1
  <2> QED
    BY <2>1, <2>3
<1>4. ThreadIds' = {t.id : t \in left}
  <2> HIDE DEF f, left
  <2> QED
    BY <1>1, <1>2 DEF ThreadIds
<1>5. ThreadIds \ own \subseteq ThreadIds'
  BY <1>4 DEF ThreadIds
<1> HIDE DEF own, f
<1>6. posts' \subseteq Post' /\ \A p, q \in posts' : p.id = q.id => p = q
  BY <1>1, <1>5 DEF PostsWithout, IRows, Post
<1>7. watchers' \subseteq users' \X ThreadIds'
  <2>1. \A w \in watchers' : w \in users \X ThreadIds /\ w[1] # m /\ w[2] \notin own
    BY <1>1 DEF IRows
  <2> QED
    BY <1>1, <1>5, <2>1
<1> QED
  BY <1>1, <1>3, <1>6, <1>7 DEF IRows

-----------------------------------------------------------------------------
(* The reply that keeps the writer                                         *)

Tables == <<users, threads, posts, watchers>>

\* The steps that change a table.
LEMMA TablesChange ==
  ASSUME [Next]_vars
  PROVE  \/ UNCHANGED Tables
         \/ \E h \in Handlers : \/ ReplyCommit(h) \/ DeleteWrite(h) \/ DropWrite(h)
                                \/ ToggleWrite(h) \/ WatchWrite(h)
         \/ \E m \in Members : NewThread(m) \/ DeleteUser(m)
<1>1. ASSUME NEW h \in Handlers,
             \/ ReplyInsert(h) \/ ReplyTell(h) \/ ReplyQuote(h) \/ Locked(h)
      PROVE  UNCHANGED Tables
  BY <1>1 DEF ReplyInsert, ReplyTell, ReplyQuote, Locked, Tables
<1>2. ASSUME NEW h \in Handlers, NEW m \in Members, NEW p \in posts, DeleteRead(h, m, p)
      PROVE  UNCHANGED Tables
  BY <1>2 DEF DeleteRead, Tables
<1>3. ASSUME NEW h \in Handlers, NEW m \in Members, NEW t \in threads,
             \/ DropRead(h, m, t) \/ WatchRead(h, m, t)
             \/ \E q \in Quotes : ReplyRead(h, m, t, q)
             \/ \E f \in Flags : ToggleRead(h, m, t, f)
      PROVE  UNCHANGED Tables
  BY <1>3 DEF DropRead, WatchRead, ReplyRead, ToggleRead, Tables
<1>4. CASE Restart \/ UNCHANGED vars
  BY <1>4 DEF Restart, vars, Tables
<1> QED
  BY <1>1, <1>2, <1>3, <1>4 DEF Next

LEMMA RowsStep ==
  ASSUME IRows, IReq, IHold, [Next]_vars
  PROVE  IRows'
<1>1. CASE UNCHANGED Tables
  BY <1>1 DEF Tables, IRows, Thread, Post, ThreadIds
<1> QED
  BY <1>1, NewThreadRows, ReplyRows, DeleteRows, ToggleRows, DropRows, WatchRows, DeleteUserRows,
     TablesChange

\* Nobody keeps the writer after a step that changed a table.
LEMMA WriterGone ==
  ASSUME IReq, IHold, [Next]_vars
  PROVE  UNCHANGED Tables \/ \A g \in Handlers : ~Writing(g)'
<1>1. ASSUME Free, UNCHANGED req
      PROVE  \A g \in Handlers : ~Writing(g)'
  BY <1>1 DEF Free, Writing
<1>2. ASSUME NEW h \in Handlers, Done(h), \A g \in Handlers \ {h} : ~Writing(g)
      PROVE  \A g \in Handlers : ~Writing(g)'
  BY <1>2 DEF Done, Writing, Idle, IReq
<1>3. ASSUME NEW h \in Handlers, DeleteWrite(h) \/ DropWrite(h) \/ ToggleWrite(h) \/ WatchWrite(h)
      PROVE  \A g \in Handlers : ~Writing(g)'
  BY <1>2, <1>3 DEF DeleteWrite, DropWrite, ToggleWrite, WatchWrite, Free
<1>4. ASSUME NEW h \in Handlers, ReplyCommit(h)
      PROVE  \A g \in Handlers : ~Writing(g)'
  <2>1. Writing(h) /\ Done(h)
    BY <1>4 DEF ReplyCommit, Writing
  <2> QED
    BY <1>2, <2>1 DEF IHold
<1>5. ASSUME NEW m \in Members, NewThread(m) \/ DeleteUser(m)
      PROVE  \A g \in Handlers : ~Writing(g)'
  BY <1>1, <1>5 DEF NewThread, DeleteUser
<1> QED
  BY <1>3, <1>4, <1>5, TablesChange

\* What a step that changes no table may do to a handler.
LEMMA HandlerStep ==
  ASSUME IRows, IReq, [Next]_vars, UNCHANGED Tables, NEW g \in Handlers, Writing(g)'
  PROVE  \/ req'[g] = req[g]
         \/ ReplyInsert(g) /\ req'[g] = Held(g)
         \/ ReplyTell(g) \/ ReplyQuote(g)
<1>1. ASSUME NEW h \in Handlers, NEW r, req' = [req EXCEPT ![h] = r],
             r.pc \notin {"tell", "commit"}
      PROVE  req'[g] = req[g]
  BY <1>1 DEF IReq, Writing
<1>2. ASSUME NEW h \in Handlers, Done(h)
      PROVE  req'[g] = req[g]
  BY <1>1, <1>2 DEF Done, Idle
<1>3. ASSUME NEW h \in Handlers, NEW m \in Members, NEW p \in posts, DeleteRead(h, m, p)
      PROVE  req'[g] = req[g]
  BY <1>1, <1>3 DEF DeleteRead, Start
<1>4. ASSUME NEW h \in Handlers, NEW m \in Members, NEW t \in threads,
             \/ DropRead(h, m, t) \/ WatchRead(h, m, t)
             \/ \E q \in Quotes : ReplyRead(h, m, t, q)
             \/ \E f \in Flags : ToggleRead(h, m, t, f)
      PROVE  req'[g] = req[g]
  <2>1. CASE DropRead(h, m, t)
    BY <1>1, <2>1 DEF DropRead, Start
  <2>2. CASE WatchRead(h, m, t)
    BY <1>1, <2>2 DEF WatchRead, Start
  <2>3. CASE \E q \in Quotes : ReplyRead(h, m, t, q)
    BY <1>1, <2>3 DEF ReplyRead, Start
  <2>4. CASE \E f \in Flags : ToggleRead(h, m, t, f)
    BY <1>1, <2>4 DEF ToggleRead, Start
  <2> QED
    BY <1>4, <2>1, <2>2, <2>3, <2>4
<1>5. ASSUME NEW h \in Handlers,
             \/ ReplyCommit(h) \/ DeleteWrite(h) \/ DropWrite(h) \/ ToggleWrite(h)
             \/ WatchWrite(h) \/ Locked(h)
      PROVE  req'[g] = req[g]
  BY <1>2, <1>5 DEF ReplyCommit, DeleteWrite, DropWrite, ToggleWrite, WatchWrite, Locked
<1>6. ASSUME NEW h \in Handlers, ReplyInsert(h)
      PROVE  req'[g] = req[g] \/ (ReplyInsert(g) /\ req'[g] = Held(g))
  <2>1. CASE Done(h)
    <3>1. req'[g] = req[g]
      BY <1>2, <2>1
    <3> QED
      BY <3>1
  <2>2. CASE req' = [req EXCEPT ![h] = Held(h)]
    <3>1. CASE h = g
      BY <1>6, <2>2, <3>1 DEF IReq
    <3>2. CASE h # g
      <4>1. req'[g] = req[g]
        BY <2>2, <3>2 DEF IReq
      <4> QED
        BY <4>1
    <3> QED
      BY <3>1, <3>2
  <2> QED
    BY <1>6, <2>1, <2>2, InsertHeld
<1>7. ASSUME NEW h \in Handlers, ReplyTell(h) \/ ReplyQuote(h)
      PROVE  req'[g] = req[g] \/ ReplyTell(g) \/ ReplyQuote(g)
  <2>1. CASE h = g
    BY <1>7, <2>1
  <2>2. CASE h # g
    <3>1. PICK r : req' = [req EXCEPT ![h] = r]
      BY <1>7, TellHeld, QuoteHeld
    <3>2. req'[g] = req[g]
      BY <2>2, <3>1 DEF IReq
    <3> QED
      BY <3>2
  <2> QED
    BY <2>1, <2>2
<1>8. CASE Restart
  BY <1>8 DEF Restart, Writing, Idle
<1>9. CASE UNCHANGED req
  BY <1>9
<1> QED
  BY <1>3, <1>4, <1>5, <1>6, <1>7, <1>8, <1>9 DEF Next, vars, NewThread, DeleteUser

\* Telling changes neither whose reply it is nor what it listed.
LEMMA TellKeeps ==
  ASSUME IReq, NEW h \in Handlers, ReplyTell(h) \/ ReplyQuote(h)
  PROVE  /\ Writing(h)
         /\ req'[h].by = req[h].by /\ req'[h].thread = req[h].thread
         /\ req'[h].post = req[h].post /\ req'[h].list = req[h].list
         /\ req'[h].quote = req[h].quote
<1>1. CASE ReplyTell(h)
  <2>1. PICK w \in req[h].todo :
          req'[h] = [req[h] EXCEPT !.todo = @ \ {w}, !.told[w] = @ + 1]
    BY <1>1, TellHeld DEF IReq
  <2>2. Writing(h) /\ req[h] \in Telling
    BY <1>1, WriterHolds DEF ReplyTell, Writing
  <2> QED
    BY <2>1, <2>2 DEF Telling
<1>2. CASE ReplyQuote(h)
  <2>1. PICK told :
          req'[h] = [req[h] EXCEPT !.pc = "commit", !.told = told]
    BY <1>2, QuoteHeld DEF IReq
  <2>2. Writing(h) /\ req[h] \in Telling
    BY <1>2, WriterHolds DEF ReplyQuote, Writing
  <2> QED
    BY <2>1, <2>2 DEF Telling
<1> QED
  BY <1>1, <1>2

LEMMA HoldStep ==
  ASSUME IRows, IReq, IHold, [Next]_vars
  PROVE  IHold'
<1>1. CASE \A g \in Handlers : ~Writing(g)'
  BY <1>1 DEF IHold
<1>2. CASE UNCHANGED Tables
  <2> DEFINE Right(r) == /\ r.thread \in ThreadIds /\ r.by \in users
                         /\ r.post = NewId(posts) /\ NewId(posts) <= MaxPosts
                         /\ r.list = Watching(r.thread)
  <2>1. ASSUME NEW g \in Handlers, Writing(g)'
        PROVE  /\ Writing(g) \/ Free
               /\ Right(req'[g])
    <3>1. CASE req'[g] = req[g]
      BY <2>1, <3>1 DEF Writing, IHold
    <3>2. CASE ReplyInsert(g) /\ req'[g] = Held(g)
      <4>1. ~Done(g)
        BY <2>1 DEF Done, Writing, Idle, IReq
      <4>2. req[g].thread \in ThreadIds /\ req[g].by \in users /\ NewId(posts) <= MaxPosts
        BY <3>2, <4>1, InsertHeld
      <4>3. Free
        BY <3>2 DEF ReplyInsert
      <4> QED
        BY <3>2, <4>2, <4>3 DEF Held
    <3>3. CASE ReplyTell(g) \/ ReplyQuote(g)
      BY <3>3, TellKeeps DEF IHold
    <3> QED
      BY <1>2, <2>1, <3>1, <3>2, <3>3, HandlerStep
  <2>2. \A h, g \in Handlers : Writing(h)' /\ Writing(g)' => h = g
    <3>1. SUFFICES ASSUME NEW h \in Handlers, NEW g \in Handlers, Writing(h)', Writing(g)', h # g
                   PROVE  FALSE
      OBVIOUS
    <3>2. ~(Writing(h) /\ Writing(g))
      BY <3>1 DEF IHold
    <3>3. PICK k \in {h, g} : ~Writing(k)
      BY <3>2
    <3>4. Free /\ ReplyInsert(k) /\ req'[k] = Held(k)
      <4>1. ReplyInsert(k) /\ req'[k] = Held(k)
        <5>1. req'[k] # req[k]
          BY <3>1, <3>3 DEF Writing
        <5>2. ~ReplyTell(k) /\ ~ReplyQuote(k)
          BY <3>3 DEF ReplyTell, ReplyQuote, Writing
        <5> QED
          BY <1>2, <3>1, <5>1, <5>2, HandlerStep
      <4> QED
        BY <4>1 DEF ReplyInsert
    <3>5. req' = [req EXCEPT ![k] = Held(k)] \/ Done(k)
      BY <3>4, InsertHeld
    <3>6. PICK j \in {h, g} : j # k
      BY <3>1
    <3>7. req'[j] = req[j]
      BY <3>5, <3>6 DEF IReq, Done
    <3> QED
      BY <3>1, <3>4, <3>7 DEF Free, Writing
  <2>3. ThreadIds' = ThreadIds /\ NewId(posts)' = NewId(posts) /\ users' = users
        /\ \A i : Watching(i)' = Watching(i)
    BY <1>2 DEF Tables, ThreadIds, NewId, Watching
  <2>4. ASSUME NEW g \in Handlers, Writing(g)'
        PROVE  /\ req'[g].thread \in ThreadIds' /\ req'[g].by \in users'
               /\ req'[g].post = NewId(posts)' /\ NewId(posts)' <= MaxPosts
               /\ req'[g].list = Watching(req[g].thread)'
    BY <2>1, <2>3, <2>4
  <2> QED
    BY <2>2, <2>4 DEF IHold
<1> QED
  BY <1>1, <1>2, WriterGone

LEMMA InitHolds ==
  ASSUME Init
  PROVE  IRows /\ IReq /\ IHold
BY DEF Init, IRows, IReq, Request, IHold, Writing, Idle

\* At any moment the ids of threads and of posts are unique, posts and watches belong to
\* threads and accounts that exist, and handlers hold ids of rows there once were.
THEOREM TypeCorrect == Spec => []TypeOK
<1>1. Init => IRows /\ IReq /\ IHold
  BY InitHolds
<1>2. IRows /\ IReq /\ IHold /\ [Next]_vars => (IRows /\ IReq /\ IHold)'
  BY RowsStep, ReqStep, HoldStep
<1>3. IRows /\ IReq => TypeOK
  BY TypesMeet
<1> QED
  BY <1>1, <1>2, <1>3, PTL DEF Spec

-----------------------------------------------------------------------------
(* The counts                                                              *)

\* the posts of thread i after the step
PostsThen(i) == {p \in posts' : p.thread = i}

\* the count of r is k, unless r is marked
Fits(r, k) == ~r.off => r.count = k

\* The count is one less than the posts, whichever they are: delete_post_safe takes the opening
\* post from it like a reply.
ICount == \A t \in threads : Fits(t, Cardinality(PostsOf(t.id)) - 1)

\* A thread has one opening post at most.
IOpen == \A p, q \in posts : p.opens /\ q.opens /\ p.thread = q.thread => p = q

\* What a reply, a deletion and a mark do to the count.
LEMMA StillFits ==
  ASSUME IRows, NEW t \in threads, NEW k \in Int, Fits(t, k)
  PROVE  /\ Fits(Counted(t, t.count + 1), k + 1)
         /\ Fits(Counted(t, LessOne(t.count)), k - 1)
         /\ \A n : Fits(Spoiled(t), n)
<1>1. t \in Thread
  BY DEF IRows
<1>2. ASSUME NEW n \in Int, t.count = k => n = k + 1
      PROVE  Fits(Counted(t, n), k + 1)
  BY <1>2, Recounted DEF Fits
<1>3. ASSUME NEW n \in Int, t.count = k => n = k - 1
      PROVE  Fits(Counted(t, n), k - 1)
  BY <1>3, Recounted DEF Fits
<1>4. Spoiled(t).off
  BY <1>1 DEF Spoiled, Thread
<1>5. \A n : Fits(Spoiled(t), n)
  BY <1>4 DEF Fits
<1>6. t.count + 1 \in Int /\ LessOne(t.count) \in Int
  BY <1>1 DEF Thread, LessOne
<1>7. Fits(Counted(t, t.count + 1), k + 1)
  BY <1>2, <1>6
<1>8. Fits(Counted(t, LessOne(t.count)), k - 1)
  BY <1>3, <1>6 DEF LessOne
<1> QED
  BY <1>5, <1>7, <1>8

LEMMA PostsCounted ==
  ASSUME IsFiniteSet(posts), NEW i
  PROVE  /\ IsFiniteSet(PostsOf(i)) /\ Cardinality(PostsOf(i)) \in Nat
         /\ Cardinality(PostsOf(i)) - 1 \in Int
<1>1. PostsOf(i) \subseteq posts
  BY DEF PostsOf
<1>2. IsFiniteSet(PostsOf(i))
  BY <1>1, FS_Subset
<1> QED
  BY <1>2, FS_CardinalityType

\* What one post more, and one less, means for the count that fits.
LEMMA OneMore ==
  ASSUME IsFiniteSet(posts), NEW i, NEW p, p \notin PostsOf(i),
         PostsThen(i) = PostsOf(i) \union {p},
         NEW r, Fits(r, (Cardinality(PostsOf(i)) - 1) + 1)
  PROVE  Fits(r, Cardinality(PostsThen(i)) - 1)
<1>1. Cardinality(PostsOf(i) \union {p}) = Cardinality(PostsOf(i)) + 1
  BY PostsCounted, FS_AddElement
<1>2. Cardinality(PostsThen(i)) - 1 = (Cardinality(PostsOf(i)) - 1) + 1
  BY <1>1, PostsCounted
<1> QED
  BY <1>2

LEMMA OneLess ==
  ASSUME IsFiniteSet(posts), NEW i, NEW p \in PostsOf(i),
         PostsThen(i) = PostsOf(i) \ {p},
         NEW r, Fits(r, (Cardinality(PostsOf(i)) - 1) - 1)
  PROVE  Fits(r, Cardinality(PostsThen(i)) - 1)
<1>1. Cardinality(PostsOf(i) \ {p}) = Cardinality(PostsOf(i)) - 1
  BY PostsCounted, FS_RemoveElement
<1>2. Cardinality(PostsThen(i)) - 1 = (Cardinality(PostsOf(i)) - 1) - 1
  BY <1>1
<1> QED
  BY <1>2

\* A thread whose posts and count a step leaves alone.
LEMMA SameCount ==
  ASSUME ICount, NEW t \in threads, PostsThen(t.id) = PostsOf(t.id)
  PROVE  Fits(t, Cardinality(PostsThen(t.id)) - 1)
BY DEF ICount

\* The counts agree after a step if they do for every thread that is there then.
LEMMA CountsFrom ==
  ASSUME NEW S, NEW f, threads' = {f[t] : t \in S},
         \A t \in S : /\ f[t].id = t.id
                      /\ Fits(f[t], Cardinality(PostsThen(t.id)) - 1)
  PROVE  ICount'
<1>1. ASSUME NEW r \in threads'
      PROVE  Fits(r, Cardinality(PostsThen(r.id)) - 1)
  <2>1. PICK t \in S : r = f[t]
    OBVIOUS
  <2>2. r.id = t.id
    BY <2>1
  <2> QED
    BY <2>1, <2>2
<1> QED
  BY <1>1 DEF ICount, PostsOf, PostsThen, Fits

LEMMA NewThreadCounts ==
  ASSUME IRows, ICount, NEW m \in Members, NewThread(m)
  PROVE  ICount'
<1> DEFINE i == NewId(threads)
           t == [id |-> i, author |-> m, flags |-> {}, count |-> 0, off |-> FALSE]
           p == [id |-> NewId(posts), thread |-> i, author |-> m, opens |-> TRUE]
<1>1. threads' = threads \union {t} /\ posts' = posts \union {p}
  BY DEF NewThread
<1>2. /\ t.id = i /\ t.count = 0 /\ p.thread = i
  OBVIOUS
<1>3. \A s \in threads : s.id # i
  <2>1. \A s \in threads : s.id \in 1 .. MaxThreads
    BY DEF IRows, Thread
  <2> QED
    BY <2>1, NewIdIsNew, ForumAssumption
<1>4. \A q \in posts : q.thread # i
  BY <1>3 DEF IRows, Post, ThreadIds
<1> HIDE DEF t, p, i
<1>5. PostsThen(i) = {p}
  BY <1>1, <1>2, <1>4 DEF PostsThen
<1>6. Fits(t, Cardinality(PostsThen(t.id)) - 1)
  <2>1. Cardinality(PostsThen(t.id)) = 1
    BY <1>2, <1>5, FS_Singleton
  <2> QED
    BY <1>2, <2>1 DEF Fits
<1>7. ASSUME NEW s \in threads
      PROVE  Fits(s, Cardinality(PostsThen(s.id)) - 1)
  <2>1. PostsThen(s.id) = PostsOf(s.id)
    BY <1>1, <1>2, <1>3 DEF PostsThen, PostsOf
  <2> QED
    BY <2>1, SameCount
<1>8. \A r \in threads' : Fits(r, Cardinality(PostsThen(r.id)) - 1)
  BY <1>1, <1>6, <1>7
<1> QED
  BY <1>8 DEF ICount, PostsOf, PostsThen, Fits

\* A reply adds one to both.
LEMMA ReplyCounts ==
  ASSUME IRows, IHold, IsFiniteSet(posts), ICount, NEW h \in Handlers, ReplyCommit(h)
  PROVE  ICount'
<1> DEFINE i == req[h].thread
           p == [id |-> NewId(posts), thread |-> i, author |-> req[h].by, opens |-> FALSE]
           f == [t \in threads |-> IF t.id = i THEN Counted(t, t.count + 1) ELSE t]
<1>1. /\ i \in ThreadIds /\ req[h].by \in users /\ NewId(posts) <= MaxPosts
      /\ posts' = posts \union {p}
      /\ threads' = {f[t] : t \in threads}
  BY Commits
<1>2. p \notin posts /\ p.thread = i
  <2>1. p = [id |-> NewId(posts), thread |-> i, author |-> req[h].by, opens |-> FALSE]
    OBVIOUS
  <2>2. p.thread = i
    OBVIOUS
  <2> HIDE DEF p, i, f
  <2> QED
    BY <1>1, <2>1, <2>2, PostAdded
<1> HIDE DEF p
<1>3. ASSUME NEW t \in threads
      PROVE  /\ f[t].id = t.id
             /\ Fits(f[t], Cardinality(PostsThen(t.id)) - 1)
  <2>1. CASE t.id = i
    <3>1. f[t] = Counted(t, t.count + 1) /\ t.count + 1 \in Int
      BY <2>1 DEF IRows, Thread
    <3> HIDE DEF f
    <3>2. f[t].id = t.id
      BY <3>1, Recounted
    <3>3. PostsThen(t.id) = PostsOf(t.id) \union {p}
      BY <1>1, <1>2, <2>1 DEF PostsThen, PostsOf
    <3>4. IsFiniteSet(PostsOf(t.id)) /\ p \notin PostsOf(t.id)
      BY <1>2, PostsCounted DEF PostsOf
    <3> DEFINE k == Cardinality(PostsOf(t.id)) - 1
    <3>5. k \in Int /\ Fits(t, k)
      BY PostsCounted DEF ICount
    <3> HIDE DEF k
    <3>6. Fits(f[t], k + 1)
      BY <3>1, <3>5, StillFits
    <3>7. Fits(f[t], (Cardinality(PostsOf(t.id)) - 1) + 1)
      BY <3>6 DEF k
    <3> QED
      BY <3>2, <3>3, <3>4, <3>7, OneMore
  <2>2. CASE t.id # i
    <3>1. PostsThen(t.id) = PostsOf(t.id)
      BY <1>1, <1>2, <2>2 DEF PostsThen, PostsOf
    <3> QED
      BY <2>2, <3>1, SameCount
  <2> QED
    BY <2>1, <2>2
<1> HIDE DEF f
<1> QED
  BY <1>1, <1>3, CountsFrom

\* A deletion takes one from both, or marks the thread.
LEMMA DeleteCounts ==
  ASSUME IRows, IsFiniteSet(posts), ICount, NEW h \in Handlers, DeleteWrite(h)
  PROVE  ICount'
<1> DEFINE i == req[h].thread
           gone == {p \in posts : p.id = req[h].post}
           torn == {i} \union {p.thread : p \in gone}
           f == [t \in threads |->
                   IF t.id \notin torn THEN t
                   ELSE IF gone # {} /\ torn = {i}
                   THEN Counted(t, LessOne(t.count)) ELSE Spoiled(t)]
<1>1. posts' = posts \ gone /\ threads' = {f[t] : t \in threads}
  BY DEF DeleteWrite
<1>2. ASSUME NEW t \in threads
      PROVE  /\ f[t].id = t.id
             /\ Fits(f[t], Cardinality(PostsThen(t.id)) - 1)
  <2> DEFINE k == Cardinality(PostsOf(t.id)) - 1
  <2>1. k \in Int /\ IsFiniteSet(PostsOf(t.id))
    BY PostsCounted
  <2>2. Fits(t, k) /\ LessOne(t.count) \in Int
    BY <2>1 DEF ICount, IRows, Thread, LessOne
  <2>3. CASE t.id \notin torn
    <3>1. PostsThen(t.id) = PostsOf(t.id)
      BY <1>1, <2>3 DEF PostsThen, PostsOf
    <3> QED
      BY <2>3, <3>1, SameCount
  <2>4. CASE t.id \in torn /\ gone # {} /\ torn = {i}
    <3>1. PICK g \in posts : gone = {g}
      BY <2>4 DEF IRows
    <3>2. g.thread = t.id
      BY <2>4, <3>1
    <3>3. f[t] = Counted(t, LessOne(t.count))
      BY <2>4
    <3> HIDE DEF f, gone, torn, k
    <3>4. f[t].id = t.id /\ Fits(f[t], k - 1)
      BY <2>1, <2>2, <3>3, Recounted, StillFits
    <3>5. PostsThen(t.id) = PostsOf(t.id) \ {g}
      BY <1>1, <3>1 DEF PostsThen, PostsOf
    <3>6. g \in PostsOf(t.id)
      BY <3>2 DEF PostsOf
    <3>7. Fits(f[t], (Cardinality(PostsOf(t.id)) - 1) - 1)
      BY <3>4 DEF k
    <3> QED
      BY <3>4, <3>5, <3>6, <3>7, OneLess
  <2>5. CASE t.id \in torn /\ ~(gone # {} /\ torn = {i})
    <3>1. f[t] = Spoiled(t)
      BY <2>5
    <3> HIDE DEF f, k
    <3>2. f[t].id = t.id /\ \A n : Fits(f[t], n)
      BY <2>1, <2>2, <3>1, Recounted, StillFits
    <3> QED
      BY <3>2
  <2> QED
    BY <2>3, <2>4, <2>5
<1> HIDE DEF f
<1> QED
  BY <1>1, <1>2, CountsFrom

\* A thread that stays keeps its posts when another goes, or its posts have lost their author.
LEMMA DropCounts ==
  ASSUME ICount, NEW h \in Handlers, DropWrite(h)
  PROVE  ICount'
<1>1. ASSUME NEW t \in threads'
      PROVE  Fits(t, Cardinality(PostsThen(t.id)) - 1)
  <2>1. t \in threads /\ t.id # req[h].thread
    BY DEF DropWrite
  <2>2. PostsThen(t.id) = PostsOf(t.id)
    BY <2>1 DEF DropWrite, PostsWithout, PostsThen, PostsOf
  <2> QED
    BY <2>1, <2>2, SameCount
<1> QED
  BY <1>1 DEF ICount, PostsOf, PostsThen, Fits

LEMMA DeleteUserCounts ==
  ASSUME IRows, IsFiniteSet(posts), ICount, NEW m \in Members, DeleteUser(m)
  PROVE  ICount'
<1> DEFINE own == {t.id : t \in {s \in threads : s.author = m}}
           hit == {p.thread : p \in {q \in posts : q.author = m}}
           f == [t \in threads |-> IF t.id \in hit THEN Spoiled(t) ELSE t]
           left == {s \in threads : s.author # m}
<1>1. /\ threads' = {f[t] : t \in left}
      /\ posts' = {p \in PostsWithout(own) : p.author # m}
  BY DEF DeleteUser
<1>2. ASSUME NEW t \in left
      PROVE  /\ f[t].id = t.id
             /\ Fits(f[t], Cardinality(PostsThen(t.id)) - 1)
  <2>1. CASE t.id \in hit
    <3> DEFINE k == Cardinality(PostsOf(t.id)) - 1
    <3>1. k \in Int
      BY PostsCounted
    <3>2. Fits(t, k) /\ f[t] = Spoiled(t)
      BY <2>1 DEF ICount
    <3> HIDE DEF f, k
    <3> QED
      BY <3>1, <3>2, Recounted, StillFits
  <2>2. CASE t.id \notin hit
    <3>1. t.id \notin own
      BY DEF IRows
    <3>2. \A q \in posts : q.thread = t.id => q.author # m
      BY <2>2
    <3> HIDE DEF own
    <3>3. PostsThen(t.id) = PostsOf(t.id)
      BY <1>1, <3>1, <3>2 DEF PostsThen, PostsOf, PostsWithout
    <3> QED
      BY <2>2, <3>3, SameCount
  <2> QED
    BY <2>1, <2>2
<1> HIDE DEF f, left
<1> QED
  BY <1>1, <1>2, CountsFrom

\* Pins, locks, and steps that leave threads and posts alone.
LEMMA ToggleCounts ==
  ASSUME IRows, ICount, NEW h \in Handlers, ToggleWrite(h)
  PROVE  ICount'
<1> DEFINE f == [t \in threads |->
                   IF t.id # req[h].thread THEN t
                   ELSE [t EXCEPT !.flags = IF req[h].on THEN t.flags \union {req[h].flag}
                                            ELSE t.flags \ {req[h].flag}]]
<1>1. posts' = posts /\ threads' = {f[t] : t \in threads}
  BY DEF ToggleWrite
<1>2. \A t \in threads : f[t].id = t.id /\ f[t].off = t.off /\ f[t].count = t.count
  BY DEF IRows, Thread
<1> HIDE DEF f
<1> QED
  BY <1>1, <1>2 DEF ICount, PostsOf, Fits

\* Posts come with new threads and replies; every other step leaves them alone or takes some.
LEMMA PostsChange ==
  ASSUME IReq, IHold, [Next]_vars
  PROVE  \/ posts' \subseteq posts
         \/ \E h \in Handlers : ReplyCommit(h)
         \/ \E m \in Members : NewThread(m)
<1>1. ASSUME NEW h \in Handlers,
             \/ DeleteWrite(h) \/ DropWrite(h) \/ ToggleWrite(h) \/ WatchWrite(h)
      PROVE  posts' \subseteq posts
  BY <1>1 DEF DeleteWrite, DropWrite, PostsWithout, ToggleWrite, WatchWrite
<1>2. ASSUME NEW m \in Members, DeleteUser(m)
      PROVE  posts' \subseteq posts
  BY <1>2 DEF DeleteUser, PostsWithout
<1>3. CASE UNCHANGED Tables
  BY <1>3 DEF Tables
<1> QED
  BY <1>1, <1>2, <1>3, TablesChange

\* There are finitely many posts.
LEMMA PostsFinite ==
  ASSUME IsFiniteSet(posts), IReq, IHold, [Next]_vars
  PROVE  IsFiniteSet(posts')
<1>1. CASE posts' \subseteq posts
  BY <1>1, FS_Subset
<1>2. CASE \E p : posts' = posts \union {p}
  BY <1>2, FS_AddElement
<1>3. CASE \E h \in Handlers : ReplyCommit(h)
  BY <1>2, <1>3 DEF ReplyCommit
<1>4. CASE \E m \in Members : NewThread(m)
  BY <1>2, <1>4 DEF NewThread
<1> QED
  BY <1>1, <1>3, <1>4, PostsChange

\* An opening post comes with a thread that has no posts yet.
LEMMA OpenStep ==
  ASSUME IRows, IReq, IHold, IOpen, [Next]_vars
  PROVE  IOpen'
<1>1. CASE posts' \subseteq posts
  BY <1>1 DEF IOpen
<1>2. ASSUME NEW h \in Handlers, ReplyCommit(h)
      PROVE  IOpen'
  <2>1. PICK p : posts' = posts \union {p} /\ ~p.opens
    <3> DEFINE p == [id |-> req[h].post, thread |-> req[h].thread, author |-> req[h].by,
                     opens |-> FALSE]
    <3>1. ~p.opens
      OBVIOUS
    <3>2. posts' = posts \union {p}
      BY <1>2 DEF ReplyCommit
    <3> QED
      BY <3>1, <3>2
  <2> QED
    BY <2>1 DEF IOpen
<1>3. ASSUME NEW m \in Members, NewThread(m)
      PROVE  IOpen'
  <2>1. PICK p : posts' = posts \union {p} /\ p.thread = NewId(threads)
    <3> DEFINE p == [id |-> NewId(posts), thread |-> NewId(threads), author |-> m,
                     opens |-> TRUE]
    <3>1. p.thread = NewId(threads)
      OBVIOUS
    <3>2. posts' = posts \union {p}
      BY <1>3 DEF NewThread
    <3> QED
      BY <3>1, <3>2
  <2>2. \A q \in posts : q.thread # NewId(threads)
    <3>1. \A s \in threads : s.id \in 1 .. MaxThreads
      BY DEF IRows, Thread
    <3>2. \A s \in threads : s.id # NewId(threads)
      BY <3>1, NewIdIsNew, ForumAssumption
    <3> QED
      BY <3>2 DEF IRows, Post, ThreadIds
  <2> QED
    BY <2>1, <2>2 DEF IOpen
<1> QED
  BY <1>1, <1>2, <1>3, PostsChange

\* The posts of a thread that still has its opening post are that one and the replies.
LEMMA CountsMeet ==
  ASSUME IsFiniteSet(posts), ICount, IOpen
  PROVE  CountMatches
<1>1. ASSUME NEW t \in threads, ~t.off, NEW p \in PostsOf(t.id), p.opens
      PROVE  t.count = Cardinality(Replies(t.id))
  <2>1. Replies(t.id) = PostsOf(t.id) \ {p}
    BY <1>1 DEF IOpen, Replies, PostsOf
  <2>2. Cardinality(PostsOf(t.id) \ {p}) = Cardinality(PostsOf(t.id)) - 1
    BY PostsCounted, FS_RemoveElement
  <2>3. t.count = Cardinality(PostsOf(t.id)) - 1
    BY <1>1 DEF ICount, Fits
  <2> QED
    BY <2>1, <2>2, <2>3
<1> QED
  BY <1>1 DEF CountMatches

\* The count of a thread that still has its opening post is the number of its replies, for any
\* number of handlers that reply, delete, drop and toggle at once on ids that come back, as
\* long as no account's posts went and no post was deleted twice.
THEOREM CountsAgree == Spec => []CountMatches
<1> DEFINE Inv == IRows /\ IReq /\ IHold /\ IsFiniteSet(posts) /\ ICount /\ IOpen
<1>1. Init => Inv
  BY InitHolds, FS_EmptySet DEF Init, ICount, IOpen
<1>2. Inv /\ [Next]_vars => Inv'
  <2> SUFFICES ASSUME IRows, IReq, IHold, IsFiniteSet(posts), ICount, IOpen, [Next]_vars
               PROVE  ICount'
    BY RowsStep, ReqStep, HoldStep, PostsFinite, OpenStep
  <2>1. CASE UNCHANGED Tables \/ \E h \in Handlers : WatchWrite(h)
    BY <2>1 DEF ICount, PostsOf, Tables, WatchWrite
  <2> QED
    BY <2>1, NewThreadCounts, ReplyCounts, DeleteCounts, DropCounts, DeleteUserCounts,
       ToggleCounts, TablesChange
<1>3. Inv => CountMatches
  BY CountsMeet
<1> QED
  BY <1>1, <1>2, <1>3, PTL DEF Spec

-----------------------------------------------------------------------------
(* Whom a reply tells                                                      *)

\* One more of the watchers is told.
LEMMA TellOne ==
  ASSUME IReq, ITold, NEW h \in Handlers, ReplyTell(h)
  PROVE  req'[h].pc = "tell" /\ ToldSoFar(req'[h])
<1>1. PICK w \in req[h].todo, r \in Request :
        /\ req'[h] = r
        /\ r = [req[h] EXCEPT !.todo = @ \ {w}, !.told[w] = @ + 1]
  <2>1. PICK w \in req[h].todo, r \in Request :
          /\ req' = [req EXCEPT ![h] = r]
          /\ r = [req[h] EXCEPT !.todo = @ \ {w}, !.told[w] = @ + 1]
    BY TellHeld
  <2>2. req'[h] = r
    BY <2>1 DEF IReq
  <2> QED
    BY <2>1, <2>2
<1> DEFINE s == req[h]
<1>2. s.pc = "tell" /\ ToldSoFar(s) /\ s \in Telling
  BY WriterHolds DEF ReplyTell, ITold, Writing
<1>3. /\ r.pc = "tell" /\ r.list = s.list /\ r.by = s.by /\ r.todo = s.todo \ {w}
      /\ r.told = [s.told EXCEPT ![w] = @ + 1]
  BY <1>1, <1>2 DEF Telling
<1> HIDE DEF s
<1>4. w \in s.todo /\ w \in s.list \ {s.by} /\ s.told[w] = 0
  <2>1. w \in s.todo /\ w \in Members
    BY <1>1, <1>2 DEF s, Telling
  <2> QED
    BY <1>2, <2>1 DEF ToldSoFar
<1>5. \A v \in Members : r.told[v] = IF v = w THEN 1 ELSE s.told[v]
  BY <1>2, <1>3, <1>4 DEF Telling
<1>6. ToldSoFar(r)
  BY <1>2, <1>3, <1>4, <1>5 DEF ToldSoFar
<1> QED
  BY <1>1, <1>3, <1>6

\* When the loop is through, the author of the quoted post is told unless the loop had them.
LEMMA TellQuoted ==
  ASSUME IRows, IReq, ITold, NEW h \in Handlers, ReplyQuote(h)
  PROVE  req'[h].pc = "commit" /\ ToldAll(req'[h])
<1> DEFINE s == req[h]
           told == [w \in Members |-> s.told[w] + IF w \in Quoted(s) THEN 1 ELSE 0]
<1>1. /\ req'[h] = [s EXCEPT !.pc = "commit", !.told = told]
  BY QuoteHeld DEF IReq
<1>2. s.todo = {} /\ ToldSoFar(s) /\ s \in Telling
  BY WriterHolds DEF ReplyQuote, ITold, Writing
<1> DEFINE r == req'[h]
<1>3. /\ r.pc = "commit" /\ r.list = s.list /\ r.by = s.by /\ r.quote = s.quote
      /\ r.told = told
  BY <1>1, <1>2 DEF Telling
<1>4. \A w \in Members : r.told[w] = s.told[w] + IF w \in Quoted(s) THEN 1 ELSE 0
  BY <1>3
<1> HIDE DEF s, r, told
<1>5. \A w \in Members : s.told[w] = IF w \in s.list \ {s.by} THEN 1 ELSE 0
  BY <1>2 DEF ToldSoFar
<1>6. Quoted(s) = AuthorOf(s.quote) \ ({s.by} \union s.list)
  BY DEF Quoted
<1>7. ToldAll(r)
  <2>1. \A w \in Members :
          r.told[w] = IF w \in (s.list \union AuthorOf(s.quote)) \ {s.by} THEN 1 ELSE 0
    BY <1>4, <1>5, <1>6
  <2> QED
    BY <1>3, <2>1 DEF ToldAll
<1> QED
  BY <1>3, <1>7 DEF r

LEMMA ToldStep ==
  ASSUME IRows, IReq, IHold, ITold, [Next]_vars
  PROVE  ITold'
<1>1. CASE \A g \in Handlers : ~Writing(g)'
  BY <1>1 DEF ITold, Writing
<1>2. CASE UNCHANGED Tables
  <2>1. \A q : AuthorOf(q)' = AuthorOf(q)
    BY <1>2 DEF Tables, AuthorOf
  <2>2. ASSUME NEW g \in Handlers, Writing(g)'
        PROVE  /\ req'[g].pc = "tell" => ToldSoFar(req'[g])
               /\ req'[g].pc = "commit" => ToldAll(req'[g])
    <3>1. CASE req'[g] = req[g]
      BY <3>1 DEF ITold
    <3>2. CASE req'[g] = Held(g)
      BY <3>2 DEF Held, ToldSoFar
    <3>3. CASE ReplyTell(g)
      BY <3>3, TellOne
    <3>4. CASE ReplyQuote(g)
      BY <3>4, TellQuoted
    <3> QED
      BY <1>2, <2>2, <3>1, <3>2, <3>3, <3>4, HandlerStep
  <2>3. ASSUME NEW g \in Handlers, Writing(g)'
        PROVE  /\ req'[g].pc = "tell" => ToldSoFar(req[g])'
               /\ req'[g].pc = "commit" => ToldAll(req[g])'
    BY <2>1, <2>2, <2>3 DEF ToldSoFar, ToldAll
  <2> QED
    BY <2>3 DEF ITold, Writing
<1> QED
  BY <1>1, <1>2, WriterGone

\* A reply that is about to be committed told each watcher of its thread and the author of the
\* quoted post once, and nobody else, for any members, handlers and bounds, whoever watches,
\* leaves, deletes or replies in the meantime: the writer is its own from the INSERT on.
THEOREM EachToldOnce == Spec => []ToldOnce
<1> DEFINE Inv == IRows /\ IReq /\ IHold /\ ITold
<1>1. Init => Inv
  <2>1. Init => ITold
    BY DEF Init, ITold, Idle
  <2> QED
    BY <2>1, InitHolds
<1>2. Inv /\ [Next]_vars => Inv'
  BY RowsStep, ReqStep, HoldStep, ToldStep
<1>3. Inv => ToldOnce
  <2>1. ASSUME IHold, ITold, NEW h \in Handlers, req[h].pc = "commit"
        PROVE  ToldAll(req[h]) /\ req[h].list = Watching(req[h].thread)
    BY <2>1 DEF IHold, ITold, Writing
  <2> QED
    BY <2>1 DEF ToldOnce, ToldAll
<1> QED
  BY <1>1, <1>2, <1>3, PTL DEF Spec
=============================================================================
