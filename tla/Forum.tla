-------------------------------- MODULE Forum --------------------------------
(***************************************************************************)
(* The forum: threads, posts and watches, in src/app/routes/forum.py over  *)
(* src/app/queries/forum.py.                                               *)
(*                                                                         *)
(* Every route runs in a thread of the pool.  It reads the row it is about *)
(* and checks it in one step, and writes in another, by the id it read:    *)
(* the row may be another one by then, since SQLite hands the highest id   *)
(* out again.                                                              *)
(*                                                                         *)
(* A write begins a transaction, and while one is open SQLite lets nobody  *)
(* else write.  Most commit in the step of their write.  A reply keeps its *)
(* transaction open while it tells its readers, one push after another; a  *)
(* request that waits for it may give up ("database is locked").           *)
(*                                                                         *)
(* A post is who wrote it and where: its text, and so editing it, is left  *)
(* out.  So are titles and times, and with the times the rate limit: a     *)
(* refused reply changes nothing, like one that was never sent.            *)
(***************************************************************************)
EXTENDS Integers, FiniteSetsExt

CONSTANTS
  Members,     \* the accounts there may be
  Admins,      \* those with is_admin
  Handlers,    \* the worker threads
  WatchAll,    \* those whose watch_all_threads is set
  Watchers,    \* those who press the watch button
  Quotes,      \* the ids of posts that replies may quote, 0 for none
  Flags,       \* the marks an administrator toggles: is_locked and is_pinned
  MaxThreads,  \* bound of the thread ids
  MaxPosts     \* bound of the post ids

ASSUME ForumAssumption ==
  /\ Admins \subseteq Members /\ WatchAll \subseteq Members /\ Watchers \subseteq Members
  /\ Flags \subseteq {"locked", "pinned"}
  /\ Quotes \subseteq Nat
  /\ MaxThreads \in Nat /\ MaxPosts \in Nat

VARIABLES
  users,      \* the rows of users
  threads,    \* forum_threads; off marks one whose count went wrong, which is not followed
  posts,      \* forum_posts; opens marks the one that came with its thread, which no column does
  watchers,   \* thread_watchers
  req         \* per handler, what it read and is about to write

vars == <<users, threads, posts, watchers, req>>

Idle == [pc |-> "idle"]
\* what comes before a request's first write
Waiting == {"reply", "delete", "drop", "toggle", "watch"}

ThreadIds == {t.id : t \in threads}
PostsOf(i) == {p \in posts : p.thread = i}
Replies(i) == {p \in PostsOf(i) : ~p.opens}
NewId(S) == 1 + Max({0} \union {r.id : r \in S})
Counted(t, n) == [t EXCEPT !.count = IF t.off THEN 0 ELSE n]
Spoiled(t) == [t EXCEPT !.off = TRUE, !.count = 0]

TypeOK ==
  /\ users \subseteq Members
  /\ threads \subseteq [id : 1 .. MaxThreads, author : users, flags : SUBSET Flags,
                        count : Int, off : BOOLEAN]
  /\ \A t, s \in threads : t.id = s.id => t = s
  /\ posts \subseteq [id : 1 .. MaxPosts, thread : ThreadIds, author : users, opens : BOOLEAN]
  /\ \A p, q \in posts : p.id = q.id => p = q
  /\ watchers \subseteq users \X ThreadIds
  /\ \A h \in Handlers :
       req[h] = Idle \/ req[h].pc \in Waiting \union {"tell", "commit"}

Init ==
  /\ users = Members
  /\ threads = {} /\ posts = {} /\ watchers = {}
  /\ req = [h \in Handlers |-> Idle]

-----------------------------------------------------------------------------
(* Requests and the database's one writer.                                 *)

Start(h, r) == req[h] = Idle /\ req' = [req EXCEPT ![h] = r]
Done(h) == req' = [req EXCEPT ![h] = Idle]

Writing(h) == req[h].pc \in {"tell", "commit"}
Free == \A h \in Handlers : ~Writing(h)

\* a request waited five seconds for the writer and answers 500
Locked(h) ==
  /\ ~Free
  /\ req[h].pc \in Waiting
  /\ Done(h)
  /\ UNCHANGED <<users, threads, posts, watchers>>

-----------------------------------------------------------------------------
(* Threads and replies.                                                    *)

\* POST /forum/new, one transaction: the thread, its opening post, its author's watch
NewThread(m) ==
  /\ Free
  /\ m \in users
  /\ LET t == NewId(threads)
         p == NewId(posts)
     IN  /\ t <= MaxThreads /\ p <= MaxPosts
         /\ threads' = threads \union
              {[id |-> t, author |-> m, flags |-> {}, count |-> 0, off |-> FALSE]}
         /\ posts' = posts \union
              {[id |-> p, thread |-> t, author |-> m, opens |-> TRUE]}
         /\ watchers' = watchers \union {<<m, t>>}
  /\ UNCHANGED <<users, req>>

\* POST /forum/{t}/reply: the thread exists and is not locked; q is the id of the post that
\* is quoted, which may be gone since the page was loaded, and 0 if none is
ReplyRead(h, m, t, q) ==
  /\ m \in users
  /\ "locked" \notin t.flags
  /\ Start(h, [pc |-> "reply", by |-> m, thread |-> t.id, quote |-> q])
  /\ UNCHANGED <<users, threads, posts, watchers>>

Watching(i) == {w \in users : <<w, i>> \in watchers} \union (WatchAll \intersect users)
AuthorOf(q) == {p.author : p \in {s \in posts : s.id = q}}

\* create_reply and get_watchers: the row is inserted, which only this transaction sees yet,
\* and the watchers are listed; without the thread or the member the INSERT fails
ReplyInsert(h) ==
  /\ req[h].pc = "reply" /\ Free
  /\ LET r == req[h]
         W == Watching(r.thread)
     IN  IF r.thread \in ThreadIds /\ r.by \in users
         THEN /\ NewId(posts) <= MaxPosts
              /\ req' = [req EXCEPT ![h] =
                   [pc |-> "tell", by |-> r.by, thread |-> r.thread, quote |-> r.quote,
                    post |-> NewId(posts), list |-> W, todo |-> W \ {r.by},
                    told |-> [w \in Members |-> 0]]]
         ELSE Done(h)
  /\ UNCHANGED <<users, threads, posts, watchers>>

\* send_notification to the next of the watchers
ReplyTell(h) ==
  /\ req[h].pc = "tell"
  /\ \E w \in req[h].todo :
       req' = [req EXCEPT ![h].todo = @ \ {w}, ![h].told[w] = @ + 1]
  /\ UNCHANGED <<users, threads, posts, watchers>>

\* Mutant: the author of the quoted post is told even if the watchers were.
QuotedAnyway(r) == AuthorOf(r.quote) \ {r.by}
\* the author of the quoted post, if it is still there, unless the watchers' loop had them;
\* an id that became the reply's own finds the reply, whose author is not told
Quoted(r) == AuthorOf(r.quote) \ ({r.by} \union r.list)

ReplyQuote(h) ==
  /\ req[h].pc = "tell" /\ req[h].todo = {}
  /\ LET r == req[h] IN
       req' = [req EXCEPT ![h].pc = "commit",
                 ![h].told = [w \in Members |-> r.told[w] + IF w \in Quoted(r) THEN 1 ELSE 0]]
  /\ UNCHANGED <<users, threads, posts, watchers>>

ReplyCommit(h) ==
  /\ req[h].pc = "commit"
  /\ LET r == req[h] IN
       /\ posts' = posts \union
            {[id |-> r.post, thread |-> r.thread, author |-> r.by, opens |-> FALSE]}
       /\ threads' = {IF t.id = r.thread THEN Counted(t, t.count + 1) ELSE t : t \in threads}
  /\ Done(h)
  /\ UNCHANGED <<users, watchers>>

-----------------------------------------------------------------------------
(* Deleting.                                                               *)

May(m, row) == m \in users /\ (row.author = m \/ m \in Admins)

DeleteRead(h, m, p) ==
  /\ May(m, p)
  /\ Start(h, [pc |-> "delete", post |-> p.id, thread |-> p.thread])
  /\ UNCHANGED <<users, threads, posts, watchers>>

\* the post with the id goes, if there is one, and the count of the thread that was read falls
\* in any case; off marks the threads for which the two do not go together
\* Mutant: a deleted post is not taken from the count.
LessNone(n) == n
LessOne(n) == n - 1
DeleteWrite(h) ==
  /\ req[h].pc = "delete" /\ Free
  /\ LET gone == {p \in posts : p.id = req[h].post}
         torn == {req[h].thread} \union {p.thread : p \in gone}
     IN  /\ posts' = posts \ gone
         /\ threads' = {IF t.id \notin torn THEN t
                        ELSE IF gone # {} /\ torn = {req[h].thread}
                        THEN Counted(t, LessOne(t.count)) ELSE Spoiled(t) : t \in threads}
  /\ Done(h)
  /\ UNCHANGED <<users, watchers>>

DropRead(h, m, t) ==
  /\ May(m, t)
  /\ Start(h, [pc |-> "drop", thread |-> t.id])
  /\ UNCHANGED <<users, threads, posts, watchers>>

\* Mutant: forum_posts.thread_id has no ON DELETE CASCADE.
PostsKept(I) == posts
PostsWithout(I) == {p \in posts : p.thread \notin I}
DropWrite(h) ==
  /\ req[h].pc = "drop" /\ Free
  /\ threads' = {t \in threads : t.id # req[h].thread}
  /\ posts' = PostsWithout({req[h].thread})
  /\ watchers' = {w \in watchers : w[2] # req[h].thread}
  /\ Done(h)
  /\ UNCHANGED <<users>>

-----------------------------------------------------------------------------
(* Pins, locks and watches: each is read and its negation written.         *)

ToggleRead(h, m, t, f) ==
  /\ m \in users \intersect Admins
  /\ Start(h, [pc |-> "toggle", thread |-> t.id, flag |-> f, on |-> f \notin t.flags])
  /\ UNCHANGED <<users, threads, posts, watchers>>

ToggleWrite(h) ==
  /\ req[h].pc = "toggle" /\ Free
  /\ threads' = {IF t.id # req[h].thread THEN t
                 ELSE [t EXCEPT !.flags = IF req[h].on THEN t.flags \union {req[h].flag}
                                          ELSE t.flags \ {req[h].flag}] : t \in threads}
  /\ Done(h)
  /\ UNCHANGED <<users, posts, watchers>>

WatchRead(h, m, t) ==
  /\ m \in users \intersect Watchers
  /\ Start(h, [pc |-> "watch", by |-> m, thread |-> t.id, on |-> <<m, t.id>> \notin watchers])
  /\ UNCHANGED <<users, threads, posts, watchers>>

\* one that is there by now is not inserted again; without thread or member the INSERT fails
WatchWrite(h) ==
  /\ req[h].pc = "watch" /\ Free
  /\ LET w == <<req[h].by, req[h].thread>> IN
       watchers' = IF req[h].on THEN watchers \union ({w} \intersect (users \X ThreadIds))
                   ELSE watchers \ {w}
  /\ Done(h)
  /\ UNCHANGED <<users, threads, posts>>

-----------------------------------------------------------------------------
\* an administrator deletes another account, which goes with its threads, posts and watches;
\* no count is corrected
DeleteUser(m) ==
  /\ Free
  /\ m \in users
  /\ (users \intersect Admins) \ {m} # {}
  /\ LET own == {t.id : t \in {s \in threads : s.author = m}}
         hit == {p.thread : p \in {q \in posts : q.author = m}}
     IN  /\ threads' = {IF t.id \in hit THEN Spoiled(t) ELSE t :
                        t \in {s \in threads : s.author # m}}
         /\ posts' = {p \in PostsWithout(own) : p.author # m}
         /\ watchers' = {w \in watchers : w[1] # m /\ w[2] \notin own}
  /\ users' = users \ {m}
  /\ UNCHANGED req

\* the process stops and starts again: a reply that was not committed is gone, those it told
\* stay told
Restart ==
  /\ req' = [h \in Handlers |-> Idle]
  /\ UNCHANGED <<users, threads, posts, watchers>>

Next ==
  \/ \E m \in Members :
       \/ NewThread(m) \/ DeleteUser(m)
       \/ \E h \in Handlers :
            \/ \E p \in posts : DeleteRead(h, m, p)
            \/ \E t \in threads : \/ DropRead(h, m, t) \/ WatchRead(h, m, t)
                                  \/ \E q \in Quotes : ReplyRead(h, m, t, q)
                                  \/ \E f \in Flags : ToggleRead(h, m, t, f)
  \/ \E h \in Handlers : \/ ReplyInsert(h) \/ ReplyTell(h) \/ ReplyQuote(h) \/ ReplyCommit(h)
                         \/ DeleteWrite(h) \/ DropWrite(h) \/ ToggleWrite(h)
                         \/ WatchWrite(h) \/ Locked(h)
  \/ Restart

Spec == Init /\ [][Next]_vars

-----------------------------------------------------------------------------
(* Properties                                                              *)

\* reply_count is the number of replies, the opening post not being one, however replies,
\* deletions of replies and threads and new threads on an old id overlap.  Left out are the
\* threads whose opening post was deleted (RepliesCounted below), and those marked off: a post
\* went with its author's account, or two requests deleted one post at once.
CountMatches ==
  \A t \in threads : ~t.off /\ (\E p \in PostsOf(t.id) : p.opens)
                       => t.count = Cardinality(Replies(t.id))

\* delete_post_safe is to "delete a post and update the thread's reply count"
\* (queries/forum.py:224), which the pages show as so many replies: also after the opening
\* post, which is no reply and has a delete button like the others, was deleted.
RepliesCounted == \A t \in threads : ~t.off => t.count = Cardinality(Replies(t.id))

\* A reply that is about to be committed told everybody who watches its thread at that moment
\* and the author of the post it quotes, each of them once, and nobody else, its own author
\* included: although one loop and one lookup tell them, the quoted post may be deleted and its
\* id given to another, and others watch, unwatch, delete and are deleted in the meantime
\* (routes/forum.py:333; "if not already a watcher", :345).
ToldOnce ==
  \A h \in Handlers : req[h].pc = "commit" =>
    LET r == req[h]
        due == (Watching(r.thread) \union AuthorOf(r.quote)) \ {r.by}
    IN  \A w \in Members : r.told[w] = IF w \in due THEN 1 ELSE 0

=============================================================================
