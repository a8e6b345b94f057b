----------------------------- MODULE PushDevices -----------------------------
(***************************************************************************)
(* Push notifications: the script every page runs to subscribe its browser *)
(* (src/src/lib/push.ts), the service worker that shows what arrives       *)
(* (src/static/sw.js), the subscription routes on the event loop           *)
(* (src/app/routes/push.py) and the sending of a notification from a       *)
(* worker thread (src/app/push.py).                                        *)
(*                                                                         *)
(* A browser is a profile on somebody's machine that several members may   *)
(* sign in from.  An endpoint is the browser it leads to and the number of *)
(* the subscription there, a device id the browser and the number of the   *)
(* id it made up: the push service and randomUUID give none out twice.     *)
(* Keys, names and the text of a notification are left out.                *)
(***************************************************************************)
EXTENDS Naturals, FiniteSetsExt

CONSTANTS
  Members,     \* the accounts there may be
  Browsers,    \* the browser profiles
  Pages,       \* the pages that may be open at once, in any browser
  Senders,     \* the threads that send notifications
  Nobody,      \* a cookie that signs nobody in
  MaxUpsets    \* bound of the things that go wrong or change hands

ASSUME PushAssumption == Nobody \notin Members /\ MaxUpsets \in Nat

VARIABLES
  users,       \* the rows of users
  enabled,     \* the members whose notifications_enabled is set
  rows,        \* push_subscriptions
  cookie,      \* per browser, the member its session cookie signs in
  permission,  \* per browser, Notification.permission
  made,        \* per browser, how many subscriptions it made
  sub,         \* per browser, the number of its subscription, 0 where it has none
  named,       \* per browser, how many device ids it made up
  device,      \* per browser, "4orm_device_id" of localStorage, 0 where there is none
  pages,       \* per page, how far its subscription got, in the browser and at the server
  sends,       \* per thread, the notification it sends and to which endpoints still
  shown,       \* per browser, the members whose notifications it shows
  handed,      \* history: who handed which endpoint in
  upsets       \* how much went wrong so far

browser == <<cookie, permission, made, sub, named, device>>
vars == <<users, enabled, rows, browser, pages, sends, shown, handed, upsets>>

Endpoint == [at : Browsers, no : Nat]
Idle == [pc |-> "idle"]
Page(pc, b) == [pc |-> pc, at |-> b]
Request(pc, u, d, e, i) == [pc |-> pc, user |-> u, device |-> d, endpoint |-> e, found |-> i]

InBrowser == [pc : {"look", "ask", "subscribe"}, at : Browsers]
UnderWay == [pc : {"sent", "arrived", "write"}, user : Members \union {Nobody},
             device : Endpoint, endpoint : Endpoint, found : Nat]

TypeOK ==
  /\ users \subseteq Members /\ enabled \subseteq Members
  /\ rows \subseteq [id : Nat \ {0}, user : users, device : Endpoint, endpoint : Endpoint]
  /\ \A r, q \in rows : r.id = q.id => r = q
  /\ cookie \in [Browsers -> Members \union {Nobody}]
  /\ permission \in [Browsers -> {"default", "granted", "denied"}]
  /\ made \in [Browsers -> Nat] /\ sub \in [Browsers -> Nat]
  /\ named \in [Browsers -> Nat] /\ device \in [Browsers -> Nat]
  /\ pages \in [Pages -> {Idle} \union InBrowser \union UnderWay]
  /\ sends \in [Senders -> [to : Members \union {Nobody}, due : SUBSET Endpoint]]
  /\ \A n \in Senders : sends[n].due # {} => sends[n].to # Nobody
  /\ shown \in [Browsers -> SUBSET Members]
  /\ upsets \in 0 .. MaxUpsets

NoSend == [to |-> Nobody, due |-> {}]

\* everybody has an account; no browser has a subscription yet
Init ==
  /\ users = Members /\ enabled = Members /\ rows = {}
  /\ cookie \in [Browsers -> Members \union {Nobody}]
  /\ permission = [b \in Browsers |-> "default"]
  /\ made = [b \in Browsers |-> 0] /\ sub = [b \in Browsers |-> 0]
  /\ named = [b \in Browsers |-> 0] /\ device = [b \in Browsers |-> 0]
  /\ pages = [p \in Pages |-> Idle] /\ sends = [n \in Senders |-> NoSend]
  /\ shown = [b \in Browsers |-> {}] /\ handed = {} /\ upsets = 0

-----------------------------------------------------------------------------
(* The script of a page, initPushSubscription.                             *)

\* a page the server rendered for a member: data-logged-in is "true"
PageLoad(p, b) ==
  /\ pages[p] = Idle
  /\ cookie[b] \in users
  /\ pages' = [pages EXCEPT ![p] = Page("look", b)]
  /\ UNCHANGED <<users, enabled, rows, browser, sends, shown, handed, upsets>>

\* Mutant: the id is made up anew for every request.
DeviceIdAnew(b) == named[b] + 1
\* the id in localStorage, made up and kept where there is none
DeviceId(b) == IF device[b] = 0 THEN named[b] + 1 ELSE device[b]

\* sendSubscription: the request carries the cookie of this moment, not the page's member
Sent(p, b, no) ==
  LET d == DeviceId(b) IN
  /\ device' = [device EXCEPT ![b] = d]
  /\ named' = [named EXCEPT ![b] = IF d > @ THEN d ELSE @]
  /\ pages' = [pages EXCEPT ![p] = Request("sent", cookie[b], [at |-> b, no |-> d],
                                           [at |-> b, no |-> no], 0)]
  /\ handed' = handed \union
                 {<<u, [at |-> b, no |-> no]>> : u \in {cookie[b]} \ {Nobody}}

\* Mutant: a page that finds a subscription takes it that the server has it.
ResendNever(p, b) ==
  /\ pages' = [pages EXCEPT ![p] = Idle]
  /\ UNCHANGED <<device, named, handed>>
\* "re-send to ensure server has it"
Resend(p, b) == Sent(p, b, sub[b])

\* getSubscription has answered
PageLook(p) ==
  /\ pages[p].pc = "look"
  /\ LET b == pages[p].at IN
       \/ sub[b] # 0 /\ Resend(p, b)
       \/ /\ sub[b] = 0
          /\ pages' = [pages EXCEPT ![p] = CASE permission[b] = "granted" -> Page("subscribe", b)
                                             [] permission[b] = "default" -> Page("ask", b)
                                             [] permission[b] = "denied" -> Idle]
          /\ UNCHANGED <<device, named, handed>>
  /\ UNCHANGED <<users, enabled, rows, cookie, permission, made, sub, sends, shown, upsets>>

\* requestPermission: another page's question may have been answered in the meantime
PageAsk(p) ==
  /\ pages[p].pc = "ask"
  /\ LET b == pages[p].at IN
       \E answer \in {"default", "granted", "denied"} :
         /\ permission[b] # "default" => answer = permission[b]
         /\ permission' = [permission EXCEPT ![b] = answer]
         /\ pages' = [pages EXCEPT ![p] = IF answer = "granted" THEN Page("subscribe", b) ELSE Idle]
  /\ UNCHANGED <<users, enabled, rows, cookie, made, sub, named, device, sends, shown, handed,
                 upsets>>

\* pushManager.subscribe: the subscription the browser has by now, or a new one; it is
\* refused where the permission has been taken back
PageSubscribe(p) ==
  /\ pages[p].pc = "subscribe"
  /\ LET b == pages[p].at
         no == IF sub[b] = 0 THEN made[b] + 1 ELSE sub[b]
     IN  \/ /\ permission[b] = "granted"
            /\ sub' = [sub EXCEPT ![b] = no]
            /\ made' = [made EXCEPT ![b] = IF no > @ THEN no ELSE @]
            /\ Sent(p, b, no)
         \/ /\ permission[b] # "granted"
            /\ pages' = [pages EXCEPT ![p] = Idle]
            /\ UNCHANGED <<made, sub, named, device, handed>>
  /\ UNCHANGED <<users, enabled, rows, cookie, permission, sends, shown, upsets>>

-----------------------------------------------------------------------------
(* The routes, on the event loop.                                          *)

\* Mutant: the route runs in a thread of the pool.
LoopShared == TRUE
\* no subscription is between its SELECT and its write: nothing is awaited there
LoopFree == \A p \in Pages : pages[p].pc # "write"

\* current_user, then the body is awaited; a cookie that stands for nobody is a 401
SubscribeArrive(p) ==
  /\ pages[p].pc = "sent"
  /\ LoopFree
  /\ pages' = [pages EXCEPT ![p] = IF pages[p].user \in users
                                   THEN [pages[p] EXCEPT !.pc = "arrived"] ELSE Idle]
  /\ UNCHANGED <<users, enabled, rows, browser, sends, shown, handed, upsets>>

\* Mutant: the row is looked up by the device alone.
HeldForDevice(u, d) == {r \in rows : r.device = d}
Held(u, d) == {r \in rows : r.user = u /\ r.device = d}

SubscribeRead(p) ==
  /\ pages[p].pc = "arrived"
  /\ LoopFree
  /\ \E i \in IF Held(pages[p].user, pages[p].device) = {} THEN {0}
              ELSE {r.id : r \in Held(pages[p].user, pages[p].device)} :
       pages' = [pages EXCEPT ![p].pc = "write", ![p].found = i]
  /\ UNCHANGED <<users, enabled, rows, browser, sends, shown, handed, upsets>>

NewId == 1 + Max({0} \union {r.id : r \in rows})

\* the transaction: the row found is updated if it is still there; a new row needs its member
\* to exist and no other row of the member and the device
SubscribeWrite(p) ==
  /\ pages[p].pc = "write"
  /\ LET q == pages[p] IN
       IF q.found # 0
       THEN rows' = {IF r.id = q.found THEN [r EXCEPT !.endpoint = q.endpoint] ELSE r : r \in rows}
       ELSE rows' = rows \union {r \in {[id |-> NewId, user |-> q.user, device |-> q.device,
                                         endpoint |-> q.endpoint]} :
                                   q.user \in users /\ Held(q.user, q.device) = {}}
  /\ pages' = [pages EXCEPT ![p] = Idle]
  /\ UNCHANGED <<users, enabled, browser, sends, shown, handed, upsets>>

\* POST /api/push/unsubscribe, from a browser that gave its device an id
Unsubscribe(b) ==
  /\ LoopFree
  /\ device[b] # 0
  /\ rows' = rows \ Held(cookie[b], [at |-> b, no |-> device[b]])
  /\ UNCHANGED <<users, enabled, browser, pages, sends, shown, handed>>

\* the button of the devices list, in a thread: the list may be old and the id another row's
DeleteDevice(u, i) ==
  /\ rows' = {r \in rows : ~(r.id = i /\ r.user = u)}
  /\ UNCHANGED <<users, enabled, browser, pages, sends, shown, handed>>

-----------------------------------------------------------------------------
(* send_notification, in the thread of whatever tells the member something, *)
(* and the service worker.                                                  *)

\* Mutant: the subscriptions are not those of the member.
TargetsAll(u) == {r.endpoint : r \in rows}
Targets(u) == {r.endpoint : r \in {q \in rows : q.user = u}}

NotifyBegin(n, u) ==
  /\ sends[n] = NoSend
  /\ u \in users \intersect enabled
  /\ Targets(u) # {}
  /\ sends' = [sends EXCEPT ![n] = [to |-> u, due |-> Targets(u)]]
  /\ UNCHANGED <<users, enabled, rows, browser, pages, shown, handed, upsets>>

\* a push event wakes the service worker, which shows it whoever is signed in
Received(e, u) == shown' = [shown EXCEPT ![e.at] = @ \union {u}]

\* one call of the push service: an endpoint that is gone, or any other failure, is logged and
\* its row stays
Live(e) == sub[e.at] = e.no
NotifyEach(n) ==
  /\ \E e \in sends[n].due :
       /\ sends' = [sends EXCEPT ![n] = IF sends[n].due = {e} THEN NoSend
                                        ELSE [sends[n] EXCEPT !.due = sends[n].due \ {e}]]
       /\ \/ shown' = shown
          \/ /\ Live(e)
             /\ Received(e, sends[n].to)
  /\ UNCHANGED <<users, enabled, rows, browser, pages, handed, upsets>>

\* a click closes the notification and opens its page
NotificationClick(p, b, u) ==
  /\ u \in shown[b]
  /\ shown' = [shown EXCEPT ![b] = @ \ {u}]
  /\ \/ /\ pages[p] = Idle
        /\ cookie[b] \in users
        /\ pages' = [pages EXCEPT ![p] = Page("look", b)]
     \/ /\ cookie[b] \notin users
        /\ pages' = pages
  /\ UNCHANGED <<users, enabled, rows, browser, sends, handed, upsets>>

SetEnabled(u) ==
  /\ u \in users
  /\ enabled' = IF u \in enabled THEN enabled \ {u} ELSE enabled \union {u}
  /\ UNCHANGED <<users, rows, browser, pages, sends, shown, handed>>

-----------------------------------------------------------------------------
(* What goes wrong, and what changes hands.                                *)

\* somebody signs in at a browser, in place of whoever was
SignIn(b) ==
  /\ \E u \in users \ {cookie[b]} : cookie' = [cookie EXCEPT ![b] = u]
  /\ UNCHANGED <<users, enabled, rows, permission, made, sub, named, device, pages, sends, shown,
                 handed>>

\* the session is cleared, by the member or because it or the account is no longer valid
SignOut(b) ==
  /\ cookie[b] # Nobody
  /\ cookie' = [cookie EXCEPT ![b] = Nobody]
  /\ UNCHANGED <<users, enabled, rows, permission, made, sub, named, device, pages, sends, shown,
                 handed>>

\* the push service or the browser ends a subscription; taking the permission back does, too
SubscriptionLost(b) ==
  /\ sub' = [sub EXCEPT ![b] = 0]
  /\ permission' \in {permission, [permission EXCEPT ![b] = "denied"]}
  /\ UNCHANGED <<users, enabled, rows, cookie, made, named, device, pages, sends, shown, handed>>

\* "clear site data": cookie, local storage, permission and service worker
SiteCleared(b) ==
  /\ cookie' = [cookie EXCEPT ![b] = Nobody]
  /\ permission' = [permission EXCEPT ![b] = "default"]
  /\ sub' = [sub EXCEPT ![b] = 0]
  /\ device' = [device EXCEPT ![b] = 0]
  /\ shown' = [shown EXCEPT ![b] = {}]
  /\ UNCHANGED <<users, enabled, rows, made, named, pages, sends, handed>>

\* a page is left before its script is done, its request is lost, or the answer is an error
PageLost(p) ==
  /\ pages[p] # Idle
  /\ pages[p].pc # "write"
  /\ pages' = [pages EXCEPT ![p] = Idle]
  /\ UNCHANGED <<users, enabled, rows, browser, sends, shown, handed>>

\* Mutant: the subscriptions have no ON DELETE CASCADE.
CascadeNone(u) == rows
Cascade(u) == {r \in rows : r.user # u}
\* an account is deleted with its subscriptions
DeleteUser(u) ==
  /\ u \in users
  /\ users' = users \ {u} /\ enabled' = enabled \ {u}
  /\ rows' = Cascade(u)
  /\ UNCHANGED <<browser, pages, sends, shown, handed>>

\* the process stops and starts again: only the database is kept
AtServer == {"sent", "arrived", "write"}
Restart ==
  /\ pages' = [p \in Pages |-> IF pages[p].pc \in AtServer THEN Idle ELSE pages[p]]
  /\ sends' = [n \in Senders |-> NoSend]
  /\ UNCHANGED <<users, enabled, rows, browser, shown, handed>>

Upset ==
  /\ upsets < MaxUpsets
  /\ upsets' = upsets + 1
  /\ \/ \E b \in Browsers : \/ SignIn(b) \/ SignOut(b) \/ SubscriptionLost(b)
                            \/ SiteCleared(b) \/ Unsubscribe(b)
     \/ \E u \in Members : \/ SetEnabled(u) \/ DeleteUser(u)
                           \/ \E r \in rows : DeleteDevice(u, r.id)
     \/ \E p \in Pages : PageLost(p)
     \/ Restart

PageStep(p) ==
  \/ PageLook(p) \/ PageAsk(p) \/ PageSubscribe(p)
  \/ SubscribeArrive(p) \/ SubscribeRead(p) \/ SubscribeWrite(p)

Next ==
  \/ \E p \in Pages : \/ PageStep(p)
                      \/ \E b \in Browsers : \/ PageLoad(p, b)
                                             \/ \E u \in Members : NotificationClick(p, b, u)
  \/ \E n \in Senders : NotifyEach(n) \/ \E u \in Members : NotifyBegin(n, u)
  \/ Upset

\* the browser runs a page's script, except for a question nobody has to answer; the loop
\* serves the requests in the order they become ready, so none waits behind others for ever
Fairness ==
  \A p \in Pages : /\ WF_vars(PageLook(p)) /\ WF_vars(PageSubscribe(p))
                   /\ SF_vars(SubscribeArrive(p)) /\ SF_vars(SubscribeRead(p))
                   /\ WF_vars(SubscribeWrite(p))

Spec == Init /\ [][Next]_vars
FairSpec == Spec /\ Fairness

-----------------------------------------------------------------------------
(* Properties                                                              *)

\* A row leads only where its own member asked to be told: its endpoint was handed in by a
\* page that sent that member's cookie, whoever else signs in at the same browser, although
\* the row is found in one statement and written by its id in another (routes/push.py:40).
OnlyOwnRows == \A r \in rows : <<r.user, r.endpoint>> \in handed

\* "one subscription per device per user" (routes/push.py:32): no browser is told the same thing
\* twice because two rows of a member lead to one endpoint.
NoEcho == \A r, q \in rows : r.user = q.user /\ r.endpoint = q.endpoint => r = q

\* A subscription that found no row still finds none when it inserts: pages of one browser
\* that subscribe at once never run into uq_push_user_device (schema.py:296).
UpsertNeverCollides ==
  \A p \in Pages :
    pages[p].pc = "write" /\ pages[p].found = 0 => Held(pages[p].user, pages[p].device) = {}

\* A browser shows a member's notifications only if that member subscribed there, although
\* the list of endpoints is read before the first of them is called (push.py:30).
ShownToMember ==
  \A b \in Browsers : \A u \in shown[b] : \E h \in handed : h[1] = u /\ h[2].at = b

\* "re-send to ensure server has it" (push.ts:53): a browser whose member keeps opening pages
\* ends up subscribed, and the server with its current endpoint, once nothing goes wrong any
\* more: whatever was lost, removed or overwritten by a late request before.
Registered(b) ==
  permission[b] = "granted" =>
    /\ sub[b] # 0
    /\ \E r \in Held(cookie[b], [at |-> b, no |-> device[b]]) :
         r.endpoint = [at |-> b, no |-> sub[b]]
Opens(b) == \E p \in Pages : PageLoad(p, b)
Heals ==
  \A b \in Browsers :
    []<><<Opens(b)>>_vars => <>[](cookie[b] \in users => Registered(b))

=============================================================================
