-------------------------- MODULE PushDevicesProofs --------------------------
(***************************************************************************)
(* Theorems of PushDevices, for any number of members, browsers and pages. *)
(*                                                                         *)
(* Only two steps give a row an endpoint, and both are the write of a      *)
(* subscription.  Every other step leaves the rows or takes some away, and *)
(* changes requests only by beginning or ending them: Fading says so, and  *)
(* one lemma carries the invariant through all of them.                    *)
(***************************************************************************)
EXTENDS PushDevices, WellFoundedInduction, TLAPS

\* the highest id exists
IBound == \E n \in Nat : \A r \in rows : r.id <= n

\* uq_push_user_device
IKey == \A r, q \in rows : r.user = q.user /\ r.device = q.device => r = q

\* whoever sends a request hands its endpoint in, and past current_user there is somebody
IAsked ==
  \A p \in Pages :
    /\ pages[p].pc \in AtServer /\ pages[p].user # Nobody =>
         <<pages[p].user, pages[p].endpoint>> \in handed
    /\ pages[p].pc \in {"arrived", "write"} => pages[p].user # Nobody

\* what a subscription read still stands when it writes: the row with the id it found is the
\* member's row of the device, if it is still there
IFound ==
  \A p \in Pages :
    pages[p].pc = "write" /\ pages[p].found # 0 =>
      \A r \in rows : r.id = pages[p].found =>
                        r.user = pages[p].user /\ r.device = pages[p].device

\* one subscription at a time is between its read and its write
IAlone == \A p, q \in Pages : pages[p].pc = "write" /\ pages[q].pc = "write" => p = q

IRows ==
  /\ IBound
  /\ IKey
  /\ IAsked
  /\ IFound
  /\ IAlone
  /\ UpsertNeverCollides
  /\ OnlyOwnRows

-----------------------------------------------------------------------------
(* The id of a new row                                                     *)

\* A set of numbers with a bound, and with 0 in it, has a highest one.
LEMMA BoundedHasMax ==
  ASSUME NEW S \in SUBSET Nat, 0 \in S, NEW n \in Nat, \A x \in S : x <= n
  PROVE  /\ Max(S) \in S
         /\ \A x \in S : x <= Max(S)
<1> DEFINE U == {k \in Nat : \A x \in S : x <= k}
<1>1. U \subseteq Nat /\ U # {}
  OBVIOUS
<1>2. PICK m \in U : \A k \in U : <<k, m>> \notin OpToRel(<, Nat)
  BY <1>1, NatLessThanWellFounded, WFMin, Zenon
<1>3. \A k \in U : ~(k < m)
  BY <1>2 DEF OpToRel
<1>4. m \in S
  <2>1. SUFFICES ASSUME m \notin S
                 PROVE  FALSE
    OBVIOUS
  <2>2. \A x \in S : x <= m /\ x # m
    BY <2>1
  <2>3. m # 0
    BY <2>1
  <2>4. m - 1 \in U
    BY <2>2, <2>3
  <2> QED
    BY <1>3, <2>4
<1>5. \A y \in S : m >= y
  OBVIOUS
<1>6. Max(S) \in S /\ \A y \in S : Max(S) >= y
  BY <1>4, <1>5, Zenon DEF Max
<1> QED
  BY <1>6

\* A new row has an id that no row has, and the ids stay bounded.
LEMMA NewIdIsNew ==
  ASSUME TypeOK, IBound
  PROVE  /\ NewId \in Nat \ {0}
         /\ \A r \in rows : r.id # NewId /\ r.id <= NewId
<1> DEFINE S == {0} \union {r.id : r \in rows}
<1>1. S \subseteq Nat /\ 0 \in S
  BY DEF TypeOK
<1>2. PICK n \in Nat : \A r \in rows : r.id <= n
  BY DEF IBound
<1>3. \A x \in S : x <= n
  BY <1>2
<1>4. Max(S) \in S /\ \A x \in S : x <= Max(S)
  BY <1>1, <1>3, BoundedHasMax
<1>5. NewId = 1 + Max(S)
  BY DEF NewId
<1>6. Max(S) \in Nat
  BY <1>1, <1>4
<1> HIDE DEF S
<1>7. \A r \in rows : r.id \in S
  BY DEF S
<1>8. \A x \in S : x \in Nat
  BY <1>1
<1> QED
  BY <1>4, <1>5, <1>6, <1>7, <1>8

-----------------------------------------------------------------------------
(* Types                                                                   *)

\* The step a page is in tells which record it is.
LEMMA PageKinds ==
  ASSUME TypeOK, NEW p \in Pages
  PROVE  /\ pages[p].pc \in {"look", "ask", "subscribe"} => pages[p] \in InBrowser
         /\ pages[p].pc \in AtServer => pages[p] \in UnderWay
BY DEF TypeOK, Idle, InBrowser, UnderWay, AtServer

\* What sendSubscription changes keeps its type.
LEMMA SentTypes ==
  ASSUME TypeOK, NEW p \in Pages, NEW b \in Browsers, NEW no \in Nat, Sent(p, b, no)
  PROVE  /\ device' \in [Browsers -> Nat] /\ named' \in [Browsers -> Nat]
         /\ pages' \in [Pages -> {Idle} \union InBrowser \union UnderWay]
<1>1. DeviceId(b) \in Nat
  BY DEF TypeOK, DeviceId
<1>2. Request("sent", cookie[b], [at |-> b, no |-> DeviceId(b)], [at |-> b, no |-> no], 0)
        \in UnderWay
  BY <1>1 DEF TypeOK, Request, UnderWay, Endpoint
<1> QED
  BY <1>1, <1>2 DEF TypeOK, Sent

\* The steps of a page in its browser keep the types.
LEMMA BrowserTypes ==
  ASSUME TypeOK, NEW p \in Pages, PageLook(p) \/ PageAsk(p) \/ PageSubscribe(p)
  PROVE  TypeOK'
<1>1. CASE PageLook(p)
  <2>1. pages[p] \in InBrowser
    BY <1>1, PageKinds DEF PageLook
  <2>2. pages[p].at \in Browsers
    BY <2>1 DEF InBrowser
  <2>3. CASE sub[pages[p].at] # 0 /\ Resend(p, pages[p].at)
    <3>1. sub[pages[p].at] \in Nat
      BY <2>2 DEF TypeOK
    <3>2. Sent(p, pages[p].at, sub[pages[p].at])
      BY <2>3 DEF Resend
    <3> QED
      BY <1>1, <2>2, <3>1, <3>2, SentTypes DEF PageLook, TypeOK
  <2>4. CASE sub[pages[p].at] = 0
    <3>1. \A pc \in {"look", "ask", "subscribe"} : Page(pc, pages[p].at) \in InBrowser
      BY <2>2 DEF Page, InBrowser
    <3>2. permission[pages[p].at] \in {"default", "granted", "denied"}
      BY <2>2 DEF TypeOK
    <3>3. \E q \in {Idle} \union InBrowser : pages' = [pages EXCEPT ![p] = q]
      BY <1>1, <2>4, <3>1, <3>2 DEF PageLook, Resend
    <3>4. device' = device /\ named' = named
      BY <1>1, <2>4 DEF PageLook
    <3> QED
      BY <1>1, <3>3, <3>4 DEF PageLook, TypeOK
  <2> QED
    BY <1>1, <2>3, <2>4 DEF PageLook
<1>2. CASE PageAsk(p)
  <2>1. pages[p].at \in Browsers
    BY <1>2, PageKinds DEF PageAsk, InBrowser
  <2>2. Page("subscribe", pages[p].at) \in InBrowser
    BY <2>1 DEF Page, InBrowser
  <2>3. permission' \in [Browsers -> {"default", "granted", "denied"}]
    BY <1>2 DEF PageAsk, TypeOK
  <2>4. pages' \in [Pages -> {Idle} \union InBrowser \union UnderWay]
    BY <1>2, <2>2 DEF PageAsk, TypeOK
  <2> QED
    BY <1>2, <2>3, <2>4 DEF PageAsk, TypeOK
<1>3. CASE PageSubscribe(p)
  <2> DEFINE b == pages[p].at
             no == IF sub[b] = 0 THEN made[b] + 1 ELSE sub[b]
  <2>1. b \in Browsers
    BY <1>3, PageKinds DEF PageSubscribe, InBrowser
  <2>2. no \in Nat
    BY <2>1 DEF TypeOK
  <2>3. CASE Sent(p, b, no) /\ sub' = [sub EXCEPT ![b] = no]
             /\ made' = [made EXCEPT ![b] = IF no > @ THEN no ELSE @]
    <3>1. /\ device' \in [Browsers -> Nat] /\ named' \in [Browsers -> Nat]
          /\ pages' \in [Pages -> {Idle} \union InBrowser \union UnderWay]
      BY <2>1, <2>2, <2>3, SentTypes
    <3> HIDE DEF no
    <3>2. sub' \in [Browsers -> Nat] /\ made' \in [Browsers -> Nat]
      BY <2>2, <2>3 DEF TypeOK
    <3> QED
      BY <1>3, <3>1, <3>2 DEF PageSubscribe, TypeOK
  <2>4. CASE pages' = [pages EXCEPT ![p] = Idle] /\ UNCHANGED <<made, sub, named, device, handed>>
    BY <1>3, <2>4 DEF PageSubscribe, TypeOK
  <2> QED
    BY <1>3, <2>3, <2>4 DEF PageSubscribe
<1> QED
  BY <1>1, <1>2, <1>3

\* The requests at the server keep the types.
LEMMA ServerTypes ==
  ASSUME TypeOK, IBound, NEW p \in Pages,
         SubscribeArrive(p) \/ SubscribeRead(p) \/ SubscribeWrite(p)
  PROVE  TypeOK'
<1>1. CASE SubscribeArrive(p)
  <2>1. pages[p] \in UnderWay
    BY <1>1, PageKinds DEF SubscribeArrive, AtServer
  <2>2. [pages[p] EXCEPT !.pc = "arrived"] \in UnderWay
    BY <2>1 DEF UnderWay
  <2> QED
    BY <1>1, <2>2 DEF SubscribeArrive, TypeOK, browser
<1>2. CASE SubscribeRead(p)
  <2>1. pages[p] \in UnderWay
    BY <1>2, PageKinds DEF SubscribeRead, AtServer
  <2>2. PICK i \in IF Held(pages[p].user, pages[p].device) = {} THEN {0}
                   ELSE {r.id : r \in Held(pages[p].user, pages[p].device)} :
          pages' = [pages EXCEPT ![p].pc = "write", ![p].found = i]
    BY <1>2 DEF SubscribeRead
  <2>3. i \in Nat
    BY <2>2 DEF Held, TypeOK
  <2>4. [pages[p] EXCEPT !.pc = "write", !.found = i] \in UnderWay
    BY <2>1, <2>3 DEF UnderWay
  <2>5. pages' = [pages EXCEPT ![p] = [pages[p] EXCEPT !.pc = "write", !.found = i]]
    BY <2>2 DEF TypeOK
  <2> QED
    BY <1>2, <2>4, <2>5 DEF SubscribeRead, TypeOK, browser
<1>3. CASE SubscribeWrite(p)
  <2>1. pages[p] \in UnderWay
    BY <1>3, PageKinds DEF SubscribeWrite, AtServer
  <2>2. pages[p].endpoint \in Endpoint /\ pages[p].device \in Endpoint
    BY <2>1 DEF UnderWay
  <2>3. /\ rows' \subseteq [id : Nat \ {0}, user : users, device : Endpoint, endpoint : Endpoint]
        /\ \A r, q \in rows' : r.id = q.id => r = q
    <3>1. CASE pages[p].found # 0
      <4>1. rows' = {IF r.id = pages[p].found THEN [r EXCEPT !.endpoint = pages[p].endpoint]
                                              ELSE r : r \in rows}
        BY <1>3, <3>1 DEF SubscribeWrite
      <4>2. \A r \in rows :
              /\ [r EXCEPT !.endpoint = pages[p].endpoint]
                   \in [id : Nat \ {0}, user : users, device : Endpoint, endpoint : Endpoint]
              /\ [r EXCEPT !.endpoint = pages[p].endpoint].id = r.id
        BY <2>2 DEF TypeOK
      <4>3. /\ rows \subseteq [id : Nat \ {0}, user : users, device : Endpoint,
                                endpoint : Endpoint]
            /\ \A r, q \in rows : r.id = q.id => r = q
        BY DEF TypeOK
      <4>4. rows' \subseteq [id : Nat \ {0}, user : users, device : Endpoint,
                             endpoint : Endpoint]
        BY <4>1, <4>2, <4>3
      <4>5. ASSUME NEW a \in rows', NEW b \in rows', a.id = b.id
            PROVE  a = b
        <5>1. PICK r \in rows : /\ a = IF r.id = pages[p].found
                                        THEN [r EXCEPT !.endpoint = pages[p].endpoint] ELSE r
                                /\ a.id = r.id
          BY <4>1, <4>2
        <5>2. PICK s \in rows : /\ b = IF s.id = pages[p].found
                                        THEN [s EXCEPT !.endpoint = pages[p].endpoint] ELSE s
                                /\ b.id = s.id
          BY <4>1, <4>2
        <5>3. r = s
          BY <4>3, <4>5, <5>1, <5>2
        <5> QED
          BY <5>1, <5>2, <5>3
      <4> QED
        BY <4>4, <4>5
    <3>2. CASE pages[p].found = 0
      <4> DEFINE new == [id |-> NewId, user |-> pages[p].user, device |-> pages[p].device,
                         endpoint |-> pages[p].endpoint]
      <4>1. rows' = rows \union {r \in {new} : pages[p].user \in users
                                               /\ Held(pages[p].user, pages[p].device) = {}}
        BY <1>3, <3>2 DEF SubscribeWrite
      <4>2. NewId \in Nat \ {0} /\ \A r \in rows : r.id # NewId
        BY NewIdIsNew
      <4>3. new.id = NewId
        OBVIOUS
      <4>4. pages[p].user \in users =>
              new \in [id : Nat \ {0}, user : users, device : Endpoint, endpoint : Endpoint]
        BY <2>2, <4>2
      <4> HIDE DEF new
      <4> QED
        BY <4>1, <4>2, <4>3, <4>4 DEF TypeOK
    <3> QED
      BY <3>1, <3>2
  <2> QED
    BY <1>3, <2>3 DEF SubscribeWrite, TypeOK, browser
<1> QED
  BY <1>1, <1>2, <1>3

\* Loading pages, telling members and reading what they were told keeps the types.
LEMMA NotifyTypes ==
  ASSUME TypeOK,
         \/ \E p \in Pages, b \in Browsers : PageLoad(p, b)
         \/ \E p \in Pages, b \in Browsers, u \in Members : NotificationClick(p, b, u)
         \/ \E n \in Senders : NotifyEach(n)
         \/ \E n \in Senders, u \in Members : NotifyBegin(n, u)
  PROVE  TypeOK'
<1>0. \A b \in Browsers : Page("look", b) \in InBrowser
  BY DEF Page, InBrowser
<1>1. CASE \E p \in Pages, b \in Browsers : PageLoad(p, b)
  BY <1>0, <1>1 DEF PageLoad, TypeOK, browser
<1>2. CASE \E p \in Pages, b \in Browsers, u \in Members : NotificationClick(p, b, u)
  BY <1>0, <1>2 DEF NotificationClick, TypeOK, browser
<1>3. CASE \E n \in Senders : NotifyEach(n)
  <2>1. PICK n \in Senders : NotifyEach(n)
    BY <1>3
  <2>2. PICK e \in sends[n].due :
          /\ sends' = [sends EXCEPT ![n] = IF sends[n].due = {e} THEN NoSend
                                           ELSE [sends[n] EXCEPT !.due = sends[n].due \ {e}]]
          /\ \/ shown' = shown
             \/ /\ Live(e)
                /\ shown' = [shown EXCEPT ![e.at] = @ \union {sends[n].to}]
    BY <2>1 DEF NotifyEach, Received
  <2>3. /\ sends[n] \in [to : Members \union {Nobody}, due : SUBSET Endpoint]
        /\ sends[n].due \subseteq Endpoint
    BY DEF TypeOK
  <2>4. sends' \in [Senders -> [to : Members \union {Nobody}, due : SUBSET Endpoint]]
    BY <2>2, <2>3 DEF TypeOK, NoSend
  <2>5. shown' \in [Browsers -> SUBSET Members]
    BY <2>2, <2>3 DEF TypeOK
  <2>6. \A m \in Senders : sends'[m].due # {} => sends'[m].to # Nobody
    BY <2>2, <2>3 DEF TypeOK, NoSend
  <2> QED
    BY <2>1, <2>4, <2>5, <2>6 DEF NotifyEach, Received, TypeOK, browser
<1>4. CASE \E n \in Senders, u \in Members : NotifyBegin(n, u)
  <2>1. PICK n \in Senders, u \in Members : NotifyBegin(n, u)
    BY <1>4
  <2>2. Targets(u) \subseteq Endpoint
    BY DEF Targets, TypeOK
  <2>3. u # Nobody
    BY PushAssumption
  <2> QED
    BY <2>1, <2>2, <2>3 DEF NotifyBegin, TypeOK, browser
<1> QED
  BY <1>1, <1>2, <1>3, <1>4

\* What goes wrong keeps the types.
LEMMA UpsetTypes ==
  ASSUME TypeOK, Upset
  PROVE  TypeOK'
<1>0. upsets' \in 0 .. MaxUpsets
  BY PushAssumption DEF Upset, TypeOK
<1>1. CASE \E b \in Browsers : SignIn(b) \/ SignOut(b)
  BY <1>0, <1>1 DEF SignIn, SignOut, TypeOK
<1>2. CASE \E b \in Browsers : SubscriptionLost(b)
  BY <1>0, <1>2 DEF SubscriptionLost, TypeOK
<1>3. CASE \E b \in Browsers : SiteCleared(b)
  BY <1>0, <1>3 DEF SiteCleared, TypeOK
<1>4. CASE \E b \in Browsers : Unsubscribe(b)
  BY <1>0, <1>4 DEF Unsubscribe, TypeOK, browser
<1>5. CASE \E u \in Members : SetEnabled(u)
  BY <1>0, <1>5 DEF SetEnabled, TypeOK, browser
<1>6. CASE \E u \in Members : DeleteUser(u)
  BY <1>0, <1>6 DEF DeleteUser, Cascade, TypeOK, browser
<1>7. CASE \E u \in Members, r \in rows : DeleteDevice(u, r.id)
  BY <1>0, <1>7 DEF DeleteDevice, TypeOK, browser
<1>8. CASE \E p \in Pages : PageLost(p)
  BY <1>0, <1>8 DEF PageLost, TypeOK, browser
<1>9. CASE Restart
  BY <1>0, <1>9 DEF Restart, TypeOK, browser, NoSend
<1> QED
  BY <1>1, <1>2, <1>3, <1>4, <1>5, <1>6, <1>7, <1>8, <1>9 DEF Upset

\* Every step keeps the types.
LEMMA TypeStep ==
  ASSUME TypeOK, IBound, [Next]_vars
  PROVE  TypeOK'
<1>1. CASE UNCHANGED vars
  BY <1>1 DEF TypeOK, vars, browser
<1> QED
  BY <1>1, BrowserTypes, ServerTypes, NotifyTypes, UpsetTypes DEF Next, PageStep

-----------------------------------------------------------------------------
(* The rows and the requests for them                                      *)

\* Rows at most go; a request at most begins, its endpoint handed in, or ends.
Fading ==
  /\ rows' \subseteq rows
  /\ handed \subseteq handed'
  /\ \A p \in Pages :
       \/ pages'[p] = pages[p]
       \/ /\ pages'[p].pc \notin {"arrived", "write"}
          /\ pages'[p].pc = "sent" /\ pages'[p].user # Nobody =>
               <<pages'[p].user, pages'[p].endpoint>> \in handed'

LEMMA FadingKeeps ==
  ASSUME IRows, Fading
  PROVE  IRows'
<1> USE DEF Fading
<1>1. IBound'
  BY DEF IRows, IBound
<1>2. IKey'
  BY DEF IRows, IKey
<1>3. IAsked'
  BY DEF IRows, IAsked, AtServer
<1>4. IFound'
  BY DEF IRows, IFound
<1>5. IAlone'
  BY DEF IRows, IAlone
<1>6. UpsertNeverCollides'
  BY DEF IRows, UpsertNeverCollides, Held
<1>7. OnlyOwnRows'
  BY DEF IRows, OnlyOwnRows
<1> QED
  BY <1>1, <1>2, <1>3, <1>4, <1>5, <1>6, <1>7 DEF IRows

\* sendSubscription begins a request whose endpoint it hands in.
LEMMA SentFades ==
  ASSUME TypeOK, NEW p \in Pages, NEW b \in Browsers, NEW no \in Nat, Sent(p, b, no),
         rows' = rows
  PROVE  Fading
<1> DEFINE e == [at |-> b, no |-> no]
           q == Request("sent", cookie[b], [at |-> b, no |-> DeviceId(b)], e, 0)
<1>1. pages' = [pages EXCEPT ![p] = q] /\ handed' = handed \union
                 {<<u, e>> : u \in {cookie[b]} \ {Nobody}}
  BY DEF Sent
<1>2. q.pc = "sent" /\ q.user = cookie[b] /\ q.endpoint = e
  BY DEF Request
<1> HIDE DEF q, e
<1> QED
  BY <1>1, <1>2 DEF Fading, TypeOK

\* The steps of a page in its browser fade.
LEMMA BrowserFades ==
  ASSUME TypeOK, NEW p \in Pages, PageLook(p) \/ PageAsk(p) \/ PageSubscribe(p)
  PROVE  Fading
<1>0. /\ Idle.pc = "idle"
      /\ \A pc, b : Page(pc, b).pc = pc
  BY DEF Idle, Page
<1>1. CASE PageLook(p)
  <2>1. pages[p].at \in Browsers
    BY <1>1, PageKinds DEF PageLook, InBrowser
  <2>2. CASE sub[pages[p].at] # 0 /\ Resend(p, pages[p].at)
    <3>1. sub[pages[p].at] \in Nat /\ rows' = rows
      BY <1>1, <2>1 DEF TypeOK, PageLook
    <3> QED
      BY <2>1, <2>2, <3>1, SentFades DEF Resend
  <2>3. CASE sub[pages[p].at] = 0
    <3>1. permission[pages[p].at] \in {"default", "granted", "denied"}
      BY <2>1 DEF TypeOK
    <3>2. \E q \in {Idle, Page("subscribe", pages[p].at), Page("ask", pages[p].at)} :
             pages' = [pages EXCEPT ![p] = q]
      BY <1>1, <2>3, <3>1 DEF PageLook
    <3>3. rows' = rows /\ handed' = handed
      BY <1>1, <2>3 DEF PageLook
    <3> QED
      BY <1>0, <3>2, <3>3 DEF Fading, TypeOK
  <2> QED
    BY <1>1, <2>2, <2>3 DEF PageLook
<1>2. CASE PageAsk(p)
  BY <1>0, <1>2 DEF PageAsk, Fading, TypeOK
<1>3. CASE PageSubscribe(p)
  <2> DEFINE b == pages[p].at
             no == IF sub[b] = 0 THEN made[b] + 1 ELSE sub[b]
  <2>1. b \in Browsers
    BY <1>3, PageKinds DEF PageSubscribe, InBrowser
  <2>2. no \in Nat /\ rows' = rows
    BY <1>3, <2>1 DEF TypeOK, PageSubscribe
  <2>3. CASE Sent(p, b, no)
    <3> HIDE DEF no
    <3> QED
      BY <2>1, <2>2, <2>3, SentFades
  <2>4. CASE pages' = [pages EXCEPT ![p] = Idle] /\ handed' = handed
    BY <1>0, <2>2, <2>4 DEF Fading, TypeOK
  <2> QED
    BY <1>3, <2>3, <2>4 DEF PageSubscribe
<1> QED
  BY <1>1, <1>2, <1>3

\* So do the pages that load, the notifications, and everything that goes wrong.
LEMMA OthersFade ==
  ASSUME TypeOK,
         \/ \E p \in Pages, b \in Browsers : PageLoad(p, b)
         \/ \E p \in Pages, b \in Browsers, u \in Members : NotificationClick(p, b, u)
         \/ \E n \in Senders : NotifyEach(n)
         \/ \E n \in Senders, u \in Members : NotifyBegin(n, u)
         \/ Upset
         \/ UNCHANGED vars
  PROVE  Fading
<1>0. /\ Idle.pc = "idle"
      /\ \A pc, b : Page(pc, b).pc = pc
  BY DEF Idle, Page
<1>1. CASE \E p \in Pages, b \in Browsers : PageLoad(p, b)
  BY <1>0, <1>1 DEF PageLoad, Fading, TypeOK
<1>2. CASE \E p \in Pages, b \in Browsers, u \in Members : NotificationClick(p, b, u)
  BY <1>0, <1>2 DEF NotificationClick, Fading, TypeOK
<1>3. CASE \E n \in Senders : NotifyEach(n)
  BY <1>3 DEF NotifyEach, Received, Fading
<1>4. CASE \E n \in Senders, u \in Members : NotifyBegin(n, u)
  BY <1>4 DEF NotifyBegin, Fading
<1>5. CASE Upset
  <2>1. CASE \E b \in Browsers : \/ SignIn(b) \/ SignOut(b)
                                 \/ SubscriptionLost(b) \/ SiteCleared(b)
    BY <2>1 DEF SignIn, SignOut, SubscriptionLost, SiteCleared, Fading
  <2>2. CASE \E b \in Browsers : Unsubscribe(b)
    BY <2>2 DEF Unsubscribe, Fading
  <2>3. CASE \E u \in Members : SetEnabled(u) \/ DeleteUser(u)
    BY <2>3 DEF SetEnabled, DeleteUser, Cascade, Fading
  <2>4. CASE \E u \in Members, r \in rows : DeleteDevice(u, r.id)
    BY <2>4 DEF DeleteDevice, Fading
  <2>5. CASE \E p \in Pages : PageLost(p)
    BY <1>0, <2>5 DEF PageLost, Fading, TypeOK
  <2>6. CASE Restart
    BY <1>0, <2>6 DEF Restart, Fading
  <2> QED
    BY <1>5, <2>1, <2>2, <2>3, <2>4, <2>5, <2>6 DEF Upset
<1>6. CASE UNCHANGED vars
  BY <1>6 DEF vars, Fading
<1> QED
  BY <1>1, <1>2, <1>3, <1>4, <1>5, <1>6

\* A request that is taken up has a member; it is ended otherwise.
LEMMA ArriveKeeps ==
  ASSUME TypeOK, IRows, NEW p \in Pages, SubscribeArrive(p)
  PROVE  IRows'
<1>1. pages[p] \in UnderWay
  BY PageKinds DEF SubscribeArrive, AtServer
<1>2. CASE pages[p].user \notin users
  BY <1>2, FadingKeeps DEF SubscribeArrive, Fading, Idle, TypeOK
<1>3. CASE pages[p].user \in users
  <2> DEFINE q == [pages[p] EXCEPT !.pc = "arrived"]
  <2>1. /\ pages' = [pages EXCEPT ![p] = q]
        /\ rows' = rows /\ handed' = handed
    BY <1>3 DEF SubscribeArrive
  <2>2. /\ q.pc = "arrived" /\ q.user = pages[p].user /\ q.endpoint = pages[p].endpoint
        /\ q.user # Nobody
    BY <1>1, <1>3, PushAssumption DEF UnderWay, TypeOK
  <2>3. pages[p].pc \in AtServer
    BY DEF SubscribeArrive, AtServer
  <2> HIDE DEF q
  <2>4. \A r \in Pages : pages'[r] = IF r = p THEN q ELSE pages[r]
    BY <2>1 DEF TypeOK
  <2>5. IAsked'
    BY <2>1, <2>2, <2>3, <2>4 DEF IRows, IAsked, AtServer
  <2>6. IFound' /\ IAlone'
    BY <2>1, <2>2, <2>4 DEF IRows, IFound, IAlone
  <2>7. UpsertNeverCollides'
    BY <2>1, <2>2, <2>4 DEF IRows, UpsertNeverCollides, Held
  <2>8. IBound' /\ IKey' /\ OnlyOwnRows'
    BY <2>1 DEF IRows, IBound, IKey, OnlyOwnRows
  <2> QED
    BY <2>5, <2>6, <2>7, <2>8 DEF IRows
<1> QED
  BY <1>2, <1>3

\* What a subscription finds is true when it has read it, and it is alone with it.
LEMMA ReadKeeps ==
  ASSUME TypeOK, IRows, NEW p \in Pages, SubscribeRead(p)
  PROVE  IRows'
<1> DEFINE held == Held(pages[p].user, pages[p].device)
<1>1. pages[p] \in UnderWay
  BY PageKinds DEF SubscribeRead, AtServer
<1>2. PICK i \in IF held = {} THEN {0} ELSE {r.id : r \in held} :
        pages' = [pages EXCEPT ![p].pc = "write", ![p].found = i]
  BY DEF SubscribeRead
<1> DEFINE q == [pages[p] EXCEPT !.pc = "write", !.found = i]
<1>3. /\ q.pc = "write" /\ q.found = i /\ q.user = pages[p].user
      /\ q.endpoint = pages[p].endpoint /\ q.device = pages[p].device
  BY <1>1 DEF UnderWay
<1>4. \A r \in Pages : pages'[r] = IF r = p THEN q ELSE pages[r]
  BY <1>2 DEF TypeOK
<1>5. rows' = rows /\ handed' = handed /\ pages[p].pc = "arrived" /\ LoopFree
  BY DEF SubscribeRead
<1>6. i = 0 => held = {}
  BY <1>2 DEF Held, TypeOK
<1>7. i # 0 => \A r \in rows : r.id = i => r.user = pages[p].user /\ r.device = pages[p].device
  BY <1>2 DEF Held, TypeOK
<1> HIDE DEF q, held
<1>8. IAsked'
  BY <1>3, <1>4, <1>5 DEF IRows, IAsked, AtServer
<1>9. IFound' /\ IAlone'
  BY <1>3, <1>4, <1>5, <1>7 DEF IRows, IFound, IAlone, LoopFree
<1>10. UpsertNeverCollides'
  BY <1>3, <1>4, <1>5, <1>6 DEF IRows, UpsertNeverCollides, Held, LoopFree, held
<1>11. IBound' /\ IKey' /\ OnlyOwnRows'
  BY <1>5 DEF IRows, IBound, IKey, OnlyOwnRows
<1> QED
  BY <1>8, <1>9, <1>10, <1>11 DEF IRows

\* After a write nothing is between a read and a write, and every other request is as it was.
LEMMA WriteEndsAlone ==
  ASSUME TypeOK, IRows, NEW p \in Pages, SubscribeWrite(p)
  PROVE  IAsked' /\ IFound' /\ IAlone' /\ UpsertNeverCollides'
<1>1. /\ \A q \in Pages : pages'[q] = IF q = p THEN Idle ELSE pages[q]
      /\ handed' = handed /\ pages[p].pc = "write" /\ Idle.pc = "idle"
  BY DEF SubscribeWrite, TypeOK, Idle
<1>2. \A q \in Pages : pages'[q].pc # "write"
  BY <1>1 DEF IRows, IAlone
<1> QED
  BY <1>1, <1>2 DEF IRows, IAsked, IFound, IAlone, UpsertNeverCollides, AtServer

\* A write gives its endpoint to the member's own row of the device, found or new.
LEMMA WriteKeeps ==
  ASSUME TypeOK, IRows, NEW p \in Pages, SubscribeWrite(p)
  PROVE  IRows'
<1> DEFINE q == pages[p]
<1>1. q \in UnderWay /\ q.pc = "write"
  BY PageKinds DEF SubscribeWrite, AtServer
<1>2. q.user # Nobody /\ <<q.user, q.endpoint>> \in handed /\ handed' = handed
  BY <1>1 DEF IRows, IAsked, AtServer, SubscribeWrite
<1>3. CASE q.found # 0
  <2> DEFINE upd(r) == [r EXCEPT !.endpoint = q.endpoint]
  <2>1. rows' = {IF r.id = q.found THEN upd(r) ELSE r : r \in rows}
    BY <1>3 DEF SubscribeWrite
  <2>2. \A r \in rows : /\ upd(r).id = r.id /\ upd(r).user = r.user /\ upd(r).device = r.device
                        /\ upd(r).endpoint = q.endpoint
    BY DEF TypeOK
  <2>3. \A r \in rows : r.id = q.found => r.user = q.user
    BY <1>1, <1>3 DEF IRows, IFound
  <2> HIDE DEF upd
  <2>4. \A s \in rows' : \E r \in rows :
          /\ s = IF r.id = q.found THEN upd(r) ELSE r
          /\ s.id = r.id /\ s.user = r.user /\ s.device = r.device
    BY <2>1, <2>2
  <2>5. IBound'
    BY <2>4 DEF IRows, IBound
  <2>6. IKey'
    <3>1. ASSUME NEW a \in rows', NEW b \in rows', a.user = b.user, a.device = b.device
          PROVE  a = b
      <4>1. PICK r \in rows : /\ a = IF r.id = q.found THEN upd(r) ELSE r
                              /\ a.user = r.user /\ a.device = r.device
        BY <2>4
      <4>2. PICK s \in rows : /\ b = IF s.id = q.found THEN upd(s) ELSE s
                              /\ b.user = s.user /\ b.device = s.device
        BY <2>4
      <4>3. r = s
        BY <3>1, <4>1, <4>2 DEF IRows, IKey
      <4> QED
        BY <4>1, <4>2, <4>3
    <3> QED
      BY <3>1 DEF IKey
  <2>7. OnlyOwnRows'
    <3>1. ASSUME NEW s \in rows'
          PROVE  <<s.user, s.endpoint>> \in handed'
      <4>1. PICK r \in rows : /\ s = IF r.id = q.found THEN upd(r) ELSE r
                              /\ s.user = r.user
        BY <2>4
      <4>2. CASE r.id = q.found
        BY <1>2, <2>2, <2>3, <4>1, <4>2
      <4>3. CASE r.id # q.found
        BY <1>2, <4>1, <4>3 DEF IRows, OnlyOwnRows
      <4> QED
        BY <4>2, <4>3
    <3> QED
      BY <3>1 DEF OnlyOwnRows
  <2> QED
    BY <2>5, <2>6, <2>7, WriteEndsAlone DEF IRows
<1>4. CASE q.found = 0
  <2> DEFINE new == [id |-> NewId, user |-> q.user, device |-> q.device, endpoint |-> q.endpoint]
  <2>1. \/ rows' = rows
        \/ rows' = rows \union {new}
    BY <1>4 DEF SubscribeWrite
  <2>2. \A r \in rows : ~(r.user = q.user /\ r.device = q.device)
    BY <1>1, <1>4 DEF IRows, UpsertNeverCollides, Held
  <2>3. NewId \in Nat /\ \A r \in rows : r.id <= NewId
    BY NewIdIsNew DEF IRows
  <2>4. new.id = NewId /\ new.user = q.user /\ new.device = q.device /\ new.endpoint = q.endpoint
    OBVIOUS
  <2> HIDE DEF new
  <2>5. IBound'
    BY <2>1, <2>3, <2>4 DEF IRows, IBound
  <2>6. IKey'
    BY <2>1, <2>2, <2>4 DEF IRows, IKey
  <2>7. OnlyOwnRows'
    BY <1>2, <2>1, <2>4 DEF IRows, OnlyOwnRows
  <2> QED
    BY <2>5, <2>6, <2>7, WriteEndsAlone DEF IRows
<1> QED
  BY <1>3, <1>4

LEMMA RowsInit ==
  Init => TypeOK /\ IRows
<1> SUFFICES ASSUME Init PROVE TypeOK /\ IRows
  OBVIOUS
<1>1. TypeOK
  BY PushAssumption DEF Init, TypeOK, NoSend
<1>2. IRows
  BY DEF Init, IRows, IBound, IKey, IAsked, IFound, IAlone, UpsertNeverCollides, OnlyOwnRows,
         Idle, AtServer
<1> QED
  BY <1>1, <1>2

LEMMA RowsStep ==
  TypeOK /\ IRows /\ [Next]_vars => TypeOK' /\ IRows'
<1> SUFFICES ASSUME TypeOK, IRows, [Next]_vars PROVE TypeOK' /\ IRows'
  OBVIOUS
<1>1. TypeOK'
  BY TypeStep DEF IRows
<1>2. CASE \E p \in Pages : SubscribeArrive(p) \/ SubscribeRead(p) \/ SubscribeWrite(p)
  BY <1>1, <1>2, ArriveKeeps, ReadKeeps, WriteKeeps
<1>3. CASE \E p \in Pages : PageLook(p) \/ PageAsk(p) \/ PageSubscribe(p)
  BY <1>1, <1>3, BrowserFades, FadingKeeps
<1>4. CASE \/ \E p \in Pages, b \in Browsers : PageLoad(p, b)
           \/ \E p \in Pages, b \in Browsers, u \in Members : NotificationClick(p, b, u)
           \/ \E n \in Senders : NotifyEach(n)
           \/ \E n \in Senders, u \in Members : NotifyBegin(n, u)
           \/ Upset
           \/ UNCHANGED vars
  BY <1>1, <1>4, OthersFade, FadingKeeps
<1> QED
  BY <1>1, <1>2, <1>3, <1>4 DEF Next, PageStep

LEMMA RowsAlways == Spec => [](TypeOK /\ IRows)
  BY RowsInit, RowsStep, PTL DEF Spec

\* The types hold in every state.
THEOREM TypeCorrect == Spec => []TypeOK
  BY RowsAlways, PTL

\* No row leads to an endpoint its member did not hand in, whoever shares a browser and
\* whatever is deleted between the read and the write of a subscription.
THEOREM RowsAreOwn == Spec => []OnlyOwnRows
<1>1. IRows => OnlyOwnRows
  BY DEF IRows
<1> QED
  BY RowsAlways, <1>1, PTL

\* A subscription that found no row can always insert one: uq_push_user_device refuses nothing.
THEOREM UpsertSafe == Spec => []UpsertNeverCollides
<1>1. IRows => UpsertNeverCollides
  BY DEF IRows
<1> QED
  BY RowsAlways, <1>1, PTL

-----------------------------------------------------------------------------
(* One subscription per device per user: an endpoint keeps one device id   *)

\* the endpoints that rows or requests carry, each with the device id beside it
Carried ==
  {<<r.endpoint, r.device>> : r \in rows}
    \union {<<pages[p].endpoint, pages[p].device>> : p \in {q \in Pages : pages[q].pc \in AtServer}}

\* An endpoint a browser still has goes with the device id it still has, and no endpoint was
\* ever sent with two: both are lost together, and a new subscription has a new number.
IPair ==
  /\ \A b \in Browsers : sub[b] <= made[b]
  /\ \A c \in Carried :
       LET b == c[1].at IN
         /\ c[1].no <= made[b]
         /\ sub[b] # 0 /\ c[1].no = sub[b] => /\ device[b] # 0
                                              /\ c[2] = [at |-> b, no |-> device[b]]
  /\ \A c, e \in Carried : c[1] = e[1] => c[2] = e[2]

LEMMA CarriedType ==
  ASSUME TypeOK
  PROVE  \A c \in Carried : c[1] \in Endpoint /\ c[2] \in Endpoint
<1>1. \A r \in rows : r.endpoint \in Endpoint /\ r.device \in Endpoint
  BY DEF TypeOK
<1>2. \A p \in Pages : pages[p].pc \in AtServer =>
                         pages[p].endpoint \in Endpoint /\ pages[p].device \in Endpoint
  BY PageKinds DEF UnderWay
<1> QED
  BY <1>1, <1>2 DEF Carried

\* What carries nothing new and changes a browser only by ending its subscription.
PairFading ==
  /\ Carried' \subseteq Carried
  /\ made' = made
  /\ \A b \in Browsers : sub'[b] = 0 \/ (sub'[b] = sub[b] /\ device'[b] = device[b])

LEMMA PairFadingKeeps ==
  ASSUME TypeOK, TypeOK', IPair, PairFading
  PROVE  IPair'
<1>1. \A c \in Carried : c[1].at \in Browsers /\ c[1].no \in Nat
  BY CarriedType DEF Endpoint
<1>2. \A b \in Browsers : sub'[b] <= made'[b]
  BY DEF IPair, PairFading, TypeOK
<1>3. \A c \in Carried' : c \in Carried
  BY DEF PairFading
<1> QED
  BY <1>1, <1>2, <1>3 DEF IPair, PairFading

\* A browser sends the endpoint it has, or a new one, with the device id it has from then on.
LEMMA SentPairs ==
  ASSUME TypeOK, TypeOK', IPair, NEW p \in Pages, NEW b \in Browsers, NEW no \in Nat \ {0},
         Sent(p, b, no), rows' = rows,
         \/ no = sub[b] /\ sub' = sub /\ made' = made
         \/ /\ sub[b] = 0 /\ no = made[b] + 1
            /\ sub' = [sub EXCEPT ![b] = no] /\ made' = [made EXCEPT ![b] = no]
  PROVE  IPair'
<1> DEFINE e == [at |-> b, no |-> no]
           d == [at |-> b, no |-> DeviceId(b)]
           new == <<e, d>>
           q == Request("sent", cookie[b], d, e, 0)
<1>1. DeviceId(b) \in Nat \ {0} /\ (device[b] # 0 => DeviceId(b) = device[b])
  BY DEF DeviceId, TypeOK
<1>2. /\ device' = [device EXCEPT ![b] = DeviceId(b)]
      /\ pages' = [pages EXCEPT ![p] = q]
  BY DEF Sent
<1>3. e.at = b /\ e.no = no /\ d = [at |-> b, no |-> DeviceId(b)]
  OBVIOUS
<1>4. q.endpoint = e /\ q.device = d
  BY DEF Request
<1>5. new[1] = e /\ new[2] = d
  OBVIOUS
<1> HIDE DEF q
<1>6. \A c \in Carried' : c \in Carried \/ c = new
  BY <1>2, <1>4 DEF Carried, TypeOK
<1>7. \A c \in Carried : c[1].at \in Browsers /\ c[1].no \in Nat
  BY CarriedType DEF Endpoint
<1>8. \A c \in Carried : c[1] \in Endpoint
  BY CarriedType
<1> HIDE DEF e, d, new
<1>9. \A c \in Carried : c[1].at = b /\ c[1].no = no => c[2] = d
  <2>1. made[b] \in Nat
    BY DEF TypeOK
  <2>2. \A c \in Carried : c[1].at = b => c[1].no <= made[b]
    BY DEF IPair
  <2>3. CASE sub[b] = 0 /\ no = made[b] + 1
    BY <1>7, <2>1, <2>2, <2>3
  <2>4. CASE no = sub[b]
    BY <1>1, <1>3, <2>4 DEF IPair
  <2> QED
    BY <2>3, <2>4
<1>10. \A c \in Carried : c[1].at = b /\ c[1].no = sub'[b] => c[2] = d
  BY <1>9 DEF TypeOK
<1>11. \A a \in Browsers \ {b} : /\ sub'[a] = sub[a] /\ made'[a] = made[a]
                                 /\ device'[a] = device[a]
  BY <1>2 DEF TypeOK
<1>12. sub'[b] = no /\ made'[b] >= made[b] /\ no <= made'[b] /\ device'[b] = DeviceId(b)
  BY <1>1, <1>2 DEF TypeOK, IPair
<1>13. \A a \in Browsers : sub'[a] <= made'[a]
  BY <1>11, <1>12 DEF IPair
<1>14. \A c \in Carried : c[1].no <= made'[c[1].at]
  <2>1. \A a \in Browsers : made[a] \in Nat /\ made'[a] \in Nat
    BY DEF TypeOK
  <2>2. \A a \in Browsers : made[a] <= made'[a]
    BY <1>11, <1>12, <2>1
  <2>3. \A c \in Carried : c[1].no <= made[c[1].at]
    BY DEF IPair
  <2> QED
    BY <1>7, <2>1, <2>2, <2>3
<1>15. \A c \in Carried : LET a == c[1].at IN
         sub'[a] # 0 /\ c[1].no = sub'[a] => /\ device'[a] # 0
                                             /\ c[2] = [at |-> a, no |-> device'[a]]
  BY <1>1, <1>3, <1>7, <1>10, <1>11, <1>12 DEF IPair
<1>16. \A c \in Carried : c[1] = e => c[2] = d
  BY <1>3, <1>9
<1>17. \A c, f \in Carried' : c[1] = f[1] => c[2] = f[2]
  BY <1>5, <1>6, <1>16 DEF IPair
<1>18. \A c \in Carried' :
       LET a == c[1].at IN
         /\ c[1].no <= made'[a]
         /\ sub'[a] # 0 /\ c[1].no = sub'[a] => /\ device'[a] # 0
                                                /\ c[2] = [at |-> a, no |-> device'[a]]
  BY <1>1, <1>3, <1>5, <1>6, <1>12, <1>14, <1>15
<1> QED
  BY <1>13, <1>17, <1>18 DEF IPair

LEMMA CarriedShrinks ==
  ASSUME rows' \subseteq rows,
         \A p \in Pages : pages'[p].pc \in AtServer =>
            /\ pages[p].pc \in AtServer
            /\ pages'[p].endpoint = pages[p].endpoint /\ pages'[p].device = pages[p].device
  PROVE  Carried' \subseteq Carried
BY DEF Carried

\* A write gives a row the endpoint its request carries with the row's device id.
LEMMA WritePairs ==
  ASSUME TypeOK, IRows, NEW p \in Pages, SubscribeWrite(p)
  PROVE  PairFading
<1> DEFINE q == pages[p]
           Brought == <<q.endpoint, q.device>>
<1>1. q \in UnderWay /\ q.pc = "write" /\ q.pc \in AtServer
  BY PageKinds DEF SubscribeWrite, AtServer
<1>2. Brought \in Carried
  BY <1>1 DEF Carried
<1>3. \A s \in rows' : <<s.endpoint, s.device>> \in Carried
  <2>1. \A r \in rows : <<r.endpoint, r.device>> \in Carried
    BY DEF Carried
  <2>2. CASE q.found # 0
    <3> DEFINE upd(r) == [r EXCEPT !.endpoint = q.endpoint]
    <3>1. rows' = {IF r.id = q.found THEN upd(r) ELSE r : r \in rows}
      BY <2>2 DEF SubscribeWrite
    <3>2. \A r \in rows : upd(r).device = r.device /\ upd(r).endpoint = q.endpoint
      BY DEF TypeOK
    <3>3. \A r \in rows : r.id = q.found => r.device = q.device
      BY <1>1, <2>2 DEF IRows, IFound
    <3> HIDE DEF upd
    <3>4. \A r \in rows : r.id = q.found => <<upd(r).endpoint, upd(r).device>> \in Carried
      BY <1>2, <3>2, <3>3
    <3> QED
      BY <2>1, <3>1, <3>4
  <2>3. CASE q.found = 0
    <3> DEFINE new == [id |-> NewId, user |-> q.user, device |-> q.device,
                       endpoint |-> q.endpoint]
    <3>1. rows' \subseteq rows \union {new}
      BY <2>3 DEF SubscribeWrite
    <3>2. new.endpoint = q.endpoint /\ new.device = q.device
      OBVIOUS
    <3> HIDE DEF new
    <3> QED
      BY <1>2, <2>1, <3>1, <3>2
  <2> QED
    BY <2>2, <2>3
<1>4. \A r \in Pages : pages'[r].pc \in AtServer => r # p /\ pages'[r] = pages[r]
  BY DEF SubscribeWrite, TypeOK, Idle, AtServer
<1>5. \A r \in Pages : pages'[r].pc \in AtServer =>
                         <<pages'[r].endpoint, pages'[r].device>> \in Carried
  BY <1>4 DEF Carried
<1>6. Carried' \subseteq Carried
  BY <1>3, <1>5 DEF Carried
<1> QED
  BY <1>6 DEF SubscribeWrite, PairFading, browser

\* Taking a request up and reading for it change neither its endpoint nor its device.
LEMMA ServerPairs ==
  ASSUME TypeOK, NEW p \in Pages, SubscribeArrive(p) \/ SubscribeRead(p)
  PROVE  PairFading
<1>1. pages[p] \in UnderWay /\ pages[p].pc \in AtServer
  BY PageKinds DEF SubscribeArrive, SubscribeRead, AtServer
<1>2. CASE SubscribeArrive(p)
  <2> DEFINE q == [pages[p] EXCEPT !.pc = "arrived"]
  <2>1. q.endpoint = pages[p].endpoint /\ q.device = pages[p].device
    BY <1>1 DEF UnderWay
  <2>2. \E x \in {q, Idle} : pages' = [pages EXCEPT ![p] = x]
    BY <1>2 DEF SubscribeArrive
  <2> HIDE DEF q
  <2>3. Carried' \subseteq Carried
    BY <1>1, <1>2, <2>1, <2>2, CarriedShrinks DEF SubscribeArrive, TypeOK, Idle, AtServer
  <2> QED
    BY <1>2, <2>3 DEF SubscribeArrive, PairFading, browser
<1>3. CASE SubscribeRead(p)
  <2>1. PICK i : pages' = [pages EXCEPT ![p].pc = "write", ![p].found = i]
    BY <1>3 DEF SubscribeRead
  <2> DEFINE q == [pages[p] EXCEPT !.pc = "write", !.found = i]
  <2>2. q.endpoint = pages[p].endpoint /\ q.device = pages[p].device
    BY <1>1 DEF UnderWay
  <2>3. pages' = [pages EXCEPT ![p] = q]
    BY <2>1 DEF TypeOK
  <2> HIDE DEF q
  <2>4. Carried' \subseteq Carried
    BY <1>1, <1>3, <2>2, <2>3, CarriedShrinks DEF SubscribeRead, TypeOK
  <2> QED
    BY <1>3, <2>4 DEF SubscribeRead, PairFading, browser
<1> QED
  BY <1>2, <1>3

\* A page that sends pairs its endpoint as above; the other steps in the browser carry nothing.
LEMMA BrowserPairs ==
  ASSUME TypeOK, TypeOK', IPair, NEW p \in Pages,
         PageLook(p) \/ PageAsk(p) \/ PageSubscribe(p)
  PROVE  IPair'
<1>0. /\ Idle.pc \notin AtServer
      /\ \A pc, b : pc \in {"look", "ask", "subscribe"} => Page(pc, b).pc \notin AtServer
  BY DEF Idle, Page, AtServer
<1> DEFINE b == pages[p].at
<1>1. b \in Browsers
  BY PageKinds DEF PageLook, PageAsk, PageSubscribe, InBrowser
<1>2. sub[b] \in Nat /\ made[b] \in Nat
  BY <1>1 DEF TypeOK
<1> HIDE DEF b
<1>3. CASE PageLook(p)
  <2>1. rows' = rows /\ sub' = sub /\ made' = made
    BY <1>3 DEF PageLook
  <2>2. CASE sub[b] # 0 /\ Resend(p, b)
    BY <1>1, <1>2, <2>1, <2>2, SentPairs DEF Resend
  <2>3. CASE sub[b] = 0
    <3>1. permission[b] \in {"default", "granted", "denied"}
      BY <1>1 DEF TypeOK
    <3>2. \E q \in {Idle, Page("subscribe", b), Page("ask", b)} :
             pages' = [pages EXCEPT ![p] = q]
      BY <1>3, <2>3, <3>1 DEF PageLook, b
    <3>3. Carried' \subseteq Carried
      BY <1>0, <2>1, <3>2, CarriedShrinks DEF TypeOK
    <3>4. device' = device
      BY <1>3, <2>3 DEF PageLook, b
    <3> QED
      BY <2>1, <3>3, <3>4, PairFadingKeeps DEF PairFading
  <2> QED
    BY <1>3, <2>2, <2>3 DEF PageLook, b
<1>4. CASE PageAsk(p)
  <2>1. \E q \in {Idle, Page("subscribe", b)} : pages' = [pages EXCEPT ![p] = q]
    BY <1>4 DEF PageAsk, b
  <2>2. Carried' \subseteq Carried
    BY <1>0, <1>4, <2>1, CarriedShrinks DEF TypeOK, PageAsk
  <2> QED
    BY <1>4, <2>2, PairFadingKeeps DEF PageAsk, PairFading
<1>5. CASE PageSubscribe(p)
  <2> DEFINE no == IF sub[b] = 0 THEN made[b] + 1 ELSE sub[b]
  <2>1. CASE /\ Sent(p, b, no) /\ sub' = [sub EXCEPT ![b] = no]
             /\ made' = [made EXCEPT ![b] = IF no > @ THEN no ELSE @]
    <3>1. no \in Nat \ {0} /\ rows' = rows
      BY <1>2, <1>5 DEF PageSubscribe
    <3>2. sub[b] <= made[b]
      BY <1>1 DEF IPair
    <3>3. CASE sub[b] = 0
      <4>1. no = made[b] + 1
        BY <3>3
      <4>0. no > made[b]
        BY <1>2, <4>1
      <4> HIDE DEF no
      <4>2. made' = [made EXCEPT ![b] = no]
        BY <2>1, <4>0
      <4> QED
        BY <1>1, <2>1, <3>1, <3>3, <4>1, <4>2, SentPairs
    <3>4. CASE sub[b] # 0
      <4>1. no = sub[b]
        BY <3>4
      <4>2. sub' = sub
        BY <2>1, <4>1 DEF TypeOK
      <4>3. made' = made
        <5>1. ~(sub[b] > made[b])
          BY <1>2, <3>2
        <5>2. made' = [made EXCEPT ![b] = made[b]]
          BY <2>1, <4>1, <5>1
        <5> QED
          BY <5>2 DEF TypeOK
      <4> HIDE DEF no
      <4> QED
        BY <1>1, <2>1, <3>1, <4>1, <4>2, <4>3, SentPairs
    <3> QED
      BY <3>3, <3>4
  <2>2. CASE pages' = [pages EXCEPT ![p] = Idle] /\ UNCHANGED <<made, sub, named, device, handed>>
    <3>1. Carried' \subseteq Carried
      BY <1>0, <1>5, <2>2, CarriedShrinks DEF TypeOK, PageSubscribe
    <3> QED
      BY <2>2, <3>1, PairFadingKeeps DEF PairFading
  <2> QED
    BY <1>5, <2>1, <2>2 DEF PageSubscribe, b
<1> QED
  BY <1>3, <1>4, <1>5

\* Nothing else carries an endpoint, and a browser only loses what it has.
LEMMA OthersPair ==
  ASSUME TypeOK,
         \/ \E p \in Pages, b \in Browsers : PageLoad(p, b)
         \/ \E p \in Pages, b \in Browsers, u \in Members : NotificationClick(p, b, u)
         \/ \E n \in Senders : NotifyEach(n)
         \/ \E n \in Senders, u \in Members : NotifyBegin(n, u)
         \/ Upset
         \/ UNCHANGED vars
  PROVE  PairFading
<1>0. /\ Idle.pc \notin AtServer
      /\ \A b : Page("look", b).pc \notin AtServer
  BY DEF Idle, Page, AtServer
<1>1. Carried' \subseteq Carried
  <2>1. \A p \in Pages : pages'[p] = pages[p] \/ pages'[p].pc \notin AtServer
    <3>1. CASE \E p \in Pages, b \in Browsers : PageLoad(p, b)
      BY <1>0, <3>1 DEF PageLoad, TypeOK
    <3>2. CASE \E p \in Pages, b \in Browsers, u \in Members : NotificationClick(p, b, u)
      BY <1>0, <3>2 DEF NotificationClick, TypeOK
    <3>3. CASE \E p \in Pages : PageLost(p)
      BY <1>0, <3>3 DEF PageLost, TypeOK
    <3>4. CASE Restart
      BY <1>0, <3>4 DEF Restart
    <3> QED
      BY <3>1, <3>2, <3>3, <3>4 DEF Upset, NotifyEach, Received, NotifyBegin, SignIn, SignOut,
         SubscriptionLost, SiteCleared, Unsubscribe, SetEnabled, DeleteUser, DeleteDevice, vars
  <2>2. rows' \subseteq rows
    BY OthersFade DEF Fading
  <2> QED
    BY <2>1, <2>2, CarriedShrinks
<1>2. /\ made' = made
      /\ \A b \in Browsers : sub'[b] = 0 \/ (sub'[b] = sub[b] /\ device'[b] = device[b])
  <2>1. CASE \E b \in Browsers : SubscriptionLost(b)
    BY <2>1 DEF SubscriptionLost, TypeOK
  <2>2. CASE \E b \in Browsers : SiteCleared(b)
    BY <2>2 DEF SiteCleared, TypeOK
  <2> QED
    BY <2>1, <2>2 DEF Upset, PageLoad, NotificationClick, NotifyEach, Received, NotifyBegin,
       SignIn, SignOut, Unsubscribe, SetEnabled, DeleteUser, DeleteDevice, PageLost, Restart,
       vars, browser
<1> QED
  BY <1>1, <1>2 DEF PairFading

LEMMA PairStep ==
  TypeOK /\ TypeOK' /\ IRows /\ IPair /\ [Next]_vars => IPair'
<1> SUFFICES ASSUME TypeOK, TypeOK', IRows, IPair, [Next]_vars PROVE IPair'
  OBVIOUS
<1>1. CASE \E p \in Pages : SubscribeArrive(p) \/ SubscribeRead(p) \/ SubscribeWrite(p)
  BY <1>1, ServerPairs, WritePairs, PairFadingKeeps
<1>2. CASE \E p \in Pages : PageLook(p) \/ PageAsk(p) \/ PageSubscribe(p)
  BY <1>2, BrowserPairs
<1>3. CASE \/ \E p \in Pages, b \in Browsers : PageLoad(p, b)
           \/ \E p \in Pages, b \in Browsers, u \in Members : NotificationClick(p, b, u)
           \/ \E n \in Senders : NotifyEach(n)
           \/ \E n \in Senders, u \in Members : NotifyBegin(n, u)
           \/ Upset
           \/ UNCHANGED vars
  BY <1>3, OthersPair, PairFadingKeeps
<1> QED
  BY <1>1, <1>2, <1>3 DEF Next, PageStep

LEMMA PairInit == Init => IPair
  BY DEF Init, IPair, Carried, Idle, AtServer

\* No endpoint is in two rows of one member, so no browser is told the same thing twice.
THEOREM ToldOnce == Spec => []NoEcho
<1>1. TypeOK /\ IRows /\ IPair => NoEcho
  <2>1. SUFFICES ASSUME IRows, IPair, NEW r \in rows, NEW q \in rows,
                        r.user = q.user, r.endpoint = q.endpoint
                 PROVE  r = q
    BY DEF NoEcho
  <2>2. <<r.endpoint, r.device>> \in Carried /\ <<q.endpoint, q.device>> \in Carried
    BY DEF Carried
  <2>3. r.device = q.device
    BY <2>1, <2>2 DEF IPair
  <2> QED
    BY <2>1, <2>3 DEF IRows, IKey
<1> QED
  BY RowsAlways, PairInit, PairStep, <1>1, PTL DEF Spec

-----------------------------------------------------------------------------
(* Where notifications are shown                                           *)

\* a notification under way goes to endpoints its member handed in
IDue == \A n \in Senders : \A e \in sends[n].due : <<sends[n].to, e>> \in handed

LEMMA HandedGrows ==
  ASSUME TypeOK, IRows, [Next]_vars
  PROVE  handed \subseteq handed'
<1>1. CASE \E p \in Pages : SubscribeArrive(p) \/ SubscribeRead(p) \/ SubscribeWrite(p)
  BY <1>1 DEF SubscribeArrive, SubscribeRead, SubscribeWrite
<1>2. CASE \E p \in Pages : PageLook(p) \/ PageAsk(p) \/ PageSubscribe(p)
  BY <1>2, BrowserFades DEF Fading
<1>3. CASE \/ \E p \in Pages, b \in Browsers : PageLoad(p, b)
           \/ \E p \in Pages, b \in Browsers, u \in Members : NotificationClick(p, b, u)
           \/ \E n \in Senders : NotifyEach(n)
           \/ \E n \in Senders, u \in Members : NotifyBegin(n, u)
           \/ Upset
           \/ UNCHANGED vars
  BY <1>3, OthersFade DEF Fading
<1> QED
  BY <1>1, <1>2, <1>3 DEF Next, PageStep

\* A thread begins with the endpoints of its member's rows and shows at most those.
LEMMA ToldStep ==
  ASSUME TypeOK, IRows, IDue, ShownToMember, [Next]_vars
  PROVE  IDue' /\ ShownToMember'
<1>1. handed \subseteq handed'
  BY HandedGrows
<1>2. CASE \E n \in Senders, u \in Members : NotifyBegin(n, u)
  <2>1. PICK n \in Senders, u \in Members : NotifyBegin(n, u)
    BY <1>2
  <2>2. \A e \in Targets(u) : <<u, e>> \in handed
    BY DEF Targets, IRows, OnlyOwnRows
  <2>3. sends' = [sends EXCEPT ![n] = [to |-> u, due |-> Targets(u)]] /\ shown' = shown
    BY <2>1 DEF NotifyBegin
  <2> QED
    BY <1>1, <2>2, <2>3 DEF IDue, ShownToMember, TypeOK
<1>3. CASE \E n \in Senders : NotifyEach(n)
  <2>1. PICK n \in Senders : NotifyEach(n)
    BY <1>3
  <2>2. PICK e \in sends[n].due :
          /\ sends' = [sends EXCEPT ![n] = IF sends[n].due = {e} THEN NoSend
                                           ELSE [sends[n] EXCEPT !.due = sends[n].due \ {e}]]
          /\ \/ shown' = shown
             \/ /\ Live(e)
                /\ shown' = [shown EXCEPT ![e.at] = @ \union {sends[n].to}]
    BY <2>1 DEF NotifyEach, Received
  <2>3. sends[n] \in [to : Members \union {Nobody}, due : SUBSET Endpoint]
    BY DEF TypeOK
  <2>4. \A m \in Senders : sends'[m].due = {} \/ (/\ sends'[m].to = sends[m].to
                                                  /\ sends'[m].due \subseteq sends[m].due)
    BY <2>2, <2>3 DEF NoSend, TypeOK
  <2>5. IDue'
    BY <1>1, <2>4 DEF IDue
  <2>6. <<sends[n].to, e>> \in handed
    BY <2>2 DEF IDue
  <2>7. \A b \in Browsers : \A u \in shown'[b] : u \in shown[b] \/ (u = sends[n].to /\ e.at = b)
    BY <2>2 DEF TypeOK
  <2>8. ShownToMember'
    BY <1>1, <2>6, <2>7 DEF ShownToMember
  <2> QED
    BY <2>5, <2>8
<1>4. CASE \E p \in Pages, b \in Browsers, u \in Members : NotificationClick(p, b, u)
  BY <1>1, <1>4 DEF NotificationClick, IDue, ShownToMember, TypeOK
<1>5. CASE \E b \in Browsers : SiteCleared(b)
  <2>1. (\A b \in Browsers : shown'[b] \subseteq shown[b]) /\ sends' = sends
    BY <1>5 DEF SiteCleared, TypeOK
  <2> QED
    BY <1>1, <2>1 DEF IDue, ShownToMember
<1>6. CASE Restart
  BY <1>1, <1>6 DEF Restart, NoSend, IDue, ShownToMember
<1>7. CASE sends' = sends /\ shown' = shown
  BY <1>1, <1>7 DEF IDue, ShownToMember
<1>8. CASE \E p \in Pages : PageStep(p) \/ \E b \in Browsers : PageLoad(p, b)
  BY <1>7, <1>8 DEF PageStep, PageLook, PageAsk, PageSubscribe, SubscribeArrive, SubscribeRead,
     SubscribeWrite, PageLoad
<1>9. CASE Upset
  BY <1>5, <1>6, <1>7, <1>9 DEF Upset, SignIn, SignOut, SubscriptionLost, Unsubscribe, SetEnabled,
     DeleteUser, DeleteDevice, PageLost
<1>10. CASE UNCHANGED vars
  BY <1>7, <1>10 DEF vars
<1> QED
  BY <1>2, <1>3, <1>4, <1>8, <1>9, <1>10 DEF Next

\* A notification is shown only in a browser where its member subscribed, however long the list
\* of endpoints was read before the push service is called.
THEOREM ShownWhereSubscribed == Spec => []ShownToMember
<1>1. Init => IDue /\ ShownToMember
  BY DEF Init, IDue, ShownToMember, NoSend
<1>2. TypeOK /\ IRows /\ IDue /\ ShownToMember /\ [Next]_vars => (IDue /\ ShownToMember)'
  BY ToldStep
<1> QED
  BY RowsAlways, <1>1, <1>2, PTL DEF Spec

=============================================================================
