# Verification of 4orm in TLA+

4orm is a small social site: a FastAPI process over one SQLite database, with an
upload directory beside it and a handful of dictionaries in its memory. The modules
here model the parts of it where something can go wrong between two requests, check
them with TLC on small instances and prove what matters most with TLAPS for every
instance. Paths without a directory in this file are under `src/app/`.

Contents: [how the program runs](#how-the-program-runs) ·
[inventory](#inventory) · [modules](#modules) · [runs](#runs) ·
[what the runs found](#what-the-runs-found) · [fairness](#fairness) ·
[proofs](#proofs) · [not modelled](#not-modelled) · [plan](#plan)

## How the program runs

Four facts about the program decide where a step of a model ends.

* **Threads and the loop.** A route declared with `def` runs in a thread of the
  worker pool, so any two of them overlap; one declared with `async def` runs on the
  one event loop, and others run only where it awaits. The token endpoint is of the
  second kind and awaits nothing after its form; the consent endpoint, the upload
  and the presence update each await a body between two reads of shared state. The
  subscription route and the three upload routes read a table and write it in another
  step, in one stretch without an await: nothing but that keeps two of them apart.
* **Transactions.** The database is SQLite through the `sqlite3` module's legacy
  transaction control. A SELECT issued before the first INSERT, UPDATE or DELETE of
  a block reads what is committed at that moment and holds nothing; the first write
  takes the write lock, and from there to the commit nobody else writes. A
  `with engine.begin()` block is therefore a series of reads, each a step, followed
  by one atomic step that holds every write and every later read. A step that
  reaches its first write with a stale read is the commonest hazard of this code.
  One block does slow work after its first write: a forum reply sends its pushes
  before it commits. There the model has the steps, and the lock that spans them.
* **Browsers.** A page's scripts (`src/src`) run one callback at a time, and whatever
  they `fetch` or `await` comes back as a later one. Between two of them the member
  types, other tabs act on the same cookie, storage and subscription, and the request
  may be lost.
* **Restarts.** The process may stop between any two steps. The database and the
  upload directory survive; requests, streams and dictionaries do not. A start also
  synchronises the declared OAuth clients.

## Inventory

State is a table of the database (`schema.py`) unless it says otherwise. "Hard"
names what interleaves, fails or races; `hazards` in PROJECT.json gives each its
line. The last column is what makes the component correct.

| Component | State | Operations | Interacts with | Hard | Correct when |
|---|---|---|---|---|---|
| Invites and enrollment: `enrollment.py`, `queries/users.py`, `routes/central_auth.py`, `routes/auth.py` | `invites`, `auth_enrollments`, `external_identities`, `users` | create, disable, delete an invite; reserve, claim, finish; local registration; delete a member | sign-in calls claim and finish; administration removes rows it relies on | two callbacks for the last use; expiry between check and write; row ids given out again | no invite admits more than its uses, every member was counted, a registration keeps its subject |
| OAuth token server: `oauth2.py`, `routes/oauth2.py`, `oauth2_clients_sync.py`, `oauth_policy.py` | `oauth2_clients`, `oauth2_authorization_codes`, `oauth2_tokens` with refresh families | register, consent, exchange, refresh, service token, revoke, toggle, sync at start | members from sign-in; administration in threads beside the loop | replays, a stop between consuming and storing, a policy changed at restart, a toggle in flight | one token per credential, one live member per family, reuse ends the family, tokens within policy |
| OAuth client secrets: `oauth_client_admin.py` | current and previous hash per client | generate, begin, finish rotation | authenticates clients of the token server | two rotations at once | the secret last shown authenticates |
| OAuth registration checks: `oauth_registration.py` | none | validate metadata | registration | string edge cases | only accepted metadata is stored |
| Chatroom: `routes/chat.py` | `chat_messages`; `_presence`, `_chat_buffer`, `_chat_event`, `_post_history`, `_timed_out_until` in memory | post, stream, presence update | threads write what the loop reads, without a lock | lost wake-ups, the buffer cut under a reader, an await between check and write | open streams receive every message, presence follows connections, the flood limit holds, for members whose posts do not overlap |
| Forum: `routes/forum.py`, `queries/forum.py` | `forum_threads`, `forum_posts`, `thread_watchers` | open, reply, edit, delete, pin, lock, watch | push inside the transaction; deletion of members cascades | a count kept beside its rows, ids that come back under a handler, pushes sent before the commit, a lock between check and insert, a rate limit read before it is used | counts equal replies, nothing dangles, each reply tells each watcher once |
| Forms and media picker: `src/src/lib/media.ts`, `src/src/lib/forum.ts`, `src/src/codemirror.ts` | text area, editor, hidden quote fields, picker, uploads under way | type, switch format, insert a snippet, quote, remove the quote, upload, preview | the quick-upload route; the forum's reply | two copies of a text, a picker replaced under the member, answers lost, refused or late | what is shown is what is posted, snippets fit the format, every upload is answered |
| Media library: `routes/media.py`, `queries/media.py`, parts of `routes/admin.py`, `deps.py` | `media` and the files under uploads | upload, rename, delete, both cleanups, rename and delete of a member | quota and names read before they are used | two stores and no common transaction | every row has its file, no file belongs to two rows, the quota holds |
| Backup: `backup.py` | snapshot directories, a scheduler thread | hourly, manual, prune | reads database and uploads as they change | two backups in one second, a stop half way, the buckets of retention | what is kept is whole and is what the policy says |
| Central sign-in and sessions: `oidc.py`, `routes/central_auth.py`, `deps.py` | signed cookies; `external_identities` | start, callback, sign out | enrollment, every route that asks for a member | repeated callbacks, a member disabled during a session | a session stands for a live member no longer than an hour |
| Local sign-in and reset: `routes/auth.py`, `security.py` | password hashes, reset tokens | sign in, request and use a reset | sessions | a token presented twice | a reset token changes one password once |
| Push notifications: `src/src/lib/push.ts`, `src/static/sw.js`, `routes/push.py`, `push.py` | `push_subscriptions`; per browser a device id, a permission and a subscription | look, ask, subscribe, send to the server; unsubscribe, remove a device; send, show, click | called inside the transactions of forum and guestbook; shares the cookie with sign-in | browsers that members share, requests overtaken or lost, site data cleared, a row read and then written by id | rows lead where their member subscribed, nobody is told twice, a browser in use stays registered |
| Pages: `queries/pages.py` | `pages` | create, edit, delete | settings and the HTTP API | two inserts of one slug | unique key |
| Profile, settings, webring, widgets | single rows; playlist positions | edit, move | pages | two moves at once | positions are distinct |
| Guestbook and counters | single rows | sign, delete, count | push | first view twice | one counter per page |
| Member administration: `routes/admin.py`, `queries/admin.py` | everyone's rows | disable, delete, rename | all of the above | files and rows together | nothing of a deleted member acts |
| Export and feeds | none | read | — | — | — |
| Rendering: `rendering.py` | none | text to HTML | — | — | — |
| Schema, configuration, start-up | the tables | create | — | — | — |
| Migrations, maintenance scripts | the tables | run with the process stopped | — | — | — |
| Command-line client `src/cmd/4orm`; the scripts `chat.ts`, `csrf.ts`, `time.ts` of `src/src/lib` | on the user's machine | call the HTTP API; count unread messages, show errors, convert times | — | — | — |

## Modules

| Module | What it is |
|---|---|
| `InviteEnrollment` | invites, registrations, members and the requests between their steps |
| `InviteQuota` | what an invite promises: issue, admit while a use is left, disable, remove |
| `MCInviteEnrollment` | symmetry for TLC |
| `InviteEnrollmentProofs` | theorems of `InviteEnrollment`: types, uses, subjects |
| `InviteQuotaProofs` | theorems of `InviteEnrollment` about numbers, and that it implements `InviteQuota` |
| `OAuthTokens` | the authorization server, the token request on the loop, the administrator's threads |
| `ConsentLife` | what a consent promises: offered, taken, issued, ended for good |
| `MCOAuthTokens` | symmetry and bounds for TLC |
| `OAuthTokensProofs` | theorems of `OAuthTokens` |
| `ConsentLifeProofs` | that `OAuthTokens` implements `ConsentLife` |
| `ChatRoom` | posts in threads, streams on the loop, and the memory between them |
| `MCChatRoom` | bounds for TLC |
| `ChatRoomProofs` | theorems of `ChatRoom` |
| `PushDevices` | browsers, their pages and service workers, the subscription routes and the senders |
| `MCPushDevices`, `MCForum`, `MCComposer` | the modules the runs name; symmetry of the handlers in `MCForum` |
| `PushDevicesProofs` | theorems of `PushDevices` |
| `Forum` | threads, posts, counts, watches, and the handlers between reading and writing them |
| `ForumProofs` | theorems of `Forum` |
| `Composer` | a form a member writes in, and the uploads from its picker through to the rows of `media` |
| `ComposerProofs` | theorems of `Composer` |

### InviteEnrollment

`invites`, `enrollments` (`auth_enrollments`), `users` and `identities`
(`external_identities`) are the tables; an enrollment is the registration that a
browser reserves. `req[h]` is what handler `h` holds between two steps: the position in
its function (`pc`) and the values it has read, the row ids among them. An invite
has its code, which never comes back, and its row `id`, which SQLite hands out again
once the highest row is gone; an account has only its id. That difference is the
point of several hazards: `finish` keeps an invite's *id* across steps.

| Code | Actions |
|---|---|
| `enrollment.reserve` | `ReserveStart` (clock, lookup, reuse of the browser's own reservation), `ReserveWrite` (conditional update, insert) |
| `enrollment.claim` | `ClaimPending`, `ClaimIdentity`, `ClaimCollision`, `ClaimLinked`, `ClaimWrite` |
| `enrollment.finish` | `FinishPending`, `FinishLinked`, `FinishLink`, `FinishNew` |
| `create_user_with_invite` | `RegisterInvite`, `RegisterName`, `RegisterWrite` |
| invites page, administration | `CreateInvite`, `DisableInvite`, `DeleteInvite`, `DeleteUser`, `RenameUser` |
| time and process | `Tick`, `Restart` (which may switch between the two sign-in modes) |

Each reading action is one SELECT, each writing action one transaction from its
first write to its commit, so a whole handler may be interrupted wherever the
program can. `Changing` limits which accounts are renamed or removed in a run.

`InviteQuota` knows nothing of reservations, claims or row ids. It has a quota per
code and, per account, the code it came with; `Admit` is allowed while the members
admitted are fewer than the invite is for and it is not disabled. `QuotaSpec` says
that `InviteEnrollment` implements it, under the mapping that follows an account's
`invite_id` back to its code (`QuotaSeen`, `CameWith`).

### OAuthTokens

`clients`, `codes`, `tokens` and `users` are the tables. `loop` is the one token
request that is past its first read, with the credential it consumed; `consent`
is the member whose consent form is being read between the lookup and the answer;
`toggling` what each administrator's thread read before it writes the negation. Every
token row has its parent, its family root, and the two marks `revoked` and
`compromised`.

| Code | Actions |
|---|---|
| registration, `oauth2_clients_sync` | `RegisterClient`, `Restart(D, P)`: D is declared, P the policies |
| `routes/oauth2.authorize` | `ConsentStart`, `ConsentGive` |
| authorization-code grant | `CodeRequest`, `CodeConsume` |
| refresh grant | `RefreshRequest`, `RefreshRead`, `RefreshClaim` |
| client-credentials grant | `ServiceRequest` |
| `_save_token` and what comes before | `FindUser`, `SaveToken` |
| administration | `ToggleRead`, `ToggleWrite`, `RevokeTokens`, `ToggleUser`, `DeleteUser` |
| time | `Tick` |

The checks Authlib makes (redirect URI, verifier, scope) are a free choice of
refusing at the place where Authlib makes them: a refusal after a credential was
consumed behaves like a stop there. `ConsentLife` is the life of one consent,
`none → offered → held → live → held → … → ended`; `ConsentSpec` maps a code with
everything issued from it to one such life (`Phase`). What it adds to the invariants is
finality: a consent whose tokens are gone never has a live token again.

### ChatRoom

`buffer`, `event`, `history`, `timedOut` and `presence` are the module-level
dictionaries of `routes/chat.py`, `rows` the table, `posts` the function `chat_post`
per worker thread, `streams` the generator per tab, `pings` the presence updates
whose body is awaited. A message is the number of its broadcast. Two pieces of state
are not in the program, and only the properties read them: `owed`, per stream, are the
broadcasts made since it was opened which it has not delivered; `overlapped` are the
members who, since the start of the process, had two posts at work at once.

| Code | Actions |
|---|---|
| `chat_post` | `PostBegin`, `PostCheck`, `PostSift`, `PostCount`, `PostPunish` or `PostStamp`, `PostStore` or `PostFail`, then its tail, from the append to the buffer on: `PostAppend`, `PostTrim`, `PostSignal` |
| `chat_stream` | `TabOpen`, `TabStart`, `TabNext`, `TabWait`, `TabWake`, `TabTimeout`, `TabDrop`, `TabFinally` |
| `chat_presence_update` | `PingBegin`, `PingEnd` |
| process | `Tick`, `Restart` |

A step of a post ends where CPython 3.12 may switch threads: at a call or a backward
jump. A step of a stream ends where its generator is suspended. Four abstractions:

* the loop's comparison with the length of the buffer and the read of the element
  are one step;
* `asyncio.Event.set` from a foreign thread walks a collection the loop may change,
  so `PostSignal` wakes any subset of the waiters;
* whether a present member is *active* or *idle* is left out: `presence` is the set
  of keys;
* a connection that closes before its generator ever ran is left out.

The limit on posts is kept for a member whose posts follow each other, in whatever
threads (`FloodInTurn`). Two posts of one member at once, from two tabs or scripts, may
both sift and count the history before either adds its stamp, and the list the second
puts back may even lack the other's: the model has these steps, stores both posts
as the code does, and no run states that the limit holds for them, as it does not.

### PushDevices

`rows` is `push_subscriptions`. Per browser there are the cookie, the permission, the
subscription and the device id of `localStorage`; both of the latter are numbered, so
that one given up never comes back. `pages[p]` is one page from its script's first await
to the server's answer: a page in the browser (`look`, `ask`, `subscribe`), then its
request (`sent`, `arrived`, `write`) with what it carries. `shown` is what a browser's
service worker displays. `handed` is history: which member handed in which endpoint.

| Code | Actions |
|---|---|
| `initPushSubscription`, `sendSubscription`, `getDeviceId` | `PageLoad`, `PageLook`, `PageAsk`, `PageSubscribe` (each ends at an await), with `Sent` and `DeviceId` in them |
| `push_subscribe` | `SubscribeArrive`, `SubscribeRead`, `SubscribeWrite` |
| `push_unsubscribe`, `delete_device`, the notifications setting | `Unsubscribe`, `DeleteDevice`, `SetEnabled` |
| `send_notification` | `NotifyBegin` (the SELECT), `NotifyEach` (one endpoint) |
| `sw.js` | `Received`, `NotificationClick` |
| `login_post`, `logout`, removal of an account, process | `SignIn`, `SignOut`, `DeleteUser`, `Restart` |
| browser, push service, network (external) | `SubscriptionLost`, `SiteCleared`, `PageLost` |

A request carries the cookie of the moment it is sent, which need not be the page's
member. Three abstractions: reading and writing the device id are one step (another tab
would have to run between two statements of a script); the subscription's creation and
the request that follows are one; the ids of accounts are not given out again.
`NotifyEach` keeps a row whose endpoint has gone: the removal is written behind a test
of the error's response for truth, which for an error answer of the usual HTTP library
is false.

### Forum

`threads`, `posts` and `watchers` are the tables, `req[h]` the handler's position and
the ids it read. Row ids come back as in `InviteEnrollment`, so a handler may write to
a row that is not the one it read. `WatchAll` are the members whose setting watches
every thread, `Watchers` those who press the watch button. A post's mark `opens` is in no
column: it tells the post that came with its thread from the replies.

| Code | Actions |
|---|---|
| `create_thread` | `NewThread` |
| `thread_reply`, `create_reply`, `get_watchers` | `ReplyRead`, `ReplyInsert`, `ReplyTell` (one watcher), `ReplyQuote`, `ReplyCommit` |
| `delete_post_route`, `delete_post_safe` | `DeleteRead`, `DeleteWrite` |
| `delete_thread_route`, `delete_thread` | `DropRead`, `DropWrite` |
| `lock_thread`, `pin_thread` | `ToggleRead`, `ToggleWrite` |
| `toggle_watch` | `WatchRead`, `WatchWrite` |
| removal of an account, process | `DeleteUser`, `Restart` |
| SQLite's lock | `Free` in the guard of each first write, `Locked` for a request that gives up |

A reply's transaction is open from `ReplyInsert` to `ReplyCommit`. Its row and its count
are seen by others at the commit only, so the step that commits writes them; its id,
the watchers it listed, those still to tell and how often each member was told are in
`req[h]`. While it is open nobody else begins to write, but everybody goes on reading: the
handlers that wait hold ids from before the commit. A restart undoes the reply, not
what was told. A member counts as told when `send_notification` is called for them; what it does
from there is `NotifyBegin` and `NotifyEach` of `PushDevices`.

The count of a thread goes wrong in three ways, all of them in the model. Two requests
that delete one post at once both take one off, and the removal of an account takes
its posts and corrects no count: a thread these hit is marked `off` and its number is no
longer followed. The third is the deletion of the opening post, which takes one off the
count of replies it never was in; `RepliesCounted` is violated by it. `CountMatches`
says that nothing else parts the two: while the opening post is there, the count is the
number of replies.

### Composer

One form is open at a time: `"reply"` and `"edit"` of the forum, with a text area, or
`"page"`, whose text area an editor replaces. A text is a set of pieces; a snippet
remembers its syntax and the format the form had when it went in. `uploads[u]` goes from
the click to the answer, through the route: `here` says whether the form it came
from is still open. A picker is its options and the selected one, `Broken` the HTML of
an error in its place.

| Code | Actions |
|---|---|
| templates of the forms; a post that was accepted redirects | `Open` |
| `createEditor`, its update listener, `switchEditorLang` | `Upgrade`, `Type` (with `Copied`), `SetFormat` |
| `insertMediaSnippet`, the select | `InsertSnippet`, `Select` |
| `quotePost`, `clearQuote` | `QuotePost`, `ClearQuote` |
| `quickUploadMedia` | `UploadClick`, `UploadAnswer`, `UploadFailed` |
| `quick_media_upload` | `UploadArrive`, `UploadCheck`, `UploadWrite` |
| `settings_media_delete`, process, network | `DeleteMedia`, `Restart`, `UploadLost` |

A refused post (the forum's wait of ten seconds) leaves the form as it is, and is no
step. The other two upload routes have the same stretch without an await; the uploads
of the model stand for theirs where the quota is concerned. The quoted text and author
are named by their post. Left out are the preview, and with it the order of its answers;
the buttons that suit an item's type; and the file behind a row.

## Runs

Every cfg is checked to the end. `Handlers`, codes, tokens and subjects are model
values, under symmetry where no property tells them apart; no run with a liveness
property uses symmetry.

| Run (cfg) | Instance | Shows |
|---|---|---|
| `invite_central` (InviteCentral) | 2 handlers, 1 invite of up to 2 uses, 2 browsers, 2 subjects, central mode | `UsesWithinMax`, `PendingWithinMax`, `ClaimedForGood`, `QuotaSpec` |
| `invite_removal` (InviteRemoval) | 2 invites, 1 browser, accounts and invites removed and their ids reused, mode switched at restart | `MembersCounted` |
| `invite_local_overuse` (InviteLocalCapacity) | the local mode | violates `UsesWithinMax` |
| `invite_late_finish` (InviteCapacity) | as `invite_central`, nobody removed | violates `ReservationsHoldCapacity` |
| `oauth_tokens` (OAuthTokens) | 1 member, 1 code; a declared client with 3 tokens, 1 administrator and 2 ticks, or 3 kinds of client with 2 tokens | `OneIssuePerCredential`, `FamilyOneLive`, `CompromisedFamilyDead`, `ConsentSpec`, `IssuedWithinPolicy` |
| `oauth_disable` (OAuthDisable) | 2 clients, 1 administrator | violates `DisabledStaysRevoked` |
| `chat_room` (ChatRoom) | 1 member; 2 tabs, 1 posting thread and 2 broadcasts, or no tab, 2 posting threads, limit 1 in a window of 2 ticks, 3 broadcasts | `PresentMeansConnected`, `FloodInTurn`, `Delivered` |
| `chat_stall` (ChatStall) | 1 reader, buffer of 2, 3 broadcasts | violates `Delivered` |
| `push_devices` (PushDevices) | 2 members sharing 1 browser, 2 pages, 1 sender, 2 upsets | `OnlyOwnRows`, `NoEcho`, `UpsertNeverCollides`, `ShownToMember`, `Heals` |
| `forum` (Forum) | 2 members, 1 of them an administrator, 2 handlers, 2 threads, 2 posts | `CountMatches`, `ToldOnce` |
| `forum_opening` (ForumOpening) | 1 member, 1 handler, 1 thread | violates `RepliesCounted` |
| `composer` (Composer) | 3 kinds of form, 2 uploads, a library that holds one | `FormIsShown`, `SnippetFits`, `PickerWorks`, `QuoteWhole`, `QuotaHeld`, `UploadAnswered` |

`TypeOK` is checked in one run of each component. What the properties say is above
each of them in its module.

Why the bounds are enough. Every race of the inventory is between two parties over
one row, and each instance has two: two handlers, two tabs, or the loop and one
administrator. `invite_central` has as many browsers and subjects as uses plus the
one that must be refused (`MaxUsesCap` 2 lets an invite be made for 1 or 2), and
one tick past a reservation's lifetime. `invite_removal` needs two invites, because
an id comes back only for a later one. A refresh family of three tokens is the
shortest in which reuse is detected on a member that is neither first nor last.
`oauth_tokens` and `chat_room` explore the union of two instances that are small in
different directions; `Bounds` of their MC modules names both, as a CONSTRAINT. In
`oauth_tokens` either one client is at work with everything else at its largest, or all
kinds of clients are, in one tick and without an administrator, who toggles and
revokes one client at a time. In `chat_room` either streams and presence go on beside one
posting thread, or two threads post while nobody reads. With streams the room stays within the
buffer, as `Delivered` holds only there; two broadcasts, two tabs and one lost wake-up
are what one stream clearing the event under another needs. What leads out of the union is
a browser that opens a stream, a member who posts or the clock, none of them fair: no
stream is left waiting for a step the bound has taken away. Without streams, one member's
posts follow each other, or overlap, in different threads; with a window of two ticks
a message may be in the window, at its edge or out of it when the next one is counted, and
three broadcasts are two beyond the limit. `push_devices` has one browser, because nothing in the code
relates two; its two pages are what a collision needs, and two upsets (a changed cookie,
a lost subscription, cleared site data, a removed device or account, a toggled setting,
a lost page or request, a restart) what it takes to leave a stale row and to strike
again while it is replaced. `forum` needs two ids of either kind, for one to come back
while the other is held, and two handlers, for one to write while the other tells. Its
replies quote post 1, which has come back as somebody else's, as the reply itself, or is gone,
when it is looked up; gone, it is to the code as if none were quoted. Two members are the
replier and one who watches, is quoted, both, or neither. `composer` has files of one and two units against a limit and a
quota of one: a file too big, one that fits, and two that fit only singly. `Max…` constants bound clocks, ids and counters in the guards
of the actions that advance them; deadlock is not checked because at those bounds
the models stop.

## What the runs found

* **Local registration oversubscribes an invite** (`invite_local_overuse`).
  `create_user_with_invite` reads that a use is left, hashes the password, and then
  adds one without a condition: two that read before either wrote both join.
* **A late finish takes another browser's reservation** (`invite_late_finish`). The
  expiry is checked before the transaction that spends the use and not in it, so a
  slot that expired in between, and was reserved again, is spent twice: the second
  browser is refused in spite of its fresh reservation.
* **A token escapes a disable** (`oauth_disable`). The request that was authenticated
  before the disable stores its token after it, unrevoked; enabling the client makes
  it usable.
* **A deleted opening post counts as a reply** (`forum_opening`). A new thread has a post
  and a count of 0, and deleting any post takes one off. The page offers that for the
  opening post as well: a thread without replies then shows -1 of them.
* **Chat streams fall silent** (`chat_stall`). A stream's position is an index into
  a buffer that is cut at the front. Once 200 messages have been posted since the
  start, the length never exceeds the position of a stream that has read them all.

## Fairness

Three modules state any, each as `FairSpec`.

`ChatRoom`, for `Delivered`: weak fairness of each tab's
stream, because the event loop resumes every generator, its wait ends after ten
seconds, and a client that stops reading is the action `TabDrop`; and of each post,
because the pool runs a thread to its end. Nobody has to post, open a tab or leave.
The timeout is not decoration: without it the property fails, since one stream may
clear the event before another looked.

`PushDevices`, for `Heals`: weak fairness of `PageLook` and `PageSubscribe`, since the
browser runs a page's callbacks, and of `SubscribeWrite`, which follows its read without an
await; strong fairness of `SubscribeArrive` and `SubscribeRead`, which another request's
stretch can disable again and again, but never for ever, as the loop resumes tasks in
the order they become ready. Nobody has to answer the permission question, and nobody has
to open pages: that the member goes on opening them is the antecedent of `Heals`.

`Composer`, for `UploadAnswered`: the same for the steps of the route and of the
browser's callbacks. The answer may be lost; `fetch` then fails, which is `UploadFailed`.

The other components promise nothing that must happen; their specifications are safety
only, and so is their refinement.

## Proofs

TLAPS checks every statement below for all values of the constants under the
modules' own assumptions (`…Assumption`, evaluated by TLC in every run). Two theorems
assume more, where the property itself is about more: `CentralUsesWithinMax` and
`CentralImplementsQuota` are about the central mode.

**InviteEnrollmentProofs.** `TypeCorrect`, from the invariant `IType`: types, and the
fact that a request holds proper values for the step it is in, which `TypeOK` alone
does not say. `CentralUsesWithinMax`: where only the central mode is allowed, no invite
has more uses than it is for; `ICentral` adds that no request is in local registration,
whose write is the one unconditional one. `RegistrationKeepsSubject`: an action
property, one step per action, all but `ClaimWrite` and the removals leaving the
subject alone.

**InviteQuotaProofs.** What is counted. `Effects` says once what any step does to the
tables: reserve a slot, let an account join, create, disable or delete, or only
mark registrations; each proof goes through these cases. They share `IRefs`: live
invites have different ids (`IKeys`), and the invite that a reservation or an account
refers to is there. That makes a reused id harmless in the tables: a new invite may be
given the id of an old one, but by then no row refers to it.
`EveryMemberCounted` (`MembersCounted`) needs no more than that: a join adds one to both
sides, a deletion takes from the smaller, and a new invite starts with nobody.
`ReservationsWithinMax` (`PendingWithinMax`) rests on `IClock`: reservations are finitely
many, and the clock a handler read is not ahead. `reserve` checks the room with a stale
clock; at that clock at least as many reservations stand as at the real one, so the
check errs on the safe side. Both hold in both modes. `CentralImplementsQuota` is the
refinement, initial states and then one lemma per kind of step (`QuotaAdmits`,
`QuotaIssues`, `QuotaDisables`, `QuotaRemoves`); a reservation is a stutter. It is stated
for the central mode, as the local one admits beyond the quota (`invite_local_overuse`).

**OAuthTokensProofs.** Every action changes the tables in one of two ways, and the
proof says so first. `Fade`: rows lose life (a code is gone, a token revoked,
compromised or gone) and gain nothing. `Store`: one new row is added for the credential
the request holds. `Hold` records that a request has a credential only after ending it.
Four invariants then survive a fade by monotony and a store by the held credential's
being spent: `Asked` (a request past its consumption holds an ended credential),
`Single`, `Familial` and `Compromising`. Together they are `IToken`, and
`Inductive` carries it. From it follow `SingleIssue` (`OneIssuePerCredential`),
`RotationReplaces` (`FamilyOneLive`) and `ReuseIsFinal` (`CompromisedFamilyDead`).
`PolicyObeyed` (`IssuedWithinPolicy`) is an action property with an invariant of its own,
`Policied`: what a request checked against its client's policy steps ago still fits when
the token is stored, because the client is registered, only unknown clients are
registered, and a policy changes only in a new process, which no request outlives.

**ConsentLifeProofs.** `ServerImplementsConsentLife`: a consent, with everything issued
from it, goes through the phases of `ConsentLife`. A token goes back to its
consent through the first of its family, so `Roots` says that a family's first token has
no family and was issued for a code. With `IToken` it yields `Settled`: a live code, a
held credential and a live token of one consent exclude each other, and there is
at most one such token, so the phase is well defined and does not depend on the order in
which one looks. Every step of the server then is of one of five courses: `Ends` (things
are gone and nothing is new), `Offers`, `TakesCode`, `TakesToken` and `Store`; and each
is a step of `ConsentLife` for one consent and a stutter for the others, except
`Ends`, which may end many at once, as revoking a client's tokens does.

**ChatRoomProofs.** `PresentConnected`: nobody is present without a connection, for any
number of tabs and threads. `PresentMeansConnected` is inductive only beside `IStream`,
which says that a stream's record keeps the reader it was opened by: `Kept` (every
connection keeps its reader) settles all steps but the opening and the end of a
stream. Those two are the argument: an opening adds an entry and a connection together,
and an end removes the entry of its reader, whichever other tabs that reader has.

`TypeCorrect` is more than types, since `TypeOK` bounds what the program bounds: the
buffer, what a stream has seen of it, and the history. A post goes along `Course` and
keeps its member and its clock. The posts that have yet to broadcast, to store, or to cut
the buffer are sets that only shrink between a beginning and an end (`SetsShrink`,
`SetsGrow`), and the counters and their sets are bounded together (`ISaid`, `IRows`,
`IBuffer`): the buffer exceeds its 200 by at most a message for each thread between
append and cut, which presumes a finite pool (`IsFiniteSet(Handlers)`). The
history keeps within `FloodMax` only for a member none of whose posts overlapped
(`IOne`: one of them works at a time, with the history as it left it), so `TypeOK` claims
that bound for those members only. For others not even one stamp more for each thread is a
bound: a post may write back a longer history, sifted at an earlier clock, between
another's count and its stamp.

`FloodIsLimited` (`FloodInTurn`) assumes nothing of what browsers send: every member may
post from any number of threads, and the theorem is about each whose posts did not
overlap since the start of the process. `OverlapStep` says who may still be among them
after a step, and `FloodElse` that a post of anybody else touches neither their history nor
their messages. `RecentKeeps` says what the sifting
does: what it drops counts neither now nor later. `Covered` relates the history to the
table: a message in the window has its stamp in the history, and while a post is about to
store there is a stamp beyond those of the messages already there. `Latest` says that no
message is later than the post under way, so the window that ends at the new
message is the one that was counted, however far the clock has moved since.

**PushDevicesProofs.** Every safety property of the module. `IRows` strengthens three of
them at once: the keys of the rows are unique (`IKey`), what a request carries its member
handed in (`IAsked`), a row that was found is, if it is still there, the requesting
member's and this device's (`IFound`), and no two requests are between read and write
(`IAlone`, from the guard that stands for the missing await). Most actions only take
rows and requests away and add to `handed` (`Fading`), which `FadingKeeps` settles once. `RowsAreOwn`
and `UpsertSafe` follow. `NoEcho` needs `IPair` beside it: no
endpoint, in rows or in requests, goes with two device ids, because the browser loses
its subscription together with its id, and numbers a new one anew. `ShownToMember` adds `IDue`: what a sender still has
to reach was handed in by the member it sends to, and `handed` only grows.

**ForumProofs.** Every property that holds. `TypeCorrect` goes through `IRows`, the
tables' keys and references, and `IReq`, that a handler holds ids of rows there once
were. A new row's id is new because a bounded set of ids has a highest one
(`BoundedHasMax`). A reply's row is written by steps after it was checked, so these need
`IHold`: one handler at most keeps the writer, and its thread and its author are there, its id
is the next one and its list names those who watch, still. It is inductive because only
the commit itself or a request that found the writer free changes a table
(`TablesChange`), and nobody keeps the writer after either (`WriterGone`).

`EachToldOnce` (`ToldOnce`) follows from `IHold` and `ITold`: until its loop is through a
reply has told those of its list who are no longer to do, once each (`TellOne`), and at
the end also the quoted author if the list had them not (`TellQuoted`). `IHold` turns the list
read at the beginning into those who watch at the commit; without the writer's lock it is
false, as `ToldOnce` is.

`CountsAgree` needs the posts to be finitely many beside `IRows`, since
the cardinality of an infinite set is no number. The property itself is not inductive: what
the code keeps is a count of one less than the posts, whichever they are (`ICount`). A
step that changes the tables maps
each thread to one with the same id, so `CountsFrom` reduces it to one thread: a reply adds
one post to the right thread (`OneMore`), a deletion takes at most one (`OneLess`, as
ids are unique), and any other thread keeps its posts or is marked. A thread has one
opening post at most (`IOpen`), since it comes with a thread id no post has; where it is
still there, one less than the posts are the replies (`CountsMeet`).

**ComposerProofs.** `EditorShown` and `QuoteIsWhole` are inductive beside `TypeOK`.
`SnippetsFit` needs `Told`: outside the edit form, the picker's format and the form's are
bbcode together or not at all, which `FormatKept` preserves because a replaced picker runs no script.
`PickerStaysWorking` needs `Working`, that the picker in every accepted answer
on its way is a working one, and that from the highest id's being among the ids.
`QuotaIsHeld` (`QuotaHeld`) is about a sum: `Usage` is a fold over the rows, which takes
them in an order of its own, so it is shown first that a row adds its size to the fold
of the others whichever the fold takes first. Then `IQuota`: the rows are within the
quota, also with the file that is being written, and at most one is. The last is the
guard that stands for the missing await between the sum and the insert.

**How data is proved about.** The library's induction theorems take an operator as a
parameter and cannot be used here. Where a proof needs induction over a history, a
fold or a number, it takes the smallest counterexample instead (`WFMin`, with
`NatLessThanWellFounded` or the strict subsets of a finite set), for sets written out
in the lemma: `SiftedExists` and `RecentKeeps` by `SmallestNat`, the lemmas on `Usage` by
`SmallestSubset`, and `BoundedHasMax`.

**Only model-checked.** `Delivered`, `Heals` and `UploadAnswered`: liveness under
fairness, which needs ENABLED. Every invariant, action property and refinement that a
passing run checks is also a theorem. The five runs that expect a violation have
none, since what they state is false.

## Not modelled

Client secrets, the files of the media library, backup and sessions are planned. Of the
forum, editing a text, the wait between two posts and the times it reads are left out; the
properties read none of them. Pages,
profiles, widgets, counters and guestbook are writes of single rows, decided by a unique
key. Rendering, export, feeds and registration checks are functions over text with
no state. Migrations and maintenance scripts run with the process stopped. The
command-line client keeps no state the server depends on. Of the browser scripts,
`time.ts` and `csrf.ts` write one element and read nothing back, `chat.ts` counts
messages in the tab's title and reports focus (which `ChatRoom` receives as `PingBegin`),
and the editor's bundle is built from `codemirror.ts`.
Inside the modelled components these are left out: audit rows, scopes, nonces and
device metadata, password hashes, flash messages and templates.

## Plan

In order of what a fault would cost; the first six are done.

1. `InviteEnrollment`, `InviteQuota` — done.
2. `OAuthTokens`, `ConsentLife` — done.
3. `ChatRoom` — done.
4. `PushDevices` — done.
5. `Forum` — done, without the wait between posts.
6. `Composer` — done, without the preview.
7. `MediaLibrary`: rows and files as two stores, the upload in its three steps, renames,
   both cleanups, stops between the stores. An abstract `Shelf` on which a name
   holds one content, refined outside crashes. One run of two uploads and one cleanup.
8. `Backup`: retention as a function over snapshot times checked against its docstring
   on a short calendar, and the scheduler beside a manual run.
9. `OAuthSecrets` and `Sessions`, composed with the tables of 1 and 2.
10. The unread counter and the focus reports of `chat.ts`, composed with `ChatRoom`.

Theorems next: with `MediaLibrary`, that every row has its file outside crashes, from an
invariant over rows, files and the uploads between them, and the refinement of `Shelf`;
with `OAuthSecrets`, that the secret last shown authenticates.
