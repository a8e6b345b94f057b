------------------------- MODULE InviteEnrollment -------------------------
(***************************************************************************)
(* Member invites, their 30-minute reservations, and the two ways of       *)
(* turning one into an account: the central (OIDC) flow reserve -> claim   *)
(* -> finish of app/enrollment.py, and the local flow of                   *)
(* create_user_with_invite in app/queries/users.py.                        *)
(*                                                                         *)
(* A handler runs in a thread of the pool.  Inside engine.begin() the      *)
(* SELECTs that precede the first INSERT, UPDATE or DELETE run in          *)
(* autocommit, so each is a step of its own and what it returned is kept   *)
(* in req[h]; the first write opens the transaction, writers exclude each  *)
(* other, and the step from that write to the commit is atomic.  A handler *)
(* that answers with an error leaves the tables alone: the model then      *)
(* returns it to Idle, or never starts it when its first read fails.       *)
(*                                                                         *)
(* Left out: display names, profile cards (inserted in the transaction     *)
(* that inserts the user), invites.used_by_user_id, the inviter tree, and  *)
(* invites.expires_at, which no code path ever sets.                       *)
(***************************************************************************)
EXTENDS Integers, FiniteSets

CONSTANTS
    Handlers,     \* threads of the pool that serve a request
    Codes,        \* invite codes, each generated at most once
    Tickets,      \* auth_enrollments ids, each generated at most once
    Subjects,     \* subjects of the one central issuer
    Names,        \* usernames
    Founder,      \* the username of the account that exists at the start
    Null,         \* SQL NULL
    MaxUser,      \* bound: the largest users.id
    MaxUsesCap,   \* bound: the largest max_uses a member asks for (50 in the route)
    Lifetime,     \* LIFETIME, in clock ticks
    MaxTime,      \* bound: the last tick of the clock
    Changing,     \* bound: ids of the accounts that may be renamed or deleted
    Modes         \* values of oidc.enabled() the process may be started with

ASSUME BoundsAssumption ==
    /\ MaxUser \in Nat \ {0}
    /\ MaxUsesCap \in Nat \ {0}
    /\ Lifetime \in Nat \ {0}
    /\ MaxTime \in Nat
    /\ Changing \subseteq 1..MaxUser

ASSUME NamesAssumption ==
    /\ Founder \in Names
    /\ Null \notin Codes \union Tickets \union Subjects \union Names
    /\ Modes \subseteq BOOLEAN

VARIABLES
    central,      \* oidc.enabled(), fixed until the process is restarted
    now,          \* the wall clock
    invites,      \* the invites table, by code
    enrollments,  \* the auth_enrollments table, by id
    users,        \* the users table, by id
    identities,   \* external_identities: the user id linked to a subject, 0 if none
    req           \* what each running handler has read so far

vars == <<central, now, invites, enrollments, users, identities, req>>

UserIds == 1..MaxUser

\* "unissued" and "deleted" rows do not exist in the table; a code or an id
\* is random and never generated twice, a row id can be given out again.
RowStates == {"unissued", "live", "deleted"}

Invite == [state : RowStates, id : Nat, owner : Nat, disabled : BOOLEAN,
           uses : Nat, max : Nat]
Enrollment == [state : RowStates, invite : Nat, expires : Nat,
               subject : Subjects \union {Null}, name : Names \union {Null},
               user : Nat, consumed : BOOLEAN]
User == [live : BOOLEAN, name : Names \union {Null}, invite : Nat]
Request == [pc : {"idle", "reserve",
                  "claim_identity", "claim_collision", "claim_linked", "claim_write",
                  "finish_linked", "finish_link", "finish_new",
                  "register_name", "register_write"},
            code : Codes \union {Null}, ticket : Tickets \union {Null},
            subject : Subjects \union {Null}, name : Names \union {Null},
            id : Nat, now : Nat]

NoInvite == [state |-> "unissued", id |-> 0, owner |-> 0, disabled |-> FALSE,
             uses |-> 0, max |-> 0]
NoEnrollment == [state |-> "unissued", invite |-> 0, expires |-> 0,
                 subject |-> Null, name |-> Null, user |-> 0, consumed |-> FALSE]
NoUser == [live |-> FALSE, name |-> Null, invite |-> 0]
Idle == [pc |-> "idle", code |-> Null, ticket |-> Null, subject |-> Null,
         name |-> Null, id |-> 0, now |-> 0]

TypeOK ==
    /\ central \in BOOLEAN
    /\ now \in Nat
    /\ invites \in [Codes -> Invite]
    /\ enrollments \in [Tickets -> Enrollment]
    /\ users \in [UserIds -> User]
    /\ identities \in [Subjects -> 0..MaxUser]
    /\ req \in [Handlers -> Request]

\* One account exists, perhaps already linked to a central subject.
Init ==
    /\ central \in Modes
    /\ now = 0
    /\ invites = [c \in Codes |-> NoInvite]
    /\ enrollments = [t \in Tickets |-> NoEnrollment]
    /\ users = [u \in UserIds |->
                    IF u = 1 THEN [NoUser EXCEPT !.live = TRUE, !.name = Founder]
                             ELSE NoUser]
    /\ identities \in [Subjects -> {0, 1}]
    /\ Cardinality({s \in Subjects : identities[s] = 1}) <= 1
    /\ req = [h \in Handlers |-> Idle]

-----------------------------------------------------------------------------
(* The tables *)

LiveInvite(c) == invites[c].state = "live"
LiveTicket(t) == enrollments[t].state = "live"
UserExists(u) == u \in UserIds /\ users[u].live
NameTaken(n) == \E u \in UserIds : users[u].live /\ users[u].name = n

\* The reservations of invite c that hold a slot at time n: the "pending"
\* subquery of reserve.
PendingTickets(c, n) ==
    {t \in Tickets : /\ LiveTicket(t)
                     /\ enrollments[t].invite = invites[c].id
                     /\ enrollments[t].expires > n
                     /\ ~enrollments[t].consumed}

\* get_pending finds a row: unexpired, its invite not disabled.
Pending(t) ==
    /\ LiveTicket(t)
    /\ enrollments[t].expires > now
    /\ \E c \in Codes : /\ LiveInvite(c)
                        /\ invites[c].id = enrollments[t].invite
                        /\ ~invites[c].disabled

\* SQLite hands out one more than the largest row id in the table, so the id
\* of the last row is given out again once that row is deleted.
IsNextInviteId(i) ==
    /\ \A c \in Codes : LiveInvite(c) => invites[c].id < i
    /\ i = 1 \/ \E c \in Codes : LiveInvite(c) /\ invites[c].id = i - 1
IsNextUserId(u) ==
    /\ \A v \in UserIds : users[v].live => v < u
    /\ u = 1 \/ users[u - 1].live

Respond(h) == req' = [req EXCEPT ![h] = Idle]
Goto(h, pc) == req' = [req EXCEPT ![h].pc = pc]

-----------------------------------------------------------------------------
(* POST /auth/register: reserve *)

\* The row that reserve returns again to a browser that already holds it.
Reusable(t, c) ==
    /\ LiveTicket(t)
    /\ LiveInvite(c) /\ enrollments[t].invite = invites[c].id
    /\ ~invites[c].disabled
    /\ enrollments[t].expires > now
    /\ ~enrollments[t].consumed

\* The clock is read, and the browser's previous reservation t looked up: if it
\* still stands the handler returns it and writes nothing.
ReserveStart(h, c, t) ==
    /\ central
    /\ req[h] = Idle
    /\ invites[c].state /= "unissued"
    /\ t /= Null => enrollments[t].state /= "unissued" /\ ~Reusable(t, c)
    /\ req' = [req EXCEPT ![h] = [Idle EXCEPT !.pc = "reserve", !.code = c, !.now = now]]
    /\ UNCHANGED <<central, now, invites, enrollments, users, identities>>

\* Mutant: the UPDATE forgets the reservations that are still pending.
HasRoomUnreserved(c, n) ==
    LiveInvite(c) /\ ~invites[c].disabled /\ invites[c].uses < invites[c].max

\* The conditional write of reserve finds room for one more reservation.
HasRoom(c, n) ==
    /\ LiveInvite(c)
    /\ ~invites[c].disabled
    /\ invites[c].uses + Cardinality(PendingTickets(c, n)) < invites[c].max

\* The conditional UPDATE and the INSERT, one transaction; the expiry counts
\* from the clock read before the wait for the write lock.
ReserveWrite(h) ==
    LET c == req[h].code IN
    /\ req[h].pc = "reserve"
    /\ IF HasRoom(c, req[h].now)
         THEN \E t \in Tickets :
                /\ enrollments[t].state = "unissued"
                /\ enrollments' = [enrollments EXCEPT ![t] =
                        [NoEnrollment EXCEPT !.state = "live",
                                             !.invite = invites[c].id,
                                             !.expires = req[h].now + Lifetime]]
         ELSE UNCHANGED enrollments
    /\ Respond(h)
    /\ UNCHANGED <<central, now, invites, users, identities>>

-----------------------------------------------------------------------------
(* POST /internal/auth/enrollments/{id}/claim *)

ClaimPending(h, t, s, n) ==
    /\ central
    /\ req[h] = Idle
    /\ Pending(t)
    /\ enrollments[t].subject \in {Null, s}
    /\ ~enrollments[t].consumed
    /\ req' = [req EXCEPT ![h] = [Idle EXCEPT !.pc = "claim_identity", !.ticket = t,
                                              !.subject = s, !.name = n]]
    /\ UNCHANGED <<central, now, invites, enrollments, users, identities>>

\* Mutant: the id of the existing account is kept where its name belongs.
IdFor(s, n) == IF identities[s] /= 0 THEN identities[s] ELSE n

\* A subject that already has an account keeps that account's name.
NameFor(s, n) == IF identities[s] /= 0 THEN users[identities[s]].name ELSE n

ClaimIdentity(h) ==
    /\ req[h].pc = "claim_identity"
    /\ req' = [req EXCEPT ![h].pc = "claim_collision",
                          ![h].name = NameFor(req[h].subject, @)]
    /\ UNCHANGED <<central, now, invites, enrollments, users, identities>>

ClaimCollision(h) ==
    /\ req[h].pc = "claim_collision"
    /\ \/ \E u \in UserIds :
            /\ users[u].live /\ users[u].name = req[h].name
            /\ req' = [req EXCEPT ![h].pc = "claim_linked", ![h].id = u]
       \/ ~NameTaken(req[h].name) /\ Goto(h, "claim_write")
    /\ UNCHANGED <<central, now, invites, enrollments, users, identities>>

ClaimLinked(h) ==
    /\ req[h].pc = "claim_linked"
    /\ IF identities[req[h].subject] = req[h].id THEN Goto(h, "claim_write") ELSE Respond(h)
    /\ UNCHANGED <<central, now, invites, enrollments, users, identities>>

\* Mutant: the UPDATE does not compare the subject.
ClaimableByAnyone(t, s) == Pending(t)

\* The UPDATE finds the row unclaimed or claimed by the same subject, and
\* get_pending, run again in the transaction, does not roll it back.
\* consumed_at is not looked at again.
Claimable(t, s) == Pending(t) /\ enrollments[t].subject \in {Null, s}

ClaimWrite(h) ==
    LET t == req[h].ticket IN
    /\ req[h].pc = "claim_write"
    /\ IF Claimable(t, req[h].subject)
         THEN enrollments' = [enrollments EXCEPT ![t].subject = req[h].subject,
                                                 ![t].name = req[h].name]
         ELSE UNCHANGED enrollments
    /\ Respond(h)
    /\ UNCHANGED <<central, now, invites, users, identities>>

-----------------------------------------------------------------------------
(* GET /auth/callback: finish *)

\* get_pending, with the identity the OIDC callback verified.  The replay of a
\* consumed registration writes nothing, so only fresh ones go on.
FinishPending(h, t, s) ==
    /\ central
    /\ req[h] = Idle
    /\ Pending(t)
    /\ enrollments[t].subject = s
    /\ enrollments[t].name /= Null
    /\ ~enrollments[t].consumed
    /\ req' = [req EXCEPT ![h] = [Idle EXCEPT !.pc = "finish_linked", !.ticket = t,
                                              !.subject = s,
                                              !.name = enrollments[t].name,
                                              !.id = enrollments[t].invite]]
    /\ UNCHANGED <<central, now, invites, enrollments, users, identities>>

FinishLinked(h) ==
    LET u == identities[req[h].subject] IN
    /\ req[h].pc = "finish_linked"
    /\ IF u /= 0
         THEN req' = [req EXCEPT ![h].pc = "finish_link", ![h].id = u]
         ELSE Goto(h, "finish_new")
    /\ UNCHANGED <<central, now, invites, enrollments, users, identities>>

\* A linked member: the registration is spent, the invite is not.  The foreign
\* key refuses a user that is gone.
FinishLink(h) ==
    LET t == req[h].ticket IN
    /\ req[h].pc = "finish_link"
    /\ IF LiveTicket(t) /\ UserExists(req[h].id)
         THEN enrollments' = [enrollments EXCEPT ![t].user = req[h].id,
                                                 ![t].consumed = TRUE]
         ELSE UNCHANGED enrollments
    /\ Respond(h)
    /\ UNCHANGED <<central, now, invites, users, identities>>

\* Mutants: finish trusts the uses, or the disabled flag, it read earlier.
SpendableUnlimited(c, id) == LiveInvite(c) /\ invites[c].id = id /\ ~invites[c].disabled
SpendableDisabled(c, id) ==
    LiveInvite(c) /\ invites[c].id = id /\ invites[c].uses < invites[c].max

\* The invite that finish may still spend: its UPDATE looks again at disabled
\* and at the uses left.
Spendable(c, id) ==
    /\ LiveInvite(c) /\ invites[c].id = id
    /\ ~invites[c].disabled
    /\ invites[c].uses < invites[c].max

\* One use is spent, the account and its identity are inserted and the
\* registration consumed, all or nothing: a username that was taken meanwhile
\* or a subject that was linked meanwhile violates a key and rolls it back.
FinishNew(h) ==
    LET r == req[h] IN
    /\ r.pc = "finish_new"
    /\ \/ \E c \in Codes, u \in UserIds :
            /\ Spendable(c, r.id)
            /\ ~NameTaken(r.name)
            /\ identities[r.subject] = 0
            /\ IsNextUserId(u)
            /\ invites' = [invites EXCEPT ![c].uses = @ + 1]
            /\ users' = [users EXCEPT ![u] = [live |-> TRUE, name |-> r.name, invite |-> r.id]]
            /\ identities' = [identities EXCEPT ![r.subject] = u]
            /\ enrollments' =
                 IF LiveTicket(r.ticket)
                   THEN [enrollments EXCEPT ![r.ticket].user = u, ![r.ticket].consumed = TRUE]
                   ELSE enrollments
       \/ /\ \/ ~\E c \in Codes : Spendable(c, r.id)
             \/ NameTaken(r.name)
             \/ identities[r.subject] /= 0
          /\ UNCHANGED <<invites, users, identities, enrollments>>
    /\ Respond(h)
    /\ UNCHANGED <<central, now>>

-----------------------------------------------------------------------------
(* POST /register, when central sign-in is off *)

RegisterInvite(h, c, n) ==
    /\ ~central
    /\ req[h] = Idle
    /\ LiveInvite(c)
    /\ ~invites[c].disabled
    /\ invites[c].uses < invites[c].max
    /\ req' = [req EXCEPT ![h] = [Idle EXCEPT !.pc = "register_name", !.name = n,
                                              !.id = invites[c].id]]
    /\ UNCHANGED <<central, now, invites, enrollments, users, identities>>

\* The password is hashed between this read and the write.
RegisterName(h) ==
    /\ req[h].pc = "register_name"
    /\ IF NameTaken(req[h].name) THEN Respond(h) ELSE Goto(h, "register_write")
    /\ UNCHANGED <<central, now, invites, enrollments, users, identities>>

\* Mutant: the use is counted only while the invite has uses left.
CountUseIfLeft(c) ==
    IF invites[c].uses < invites[c].max THEN [invites EXCEPT ![c].uses = @ + 1] ELSE invites

\* uses_count = uses_count + 1, with no condition.
CountUse(c) == [invites EXCEPT ![c].uses = @ + 1]

\* The account is inserted and the use counted, whatever the invite has become;
\* only a missing invite or a taken username (a key) undoes both.
RegisterWrite(h) ==
    LET r == req[h] IN
    /\ r.pc = "register_write"
    /\ \/ \E c \in Codes, u \in UserIds :
            /\ LiveInvite(c) /\ invites[c].id = r.id
            /\ ~NameTaken(r.name)
            /\ IsNextUserId(u)
            /\ invites' = CountUse(c)
            /\ users' = [users EXCEPT ![u] = [live |-> TRUE, name |-> r.name, invite |-> r.id]]
       \/ /\ \/ ~\E c \in Codes : LiveInvite(c) /\ invites[c].id = r.id
             \/ NameTaken(r.name)
          /\ UNCHANGED <<invites, users>>
    /\ Respond(h)
    /\ UNCHANGED <<central, now, enrollments, identities>>

-----------------------------------------------------------------------------
(* Settings and administration: one statement, or one transaction, each *)

CreateInvite(c, u, m) ==
    /\ invites[c].state = "unissued"
    /\ UserExists(u)
    /\ \E i \in 1..Cardinality(Codes) :
         /\ IsNextInviteId(i)
         /\ invites' = [invites EXCEPT ![c] = [state |-> "live", id |-> i, owner |-> u,
                                               disabled |-> FALSE, uses |-> 0, max |-> m]]
    /\ UNCHANGED <<central, now, enrollments, users, identities, req>>

DisableInvite(c) ==
    /\ LiveInvite(c)
    /\ invites' = [invites EXCEPT ![c].disabled = TRUE]
    /\ UNCHANGED <<central, now, enrollments, users, identities, req>>

\* Mutant: users.invite_id has no ON DELETE SET NULL.
MemberUnchanged(u, ids) == users[u]

\* A member who came with a deleted invite stays, without it.
MemberWithout(u, ids) ==
    IF users[u].invite \in ids THEN [users[u] EXCEPT !.invite = 0] ELSE users[u]

\* The cascades of deleting the invites with these ids and, when v is not 0,
\* user v: enrollments go with their invite or their user (ON DELETE CASCADE),
\* members who came with the invite stay without it (SET NULL).
Delete(ids, v) ==
    /\ invites' = [c \in Codes |->
            IF LiveInvite(c) /\ invites[c].id \in ids
              THEN [NoInvite EXCEPT !.state = "deleted"] ELSE invites[c]]
    /\ enrollments' = [t \in Tickets |->
            IF /\ LiveTicket(t)
               /\ \/ enrollments[t].invite \in ids
                  \/ (v /= 0 /\ enrollments[t].user = v)
              THEN [NoEnrollment EXCEPT !.state = "deleted"] ELSE enrollments[t]]
    /\ users' = [u \in UserIds |->
            IF u = v THEN NoUser ELSE MemberWithout(u, ids)]
    /\ identities' = [s \in Subjects |-> IF identities[s] = v THEN 0 ELSE identities[s]]
    /\ UNCHANGED <<central, now, req>>

DeleteInvite(c) ==
    /\ LiveInvite(c)
    /\ invites[c].uses = 0
    /\ Delete({invites[c].id}, 0)

\* The users row of delete_user_reparent, with the invites the user made.
DeleteUser(v) ==
    /\ v \in Changing /\ UserExists(v)
    /\ Delete({invites[c].id : c \in {d \in Codes : LiveInvite(d) /\ invites[d].owner = v}}, v)

\* A member or the administrator changes a username to a free one.
RenameUser(u, n) ==
    /\ u \in Changing /\ UserExists(u)
    /\ ~NameTaken(n)
    /\ users' = [users EXCEPT ![u].name = n]
    /\ UNCHANGED <<central, now, invites, enrollments, identities, req>>

Tick ==
    /\ now < MaxTime
    /\ now' = now + 1
    /\ UNCHANGED <<central, invites, enrollments, users, identities, req>>

\* The process stops: running handlers vanish, uncommitted writes with them.
\* It may come back with central sign-in switched on or off.
Restart ==
    /\ central' \in Modes
    /\ req' = [h \in Handlers |-> Idle]
    /\ UNCHANGED <<now, invites, enrollments, users, identities>>

Next ==
    \/ \E h \in Handlers :
        \/ \E c \in Codes, t \in Tickets \union {Null} : ReserveStart(h, c, t)
        \/ ReserveWrite(h)
        \/ \E t \in Tickets, s \in Subjects, n \in Names : ClaimPending(h, t, s, n)
        \/ ClaimIdentity(h) \/ ClaimCollision(h) \/ ClaimLinked(h) \/ ClaimWrite(h)
        \/ \E t \in Tickets, s \in Subjects : FinishPending(h, t, s)
        \/ FinishLinked(h) \/ FinishLink(h) \/ FinishNew(h)
        \/ \E c \in Codes, n \in Names : RegisterInvite(h, c, n)
        \/ RegisterName(h) \/ RegisterWrite(h)
    \/ \E c \in Codes, u \in UserIds, m \in 1..MaxUsesCap : CreateInvite(c, u, m)
    \/ \E c \in Codes : DisableInvite(c) \/ DeleteInvite(c)
    \/ \E u \in UserIds : DeleteUser(u)
    \/ \E u \in UserIds, n \in Names : RenameUser(u, n)
    \/ Tick
    \/ Restart

Spec == Init /\ [][Next]_vars

-----------------------------------------------------------------------------
(* Properties *)

\* An invite never admits more members than it was made for: uses_count stays
\* within max_uses (the conditional UPDATE of finish).
UsesWithinMax == \A c \in Codes : LiveInvite(c) => invites[c].uses <= invites[c].max

\* Every account that names an invite was counted by it: no interleaving of
\* sign-ups, deletions and rollbacks inserts a member without spending a use.
MembersCounted ==
    \A c \in Codes : LiveInvite(c) =>
        Cardinality({u \in UserIds : users[u].live /\ users[u].invite = invites[c].id})
            <= invites[c].uses

\* At no time do more unexpired reservations of an invite stand than it has
\* uses in all, however reserve's stale clock interleaves with the ticks.
PendingWithinMax ==
    \A c \in Codes : LiveInvite(c) =>
        Cardinality(PendingTickets(c, now)) <= invites[c].max

\* A reservation holds its slot: what is used and what is reserved never
\* exceed the invite together, so whoever holds an unexpired reservation of an
\* enabled invite can still finish it.
ReservationsHoldCapacity ==
    \A c \in Codes : LiveInvite(c) =>
        invites[c].uses + Cardinality(PendingTickets(c, now)) <= invites[c].max

\* A registration that a subject has claimed stays that subject's until it is
\* deleted, and once consumed stays consumed: of two concurrent claims, or a
\* claim racing a finish, the slower never takes it over.
ClaimedForGood ==
    [][\A t \in Tickets : LiveTicket(t) /\ enrollments[t].subject /= Null =>
          \/ enrollments'[t].state = "deleted"
          \/ /\ enrollments'[t].subject = enrollments[t].subject
             /\ enrollments[t].consumed => enrollments'[t].consumed]_vars

\* The abstract specification, seen through the tables.
CodeOf(id) ==
    IF \E c \in Codes : LiveInvite(c) /\ invites[c].id = id
      THEN CHOOSE c \in Codes : LiveInvite(c) /\ invites[c].id = id
      ELSE Null

QuotaSeen == [c \in Codes |->
    [phase |-> IF ~LiveInvite(c) THEN invites[c].state
               ELSE IF invites[c].disabled THEN "disabled" ELSE "open",
     used |-> invites[c].uses, max |-> invites[c].max]]
CameWith == [u \in UserIds |->
    IF users[u].live /\ users[u].invite /= 0 THEN CodeOf(users[u].invite) ELSE Null]

Quota == INSTANCE InviteQuota WITH
    Grants <- 1..MaxUsesCap,
    Accounts <- UserIds,
    NoCode <- Null,
    quota <- QuotaSeen,
    cameWith <- CameWith

\* The central flow implements the quota: whatever handlers are in flight when
\* an invite is disabled, deleted or exhausted, no account gets in without an
\* open use, and none gets in twice.
QuotaSpec == Quota!Spec
=============================================================================
