-------------------------- MODULE InviteQuotaProofs --------------------------
(***************************************************************************)
(* Proofs about the numbers InviteEnrollment keeps: the members an invite  *)
(* has counted, the reservations that stand for it, and that the central   *)
(* flow implements InviteQuota.                                            *)
(*                                                                         *)
(* They rest on the references between the tables.  What a step does to    *)
(* the tables is said once (Effects); every proof goes through its cases.  *)
(***************************************************************************)
EXTENDS InviteEnrollmentProofs, FiniteSetTheorems

-----------------------------------------------------------------------------
(* What a step does to the tables                                          *)

\* Registrations are claimed or consumed, no more.
Marks ==
    \A t \in Tickets :
        /\ enrollments'[t].state = enrollments[t].state
        /\ enrollments'[t].invite = enrollments[t].invite
        /\ enrollments'[t].expires = enrollments[t].expires
        /\ enrollments[t].consumed => enrollments'[t].consumed

\* Handler h reserves a slot of invite c as t.
Reserves(h, c, t) ==
    /\ HasRoom(c, req[h].now)
    /\ enrollments[t].state = "unissued"
    /\ enrollments' = [enrollments EXCEPT ![t] =
            [NoEnrollment EXCEPT !.state = "live", !.invite = invites[c].id,
                                 !.expires = req[h].now + Lifetime]]
    /\ UNCHANGED <<invites, users>>

\* Account u joins with invite c.
Joins(c, u, n) ==
    /\ LiveInvite(c)
    /\ IsNextUserId(u)
    /\ invites' = [invites EXCEPT ![c].uses = @ + 1]
    /\ users' = [users EXCEPT ![u] = [live |-> TRUE, name |-> n, invite |-> invites[c].id]]

\* Marking a registration consumed is a mark.
LEMMA ConsumeMarks ==
    ASSUME IType, NEW k, NEW u,
           enrollments' = [enrollments EXCEPT ![k].user = u, ![k].consumed = TRUE]
    PROVE  Marks
<1> SUFFICES ASSUME NEW t \in Tickets
             PROVE  /\ enrollments'[t].state = enrollments[t].state
                    /\ enrollments'[t].invite = enrollments[t].invite
                    /\ enrollments'[t].expires = enrollments[t].expires
                    /\ enrollments[t].consumed => enrollments'[t].consumed
  BY DEF Marks
<1>1. enrollments[t] \in Enrollment /\ t \in DOMAIN enrollments
  BY DEF IType, TypeOK
<1>2. CASE k = t
  <2>1. enrollments'[t] = [enrollments[t] EXCEPT !.user = u, !.consumed = TRUE]
    BY <1>1, <1>2
  <2> QED
    BY <1>1, <2>1 DEF Enrollment
<1>3. CASE k /= t
  BY <1>1, <1>3
<1> QED
  BY <1>2, <1>3

\* The request is still the one that was read.
LEMMA JoinsFinish ==
    ASSUME IType, NEW h \in Handlers, FinishNew(h)
    PROVE  \/ UNCHANGED <<invites, users, enrollments>>
           \/ \E c \in Codes, u \in UserIds :
                 Spendable(c, req[h].id) /\ Joins(c, u, req[h].name) /\ Marks
<1>1. CASE UNCHANGED <<invites, users, enrollments>>
  BY <1>1
<1>2. ASSUME NEW c \in Codes, NEW u \in UserIds,
             Spendable(c, req[h].id), IsNextUserId(u),
             invites' = [invites EXCEPT ![c].uses = @ + 1],
             users' = [users EXCEPT ![u] = [live |-> TRUE, name |-> req[h].name,
                                            invite |-> req[h].id]],
             enrollments' =
                 IF LiveTicket(req[h].ticket)
                   THEN [enrollments EXCEPT ![req[h].ticket].user = u,
                                            ![req[h].ticket].consumed = TRUE]
                   ELSE enrollments
      PROVE  Spendable(c, req[h].id) /\ Joins(c, u, req[h].name) /\ Marks
  <2>1. Marks
    BY <1>2, ConsumeMarks DEF Marks
  <2> QED
    BY <1>2, <2>1 DEF Joins, Spendable
<1> QED
  BY <1>1, <1>2 DEF FinishNew

LEMMA JoinsRegister ==
    ASSUME NEW h \in Handlers, RegisterWrite(h)
    PROVE  /\ UNCHANGED enrollments
           /\ \/ UNCHANGED <<invites, users>>
              \/ \E c \in Codes, u \in UserIds : Joins(c, u, req[h].name)
BY DEF RegisterWrite, Joins, CountUse

LEMMA Effects ==
    ASSUME IType, [Next]_vars
    PROVE  \/ UNCHANGED <<invites, users>> /\ Marks
           \/ \E h \in Handlers, c \in Codes, t \in Tickets : Reserves(h, c, t)
           \/ \E c \in Codes, u \in UserIds : \E n :
                 /\ Joins(c, u, n) /\ Marks
                 /\ Spendable(c, invites[c].id) \/ \E h \in Handlers : RegisterWrite(h)
           \/ \E c \in Codes, u \in UserIds, m \in 1..MaxUsesCap : CreateInvite(c, u, m)
           \/ \E c \in Codes : DisableInvite(c)
           \/ \E ids, v : Delete(ids, v)
           \/ \E u \in UserIds, n \in Names : RenameUser(u, n)
<1>1. CASE UNCHANGED <<invites, users, enrollments>>
  BY <1>1 DEF Marks
<1>2. ASSUME NEW h \in Handlers, ReserveWrite(h), ~UNCHANGED enrollments
      PROVE  \E c \in Codes, t \in Tickets : Reserves(h, c, t)
  <2>1. req[h].code \in Codes
    BY <1>2 DEF IType, TypeOK, Proper, ReserveWrite
  <2> QED
    BY <1>2, <2>1 DEF ReserveWrite, Reserves
<1>3. ASSUME NEW h \in Handlers, ClaimWrite(h)
      PROVE  UNCHANGED <<invites, users>> /\ Marks
  BY <1>3 DEF ClaimWrite, Marks, IType, TypeOK, Enrollment
<1>4. ASSUME NEW h \in Handlers, FinishLink(h)
      PROVE  UNCHANGED <<invites, users>> /\ Marks
  BY <1>4, ConsumeMarks DEF FinishLink, Marks
<1>5. ASSUME NEW h \in Handlers, FinishNew(h), ~UNCHANGED <<invites, users, enrollments>>
      PROVE  \E c \in Codes, u \in UserIds : \E n :
               Joins(c, u, n) /\ Marks /\ Spendable(c, invites[c].id)
  BY <1>5, JoinsFinish DEF Spendable
<1>6. ASSUME NEW h \in Handlers, RegisterWrite(h), ~UNCHANGED <<invites, users, enrollments>>
      PROVE  \E c \in Codes, u \in UserIds : \E n : Joins(c, u, n) /\ Marks
  BY <1>6, JoinsRegister DEF Marks
<1>7. CASE \E h \in Handlers :
        \/ \E c \in Codes, t \in Tickets \union {Null} : ReserveStart(h, c, t)
        \/ \E t \in Tickets, s \in Subjects, n \in Names : ClaimPending(h, t, s, n)
        \/ ClaimIdentity(h) \/ ClaimCollision(h) \/ ClaimLinked(h)
        \/ \E t \in Tickets, s \in Subjects : FinishPending(h, t, s)
        \/ FinishLinked(h)
        \/ \E c \in Codes, n \in Names : RegisterInvite(h, c, n)
        \/ RegisterName(h)
  BY <1>1, <1>7 DEF ReserveStart, ClaimPending, ClaimIdentity, ClaimCollision, ClaimLinked,
                    FinishPending, FinishLinked, RegisterInvite, RegisterName
<1>8. CASE Tick \/ Restart \/ UNCHANGED vars
  BY <1>1, <1>8 DEF Tick, Restart, vars
<1>9. CASE (\E c \in Codes : DeleteInvite(c)) \/ (\E u \in UserIds : DeleteUser(u))
  BY <1>9 DEF DeleteInvite, DeleteUser
<1>10. CASE \E h \in Handlers : ReserveWrite(h)
  BY <1>1, <1>2, <1>10 DEF ReserveWrite
<1> QED
  BY <1>1, <1>3, <1>4, <1>5, <1>6, <1>7, <1>8, <1>9, <1>10 DEF Next

-----------------------------------------------------------------------------
(* The references between the tables                                       *)

LiveId(i) == \E c \in Codes : LiveInvite(c) /\ invites[c].id = i

IKeys ==
    /\ \A c \in Codes : LiveInvite(c) => invites[c].id /= 0
    /\ \A c, d \in Codes : LiveInvite(c) /\ LiveInvite(d) /\ invites[c].id = invites[d].id
                             => c = d
ITickets == \A t \in Tickets : LiveTicket(t) => LiveId(enrollments[t].invite)
IMembers == \A u \in UserIds : users[u].live /\ users[u].invite /= 0 => LiveId(users[u].invite)

\* Ids are handed out again, and still none of them names two rows or none.
IRefs == IKeys /\ ITickets /\ IMembers

\* What a deletion leaves of an invite, a registration and an account.
LEMMA DeleteLeaves ==
    ASSUME IType, IKeys, NEW ids, NEW v, Delete(ids, v)
    PROVE  /\ \A c \in Codes : LiveInvite(c)'
                => LiveInvite(c) /\ invites'[c] = invites[c] /\ invites[c].id \notin ids
           /\ \A c \in Codes : LiveInvite(c) /\ invites[c].id \notin ids
                => LiveInvite(c)' /\ invites'[c] = invites[c]
           /\ \A t \in Tickets : LiveTicket(t)'
                => /\ LiveTicket(t) /\ enrollments'[t] = enrollments[t]
                   /\ enrollments[t].invite \notin ids
           /\ \A u \in UserIds : users'[u].live /\ users'[u].invite /= 0
                => /\ users[u].live /\ users'[u].invite = users[u].invite
                   /\ users[u].invite \notin ids
<1>1. ASSUME NEW c \in Codes
      PROVE  /\ LiveInvite(c)'
                  => LiveInvite(c) /\ invites'[c] = invites[c] /\ invites[c].id \notin ids
             /\ LiveInvite(c) /\ invites[c].id \notin ids
                  => LiveInvite(c)' /\ invites'[c] = invites[c]
  BY DEF Delete, LiveInvite, NoInvite
<1>2. ASSUME NEW t \in Tickets, LiveTicket(t)'
      PROVE  /\ LiveTicket(t) /\ enrollments'[t] = enrollments[t]
             /\ enrollments[t].invite \notin ids
  BY <1>2 DEF Delete, LiveTicket, NoEnrollment
<1>3. ASSUME NEW u \in UserIds, users'[u].live, users'[u].invite /= 0
      PROVE  /\ users[u].live /\ users'[u].invite = users[u].invite
             /\ users[u].invite \notin ids
  <2>1. users[u] \in User
    BY DEF IType, TypeOK
  <2>2. users'[u] = IF u = v THEN NoUser ELSE MemberWithout(u, ids)
    BY DEF Delete
  <2>3. u /= v
    BY <1>3, <2>2 DEF NoUser
  <2>4. CASE users[u].invite \in ids
    BY <1>3, <2>1, <2>2, <2>3, <2>4 DEF MemberWithout, User
  <2>5. CASE users[u].invite \notin ids
    BY <1>3, <2>2, <2>3, <2>5 DEF MemberWithout
  <2> QED
    BY <2>4, <2>5
<1> QED
  BY <1>1, <1>2, <1>3

\* Nothing refers to an id that no invite has had since it was free.
LEMMA FreshId ==
    ASSUME IType, IRefs, NEW i \in Nat \ {0}, IsNextInviteId(i)
    PROVE  /\ \A c \in Codes : LiveInvite(c) => invites[c].id /= i
           /\ \A t \in Tickets : LiveTicket(t) => enrollments[t].invite /= i
           /\ \A u \in UserIds : users[u].live => users[u].invite /= i
<1>1. \A c \in Codes : LiveInvite(c) => invites[c].id \in Nat /\ invites[c].id < i
  BY DEF IType, TypeOK, Invite, IsNextInviteId
<1>2. ~LiveId(i)
  BY <1>1 DEF LiveId
<1> QED
  BY <1>1, <1>2 DEF IRefs, ITickets, IMembers

\* An account that is new was none before.
LEMMA FreshUser ==
    ASSUME NEW u \in UserIds, IsNextUserId(u)
    PROVE  ~users[u].live
BY DEF IsNextUserId, UserIds

\* Marks neither add registrations nor move them.
LEMMA MarksTickets ==
    ASSUME ITickets, Marks, \A i : LiveId(i) => LiveId(i)'
    PROVE  ITickets'
BY DEF ITickets, Marks, LiveTicket

LEMMA InvitesKept ==
    ASSUME UNCHANGED invites
    PROVE  /\ \A c \in Codes : LiveInvite(c)' <=> LiveInvite(c)
           /\ \A i : LiveId(i)' <=> LiveId(i)
BY DEF LiveInvite, LiveId

\* Counting a use leaves the rest of the table as it is.
LEMMA UseCounted ==
    ASSUME IType, NEW c \in Codes, invites' = [invites EXCEPT ![c].uses = @ + 1]
    PROVE  /\ \A d \in Codes : /\ LiveInvite(d)' <=> LiveInvite(d)
                               /\ invites'[d].id = invites[d].id
                               /\ invites'[d].max = invites[d].max
                               /\ invites'[d].state = invites[d].state
                               /\ invites'[d].disabled = invites[d].disabled
                               /\ d /= c => invites'[d].uses = invites[d].uses
           /\ invites'[c].uses = invites[c].uses + 1
           /\ \A i : LiveId(i)' <=> LiveId(i)
<1>1. \A d \in Codes : /\ invites'[d].state = invites[d].state
                       /\ invites'[d].id = invites[d].id
                       /\ invites'[d].max = invites[d].max
                       /\ invites'[d].disabled = invites[d].disabled
                       /\ d /= c => invites'[d].uses = invites[d].uses
  BY DEF IType, TypeOK, Invite
<1>2. invites'[c].uses = invites[c].uses + 1
  BY DEF IType, TypeOK, Invite
<1> QED
  BY <1>1, <1>2 DEF LiveInvite, LiveId

LEMMA DisableKeeps ==
    ASSUME IType, NEW c \in Codes, DisableInvite(c)
    PROVE  /\ \A d \in Codes : /\ LiveInvite(d)' <=> LiveInvite(d)
                               /\ invites'[d].state = invites[d].state
                               /\ invites'[d].id = invites[d].id
                               /\ invites'[d].max = invites[d].max
                               /\ invites'[d].uses = invites[d].uses
                               /\ d /= c => invites'[d].disabled = invites[d].disabled
           /\ invites'[c].disabled
           /\ \A i : LiveId(i)' <=> LiveId(i)
<1>1. \A d \in Codes : /\ invites'[d].state = invites[d].state
                       /\ invites'[d].id = invites[d].id
                       /\ invites'[d].max = invites[d].max
                       /\ invites'[d].uses = invites[d].uses
                       /\ d /= c => invites'[d].disabled = invites[d].disabled
  BY DEF IType, TypeOK, Invite, DisableInvite
<1>2. invites'[c].disabled
  BY DEF IType, TypeOK, Invite, DisableInvite
<1> QED
  BY <1>1, <1>2 DEF LiveInvite, LiveId

\* A new invite is the only row that has its id.
LEMMA InviteCreated ==
    ASSUME IType, IRefs, NEW c \in Codes, NEW u \in UserIds, NEW m \in 1..MaxUsesCap,
           CreateInvite(c, u, m)
    PROVE  \E i \in Nat \ {0} :
              /\ IsNextInviteId(i)
              /\ invites'[c] = [state |-> "live", id |-> i, owner |-> u, disabled |-> FALSE,
                                uses |-> 0, max |-> m]
              /\ ~LiveInvite(c)
              /\ \A d \in Codes \ {c} : invites'[d] = invites[d]
<1>1. PICK i \in 1..Cardinality(Codes) :
              /\ IsNextInviteId(i)
              /\ invites' = [invites EXCEPT ![c] =
                    [state |-> "live", id |-> i, owner |-> u, disabled |-> FALSE,
                     uses |-> 0, max |-> m]]
  BY DEF CreateInvite
<1>2. i \in Nat \ {0}
  OBVIOUS
<1>3. ~LiveInvite(c)
  BY DEF CreateInvite, LiveInvite
<1> QED
  BY <1>1, <1>2, <1>3 DEF IType, TypeOK

LEMMA RefsStep ==
    ASSUME IType, IRefs, [Next]_vars
    PROVE  IRefs'
<1> USE DEF IRefs
<1>1. CASE UNCHANGED <<invites, users>> /\ Marks
  <2>1. IKeys' /\ IMembers' /\ \A i : LiveId(i) => LiveId(i)'
    BY <1>1 DEF IKeys, IMembers, LiveInvite, LiveId
  <2> QED
    BY <1>1, <2>1, MarksTickets
<1>2. ASSUME NEW h \in Handlers, NEW c \in Codes, NEW t \in Tickets, Reserves(h, c, t)
      PROVE  IRefs'
  <2>1. IKeys' /\ IMembers' /\ \A i : LiveId(i)' <=> LiveId(i)
    BY <1>2 DEF Reserves, IKeys, IMembers, LiveInvite, LiveId
  <2>2. LiveId(invites[c].id)
    BY <1>2 DEF Reserves, HasRoom, LiveId
  <2>3. enrollments'[t].invite = invites[c].id
    BY <1>2 DEF Reserves, NoEnrollment, IType, TypeOK
  <2>4. \A s \in Tickets \ {t} : enrollments'[s] = enrollments[s]
    BY <1>2 DEF Reserves, IType, TypeOK
  <2> QED
    BY <2>1, <2>2, <2>3, <2>4 DEF ITickets, LiveTicket
<1>3. ASSUME NEW c \in Codes, NEW u \in UserIds, NEW n, Joins(c, u, n), Marks
      PROVE  IRefs'
  <2>1. IKeys' /\ \A i : LiveId(i)' <=> LiveId(i)
    <3>1. /\ \A d \in Codes : /\ LiveInvite(d)' <=> LiveInvite(d)
                             /\ invites'[d].id = invites[d].id
          /\ \A i : LiveId(i)' <=> LiveId(i)
      BY <1>3, UseCounted DEF Joins
    <3> QED
      BY <3>1 DEF IKeys
  <2>2. LiveId(invites[c].id)
    BY <1>3 DEF Joins, LiveId
  <2>3. users'[u].invite = invites[c].id /\ \A v \in UserIds \ {u} : users'[v] = users[v]
    BY <1>3 DEF Joins, IType, TypeOK
  <2>4. IMembers'
    BY <2>1, <2>2, <2>3 DEF IMembers
  <2> QED
    BY <1>3, <2>1, <2>4, MarksTickets
<1>4. ASSUME NEW c \in Codes, NEW u \in UserIds, NEW m \in 1..MaxUsesCap, CreateInvite(c, u, m)
      PROVE  IRefs'
  <2>1. PICK i \in Nat \ {0} :
              /\ IsNextInviteId(i)
              /\ invites'[c] = [state |-> "live", id |-> i, owner |-> u, disabled |-> FALSE,
                                uses |-> 0, max |-> m]
              /\ ~LiveInvite(c)
              /\ \A d \in Codes \ {c} : invites'[d] = invites[d]
    BY <1>4, InviteCreated
  <2>2. \A d \in Codes : LiveInvite(d) => invites[d].id /= i
    BY <2>1, FreshId
  <2>3. IKeys'
    BY <2>1, <2>2 DEF IKeys, LiveInvite
  <2>4. \A j : LiveId(j) => LiveId(j)'
    BY <2>1 DEF LiveId, LiveInvite
  <2> QED
    BY <1>4, <2>3, <2>4 DEF CreateInvite, ITickets, IMembers, LiveTicket
<1>5. ASSUME NEW c \in Codes, DisableInvite(c)
      PROVE  IRefs'
  <2>1. IKeys' /\ \A i : LiveId(i)' <=> LiveId(i)
    BY <1>5, DisableKeeps DEF IKeys
  <2> QED
    BY <1>5, <2>1 DEF DisableInvite, ITickets, IMembers, LiveTicket
<1>6. ASSUME NEW ids, NEW v, Delete(ids, v)
      PROVE  IRefs'
  <2>1. IKeys'
    BY <1>6, DeleteLeaves DEF IKeys
  <2>2. \A i : i \notin ids /\ LiveId(i) => LiveId(i)'
    BY <1>6, DeleteLeaves DEF LiveId
  <2>3. ITickets'
    BY <1>6, <2>2, DeleteLeaves DEF ITickets
  <2>4. IMembers'
    BY <1>6, <2>2, DeleteLeaves DEF IMembers
  <2> QED
    BY <2>1, <2>3, <2>4
<1>7. ASSUME NEW u \in UserIds, NEW n \in Names, RenameUser(u, n)
      PROVE  IRefs'
  <2>1. \A v \in UserIds : /\ users'[v].live = users[v].live
                           /\ users'[v].invite = users[v].invite
    BY <1>7 DEF RenameUser, IType, TypeOK, User
  <2> QED
    BY <1>7, <2>1 DEF RenameUser, IKeys, ITickets, IMembers, LiveInvite, LiveTicket, LiveId
<1> QED
  BY <1>1, <1>2, <1>3, <1>4, <1>5, <1>6, <1>7, Effects

LEMMA InitRefs == Init => IRefs
BY DEF Init, IRefs, IKeys, ITickets, IMembers, LiveInvite, LiveTicket, NoInvite, NoEnrollment,
       NoUser

-----------------------------------------------------------------------------
(* Every member was counted                                                *)

\* the members that came with invite c
Came(c) == {u \in UserIds : users[u].live /\ users[u].invite = invites[c].id}

LEMMA CameFinite ==
    ASSUME NEW c
    PROVE  IsFiniteSet(Came(c)) /\ Cardinality(Came(c)) \in Nat
<1>1. IsFiniteSet(UserIds)
  BY BoundsAssumption, FS_Interval DEF UserIds
<1>2. IsFiniteSet(Came(c))
  BY <1>1, FS_Subset DEF Came
<1> QED
  BY <1>2, FS_CardinalityType

LEMMA MembersCame == MembersCounted <=> \A c \in Codes : LiveInvite(c) =>
                                            Cardinality(Came(c)) <= invites[c].uses
BY DEF MembersCounted, Came

\* An invite whose members have not become more and whose count has not fallen.
LEMMA FewerCame ==
    ASSUME MembersCounted, NEW c \in Codes, LiveInvite(c), IType, IType',
           Came(c)' \subseteq Came(c), invites[c].uses <= invites'[c].uses
    PROVE  Cardinality(Came(c)') <= invites'[c].uses
<1>1. Cardinality(Came(c)') <= Cardinality(Came(c)) /\ Cardinality(Came(c)') \in Nat
  BY CameFinite, FS_Subset, FS_CardinalityType
<1>2. Cardinality(Came(c)) <= invites[c].uses /\ Cardinality(Came(c)) \in Nat
  BY MembersCame, CameFinite
<1>3. invites[c].uses \in Nat /\ invites'[c].uses \in Nat
  BY DEF IType, TypeOK, Invite
<1> QED
  BY <1>1, <1>2, <1>3

LEMMA MembersStep ==
    ASSUME IType, IType', IRefs, MembersCounted, [Next]_vars
    PROVE  MembersCounted'
<1> SUFFICES ASSUME NEW c \in Codes, LiveInvite(c)'
             PROVE  Cardinality(Came(c)') <= invites'[c].uses
  BY DEF MembersCounted, Came
<1>0. invites[c].uses \in Nat /\ invites'[c].uses \in Nat
  BY DEF IType, TypeOK, Invite
<1>1. CASE UNCHANGED <<invites, users>>
  <2>1. LiveInvite(c) /\ Came(c)' = Came(c) /\ invites'[c].uses = invites[c].uses
    BY <1>1 DEF LiveInvite, Came
  <2> QED
    BY <1>0, <2>1, FewerCame
<1>2. ASSUME NEW h \in Handlers, NEW d \in Codes, NEW t \in Tickets, Reserves(h, d, t)
      PROVE  UNCHANGED <<invites, users>>
  BY <1>2 DEF Reserves
<1>3. ASSUME NEW d \in Codes, NEW u \in UserIds, NEW n, Joins(d, u, n)
      PROVE  Cardinality(Came(c)') <= invites'[c].uses
  <2>1. /\ \A e \in Codes : /\ LiveInvite(e)' <=> LiveInvite(e)
                            /\ invites'[e].id = invites[e].id
                            /\ e /= d => invites'[e].uses = invites[e].uses
        /\ invites'[d].uses = invites[d].uses + 1
    BY <1>3, UseCounted DEF Joins
  <2>2. /\ ~users[u].live /\ users'[u].live = TRUE /\ users'[u].invite = invites[d].id
        /\ \A v \in UserIds \ {u} : users'[v] = users[v]
    BY <1>3, FreshUser DEF Joins, IType, TypeOK
  <2>3. CASE c = d
    <3>1. Came(c)' = Came(c) \union {u} /\ u \notin Came(c)
      BY <2>1, <2>2, <2>3 DEF Came
    <3>2. Cardinality(Came(c)') = Cardinality(Came(c)) + 1
      BY <3>1, CameFinite, FS_AddElement
    <3>3. Cardinality(Came(c)) <= invites[c].uses
      BY <2>1, MembersCame
    <3> QED
      BY <1>0, <2>1, <2>3, <3>2, <3>3, CameFinite
  <2>4. CASE c /= d
    <3>1. LiveInvite(c) /\ LiveInvite(d) /\ invites[c].id /= invites[d].id
      BY <1>3, <2>1, <2>4 DEF IRefs, IKeys, Joins
    <3>2. Came(c)' = Came(c)
      BY <2>1, <2>2, <3>1 DEF Came
    <3> QED
      BY <1>0, <2>1, <2>4, <3>1, <3>2, FewerCame
  <2> QED
    BY <2>3, <2>4
<1>4. ASSUME NEW d \in Codes, NEW u \in UserIds, NEW m \in 1..MaxUsesCap, CreateInvite(d, u, m)
      PROVE  Cardinality(Came(c)') <= invites'[c].uses
  <2>1. PICK i \in Nat \ {0} :
              /\ IsNextInviteId(i)
              /\ invites'[d] = [state |-> "live", id |-> i, owner |-> u, disabled |-> FALSE,
                                uses |-> 0, max |-> m]
              /\ ~LiveInvite(d)
              /\ \A e \in Codes \ {d} : invites'[e] = invites[e]
    BY <1>4, InviteCreated
  <2>2. UNCHANGED users
    BY <1>4 DEF CreateInvite
  <2>3. CASE c = d
    <3>1. Came(c)' = {}
      BY <2>1, <2>2, <2>3, FreshId DEF Came
    <3> QED
      BY <1>0, <3>1, FS_EmptySet
  <2>4. CASE c /= d
    <3>1. LiveInvite(c) /\ Came(c)' = Came(c) /\ invites'[c].uses = invites[c].uses
      BY <2>1, <2>2, <2>4 DEF LiveInvite, Came
    <3> QED
      BY <1>0, <3>1, FewerCame
  <2> QED
    BY <2>3, <2>4
<1>5. ASSUME NEW d \in Codes, DisableInvite(d)
      PROVE  Cardinality(Came(c)') <= invites'[c].uses
  <2>1. LiveInvite(c) /\ invites'[c].id = invites[c].id /\ invites'[c].uses = invites[c].uses
    BY <1>5, DisableKeeps
  <2>2. Came(c)' = Came(c)
    BY <1>5, <2>1 DEF DisableInvite, Came
  <2> QED
    BY <1>0, <2>1, <2>2, FewerCame
<1>6. ASSUME NEW ids, NEW v, Delete(ids, v)
      PROVE  Cardinality(Came(c)') <= invites'[c].uses
  <2>1. LiveInvite(c) /\ invites'[c] = invites[c] /\ invites[c].id /= 0
    BY <1>6, DeleteLeaves DEF IRefs, IKeys
  <2>2. Came(c)' \subseteq Came(c)
    BY <1>6, <2>1, DeleteLeaves DEF Came, IRefs
  <2> QED
    BY <1>0, <2>1, <2>2, FewerCame
<1>7. ASSUME NEW u \in UserIds, NEW n \in Names, RenameUser(u, n)
      PROVE  Cardinality(Came(c)') <= invites'[c].uses
  <2>1. \A w \in UserIds : /\ users'[w].live = users[w].live
                           /\ users'[w].invite = users[w].invite
    BY <1>7 DEF RenameUser, IType, TypeOK, User
  <2>2. UNCHANGED invites
    BY <1>7 DEF RenameUser
  <2>3. LiveInvite(c) /\ Came(c)' = Came(c)
    BY <2>1, <2>2 DEF Came, LiveInvite
  <2> QED
    BY <1>0, <2>2, <2>3, FewerCame
<1> QED
  BY <1>1, <1>2, <1>3, <1>4, <1>5, <1>6, <1>7, Effects

\* In either mode, with any interleaving of sign-ups, deletions and restarts, no account
\* names an invite that has not counted it (MembersCounted).
THEOREM EveryMemberCounted == Spec => []MembersCounted
<1>1. Init => IType /\ IRefs /\ MembersCounted
  BY InitType, InitRefs DEF Init, MembersCounted, LiveInvite, NoInvite
<1>2. IType /\ IRefs /\ MembersCounted /\ [Next]_vars => (IType /\ IRefs /\ MembersCounted)'
  BY NextType, RefsStep, MembersStep
<1> QED
  BY <1>1, <1>2, PTL DEF Spec

-----------------------------------------------------------------------------
(* The reservations of an invite                                           *)

\* Finitely many reservations stand, and no handler's clock is ahead.
IClock ==
    /\ IsFiniteSet({t \in Tickets : LiveTicket(t)})
    /\ \A h \in Handlers : req[h].now <= now

LEMMA PendingFinite ==
    ASSUME IClock, NEW c, NEW n
    PROVE  IsFiniteSet(PendingTickets(c, n)) /\ Cardinality(PendingTickets(c, n)) \in Nat
<1>1. PendingTickets(c, n) \subseteq {t \in Tickets : LiveTicket(t)}
  BY DEF PendingTickets
<1> QED
  BY <1>1, FS_Subset, FS_CardinalityType DEF IClock

\* The clock goes forward, and a handler reads it when it starts.
LEMMA ClockForward ==
    ASSUME IType, IClock, [Next]_vars
    PROVE  now <= now' /\ \A h \in Handlers : req'[h].now <= now'
<1> USE DEF IType, TypeOK, IClock
<1>1. now \in Nat /\ req \in [Handlers -> Request] /\ \A h \in Handlers : req[h].now <= now
  OBVIOUS
<1>2. \A h \in Handlers : req[h] \in Request /\ req[h].now \in Nat
  BY <1>1 DEF Request
<1>3. ASSUME NEW h \in Handlers, NEW r, r.now <= now, req' = [req EXCEPT ![h] = r]
      PROVE  \A g \in Handlers : req'[g].now <= now
  BY <1>1, <1>3
<1>4. ASSUME NEW h \in Handlers, Respond(h)
      PROVE  \A g \in Handlers : req'[g].now <= now
  BY <1>1, <1>3, <1>4 DEF Respond, Idle
<1>5. ASSUME NEW h \in Handlers, NEW pc, Goto(h, pc)
      PROVE  \A g \in Handlers : req'[g].now <= now
  BY <1>1, <1>2, <1>5 DEF Goto, Request
<1>6. CASE Tick \/ Restart \/ UNCHANGED vars
  BY <1>1, <1>2, <1>6 DEF Tick, Restart, vars, Idle
<1>7. CASE \/ \E c \in Codes, u \in UserIds, m \in 1..MaxUsesCap : CreateInvite(c, u, m)
           \/ \E c \in Codes : DisableInvite(c) \/ DeleteInvite(c)
           \/ \E u \in UserIds : DeleteUser(u)
           \/ \E u \in UserIds, n \in Names : RenameUser(u, n)
  <2>1. UNCHANGED <<now, req>>
    BY <1>7 DEF CreateInvite, DisableInvite, DeleteInvite, DeleteUser, Delete, RenameUser
  <2> QED
    BY <1>1, <2>1
<1>8. ASSUME NEW h \in Handlers,
             \/ ReserveWrite(h) \/ ClaimLinked(h) \/ ClaimWrite(h)
             \/ FinishLink(h) \/ FinishNew(h) \/ RegisterName(h) \/ RegisterWrite(h)
      PROVE  now' = now /\ \A g \in Handlers : req'[g].now <= now
  BY <1>4, <1>5, <1>8 DEF ReserveWrite, ClaimLinked, ClaimWrite, FinishLink, FinishNew,
                          RegisterName, RegisterWrite
<1>9. ASSUME NEW h \in Handlers,
             \/ \E c \in Codes, t \in Tickets \union {Null} : ReserveStart(h, c, t)
             \/ \E t \in Tickets, s \in Subjects, n \in Names : ClaimPending(h, t, s, n)
             \/ \E t \in Tickets, s \in Subjects : FinishPending(h, t, s)
             \/ \E c \in Codes, n \in Names : RegisterInvite(h, c, n)
      PROVE  now' = now /\ \A g \in Handlers : req'[g].now <= now
  <2>1. 0 <= now /\ now <= now
    BY <1>1
  <2>2. CASE \E c \in Codes, t \in Tickets \union {Null} : ReserveStart(h, c, t)
    BY <1>1, <2>1, <2>2 DEF ReserveStart, Idle
  <2>3. CASE \E t \in Tickets, s \in Subjects, n \in Names : ClaimPending(h, t, s, n)
    BY <1>1, <2>1, <2>3 DEF ClaimPending, Idle
  <2>4. CASE \E t \in Tickets, s \in Subjects : FinishPending(h, t, s)
    BY <1>1, <2>1, <2>4 DEF FinishPending, Idle
  <2>5. CASE \E c \in Codes, n \in Names : RegisterInvite(h, c, n)
    BY <1>1, <2>1, <2>5 DEF RegisterInvite, Idle
  <2> QED
    BY <1>9, <2>2, <2>3, <2>4, <2>5
<1>10. ASSUME NEW h \in Handlers, ClaimIdentity(h) \/ ClaimCollision(h) \/ FinishLinked(h)
       PROVE  now' = now /\ \A g \in Handlers : req'[g].now <= now
  BY <1>1, <1>2, <1>5, <1>10 DEF ClaimIdentity, ClaimCollision, FinishLinked, Request
<1> QED
  BY <1>1, <1>6, <1>7, <1>8, <1>9, <1>10 DEF Next

LEMMA ClockStep ==
    ASSUME IType, IClock, [Next]_vars
    PROVE  IClock'
<1> DEFINE Standing == {t \in Tickets : LiveTicket(t)}
<1>1. CASE Standing' \subseteq Standing
  <2>1. IsFiniteSet(Standing')
    BY <1>1, FS_Subset DEF IClock
  <2> QED
    BY <2>1, ClockForward DEF IClock
<1>2. ASSUME NEW h \in Handlers, NEW c \in Codes, NEW t \in Tickets, Reserves(h, c, t)
      PROVE  IClock'
  <2>1. Standing' \subseteq Standing \union {t}
    BY <1>2 DEF Reserves, LiveTicket, IType, TypeOK
  <2>2. IsFiniteSet(Standing')
    BY <2>1, FS_AddElement, FS_Subset DEF IClock
  <2> QED
    BY <2>2, ClockForward DEF IClock
<1>3. CASE Marks
  BY <1>1, <1>3 DEF Marks, LiveTicket
<1>4. CASE UNCHANGED enrollments
  BY <1>1, <1>4 DEF LiveTicket
<1>5. ASSUME NEW ids, NEW v, Delete(ids, v)
      PROVE  IClock'
  BY <1>1, <1>5 DEF Delete, LiveTicket, NoEnrollment
<1> QED
  BY <1>2, <1>3, <1>4, <1>5, Effects DEF CreateInvite, DisableInvite, RenameUser

\* Reservations only leave the set of an invite by marks and by time.
LEMMA FewerPending ==
    ASSUME IType, IType', IClock, PendingWithinMax, NEW c \in Codes, LiveInvite(c),
           PendingTickets(c, now)' \subseteq PendingTickets(c, now),
           invites'[c].max = invites[c].max
    PROVE  Cardinality(PendingTickets(c, now)') <= invites'[c].max
<1> DEFINE P == PendingTickets(c, now)
<1>1. Cardinality(P) <= invites[c].max /\ invites[c].max \in Nat
  BY DEF PendingWithinMax, IType, TypeOK, Invite
<1>2. IsFiniteSet(P) /\ Cardinality(P) \in Nat
  BY PendingFinite
<1> HIDE DEF P
<1>3. IsFiniteSet(P') /\ Cardinality(P') <= Cardinality(P)
  BY <1>2, FS_Subset DEF P
<1>4. Cardinality(P') \in Nat
  BY <1>3, FS_CardinalityType
<1> QED
  BY <1>1, <1>2, <1>3, <1>4 DEF P

\* The slot is taken only if there is room at a time that has passed.
LEMMA ReservedWithin ==
    ASSUME IType, IType', IClock, ITickets, NEW h \in Handlers, NEW c \in Codes,
           NEW t \in Tickets, Reserves(h, c, t), UNCHANGED now
    PROVE  Cardinality(PendingTickets(c, now)') <= invites'[c].max
<1> DEFINE n == req[h].now
           P == PendingTickets(c, n)
           Q == PendingTickets(c, now)'
<1>1. invites[c].uses + Cardinality(P) < invites[c].max /\ invites'[c].max = invites[c].max
  BY DEF Reserves, HasRoom
<1>2. invites[c].uses \in Nat /\ invites[c].max \in Nat /\ n \in Nat /\ now \in Nat
  BY DEF IType, TypeOK, Invite, Request
<1>3. n <= now
  BY DEF IClock
<1>4. \A s \in Tickets : enrollments[s].expires \in Nat
  BY DEF IType, TypeOK, Enrollment
<1>5. \A s \in Tickets \ {t} : enrollments'[s] = enrollments[s]
  BY DEF Reserves, IType, TypeOK
<1>6. invites'[c].id = invites[c].id
  BY DEF Reserves
<1>7. Q \subseteq P \union {t}
  BY <1>2, <1>3, <1>4, <1>5, <1>6 DEF PendingTickets, LiveTicket
<1>8. IsFiniteSet(P) /\ Cardinality(P) \in Nat
  BY PendingFinite
<1> HIDE DEF P, Q, n
<1>9. IsFiniteSet(P \union {t}) /\ Cardinality(P \union {t}) <= Cardinality(P) + 1
  <2>1. /\ IsFiniteSet(P \union {t})
        /\ Cardinality(P \union {t}) = IF t \in P THEN Cardinality(P) ELSE Cardinality(P) + 1
    BY <1>8, FS_AddElement
  <2> QED
    BY <1>8, <2>1
<1>10. IsFiniteSet(Q) /\ Cardinality(Q) <= Cardinality(P \union {t})
  BY <1>7, <1>9, FS_Subset
<1>11. Cardinality(Q) \in Nat /\ Cardinality(P \union {t}) \in Nat
  BY <1>9, <1>10, FS_CardinalityType
<1>12. Cardinality(Q) <= invites'[c].max
  BY <1>1, <1>2, <1>8, <1>9, <1>10, <1>11
<1> QED
  BY <1>12 DEF Q

LEMMA PendingStep ==
    ASSUME IType, IType', IRefs, IClock, PendingWithinMax, [Next]_vars
    PROVE  PendingWithinMax'
<1> SUFFICES ASSUME NEW c \in Codes, LiveInvite(c)'
             PROVE  Cardinality(PendingTickets(c, now)') <= invites'[c].max
  BY DEF PendingWithinMax, PendingTickets
<1>0. /\ now <= now' /\ now \in Nat /\ now' \in Nat
      /\ \A t \in Tickets : enrollments[t].expires \in Nat
      /\ invites[c].max \in Nat /\ invites'[c].max \in Nat
  BY ClockForward DEF IType, TypeOK, Enrollment, Invite
<1>1. ASSUME Marks, LiveInvite(c), invites'[c].id = invites[c].id, invites'[c].max = invites[c].max
      PROVE  Cardinality(PendingTickets(c, now)') <= invites'[c].max
  <2>1. PendingTickets(c, now)' \subseteq PendingTickets(c, now)
    <3> SUFFICES ASSUME NEW t \in PendingTickets(c, now)'
                 PROVE  t \in PendingTickets(c, now)
      OBVIOUS
    <3>1. /\ t \in Tickets /\ LiveTicket(t)' /\ enrollments'[t].invite = invites'[c].id
          /\ enrollments'[t].expires > now' /\ ~enrollments'[t].consumed
      BY DEF PendingTickets
    <3>2. /\ LiveTicket(t) /\ enrollments[t].invite = invites[c].id
          /\ enrollments[t].expires > now' /\ ~enrollments[t].consumed
      BY <1>1, <3>1 DEF Marks, LiveTicket
    <3>3. enrollments[t].expires > now
      BY <1>0, <3>1, <3>2
    <3> QED
      BY <3>1, <3>2, <3>3 DEF PendingTickets
  <2> QED
    BY <1>1, <2>1, FewerPending
<1>2. CASE UNCHANGED <<invites, users>> /\ Marks
  BY <1>1, <1>2 DEF LiveInvite
<1>3. ASSUME NEW h \in Handlers, NEW d \in Codes, NEW t \in Tickets, Reserves(h, d, t),
             UNCHANGED now
      PROVE  Cardinality(PendingTickets(c, now)') <= invites'[c].max
  <2>1. CASE c = d
    BY <1>3, <2>1, ReservedWithin DEF IRefs
  <2>2. CASE c /= d
    <3>1. /\ enrollments'[t].invite = invites[d].id
          /\ \A s \in Tickets \ {t} : enrollments'[s] = enrollments[s]
      BY <1>3 DEF Reserves, NoEnrollment, IType, TypeOK
    <3>2. LiveInvite(c) /\ LiveInvite(d) /\ UNCHANGED invites
      BY <1>3 DEF Reserves, HasRoom, LiveInvite
    <3>3. invites[c].id /= invites[d].id
      BY <2>2, <3>2 DEF IRefs, IKeys
    <3>4. PendingTickets(c, now)' \subseteq PendingTickets(c, now)
      BY <1>3, <3>1, <3>2, <3>3 DEF PendingTickets, LiveTicket
    <3> QED
      BY <3>2, <3>4, FewerPending
  <2> QED
    BY <2>1, <2>2
<1>4. ASSUME NEW d \in Codes, NEW u \in UserIds, NEW n, Joins(d, u, n), Marks
      PROVE  Cardinality(PendingTickets(c, now)') <= invites'[c].max
  <2>1. LiveInvite(c) /\ invites'[c].id = invites[c].id /\ invites'[c].max = invites[c].max
    <3>1. \A e \in Codes : /\ LiveInvite(e)' <=> LiveInvite(e)
                           /\ invites'[e].id = invites[e].id
                           /\ invites'[e].max = invites[e].max
      BY <1>4, UseCounted DEF Joins
    <3> QED
      BY <3>1
  <2> QED
    BY <1>1, <1>4, <2>1
<1>5. ASSUME NEW d \in Codes, NEW u \in UserIds, NEW m \in 1..MaxUsesCap, CreateInvite(d, u, m)
      PROVE  Cardinality(PendingTickets(c, now)') <= invites'[c].max
  <2>1. PICK i \in Nat \ {0} :
              /\ IsNextInviteId(i)
              /\ invites'[d] = [state |-> "live", id |-> i, owner |-> u, disabled |-> FALSE,
                                uses |-> 0, max |-> m]
              /\ ~LiveInvite(d)
              /\ \A e \in Codes \ {d} : invites'[e] = invites[e]
    BY <1>5, InviteCreated
  <2>2. UNCHANGED enrollments
    BY <1>5 DEF CreateInvite
  <2>3. CASE c = d
    <3>1. \A t \in Tickets : LiveTicket(t) => enrollments[t].invite /= invites'[c].id
      BY <2>1, <2>3, FreshId
    <3>2. PendingTickets(c, now)' = {}
      BY <2>2, <3>1 DEF PendingTickets, LiveTicket
    <3> QED
      BY <1>0, <3>2, FS_EmptySet
  <2>4. CASE c /= d
    BY <1>1, <2>1, <2>2, <2>4 DEF LiveInvite, Marks
  <2> QED
    BY <2>3, <2>4
<1>6. ASSUME NEW d \in Codes, DisableInvite(d)
      PROVE  Cardinality(PendingTickets(c, now)') <= invites'[c].max
  <2>1. LiveInvite(c) /\ invites'[c].id = invites[c].id /\ invites'[c].max = invites[c].max
    BY <1>6, DisableKeeps
  <2> QED
    BY <1>1, <1>6, <2>1 DEF DisableInvite, Marks
<1>7. ASSUME NEW ids, NEW v, Delete(ids, v)
      PROVE  Cardinality(PendingTickets(c, now)') <= invites'[c].max
  <2>1. LiveInvite(c) /\ invites'[c] = invites[c] /\ UNCHANGED now
    BY <1>7, DeleteLeaves DEF IRefs, Delete
  <2>2. \A t \in Tickets : LiveTicket(t)' => LiveTicket(t) /\ enrollments'[t] = enrollments[t]
    BY <1>7, DeleteLeaves DEF IRefs
  <2>3. PendingTickets(c, now)' \subseteq PendingTickets(c, now)
    BY <2>1, <2>2 DEF PendingTickets
  <2> QED
    BY <2>1, <2>3, FewerPending
<1>8. ASSUME NEW u \in UserIds, NEW n \in Names, RenameUser(u, n)
      PROVE  Cardinality(PendingTickets(c, now)') <= invites'[c].max
  BY <1>1, <1>8 DEF RenameUser, Marks, LiveInvite
<1>9. (\E h \in Handlers, d \in Codes, t \in Tickets : Reserves(h, d, t)) => UNCHANGED now \/ Marks
  <2>1. CASE Tick
    BY <2>1 DEF Tick, Marks
  <2>2. ASSUME NEW h \in Handlers,
               \/ \E d \in Codes, t \in Tickets \union {Null} : ReserveStart(h, d, t)
               \/ ReserveWrite(h)
               \/ \E t \in Tickets, s \in Subjects, n \in Names : ClaimPending(h, t, s, n)
               \/ ClaimIdentity(h) \/ ClaimCollision(h) \/ ClaimLinked(h) \/ ClaimWrite(h)
        PROVE  UNCHANGED now
    BY <2>2 DEF ReserveStart, ReserveWrite, ClaimPending, ClaimIdentity, ClaimCollision,
                ClaimLinked, ClaimWrite
  <2>3. ASSUME NEW h \in Handlers,
               \/ \E t \in Tickets, s \in Subjects : FinishPending(h, t, s)
               \/ FinishLinked(h) \/ FinishLink(h) \/ FinishNew(h)
               \/ \E d \in Codes, n \in Names : RegisterInvite(h, d, n)
               \/ RegisterName(h) \/ RegisterWrite(h)
        PROVE  UNCHANGED now
    BY <2>3 DEF FinishPending, FinishLinked, FinishLink, FinishNew, RegisterInvite,
                RegisterName, RegisterWrite
  <2>4. CASE \/ \E d \in Codes, u \in UserIds, m \in 1..MaxUsesCap : CreateInvite(d, u, m)
             \/ \E d \in Codes : DisableInvite(d) \/ DeleteInvite(d)
             \/ \E u \in UserIds : DeleteUser(u)
             \/ \E u \in UserIds, n \in Names : RenameUser(u, n)
             \/ Restart \/ UNCHANGED vars
    BY <2>4 DEF CreateInvite, DisableInvite, DeleteInvite, DeleteUser, Delete, RenameUser,
                Restart, vars
  <2> QED
    BY <2>1, <2>2, <2>3, <2>4 DEF Next
<1>10. ASSUME NEW h \in Handlers, NEW d \in Codes, NEW t \in Tickets, Reserves(h, d, t), Marks
       PROVE  Cardinality(PendingTickets(c, now)') <= invites'[c].max
  BY <1>1, <1>10 DEF Reserves, LiveInvite
<1> QED
  BY <1>2, <1>3, <1>4, <1>5, <1>6, <1>7, <1>8, <1>9, <1>10, Effects

\* However stale the clock a handler reserves by, an invite never has more unexpired
\* reservations than uses in all (PendingWithinMax).
THEOREM ReservationsWithinMax == Spec => []PendingWithinMax
<1>1. Init => IType /\ IRefs /\ IClock /\ PendingWithinMax
  <2> SUFFICES ASSUME Init
               PROVE  IClock /\ PendingWithinMax
    BY InitType, InitRefs
  <2>1. {t \in Tickets : LiveTicket(t)} = {}
    BY DEF Init, LiveTicket, NoEnrollment
  <2>2. \A h \in Handlers : req[h].now <= now
    BY DEF Init, Idle
  <2>3. PendingWithinMax
    BY DEF Init, PendingWithinMax, LiveInvite, NoInvite
  <2> QED
    BY <2>1, <2>2, <2>3, FS_EmptySet DEF IClock
<1>2. IType /\ IRefs /\ IClock /\ PendingWithinMax /\ [Next]_vars
        => (IType /\ IRefs /\ IClock /\ PendingWithinMax)'
  BY NextType, RefsStep, ClockStep, PendingStep
<1> QED
  BY <1>1, <1>2, PTL DEF Spec

-----------------------------------------------------------------------------
(* The central flow implements InviteQuota                                 *)

\* What InviteQuota sees of one invite and of one account.
QuotaOf(c) ==
    [phase |-> IF ~LiveInvite(c) THEN invites[c].state
               ELSE IF invites[c].disabled THEN "disabled" ELSE "open",
     used |-> invites[c].uses, max |-> invites[c].max]
CameBy(u) == IF users[u].live /\ users[u].invite /= 0 THEN CodeOf(users[u].invite) ELSE Null

LEMMA SeenOf ==
    /\ QuotaSeen = [c \in Codes |-> QuotaOf(c)]
    /\ CameWith = [u \in UserIds |-> CameBy(u)]
    /\ QuotaSeen' = [c \in Codes |-> QuotaOf(c)']
    /\ CameWith' = [u \in UserIds |-> CameBy(u)']
BY DEF QuotaSeen, CameWith, QuotaOf, CameBy

\* The code of an id is the one invite that has it.
LEMMA CodeOfLive ==
    ASSUME IKeys, NEW c \in Codes, LiveInvite(c)
    PROVE  CodeOf(invites[c].id) = c
BY DEF IKeys, CodeOf

\* Accounts that keep their invite, while all invites in use keep their ids.
LEMMA CameKept ==
    ASSUME IRefs, IRefs', NEW u \in UserIds,
           users'[u].live = users[u].live, users'[u].invite = users[u].invite,
           \A c \in Codes : LiveInvite(c) => LiveInvite(c)' /\ invites'[c].id = invites[c].id
    PROVE  CameBy(u)' = CameBy(u)
<1>1. CASE users[u].live /\ users[u].invite /= 0
  <2>1. PICK c \in Codes : LiveInvite(c) /\ invites[c].id = users[u].invite
    BY <1>1 DEF IRefs, IMembers, LiveId
  <2>2. CodeOf(users[u].invite) = c
    BY <2>1, CodeOfLive DEF IRefs
  <2>3. LiveInvite(c)' /\ invites'[c].id = users'[u].invite
    BY <2>1
  <2>4. CodeOf(users[u].invite)' = c
    BY <2>3 DEF IRefs, IKeys, CodeOf
  <2> QED
    BY <1>1, <2>2, <2>4 DEF CameBy
<1>2. CASE ~(users[u].live /\ users[u].invite /= 0)
  BY <1>2 DEF CameBy
<1> QED
  BY <1>1, <1>2

LEMMA QuotaInit ==
    ASSUME Init
    PROVE  Quota!Init
<1>1. \A c \in Codes : QuotaOf(c) = [phase |-> "unissued", used |-> 0, max |-> 0]
  BY DEF Init, NoInvite, QuotaOf, LiveInvite
<1>2. \A u \in UserIds : CameBy(u) = Null
  BY DEF Init, NoUser, CameBy
<1> QED
  BY <1>1, <1>2, SeenOf DEF Quota!Init

\* What admits an account is one use of an open invite.
LEMMA QuotaAdmits ==
    ASSUME IType, IRefs, IRefs', NEW c \in Codes, NEW u \in UserIds, NEW n,
           Joins(c, u, n), Spendable(c, invites[c].id)
    PROVE  Quota!Admit(c, u)
<1>1. /\ \A d \in Codes : /\ LiveInvite(d)' <=> LiveInvite(d)
                          /\ invites'[d].id = invites[d].id
                          /\ invites'[d].max = invites[d].max
                          /\ invites'[d].state = invites[d].state
                          /\ invites'[d].disabled = invites[d].disabled
                          /\ d /= c => invites'[d].uses = invites[d].uses
      /\ invites'[c].uses = invites[c].uses + 1
  BY UseCounted DEF Joins
<1>2. /\ ~users[u].live /\ users'[u].live = TRUE /\ users'[u].invite = invites[c].id
      /\ \A v \in UserIds \ {u} : users'[v] = users[v]
  BY FreshUser DEF Joins, IType, TypeOK
<1>3. LiveInvite(c) /\ ~invites[c].disabled /\ invites[c].uses < invites[c].max
      /\ invites[c].id /= 0
  BY DEF Spendable, IRefs, IKeys
<1>4. QuotaSeen[c].phase = "open" /\ QuotaSeen[c].used < QuotaSeen[c].max
  BY <1>3, SeenOf DEF QuotaOf
<1>5. CameWith[u] = Null
  BY <1>2, SeenOf DEF CameBy
<1>6. /\ \A d \in Codes \ {c} : QuotaOf(d)' = QuotaOf(d)
      /\ QuotaOf(c)' = [QuotaOf(c) EXCEPT !.used = @ + 1]
  BY <1>1 DEF QuotaOf
<1>7. QuotaSeen' = [QuotaSeen EXCEPT ![c].used = @ + 1]
  BY <1>6, SeenOf
<1>8. CameBy(u)' = c
  <2>1. LiveInvite(c)' /\ invites'[c].id = users'[u].invite
    BY <1>1, <1>2, <1>3
  <2>2. CodeOf(users[u].invite)' = c
    BY <2>1 DEF IRefs, IKeys, CodeOf
  <2> QED
    BY <1>2, <1>3, <2>2 DEF CameBy
<1>9. \A v \in UserIds \ {u} : CameBy(v)' = CameBy(v)
  BY <1>1, <1>2, CameKept
<1>10. CameWith' = [CameWith EXCEPT ![u] = c]
  BY <1>8, <1>9, SeenOf
<1> QED
  BY <1>4, <1>5, <1>7, <1>10 DEF Quota!Admit

LEMMA QuotaIssues ==
    ASSUME IType, IRefs, IRefs', NEW c \in Codes, NEW u \in UserIds, NEW m \in 1..MaxUsesCap,
           CreateInvite(c, u, m)
    PROVE  Quota!Issue(c, m)
<1>1. PICK i \in Nat \ {0} :
              /\ IsNextInviteId(i)
              /\ invites'[c] = [state |-> "live", id |-> i, owner |-> u, disabled |-> FALSE,
                                uses |-> 0, max |-> m]
              /\ ~LiveInvite(c)
              /\ \A d \in Codes \ {c} : invites'[d] = invites[d]
  BY InviteCreated
<1>2. invites[c].state = "unissued" /\ UNCHANGED users
  BY DEF CreateInvite
<1>3. QuotaSeen[c].phase = "unissued"
  BY <1>1, <1>2, SeenOf DEF QuotaOf
<1>4. /\ \A d \in Codes \ {c} : QuotaOf(d)' = QuotaOf(d)
      /\ QuotaOf(c)' = [phase |-> "open", used |-> 0, max |-> m]
  BY <1>1 DEF QuotaOf, LiveInvite
<1>5. QuotaSeen' = [QuotaSeen EXCEPT ![c] = [phase |-> "open", used |-> 0, max |-> m]]
  BY <1>4, SeenOf
<1>6. \A d \in Codes : LiveInvite(d) => LiveInvite(d)' /\ invites'[d].id = invites[d].id
  BY <1>1 DEF LiveInvite
<1>7. \A v \in UserIds : CameBy(v)' = CameBy(v)
  BY <1>2, <1>6, CameKept
<1>8. CameWith' = CameWith
  BY <1>7, SeenOf
<1> QED
  BY <1>3, <1>5, <1>8 DEF Quota!Issue

LEMMA QuotaDisables ==
    ASSUME IType, IRefs, IRefs', NEW c \in Codes, DisableInvite(c)
    PROVE  Quota!Disable(c) \/ UNCHANGED <<QuotaSeen, CameWith>>
<1>1. /\ \A d \in Codes : /\ LiveInvite(d)' <=> LiveInvite(d)
                          /\ invites'[d].state = invites[d].state
                          /\ invites'[d].id = invites[d].id
                          /\ invites'[d].max = invites[d].max
                          /\ invites'[d].uses = invites[d].uses
                          /\ d /= c => invites'[d].disabled = invites[d].disabled
      /\ invites'[c].disabled
  BY DisableKeeps
<1>2. LiveInvite(c) /\ UNCHANGED users
  BY DEF DisableInvite
<1>3. \A v \in UserIds : CameBy(v)' = CameBy(v)
  BY <1>1, <1>2, CameKept
<1>4. CameWith' = CameWith
  BY <1>3, SeenOf
<1>5. /\ \A d \in Codes \ {c} : QuotaOf(d)' = QuotaOf(d)
      /\ QuotaOf(c)' = [QuotaOf(c) EXCEPT !.phase = "disabled"]
  BY <1>1, <1>2 DEF QuotaOf
<1>6. CASE invites[c].disabled
  <2>1. \A d \in Codes : QuotaOf(d)' = QuotaOf(d)
    BY <1>2, <1>5, <1>6 DEF QuotaOf
  <2> QED
    BY <1>4, <2>1, SeenOf
<1>7. CASE ~invites[c].disabled
  <2>1. QuotaSeen[c].phase = "open"
    BY <1>2, <1>7, SeenOf DEF QuotaOf
  <2>2. QuotaSeen' = [QuotaSeen EXCEPT ![c].phase = "disabled"]
    BY <1>5, SeenOf
  <2> QED
    BY <1>4, <2>1, <2>2 DEF Quota!Disable
<1> QED
  BY <1>6, <1>7

\* A deletion removes the invites with the ids and the account.
LEMMA QuotaRemoves ==
    ASSUME IType, IRefs, IRefs', NEW ids, NEW v, Delete(ids, v)
    PROVE  \E C \in SUBSET Codes, A \in SUBSET UserIds : Quota!Remove(C, A)
<1> DEFINE C == {c \in Codes : LiveInvite(c) /\ invites[c].id \in ids}
           A == {v} \intersect UserIds
<1>1. \A c \in C : QuotaSeen[c].phase \in {"open", "disabled"}
  BY SeenOf DEF QuotaOf
<1>2. \A c \in Codes : QuotaOf(c)' = IF c \in C THEN [phase |-> "deleted", used |-> 0, max |-> 0]
                                     ELSE QuotaOf(c)
  BY DEF Delete, QuotaOf, LiveInvite, NoInvite
<1>3. QuotaSeen' = [c \in Codes |-> IF c \in C THEN [phase |-> "deleted", used |-> 0, max |-> 0]
                                    ELSE QuotaSeen[c]]
  BY <1>2, SeenOf
<1>4. ASSUME NEW u \in UserIds
      PROVE  CameBy(u)' = IF u \in A \/ CameBy(u) \in C THEN Null ELSE CameBy(u)
  <2>1. users[u] \in User /\ users'[u] = IF u = v THEN NoUser ELSE MemberWithout(u, ids)
    BY DEF IType, TypeOK, Delete
  <2>2. CASE u \in A
    BY <2>1, <2>2 DEF CameBy, NoUser
  <2>3. CASE u \notin A /\ users[u].live /\ users[u].invite /= 0
    <3>1. PICK c \in Codes : LiveInvite(c) /\ invites[c].id = users[u].invite
      BY <2>3 DEF IRefs, IMembers, LiveId
    <3>2. CameBy(u) = c
      BY <2>3, <3>1, CodeOfLive DEF CameBy, IRefs
    <3>3. CASE users[u].invite \in ids
      <4>1. c \in C
        BY <3>1, <3>3
      <4>2. users'[u].invite = 0
        BY <2>1, <2>3, <3>3 DEF MemberWithout, User
      <4> QED
        BY <3>2, <4>1, <4>2 DEF CameBy
    <3>4. CASE users[u].invite \notin ids
      <4>1. c \notin C
        BY <3>1, <3>4
      <4>2. users'[u] = users[u]
        BY <2>1, <2>3, <3>4 DEF MemberWithout
      <4>3. LiveInvite(c)' /\ invites'[c].id = users'[u].invite
        BY <3>1, <3>4, <4>2, DeleteLeaves DEF IRefs
      <4>4. CodeOf(users[u].invite)' = c
        BY <4>3 DEF IRefs, IKeys, CodeOf
      <4> QED
        BY <2>3, <3>2, <4>1, <4>2, <4>4 DEF CameBy
    <3> QED
      BY <3>3, <3>4
  <2>4. CASE u \notin A /\ ~(users[u].live /\ users[u].invite /= 0)
    <3>1. CameBy(u) = Null
      BY <2>4 DEF CameBy
    <3>2. ~(users'[u].live /\ users'[u].invite /= 0)
      BY <2>4, DeleteLeaves DEF IRefs
    <3> QED
      BY <3>1, <3>2 DEF CameBy
  <2> QED
    BY <2>2, <2>3, <2>4
<1>5. CameWith' = [u \in UserIds |-> IF u \in A \/ CameWith[u] \in C THEN Null ELSE CameWith[u]]
  BY <1>4, SeenOf
<1> HIDE DEF C, A
<1>6. Quota!Remove(C, A)
  BY <1>1, <1>3, <1>5 DEF Quota!Remove
<1> QED
  BY <1>6 DEF C, A

LEMMA QuotaStep ==
    ASSUME IType, IRefs, IRefs', ICentral, [Next]_vars
    PROVE  [Quota!Next]_<<QuotaSeen, CameWith>>
<1>1. ASSUME UNCHANGED invites,
             \A u \in UserIds : /\ users'[u].live = users[u].live
                                /\ users'[u].invite = users[u].invite
      PROVE  UNCHANGED <<QuotaSeen, CameWith>>
  <2>1. \A c \in Codes : QuotaOf(c)' = QuotaOf(c)
    BY <1>1 DEF QuotaOf, LiveInvite
  <2>2. \A u \in UserIds : CameBy(u)' = CameBy(u)
    BY <1>1, CameKept DEF LiveInvite
  <2> QED
    BY <2>1, <2>2, SeenOf
<1>2. CASE UNCHANGED <<invites, users>>
  BY <1>1, <1>2
<1>3. ASSUME NEW u \in UserIds, NEW n \in Names, RenameUser(u, n)
      PROVE  UNCHANGED <<QuotaSeen, CameWith>>
  <2>1. \A w \in UserIds : /\ users'[w].live = users[w].live
                           /\ users'[w].invite = users[w].invite
    BY <1>3 DEF RenameUser, IType, TypeOK, User
  <2> QED
    BY <1>1, <1>3, <2>1 DEF RenameUser
<1>4. ASSUME NEW c \in Codes, NEW u \in UserIds, NEW n, Joins(c, u, n),
             Spendable(c, invites[c].id)
      PROVE  \E d \in Codes, a \in UserIds : Quota!Admit(d, a)
  BY <1>4, QuotaAdmits
<1>5. ASSUME NEW h \in Handlers, RegisterWrite(h)
      PROVE  FALSE
  BY <1>5 DEF ICentral, RegisterWrite
<1>6. ASSUME NEW c \in Codes, NEW u \in UserIds, NEW m \in 1..MaxUsesCap, CreateInvite(c, u, m)
      PROVE  \E d \in Codes, k \in 1..MaxUsesCap : Quota!Issue(d, k)
  BY <1>6, QuotaIssues
<1>7. ASSUME NEW c \in Codes, DisableInvite(c)
      PROVE  (\E d \in Codes : Quota!Disable(d)) \/ UNCHANGED <<QuotaSeen, CameWith>>
  BY <1>7, QuotaDisables
<1>8. ASSUME NEW ids, NEW v, Delete(ids, v)
      PROVE  \E C \in SUBSET Codes, A \in SUBSET UserIds : Quota!Remove(C, A)
  BY <1>8, QuotaRemoves
<1> QED
  BY <1>2, <1>3, <1>4, <1>5, <1>6, <1>7, <1>8, Effects DEF Reserves, Quota!Next

\* While central sign-in stays on the flow implements InviteQuota (QuotaSpec): every step
\* is one of its steps or changes neither the quotas nor whom they admitted.
THEOREM CentralImplementsQuota ==
    ASSUME Modes = {TRUE}
    PROVE  Spec => QuotaSpec
<1>1. Init => IType /\ IRefs /\ ICentral
  BY InitType, InitRefs DEF Init, ICentral, UsesWithinMax, LiveInvite, NoInvite, Idle
<1>2. IType /\ IRefs /\ ICentral /\ [Next]_vars => (IType /\ IRefs /\ ICentral)'
  BY NextType, RefsStep, NoLocalRegistration, UsesStep DEF ICentral
<1>3. Init => Quota!Init
  BY QuotaInit
<1>4. IType /\ IRefs /\ IRefs' /\ ICentral /\ [Next]_vars
        => [Quota!Next]_<<QuotaSeen, CameWith>>
  BY QuotaStep
<1> QED
  BY <1>1, <1>2, <1>3, <1>4, PTL DEF Spec, QuotaSpec, Quota!Spec
=============================================================================
