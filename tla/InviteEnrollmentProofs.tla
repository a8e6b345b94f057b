---------------------- MODULE InviteEnrollmentProofs ----------------------
(***************************************************************************)
(* Proofs about InviteEnrollment, for every number of handlers, invites,   *)
(* reservations, subjects and accounts.                                    *)
(***************************************************************************)
EXTENDS InviteEnrollment, TLAPS

USE BoundsAssumption, NamesAssumption

-----------------------------------------------------------------------------
(* Type correctness *)

\* A request that is past its first read knows what it is about.
Proper(r) ==
    /\ r.pc = "reserve" => r.code \in Codes
    /\ r.pc \in {"claim_identity", "claim_collision", "claim_linked", "claim_write",
                 "finish_linked", "finish_link", "finish_new"}
         => r.ticket \in Tickets /\ r.subject \in Subjects

\* TypeOK alone is not inductive: a handler indexes the tables with what it
\* has read, which must not be NULL.
IType == TypeOK /\ \A h \in Handlers : Proper(req[h])

\* The rows and requests that the actions start from have their types.
LEMMA BlankTypes ==
    /\ NoInvite \in Invite
    /\ NoEnrollment \in Enrollment
    /\ NoUser \in User
    /\ Idle \in Request /\ Proper(Idle)
BY DEF NoInvite, Invite, NoEnrollment, Enrollment, NoUser, User, Idle, Request, RowStates,
       Proper

LEMMA InitType == Init => IType
<1> SUFFICES ASSUME Init PROVE IType
  OBVIOUS
<1>1. central \in BOOLEAN /\ now \in Nat
  BY DEF Init
<1>2. users \in [UserIds -> User]
  BY BlankTypes DEF Init, NoUser, User, UserIds
<1>3. identities \in [Subjects -> 0..MaxUser]
  BY DEF Init
<1> QED
  BY <1>1, <1>2, <1>3, BlankTypes DEF Init, TypeOK, IType

\* A step that rewrites one handler's request and otherwise keeps the types.
LEMMA OneRequest ==
    ASSUME IType, NEW h \in Handlers, NEW r \in Request, Proper(r),
           req' = [req EXCEPT ![h] = r]
    PROVE  req' \in [Handlers -> Request] /\ \A g \in Handlers : Proper(req'[g])
BY DEF IType, TypeOK

LEMMA RespondType ==
    ASSUME IType, NEW h \in Handlers, Respond(h)
    PROVE  req' \in [Handlers -> Request] /\ \A g \in Handlers : Proper(req'[g])
BY BlankTypes, OneRequest DEF Respond

\* A handler goes from one step of its claim or finish, or of its register, to
\* the next.
LEMMA GotoType ==
    ASSUME IType, NEW h \in Handlers, NEW pc, Goto(h, pc),
           \/ /\ req[h].pc \in {"claim_collision", "claim_linked", "finish_linked"}
              /\ pc \in {"claim_write", "finish_new"}
           \/ pc = "register_write"
    PROVE  req' \in [Handlers -> Request] /\ \A g \in Handlers : Proper(req'[g])
<1> DEFINE r == [req[h] EXCEPT !.pc = pc]
<1>0. req[h] \in Request /\ Proper(req[h])
  BY DEF IType, TypeOK
<1>1. r \in Request /\ Proper(r)
  BY <1>0 DEF Request, Proper
<1>2. req' = [req EXCEPT ![h] = r]
  BY <1>0 DEF Goto, IType, TypeOK
<1> QED
  BY <1>1, <1>2, OneRequest

LEMMA ReserveStartType ==
    ASSUME IType, NEW h \in Handlers, NEW c \in Codes, NEW t \in Tickets \union {Null},
           ReserveStart(h, c, t)
    PROVE  IType'
<1> DEFINE r == [Idle EXCEPT !.pc = "reserve", !.code = c, !.now = now]
<1>1. r \in Request /\ Proper(r)
  BY DEF IType, TypeOK, Idle, Request, Proper
<1>2. req' = [req EXCEPT ![h] = r]
  BY DEF ReserveStart
<1> QED
  BY <1>1, <1>2, OneRequest DEF ReserveStart, IType, TypeOK

LEMMA ReserveWriteType ==
    ASSUME IType, NEW h \in Handlers, ReserveWrite(h)
    PROVE  IType'
<1> DEFINE c == req[h].code
<1>1. c \in Codes /\ req[h].now \in Nat
  BY DEF IType, TypeOK, Proper, ReserveWrite, Request
<1>2. ASSUME NEW t \in Tickets,
             enrollments' = [enrollments EXCEPT ![t] =
                        [NoEnrollment EXCEPT !.state = "live", !.invite = invites[c].id,
                                             !.expires = req[h].now + Lifetime]]
      PROVE  enrollments' \in [Tickets -> Enrollment]
  <2> DEFINE e == [NoEnrollment EXCEPT !.state = "live", !.invite = invites[c].id,
                                       !.expires = req[h].now + Lifetime]
  <2>1. invites[c].id \in Nat
    BY <1>1 DEF IType, TypeOK, Invite
  <2>2. req[h].now + Lifetime \in Nat
    BY <1>1
  <2>3. e \in Enrollment
    BY <2>1, <2>2, Zenon DEF NoEnrollment, Enrollment, RowStates
  <2> QED
    BY <1>2, <2>3 DEF IType, TypeOK
<1>3. enrollments' \in [Tickets -> Enrollment]
  BY <1>2 DEF ReserveWrite, IType, TypeOK
<1> QED
  BY <1>3, RespondType DEF ReserveWrite, IType, TypeOK

LEMMA ClaimPendingType ==
    ASSUME IType, NEW h \in Handlers, NEW t \in Tickets, NEW s \in Subjects,
           NEW n \in Names, ClaimPending(h, t, s, n)
    PROVE  IType'
<1> DEFINE r == [Idle EXCEPT !.pc = "claim_identity", !.ticket = t, !.subject = s, !.name = n]
<1>1. r \in Request /\ Proper(r)
  BY DEF Idle, Request, Proper
<1>2. req' = [req EXCEPT ![h] = r]
  BY DEF ClaimPending
<1> QED
  BY <1>1, <1>2, OneRequest DEF ClaimPending, IType, TypeOK

LEMMA ClaimIdentityType ==
    ASSUME IType, NEW h \in Handlers, ClaimIdentity(h)
    PROVE  IType'
<1> DEFINE n == NameFor(req[h].subject, req[h].name)
           r == [req[h] EXCEPT !.pc = "claim_collision", !.name = n]
<1>0. req[h] \in Request /\ req[h].subject \in Subjects /\ req[h].ticket \in Tickets
  BY DEF IType, TypeOK, Proper, ClaimIdentity
<1>1. n \in Names \union {Null}
  <2> DEFINE u == identities[req[h].subject]
  <2>1. CASE u /= 0
    <3>1. u \in UserIds
      BY <1>0, <2>1 DEF IType, TypeOK, UserIds
    <3> QED
      BY <3>1, <2>1 DEF NameFor, IType, TypeOK, User
  <2>2. CASE u = 0
    BY <1>0, <2>2 DEF Request, NameFor
  <2> QED
    BY <2>1, <2>2
<1>2. r \in Request /\ Proper(r)
  BY <1>0, <1>1 DEF Request, Proper
<1>3. req' = [req EXCEPT ![h] = r]
  BY <1>0 DEF ClaimIdentity, IType, TypeOK
<1> QED
  BY <1>2, <1>3, OneRequest DEF ClaimIdentity, IType, TypeOK

LEMMA ClaimCollisionType ==
    ASSUME IType, NEW h \in Handlers, ClaimCollision(h)
    PROVE  IType'
<1>0. req[h] \in Request /\ req[h].ticket \in Tickets /\ req[h].subject \in Subjects
  BY DEF IType, TypeOK, Proper, ClaimCollision
<1>1. ASSUME NEW u \in UserIds,
             req' = [req EXCEPT ![h].pc = "claim_linked", ![h].id = u]
      PROVE  req' \in [Handlers -> Request] /\ \A g \in Handlers : Proper(req'[g])
  <2> DEFINE r == [req[h] EXCEPT !.pc = "claim_linked", !.id = u]
  <2>1. r \in Request /\ Proper(r)
    <3>1. u \in Nat
      BY DEF UserIds
    <3> QED
      BY <1>0, <3>1 DEF Request, Proper
  <2>2. req' = [req EXCEPT ![h] = r]
    BY <1>0, <1>1 DEF IType, TypeOK
  <2> QED
    BY <2>1, <2>2, OneRequest
<1>2. req' \in [Handlers -> Request] /\ \A g \in Handlers : Proper(req'[g])
  BY <1>1, GotoType DEF ClaimCollision
<1> QED
  BY <1>2 DEF ClaimCollision, IType, TypeOK

LEMMA ClaimLinkedType ==
    ASSUME IType, NEW h \in Handlers, ClaimLinked(h)
    PROVE  IType'
<1>1. req' \in [Handlers -> Request] /\ \A g \in Handlers : Proper(req'[g])
  BY GotoType, RespondType DEF ClaimLinked
<1> QED
  BY <1>1 DEF ClaimLinked, IType, TypeOK

LEMMA ClaimWriteType ==
    ASSUME IType, NEW h \in Handlers, ClaimWrite(h)
    PROVE  IType'
<1> DEFINE t == req[h].ticket
           e == [enrollments[t] EXCEPT !.subject = req[h].subject, !.name = req[h].name]
<1>1. req[h] \in Request /\ t \in Tickets
  BY DEF IType, TypeOK, Proper, ClaimWrite
<1>2. enrollments[t] \in Enrollment
  BY <1>1 DEF IType, TypeOK
<1>3. e \in Enrollment
  BY <1>1, <1>2 DEF Request, Enrollment
<1>4. ASSUME enrollments' = [enrollments EXCEPT ![t].subject = req[h].subject,
                                                ![t].name = req[h].name]
      PROVE  enrollments' \in [Tickets -> Enrollment]
  <2>1. enrollments' = [enrollments EXCEPT ![t] = e]
    BY <1>1, <1>2, <1>4 DEF IType, TypeOK
  <2> QED
    BY <1>3, <2>1 DEF IType, TypeOK
<1>5. enrollments' \in [Tickets -> Enrollment]
  BY <1>4 DEF ClaimWrite, IType, TypeOK
<1> QED
  BY <1>5, RespondType DEF ClaimWrite, IType, TypeOK

LEMMA FinishPendingType ==
    ASSUME IType, NEW h \in Handlers, NEW t \in Tickets, NEW s \in Subjects,
           FinishPending(h, t, s)
    PROVE  IType'
<1> DEFINE r == [Idle EXCEPT !.pc = "finish_linked", !.ticket = t, !.subject = s,
                             !.name = enrollments[t].name, !.id = enrollments[t].invite]
<1>1. enrollments[t].name \in Names \union {Null} /\ enrollments[t].invite \in Nat
  BY DEF IType, TypeOK, Enrollment
<1>2. r \in Request /\ Proper(r)
  BY <1>1 DEF Idle, Request, Proper
<1>3. req' = [req EXCEPT ![h] = r]
  BY DEF FinishPending
<1> QED
  BY <1>2, <1>3, OneRequest DEF FinishPending, IType, TypeOK

LEMMA FinishLinkedType ==
    ASSUME IType, NEW h \in Handlers, FinishLinked(h)
    PROVE  IType'
<1> DEFINE u == identities[req[h].subject]
           r == [req[h] EXCEPT !.pc = "finish_link", !.id = u]
<1>1. req[h] \in Request /\ req[h].ticket \in Tickets /\ req[h].subject \in Subjects
  BY DEF IType, TypeOK, Proper, FinishLinked
<1>2. u \in Nat
  BY <1>1 DEF IType, TypeOK
<1>3. r \in Request /\ Proper(r)
  BY <1>1, <1>2 DEF Request, Proper
<1>4. CASE u /= 0
  <2>1. req' = [req EXCEPT ![h] = r]
    BY <1>1, <1>4 DEF FinishLinked, IType, TypeOK
  <2> QED
    BY <1>3, <2>1, OneRequest DEF FinishLinked, IType, TypeOK
<1>5. CASE u = 0
  BY <1>5, GotoType DEF FinishLinked, IType, TypeOK
<1> QED
  BY <1>4, <1>5

\* Marking a registration consumed by a user keeps the table typed.
LEMMA ConsumeType ==
    ASSUME IType, NEW t \in Tickets, NEW u \in Nat,
           enrollments' = [enrollments EXCEPT ![t].user = u, ![t].consumed = TRUE]
    PROVE  enrollments' \in [Tickets -> Enrollment]
<1> DEFINE e == [enrollments[t] EXCEPT !.user = u, !.consumed = TRUE]
<1>1. enrollments[t] \in Enrollment
  BY DEF IType, TypeOK
<1>2. e \in Enrollment
  BY <1>1 DEF Enrollment
<1>3. enrollments' = [enrollments EXCEPT ![t] = e]
  BY <1>1 DEF IType, TypeOK
<1> QED
  BY <1>2, <1>3 DEF IType, TypeOK

LEMMA FinishLinkType ==
    ASSUME IType, NEW h \in Handlers, FinishLink(h)
    PROVE  IType'
<1>1. req[h].ticket \in Tickets /\ req[h].id \in Nat
  BY DEF IType, TypeOK, Proper, FinishLink, Request
<1>2. enrollments' \in [Tickets -> Enrollment]
  BY <1>1, ConsumeType DEF FinishLink, IType, TypeOK
<1> QED
  BY <1>2, RespondType DEF FinishLink, IType, TypeOK

\* Counting a use of an invite and inserting a member keep the tables typed.
LEMMA UseType ==
    ASSUME IType, NEW c \in Codes, invites' = [invites EXCEPT ![c].uses = @ + 1]
    PROVE  invites' \in [Codes -> Invite]
<1> DEFINE i == [invites[c] EXCEPT !.uses = @ + 1]
<1>1. invites[c] \in Invite
  BY DEF IType, TypeOK
<1>2. i \in Invite
  BY <1>1 DEF Invite
<1>3. invites' = [invites EXCEPT ![c] = i]
  BY <1>1 DEF IType, TypeOK
<1> QED
  BY <1>2, <1>3 DEF IType, TypeOK

LEMMA MemberType ==
    ASSUME IType, NEW u \in UserIds, NEW r \in Request,
           users' = [users EXCEPT ![u] = [live |-> TRUE, name |-> r.name, invite |-> r.id]]
    PROVE  users' \in [UserIds -> User]
<1>1. [live |-> TRUE, name |-> r.name, invite |-> r.id] \in User
  BY DEF Request, User
<1> QED
  BY <1>1 DEF IType, TypeOK

LEMMA FinishNewType ==
    ASSUME IType, NEW h \in Handlers, FinishNew(h)
    PROVE  IType'
<1> DEFINE r == req[h]
<1>1. r \in Request /\ r.ticket \in Tickets /\ r.subject \in Subjects
  BY DEF IType, TypeOK, Proper, FinishNew
<1>2. /\ req' \in [Handlers -> Request] /\ \A g \in Handlers : Proper(req'[g])
      /\ central' = central /\ now' = now
  BY RespondType DEF FinishNew
<1>3. CASE UNCHANGED <<invites, users, identities, enrollments>>
  BY <1>2, <1>3 DEF IType, TypeOK
<1>4. ASSUME NEW c \in Codes, NEW u \in UserIds,
             invites' = [invites EXCEPT ![c].uses = @ + 1],
             users' = [users EXCEPT ![u] = [live |-> TRUE, name |-> r.name, invite |-> r.id]],
             identities' = [identities EXCEPT ![r.subject] = u],
             enrollments' =
                 IF LiveTicket(r.ticket)
                   THEN [enrollments EXCEPT ![r.ticket].user = u, ![r.ticket].consumed = TRUE]
                   ELSE enrollments
      PROVE  IType'
  <2>1. invites' \in [Codes -> Invite]
    BY <1>4, UseType
  <2>2. users' \in [UserIds -> User]
    BY <1>1, <1>4, MemberType
  <2>3. identities' \in [Subjects -> 0..MaxUser]
    BY <1>1, <1>4 DEF IType, TypeOK, UserIds
  <2>4. u \in Nat
    BY DEF UserIds
  <2>5. enrollments' \in [Tickets -> Enrollment]
    BY <1>1, <1>4, <2>4, ConsumeType DEF IType, TypeOK
  <2> QED
    BY <1>2, <2>1, <2>2, <2>3, <2>5 DEF IType, TypeOK
<1> QED
  BY <1>3, <1>4 DEF FinishNew

LEMMA RegisterType ==
    ASSUME IType, NEW h \in Handlers,
           \/ \E c \in Codes, n \in Names : RegisterInvite(h, c, n)
           \/ RegisterName(h) \/ RegisterWrite(h)
    PROVE  IType'
<1>1. ASSUME NEW c \in Codes, NEW n \in Names, RegisterInvite(h, c, n)
      PROVE  IType'
  <2> DEFINE r == [Idle EXCEPT !.pc = "register_name", !.name = n, !.id = invites[c].id]
  <2>1. invites[c].id \in Nat
    BY DEF IType, TypeOK, Invite
  <2>2. r \in Request /\ Proper(r)
    BY <2>1 DEF Idle, Request, Proper
  <2>3. req' = [req EXCEPT ![h] = r]
    BY <1>1 DEF RegisterInvite
  <2> QED
    BY <1>1, <2>2, <2>3, OneRequest DEF RegisterInvite, IType, TypeOK
<1>2. CASE RegisterName(h)
  <2>1. req' \in [Handlers -> Request] /\ \A g \in Handlers : Proper(req'[g])
    BY <1>2, GotoType, RespondType DEF RegisterName
  <2> QED
    BY <1>2, <2>1 DEF RegisterName, IType, TypeOK
<1>3. CASE RegisterWrite(h)
  <2>1. req[h] \in Request
    BY DEF IType, TypeOK
  <2>2. req' \in [Handlers -> Request] /\ \A g \in Handlers : Proper(req'[g])
    BY <1>3, RespondType DEF RegisterWrite
  <2>3. invites' \in [Codes -> Invite] /\ users' \in [UserIds -> User]
    BY <1>3, <2>1, UseType, MemberType DEF RegisterWrite, CountUse, IType, TypeOK
  <2> QED
    BY <1>3, <2>2, <2>3 DEF RegisterWrite, IType, TypeOK
<1> QED
  BY <1>1, <1>2, <1>3

LEMMA CreateInviteType ==
    ASSUME IType, NEW c \in Codes, NEW u \in UserIds, NEW m \in 1..MaxUsesCap,
           CreateInvite(c, u, m)
    PROVE  IType'
<1>1. ASSUME NEW i \in 1..Cardinality(Codes), IsNextInviteId(i),
             invites' = [invites EXCEPT ![c] = [state |-> "live", id |-> i, owner |-> u,
                                               disabled |-> FALSE, uses |-> 0, max |-> m]]
      PROVE  invites' \in [Codes -> Invite]
  <2>1. i \in Nat
    OBVIOUS
  <2>2. u \in Nat /\ m \in Nat
    BY DEF UserIds
  <2>3. [state |-> "live", id |-> i, owner |-> u, disabled |-> FALSE, uses |-> 0, max |-> m]
            \in Invite
    BY <2>1, <2>2 DEF Invite, RowStates
  <2> QED
    BY <1>1, <2>3 DEF IType, TypeOK
<1> QED
  BY <1>1 DEF CreateInvite, IType, TypeOK

LEMMA DisableInviteType ==
    ASSUME IType, NEW c \in Codes, DisableInvite(c)
    PROVE  IType'
<1> DEFINE i == [invites[c] EXCEPT !.disabled = TRUE]
<1>1. invites[c] \in Invite
  BY DEF IType, TypeOK
<1>2. i \in Invite
  BY <1>1 DEF Invite
<1>3. invites' = [invites EXCEPT ![c] = i]
  BY <1>1 DEF DisableInvite, IType, TypeOK
<1> QED
  BY <1>2, <1>3 DEF DisableInvite, IType, TypeOK

LEMMA DeleteType ==
    ASSUME IType, NEW ids, NEW v, Delete(ids, v)
    PROVE  IType'
<1>1. [NoInvite EXCEPT !.state = "deleted"] \in Invite
  BY DEF NoInvite, Invite, RowStates
<1>2. [NoEnrollment EXCEPT !.state = "deleted"] \in Enrollment
  BY DEF NoEnrollment, Enrollment, RowStates
<1>3. ASSUME NEW u \in UserIds
      PROVE  MemberWithout(u, ids) \in User
  <2>1. users[u] \in User
    BY DEF IType, TypeOK
  <2> QED
    BY <2>1 DEF MemberWithout, User
<1>4. invites' \in [Codes -> Invite]
  BY <1>1 DEF Delete, IType, TypeOK
<1>5. enrollments' \in [Tickets -> Enrollment]
  BY <1>2 DEF Delete, IType, TypeOK
<1>6. users' \in [UserIds -> User]
  BY <1>3, BlankTypes DEF Delete
<1>7. identities' \in [Subjects -> 0..MaxUser]
  BY DEF Delete, IType, TypeOK
<1> QED
  BY <1>4, <1>5, <1>6, <1>7 DEF Delete, IType, TypeOK

LEMMA RenameUserType ==
    ASSUME IType, NEW u \in UserIds, NEW n \in Names, RenameUser(u, n)
    PROVE  IType'
<1> DEFINE r == [users[u] EXCEPT !.name = n]
<1>1. users[u] \in User
  BY DEF IType, TypeOK
<1>2. r \in User
  BY <1>1 DEF User
<1>3. users' = [users EXCEPT ![u] = r]
  BY <1>1 DEF RenameUser, IType, TypeOK
<1> QED
  BY <1>2, <1>3 DEF RenameUser, IType, TypeOK

LEMMA NextType == IType /\ [Next]_vars => IType'
<1> SUFFICES ASSUME IType, [Next]_vars PROVE IType'
  OBVIOUS
<1>1. CASE UNCHANGED vars
  BY <1>1 DEF vars, IType, TypeOK, Proper
<1>2. ASSUME NEW h \in Handlers,
             \/ \E c \in Codes, t \in Tickets \union {Null} : ReserveStart(h, c, t)
             \/ ReserveWrite(h)
      PROVE  IType'
  BY <1>2, ReserveStartType, ReserveWriteType
<1>3. ASSUME NEW h \in Handlers,
             \/ \E t \in Tickets, s \in Subjects, n \in Names : ClaimPending(h, t, s, n)
             \/ ClaimIdentity(h) \/ ClaimCollision(h) \/ ClaimLinked(h) \/ ClaimWrite(h)
      PROVE  IType'
  BY <1>3, ClaimPendingType, ClaimIdentityType, ClaimCollisionType, ClaimLinkedType,
     ClaimWriteType
<1>4. ASSUME NEW h \in Handlers,
             \/ \E t \in Tickets, s \in Subjects : FinishPending(h, t, s)
             \/ FinishLinked(h) \/ FinishLink(h) \/ FinishNew(h)
      PROVE  IType'
  BY <1>4, FinishPendingType, FinishLinkedType, FinishLinkType, FinishNewType
<1>5. ASSUME NEW h \in Handlers,
             \/ \E c \in Codes, n \in Names : RegisterInvite(h, c, n)
             \/ RegisterName(h) \/ RegisterWrite(h)
      PROVE  IType'
  BY <1>5, RegisterType
<1>6. CASE \E c \in Codes, u \in UserIds, m \in 1..MaxUsesCap : CreateInvite(c, u, m)
  BY <1>6, CreateInviteType
<1>7. CASE \E c \in Codes : DisableInvite(c) \/ DeleteInvite(c)
  BY <1>7, DisableInviteType, DeleteType DEF DeleteInvite
<1>8. CASE \E u \in UserIds : DeleteUser(u)
  BY <1>8, DeleteType DEF DeleteUser
<1>9. CASE \E u \in UserIds, n \in Names : RenameUser(u, n)
  BY <1>9, RenameUserType
<1>10. CASE Tick
  BY <1>10 DEF Tick, IType, TypeOK
<1>11. CASE Restart
  BY <1>11, BlankTypes DEF Restart, IType, TypeOK
<1> QED
  BY <1>1, <1>2, <1>3, <1>4, <1>5, <1>6, <1>7, <1>8, <1>9, <1>10, <1>11 DEF Next

\* The tables and the requests in flight always have their types (TypeOK, of
\* the schema's columns and of what the handlers of app/enrollment.py keep).
THEOREM TypeCorrect == Spec => []TypeOK
<1>1. Init => IType
  BY InitType
<1>2. IType /\ [Next]_vars => IType'
  BY NextType
<1>3. IType => TypeOK
  BY DEF IType
<1> QED
  BY <1>1, <1>2, <1>3, PTL DEF Spec

-----------------------------------------------------------------------------
(* No invite is overused while central sign-in is on *)

\* UsesWithinMax is inductive once no local registration, whose write does not
\* look at the uses again, can be in flight.
ICentral ==
    /\ central
    /\ \A h \in Handlers : req[h].pc \notin {"register_name", "register_write"}
    /\ UsesWithinMax

\* In the central mode no step starts a local registration.
LEMMA NoLocalRegistration ==
    ASSUME Modes = {TRUE}, IType, ICentral, [Next]_vars
    PROVE  /\ central'
           /\ \A h \in Handlers : req'[h].pc \notin {"register_name", "register_write"}
<1> DEFINE Local == {"register_name", "register_write"}
<1> USE DEF ICentral, IType, TypeOK
<1>1. CASE UNCHANGED <<central, req>>
  BY <1>1
<1>2. ASSUME NEW h \in Handlers, NEW pc, Goto(h, pc), pc \notin Local, central' = central
      PROVE  central' /\ \A g \in Handlers : req'[g].pc \notin Local
  BY <1>2 DEF Goto, Request
<1>3. ASSUME NEW h \in Handlers, Respond(h), central' = central
      PROVE  central' /\ \A g \in Handlers : req'[g].pc \notin Local
  BY <1>3 DEF Respond, Idle
<1>4. ASSUME NEW h \in Handlers, NEW c \in Codes, NEW t \in Tickets \union {Null},
             ReserveStart(h, c, t)
      PROVE  central' /\ \A g \in Handlers : req'[g].pc \notin Local
  BY <1>4 DEF ReserveStart, Idle
<1>5. ASSUME NEW h \in Handlers, NEW t \in Tickets, NEW s \in Subjects, NEW n \in Names,
             ClaimPending(h, t, s, n)
      PROVE  central' /\ \A g \in Handlers : req'[g].pc \notin Local
  BY <1>5 DEF ClaimPending, Idle
<1>6. ASSUME NEW h \in Handlers, NEW t \in Tickets, NEW s \in Subjects, FinishPending(h, t, s)
      PROVE  central' /\ \A g \in Handlers : req'[g].pc \notin Local
  BY <1>6 DEF FinishPending, Idle
<1>7. ASSUME NEW h \in Handlers, ClaimIdentity(h) \/ ClaimCollision(h) \/ ClaimLinked(h)
                                 \/ FinishLinked(h)
      PROVE  central' /\ \A g \in Handlers : req'[g].pc \notin Local
  <2>0. req[h] \in Request
    OBVIOUS
  <2>1. CASE ClaimIdentity(h)
    BY <2>0, <2>1 DEF ClaimIdentity, Request
  <2>2. CASE ClaimCollision(h)
    <3>1. ASSUME NEW u \in UserIds,
                 req' = [req EXCEPT ![h].pc = "claim_linked", ![h].id = u]
          PROVE  \A g \in Handlers : req'[g].pc \notin Local
      BY <2>0, <3>1 DEF Request
    <3> QED
      BY <1>2, <2>2, <3>1 DEF ClaimCollision
  <2>3. CASE ClaimLinked(h)
    BY <1>2, <1>3, <2>3 DEF ClaimLinked
  <2>4. CASE FinishLinked(h)
    <3>1. ASSUME NEW u, req' = [req EXCEPT ![h].pc = "finish_link", ![h].id = u]
          PROVE  \A g \in Handlers : req'[g].pc \notin Local
      BY <2>0, <3>1 DEF Request
    <3> QED
      BY <1>2, <2>4, <3>1 DEF FinishLinked
  <2> QED
    BY <1>7, <2>1, <2>2, <2>3, <2>4
<1>8. ASSUME NEW h \in Handlers, ReserveWrite(h) \/ ClaimWrite(h) \/ FinishLink(h) \/ FinishNew(h)
      PROVE  central' /\ \A g \in Handlers : req'[g].pc \notin Local
  BY <1>3, <1>8 DEF ReserveWrite, ClaimWrite, FinishLink, FinishNew
<1>9. ASSUME NEW h \in Handlers,
             \/ \E c \in Codes, n \in Names : RegisterInvite(h, c, n)
             \/ RegisterName(h) \/ RegisterWrite(h)
      PROVE  FALSE
  BY <1>9 DEF RegisterInvite, RegisterName, RegisterWrite
<1>10. CASE Restart
  BY <1>10 DEF Restart, Idle
<1>11. CASE \/ \E c \in Codes, u \in UserIds, m \in 1..MaxUsesCap : CreateInvite(c, u, m)
            \/ \E c \in Codes : DisableInvite(c) \/ DeleteInvite(c)
            \/ \E u \in UserIds : DeleteUser(u)
            \/ \E u \in UserIds, n \in Names : RenameUser(u, n)
            \/ Tick
  BY <1>1, <1>11 DEF CreateInvite, DisableInvite, DeleteInvite, DeleteUser, Delete,
                     RenameUser, Tick
<1> QED
  BY <1>1, <1>4, <1>5, <1>6, <1>7, <1>8, <1>9, <1>10, <1>11 DEF Next, vars

\* Only finish, in the central mode, raises the uses of an invite, and it looks
\* at them in the statement that raises them.
LEMMA UsesStep ==
    ASSUME IType, ICentral, [Next]_vars
    PROVE  UsesWithinMax'
<1> USE DEF ICentral, IType, TypeOK, UsesWithinMax, LiveInvite
<1>1. CASE UNCHANGED invites
  BY <1>1
<1>2. ASSUME NEW h \in Handlers, FinishNew(h)
      PROVE  UsesWithinMax'
  <2>1. CASE UNCHANGED invites
    BY <1>1, <2>1
  <2>2. ASSUME NEW c \in Codes, Spendable(c, req[h].id),
               invites' = [invites EXCEPT ![c].uses = @ + 1]
        PROVE  UsesWithinMax'
    BY <2>2 DEF Spendable, Invite
  <2> QED
    BY <1>2, <2>1, <2>2 DEF FinishNew
<1>3. ASSUME NEW c \in Codes, NEW u \in UserIds, NEW m \in 1..MaxUsesCap, CreateInvite(c, u, m)
      PROVE  UsesWithinMax'
  BY <1>3 DEF CreateInvite
<1>4. ASSUME NEW c \in Codes, DisableInvite(c)
      PROVE  UsesWithinMax'
  BY <1>4 DEF DisableInvite, Invite
<1>5. ASSUME NEW ids, NEW v, Delete(ids, v)
      PROVE  UsesWithinMax'
  BY <1>5 DEF Delete, NoInvite
<1>6. ASSUME NEW h \in Handlers, RegisterWrite(h)
      PROVE  FALSE
  BY <1>6 DEF RegisterWrite
<1>7. CASE \E h \in Handlers :
        \/ \E c \in Codes, t \in Tickets \union {Null} : ReserveStart(h, c, t)
        \/ ReserveWrite(h)
        \/ \E t \in Tickets, s \in Subjects, n \in Names : ClaimPending(h, t, s, n)
        \/ ClaimIdentity(h) \/ ClaimCollision(h) \/ ClaimLinked(h) \/ ClaimWrite(h)
  BY <1>1, <1>7 DEF ReserveStart, ReserveWrite, ClaimPending, ClaimIdentity, ClaimCollision,
                    ClaimLinked, ClaimWrite
<1>8. CASE \E h \in Handlers :
        \/ \E t \in Tickets, s \in Subjects : FinishPending(h, t, s)
        \/ FinishLinked(h) \/ FinishLink(h)
        \/ \E c \in Codes, n \in Names : RegisterInvite(h, c, n)
        \/ RegisterName(h)
  BY <1>1, <1>8 DEF FinishPending, FinishLinked, FinishLink, RegisterInvite, RegisterName
<1>9. CASE (\E u \in UserIds, n \in Names : RenameUser(u, n)) \/ Tick \/ Restart \/ UNCHANGED vars
  BY <1>1, <1>9 DEF RenameUser, Tick, Restart, vars
<1> QED
  BY <1>2, <1>3, <1>4, <1>5, <1>6, <1>7, <1>8, <1>9 DEF Next, DeleteInvite, DeleteUser

\* While central sign-in stays on, uses_count of an invite never exceeds its
\* max_uses (UsesWithinMax), however many callbacks finish concurrently.
THEOREM CentralUsesWithinMax ==
    ASSUME Modes = {TRUE}
    PROVE  Spec => []UsesWithinMax
<1>1. Init => IType /\ ICentral
  BY InitType DEF Init, ICentral, UsesWithinMax, LiveInvite, NoInvite, Idle
<1>2. IType /\ ICentral /\ [Next]_vars => IType' /\ ICentral'
  BY NextType, NoLocalRegistration, UsesStep DEF ICentral
<1>3. IType /\ ICentral => UsesWithinMax
  BY DEF ICentral
<1> QED
  BY <1>1, <1>2, <1>3, PTL DEF Spec

-----------------------------------------------------------------------------
(* A claimed registration is never taken over *)

\* A registration changes hands in no step: ClaimedForGood holds of each.
LEMMA ClaimStep ==
    ASSUME IType, [Next]_vars, NEW t \in Tickets,
           LiveTicket(t), enrollments[t].subject /= Null
    PROVE  \/ enrollments'[t].state = "deleted"
           \/ /\ enrollments'[t].subject = enrollments[t].subject
              /\ enrollments[t].consumed => enrollments'[t].consumed
<1> USE DEF IType, TypeOK, LiveTicket
<1>0. enrollments[t] \in Enrollment
  OBVIOUS
<1>1. CASE UNCHANGED enrollments
  BY <1>1
<1>2. ASSUME NEW h \in Handlers, ReserveWrite(h)
      PROVE  UNCHANGED enrollments[t]
  BY <1>2 DEF ReserveWrite
<1>3. ASSUME NEW h \in Handlers, ClaimWrite(h)
      PROVE  /\ enrollments'[t].subject = enrollments[t].subject
             /\ enrollments[t].consumed => enrollments'[t].consumed
  BY <1>0, <1>3 DEF ClaimWrite, Claimable, Enrollment
<1>4. ASSUME NEW h \in Handlers, FinishLink(h) \/ FinishNew(h)
      PROVE  /\ enrollments'[t].subject = enrollments[t].subject
             /\ enrollments[t].consumed => enrollments'[t].consumed
  <2>1. ASSUME NEW k, NEW u,
               enrollments' = [enrollments EXCEPT ![k].user = u, ![k].consumed = TRUE]
        PROVE  /\ enrollments'[t].subject = enrollments[t].subject
               /\ enrollments[t].consumed => enrollments'[t].consumed
    <3>1. CASE k = t
      <4>1. enrollments'[t] = [enrollments[t] EXCEPT !.user = u, !.consumed = TRUE]
        BY <1>0, <2>1, <3>1
      <4> QED
        BY <1>0, <4>1 DEF Enrollment
    <3>2. CASE k /= t
      BY <1>0, <2>1, <3>2
    <3> QED
      BY <3>1, <3>2
  <2> QED
    BY <1>1, <1>4, <2>1 DEF FinishLink, FinishNew
<1>5. ASSUME NEW ids, NEW v, Delete(ids, v)
      PROVE  enrollments'[t].state = "deleted" \/ UNCHANGED enrollments[t]
  BY <1>5 DEF Delete, NoEnrollment
<1>6. CASE \E h \in Handlers :
        \/ \E c \in Codes, u \in Tickets \union {Null} : ReserveStart(h, c, u)
        \/ \E u \in Tickets, s \in Subjects, n \in Names : ClaimPending(h, u, s, n)
        \/ ClaimIdentity(h) \/ ClaimCollision(h) \/ ClaimLinked(h)
        \/ \E u \in Tickets, s \in Subjects : FinishPending(h, u, s)
        \/ FinishLinked(h)
  BY <1>1, <1>6 DEF ReserveStart, ClaimPending, ClaimIdentity, ClaimCollision, ClaimLinked,
                    FinishPending, FinishLinked
<1>7. CASE \E h \in Handlers :
        \/ \E c \in Codes, n \in Names : RegisterInvite(h, c, n)
        \/ RegisterName(h) \/ RegisterWrite(h)
  BY <1>1, <1>7 DEF RegisterInvite, RegisterName, RegisterWrite
<1>8. CASE \/ \E c \in Codes, u \in UserIds, m \in 1..MaxUsesCap : CreateInvite(c, u, m)
           \/ \E c \in Codes : DisableInvite(c)
           \/ \E u \in UserIds, n \in Names : RenameUser(u, n)
           \/ Tick \/ Restart \/ UNCHANGED vars
  BY <1>1, <1>8 DEF CreateInvite, DisableInvite, RenameUser, Tick, Restart, vars
<1> QED
  BY <1>2, <1>3, <1>4, <1>5, <1>6, <1>7, <1>8 DEF Next, DeleteInvite, DeleteUser

\* Whichever of two concurrent claims or finishes is slower, a registration
\* stays with the subject that claimed it (ClaimedForGood): the UPDATE of claim
\* compares the subject again.
THEOREM RegistrationKeepsSubject == Spec => ClaimedForGood
<1>1. Init => IType
  BY InitType
<1>2. IType /\ [Next]_vars => IType'
  BY NextType
<1>3. IType /\ [Next]_vars =>
        [\A t \in Tickets :
            LiveTicket(t) /\ enrollments[t].subject /= Null =>
                \/ enrollments'[t].state = "deleted"
                \/ /\ enrollments'[t].subject = enrollments[t].subject
                   /\ enrollments[t].consumed => enrollments'[t].consumed]_vars
  BY ClaimStep
<1> QED
  BY <1>1, <1>2, <1>3, PTL DEF Spec, ClaimedForGood
=============================================================================
