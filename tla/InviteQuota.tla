---------------------------- MODULE InviteQuota ----------------------------
(***************************************************************************)
(* What member invites promise: an invite admits at most as many members   *)
(* as it was made for, admits none once it is disabled or deleted, and     *)
(* every member it admitted was counted.  InviteEnrollment is shown to     *)
(* implement this in the central flow.                                     *)
(***************************************************************************)
EXTENDS Naturals

CONSTANTS
    Codes,     \* invites
    Grants,    \* numbers of uses an invite may be made for
    Accounts,  \* accounts an invite may admit
    NoCode     \* an account that no existing invite admitted

VARIABLES
    quota,     \* each invite: its phase (unissued, open, disabled, deleted),
               \* the uses spent and the uses granted
    cameWith   \* the invite that admitted each account

Init ==
    /\ quota = [c \in Codes |-> [phase |-> "unissued", used |-> 0, max |-> 0]]
    /\ cameWith = [a \in Accounts |-> NoCode]

Issue(c, m) ==
    /\ quota[c].phase = "unissued"
    /\ quota' = [quota EXCEPT ![c] = [phase |-> "open", used |-> 0, max |-> m]]
    /\ UNCHANGED cameWith

\* The only way in: one use of an open invite for one account.
Admit(c, a) ==
    /\ quota[c].phase = "open"
    /\ quota[c].used < quota[c].max
    /\ cameWith[a] = NoCode
    /\ quota' = [quota EXCEPT ![c].used = @ + 1]
    /\ cameWith' = [cameWith EXCEPT ![a] = c]

\* Disabling is for good.
Disable(c) ==
    /\ quota[c].phase = "open"
    /\ quota' = [quota EXCEPT ![c].phase = "disabled"]
    /\ UNCHANGED cameWith

\* Invites are deleted and accounts leave; the members of a deleted invite
\* stay, and no deleted invite comes back.
Remove(C, A) ==
    /\ \A c \in C : quota[c].phase \in {"open", "disabled"}
    /\ quota' = [c \in Codes |->
           IF c \in C THEN [phase |-> "deleted", used |-> 0, max |-> 0] ELSE quota[c]]
    /\ cameWith' = [a \in Accounts |->
           IF a \in A \/ cameWith[a] \in C THEN NoCode ELSE cameWith[a]]

Next ==
    \/ \E c \in Codes, m \in Grants : Issue(c, m)
    \/ \E c \in Codes : Disable(c)
    \/ \E c \in Codes, a \in Accounts : Admit(c, a)
    \/ \E C \in SUBSET Codes, A \in SUBSET Accounts : Remove(C, A)

Spec == Init /\ [][Next]_<<quota, cameWith>>
=============================================================================
