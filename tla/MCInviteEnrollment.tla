------------------------ MODULE MCInviteEnrollment ------------------------
(* InviteEnrollment for TLC. *)
EXTENDS InviteEnrollment, TLC

Symmetry ==
    Permutations(Handlers) \union Permutations(Codes) \union Permutations(Tickets)
        \union Permutations(Subjects) \union Permutations(Names \ {Founder})
=============================================================================
