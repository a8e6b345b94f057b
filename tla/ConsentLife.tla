----------------------------- MODULE ConsentLife -----------------------------
(***************************************************************************)
(* What a member's consent is worth.  At any time one thing at most stands *)
(* for it: the code that was offered, the credential a token request is    *)
(* holding, or one live token.  It is taken before it is replaced, and     *)
(* once nothing stands for it, nothing ever does again.                    *)
(***************************************************************************)
CONSTANT Consents

VARIABLE phase

Init == phase = [x \in Consents |-> "none"]

Offer(x) == phase[x] = "none" /\ phase' = [phase EXCEPT ![x] = "offered"]

\* A request takes the code, or the refresh token.
Take(x) == phase[x] \in {"offered", "live"} /\ phase' = [phase EXCEPT ![x] = "held"]

Issue(x) == phase[x] = "held" /\ phase' = [phase EXCEPT ![x] = "live"]

\* Refusal, revocation, reuse, deletion of the member or a crash, perhaps of
\* several consents at once.
End(S) ==
    /\ \A x \in S : phase[x] \in {"offered", "held", "live"}
    /\ phase' = [x \in Consents |-> IF x \in S THEN "ended" ELSE phase[x]]

Next ==
    \/ \E x \in Consents : Offer(x) \/ Take(x) \/ Issue(x)
    \/ \E S \in SUBSET Consents : End(S)

Spec == Init /\ [][Next]_phase
=============================================================================
