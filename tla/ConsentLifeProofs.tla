-------------------------- MODULE ConsentLifeProofs --------------------------
(***************************************************************************)
(* OAuthTokens implements ConsentLife: the proof, for any number of        *)
(* clients, members, codes, tokens and administrators.                     *)
(*                                                                         *)
(* A token goes back to its consent through the first token of its family, *)
(* so what has to be invariant beside IToken is the shape of the families: *)
(* Roots.  From both it follows that the things that may stand for a       *)
(* consent exclude each other (Settled), and then every step of the server *)
(* is of one of five courses, each of which is a step of ConsentLife or    *)
(* changes no phase.                                                       *)
(***************************************************************************)
EXTENDS OAuthTokensProofs, FiniteSetTheorems

\* A family is that of its first token, which was issued for a code, and only a service
\* is given a token for nothing.
Roots ==
    /\ loop.pc = "save" /\ loop.cred = Null => loop.client \in Services
    /\ \A t \in Tokens :
          /\ tokens[t].family = Null => tokens[t].parent \in Codes \union {Null}
          /\ tokens[t].family /= Null =>
                /\ tokens[t].parent /= Null
                /\ tokens[tokens[t].family].family = tokens[t].family
                /\ tokens[tokens[t].family].parent \in Codes

IConsent == IToken /\ Roots

\* What stands for a consent excludes everything else that could.
Distinct ==
    \A x \in Codes :
        /\ x \in Held => codes[x].state = "gone"
        /\ \A t \in LiveFor(x) : codes[x].state = "gone" /\ x \notin Held
        /\ \A s, t \in LiveFor(x) : s = t

\* The phase of a consent, read off in order.
Stage(x) ==
    IF codes[x].state = "unissued" THEN "none"
    ELSE IF codes[x].state = "live" THEN "offered"
    ELSE IF x \in Held THEN "held"
    ELSE IF LiveFor(x) /= {} THEN "live" ELSE "ended"

Settled == Distinct /\ Phase = [x \in Codes |-> Stage(x)]

-----------------------------------------------------------------------------
(* The shape of the families is kept *)

\* A request stores a token for nothing only because it was begun so, by a service.
LEMMA SaveForService ==
    ASSUME IType, [Next]_vars, loop'.pc = "save", loop'.cred = Null
    PROVE  loop' = loop \/ loop'.client \in Services
<1>1. TypeOK /\ Proper
    BY DEF IType
<1>2. CASE loop' = Idle
    BY <1>2 DEF Idle
<1>3. CASE \E c \in Clients, r \in Resource : ServiceRequest(c, r)
    BY <1>3 DEF ServiceRequest, TokenRequest
<1>4. CASE \E c \in Clients, x \in Codes, r \in Resource : CodeRequest(c, x, r)
    BY <1>4 DEF CodeRequest, TokenRequest
<1>5. CASE \E c \in Clients, t \in Tokens, r \in Resource : RefreshRequest(c, t, r)
    BY <1>5 DEF RefreshRequest, TokenRequest
<1>6. CASE CodeConsume \/ RefreshRead \/ RefreshClaim
  <2>1. loop' = Idle \/ loop' = [loop EXCEPT !.pc = "user"]
                      \/ loop' = [loop EXCEPT !.pc = "claim"]
      BY <1>6 DEF CodeConsume, RefreshRead, RefreshClaim
  <2> QED BY <1>1, <2>1 DEF TypeOK, Request, Idle
<1>7. CASE FindUser
  <2>1. loop.cred \in Codes \union Tokens
      BY <1>1, <1>7 DEF FindUser, Proper
  <2>2. loop' = Idle \/ loop' = [loop EXCEPT !.pc = "save"]
      BY <1>7 DEF FindUser
  <2> QED BY <1>1, <2>1, <2>2, IdsAssumption DEF TypeOK, Request, Idle
<1>8. CASE loop' = loop
    BY <1>8
<1> QED BY <1>2, <1>3, <1>4, <1>5, <1>6, <1>7, <1>8
    DEF Next, vars, RegisterClient, ConsentStart, ToggleUser, DeleteUser, ConsentGive, SaveToken,
        ToggleWrite, ToggleRead, RevokeTokens, Restart, Tick

\* What a stored row is, as far as its consent is concerned.
LEMMA StoredRow ==
    ASSUME IConsent, Store
    PROVE  \E t \in Tokens :
             /\ tokens[t].state = "unissued"
             /\ tokens'[t].parent = loop.cred /\ tokens'[t].family = Family(t, loop.cred)
             /\ Live(t)'
             /\ \A s \in Tokens : s /= t => tokens'[s] = tokens[s] /\ tokens[s].family /= t
             /\ loop.cred \in Tokens => tokens[loop.cred].family \in Tokens \ {t}
             /\ loop.cred = Null => Family(t, loop.cred) = Null
<1>1. PICK t \in Tokens : /\ tokens[t].state = "unissued"
                          /\ tokens' = [tokens EXCEPT ![t] = Issued(t, loop.cred)]
    BY DEF Store
<1>2. tokens'[t] = Issued(t, loop.cred) /\ \A s \in Tokens : s /= t => tokens'[s] = tokens[s]
    BY <1>1 DEF IConsent, IToken, IType, TypeOK
<1>3. \A s \in Tokens : tokens[s].family /= t
    BY <1>1 DEF IConsent, IToken, Familial
<1>4. loop.cred \in Tokens => tokens[loop.cred].family \in Tokens \ {t}
  <2> SUFFICES ASSUME loop.cred \in Tokens PROVE tokens[loop.cred].family \in Tokens \ {t}
      OBVIOUS
  <2>1. Holding
      BY IdsAssumption DEF Holding, Store
  <2>2. tokens[loop.cred].family /= Null
      BY <2>1 DEF IConsent, IToken, Familial
  <2> QED BY <1>3, <2>2 DEF IConsent, IToken, IType, TypeOK, Token
<1>5. loop.cred = Null => Family(t, loop.cred) = Null
    BY ClientsAssumption, IdsAssumption DEF Store, IConsent, Roots, Family
<1> QED BY <1>1, <1>2, <1>3, <1>4, <1>5 DEF Issued, Live, Stored

\* A refresh adds to its family, another grant begins one or goes without.
LEMMA RootsKept ==
    ASSUME IConsent, [Next]_vars
    PROVE  Roots'
<1>1. (Fade \/ Store) /\ Hold
    BY Shape DEF IConsent, IToken
<1>2. loop'.pc = "save" /\ loop'.cred = Null => loop'.client \in Services
    BY SaveForService DEF IConsent, IToken, Roots
<1>3. CASE Fade
  <2>1. \A t \in Tokens : tokens[t].family /= Null => tokens[t].family \in Tokens
      BY DEF IConsent, IToken, IType, TypeOK, Token
  <2> QED BY <1>2, <1>3, <2>1 DEF Fade, IConsent, Roots
<1>4. CASE Store
  <2>1. PICK t \in Tokens :
             /\ tokens[t].state = "unissued"
             /\ tokens'[t].parent = loop.cred /\ tokens'[t].family = Family(t, loop.cred)
             /\ Live(t)'
             /\ \A s \in Tokens : s /= t => tokens'[s] = tokens[s] /\ tokens[s].family /= t
             /\ loop.cred \in Tokens => tokens[loop.cred].family \in Tokens \ {t}
             /\ loop.cred = Null => Family(t, loop.cred) = Null
      BY <1>4, StoredRow
  <2>2. \A s \in Tokens : tokens[s].family /= Null => tokens[s].family \in Tokens
      BY DEF IConsent, IToken, IType, TypeOK, Token
  <2>3. ASSUME NEW s \in Tokens, s /= t
        PROVE  /\ tokens'[s].family = Null => tokens'[s].parent \in Codes \union {Null}
               /\ tokens'[s].family /= Null =>
                     /\ tokens'[s].parent /= Null
                     /\ tokens'[tokens'[s].family].family = tokens'[s].family
                     /\ tokens'[tokens'[s].family].parent \in Codes
      BY <2>1, <2>2, <2>3 DEF IConsent, Roots
  <2>4. /\ tokens'[t].family = Null => tokens'[t].parent \in Codes \union {Null}
        /\ tokens'[t].family /= Null =>
              /\ tokens'[t].parent /= Null
              /\ tokens'[tokens'[t].family].family = tokens'[t].family
              /\ tokens'[tokens'[t].family].parent \in Codes
    <3>1. CASE loop.cred \in Tokens
      <4>1. tokens'[t].family = tokens[loop.cred].family
          BY <2>1, <3>1 DEF Family
      <4>2. tokens[loop.cred].family \in Tokens \ {t}
          BY <2>1, <3>1
      <4>3. tokens[loop.cred].family /= Null
          BY <4>2, IdsAssumption
      <4> QED BY <2>1, <3>1, <4>1, <4>2, <4>3, IdsAssumption DEF IConsent, Roots
    <3>2. CASE loop.cred \in Codes
      <4>1. tokens'[t].family \in {t, Null}
          BY <2>1, <3>2, IdsAssumption DEF Family
      <4> QED BY <2>1, <3>2, <4>1, IdsAssumption
    <3>3. CASE loop.cred = Null
        BY <2>1, <3>3
    <3> QED BY <3>1, <3>2, <3>3 DEF IConsent, IToken, IType, TypeOK, Request
  <2> QED BY <1>2, <2>3, <2>4 DEF Roots
<1> QED BY <1>1, <1>3, <1>4

\* Families keep their shape in every reachable state.
LEMMA ConsentInductive == Spec => []IConsent
<1>1. Init => Roots
  <2> SUFFICES ASSUME Init PROVE Roots
      OBVIOUS
  <2>1. \A t \in Tokens : tokens[t].family = Null /\ tokens[t].parent = Null
      BY DEF Init, NoToken
  <2> QED BY <2>1 DEF Init, Idle, Roots
<1>2. IToken /\ Roots /\ [Next]_vars => Roots'
    BY RootsKept DEF IConsent
<1> QED BY <1>1, <1>2, Inductive, PTL DEF Spec, IConsent

-----------------------------------------------------------------------------
(* What stands for a consent excludes everything else *)

\* The token that was issued for the consent a token goes back to.
First(t) == IF tokens[t].family = Null THEN t ELSE tokens[t].family

\* A token that was issued for something goes back to a code, through its family's first.
LEMMA RootOfToken ==
    ASSUME IConsent, NEW t \in Tokens, tokens[t].parent /= Null
    PROVE  /\ First(t) \in Tokens
           /\ tokens[First(t)].family = tokens[t].family
           /\ Root(t) = tokens[First(t)].parent /\ Root(t) \in Codes
<1>1. t \notin Codes
    BY IdsAssumption
<1>2. tokens[t].family \in Tokens \union {Null}
    BY DEF IConsent, IToken, IType, TypeOK, Token
<1>3. CASE tokens[t].family = Null
    BY <1>1, <1>3 DEF First, Root, IConsent, Roots
<1>4. CASE tokens[t].family /= Null
  <2>1. Root(t) = tokens[tokens[t].family].parent
      BY <1>1, <1>4 DEF Root
  <2> QED BY <1>2, <1>4, <2>1 DEF First, IConsent, Roots
<1> QED BY <1>3, <1>4

\* Tokens of one consent are of one family, or the same.
LEMMA SameRoot ==
    ASSUME IConsent,
           NEW s \in Tokens, tokens[s].parent /= Null,
           NEW t \in Tokens, tokens[t].parent /= Null, Root(s) = Root(t)
    PROVE  /\ tokens[s].family = tokens[t].family
           /\ tokens[s].family = Null => s = t
<1>1. /\ First(s) \in Tokens /\ tokens[First(s)].family = tokens[s].family
      /\ Root(s) = tokens[First(s)].parent /\ Root(s) \in Codes
    BY RootOfToken
<1>2. /\ First(t) \in Tokens /\ tokens[First(t)].family = tokens[t].family
      /\ Root(t) = tokens[First(t)].parent
    BY RootOfToken
<1>3. First(s) = First(t)
    BY <1>1, <1>2, IdsAssumption DEF IConsent, IToken, Single, OneIssuePerCredential
<1> QED BY <1>1, <1>2, <1>3 DEF First

\* What a request holds goes back to a code that is gone; if it is a token, it was issued
\* for something.
LEMMA HeldRoot ==
    ASSUME IConsent, Holding
    PROVE  /\ Held = {Root(loop.cred)}
           /\ Root(loop.cred) \in Codes
           /\ codes[Root(loop.cred)].state = "gone"
           /\ \/ loop.cred \in Codes /\ Root(loop.cred) = loop.cred
              \/ loop.cred \in Tokens /\ loop.cred \notin Codes
                 /\ tokens[loop.cred].parent /= Null /\ tokens[loop.cred].family \in Tokens
<1>1. Held = {Root(loop.cred)} /\ loop.cred \in Codes \union Tokens
    BY DEF Holding, Held, IConsent, IToken, IType, TypeOK, Request
<1>2. CASE loop.cred \in Codes
    BY <1>1, <1>2, IdsAssumption DEF Root, IConsent, IToken, Single
<1>3. CASE loop.cred \in Tokens
  <2>1. loop.cred \notin Codes
      BY <1>3, IdsAssumption
  <2>2. tokens[loop.cred].family \in Tokens
      BY <1>3 DEF IConsent, IToken, Familial, IType, TypeOK, Token
  <2>3. tokens[loop.cred].parent /= Null
      BY <1>3, <2>2, IdsAssumption DEF IConsent, Roots
  <2>4. /\ Root(loop.cred) = tokens[First(loop.cred)].parent /\ Root(loop.cred) \in Codes
        /\ First(loop.cred) \in Tokens
      BY <1>3, <2>3, RootOfToken
  <2>5. codes[Root(loop.cred)].state = "gone"
      BY <2>4 DEF IConsent, IToken, Single, Unspent
  <2> QED BY <1>1, <1>3, <2>1, <2>2, <2>3, <2>4, <2>5
<1> QED BY <1>1, <1>2, <1>3

\* A live token of a consent leaves no room for its code, for a request that holds it, or
\* for another token.
LEMMA DistinctHolds == IConsent => Distinct
<1> SUFFICES ASSUME IConsent, NEW x \in Codes
             PROVE  /\ x \in Held => codes[x].state = "gone"
                    /\ \A t \in LiveFor(x) : codes[x].state = "gone" /\ x \notin Held
                    /\ \A s, t \in LiveFor(x) : s = t
    BY DEF Distinct
<1>1. x \in Held => Holding /\ x = Root(loop.cred)
    BY DEF Held, Holding
<1>2. x \in Held => codes[x].state = "gone"
    BY <1>1, HeldRoot
<1>3. ASSUME NEW t \in LiveFor(x)
      PROVE  codes[x].state = "gone" /\ x \notin Held
  <2>1. t \in Tokens /\ Live(t) /\ tokens[t].parent /= Null /\ Root(t) = x
      BY <1>3 DEF LiveFor
  <2>2. First(t) \in Tokens /\ tokens[First(t)].parent = x
      BY <2>1, RootOfToken
  <2>3. ~Unspent(x)
      BY <2>2 DEF Unspent
  <2>4. codes[x].state = "gone"
      BY <2>3 DEF IConsent, IToken, Single
  <2>5. ASSUME x \in Held PROVE FALSE
    <3>1. Holding /\ x = Root(loop.cred)
        BY <1>1, <2>5
    <3>2. CASE loop.cred \in Codes /\ Root(loop.cred) = loop.cred
        BY <2>3, <3>1, <3>2 DEF IConsent, IToken, Single
    <3>3. CASE loop.cred \in Tokens /\ tokens[loop.cred].parent /= Null
      <4>1. tokens[t].family = tokens[loop.cred].family
          BY <2>1, <3>1, <3>3, SameRoot
      <4> QED BY <2>1, <3>1, <3>3, <4>1 DEF IConsent, IToken, Familial
    <3> QED BY <3>1, <3>2, <3>3, HeldRoot
  <2> QED BY <2>4, <2>5
<1>4. ASSUME NEW s \in LiveFor(x), NEW t \in LiveFor(x)
      PROVE  s = t
  <2>1. /\ s \in Tokens /\ Live(s) /\ tokens[s].parent /= Null /\ Root(s) = x
        /\ t \in Tokens /\ Live(t) /\ tokens[t].parent /= Null /\ Root(t) = x
      BY <1>4 DEF LiveFor
  <2>2. /\ tokens[s].family = tokens[t].family
        /\ tokens[s].family = Null => s = t
      BY <2>1, SameRoot
  <2> QED BY <2>1, <2>2 DEF IConsent, IToken, Familial, FamilyOneLive
<1> QED BY <1>2, <1>3, <1>4

\* So the phase of a consent is what comes first in the order of Stage, and no consent
\* is duplicated.
LEMMA SettledHolds == IConsent => Settled
<1> SUFFICES ASSUME IConsent PROVE Settled
    OBVIOUS
<1>1. Distinct
    BY DistinctHolds
<1>2. ASSUME NEW x \in Codes
      PROVE  Phase[x] = Stage(x)
  <2>1. codes[x].state \in {"unissued", "live", "gone"}
      BY DEF IConsent, IToken, IType, TypeOK, Code, RowStates
  <2>2. LiveFor(x) /= {} => codes[x].state = "gone" /\ x \notin Held
      BY <1>1 DEF Distinct
  <2>3. ASSUME LiveFor(x) /= {} PROVE Cardinality(LiveFor(x)) = 1
    <3>1. PICK t : LiveFor(x) = {t}
        BY <1>1, <2>3 DEF Distinct
    <3> QED BY <3>1, FS_Singleton
  <2>4. x \in Held => codes[x].state = "gone"
      BY <1>1 DEF Distinct
  <2> QED BY <2>1, <2>2, <2>3, <2>4 DEF Phase, Stage
<1> QED BY <1>1, <1>2 DEF Settled, Phase

-----------------------------------------------------------------------------
(* The courses of the server *)

\* Things that stood for a consent may be gone, and nothing is new.
Ends ==
    /\ Fade
    /\ \A x \in Codes : \/ codes'[x].state = codes[x].state
                        \/ codes[x].state = "live" /\ codes'[x].state = "gone"
    /\ Holding' => Holding /\ loop'.cred = loop.cred

\* A code is stored.
Offers ==
    \E x \in Codes :
        /\ codes[x].state = "unissued" /\ codes'[x].state = "live"
        /\ \A y \in Codes : y /= x => codes'[y] = codes[y]
        /\ UNCHANGED <<tokens, loop>>

\* The request takes the code x, or claims the refresh token it was sent.
TakesCode(x) ==
    /\ loop.pc = "code" /\ loop'.pc = "user" /\ loop'.cred = x
    /\ codes[x].state = "live" /\ codes'[x].state = "gone"
    /\ \A y \in Codes : y /= x => codes'[y] = codes[y]
    /\ UNCHANGED tokens
TakesToken ==
    /\ loop.pc = "claim" /\ loop'.pc = "user" /\ loop'.cred = loop.cred
    /\ Live(loop.cred) /\ tokens' = Revoked({loop.cred})
    /\ UNCHANGED codes

\* A step that leaves the request alone or ends it, and stores no code.
LEMMA JustEnds ==
    ASSUME Fade, UNCHANGED codes, loop' = loop \/ loop'.pc \notin {"user", "save"}
    PROVE  Ends
BY DEF Ends, Holding

\* Every step takes one of these courses.
LEMMA Courses ==
    ASSUME IType, Asked, [Next]_vars
    PROVE  Ends \/ Offers \/ (\E x \in Codes : TakesCode(x)) \/ TakesToken \/ Store
<1> SUFFICES ASSUME ~Store
             PROVE  Ends \/ Offers \/ (\E x \in Codes : TakesCode(x)) \/ TakesToken
    OBVIOUS
<1>1. TypeOK /\ Proper /\ Fade
    BY Shape DEF IType
<1>2. CASE /\ UNCHANGED codes
           /\ loop' = loop \/ loop' = Idle
    BY <1>1, <1>2, JustEnds DEF Idle
<1>3. ASSUME NEW u \in Users, DeleteUser(u)
      PROVE  Ends
  <2>1. ASSUME NEW x \in Codes
        PROVE  \/ codes'[x].state = codes[x].state
               \/ codes[x].state = "live" /\ codes'[x].state = "gone"
    <3>1. \/ codes'[x] = codes[x]
          \/ codes[x].state = "live" /\ codes'[x] = [codes[x] EXCEPT !.state = "gone"]
        BY <1>3 DEF DeleteUser
    <3>2. [codes[x] EXCEPT !.state = "gone"].state = "gone"
        BY <1>1 DEF TypeOK, Code
    <3> QED BY <3>1, <3>2
  <2> QED BY <1>1, <1>3, <2>1 DEF Ends, DeleteUser, Holding
<1>4. ASSUME NEW c \in Clients, NEW x \in Codes, NEW r \in Resource, ConsentGive(c, x, r)
      PROVE  Ends \/ Offers
  <2> DEFINE row == [state |-> "live", client |-> c, user |-> consent,
                     resource |-> r, expires |-> now + CodeLifetime]
  <2>1. UNCHANGED <<tokens, loop>>
      BY <1>4 DEF ConsentGive
  <2>2. CASE UNCHANGED codes
      BY <1>1, <2>1, <2>2, JustEnds
  <2>3. CASE codes[x].state = "unissued" /\ codes' = [codes EXCEPT ![x] = row]
    <3>1. codes'[x] = row /\ \A y \in Codes : y /= x => codes'[y] = codes[y]
        BY <1>1, <2>3 DEF TypeOK
    <3> QED BY <2>1, <2>3, <3>1 DEF Offers
  <2> QED BY <1>4, <2>2, <2>3 DEF ConsentGive
<1>5. ASSUME NEW c, NEW x, NEW r,
             \/ CodeRequest(c, x, r) \/ RefreshRequest(c, x, r) \/ ServiceRequest(c, r)
      PROVE  Ends
  <2>1. /\ UNCHANGED codes
        /\ loop'.pc \notin {"user", "save"} \/ loop'.cred = Null
      BY <1>5 DEF CodeRequest, RefreshRequest, ServiceRequest, TokenRequest
  <2> QED BY <1>1, <2>1 DEF Ends, Holding
<1>6. CASE CodeConsume
  <2> DEFINE x == loop.cred
  <2>1. x \in Codes
      BY <1>1, <1>6 DEF CodeConsume, Proper
  <2>2. CASE codes[x].state = "live" /\ codes[x].client = loop.client
    <3>1. /\ codes' = [codes EXCEPT ![x] = CodeTaken(x)]
          /\ loop' = Idle \/ loop' = [loop EXCEPT !.pc = "user"]
        BY <1>6, <2>2 DEF CodeConsume
    <3>2. CodeTaken(x).state = "gone"
        BY <1>1, <2>1 DEF CodeTaken, TypeOK, Code
    <3>3. codes'[x].state = "gone" /\ \A y \in Codes : y /= x => codes'[y] = codes[y]
        BY <1>1, <2>1, <3>1, <3>2 DEF TypeOK
    <3>4. CASE loop' = Idle
        BY <1>1, <2>1, <2>2, <3>3, <3>4 DEF Ends, Holding, Idle
    <3>5. CASE loop' = [loop EXCEPT !.pc = "user"]
      <4>1. loop'.pc = "user" /\ loop'.cred = x
          BY <1>1, <3>5 DEF TypeOK, Request
      <4>2. TakesCode(x)
          BY <1>6, <2>2, <3>3, <4>1 DEF TakesCode, CodeConsume
      <4> QED BY <2>1, <4>2
    <3> QED BY <3>1, <3>4, <3>5
  <2>3. CASE ~(codes[x].state = "live" /\ codes[x].client = loop.client)
      BY <1>1, <1>6, <2>3, JustEnds DEF CodeConsume, Idle
  <2> QED BY <2>2, <2>3
<1>7. CASE RefreshRead
  <2>1. UNCHANGED codes /\ (loop' = Idle \/ loop' = [loop EXCEPT !.pc = "claim"])
      BY <1>7 DEF RefreshRead
  <2>2. loop'.pc \notin {"user", "save"}
      BY <1>1, <2>1 DEF TypeOK, Request, Idle
  <2> QED BY <1>1, <2>1, <2>2, JustEnds
<1>8. CASE RefreshClaim
  <2> DEFINE t == loop.cred
  <2>1. UNCHANGED codes /\ loop.pc = "claim"
      BY <1>8 DEF RefreshClaim
  <2>2. CASE Live(t) /\ loop' /= Idle
    <3>1. tokens' = Revoked({t}) /\ loop' = [loop EXCEPT !.pc = "user"]
        BY <1>8, <2>2 DEF RefreshClaim, Claimable, Claimed
    <3>2. loop'.pc = "user" /\ loop'.cred = t
        BY <1>1, <3>1 DEF TypeOK, Request
    <3> QED BY <2>1, <2>2, <3>1, <3>2 DEF TakesToken
  <2>3. CASE loop' = Idle
      BY <1>1, <2>1, <2>3, JustEnds DEF Idle
  <2> QED BY <1>8, <2>2, <2>3 DEF RefreshClaim, Claimable
<1>9. CASE FindUser
  <2>1. loop.cred \in Codes \union Tokens
      BY <1>1, <1>9 DEF FindUser, Proper
  <2>2. /\ UNCHANGED codes /\ loop.pc = "user"
        /\ loop' = Idle \/ loop' = [loop EXCEPT !.pc = "save"]
      BY <1>9 DEF FindUser
  <2>3. loop' = Idle \/ loop'.cred = loop.cred
      BY <1>1, <2>2 DEF TypeOK, Request
  <2> QED BY <1>1, <2>1, <2>2, <2>3, IdsAssumption DEF Ends, Holding, Idle
<1> QED BY <1>2, <1>3, <1>4, <1>5, <1>6, <1>7, <1>8, <1>9
    DEF Next, vars, RegisterClient, ConsentStart, ToggleUser, SaveToken,
        ToggleWrite, ToggleRead, RevokeTokens, Restart, Tick

-----------------------------------------------------------------------------
(* Each course is a step of ConsentLife *)

\* A step keeps the phase of x.
Same(x) == Stage(x)' = Stage(x)

\* Rows that fade keep what they go back to, and none of them comes to stand for it.
LEMMA FadeRoots ==
    ASSUME IType, Fade
    PROVE  /\ \A y \in Codes \union Tokens : Root(y)' = Root(y)
           /\ \A x \in Codes : LiveFor(x)' \subseteq LiveFor(x)
<1>1. \A t \in Tokens : tokens[t].family \in Tokens \union {Null}
    BY DEF IType, TypeOK, Token
<1>2. ASSUME NEW y \in Codes
      PROVE  Root(y)' = Root(y)
    BY <1>2, IdsAssumption DEF Root
<1>3. ASSUME NEW t \in Tokens
      PROVE  Root(t)' = Root(t)
  <2>1. t \notin Codes
      BY IdsAssumption
  <2>2. CASE tokens[t].family = Null
    <3>1. Root(t) = tokens[t].parent
        BY <2>1, <2>2 DEF Root
    <3>2. Root(t)' = tokens'[t].parent
        BY <2>1, <2>2 DEF Root, Fade
    <3> QED BY <3>1, <3>2 DEF Fade
  <2>3. CASE tokens[t].family /= Null
    <3>1. Root(t) = tokens[tokens[t].family].parent
        BY <2>1, <2>3 DEF Root
    <3>2. Root(t)' = tokens'[tokens[t].family].parent
        BY <2>1, <2>3 DEF Root, Fade
    <3>3. tokens[t].family \in Tokens
        BY <1>1, <2>3
    <3> QED BY <3>1, <3>2, <3>3 DEF Fade
  <2> QED BY <2>2, <2>3
<1> QED BY <1>2, <1>3 DEF LiveFor, Fade

\* If one consent moves and the others stay, that is the change of the function.
LEMMA OneMoves ==
    ASSUME Settled, Settled', NEW x \in Codes, \A y \in Codes : y /= x => Same(y)
    PROVE  Phase[x] = Stage(x) /\ Phase' = [Phase EXCEPT ![x] = Stage(x)']
<1>1. Phase = [y \in Codes |-> Stage(y)] /\ Phase' = [y \in Codes |-> Stage(y)']
    BY DEF Settled
<1> QED BY <1>1 DEF Same

\* Consents only end when rows fade and nothing is taken.
LEMMA EndsMaps ==
    ASSUME IConsent, Settled, Settled', Ends
    PROVE  Consent!Next
<1>1. /\ \A y \in Codes \union Tokens : Root(y)' = Root(y)
      /\ \A x \in Codes : LiveFor(x)' \subseteq LiveFor(x)
    BY FadeRoots DEF Ends, IConsent, IToken
<1>2. Held' \subseteq Held
    BY <1>1 DEF Ends, Holding, Held, IConsent, IToken, IType, TypeOK, Request
<1>3. ASSUME NEW x \in Codes, ~Same(x)
      PROVE  Stage(x) \in {"offered", "held", "live"} /\ Stage(x)' = "ended"
  <2>1. /\ codes[x].state \in {"unissued", "live", "gone"}
        /\ \/ codes'[x].state = codes[x].state
           \/ codes[x].state = "live" /\ codes'[x].state = "gone"
    <3>1. codes[x].state \in {"unissued", "live", "gone"}
        BY DEF IConsent, IToken, IType, TypeOK, Code, RowStates
    <3> QED BY <3>1 DEF Ends
  <2>2. /\ x \in Held => codes[x].state = "gone"
        /\ LiveFor(x) /= {} => codes[x].state = "gone" /\ x \notin Held
      BY DEF Settled, Distinct
  <2>3. (LiveFor(x) = {} => LiveFor(x)' = {}) /\ (x \in Held' => x \in Held)
      BY <1>1, <1>2
  <2>4. Stage(x) = IF codes[x].state = "unissued" THEN "none"
                   ELSE IF codes[x].state = "live" THEN "offered"
                   ELSE IF x \in Held THEN "held"
                   ELSE IF LiveFor(x) /= {} THEN "live" ELSE "ended"
      BY DEF Stage
  <2>5. Stage(x)' = IF codes'[x].state = "unissued" THEN "none"
                    ELSE IF codes'[x].state = "live" THEN "offered"
                    ELSE IF x \in Held' THEN "held"
                    ELSE IF LiveFor(x)' /= {} THEN "live" ELSE "ended"
      BY DEF Stage
  <2> QED BY <1>3, <2>1, <2>2, <2>3, <2>4, <2>5 DEF Same
<1> DEFINE S == {x \in Codes : ~Same(x)}
<1>4. Phase = [x \in Codes |-> Stage(x)] /\ Phase' = [x \in Codes |-> Stage(x)']
    BY DEF Settled
<1>5. Phase' = [x \in Codes |-> IF x \in S THEN "ended" ELSE Phase[x]]
    BY <1>3, <1>4 DEF Same
<1>6. \A x \in S : Phase[x] \in {"offered", "held", "live"}
    BY <1>3, <1>4
<1>7. Consent!End(S)
    BY <1>5, <1>6 DEF Consent!End
<1> QED BY <1>7 DEF Consent!Next

\* A code that is stored is an offer.
LEMMA OffersMaps ==
    ASSUME IConsent, Settled, Settled', Offers
    PROVE  Consent!Next
<1>1. PICK x \in Codes :
        /\ codes[x].state = "unissued" /\ codes'[x].state = "live"
        /\ \A y \in Codes : y /= x => codes'[y] = codes[y]
        /\ UNCHANGED <<tokens, loop>>
    BY DEF Offers
<1>2. Held' = Held /\ \A y \in Codes : LiveFor(y)' = LiveFor(y)
    BY <1>1 DEF Held, LiveFor, Live, Stored, Root
<1>3. \A y \in Codes : y /= x => Same(y)
    BY <1>1, <1>2 DEF Same, Stage
<1>4. Stage(x) = "none" /\ Stage(x)' = "offered"
    BY <1>1 DEF Stage
<1>5. Consent!Offer(x)
    BY <1>3, <1>4, OneMoves DEF Consent!Offer
<1> QED BY <1>5 DEF Consent!Next

\* A code that is taken is held.
LEMMA TakesCodeMaps ==
    ASSUME IConsent, Settled, Settled', NEW x \in Codes, TakesCode(x)
    PROVE  Consent!Next
<1>1. Held = {} /\ Held' = {x}
    BY IdsAssumption DEF TakesCode, Held, Root
<1>2. \A y \in Codes : LiveFor(y)' = LiveFor(y)
    BY DEF TakesCode, LiveFor, Live, Stored, Root
<1>3. \A y \in Codes : y /= x => Same(y)
    BY <1>1, <1>2 DEF Same, Stage, TakesCode
<1>4. Stage(x) = "offered" /\ Stage(x)' = "held"
    BY <1>1 DEF Stage, TakesCode
<1>5. Consent!Take(x)
    BY <1>3, <1>4, OneMoves DEF Consent!Take
<1> QED BY <1>5 DEF Consent!Next

\* A refresh token that is claimed was the live one of its consent, and is held.
LEMMA TakesTokenMaps ==
    ASSUME IConsent, Settled, Settled', TakesToken, Fade
    PROVE  Consent!Next
<1> DEFINE t == loop.cred
<1>1. t \in Tokens /\ tokens[t].family /= Null
    BY DEF TakesToken, IConsent, IToken, IType, Proper, Asked
<1>2. tokens[t].parent /= Null
    BY <1>1 DEF IConsent, Roots
<1>3. PICK x \in Codes : x = Root(t)
    BY <1>1, <1>2, RootOfToken
<1>4. /\ \A y \in Codes \union Tokens : Root(y)' = Root(y)
      /\ \A y \in Codes : LiveFor(y)' \subseteq LiveFor(y)
    BY FadeRoots DEF IConsent, IToken
<1>5. t \in LiveFor(x)
    BY <1>1, <1>2, <1>3 DEF TakesToken, LiveFor
<1>6. Held = {} /\ Held' = {x}
    BY <1>1, <1>3, <1>4, IdsAssumption DEF TakesToken, Held
<1>7. codes[x].state = "gone" /\ codes' = codes
    BY <1>3, <1>5 DEF Settled, Distinct, TakesToken
<1>8. ASSUME NEW y \in Codes, y /= x
      PROVE  Same(y)
  <2>1. ASSUME NEW s \in LiveFor(y)
        PROVE  s \in LiveFor(y)'
    <3>1. s \in Tokens /\ s /= t /\ Root(s) = y /\ Live(s) /\ tokens[s].parent /= Null
        BY <1>3, <1>8, <2>1 DEF LiveFor
    <3>2. tokens'[s] = tokens[s]
        BY <3>1 DEF TakesToken, Revoked
    <3>3. Root(s)' = y
        BY <1>4, <3>1
    <3> QED BY <3>1, <3>2, <3>3 DEF LiveFor, Live, Stored
  <2>2. LiveFor(y)' = LiveFor(y)
      BY <1>4, <2>1
  <2>3. y \notin Held /\ y \notin Held'
      BY <1>6, <1>8
  <2> QED BY <1>7, <2>2, <2>3 DEF Same, Stage
<1>9. Stage(x) = "live"
    BY <1>5, <1>6, <1>7 DEF Stage
<1>10. Stage(x)' = "held"
    BY <1>6, <1>7 DEF Stage
<1>11. Consent!Take(x)
  <2>1. Phase[x] = Stage(x) /\ Phase' = [Phase EXCEPT ![x] = Stage(x)']
      BY <1>3, <1>8, OneMoves
  <2> QED BY <1>9, <1>10, <2>1 DEF Consent!Take
<1> QED BY <1>3, <1>11 DEF Consent!Next

\* A token that is stored stands for the consent that was held, or for none.
LEMMA StoreMaps ==
    ASSUME IConsent, Settled, Settled', Store
    PROVE  Consent!Next \/ UNCHANGED Phase
<1>1. PICK t \in Tokens :
             /\ tokens[t].state = "unissued"
             /\ tokens'[t].parent = loop.cred /\ tokens'[t].family = Family(t, loop.cred)
             /\ Live(t)'
             /\ \A s \in Tokens : s /= t => tokens'[s] = tokens[s] /\ tokens[s].family /= t
             /\ loop.cred \in Tokens => tokens[loop.cred].family \in Tokens \ {t}
             /\ loop.cred = Null => Family(t, loop.cred) = Null
    BY StoredRow
<1>2. Held' = {} /\ codes' = codes
    BY DEF Store, Held, Idle
<1>3. ASSUME NEW s \in Tokens, s /= t
      PROVE  Root(s)' = Root(s) /\ (Live(s)' <=> Live(s))
  <2>1. s \notin Codes /\ tokens'[s] = tokens[s] /\ tokens[s].family /= t
      BY <1>1, <1>3, IdsAssumption
  <2>2. tokens[s].family \in Tokens \union {Null}
      BY DEF IConsent, IToken, IType, TypeOK, Token
  <2>3. CASE tokens[s].family = Null
      BY <2>1, <2>3 DEF Root, Live, Stored
  <2>4. CASE tokens[s].family /= Null
    <3>1. tokens'[tokens[s].family] = tokens[tokens[s].family]
        BY <1>1, <2>1, <2>2, <2>4
    <3>2. Root(s) = tokens[tokens[s].family].parent
        BY <2>1, <2>4 DEF Root
    <3>3. Root(s)' = tokens'[tokens[s].family].parent
        BY <2>1, <2>4 DEF Root
    <3> QED BY <2>1, <3>1, <3>2, <3>3 DEF Live, Stored
  <2> QED BY <2>3, <2>4
<1>4. \A y \in Codes : t \notin LiveFor(y)
    BY <1>1 DEF LiveFor, Live, Stored
<1>5. ASSUME NEW y \in Codes, t \notin LiveFor(y)'
      PROVE  LiveFor(y)' = LiveFor(y)
    BY <1>1, <1>3, <1>4, <1>5 DEF LiveFor
<1>6. CASE loop.cred = Null
  <2>1. Held = {}
      BY <1>6 DEF Held
  <2>2. \A y \in Codes : t \notin LiveFor(y)'
      BY <1>1, <1>6 DEF LiveFor
  <2>3. \A y \in Codes : Same(y)
      BY <1>2, <1>5, <2>1, <2>2 DEF Same, Stage
  <2> QED BY <2>3 DEF Settled, Same
<1>7. CASE loop.cred /= Null
  <2>1. Holding
      BY <1>7 DEF Holding, Store
  <2>2. PICK x \in Codes : x = Root(loop.cred) /\ Held = {x} /\ codes[x].state = "gone"
      BY <2>1, HeldRoot
  <2>3. Root(t)' = x
    <3>1. t \notin Codes
        BY IdsAssumption
    <3>2. CASE loop.cred \in Codes
      <4>1. Family(t, loop.cred) \in {t, Null} /\ t /= Null
          BY <3>2, IdsAssumption DEF Family
      <4>2. Root(t)' = tokens'[t].parent
          BY <1>1, <3>1, <4>1 DEF Root
      <4>3. Root(loop.cred) = loop.cred
          BY <3>2, IdsAssumption DEF Root
      <4> QED BY <1>1, <2>2, <4>2, <4>3
    <3>3. CASE loop.cred \in Tokens
      <4>1. /\ loop.cred \notin Codes
            /\ tokens'[t].family = tokens[loop.cred].family
            /\ tokens[loop.cred].family \in Tokens \ {t}
            /\ tokens[loop.cred].family /= Null
          BY <1>1, <3>3, IdsAssumption DEF Family
      <4>2. Root(t)' = tokens'[tokens[loop.cred].family].parent
          BY <3>1, <4>1 DEF Root
      <4>3. Root(loop.cred) = tokens[tokens[loop.cred].family].parent
          BY <3>3, <4>1 DEF Root
      <4> QED BY <1>1, <2>2, <4>1, <4>2, <4>3
    <3> QED BY <2>1, <3>2, <3>3, HeldRoot
  <2>4. t \in LiveFor(x)'
      BY <1>1, <1>7, <2>3 DEF LiveFor
  <2>5. \A y \in Codes : y /= x => t \notin LiveFor(y)'
      BY <2>3 DEF LiveFor
  <2>6. \A y \in Codes : y /= x => Same(y)
      BY <1>2, <1>5, <2>2, <2>5 DEF Same, Stage
  <2>7. Stage(x) = "held" /\ Stage(x)' = "live"
      BY <1>2, <2>2, <2>4 DEF Stage
  <2>8. Phase[x] = Stage(x) /\ Phase' = [Phase EXCEPT ![x] = Stage(x)']
      BY <2>2, <2>6, OneMoves
  <2>9. Consent!Issue(x)
      BY <2>7, <2>8 DEF Consent!Issue
  <2> QED BY <2>9 DEF Consent!Next
<1> QED BY <1>6, <1>7

\* The server implements ConsentLife.  One credential at a time stands for a consent, and
\* once nothing does, nothing ever will again.
THEOREM ServerImplementsConsentLife == Spec => ConsentSpec
<1>1. IConsent => Settled
    BY SettledHolds
<1>2. ASSUME Init, Settled
      PROVE  Consent!Init
  <2>1. \A x \in Codes : codes[x].state = "unissued"
      BY <1>2 DEF Init, NoCode
  <2>2. Phase = [x \in Codes |-> "none"]
      BY <1>2, <2>1 DEF Settled, Stage
  <2> QED BY <2>2 DEF Consent!Init
<1>3. ASSUME IConsent, Settled, Settled', [Next]_vars
      PROVE  [Consent!Next]_Phase
  <2>1. Ends \/ Offers \/ (\E x \in Codes : TakesCode(x)) \/ TakesToken \/ Store
      BY <1>3, Courses DEF IConsent, IToken
  <2>2. TakesToken => Fade
    <3>1. Fade \/ Store
        BY <1>3, Shape DEF IConsent, IToken
    <3> QED BY <3>1 DEF TakesToken, Store
  <2> QED BY <1>3, <2>1, <2>2, EndsMaps, OffersMaps, TakesCodeMaps, TakesTokenMaps, StoreMaps
<1> QED BY <1>1, <1>2, <1>3, ConsentInductive, PTL DEF Spec, ConsentSpec, Consent!Spec
=============================================================================
