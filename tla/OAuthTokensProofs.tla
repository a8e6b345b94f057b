------------------------- MODULE OAuthTokensProofs -------------------------
(***************************************************************************)
(* Proofs about OAuthTokens, for any number of clients, members, codes,    *)
(* tokens and administrators.                                              *)
(***************************************************************************)
EXTENDS OAuthTokens, TLAPS

\* The credential a request holds is of the kind its step works on.
Proper ==
    /\ loop.pc = "code" => loop.cred \in Codes
    /\ loop.pc \in {"refresh", "claim"} => loop.cred \in Tokens
    /\ loop.pc = "user" => loop.cred \in Codes \union Tokens

IType == TypeOK /\ Proper

-----------------------------------------------------------------------------
(* Types *)

\* Revoking rows, one by one or by the family, leaves them token rows.
LEMMA RevokedType ==
    ASSUME TypeOK, NEW S, NEW t
    PROVE  Revoked(S) \in [Tokens -> Token] /\ FamilyRevoked(t) \in [Tokens -> Token]
<1>1. ASSUME NEW s \in Tokens
      PROVE  /\ [tokens[s] EXCEPT !.revoked = TRUE] \in Token
             /\ [tokens[s] EXCEPT !.revoked = TRUE, !.compromised = TRUE] \in Token
             /\ tokens[s] \in Token
    BY <1>1 DEF TypeOK, Token
<1> QED BY <1>1 DEF Revoked, FamilyRevoked

\* The rows and requests with which everything starts.
LEMMA EmptyTypes ==
    NoCode \in Code /\ NoToken \in Token /\ Idle \in Request /\ NoToggle \in Toggle
BY DEF NoCode, Code, NoToken, Token, Idle, Request, NoToggle, Toggle, RowStates, Resource

\* The first synchronisation leaves a well-typed server.
LEMMA InitType == Init => IType
<1> SUFFICES ASSUME Init PROVE IType
    OBVIOUS
<1>1. clients \in [Clients -> Client]
    BY DEF Init, Client
<1>2. users \in [Users -> User]
    BY DEF Init, User
<1>3. codes \in [Codes -> Code] /\ tokens \in [Tokens -> Token] /\ loop \in Request
      /\ toggling \in [Admins -> Toggle]
    BY EmptyTypes DEF Init
<1>4. now \in Nat /\ consent \in Users \union {Null}
    BY DEF Init
<1>5. Proper
    BY DEF Init, Proper, Idle
<1> QED BY <1>1, <1>2, <1>3, <1>4, <1>5 DEF IType, TypeOK

\* A request that is answered, or goes on with the credential it has.
LEMMA GoOnType ==
    ASSUME TypeOK, NEW p \in {"claim", "user", "save"},
           p = "claim" => loop.cred \in Tokens,
           p = "user" => loop.cred \in Codes \union Tokens,
           loop' = Idle \/ loop' = [loop EXCEPT !.pc = p]
    PROVE  loop' \in Request /\ Proper'
<1>1. CASE loop' = Idle
    BY <1>1, EmptyTypes DEF Proper, Idle
<1>2. CASE loop' = [loop EXCEPT !.pc = p]
  <2>1. loop' \in Request
      BY <1>2 DEF TypeOK, Request
  <2>2. loop'.pc = p /\ loop'.cred = loop.cred
      BY <1>2 DEF TypeOK, Request
  <2> QED BY <2>1, <2>2 DEF Proper
<1> QED BY <1>1, <1>2

\* An authenticated client starts a request whose credential fits its grant.
LEMMA RequestType ==
    ASSUME IType,
           NEW c \in Clients, NEW p \in {"code", "refresh", "save"},
           NEW x \in Codes \union Tokens \union {Null}, NEW r \in Resource,
           p = "code" => x \in Codes, p = "refresh" => x \in Tokens,
           TokenRequest(c, p, x, r)
    PROVE  IType'
<1>1. loop' = [pc |-> p, client |-> c, cred |-> x, resource |-> r]
    BY DEF TokenRequest
<1>2. loop' \in Request
    BY <1>1 DEF Request
<1>3. Proper'
    BY <1>1 DEF Proper
<1> QED BY <1>2, <1>3 DEF TokenRequest, IType, TypeOK

\* The row of SaveToken is a token row.
LEMMA IssuedType ==
    ASSUME TypeOK, NEW t \in Tokens
    PROVE  Issued(t, loop.cred) \in Token
<1> DEFINE cred == loop.cred
<1>1. cred \in Codes \union Tokens \union {Null} /\ loop.client \in Clients \union {Null}
      /\ loop.resource \in Resource /\ now \in Nat
    BY DEF TypeOK, Request
<1>2. (IF cred = Null THEN Null ELSE Giver(cred)) \in Users \union {Null}
    BY <1>1 DEF TypeOK, Giver, Code, Token
<1>3. Family(t, cred) \in Tokens \union {Null}
    BY <1>1 DEF TypeOK, Token, Family
<1>4. Audience(cred) \in Resource
  <2>1. CASE cred \in Tokens
      <3>1. cred \notin Codes
          BY <2>1, IdsAssumption
      <3> QED BY <2>1, <3>1 DEF Audience, TypeOK, Token
  <2>2. CASE cred \notin Tokens
      BY <1>1, <2>2 DEF Audience, TypeOK, Code
  <2> QED BY <2>1, <2>2
<1> QED BY <1>1, <1>2, <1>3, <1>4 DEF Issued, Token, RowStates
\* Each step, and each stutter, keeps the types.
LEMMA NextType ==
    ASSUME IType, [Next]_vars
    PROVE  IType'
<1> USE DEF IType
<1>1. CASE UNCHANGED vars
    BY <1>1 DEF vars, TypeOK, Proper
<1>2. ASSUME NEW c \in Clients, NEW r \in Resources, RegisterClient(c, r)
      PROVE  IType'
  <2>1. clients' \in [Clients -> Client]
      BY <1>2 DEF RegisterClient, TypeOK, Client
  <2> QED BY <1>2, <2>1 DEF RegisterClient, TypeOK, Proper
<1>3. ASSUME NEW u \in Users, ConsentStart(u)
      PROVE  IType'
    BY <1>3 DEF ConsentStart, TypeOK, Proper
<1>4. ASSUME NEW u \in Users, ToggleUser(u)
      PROVE  IType'
  <2>1. users' \in [Users -> User]
      BY <1>4 DEF ToggleUser, TypeOK, User
  <2> QED BY <1>4, <2>1 DEF ToggleUser, TypeOK, Proper
<1>5. ASSUME NEW u \in Users, DeleteUser(u)
      PROVE  IType'
  <2>1. users' \in [Users -> User]
      BY <1>5 DEF DeleteUser, TypeOK, User
  <2>2. ASSUME NEW x \in Codes
        PROVE  codes[x] \in Code /\ [codes[x] EXCEPT !.state = "gone"] \in Code
      BY DEF TypeOK, Code, RowStates
  <2>3. codes' \in [Codes -> Code]
      BY <1>5, <2>2 DEF DeleteUser
  <2>4. ASSUME NEW t \in Tokens
        PROVE  tokens[t] \in Token /\ [tokens[t] EXCEPT !.state = "gone"] \in Token
      BY DEF TypeOK, Token, RowStates
  <2>5. tokens' \in [Tokens -> Token]
      BY <1>5, <2>4 DEF DeleteUser
  <2> QED BY <1>5, <2>1, <2>3, <2>5 DEF DeleteUser, TypeOK, Proper
<1>6. ASSUME NEW c \in Clients, NEW x \in Codes, NEW r \in Resource, ConsentGive(c, x, r)
      PROVE  IType'
  <2>1. codes' \in [Codes -> Code]
    <3>1. CASE UNCHANGED codes
        BY <3>1 DEF TypeOK
    <3>2. CASE codes' = [codes EXCEPT ![x] = [state |-> "live", client |-> c, user |-> consent,
                                              resource |-> r, expires |-> now + CodeLifetime]]
      <4> DEFINE row == [state |-> "live", client |-> c, user |-> consent,
                         resource |-> r, expires |-> now + CodeLifetime]
      <4>1. row \in Code
          BY TimesAssumption DEF TypeOK, Code, RowStates
      <4> QED BY <3>2, <4>1 DEF TypeOK
    <3> QED BY <1>6, <3>1, <3>2 DEF ConsentGive
  <2> QED BY <1>6, <2>1 DEF ConsentGive, TypeOK, Proper
<1>7. ASSUME NEW c \in Clients, NEW x \in Codes, NEW r \in Resource, CodeRequest(c, x, r)
      PROVE  IType'
    BY <1>7, RequestType DEF CodeRequest
<1>8. ASSUME NEW c \in Clients, NEW t \in Tokens, NEW r \in Resource, RefreshRequest(c, t, r)
      PROVE  IType'
    BY <1>8, RequestType DEF RefreshRequest
<1>9. ASSUME NEW c \in Clients, NEW r \in Resource, ServiceRequest(c, r)
      PROVE  IType'
    BY <1>9, RequestType DEF ServiceRequest
<1>10. CASE CodeConsume
  <2>1. loop.cred \in Codes
      BY <1>10 DEF CodeConsume, Proper
  <2>2. CodeTaken(loop.cred) \in Code
      BY <2>1 DEF CodeTaken, TypeOK, Code, RowStates
  <2>3. codes' \in [Codes -> Code]
      BY <1>10, <2>1, <2>2 DEF CodeConsume, TypeOK
  <2>4. loop' = Idle \/ loop' = [loop EXCEPT !.pc = "user"]
      BY <1>10 DEF CodeConsume
  <2>5. loop' \in Request /\ Proper'
      BY <2>1, <2>4, GoOnType
  <2> QED BY <1>10, <2>3, <2>5 DEF CodeConsume, TypeOK
<1>11. CASE RefreshRead
  <2>1. loop.cred \in Tokens
      BY <1>11 DEF RefreshRead, Proper
  <2>2. tokens' \in [Tokens -> Token]
      BY <1>11, RevokedType DEF RefreshRead, TypeOK
  <2>3. loop' = Idle \/ loop' = [loop EXCEPT !.pc = "claim"]
      BY <1>11 DEF RefreshRead
  <2>4. loop' \in Request /\ Proper'
      BY <2>1, <2>3, GoOnType
  <2> QED BY <1>11, <2>2, <2>4 DEF RefreshRead, TypeOK
<1>12. CASE RefreshClaim
  <2>1. loop.cred \in Tokens
      BY <1>12 DEF RefreshClaim, Proper
  <2>2. tokens' \in [Tokens -> Token]
      BY <1>12, RevokedType DEF RefreshClaim, Claimed
  <2>3. loop' = Idle \/ loop' = [loop EXCEPT !.pc = "user"]
      BY <1>12 DEF RefreshClaim
  <2>4. loop' \in Request /\ Proper'
      BY <2>1, <2>3, GoOnType
  <2> QED BY <1>12, <2>2, <2>4 DEF RefreshClaim, TypeOK
<1>13. CASE FindUser
  <2>1. loop' = Idle \/ loop' = [loop EXCEPT !.pc = "save"]
      BY <1>13 DEF FindUser
  <2>2. loop' \in Request /\ Proper'
      BY <2>1, GoOnType
  <2> QED BY <1>13, <2>2 DEF FindUser, TypeOK
<1>14. CASE SaveToken
  <2>1. tokens' \in [Tokens -> Token]
    <3>1. CASE UNCHANGED tokens
        BY <3>1 DEF TypeOK
    <3>2. ASSUME NEW t \in Tokens, tokens' = [tokens EXCEPT ![t] = Issued(t, loop.cred)]
          PROVE  tokens' \in [Tokens -> Token]
        BY <3>2, IssuedType DEF TypeOK
    <3> QED BY <1>14, <3>1, <3>2 DEF SaveToken
  <2>2. loop' = Idle
      BY <1>14 DEF SaveToken
  <2>3. Proper'
      BY <2>2 DEF Proper, Idle
  <2> QED BY <1>14, <2>1, <2>2, <2>3, EmptyTypes DEF SaveToken, TypeOK
<1>15. ASSUME NEW a \in Admins, ToggleWrite(a)
       PROVE  IType'
  <2> DEFINE c == toggling[a].client
  <2>1. c \in Clients /\ toggling[a].enable \in BOOLEAN
      BY <1>15 DEF ToggleWrite, TypeOK, Toggle
  <2>2. [clients[c] EXCEPT !.enabled = toggling[a].enable] \in Client
      BY <2>1 DEF TypeOK, Client
  <2>3. clients' \in [Clients -> Client]
      BY <1>15, <2>1, <2>2 DEF ToggleWrite, TypeOK
  <2>4. tokens' \in [Tokens -> Token]
      BY <1>15, RevokedType DEF ToggleWrite, TypeOK
  <2>5. toggling' \in [Admins -> Toggle]
      BY <1>15, EmptyTypes DEF ToggleWrite, TypeOK
  <2> QED BY <1>15, <2>3, <2>4, <2>5 DEF ToggleWrite, TypeOK, Proper
<1>16. ASSUME NEW a \in Admins, NEW c \in Clients, ToggleRead(a, c)
       PROVE  IType'
  <2>1. [client |-> c, enable |-> ~clients[c].enabled] \in Toggle
      BY DEF TypeOK, Client, Toggle
  <2>2. toggling' \in [Admins -> Toggle]
      BY <1>16, <2>1 DEF ToggleRead, TypeOK
  <2> QED BY <1>16, <2>2 DEF ToggleRead, TypeOK, Proper
<1>17. ASSUME NEW c \in Clients, RevokeTokens(c)
       PROVE  IType'
    BY <1>17, RevokedType DEF RevokeTokens, TypeOK, Proper
<1>18. ASSUME NEW D \in SUBSET Declarative, NEW P \in [D -> SUBSET Resources], Restart(D, P)
       PROVE  IType'
  <2>1. ASSUME NEW c \in Clients
        PROVE  /\ clients[c] \in Client /\ [clients[c] EXCEPT !.enabled = FALSE] \in Client
               /\ c \in D => [known |-> TRUE, enabled |-> TRUE, allowed |-> P[c]] \in Client
      BY DEF TypeOK, Client
  <2>2. clients' \in [Clients -> Client]
      BY <1>18, <2>1 DEF Restart
  <2>3. tokens' \in [Tokens -> Token]
      BY <1>18, RevokedType DEF Restart
  <2>4. loop' = Idle /\ consent' = Null /\ toggling' = [a \in Admins |-> NoToggle]
      BY <1>18 DEF Restart
  <2>5. Proper'
      BY <2>4 DEF Proper, Idle
  <2>6. toggling' \in [Admins -> Toggle]
      BY <2>4, EmptyTypes
  <2> QED BY <1>18, <2>2, <2>3, <2>4, <2>5, <2>6, EmptyTypes DEF Restart, TypeOK
<1>19. CASE Tick
    BY <1>19 DEF Tick, TypeOK, Proper
<1> QED BY <1>1, <1>2, <1>3, <1>4, <1>5, <1>6, <1>7, <1>8, <1>9, <1>10, <1>11, <1>12,
           <1>13, <1>14, <1>15, <1>16, <1>17, <1>18, <1>19 DEF Next

\* Every row, and the request on the event loop, keep their types.
THEOREM TypeCorrect == Spec => []TypeOK
<1>1. Init => IType
    BY InitType
<1>2. IType /\ [Next]_vars => IType'
    BY NextType
<1>3. IType => TypeOK
    BY DEF IType
<1> QED BY <1>1, <1>2, <1>3, PTL DEF Spec
-----------------------------------------------------------------------------
(* The inductive invariant *)

Unspent(y) == \A s \in Tokens : tokens[s].parent /= y
Holding == loop.pc \in {"user", "save"} /\ loop.cred /= Null

\* A refresh under way was asked for with a refresh token that was issued.
Asked ==
    loop.pc \in {"refresh", "claim"} =>
        tokens[loop.cred].state /= "unissued" /\ tokens[loop.cred].family /= Null

\* Nothing was issued yet for a credential that can still be presented, nor for
\* the one a request has taken out of circulation and holds.
Single ==
    /\ OneIssuePerCredential
    /\ \A x \in Codes : codes[x].state /= "gone" => Unspent(x)
    /\ \A t \in Tokens : tokens[t].state = "unissued" \/ Live(t) => Unspent(t)
    /\ Holding => Unspent(loop.cred)
    /\ Holding /\ loop.cred \in Codes => codes[loop.cred].state = "gone"
    /\ Holding /\ loop.cred \in Tokens =>
          tokens[loop.cred].state /= "unissued" /\ ~Live(loop.cred)

\* A family is named by a token that was issued, and while one of its refresh
\* tokens is held nothing in it is live.
Familial ==
    /\ FamilyOneLive
    /\ \A s, t \in Tokens : tokens[t].state = "unissued" => tokens[s].family /= t
    /\ Holding /\ loop.cred \in Tokens =>
          /\ tokens[loop.cred].family /= Null
          /\ \A s \in Tokens : tokens[s].family = tokens[loop.cred].family => ~Live(s)

\* A compromised family has no live row.
Compromising ==
    \A s, t \in Tokens : Stored(s) /\ tokens[s].compromised =>
        /\ tokens[s].family /= Null
        /\ tokens[t].family = tokens[s].family => ~Live(t)

IToken == IType /\ Asked /\ Single /\ Familial /\ Compromising

-----------------------------------------------------------------------------
(* What a step does to the rows and to the credential that is held *)

\* The rows are where they were; some are revoked or gone, and compromised only
\* with the whole family.
Fade ==
    \A s \in Tokens :
        /\ tokens'[s].parent = tokens[s].parent
        /\ tokens'[s].family = tokens[s].family
        /\ tokens'[s].state = "unissued" <=> tokens[s].state = "unissued"
        /\ Live(s)' => Live(s)
        /\ Stored(s)' /\ tokens'[s].compromised =>
              \/ Stored(s) /\ tokens[s].compromised
              \/ /\ tokens[s].family /= Null
                 /\ \A t \in Tokens : tokens[t].family = tokens[s].family => ~Live(t)'

\* One row is added for the credential the request holds, if it has one.
Store ==
    /\ loop.pc = "save" /\ loop' = Idle /\ UNCHANGED codes
    /\ loop.cred \in Tokens => ~\E s \in Tokens : /\ Stored(s) /\ tokens[s].compromised
                                                  /\ tokens[s].family = tokens[loop.cred].family
    /\ \E t \in Tokens : /\ tokens[t].state = "unissued"
                          /\ tokens' = [tokens EXCEPT ![t] = Issued(t, loop.cred)]

\* Codes go and do not come back; a credential that is held was held before, or
\* was taken out of circulation by this step.
Hold ==
    /\ \A x \in Codes : codes[x].state = "gone" => codes'[x].state = "gone"
    /\ Holding' =>
          \/ Holding /\ loop'.cred = loop.cred
          \/ /\ loop'.cred \in Codes
             /\ codes[loop'.cred].state = "live" /\ codes'[loop'.cred].state = "gone"
          \/ /\ loop'.cred \in Tokens /\ loop.pc = "claim" /\ loop'.cred = loop.cred
             /\ Live(loop.cred) /\ ~Live(loop.cred)'
    /\ loop'.pc \in {"refresh", "claim"} =>
          \/ loop.pc = "refresh" /\ loop'.cred = loop.cred
          \/ loop.pc = "claim" /\ loop' = loop
          \/ tokens[loop'.cred].state /= "unissued" /\ tokens[loop'.cred].family /= Null
LEMMA FadeUnchanged ==
    ASSUME UNCHANGED tokens
    PROVE  Fade
BY DEF Fade, Live, Stored

\* Revoking rows only takes life from them.
LEMMA FadeRevoked ==
    ASSUME TypeOK, NEW S, tokens' = Revoked(S)
    PROVE  Fade
<1>1. ASSUME NEW s \in Tokens
      PROVE  /\ tokens'[s].parent = tokens[s].parent
             /\ tokens'[s].family = tokens[s].family
             /\ tokens'[s].state = tokens[s].state
             /\ tokens'[s].compromised = tokens[s].compromised
             /\ tokens[s].revoked => tokens'[s].revoked
  <2>1. tokens'[s] = tokens[s] \/ tokens'[s] = [tokens[s] EXCEPT !.revoked = TRUE]
      BY <1>1 DEF Revoked
  <2> QED BY <1>1, <2>1 DEF TypeOK, Token
<1> QED BY <1>1 DEF Fade, Live, Stored

\* Nor does revoking a family, which is all that compromises a row.
LEMMA FadeFamily ==
    ASSUME TypeOK, NEW t \in Tokens, tokens[t].family /= Null, tokens' = FamilyRevoked(t)
    PROVE  Fade
<1>1. ASSUME NEW s \in Tokens
      PROVE  /\ tokens'[s].parent = tokens[s].parent
             /\ tokens'[s].family = tokens[s].family
             /\ tokens'[s].state = tokens[s].state
             /\ tokens[s].revoked => tokens'[s].revoked
             /\ tokens[s].family = tokens[t].family /\ Stored(s) => tokens'[s].revoked
             /\ tokens[s].family /= tokens[t].family =>
                   tokens'[s].compromised = tokens[s].compromised
  <2>1. CASE Stored(s) /\ tokens[s].family = tokens[t].family
    <3>1. tokens'[s] = [tokens[s] EXCEPT !.revoked = TRUE, !.compromised = TRUE]
        BY <1>1, <2>1 DEF FamilyRevoked
    <3> QED BY <1>1, <2>1, <3>1 DEF TypeOK, Token
  <2>2. CASE ~(Stored(s) /\ tokens[s].family = tokens[t].family)
    <3>1. tokens'[s] = tokens[s]
        BY <1>1, <2>2 DEF FamilyRevoked
    <3> QED BY <1>1, <2>2, <3>1
  <2> QED BY <2>1, <2>2
<1>2. ASSUME NEW s \in Tokens, tokens[s].family = tokens[t].family
      PROVE  ~Live(s)'
    BY <1>1, <1>2 DEF Live, Stored
<1>3. ASSUME NEW s \in Tokens, Stored(s)', tokens'[s].compromised
      PROVE  \/ Stored(s) /\ tokens[s].compromised
             \/ /\ tokens[s].family /= Null
                /\ \A r \in Tokens : tokens[r].family = tokens[s].family => ~Live(r)'
  <2>1. CASE tokens[s].family = tokens[t].family
      BY <1>2, <2>1
  <2>2. CASE tokens[s].family /= tokens[t].family
      BY <1>1, <1>3, <2>2 DEF Stored
  <2> QED BY <2>1, <2>2
<1> QED BY <1>1, <1>3 DEF Fade, Live, Stored

\* A step that leaves the request alone, or ends it, takes nothing in hand.
LEMMA HoldStill ==
    ASSUME loop' = loop \/ loop' = Idle,
           \A x \in Codes : codes[x].state = "gone" => codes'[x].state = "gone"
    PROVE  Hold
BY DEF Hold, Holding, Idle

\* So does the start of a request; its refresh token was issued.
LEMMA HoldRequest ==
    ASSUME NEW c, NEW p \in {"code", "refresh", "save"}, NEW x, NEW r,
           TokenRequest(c, p, x, r),
           p = "save" => x = Null,
           p = "refresh" => tokens[x].state /= "unissued" /\ tokens[x].family /= Null
    PROVE  Fade /\ Hold
<1>1. loop' = [pc |-> p, client |-> c, cred |-> x, resource |-> r]
      /\ UNCHANGED <<codes, tokens>>
    BY DEF TokenRequest
<1> QED BY <1>1, FadeUnchanged DEF Hold, Holding

\* Every step fades or stores, and takes a credential in hand only by ending it.
LEMMA Shape ==
    ASSUME IType, Asked, [Next]_vars
    PROVE  (Fade \/ Store) /\ Hold
<1>1. TypeOK /\ Proper
    BY DEF IType
<1>2. CASE UNCHANGED vars
    BY <1>2, FadeUnchanged, HoldStill DEF vars
<1>3. ASSUME NEW c \in Clients, NEW r \in Resources, RegisterClient(c, r)
      PROVE  Fade /\ Hold
    BY <1>3, FadeUnchanged, HoldStill DEF RegisterClient
<1>4. ASSUME NEW u \in Users, ConsentStart(u) \/ ToggleUser(u)
      PROVE  Fade /\ Hold
    BY <1>4, FadeUnchanged, HoldStill DEF ConsentStart, ToggleUser
<1>5. ASSUME NEW u \in Users, DeleteUser(u)
      PROVE  Fade /\ Hold
  <2>1. ASSUME NEW x \in Codes, codes[x].state = "gone"
        PROVE  codes'[x].state = "gone"
      BY <1>5, <2>1 DEF DeleteUser
  <2>2. ASSUME NEW s \in Tokens
        PROVE  /\ tokens'[s].parent = tokens[s].parent
               /\ tokens'[s].family = tokens[s].family
               /\ tokens'[s].state = "unissued" <=> tokens[s].state = "unissued"
               /\ Stored(s)' => Stored(s) /\ tokens'[s] = tokens[s]
    <3>1. CASE Stored(s) /\ tokens[s].user = u
      <4>1. tokens'[s] = [tokens[s] EXCEPT !.state = "gone"]
          BY <1>5, <2>2, <3>1 DEF DeleteUser
      <4> QED BY <1>1, <2>2, <3>1, <4>1 DEF TypeOK, Token, Stored
    <3>2. CASE ~(Stored(s) /\ tokens[s].user = u)
      <4>1. tokens'[s] = tokens[s]
          BY <1>5, <2>2, <3>2 DEF DeleteUser
      <4> QED BY <4>1 DEF Stored
    <3> QED BY <3>1, <3>2
  <2>3. Fade
      BY <2>2 DEF Fade, Live
  <2>4. loop' = loop
      BY <1>5 DEF DeleteUser
  <2> QED BY <2>1, <2>3, <2>4, HoldStill
<1>6. ASSUME NEW c \in Clients, NEW x \in Codes, NEW r \in Resource, ConsentGive(c, x, r)
      PROVE  Fade /\ Hold
  <2>1. ASSUME NEW y \in Codes, codes[y].state = "gone"
        PROVE  codes'[y].state = "gone"
      BY <1>1, <1>6, <2>1 DEF ConsentGive, TypeOK
  <2> QED BY <1>6, <2>1, FadeUnchanged, HoldStill DEF ConsentGive
<1>7. ASSUME NEW c \in Clients, NEW x \in Codes, NEW r \in Resource, CodeRequest(c, x, r)
      PROVE  Fade /\ Hold
    BY <1>7, HoldRequest DEF CodeRequest
<1>8. ASSUME NEW c \in Clients, NEW t \in Tokens, NEW r \in Resource, RefreshRequest(c, t, r)
      PROVE  Fade /\ Hold
    BY <1>8, HoldRequest DEF RefreshRequest
<1>9. ASSUME NEW c \in Clients, NEW r \in Resource, ServiceRequest(c, r)
      PROVE  Fade /\ Hold
    BY <1>9, HoldRequest DEF ServiceRequest
<1>10. CASE CodeConsume
  <2> DEFINE x == loop.cred
  <2>1. x \in Codes
      BY <1>1, <1>10 DEF CodeConsume, Proper
  <2>2. Fade
      BY <1>10, FadeUnchanged DEF CodeConsume
  <2>3. CASE codes[x].state = "live" /\ codes[x].client = loop.client
    <3>1. codes' = [codes EXCEPT ![x] = CodeTaken(x)]
          /\ (loop' = Idle \/ loop' = [loop EXCEPT !.pc = "user"])
        BY <1>10, <2>3 DEF CodeConsume
    <3>2. CodeTaken(x).state = "gone"
        BY <1>1, <2>1 DEF CodeTaken, TypeOK, Code
    <3>3. \A y \in Codes : codes[y].state = "gone" => codes'[y].state = "gone"
        BY <1>1, <2>1, <3>1, <3>2 DEF TypeOK
    <3>4. codes'[x].state = "gone"
        BY <1>1, <2>1, <3>1, <3>2 DEF TypeOK
    <3>5. CASE loop' = Idle
        BY <2>2, <3>3, <3>5, HoldStill
    <3>6. CASE loop' = [loop EXCEPT !.pc = "user"]
      <4>1. loop'.pc = "user" /\ loop'.cred = x
          BY <1>1, <3>6 DEF TypeOK, Request
      <4> QED BY <2>1, <2>2, <2>3, <3>3, <3>4, <4>1 DEF Hold
    <3> QED BY <3>1, <3>5, <3>6
  <2>4. CASE ~(codes[x].state = "live" /\ codes[x].client = loop.client)
    <3>1. loop' = Idle /\ UNCHANGED codes
        BY <1>10, <2>4 DEF CodeConsume
    <3> QED BY <2>2, <3>1, HoldStill
  <2> QED BY <2>3, <2>4
<1>11. CASE RefreshRead
  <2> DEFINE t == loop.cred
  <2>1. t \in Tokens /\ tokens[t].family /= Null
      BY <1>1, <1>11 DEF RefreshRead, Proper, Asked
  <2>2. tokens' = tokens \/ tokens' = Revoked({t}) \/ tokens' = FamilyRevoked(t)
      BY <1>11 DEF RefreshRead
  <2>3. Fade
      BY <1>1, <2>1, <2>2, FadeUnchanged, FadeRevoked, FadeFamily
  <2>4. UNCHANGED codes /\ loop.pc = "refresh"
        /\ (loop' = Idle \/ loop' = [loop EXCEPT !.pc = "claim"])
      BY <1>11 DEF RefreshRead
  <2>5. CASE loop' = Idle
      BY <2>3, <2>4, <2>5, HoldStill
  <2>6. CASE loop' = [loop EXCEPT !.pc = "claim"]
    <3>1. loop'.pc = "claim" /\ loop'.cred = t
        BY <1>1, <2>6 DEF TypeOK, Request
    <3> QED BY <2>3, <2>4, <3>1 DEF Hold, Holding
  <2> QED BY <2>4, <2>5, <2>6
<1>12. CASE RefreshClaim
  <2> DEFINE t == loop.cred
  <2>1. t \in Tokens /\ tokens[t].family /= Null
      BY <1>1, <1>12 DEF RefreshClaim, Proper, Asked
  <2>2. UNCHANGED codes /\ loop.pc = "claim"
      BY <1>12 DEF RefreshClaim
  <2>3. CASE Live(t)
    <3>1. tokens' = Revoked({t})
          /\ (loop' = Idle \/ loop' = [loop EXCEPT !.pc = "user"])
        BY <1>12, <2>3 DEF RefreshClaim, Claimable, Claimed
    <3>2. Fade
        BY <1>1, <3>1, FadeRevoked
    <3>3. tokens'[t] = [tokens[t] EXCEPT !.revoked = TRUE]
        BY <2>1, <2>3, <3>1 DEF Revoked, Live
    <3>4. tokens'[t].revoked
        BY <1>1, <2>1, <3>3 DEF TypeOK, Token
    <3>5. CASE loop' = Idle
        BY <2>2, <3>2, <3>5, HoldStill
    <3>6. CASE loop' = [loop EXCEPT !.pc = "user"]
      <4>1. loop'.pc = "user" /\ loop'.cred = t
          BY <1>1, <3>6 DEF TypeOK, Request
      <4> QED BY <2>1, <2>2, <2>3, <3>2, <3>4, <4>1 DEF Hold, Live
    <3> QED BY <3>1, <3>5, <3>6
  <2>4. CASE ~Live(t)
    <3>1. tokens' = FamilyRevoked(t) /\ loop' = Idle
        BY <1>12, <2>4 DEF RefreshClaim, Claimable
    <3>2. Fade
        BY <1>1, <2>1, <3>1, FadeFamily
    <3> QED BY <2>2, <3>1, <3>2, HoldStill
  <2> QED BY <2>3, <2>4
<1>13. CASE FindUser
  <2>1. loop.pc = "user" /\ UNCHANGED <<codes, tokens>>
        /\ (loop' = Idle \/ loop' = [loop EXCEPT !.pc = "save"])
      BY <1>13 DEF FindUser
  <2>2. Fade
      BY <2>1, FadeUnchanged
  <2>3. CASE loop' = Idle
      BY <2>1, <2>2, <2>3, HoldStill
  <2>4. CASE loop' = [loop EXCEPT !.pc = "save"]
    <3>1. loop'.pc = "save" /\ loop'.cred = loop.cred
        BY <1>1, <2>4 DEF TypeOK, Request
    <3> QED BY <2>1, <2>2, <3>1 DEF Hold, Holding
  <2> QED BY <2>1, <2>3, <2>4
<1>14. CASE SaveToken
  <2>1. loop.pc = "save" /\ loop' = Idle /\ UNCHANGED codes
      BY <1>14 DEF SaveToken
  <2>2. Hold
      BY <2>1, HoldStill
  <2>3. CASE UNCHANGED tokens
      BY <2>2, <2>3, FadeUnchanged
  <2>4. CASE ~UNCHANGED tokens
    <3>1. Store
        BY <1>14, <2>1, <2>4 DEF SaveToken, Store
    <3> QED BY <2>2, <3>1
  <2> QED BY <2>3, <2>4
<1>15. ASSUME NEW a \in Admins, ToggleWrite(a)
       PROVE  Fade /\ Hold
    BY <1>1, <1>15, FadeUnchanged, FadeRevoked, HoldStill DEF ToggleWrite
<1>16. ASSUME NEW a \in Admins, NEW c \in Clients, ToggleRead(a, c)
       PROVE  Fade /\ Hold
    BY <1>16, FadeUnchanged, HoldStill DEF ToggleRead
<1>17. ASSUME NEW c \in Clients, RevokeTokens(c)
       PROVE  Fade /\ Hold
    BY <1>1, <1>17, FadeRevoked, HoldStill DEF RevokeTokens
<1>18. ASSUME NEW D \in SUBSET Declarative, NEW P \in [D -> SUBSET Resources], Restart(D, P)
       PROVE  Fade /\ Hold
    BY <1>1, <1>18, FadeRevoked, HoldStill DEF Restart
<1>19. CASE Tick
    BY <1>19, FadeUnchanged, HoldStill DEF Tick
<1> QED BY <1>2, <1>3, <1>4, <1>5, <1>6, <1>7, <1>8, <1>9, <1>10, <1>11, <1>12,
           <1>13, <1>14, <1>15, <1>16, <1>17, <1>18, <1>19 DEF Next
-----------------------------------------------------------------------------
(* The invariant is kept *)

\* What a stored row is: its key was unused, it is live, it belongs to the
\* credential the request held.
LEMMA Stores ==
    ASSUME IType, Store
    PROVE  \E t \in Tokens :
             /\ tokens[t].state = "unissued"
             /\ tokens'[t].parent = loop.cred /\ tokens'[t].family = Family(t, loop.cred)
             /\ tokens'[t].state = "live" /\ ~tokens'[t].compromised
             /\ \A s \in Tokens : s /= t => tokens'[s] = tokens[s]
<1>1. PICK t \in Tokens : /\ tokens[t].state = "unissued"
                          /\ tokens' = [tokens EXCEPT ![t] = Issued(t, loop.cred)]
    BY DEF Store
<1>2. tokens'[t] = Issued(t, loop.cred) /\ \A s \in Tokens : s /= t => tokens'[s] = tokens[s]
    BY <1>1 DEF IType, TypeOK
<1> QED BY <1>1, <1>2 DEF Issued

\* A refresh token is issued before it is presented.
LEMMA AskedKept ==
    ASSUME IToken, IType', Fade \/ Store, Hold
    PROVE  Asked'
<1>1. CASE Store
    BY <1>1 DEF Store, Asked, Idle
<1>2. CASE Fade
  <2> SUFFICES ASSUME loop'.pc \in {"refresh", "claim"}
               PROVE  tokens'[loop'.cred].state /= "unissued" /\ tokens'[loop'.cred].family /= Null
      BY DEF Asked
  <2>1. loop'.cred \in Tokens
      BY DEF IType, Proper
  <2>2. tokens[loop'.cred].state /= "unissued" /\ tokens[loop'.cred].family /= Null
      BY DEF Hold, IToken, Asked
  <2> QED BY <1>2, <2>1, <2>2 DEF Fade
<1> QED BY <1>1, <1>2

\* Nothing is issued twice for one credential.
LEMMA SingleKept ==
    ASSUME IToken, Fade \/ Store, Hold
    PROVE  Single'
<1>1. CASE Fade
  <2>1. ASSUME NEW y, Unspent(y)
        PROVE  \A s \in Tokens : tokens'[s].parent /= y
      BY <1>1, <2>1 DEF Fade, Unspent
  <2>2. OneIssuePerCredential'
      BY <1>1 DEF Fade, OneIssuePerCredential, IToken, Single
  <2>3. \A x \in Codes : codes'[x].state /= "gone" => \A s \in Tokens : tokens'[s].parent /= x
      BY <2>1 DEF Hold, IToken, Single
  <2>4. \A t \in Tokens : tokens'[t].state = "unissued" \/ Live(t)' =>
            \A s \in Tokens : tokens'[s].parent /= t
      BY <1>1, <2>1 DEF Fade, IToken, Single
  <2>5. Holding' => /\ \A s \in Tokens : tokens'[s].parent /= loop'.cred
                    /\ loop'.cred \in Codes => codes'[loop'.cred].state = "gone"
                    /\ loop'.cred \in Tokens =>
                          tokens'[loop'.cred].state /= "unissued" /\ ~Live(loop.cred)'
    <3> SUFFICES ASSUME Holding'
                 PROVE  /\ \A s \in Tokens : tokens'[s].parent /= loop'.cred
                        /\ loop'.cred \in Codes => codes'[loop'.cred].state = "gone"
                        /\ loop'.cred \in Tokens =>
                              tokens'[loop'.cred].state /= "unissued" /\ ~Live(loop.cred)'
        OBVIOUS
    <3>1. CASE Holding /\ loop'.cred = loop.cred
      <4>1. Unspent(loop.cred)
          BY <3>1 DEF IToken, Single
      <4>2. \A s \in Tokens : tokens'[s].parent /= loop'.cred
          BY <2>1, <3>1, <4>1
      <4>3. loop'.cred \in Codes => codes'[loop'.cred].state = "gone"
          BY <3>1 DEF IToken, Single, Hold
      <4>4. ASSUME loop'.cred \in Tokens
            PROVE  tokens'[loop'.cred].state /= "unissued" /\ ~Live(loop.cred)'
          BY <1>1, <3>1, <4>4 DEF IToken, Single, Fade, Live, Stored
      <4> QED BY <4>2, <4>3, <4>4
    <3>2. CASE /\ loop'.cred \in Codes
               /\ codes[loop'.cred].state = "live" /\ codes'[loop'.cred].state = "gone"
      <4>1. Unspent(loop'.cred)
          BY <3>2 DEF IToken, Single
      <4>2. loop'.cred \notin Tokens
          BY <3>2, IdsAssumption
      <4> QED BY <2>1, <3>2, <4>1, <4>2
    <3>3. CASE /\ loop'.cred \in Tokens /\ loop.pc = "claim" /\ loop'.cred = loop.cred
               /\ Live(loop.cred) /\ ~Live(loop.cred)'
      <4>1. Unspent(loop'.cred)
          BY <3>3 DEF IToken, Single
      <4>2. loop'.cred \notin Codes
          BY <3>3, IdsAssumption
      <4>3. tokens'[loop'.cred].state /= "unissued"
          BY <1>1, <3>3 DEF Fade, Live, Stored
      <4> QED BY <2>1, <3>3, <4>1, <4>2, <4>3
    <3> QED BY <3>1, <3>2, <3>3 DEF Hold
  <2> QED BY <2>2, <2>3, <2>4, <2>5 DEF Single, Unspent, Live, Stored
<1>2. CASE Store
  <2>1. PICK t \in Tokens :
             /\ tokens[t].state = "unissued"
             /\ tokens'[t].parent = loop.cred /\ tokens'[t].family = Family(t, loop.cred)
             /\ tokens'[t].state = "live" /\ ~tokens'[t].compromised
             /\ \A s \in Tokens : s /= t => tokens'[s] = tokens[s]
      BY <1>2, Stores DEF IToken
  <2>2. loop.pc = "save" /\ loop' = Idle /\ UNCHANGED codes
      BY <1>2 DEF Store
  <2>3. loop.cred /= Null => Holding /\ Unspent(loop.cred)
      BY <2>2 DEF Holding, IToken, Single
  <2>4. OneIssuePerCredential'
    <3>1. ASSUME NEW r \in Tokens, NEW s \in Tokens,
                 tokens'[r].parent = tokens'[s].parent, tokens'[r].parent /= Null
          PROVE  r = s
      <4>1. CASE r /= t /\ s /= t
          BY <2>1, <3>1, <4>1 DEF IToken, Single, OneIssuePerCredential
      <4>2. CASE r = t \/ s = t
          BY <2>1, <2>3, <3>1, <4>2 DEF Unspent
      <4> QED BY <4>1, <4>2
    <3> QED BY <3>1 DEF OneIssuePerCredential
  <2>5. ASSUME NEW y, Unspent(y), y /= loop.cred
        PROVE  \A s \in Tokens : tokens'[s].parent /= y
      BY <2>1, <2>5 DEF Unspent
  <2>6. ASSUME NEW x \in Codes, codes'[x].state /= "gone"
        PROVE  \A s \in Tokens : tokens'[s].parent /= x
    <3>1. x /= loop.cred
        BY <2>2, <2>3, <2>6, IdsAssumption DEF IToken, Single
    <3> QED BY <2>2, <2>5, <2>6, <3>1 DEF IToken, Single
  <2>7. ASSUME NEW u \in Tokens, tokens'[u].state = "unissued" \/ Live(u)'
        PROVE  \A s \in Tokens : tokens'[s].parent /= u
    <3>1. tokens[u].state = "unissued" \/ Live(u)
        BY <2>1, <2>7 DEF Live, Stored
    <3>2. u /= loop.cred
        BY <2>3, <3>1, IdsAssumption DEF IToken, Single
    <3> QED BY <2>5, <3>1, <3>2 DEF IToken, Single
  <2>8. ~Holding'
      BY <2>2 DEF Holding, Idle
  <2> QED BY <2>4, <2>6, <2>7, <2>8 DEF Single, Unspent
<1> QED BY <1>1, <1>2

\* No family has two live rows, or one live and one held.
LEMMA FamilialKept ==
    ASSUME IToken, Fade \/ Store, Hold
    PROVE  Familial'
<1>1. CASE Fade
  <2>1. FamilyOneLive'
      BY <1>1 DEF Fade, FamilyOneLive, IToken, Familial
  <2>2. \A s, t \in Tokens : tokens'[t].state = "unissued" => tokens'[s].family /= t
      BY <1>1 DEF Fade, IToken, Familial
  <2>3. ASSUME Holding', loop'.cred \in Tokens
        PROVE  /\ tokens'[loop'.cred].family /= Null
               /\ \A s \in Tokens : tokens'[s].family = tokens'[loop'.cred].family => ~Live(s)'
    <3>1. loop'.cred \notin Codes
        BY <2>3, IdsAssumption
    <3>2. CASE Holding /\ loop'.cred = loop.cred
        BY <1>1, <2>3, <3>2 DEF Fade, IToken, Familial
    <3>3. CASE /\ loop.pc = "claim" /\ loop'.cred = loop.cred
               /\ Live(loop.cred) /\ ~Live(loop.cred)'
      <4>1. tokens[loop.cred].family /= Null
          BY <3>3 DEF IToken, Asked
      <4>2. ASSUME NEW s \in Tokens, tokens[s].family = tokens[loop.cred].family
            PROVE  ~Live(s)'
        <5>1. CASE s = loop.cred
            BY <3>3, <5>1 DEF Live, Stored
        <5>2. CASE s /= loop.cred
            BY <1>1, <2>3, <3>3, <4>1, <4>2, <5>2 DEF Fade, IToken, Familial, FamilyOneLive
        <5> QED BY <5>1, <5>2
      <4> QED BY <1>1, <2>3, <3>3, <4>1, <4>2 DEF Fade
    <3> QED BY <2>3, <3>1, <3>2, <3>3 DEF Hold
  <2> QED BY <2>1, <2>2, <2>3 DEF Familial
<1>2. CASE Store
  <2>1. PICK t \in Tokens :
             /\ tokens[t].state = "unissued"
             /\ tokens'[t].parent = loop.cred /\ tokens'[t].family = Family(t, loop.cred)
             /\ tokens'[t].state = "live" /\ ~tokens'[t].compromised
             /\ \A s \in Tokens : s /= t => tokens'[s] = tokens[s]
      BY <1>2, Stores DEF IToken
  <2>2. loop.pc = "save" /\ loop' = Idle
      BY <1>2 DEF Store
  <2>3. ASSUME NEW s \in Tokens, s /= t, Live(s), tokens[s].family = Family(t, loop.cred)
        PROVE  tokens[s].family = Null
    <3>1. CASE loop.cred \in Tokens
      <4>1. Holding
          BY <2>2, <3>1, IdsAssumption DEF Holding
      <4> QED BY <2>3, <3>1, <4>1 DEF Family, IToken, Familial
    <3>2. CASE loop.cred \notin Tokens
        BY <2>1, <2>3, <3>2 DEF Family, IToken, Familial
    <3> QED BY <3>1, <3>2
  <2>4. FamilyOneLive'
    <3>1. ASSUME NEW r \in Tokens, NEW s \in Tokens, Live(r)', Live(s)',
                 tokens'[r].family = tokens'[s].family, tokens'[r].family /= Null
          PROVE  r = s
      <4>1. \A u \in Tokens : u /= t /\ Live(u)' => Live(u)
          BY <2>1 DEF Live, Stored
      <4>2. CASE r /= t /\ s /= t
          BY <2>1, <3>1, <4>1, <4>2 DEF IToken, Familial, FamilyOneLive
      <4>3. CASE r = t
          BY <2>1, <2>3, <3>1, <4>1, <4>3
      <4>4. CASE s = t
          BY <2>1, <2>3, <3>1, <4>1, <4>4
      <4> QED BY <4>2, <4>3, <4>4
    <3> QED BY <3>1 DEF FamilyOneLive
  <2>5. ASSUME NEW s \in Tokens, NEW u \in Tokens, tokens'[u].state = "unissued"
        PROVE  tokens'[s].family /= u
    <3>1. u /= t /\ tokens[u].state = "unissued"
        BY <2>1, <2>5
    <3>2. CASE s /= t
        BY <2>1, <3>1, <3>2 DEF IToken, Familial
    <3>3. CASE s = t
        BY <2>1, <3>1, <3>3, IdsAssumption DEF Family, IToken, Familial
    <3> QED BY <3>2, <3>3
  <2>6. ~Holding'
      BY <2>2 DEF Holding, Idle
  <2> QED BY <2>4, <2>5, <2>6 DEF Familial
<1> QED BY <1>1, <1>2

\* No live row joins a compromised family.
LEMMA CompromisingKept ==
    ASSUME IToken, Fade \/ Store
    PROVE  Compromising'
<1> SUFFICES ASSUME NEW s \in Tokens, NEW u \in Tokens, Stored(s)', tokens'[s].compromised
             PROVE  /\ tokens'[s].family /= Null
                    /\ tokens'[u].family = tokens'[s].family => ~Live(u)'
    BY DEF Compromising
<1>1. CASE Fade
    BY <1>1 DEF Fade, IToken, Compromising
<1>2. CASE Store
  <2>1. PICK t \in Tokens :
             /\ tokens[t].state = "unissued"
             /\ tokens'[t].parent = loop.cred /\ tokens'[t].family = Family(t, loop.cred)
             /\ tokens'[t].state = "live" /\ ~tokens'[t].compromised
             /\ \A r \in Tokens : r /= t => tokens'[r] = tokens[r]
      BY <1>2, Stores DEF IToken
  <2>2. s /= t /\ tokens'[s] = tokens[s] /\ Stored(s) /\ tokens[s].compromised
      BY <2>1 DEF Stored
  <2>3. tokens[s].family /= Null
      BY <2>2 DEF IToken, Compromising
  <2>4. CASE u = t
    <3>1. CASE loop.cred \in Tokens
      <4>1. tokens[s].family /= tokens[loop.cred].family
          BY <1>2, <2>2, <3>1 DEF Store
      <4>2. tokens'[u].family = tokens[loop.cred].family
          BY <2>1, <2>4, <3>1 DEF Family
      <4> QED BY <2>2, <2>3, <4>1, <4>2
    <3>2. CASE loop.cred \notin Tokens
        BY <2>1, <2>2, <2>3, <2>4, <3>2 DEF Family, IToken, Familial
    <3> QED BY <2>2, <2>3, <3>1, <3>2
  <2>5. CASE u /= t
      BY <2>1, <2>2, <2>3, <2>5 DEF IToken, Compromising, Live, Stored
  <2> QED BY <2>4, <2>5
<1> QED BY <1>1, <1>2

\* The inductive invariant holds, in every reachable state.
THEOREM Inductive == Spec => []IToken
<1>1. Init => IToken
  <2> SUFFICES ASSUME Init PROVE IToken
      OBVIOUS
  <2>1. IType
      BY InitType
  <2>2. \A t \in Tokens : tokens[t] = NoToken
      BY DEF Init
  <2>3. \A t \in Tokens : /\ tokens[t].parent = Null /\ tokens[t].family = Null
                          /\ ~Stored(t) /\ ~Live(t)
      BY <2>2 DEF NoToken, Stored, Live
  <2>4. loop.pc = "idle"
      BY DEF Init, Idle
  <2>5. Asked /\ ~Holding
      BY <2>4 DEF Asked, Holding
  <2>6. \A y \in Codes \union Tokens : Unspent(y)
      BY <2>3, IdsAssumption DEF Unspent
  <2>7. Single
      BY <2>3, <2>5, <2>6 DEF Single, OneIssuePerCredential
  <2>8. Familial
      BY <2>3, <2>5, IdsAssumption DEF Familial, FamilyOneLive
  <2>9. Compromising
      BY <2>3 DEF Compromising
  <2> QED BY <2>1, <2>5, <2>7, <2>8, <2>9 DEF IToken
<1>2. IToken /\ [Next]_vars => IToken'
  <2> SUFFICES ASSUME IToken, [Next]_vars PROVE IToken'
      OBVIOUS
  <2>1. IType'
      BY NextType DEF IToken
  <2>2. (Fade \/ Store) /\ Hold
      BY Shape DEF IToken
  <2>3. Asked'
      BY <2>1, <2>2, AskedKept
  <2>4. Single' /\ Familial' /\ Compromising'
      BY <2>2, SingleKept, FamilialKept, CompromisingKept
  <2> QED BY <2>1, <2>3, <2>4 DEF IToken
<1> QED BY <1>1, <1>2, PTL DEF Spec

\* A code or refresh token is exchanged once at most, whoever presents it again,
\* whatever the administrator revokes meanwhile and wherever the process stops.
THEOREM SingleIssue == Spec => []OneIssuePerCredential
<1>1. IToken => OneIssuePerCredential
    BY DEF IToken, Single
<1> QED BY <1>1, Inductive, PTL

\* Rotation leaves one usable member in a refresh family.
THEOREM RotationReplaces == Spec => []FamilyOneLive
<1>1. IToken => FamilyOneLive
    BY DEF IToken, Familial
<1> QED BY <1>1, Inductive, PTL

\* A family in which reuse was detected is dead for good.
THEOREM ReuseIsFinal == Spec => []CompromisedFamilyDead
<1>1. IToken => CompromisedFamilyDead
    BY DEF IToken, Compromising, CompromisedFamilyDead, Active
<1> QED BY <1>1, Inductive, PTL

-----------------------------------------------------------------------------
(* What the policy allows                                                  *)

\* Client c may be given a token for audience r.
Fits(c, r) == IF r = Null THEN clients[c].allowed = {} ELSE r \in clients[c].allowed

\* The client of a request is registered, and what a credential that passed the checks
\* is bound to still fits its client's policy.
Policied ==
    /\ loop.pc /= "idle" => loop.client \in Clients /\ clients[loop.client].known
    /\ loop.pc \in {"claim", "user", "save"} => Fits(loop.client, Audience(loop.cred))

\* The columns that decide: a registered client keeps its policy, and a row what it is
\* bound to.
Columns ==
    /\ \A c \in Clients : clients[c].known =>
          clients'[c].known /\ clients'[c].allowed = clients[c].allowed
    /\ \A x \in Codes : codes'[x].resource = codes[x].resource
    /\ \A t \in Tokens : tokens'[t].audience = tokens[t].audience

\* The request is answered, or goes on with what it has, past a check that the credential
\* fits if this is the step that makes it.
GoesOn ==
    \/ loop' = Idle
    \/ /\ loop.pc /= "idle" /\ loop' = [loop EXCEPT !.pc = loop'.pc]
       /\ loop'.pc \in {"claim", "user", "save"} =>
             \/ loop.pc \in {"claim", "user", "save"}
             \/ Fits(loop.client, Audience(loop.cred))

\* Revoking rows changes what none of them is for.
LEMMA RevokedAudience ==
    ASSUME TypeOK, NEW S, NEW t, tokens' = Revoked(S) \/ tokens' = FamilyRevoked(t)
    PROVE  \A s \in Tokens : tokens'[s].audience = tokens[s].audience
<1>1. ASSUME NEW s \in Tokens
      PROVE  tokens'[s].audience = tokens[s].audience
  <2>1. \/ tokens'[s] = tokens[s] \/ tokens'[s] = [tokens[s] EXCEPT !.revoked = TRUE]
        \/ tokens'[s] = [tokens[s] EXCEPT !.revoked = TRUE, !.compromised = TRUE]
      BY <1>1 DEF Revoked, FamilyRevoked
  <2> QED BY <1>1, <2>1 DEF TypeOK, Token
<1> QED BY <1>1

\* A step that leaves the columns and the request alone leaves the policy kept; so does
\* one that lets the request go on or ends it.
LEMMA PolicyCarried ==
    ASSUME IType, Policied, Columns, loop' = loop \/ GoesOn
    PROVE  Policied'
<1>1. CASE loop' = Idle
    BY <1>1 DEF Policied, Idle
<1>2. CASE loop' /= Idle
  <2>1. /\ loop'.client = loop.client /\ loop'.cred = loop.cred
        /\ loop'.resource = loop.resource
        /\ loop.pc = "idle" => loop'.pc = "idle"
        /\ loop'.pc \in {"claim", "user", "save"} =>
              \/ loop.pc \in {"claim", "user", "save"}
              \/ Fits(loop.client, Audience(loop.cred))
      BY <1>2 DEF GoesOn, IType, TypeOK, Request
  <2>2. SUFFICES ASSUME loop'.pc /= "idle"
                 PROVE  /\ loop'.client \in Clients /\ clients'[loop'.client].known
                        /\ loop'.pc \in {"claim", "user", "save"} =>
                              Fits(loop.client, Audience(loop.cred))'
      BY <2>1 DEF Policied
  <2>3. loop.client \in Clients /\ clients[loop.client].known
      BY <2>1, <2>2 DEF Policied
  <2>4. /\ clients'[loop.client].known
        /\ clients'[loop.client].allowed = clients[loop.client].allowed
      BY <2>3 DEF Columns
  <2>5. Audience(loop.cred)' = Audience(loop.cred)
      BY <2>1 DEF Audience, Columns
  <2>6. loop'.pc \in {"claim", "user", "save"} => Fits(loop.client, Audience(loop.cred))
      BY <2>1 DEF Policied
  <2> QED BY <2>1, <2>3, <2>4, <2>5, <2>6 DEF Fits
<1> QED BY <1>1, <1>2

\* A request starts with a client that is registered; one that goes straight to the
\* storing of its token has been checked.
LEMMA PolicyAtStart ==
    ASSUME IType, NEW c \in Clients, NEW p \in {"code", "refresh", "save"}, NEW x, NEW r,
           TokenRequest(c, p, x, r),
           p = "save" => x = Null /\ RequestedResourceOk(c, r)
    PROVE  Policied'
<1>1. loop' = [pc |-> p, client |-> c, cred |-> x, resource |-> r]
      /\ UNCHANGED <<clients, codes, tokens>> /\ clients[c].known
    BY DEF TokenRequest, Enabled
<1>2. p = "save" => Audience(loop.cred)' = r
    BY <1>1, IdsAssumption DEF Audience
<1> QED BY <1>1, <1>2 DEF Policied, Fits, RequestedResourceOk

\* Only the checks of the two grants let a credential pass, a registration is of a client
\* that no request can have, and a new policy comes with a new process.
LEMMA PolicyKept ==
    ASSUME IType, Policied, [Next]_vars
    PROVE  Policied'
<1>1. TypeOK /\ Proper
    BY DEF IType
<1>2. CASE UNCHANGED vars
    BY <1>2, PolicyCarried DEF vars, Columns
<1>3. ASSUME NEW c \in Clients, NEW r \in Resources, RegisterClient(c, r)
      PROVE  Policied'
  <2>1. \A d \in Clients : clients[d].known => clients'[d] = clients[d]
      BY <1>1, <1>3 DEF RegisterClient, TypeOK
  <2> QED BY <1>3, <2>1, PolicyCarried DEF RegisterClient, Columns
<1>4. ASSUME NEW u \in Users, ConsentStart(u) \/ ToggleUser(u)
      PROVE  Policied'
    BY <1>4, PolicyCarried DEF ConsentStart, ToggleUser, Columns
<1>5. ASSUME NEW u \in Users, DeleteUser(u)
      PROVE  Policied'
  <2>1. \A x \in Codes : codes'[x] = codes[x] \/ codes'[x] = [codes[x] EXCEPT !.state = "gone"]
      BY <1>5 DEF DeleteUser
  <2>2. \A t \in Tokens :
          tokens'[t] = tokens[t] \/ tokens'[t] = [tokens[t] EXCEPT !.state = "gone"]
      BY <1>5 DEF DeleteUser
  <2>3. ASSUME NEW x \in Codes
        PROVE  codes'[x].resource = codes[x].resource
    <3>1. codes[x] \in Code
        BY <1>1, <2>3 DEF TypeOK
    <3> QED BY <2>1, <2>3, <3>1 DEF Code
  <2>4. ASSUME NEW t \in Tokens
        PROVE  tokens'[t].audience = tokens[t].audience
    <3>1. tokens[t] \in Token
        BY <1>1, <2>4 DEF TypeOK
    <3> QED BY <2>2, <2>4, <3>1 DEF Token
  <2> QED BY <1>5, <2>3, <2>4, PolicyCarried DEF DeleteUser, Columns
<1>6. ASSUME NEW c \in Clients, NEW x \in Codes, NEW r \in Resource, ConsentGive(c, x, r)
      PROVE  Policied'
    BY <1>6 DEF ConsentGive, Policied, Idle
<1>7. ASSUME NEW c \in Clients, NEW x \in Codes, NEW r \in Resource, CodeRequest(c, x, r)
      PROVE  Policied'
    BY <1>7, PolicyAtStart DEF CodeRequest
<1>8. ASSUME NEW c \in Clients, NEW t \in Tokens, NEW r \in Resource, RefreshRequest(c, t, r)
      PROVE  Policied'
    BY <1>8, PolicyAtStart DEF RefreshRequest
<1>9. ASSUME NEW c \in Clients, NEW r \in Resource, ServiceRequest(c, r)
      PROVE  Policied'
    BY <1>9, PolicyAtStart DEF ServiceRequest
<1>10. CASE CodeConsume
  <2> DEFINE x == loop.cred
  <2>1. x \in Codes /\ x \notin Tokens
      BY <1>1, <1>10, IdsAssumption DEF CodeConsume, Proper
  <2>2. codes' = codes \/ codes' = [codes EXCEPT ![x] = CodeTaken(x)]
      BY <1>10 DEF CodeConsume
  <2>3. CodeTaken(x).resource = codes[x].resource
      BY <1>1, <2>1 DEF CodeTaken, TypeOK, Code
  <2>4. \A y \in Codes : codes'[y].resource = codes[y].resource
      BY <1>1, <2>1, <2>2, <2>3 DEF TypeOK
  <2>5. Columns
      BY <1>10, <2>4 DEF CodeConsume, Columns
  <2>6. \/ loop' = Idle
        \/ /\ loop' = [loop EXCEPT !.pc = "user"]
           /\ BoundResourceOk(loop.client, codes[x].resource, loop.resource)
      BY <1>10 DEF CodeConsume
  <2>7. BoundResourceOk(loop.client, codes[x].resource, loop.resource) =>
            Fits(loop.client, Audience(x))
      BY <2>1 DEF BoundResourceOk, Fits, Audience
  <2>8. loop' = [loop EXCEPT !.pc = "user"] => loop'.pc = "user"
      BY <1>1 DEF TypeOK, Request
  <2>9. GoesOn
      BY <1>10, <2>6, <2>7, <2>8 DEF GoesOn, CodeConsume
  <2> QED BY <2>5, <2>9, PolicyCarried
<1>11. CASE RefreshRead
  <2> DEFINE t == loop.cred
  <2>1. t \in Tokens
      BY <1>1, <1>11 DEF RefreshRead, Proper
  <2>2. tokens' = tokens \/ tokens' = Revoked({t}) \/ tokens' = FamilyRevoked(t)
      BY <1>11 DEF RefreshRead
  <2>3. \A s \in Tokens : tokens'[s].audience = tokens[s].audience
      BY <1>1, <2>2, RevokedAudience
  <2>4. Columns
      BY <1>11, <2>3 DEF RefreshRead, Columns
  <2>5. \/ loop' = Idle
        \/ /\ loop' = [loop EXCEPT !.pc = "claim"]
           /\ BoundResourceOk(loop.client, tokens[t].audience, loop.resource)
      BY <1>11 DEF RefreshRead
  <2>6. BoundResourceOk(loop.client, tokens[t].audience, loop.resource) =>
            Fits(loop.client, Audience(t))
      BY <2>1 DEF BoundResourceOk, Fits, Audience
  <2>7. loop' = [loop EXCEPT !.pc = "claim"] => loop'.pc = "claim"
      BY <1>1 DEF TypeOK, Request
  <2>8. GoesOn
      BY <1>11, <2>5, <2>6, <2>7 DEF GoesOn, RefreshRead
  <2> QED BY <2>4, <2>8, PolicyCarried
<1>12. CASE RefreshClaim
  <2> DEFINE t == loop.cred
  <2>1. tokens' = Revoked({t}) \/ tokens' = FamilyRevoked(t)
      BY <1>12 DEF RefreshClaim, Claimed
  <2>2. \A s \in Tokens : tokens'[s].audience = tokens[s].audience
      BY <1>1, <2>1, RevokedAudience
  <2>3. Columns
      BY <1>12, <2>2 DEF RefreshClaim, Columns
  <2>4. loop' = Idle \/ loop' = [loop EXCEPT !.pc = "user"]
      BY <1>12 DEF RefreshClaim
  <2>5. loop' = [loop EXCEPT !.pc = "user"] => loop'.pc = "user"
      BY <1>1 DEF TypeOK, Request
  <2>6. GoesOn
      BY <1>12, <2>4, <2>5 DEF GoesOn, RefreshClaim
  <2> QED BY <2>3, <2>6, PolicyCarried
<1>13. CASE FindUser
  <2>1. loop.pc = "user" /\ UNCHANGED <<clients, codes, tokens>>
        /\ (loop' = Idle \/ loop' = [loop EXCEPT !.pc = "save"])
      BY <1>13 DEF FindUser
  <2>2. loop' = [loop EXCEPT !.pc = "save"] => loop'.pc = "save"
      BY <1>1 DEF TypeOK, Request
  <2>3. GoesOn
      BY <2>1, <2>2 DEF GoesOn
  <2> QED BY <2>1, <2>3, PolicyCarried DEF Columns
<1>14. CASE SaveToken
    BY <1>14 DEF SaveToken, Policied, Idle
<1>15. ASSUME NEW a \in Admins, ToggleWrite(a)
       PROVE  Policied'
  <2>1. \A c \in Clients : clients'[c].known = clients[c].known
                           /\ clients'[c].allowed = clients[c].allowed
      BY <1>1, <1>15 DEF ToggleWrite, TypeOK, Client
  <2>2. \A s \in Tokens : tokens'[s].audience = tokens[s].audience
      BY <1>1, <1>15, RevokedAudience DEF ToggleWrite
  <2> QED BY <1>15, <2>1, <2>2, PolicyCarried DEF ToggleWrite, Columns
<1>16. ASSUME NEW a \in Admins, NEW c \in Clients, ToggleRead(a, c)
       PROVE  Policied'
    BY <1>16, PolicyCarried DEF ToggleRead, Columns
<1>17. ASSUME NEW c \in Clients, RevokeTokens(c)
       PROVE  Policied'
  <2>1. \A s \in Tokens : tokens'[s].audience = tokens[s].audience
      BY <1>1, <1>17, RevokedAudience DEF RevokeTokens
  <2> QED BY <1>17, <2>1, PolicyCarried DEF RevokeTokens, Columns
<1>18. ASSUME NEW D \in SUBSET Declarative, NEW P \in [D -> SUBSET Resources], Restart(D, P)
       PROVE  Policied'
    BY <1>18 DEF Restart, Policied, Idle
<1>19. CASE Tick
    BY <1>19, PolicyCarried DEF Tick, Columns
<1> QED BY <1>2, <1>3, <1>4, <1>5, <1>6, <1>7, <1>8, <1>9, <1>10, <1>11, <1>12,
           <1>13, <1>14, <1>15, <1>16, <1>17, <1>18, <1>19 DEF Next

\* A token is stored for what its client's policy allows at that moment, although the
\* policy is looked at several transactions earlier and the consent may be older still.
THEOREM PolicyObeyed == Spec => IssuedWithinPolicy
<1>1. Init => Policied
    BY DEF Init, Policied, Idle
<1>2. IToken /\ Policied /\ [Next]_vars => Policied'
    BY PolicyKept DEF IToken
<1>3. ASSUME IToken, Policied, [Next]_vars, NEW t \in Tokens,
             tokens[t].state = "unissued", tokens'[t].state = "live"
      PROVE  LET allowed == clients[tokens'[t].client].allowed
             IN  IF tokens'[t].audience = Null THEN allowed = {}
                                               ELSE tokens'[t].audience \in allowed
  <2>1. Store
      BY <1>3, Shape DEF IToken, Fade
  <2>2. PICK s \in Tokens : tokens' = [tokens EXCEPT ![s] = Issued(s, loop.cred)]
      BY <2>1 DEF Store
  <2>3. t = s /\ tokens'[t] = Issued(t, loop.cred)
      BY <1>3, <2>2 DEF IToken, IType, TypeOK
  <2>4. tokens'[t].client = loop.client /\ tokens'[t].audience = Audience(loop.cred)
      BY <2>3 DEF Issued
  <2>5. Fits(loop.client, Audience(loop.cred))
      BY <1>3, <2>1 DEF Policied, Store
  <2> QED BY <2>4, <2>5 DEF Fits
<1>4. IToken /\ Policied /\ [Next]_vars =>
        [\A t \in Tokens : tokens[t].state = "unissued" /\ tokens'[t].state = "live" =>
            LET allowed == clients[tokens'[t].client].allowed
            IN  IF tokens'[t].audience = Null THEN allowed = {}
                                              ELSE tokens'[t].audience \in allowed]_vars
    BY <1>3
<1> QED BY <1>1, <1>2, <1>4, Inductive, PTL DEF Spec, IssuedWithinPolicy
=============================================================================
