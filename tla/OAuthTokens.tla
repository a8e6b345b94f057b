---------------------------- MODULE OAuthTokens ----------------------------
(***************************************************************************)
(* The OAuth authorization server of app/oauth2.py and app/routes/oauth2.py *)
(* with the administrator's controls over it: consents become codes, codes *)
(* become tokens, refresh tokens rotate inside a family.                   *)
(*                                                                         *)
(* The token endpoint is a coroutine that awaits nothing once it has read  *)
(* its form, and there is one event loop: one token request at a time is   *)
(* between its first read and its answer, and loop is what it knows.  Each *)
(* of its transactions is a step, because the administration routes run in *)
(* threads beside it and the process may stop anywhere.  The consent       *)
(* endpoint awaits its form between looking the member up and storing the  *)
(* code, so a token request may run in between.                            *)
(*                                                                         *)
(* Left out: audit rows, nonces, scopes and client secrets.  Authlib's own *)
(* checks (redirect_uri, PKCE verifier, scope) are a free choice of        *)
(* refusing, at the place where Authlib makes them.                        *)
(***************************************************************************)
EXTENDS Integers, FiniteSets

CONSTANTS
    Clients,       \* client ids
    Declarative,   \* those that oauth2_clients.toml may declare
    Services,      \* those of kind "service"; the others are public
    Refreshing,    \* public ones whose grant_types include refresh_token
    Users,         \* user ids, none of which is used twice
    Codes,         \* authorization codes, each generated at most once
    Tokens,        \* oauth2_tokens rows, each inserted at most once
    Resources,     \* resource indicators
    Admins,        \* threads that run an administrator's toggle
    Null,          \* SQL NULL; of a resource, the empty string
    CodeLifetime,  \* CODE_LIFETIME, in clock ticks
    AccessLifetime,   \* access_token_lifetime, in clock ticks
    RefreshLifetime,  \* REFRESH_TOKEN_LIFETIME_SECONDS, in clock ticks
    MaxTime        \* bound: the last tick of the clock

ASSUME ClientsAssumption ==
    /\ Declarative \subseteq Clients
    /\ Services \subseteq Declarative     \* dynamic registration is public only
    /\ Refreshing \subseteq Clients \ Services

ASSUME IdsAssumption ==
    /\ Codes \intersect Tokens = {}
    /\ Null \notin Clients \union Users \union Codes \union Tokens \union Resources

ASSUME TimesAssumption ==
    /\ CodeLifetime \in Nat /\ AccessLifetime \in Nat /\ RefreshLifetime \in Nat
    /\ MaxTime \in Nat

VARIABLES
    now,       \* the clock
    clients,   \* the oauth2_clients table
    users,     \* the part of the users table that is read here
    codes,     \* oauth2_authorization_codes
    tokens,    \* oauth2_tokens
    loop,      \* the token request that holds the event loop
    consent,   \* the member whose consent form is being read
    toggling   \* what each administrator's toggle has read

vars == <<now, clients, users, codes, tokens, loop, consent, toggling>>

\* Rows that are gone keep their columns in the model, for the properties only.
RowStates == {"unissued", "live", "gone"}
Resource == Resources \union {Null}

Client == [known : BOOLEAN, enabled : BOOLEAN, allowed : SUBSET Resources]
User == [live : BOOLEAN, disabled : BOOLEAN]
Code == [state : RowStates, client : Clients \union {Null}, user : Users \union {Null},
         resource : Resource, expires : Nat]

\* family is the family's first token, or Null for a row without a refresh
\* token.  parent is history: the code or refresh token it was issued for.
Token == [state : RowStates, client : Clients \union {Null}, user : Users \union {Null},
          family : Tokens \union {Null}, parent : Codes \union Tokens \union {Null},
          audience : Resource, issued : Nat, revoked : BOOLEAN, compromised : BOOLEAN]
Request == [pc : {"idle", "code", "refresh", "claim", "user", "save"},
            client : Clients \union {Null}, cred : Codes \union Tokens \union {Null},
            resource : Resource]
Toggle == [client : Clients \union {Null}, enable : BOOLEAN]

NoCode == [state |-> "unissued", client |-> Null, user |-> Null, resource |-> Null,
           expires |-> 0]
NoToken == [state |-> "unissued", client |-> Null, user |-> Null, family |-> Null,
            parent |-> Null, audience |-> Null, issued |-> 0, revoked |-> FALSE,
            compromised |-> FALSE]
Idle == [pc |-> "idle", client |-> Null, cred |-> Null, resource |-> Null]
NoToggle == [client |-> Null, enable |-> FALSE]

TypeOK ==
    /\ now \in Nat
    /\ clients \in [Clients -> Client]
    /\ users \in [Users -> User]
    /\ codes \in [Codes -> Code]
    /\ tokens \in [Tokens -> Token]
    /\ loop \in Request
    /\ consent \in Users \union {Null}
    /\ toggling \in [Admins -> Toggle]

\* The declared clients were synchronised, some of them with a resource policy.
Init ==
    /\ now = 0
    /\ \E P \in [Clients -> SUBSET Resources] :
         clients = [c \in Clients |-> IF c \in Declarative
            THEN [known |-> TRUE, enabled |-> TRUE, allowed |-> P[c]]
            ELSE [known |-> FALSE, enabled |-> FALSE, allowed |-> {}]]
    /\ users = [u \in Users |-> [live |-> TRUE, disabled |-> FALSE]]
    /\ codes = [x \in Codes |-> NoCode]
    /\ tokens = [t \in Tokens |-> NoToken]
    /\ loop = Idle
    /\ consent = Null
    /\ toggling = [a \in Admins |-> NoToggle]

-----------------------------------------------------------------------------
(* The tables *)

Stored(t) == tokens[t].state = "live"
Live(t) == Stored(t) /\ ~tokens[t].revoked
Enabled(c) == clients[c].known /\ clients[c].enabled

\* Mutant: what an old grant is bound to is not looked up in today's policy.
BoundAsBefore(c, bound, requested) == requested = Null \/ requested = bound

\* validate_resource_request for the bound resource of a grant: it must still be
\* allowed, and a grant without one never acquires one.
BoundResourceOk(c, bound, requested) ==
    IF bound = Null THEN requested = Null /\ clients[c].allowed = {}
                    ELSE bound \in clients[c].allowed /\ requested \in {Null, bound}

\* The same function for an authorization request.
RequestedResourceOk(c, requested) ==
    IF requested = Null THEN clients[c].allowed = {} ELSE requested \in clients[c].allowed

\* UPDATE oauth2_tokens SET revoked, for the rows S.
Revoked(S) == [t \in Tokens |-> IF Stored(t) /\ t \in S
                                  THEN [tokens[t] EXCEPT !.revoked = TRUE] ELSE tokens[t]]
TokensOf(c) == {t \in Tokens : tokens[t].client = c}

\* Mutant: reuse revokes the presented token only.
OnlyRevoked(t) == [tokens EXCEPT ![t].revoked = TRUE, ![t].compromised = TRUE]

\* _revoke_refresh_token_family, given a row of the family.
FamilyRevoked(t) ==
    [s \in Tokens |->
        IF Stored(s) /\ tokens[s].family = tokens[t].family
          THEN [tokens[s] EXCEPT !.revoked = TRUE, !.compromised = TRUE] ELSE tokens[s]]

-----------------------------------------------------------------------------
(* Registration and consent *)

\* register_dynamic_client: a public client bound to one resource.
RegisterClient(c, r) ==
    /\ c \notin Declarative /\ ~clients[c].known
    /\ clients' = [clients EXCEPT ![c] = [known |-> TRUE, enabled |-> TRUE, allowed |-> {r}]]
    /\ UNCHANGED <<now, users, codes, tokens, loop, consent, toggling>>

\* POST /oauth/authorize finds a member signed in and waits for the form.
ConsentStart(u) ==
    /\ consent = Null
    /\ users[u].live /\ ~users[u].disabled
    /\ consent' = u
    /\ UNCHANGED <<now, clients, users, codes, tokens, loop, toggling>>

\* The form is validated and the code stored.  Disabling the client between the
\* two leaves the code in place, as disabling it after both does.  The foreign
\* key refuses a member that is gone; every other refusal stores nothing.
ConsentGive(c, x, r) ==
    /\ consent /= Null /\ loop = Idle
    /\ \/ /\ Enabled(c) /\ c \notin Services
          /\ RequestedResourceOk(c, r)
          /\ users[consent].live
          /\ codes[x].state = "unissued"
          /\ codes' = [codes EXCEPT ![x] = [state |-> "live", client |-> c, user |-> consent,
                                            resource |-> r, expires |-> now + CodeLifetime]]
       \/ UNCHANGED codes
    /\ consent' = Null
    /\ UNCHANGED <<now, clients, users, tokens, loop, toggling>>

-----------------------------------------------------------------------------
(* POST /oauth/token *)

\* The client is authenticated: its row is read, and must be enabled.
TokenRequest(c, pc, cred, r) ==
    /\ loop = Idle
    /\ Enabled(c)
    /\ loop' = [pc |-> pc, client |-> c, cred |-> cred, resource |-> r]
    /\ UNCHANGED <<now, clients, users, codes, tokens, consent, toggling>>

CodeRequest(c, x, r) ==
    c \notin Services /\ codes[x].state /= "unissued" /\ TokenRequest(c, "code", x, r)
RefreshRequest(c, t, r) ==
    /\ c \in Refreshing
    /\ tokens[t].state /= "unissued" /\ tokens[t].family /= Null
    /\ TokenRequest(c, "refresh", t, r)

\* A service has no credential to spend: after the checks it is saved.
ServiceRequest(c, r) ==
    /\ c \in Services
    /\ RequestedResourceOk(c, r)
    /\ TokenRequest(c, "save", Null, r)

\* Mutant: the code is looked up and left where it is.
CodeKept(x) == codes[x]

\* DELETE ... RETURNING takes the code out of the table.
CodeTaken(x) == [codes[x] EXCEPT !.state = "gone"]

\* query_authorization_code, then the checks on what it returned; each of them
\* refuses a code that is already consumed.
CodeConsume ==
    LET x == loop.cred IN
    /\ loop.pc = "code"
    /\ IF codes[x].state = "live" /\ codes[x].client = loop.client
         THEN /\ codes' = [codes EXCEPT ![x] = CodeTaken(x)]
              /\ \/ /\ codes[x].expires >= now
                    /\ codes[x].resource /= Null => loop.resource /= Null
                    /\ BoundResourceOk(loop.client, codes[x].resource, loop.resource)
                    /\ loop' = [loop EXCEPT !.pc = "user"]
                 \/ loop' = Idle
         ELSE /\ loop' = Idle
              /\ UNCHANGED codes
    /\ UNCHANGED <<now, clients, users, tokens, consent, toggling>>

\* The SELECT of authenticate_refresh_token and the branches that end it.  What
\* they write, an administrator's revocation in between would not change.
RefreshRead ==
    LET t == loop.cred IN
    /\ loop.pc = "refresh"
    /\ \/ /\ ~Stored(t)
          /\ loop' = Idle /\ UNCHANGED tokens
       \/ /\ Stored(t) /\ tokens[t].issued + RefreshLifetime <= now
          /\ loop' = Idle /\ tokens' = Revoked({t})
       \/ /\ Stored(t) /\ tokens[t].issued + RefreshLifetime > now
          /\ \/ /\ tokens[t].revoked
                /\ loop' = Idle /\ tokens' = FamilyRevoked(t)
             \/ /\ ~tokens[t].revoked
                /\ loop' = IF BoundResourceOk(loop.client, tokens[t].audience, loop.resource)
                             THEN [loop EXCEPT !.pc = "claim"] ELSE Idle
                /\ UNCHANGED tokens
    /\ UNCHANGED <<now, clients, users, codes, consent, toggling>>

\* Mutants: the UPDATE does not look at revoked again; revoking the old
\* credential is left to Authlib's hook after the issuance.
ClaimableAsRead(t) == Stored(t)
ClaimedLater(t) == tokens

\* What the conditional UPDATE asks of the row, and what it makes of it.
Claimable(t) == Live(t)
Claimed(t) == Revoked({t})

\* The conditional UPDATE: whoever finds the row revoked by now takes that for
\* reuse.  Only then does Authlib compare the client and the scope, so a refusal
\* here costs the credential.
RefreshClaim ==
    LET t == loop.cred IN
    /\ loop.pc = "claim"
    /\ IF Claimable(t)
         THEN /\ tokens' = Claimed(t)
              /\ \/ tokens[t].client = loop.client /\ loop' = [loop EXCEPT !.pc = "user"]
                 \/ loop' = Idle
         ELSE /\ tokens' = FamilyRevoked(t)
              /\ loop' = Idle
    /\ UNCHANGED <<now, clients, users, codes, consent, toggling>>

\* The member a credential was given by.
Giver(cred) == IF cred \in Codes THEN codes[cred].user ELSE tokens[cred].user

\* authenticate_user: only the refresh grant looks at is_disabled.
FindUser ==
    LET u == Giver(loop.cred) IN
    /\ loop.pc = "user"
    /\ loop' = IF users[u].live /\ (loop.cred \in Codes \/ ~users[u].disabled)
                 THEN [loop EXCEPT !.pc = "save"] ELSE Idle
    /\ UNCHANGED <<now, clients, users, codes, tokens, consent, toggling>>

\* Mutant: the row is given the client's policy for its audience.
AudienceOfClient(cred) == clients[loop.client].allowed

\* A grant keeps its audience; a service token gets the one it asked for.
Audience(cred) ==
    IF cred \in Tokens THEN tokens[cred].audience
    ELSE IF cred \in Codes THEN codes[cred].resource ELSE loop.resource

\* A refresh keeps the family; another public client that refreshes founds one.
Family(t, cred) ==
    IF cred \in Tokens THEN tokens[cred].family
    ELSE IF loop.client \in Refreshing THEN t ELSE Null

\* The row _save_token inserts.
Issued(t, cred) ==
    [state |-> "live", client |-> loop.client, parent |-> cred,
     user |-> IF cred = Null THEN Null ELSE Giver(cred),
     family |-> Family(t, cred),
     audience |-> Audience(cred),
     issued |-> now, revoked |-> FALSE, compromised |-> FALSE]

\* _save_token: nothing about the client or the member is checked again, but a
\* compromised family or a member that is gone (foreign key) refuse the row.
SaveToken ==
    LET cred == loop.cred IN
    /\ loop.pc = "save"
    /\ IF /\ cred \in Tokens => ~\E s \in Tokens : /\ Stored(s) /\ tokens[s].compromised
                                                   /\ tokens[s].family = tokens[cred].family
          /\ cred /= Null => users[Giver(cred)].live
         THEN \E t \in Tokens :
                /\ tokens[t].state = "unissued"
                /\ tokens' = [tokens EXCEPT ![t] = Issued(t, cred)]
         ELSE UNCHANGED tokens
    /\ loop' = Idle
    /\ UNCHANGED <<now, clients, users, codes, consent, toggling>>

-----------------------------------------------------------------------------
(* The administrator *)

\* toggle_client reads the row ...
ToggleRead(a, c) ==
    /\ toggling[a] = NoToggle
    /\ clients[c].known
    /\ toggling' = [toggling EXCEPT ![a] = [client |-> c, enable |-> ~clients[c].enabled]]
    /\ UNCHANGED <<now, clients, users, codes, tokens, loop, consent>>

\* ... and writes the opposite; disabling revokes all the client's tokens.
ToggleWrite(a) ==
    LET c == toggling[a].client IN
    /\ c /= Null
    /\ clients' = [clients EXCEPT ![c].enabled = toggling[a].enable]
    /\ tokens' = IF toggling[a].enable THEN tokens ELSE Revoked(TokensOf(c))
    /\ toggling' = [toggling EXCEPT ![a] = NoToggle]
    /\ UNCHANGED <<now, users, codes, loop, consent>>

RevokeTokens(c) ==
    /\ clients[c].known
    /\ tokens' = Revoked(TokensOf(c))
    /\ UNCHANGED <<now, clients, users, codes, loop, consent, toggling>>

ToggleUser(u) ==
    /\ users[u].live
    /\ users' = [users EXCEPT ![u].disabled = ~@]
    /\ UNCHANGED <<now, clients, codes, tokens, loop, consent, toggling>>

\* The member's codes and tokens go with it (ON DELETE CASCADE).
DeleteUser(u) ==
    /\ users[u].live
    /\ users' = [users EXCEPT ![u].live = FALSE]
    /\ codes' = [x \in Codes |-> IF codes[x].state = "live" /\ codes[x].user = u
                                   THEN [codes[x] EXCEPT !.state = "gone"] ELSE codes[x]]
    /\ tokens' = [t \in Tokens |-> IF Stored(t) /\ tokens[t].user = u
                                     THEN [tokens[t] EXCEPT !.state = "gone"] ELSE tokens[t]]
    /\ UNCHANGED <<now, clients, loop, consent, toggling>>

-----------------------------------------------------------------------------
(* The process *)

\* Requests and toggles in flight vanish.  sync_oauth2_clients then enables every
\* client the file declares (D), with the policy it gives it (P), and disables the
\* declarative ones it no longer does.
Restart(D, P) ==
    LET dropped == {c \in Declarative \ D : Enabled(c)} IN
    /\ clients' = [c \in Clients |->
            IF c \in D THEN [known |-> TRUE, enabled |-> TRUE, allowed |-> P[c]]
            ELSE IF c \in dropped THEN [clients[c] EXCEPT !.enabled = FALSE]
            ELSE clients[c]]
    /\ tokens' = Revoked(UNION {TokensOf(c) : c \in dropped})
    /\ loop' = Idle
    /\ consent' = Null
    /\ toggling' = [a \in Admins |-> NoToggle]
    /\ UNCHANGED <<now, users, codes>>

Tick ==
    /\ now < MaxTime
    /\ now' = now + 1
    /\ UNCHANGED <<clients, users, codes, tokens, loop, consent, toggling>>

Next ==
    \/ \E c \in Clients, r \in Resources : RegisterClient(c, r)
    \/ \E u \in Users : ConsentStart(u) \/ ToggleUser(u) \/ DeleteUser(u)
    \/ \E c \in Clients, x \in Codes, r \in Resource :
          ConsentGive(c, x, r) \/ CodeRequest(c, x, r)
    \/ \E c \in Clients, t \in Tokens, r \in Resource : RefreshRequest(c, t, r)
    \/ \E c \in Clients, r \in Resource : ServiceRequest(c, r)
    \/ CodeConsume \/ RefreshRead \/ RefreshClaim \/ FindUser \/ SaveToken
    \/ \E a \in Admins : ToggleWrite(a) \/ \E c \in Clients : ToggleRead(a, c)
    \/ \E c \in Clients : RevokeTokens(c)
    \/ \E D \in SUBSET Declarative : \E P \in [D -> SUBSET Resources] : Restart(D, P)
    \/ Tick

Spec == Init /\ [][Next]_vars

-----------------------------------------------------------------------------
(* Properties *)

\* get_access_token_principal accepts the access token of row t.
Active(t) ==
    /\ Live(t)
    /\ tokens[t].issued + AccessLifetime > now
    /\ Enabled(tokens[t].client)
    /\ tokens[t].user /= Null =>
          users[tokens[t].user].live /\ ~users[tokens[t].user].disabled

\* A code or a refresh token is exchanged for one token at most, though it may
\* be presented again at any time, by any client, and the process may stop
\* between taking it and storing what it was exchanged for.
OneIssuePerCredential ==
    \A s, t \in Tokens : tokens[s].parent = tokens[t].parent /\ tokens[s].parent /= Null
                            => s = t

\* At most one member of a refresh family is unrevoked: rotation never leaves the
\* old token usable beside the new one.
FamilyOneLive ==
    \A s, t \in Tokens : /\ Live(s) /\ Live(t)
                          /\ tokens[s].family = tokens[t].family /\ tokens[s].family /= Null
                            => s = t

\* Once reuse was detected in a family no access token of it is accepted again,
\* whatever rotation was under way and whatever is enabled later.
CompromisedFamilyDead ==
    \A s, t \in Tokens : /\ Stored(s) /\ tokens[s].compromised
                          /\ tokens[s].family = tokens[t].family
                            => ~Active(t)

\* A token row is stored only for what its client's policy allows at that moment,
\* though the consent may date from before a restart that changed the policy.
IssuedWithinPolicy ==
    [][\A t \in Tokens : tokens[t].state = "unissued" /\ tokens'[t].state = "live" =>
          LET allowed == clients[tokens'[t].client].allowed
          IN  IF tokens'[t].audience = Null THEN allowed = {}
                                            ELSE tokens'[t].audience \in allowed]_vars

\* Enabling a client, or declaring it again, brings none of the tokens it had
\* while it was disabled back into use: disabling it revoked them all.
DisabledStaysRevoked ==
    [][\A t \in Tokens : Stored(t) /\ ~Enabled(tokens[t].client) => ~Active(t)']_vars

\* The consent a credential goes back to, and what stands for a consent.
Root(cred) ==
    CASE cred \in Codes -> cred
      [] cred \in Tokens /\ tokens[cred].family = Null -> tokens[cred].parent
      [] OTHER -> tokens[tokens[cred].family].parent
Held == IF loop.pc \in {"user", "save"} /\ loop.cred /= Null THEN {Root(loop.cred)} ELSE {}
LiveFor(x) == {t \in Tokens : Live(t) /\ tokens[t].parent /= Null /\ Root(t) = x}

Phase == [x \in Codes |->
    LET state == codes[x].state
        held == x \in Held
        live == LiveFor(x) /= {}
    IN  CASE state = "unissued" /\ ~held /\ ~live -> "none"
          [] state = "live" /\ ~held /\ ~live -> "offered"
          [] state = "gone" /\ held /\ ~live -> "held"
          [] state = "gone" /\ ~held /\ live /\ Cardinality(LiveFor(x)) = 1 -> "live"
          [] state = "gone" /\ ~held /\ ~live -> "ended"
          [] OTHER -> "duplicated"]

Consent == INSTANCE ConsentLife WITH Consents <- Codes, phase <- Phase

\* The server implements ConsentLife: one credential at a time stands for a
\* consent, and neither a retry, a crash, a revocation in mid-rotation nor a
\* deleted member lets a consent that ended issue anything again.
ConsentSpec == Consent!Spec
=============================================================================
