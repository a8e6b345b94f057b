--------------------------- MODULE MCOAuthTokens ---------------------------
(* OAuthTokens on a small instance, bounded in one of two ways.            *)
EXTENDS OAuthTokens, TLC

\* Codes, token rows, members and administrators are interchangeable.
Symmetry == Permutations(Codes) \union Permutations(Tokens)
            \union Permutations(Users) \union Permutations(Admins)

-----------------------------------------------------------------------------
(* The bounds *)

Declared == Declarative \ Services
Dynamic == Clients \ Declarative

\* All three token rows, the clock and the administrator, for the declared public
\* client alone: the others are as the first start left them.
OneClient ==
    /\ \A c \in Dynamic : ~clients[c].known
    /\ \A c \in Services : Enabled(c) /\ clients[c].allowed = {}
    /\ loop.client \in Declared \union {Null}
    /\ \A x \in Codes : codes[x].client \in Declared \union {Null}
    /\ \A t \in Tokens : tokens[t].client \in Declared \union {Null}
    /\ \A a \in Admins : toggling[a].client \in Declared \union {Null}

\* All three kinds of clients, in one tick, with two token rows and nobody at the
\* administrator's page.
AllClients ==
    /\ now = 0
    /\ Cardinality({t \in Tokens : tokens[t].state /= "unissued"}) <= 2
    /\ \A a \in Admins : toggling[a] = NoToggle

Bounds == OneClient \/ AllClients
=============================================================================
