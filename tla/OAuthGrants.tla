----------------------------- MODULE OAuthGrants -----------------------------
(***************************************************************************)
(* OAuth grants of munin-memory, from the consent page to the last token:  *)
(* src/src/oauth.ts (the provider in the server process), the approval     *)
(* handler of src/src/index.ts, the `oauth remove` and `oauth clear` of    *)
(* src/src/admin-cli.ts (another process on the same database) and the     *)
(* principal lookup of src/src/access.ts.                                  *)
(*                                                                         *)
(* A grant is one authorization: its number stands for the nonce of the    *)
(* pending authorization and for the code that replaces it.  A pair is the *)
(* refresh and the access token that issueTokenPair inserts together; its  *)
(* number stands for the two random tokens, and for refresh_token_ref.     *)
(* Grant 0 and pair 0 are what a database older than schema version 6 may  *)
(* hold: a code or a pair without a principal.                             *)
(*                                                                         *)
(* Exchanges, `remove` and `clear` take SQLite's write lock at once        *)
(* (IMMEDIATE), completeAuthorization writes first, and revokeToken, which *)
(* reads first, fails without effect if another process wrote in between:  *)
(* each is one action.  Rows of oauth_clients are never deleted by the     *)
(* code, so assertClientRegistered never fails.  Scopes and resource       *)
(* indicators are left out.                                                *)
(***************************************************************************)
EXTENDS Integers

CONSTANTS
  Clients,      \* registered OAuth clients
  Principals,   \* each with an email of its own
  Null,         \* NULL, of a principal_id above all
  LegacyOwner,  \* principals.oauth_client_id, by client: who a client was given to
  CodeTTL,      \* AUTH_CODE_TTL, also of pending authorizations
  AccessTTL,    \* ACCESS_TOKEN_TTL
  RefreshTTL,   \* REFRESH_TOKEN_TTL
  MaxTime,      \* bound on the clock
  MaxGrants,    \* bound on consent pages
  MaxPairs      \* bound on token pairs issued

ASSUME OAuthGrantsAssumption ==
  /\ Null \notin Principals \cup Clients
  /\ LegacyOwner \in [Clients -> Principals \cup {Null}]
  /\ CodeTTL \in Nat /\ AccessTTL \in Nat /\ RefreshTTL \in Nat
  /\ AccessTTL <= RefreshTTL
  /\ MaxTime \in Nat /\ MaxGrants \in Nat /\ MaxPairs \in Nat

VARIABLES
  now,       \* Date.now() in seconds
  revoked,   \* principals with revoked_at
  pending,   \* pendingAuths of the server process: grant -> request
  codes,     \* oauth_auth_codes: grant -> row
  tokens,    \* oauth_tokens
  mapping,   \* principal_oauth_clients: client -> principal
  nextGrant, \* number of the next consent page
  nextPair,  \* number of the next token pair
  approved,  \* who approved each grant, for which client (not in the program)
  ended,     \* grants a client, `remove` or `clear` has ended (not in the program)
  asked      \* pairs their client asked to revoke (not in the program)

vars == <<now, revoked, pending, codes, tokens, mapping, nextGrant, nextPair,
          approved, ended, asked>>

-----------------------------------------------------------------------------
(* Data *)

Grants == 0 .. MaxGrants
Pairs == 0 .. MaxPairs
Holders == Principals \cup {Null}

Pending == [client : Clients, principal : Principals, expires_at : Nat]
Code == [client : Clients, principal : Holders, expires_at : Nat, used : BOOLEAN]
Token == [pair : Pairs, kind : {"refresh", "access"}, client : Clients,
          principal : Holders, expires_at : Nat, revoked : BOOLEAN, grant : Grants]

NotApproved == [client |-> Null, principal |-> Null]
Approval == [client : Clients, principal : Holders]

With(f, x, value) == [y \in DOMAIN f \cup {x} |-> IF y = x THEN value ELSE f[y]]
Without(f, S) == [y \in DOMAIN f \ S |-> f[y]]

Expired(row) == row.expires_at < now
Usable(token) == ~token.revoked /\ ~Expired(token)

\* The two rows of issueTokenPair, at time t.
PairRows(n, client, principal, grant, t) ==
  LET Row(kind, ttl) == [pair |-> n, kind |-> kind, client |-> client, principal |-> principal,
                         expires_at |-> t + ttl, revoked |-> FALSE, grant |-> grant]
  IN  {Row("refresh", RefreshTTL), Row("access", AccessTTL)}

\* UPDATE oauth_tokens SET revoked = 1 on the rows of S.
Revoke(S) == {IF t \in S THEN [t EXCEPT !.revoked = TRUE] ELSE t : t \in tokens}

\* UPDATE oauth_auth_codes SET used = 1 on the codes of S.
Spend(S) == [g \in DOMAIN codes |-> IF g \in S THEN [codes[g] EXCEPT !.used = TRUE] ELSE codes[g]]

\* The principal a token acts for: its own, or else the one its client is mapped
\* to, or else the one of the old column.  A revoked principal has zero access.
Lookup(client, principal) ==
  IF principal # Null THEN principal
  ELSE IF mapping[client] # Null THEN mapping[client] ELSE LegacyOwner[client]
ActsFor(token) ==
  LET principal == Lookup(token.client, token.principal)
  IN  IF principal \in revoked THEN Null ELSE principal

-----------------------------------------------------------------------------
(* Initial states: a database just upgraded to schema version 6, which has  *)
(* copied principals.oauth_client_id to the new mapping table.              *)

LegacyCode(client) == [client |-> client, principal |-> Null,
                       expires_at |-> CodeTTL, used |-> FALSE]

Init ==
  /\ now = 0
  /\ revoked = {}
  /\ pending = [g \in {} |-> NotApproved]
  /\ mapping = LegacyOwner
  /\ nextGrant = 1
  /\ nextPair = 1
  /\ ended = {}
  /\ asked = {}
  /\ \E client \in Clients :
       /\ approved = [g \in Grants |-> IF g = 0 THEN [client |-> client, principal |-> LegacyOwner[client]]
                                                ELSE NotApproved]
       /\ \/ codes = [g \in {0} |-> LegacyCode(client)] /\ tokens = {}
          \/ codes = [g \in {} |-> LegacyCode(client)] /\ tokens = PairRows(0, client, Null, 0, 0)

-----------------------------------------------------------------------------
(* Consent *)

\* authorize: the consent page of a request by `principal`.  The middleware resolved
\* the identity before the body was parsed: it may have been revoked since.
Authorize(client, principal) ==
  /\ nextGrant <= MaxGrants
  /\ pending' = With(pending, nextGrant,
                     [client |-> client, principal |-> principal, expires_at |-> now + CodeTTL])
  /\ nextGrant' = nextGrant + 1
  /\ UNCHANGED <<now, revoked, codes, tokens, mapping, nextPair, approved, ended, asked>>

\* The identity resolved again in the approval handler against the one bound by authorize.
SameIdentity(g, principal) == principal \notin revoked /\ principal = pending[g].principal

\* Mutant: the last principal to approve a client has it.
MappingRemapped(client, principal) == [mapping EXCEPT ![client] = principal]

\* A client is mapped to the first principal that approves it; a conflict is only audited.
MappingAfter(client, principal) ==
  IF mapping[client] = Null THEN [mapping EXCEPT ![client] = principal] ELSE mapping

\* POST /authorize/approve by `principal`: consumePendingAuth, then completeAuthorization.
Approve(g, principal) ==
  /\ g \in DOMAIN pending
  /\ ~Expired(pending[g])
  /\ SameIdentity(g, principal)
  /\ LET request == pending[g] IN
       /\ codes' = With(codes, g, [client |-> request.client, principal |-> request.principal,
                                   expires_at |-> now + CodeTTL, used |-> FALSE])
       /\ mapping' = MappingAfter(request.client, request.principal)
       /\ approved' = [approved EXCEPT ![g] = [client |-> request.client, principal |-> principal]]
  /\ pending' = Without(pending, {g})
  /\ UNCHANGED <<now, revoked, tokens, nextGrant, nextPair, ended, asked>>

\* The same call when the user denies, the request has expired, or the identity is not
\* the one bound: the nonce is gone and no code is issued.
Deny(g) ==
  /\ g \in DOMAIN pending
  /\ pending' = Without(pending, {g})
  /\ UNCHANGED <<now, revoked, codes, tokens, mapping, nextGrant, nextPair, approved, ended, asked>>

-----------------------------------------------------------------------------
(* The token endpoint.  challengeForAuthorizationCode has run in an earlier *)
(* turn, and nothing it read is used here: a code may be presented at any   *)
(* time, and several times at once.                                         *)

Claimable(g) == g \in DOMAIN codes /\ ~codes[g].used

\* exchangeAuthorizationCode by the client the code was issued to.
ExchangeCode(g) ==
  /\ Claimable(g)
  /\ ~Expired(codes[g])
  /\ nextPair <= MaxPairs
  /\ codes' = Spend({g})
  /\ tokens' = tokens \cup PairRows(nextPair, codes[g].client, codes[g].principal, g, now)
  /\ nextPair' = nextPair + 1
  /\ UNCHANGED <<now, revoked, pending, mapping, nextGrant, approved, ended, asked>>

\* The same by another client, too late, or with another redirect_uri: the code is burned.
BurnCode(g) ==
  /\ Claimable(g)
  /\ codes' = Spend({g})
  /\ UNCHANGED <<now, revoked, pending, tokens, mapping, nextGrant, nextPair, approved, ended, asked>>

\* Mutant: rotation consumes the refresh token alone.
RetiredRefreshOnly(n) == {t \in tokens : t.pair = n /\ t.kind = "refresh"}

\* What the rotation of pair n retires: the refresh token and the access tokens that refer to it.
Retired(n) == {t \in tokens : t.pair = n}

\* exchangeRefreshToken.  A rejected request (another client, expired, more scopes) rolls back.
ExchangeRefresh(token) ==
  /\ token.kind = "refresh"
  /\ Usable(token)
  /\ nextPair <= MaxPairs
  /\ tokens' = Revoke(Retired(token.pair))
                 \cup PairRows(nextPair, token.client, token.principal, token.grant, now)
  /\ nextPair' = nextPair + 1
  /\ UNCHANGED <<now, revoked, pending, codes, mapping, nextGrant, approved, ended, asked>>

\* Mutant: whoever presents the token revokes it.
RevokedByAnyone(client, n, kind) ==
  IF \E t \in tokens : t.pair = n /\ t.kind = kind THEN {t \in tokens : t.pair = n} ELSE {}

\* What revokeToken updates when `client` presents the token of that kind of pair n:
\* nothing unless the row is there and the client's, and then both halves of the pair.
RevokedBy(client, n, kind) ==
  IF \E t \in tokens : t.pair = n /\ t.kind = kind /\ t.client = client
    THEN {t \in tokens : t.pair = n /\ t.client = client}
    ELSE {}

RevokeToken(client, n, kind) ==
  LET pair == {t \in tokens : t.pair = n /\ t.client = client} IN
  /\ tokens' = Revoke(RevokedBy(client, n, kind))
  /\ ended' = IF \E t \in pair : t.kind = kind THEN ended \cup {t.grant : t \in {u \in pair : ~u.revoked}}
                                              ELSE ended
  /\ asked' = asked \cup {t.pair : t \in pair}
  /\ UNCHANGED <<now, revoked, pending, codes, mapping, nextGrant, nextPair, approved>>

-----------------------------------------------------------------------------
(* Administration, from another process *)

\* Does a code or token belong to the principal?  One without a principal goes by the mapping.
Attributed(row, principal) ==
  \/ row.principal = principal
  \/ row.principal = Null /\ mapping[row.client] = principal

\* Mutant: codes are left to expire.
ClearedCodesNone(principal) == {}

\* The codes clearOAuthClients invalidates.
ClearedCodes(principal) == {g \in DOMAIN codes : Attributed(codes[g], principal)}

\* clearOAuthClients: end everything a principal has approved.
Clear(principal) ==
  /\ tokens' = Revoke({t \in tokens : Attributed(t, principal)})
  /\ codes' = Spend(ClearedCodes(principal))
  /\ mapping' = [c \in Clients |-> IF mapping[c] = principal THEN Null ELSE mapping[c]]
  /\ ended' = ended \cup {g \in Grants : approved[g] # NotApproved /\ Attributed(approved[g], principal)}
  /\ UNCHANGED <<now, revoked, pending, nextGrant, nextPair, approved, asked>>

\* removeOAuthClient: end everything approved for a client.
Remove(client) ==
  /\ tokens' = Revoke({t \in tokens : t.client = client})
  /\ codes' = Spend({g \in DOMAIN codes : codes[g].client = client})
  /\ mapping' = [mapping EXCEPT ![client] = Null]
  /\ ended' = ended \cup {g \in Grants : approved[g].client = client}
  /\ UNCHANGED <<now, revoked, pending, nextGrant, nextPair, approved, asked>>

\* revokePrincipal, which leaves the principal's tokens as they are.
RevokePrincipal(principal) ==
  /\ revoked' = revoked \cup {principal}
  /\ UNCHANGED <<now, pending, codes, tokens, mapping, nextGrant, nextPair, approved, ended, asked>>

-----------------------------------------------------------------------------
(* Time and the process *)

\* The rows cleanupExpired deletes.
SweptTokens == {t \in tokens : Expired(t) \/ t.revoked}
SweptCodes == {g \in DOMAIN codes : Expired(codes[g]) \/ codes[g].used}

\* cleanupExpired, on the session sweep's timer.
CleanupExpired ==
  /\ tokens' = tokens \ SweptTokens
  /\ codes' = Without(codes, SweptCodes)
  /\ pending' = Without(pending, {g \in DOMAIN pending : Expired(pending[g])})
  /\ UNCHANGED <<now, revoked, mapping, nextGrant, nextPair, approved, ended, asked>>

\* The server process stops and starts: pending authorizations are only in its memory.
Restart ==
  /\ pending' = Without(pending, DOMAIN pending)
  /\ UNCHANGED <<now, revoked, codes, tokens, mapping, nextGrant, nextPair, approved, ended, asked>>

Tick ==
  /\ now < MaxTime
  /\ now' = now + 1
  /\ UNCHANGED <<revoked, pending, codes, tokens, mapping, nextGrant, nextPair, approved, ended, asked>>

ConsentStep ==
  \/ \E client \in Clients, principal \in Principals : Authorize(client, principal)
  \/ \E g \in DOMAIN pending, principal \in Principals : Approve(g, principal)
  \/ \E g \in DOMAIN pending : Deny(g)

TokenStep ==
  \/ \E g \in DOMAIN codes : ExchangeCode(g) \/ BurnCode(g)
  \/ \E token \in tokens : ExchangeRefresh(token)
  \/ \E client \in Clients, n \in 0 .. nextPair - 1, kind \in {"refresh", "access"} :
       RevokeToken(client, n, kind)

AdminStep ==
  \/ \E principal \in Principals : Clear(principal) \/ RevokePrincipal(principal)
  \/ \E client \in Clients : Remove(client)

Next == ConsentStep \/ TokenStep \/ AdminStep \/ CleanupExpired \/ Restart \/ Tick

Spec == Init /\ [][Next]_vars

-----------------------------------------------------------------------------
(* Properties *)

\* Every variable stays in the shape of its table or map, and since the upgrade no code or
\* token is without a principal.
TypeOK ==
  /\ now \in 0 .. MaxTime
  /\ revoked \subseteq Principals
  /\ DOMAIN pending \subseteq Grants /\ pending \in [DOMAIN pending -> Pending]
  /\ DOMAIN codes \subseteq Grants /\ codes \in [DOMAIN codes -> Code]
  /\ \A g \in DOMAIN codes \ {0} : codes[g].principal \in Principals
  /\ tokens \subseteq Token
  /\ \A t \in tokens : t.grant = 0 \/ t.principal \in Principals
  /\ mapping \in [Clients -> Holders]
  /\ nextGrant \in 1 .. MaxGrants + 1
  /\ nextPair \in 1 .. MaxPairs + 1
  /\ approved \in [Grants -> Approval \cup {NotApproved}]
  /\ ended \subseteq Grants
  /\ asked \subseteq Pairs

\* The tokens of a grant that are not revoked are those of one pair: a code gives tokens
\* once, a refresh token gives a successor once, and rotation leaves no older token behind.
OneLivePair ==
  \A s, t \in tokens : s.grant = t.grant /\ ~s.revoked /\ ~t.revoked => s.pair = t.pair

\* After `clear`, `remove` or a client's revocation, no code and no token of the grants it
\* was about is ever good again: not through a code approved before and exchanged after,
\* nor through a rotation that was under way.
EndedIsDead ==
  /\ \A t \in tokens : t.grant \in ended => t.revoked
  /\ \A g \in ended : ~Claimable(g)

\* A token never acts for anybody but the principal who approved its grant, whoever else
\* approves the same client, whatever is cleared, and whether or not the token names a
\* principal.  (Nobody approved a grant of an old database whose client was given to nobody.)
ActsForItsApprover ==
  \A t \in tokens :
    Usable(t) /\ approved[t.grant].principal # Null
      => ActsFor(t) \in {approved[t.grant].principal, Null}

\* A usable access token always has its refresh token beside it, not revoked: revoking
\* either half, rotating, clearing, removing and sweeping never leave one alone.
AccessHasItsRefresh ==
  \A t \in tokens :
    t.kind = "access" /\ Usable(t)
      => \E r \in tokens : r.pair = t.pair /\ r.kind = "refresh" /\ Usable(r)

\* A grant that can be refreshed can be refreshed after the next step, unless that step
\* ends it or its time is up: no rejected request, other client or sweep takes it away.
Refreshable(g) == \E t \in tokens : t.grant = g /\ t.kind = "refresh" /\ Usable(t)
GrantSurvives ==
  [][\A g \in Grants : Refreshable(g) /\ now' = now => Refreshable(g)' \/ g \in ended']_vars

\* "Revoking an OAuth access or refresh token via the revocation endpoint now revokes the
\* whole access/refresh pair" (src/CHANGELOG.md): no token of a pair is good after its
\* client has asked to revoke one of them.
AskedIsRevoked == \A t \in tokens : t.pair \in asked => t.revoked

=============================================================================
