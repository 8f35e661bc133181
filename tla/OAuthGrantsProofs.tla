-------------------------- MODULE OAuthGrantsProofs --------------------------
(***************************************************************************)
(* Theorems about OAuthGrants, for any clients, principals, lifetimes and  *)
(* bounds.  A grant goes through phases that never overlap (Phases): a     *)
(* pending authorization, a code that can be claimed, pairs of tokens of   *)
(* which one is live.  Each row carries what was approved (Bound), and as  *)
(* long as a row without a principal can be used, its client's mapping has *)
(* not moved (LegacyMapped).                                               *)
(***************************************************************************)
EXTENDS OAuthGrants, TLAPS

USE OAuthGrantsAssumption

Phases ==
  /\ \A t \in tokens : t.pair < nextPair
  /\ \A t \in tokens : ~Claimable(t.grant)
  /\ \A g \in DOMAIN pending : g \in 1 .. nextGrant - 1 /\ approved[g] = NotApproved
  /\ \A g \in Grants : g >= nextGrant => approved[g] = NotApproved
  /\ \A g \in ended : approved[g] # NotApproved

PairsAgree ==
  \A s, t \in tokens : s.pair = t.pair => s.grant = t.grant /\ s.client = t.client

HasApproval(row, g) ==
  /\ approved[g] # NotApproved
  /\ row.client = approved[g].client
  /\ row.principal = (IF g = 0 THEN Null ELSE approved[g].principal)

Bound ==
  /\ \A t \in tokens : HasApproval(t, t.grant)
  /\ \A g \in DOMAIN codes : HasApproval(codes[g], g)

LegacyLive == Claimable(0) \/ \E t \in tokens : t.grant = 0 /\ ~t.revoked
LegacyMapped ==
  LegacyLive /\ approved[0].principal # Null => mapping[approved[0].client] = approved[0].principal

LiveAccessHasRefresh ==
  \A t \in tokens :
    t.kind = "access" /\ ~t.revoked
      => \E r \in tokens : /\ r.pair = t.pair /\ r.kind = "refresh" /\ ~r.revoked
                           /\ t.expires_at <= r.expires_at

IInv ==
  /\ TypeOK
  /\ Phases
  /\ PairsAgree
  /\ Bound
  /\ LegacyMapped
  /\ OneLivePair
  /\ EndedIsDead
  /\ LiveAccessHasRefresh


-----------------------------------------------------------------------------
(* Rows *)

\* Two versions of one row of oauth_tokens.
Like(t, u) ==
  /\ u.pair = t.pair /\ u.kind = t.kind /\ u.client = t.client /\ u.principal = t.principal
  /\ u.expires_at = t.expires_at /\ u.grant = t.grant

LEMMA RevokeRows ==
  ASSUME tokens \subseteq Token, NEW S
  PROVE  /\ Revoke(S) \subseteq Token
         /\ \A u \in Revoke(S) : \E t \in tokens : Like(t, u) /\ (u.revoked <=> t.revoked \/ t \in S)
         /\ \A t \in tokens : \E u \in Revoke(S) : Like(t, u) /\ (u.revoked <=> t.revoked \/ t \in S)
<1> DEFINE Version(t) == IF t \in S THEN [t EXCEPT !.revoked = TRUE] ELSE t
<1>1. ASSUME NEW t \in tokens
      PROVE  Version(t) \in Token /\ Like(t, Version(t)) /\ (Version(t).revoked <=> t.revoked \/ t \in S)
  <2>1. t \in Token
    OBVIOUS
  <2>2. CASE t \in S
    BY <2>1, <2>2 DEF Token, Like
  <2>3. CASE t \notin S
    BY <2>1, <2>3 DEF Token, Like
  <2> QED
    BY <2>2, <2>3
<1>2. Revoke(S) = {Version(t) : t \in tokens}
  BY DEF Revoke
<1> HIDE DEF Version
<1> QED
  BY <1>1, <1>2

LEMMA NewPair ==
  ASSUME NEW n \in Pairs, NEW client \in Clients, NEW principal \in Holders,
         NEW grant \in Grants, NEW t \in Nat
  PROVE  /\ PairRows(n, client, principal, grant, t) \subseteq Token
         /\ \A u \in PairRows(n, client, principal, grant, t) :
              /\ u.pair = n /\ u.client = client /\ u.principal = principal
              /\ u.grant = grant /\ ~u.revoked
         /\ \E r \in PairRows(n, client, principal, grant, t) :
              /\ r.kind = "refresh" /\ r.expires_at = t + RefreshTTL
              /\ \A u \in PairRows(n, client, principal, grant, t) : u.expires_at <= r.expires_at
BY DEF PairRows, Token

LEMMA SpendRows ==
  ASSUME codes \in [DOMAIN codes -> Code], NEW S
  PROVE  /\ DOMAIN Spend(S) = DOMAIN codes
         /\ Spend(S) \in [DOMAIN codes -> Code]
         /\ \A g \in DOMAIN codes : /\ Spend(S)[g].client = codes[g].client
                                    /\ Spend(S)[g].principal = codes[g].principal
                                    /\ Spend(S)[g].used <=> codes[g].used \/ g \in S
BY DEF Spend, Code

-----------------------------------------------------------------------------
(* Steps that issue nothing *)

\* Tokens and codes only go, or become revoked or used, and approvals stay.
NothingIssued ==
  /\ \A u \in tokens' : \E t \in tokens : Like(t, u) /\ (t.revoked => u.revoked)
  /\ \A g \in DOMAIN codes' : /\ g \in DOMAIN codes
                              /\ codes'[g].client = codes[g].client
                              /\ codes'[g].principal = codes[g].principal
                              /\ codes[g].used => codes'[g].used
  /\ \A g \in DOMAIN pending' : g \in DOMAIN pending \/ (g = nextGrant /\ nextGrant' = nextGrant + 1)
  /\ nextGrant' \in {nextGrant, nextGrant + 1}
  /\ UNCHANGED <<nextPair, approved>>

LEMMA NothingIssuedKeeps ==
  ASSUME IInv, TypeOK', NothingIssued, \A g \in ended' : g \in ended \/ approved[g] # NotApproved
  PROVE  Phases' /\ PairsAgree' /\ Bound' /\ OneLivePair'
<1>1. \A g : Claimable(g)' => Claimable(g)
  BY DEF NothingIssued, Claimable
<1>2. Phases'
  <2>1. \A u \in tokens' : u.pair < nextPair' /\ ~Claimable(u.grant)'
    BY <1>1 DEF IInv, Phases, NothingIssued, Like
  <2>2. \A g \in DOMAIN pending' : g \in 1 .. nextGrant' - 1 /\ approved'[g] = NotApproved
    BY DEF IInv, Phases, NothingIssued, TypeOK, Grants
  <2>3. \A g \in Grants : g >= nextGrant' => approved'[g] = NotApproved
    BY DEF IInv, Phases, NothingIssued, TypeOK, Grants
  <2>4. \A g \in ended' : approved'[g] # NotApproved
    BY DEF IInv, Phases, NothingIssued
  <2> QED
    BY <2>1, <2>2, <2>3, <2>4 DEF Phases
<1>3. PairsAgree'
  BY DEF IInv, PairsAgree, NothingIssued, Like
<1>4. Bound'
  BY DEF IInv, Bound, HasApproval, NothingIssued, Like
<1>5. OneLivePair'
  BY DEF IInv, OneLivePair, NothingIssued, Like
<1> QED
  BY <1>2, <1>3, <1>4, <1>5

LEMMA NothingEndedKeeps ==
  ASSUME IInv, NothingIssued, ended' = ended
  PROVE  EndedIsDead'
BY DEF IInv, EndedIsDead, NothingIssued, Like, Claimable

LEMMA MappingKept ==
  ASSUME IInv, NothingIssued, mapping' = mapping
  PROVE  LegacyMapped'
<1>1. LegacyLive' => LegacyLive
  BY DEF LegacyLive, NothingIssued, Like, Claimable
<1> QED
  BY <1>1 DEF IInv, LegacyMapped, NothingIssued

LEMMA RefreshKept ==
  ASSUME IInv, UNCHANGED tokens
  PROVE  LiveAccessHasRefresh'
BY DEF IInv, LiveAccessHasRefresh

\* UPDATE oauth_tokens SET revoked = 1, on a set of rows that has both halves of a pair or
\* neither.
LEMMA RevokeTogether ==
  ASSUME IInv, NEW S, tokens' = Revoke(S),
         \A r, t \in tokens : r.pair = t.pair /\ r \in S => t \in S
  PROVE  LiveAccessHasRefresh'
<1> SUFFICES ASSUME NEW u \in tokens', u.kind = "access", ~u.revoked
             PROVE  \E r \in tokens' : /\ r.pair = u.pair /\ r.kind = "refresh" /\ ~r.revoked
                                       /\ u.expires_at <= r.expires_at
  BY DEF LiveAccessHasRefresh
<1>1. tokens \subseteq Token
  BY DEF IInv, TypeOK
<1>2. PICK t \in tokens : Like(t, u) /\ (u.revoked <=> t.revoked \/ t \in S)
  BY <1>1, RevokeRows
<1>3. PICK r \in tokens : /\ r.pair = t.pair /\ r.kind = "refresh" /\ ~r.revoked
                          /\ t.expires_at <= r.expires_at
  BY <1>2 DEF IInv, LiveAccessHasRefresh, Like
<1>4. r \notin S
  BY <1>2, <1>3
<1>5. PICK v \in Revoke(S) : Like(r, v) /\ (v.revoked <=> r.revoked \/ r \in S)
  BY <1>1, RevokeRows
<1> QED
  BY <1>2, <1>3, <1>4, <1>5 DEF Like

-----------------------------------------------------------------------------
(* Steps that leave tokens and codes alone *)

\* The steps of the pending authorizations and of the principals, and the clock's.
LEMMA NoRowKeeps ==
  ASSUME IInv, TypeOK', UNCHANGED <<codes, tokens, mapping, nextPair, approved, ended>>,
         \A g \in DOMAIN pending' : g \in DOMAIN pending \/ (g = nextGrant /\ nextGrant' = nextGrant + 1),
         nextGrant' \in {nextGrant, nextGrant + 1}
  PROVE  IInv'
<1>1. NothingIssued
  BY DEF NothingIssued, Like
<1> QED
  BY <1>1, NothingIssuedKeeps, NothingEndedKeeps, MappingKept, RefreshKept DEF IInv

LEMMA AuthorizeKeeps ==
  ASSUME IInv, NEW client \in Clients, NEW principal \in Principals, Authorize(client, principal)
  PROVE  IInv'
<1> DEFINE request == [client |-> client, principal |-> principal, expires_at |-> now + CodeTTL]
<1>1. request \in Pending /\ nextGrant \in Grants /\ nextGrant + 1 \in 1 .. MaxGrants + 1
  BY DEF Authorize, IInv, TypeOK, Pending, Grants
<1>2. pending' = With(pending, nextGrant, request)
  BY DEF Authorize
<1> HIDE DEF request
<1>3. /\ DOMAIN pending' = DOMAIN pending \cup {nextGrant}
      /\ DOMAIN pending' \subseteq Grants
      /\ pending' \in [DOMAIN pending' -> Pending]
  BY <1>1, <1>2 DEF With, IInv, TypeOK
<1>4. TypeOK'
  BY <1>1, <1>3 DEF Authorize, IInv, TypeOK
<1>5. \A g \in DOMAIN pending' : g \in DOMAIN pending \/ (g = nextGrant /\ nextGrant' = nextGrant + 1)
  BY <1>3 DEF Authorize
<1>6. nextGrant' \in {nextGrant, nextGrant + 1}
  BY DEF Authorize
<1>7. UNCHANGED <<codes, tokens, mapping, nextPair, approved, ended>>
  BY DEF Authorize
<1> QED
  BY <1>4, <1>5, <1>6, <1>7, NoRowKeeps

\* Deny, a restart, a revoked principal and the clock.
LEMMA QuietKeeps ==
  ASSUME IInv, NEW S, pending' = pending \/ pending' = Without(pending, S),
         now' \in 0 .. MaxTime, revoked' \subseteq Principals,
         UNCHANGED <<codes, tokens, mapping, nextGrant, nextPair, approved, ended, asked>>
  PROVE  IInv'
<1>1. /\ DOMAIN pending' \subseteq DOMAIN pending
      /\ DOMAIN pending' \subseteq Grants
      /\ pending' \in [DOMAIN pending' -> Pending]
  BY DEF Without, IInv, TypeOK
<1>2. TypeOK'
  BY <1>1 DEF IInv, TypeOK
<1> QED
  BY <1>1, <1>2, NoRowKeeps

-----------------------------------------------------------------------------
(* Codes *)

LEMMA SpendType ==
  ASSUME IInv, NEW S, codes' = Spend(S)
  PROVE  /\ DOMAIN codes' = DOMAIN codes
         /\ codes' \in [DOMAIN codes' -> Code]
         /\ \A g \in DOMAIN codes' \ {0} : codes'[g].principal \in Principals
BY SpendRows DEF IInv, TypeOK

LEMMA BurnCodeKeeps ==
  ASSUME IInv, NEW g \in DOMAIN codes, BurnCode(g)
  PROVE  IInv'
<1>1. TypeOK'
  BY SpendType DEF BurnCode, IInv, TypeOK
<1>2. NothingIssued
  <2>1. codes \in [DOMAIN codes -> Code] /\ codes' = Spend({g})
    BY DEF BurnCode, IInv, TypeOK
  <2>2. /\ DOMAIN codes' = DOMAIN codes
        /\ \A h \in DOMAIN codes' : /\ codes'[h].client = codes[h].client
                                    /\ codes'[h].principal = codes[h].principal
                                    /\ codes[h].used => codes'[h].used
    BY <2>1, SpendRows
  <2> QED
    BY <2>2 DEF BurnCode, NothingIssued, Like
<1> QED
  BY <1>1, <1>2, NothingIssuedKeeps, NothingEndedKeeps, MappingKept, RefreshKept DEF IInv, BurnCode

\* A grant that was pending gets its code, and perhaps its client's mapping.
LEMMA ApproveKeeps ==
  ASSUME IInv, NEW g \in DOMAIN pending, NEW principal \in Principals, Approve(g, principal)
  PROVE  IInv'
<1> DEFINE request == pending[g]
           code == [client |-> request.client, principal |-> request.principal,
                    expires_at |-> now + CodeTTL, used |-> FALSE]
<1>1. /\ g \in Grants /\ g \in 1 .. nextGrant - 1 /\ approved[g] = NotApproved
      /\ request \in Pending /\ request.principal = principal
  BY DEF Approve, SameIdentity, IInv, TypeOK, Phases
<1>2. code \in Code /\ code.client = request.client /\ code.principal = principal
  BY <1>1 DEF Code, Pending, Holders, IInv, TypeOK
<1>3. codes' = With(codes, g, code) /\ pending' = Without(pending, {g})
  BY DEF Approve
<1>4. approved' = [approved EXCEPT ![g] = [client |-> request.client, principal |-> principal]]
  BY DEF Approve
<1>5. mapping' = MappingAfter(request.client, principal)
  BY <1>1 DEF Approve
<1>6. UNCHANGED <<now, revoked, tokens, nextGrant, nextPair, ended, asked>>
  BY DEF Approve
<1>7. request.client \in Clients
  BY <1>1 DEF Pending
<1> HIDE DEF request, code
<1>8. /\ DOMAIN codes' = DOMAIN codes \cup {g}
      /\ DOMAIN codes' \subseteq Grants
      /\ codes' \in [DOMAIN codes' -> Code]
      /\ codes'[g] = code
      /\ \A h \in DOMAIN codes : h # g => codes'[h] = codes[h]
  BY <1>1, <1>2, <1>3 DEF With, IInv, TypeOK
<1>9. /\ DOMAIN pending' = DOMAIN pending \ {g}
      /\ DOMAIN pending' \subseteq Grants
      /\ pending' \in [DOMAIN pending' -> Pending]
  BY <1>3 DEF Without, IInv, TypeOK
<1>10. /\ approved' \in [Grants -> Approval \cup {NotApproved}]
       /\ approved'[g] = [client |-> request.client, principal |-> principal]
       /\ approved'[g] # NotApproved
       /\ \A h \in Grants : h # g => approved'[h] = approved[h]
  BY <1>1, <1>4, <1>7 DEF IInv, TypeOK, Approval, NotApproved, Holders
<1>11. \A t \in tokens : t.grant # g /\ t.grant \in Grants
  BY <1>1 DEF IInv, Bound, HasApproval, TypeOK, Token
<1>12. g \notin DOMAIN codes /\ g \notin ended /\ g # 0
  BY <1>1 DEF IInv, Bound, HasApproval, Phases
<1>13. TypeOK'
  <2>1. mapping' \in [Clients -> Holders]
    BY <1>5, <1>7 DEF MappingAfter, IInv, TypeOK, Holders
  <2>2. \A h \in DOMAIN codes' \ {0} : codes'[h].principal \in Principals
    BY <1>2, <1>8 DEF IInv, TypeOK
  <2> QED
    BY <1>6, <1>8, <1>9, <1>10, <2>1, <2>2 DEF IInv, TypeOK
<1>14. \A h : h # g => (Claimable(h)' <=> Claimable(h))
  BY <1>8 DEF Claimable
<1>15. Phases'
  BY <1>1, <1>6, <1>9, <1>10, <1>11, <1>12, <1>14 DEF IInv, Phases, TypeOK
<1>16. Bound'
  BY <1>2, <1>6, <1>8, <1>10, <1>11, <1>12 DEF IInv, Bound, HasApproval, TypeOK
<1>17. LegacyMapped'
  <2>1. 0 \in Grants
    BY DEF Grants
  <2>2. LegacyLive' => LegacyLive
    BY <1>6, <1>12, <1>14 DEF LegacyLive
  <2>3. approved'[0] = approved[0]
    BY <1>10, <1>12, <2>1
  <2>4. \A c \in Clients : mapping[c] # Null => mapping'[c] = mapping[c]
    BY <1>5, <1>7 DEF MappingAfter, IInv, TypeOK
  <2>5. LegacyLive => approved[0].client \in Clients
    BY DEF LegacyLive, Claimable, IInv, Bound, HasApproval, TypeOK, Code, Token
  <2> QED
    BY <2>2, <2>3, <2>4, <2>5 DEF IInv, LegacyMapped
<1>18. PairsAgree' /\ OneLivePair' /\ LiveAccessHasRefresh'
  BY <1>6 DEF IInv, PairsAgree, OneLivePair, LiveAccessHasRefresh
<1>19. EndedIsDead'
  BY <1>6, <1>12, <1>14 DEF IInv, EndedIsDead
<1> QED
  BY <1>13, <1>15, <1>16, <1>17, <1>18, <1>19 DEF IInv

-----------------------------------------------------------------------------
(* Exchanges *)

\* Older and New are the versions of the tokens before, and a pair issued for grant g once
\* all others of g are revoked.
LEMMA IssueKeeps ==
  ASSUME IInv, nextPair \in Pairs, nextPair' = nextPair + 1,
         NEW g \in Grants, NEW client \in Clients, NEW principal \in Holders,
         approved[g] # NotApproved, client = approved[g].client,
         principal = (IF g = 0 THEN Null ELSE approved[g].principal),
         g = 0 \/ principal \in Principals,
         g \notin ended, g = 0 => LegacyLive,
         NEW Older \in SUBSET Token,
         tokens' = Older \cup PairRows(nextPair, client, principal, g, now),
         \A u \in Older : \E t \in tokens : Like(t, u) /\ (t.revoked => u.revoked),
         \A u \in Older : u.grant = g => u.revoked,
         \A u \in Older : u.kind = "access" /\ ~u.revoked =>
            \E r \in Older : r.pair = u.pair /\ r.kind = "refresh" /\ ~r.revoked /\ u.expires_at <= r.expires_at,
         DOMAIN codes' = DOMAIN codes, codes' \in [DOMAIN codes -> Code],
         \A h \in DOMAIN codes : /\ codes'[h].client = codes[h].client
                                 /\ codes'[h].principal = codes[h].principal
                                 /\ codes[h].used => codes'[h].used,
         ~Claimable(g)',
         UNCHANGED <<now, revoked, pending, mapping, nextGrant, approved, ended, asked>>
  PROVE  IInv'
<1> DEFINE New == PairRows(nextPair, client, principal, g, now)
<1>1. /\ New \subseteq Token
      /\ \A u \in New : /\ u.pair = nextPair /\ u.client = client /\ u.principal = principal
                        /\ u.grant = g /\ ~u.revoked
      /\ \E r \in New : r.kind = "refresh" /\ \A u \in New : u.expires_at <= r.expires_at
  <2>1. now \in Nat
    BY DEF IInv, TypeOK
  <2> QED
    BY <2>1, NewPair
<1> HIDE DEF New
<1>2. tokens' = Older \cup New
  BY DEF New
<1>3. \A u \in Older : u.pair < nextPair /\ u.pair # nextPair
  BY DEF IInv, Phases, Like, Pairs, TypeOK, Token
<1>4. \A h : Claimable(h)' => Claimable(h) /\ h # g
  BY DEF Claimable
<1>5. TypeOK'
  <2>1. \A u \in Older : u.grant = 0 \/ u.principal \in Principals
    BY DEF Like, IInv, TypeOK
  <2>2. \A u \in New : u.grant = 0 \/ u.principal \in Principals
    BY <1>1
  <2>3. tokens' \subseteq Token /\ \A t \in tokens' : t.grant = 0 \/ t.principal \in Principals
    BY <1>1, <1>2, <2>1, <2>2
  <2>4. \A h \in DOMAIN codes' \ {0} : codes'[h].principal \in Principals
    BY DEF IInv, TypeOK
  <2>5. nextPair' \in 1 .. MaxPairs + 1
    BY DEF Pairs, IInv, TypeOK
  <2> QED
    BY <2>3, <2>4, <2>5 DEF IInv, TypeOK
<1>6. Phases'
  <2>1. \A u \in tokens' : u.pair < nextPair'
    BY <1>1, <1>2, <1>3 DEF Pairs, Token
  <2>2. \A u \in tokens' : ~Claimable(u.grant)'
    BY <1>1, <1>2, <1>4 DEF IInv, Phases, Like
  <2> QED
    BY <2>1, <2>2 DEF IInv, Phases
<1>7. PairsAgree'
  <2>1. \A s, t \in Older : s.pair = t.pair => s.grant = t.grant /\ s.client = t.client
    BY DEF IInv, PairsAgree, Like
  <2> QED
    BY <1>1, <1>2, <1>3, <2>1 DEF PairsAgree
<1>8. Bound'
  <2>1. \A u \in Older : HasApproval(u, u.grant)'
    BY DEF IInv, Bound, HasApproval, Like
  <2>2. \A u \in New : HasApproval(u, u.grant)'
    BY <1>1 DEF HasApproval
  <2>3. \A h \in DOMAIN codes' : HasApproval(codes[h], h)'
    BY DEF IInv, Bound, HasApproval
  <2> QED
    BY <1>2, <2>1, <2>2, <2>3 DEF Bound
<1>9. LegacyMapped'
  <2>1. LegacyLive' => LegacyLive
    BY <1>1, <1>2, <1>4 DEF LegacyLive, Like
  <2> QED
    BY <2>1 DEF IInv, LegacyMapped
<1>10. OneLivePair'
  <2>1. \A s, t \in Older : s.grant = t.grant /\ ~s.revoked /\ ~t.revoked => s.pair = t.pair
    BY DEF IInv, OneLivePair, Like
  <2> QED
    BY <1>1, <1>2, <2>1 DEF OneLivePair
<1>11. EndedIsDead'
  BY <1>1, <1>2, <1>4 DEF IInv, EndedIsDead, Like
<1>12. LiveAccessHasRefresh'
  <2>1. \A u \in New : \E r \in New : r.pair = u.pair /\ r.kind = "refresh" /\ ~r.revoked
                                      /\ u.expires_at <= r.expires_at
    BY <1>1
  <2> QED
    BY <1>2, <2>1 DEF LiveAccessHasRefresh
<1> QED
  BY <1>5, <1>6, <1>7, <1>8, <1>9, <1>10, <1>11, <1>12 DEF IInv

LEMMA ExchangeCodeKeeps ==
  ASSUME IInv, NEW g \in DOMAIN codes, ExchangeCode(g)
  PROVE  IInv'
<1>1. /\ Claimable(g) /\ g \in Grants /\ codes[g] \in Code /\ HasApproval(codes[g], g)
      /\ g = 0 \/ codes[g].principal \in Principals
  BY DEF ExchangeCode, IInv, TypeOK, Bound
<1>2. codes[g].client \in Clients /\ codes[g].principal \in Holders
  BY <1>1 DEF Code
<1>3. g \notin ended /\ (g = 0 => LegacyLive) /\ \A t \in tokens : t.grant # g
  BY <1>1 DEF IInv, EndedIsDead, LegacyLive, Phases
<1>4. nextPair \in Pairs
  BY DEF ExchangeCode, IInv, TypeOK, Pairs
<1>5. codes \in [DOMAIN codes -> Code] /\ codes' = Spend({g}) /\ tokens \in SUBSET Token
  BY DEF ExchangeCode, IInv, TypeOK
<1>6. /\ DOMAIN codes' = DOMAIN codes /\ codes' \in [DOMAIN codes -> Code]
      /\ \A h \in DOMAIN codes : /\ codes'[h].client = codes[h].client
                                 /\ codes'[h].principal = codes[h].principal
                                 /\ codes[h].used => codes'[h].used
      /\ codes'[g].used
  BY <1>5, SpendRows
<1>7. ~Claimable(g)'
  BY <1>6 DEF Claimable
<1>8. \A u \in tokens : \E t \in tokens : Like(t, u) /\ (t.revoked => u.revoked)
  BY DEF Like
<1>9. \A u \in tokens : u.kind = "access" /\ ~u.revoked =>
        \E r \in tokens : r.pair = u.pair /\ r.kind = "refresh" /\ ~r.revoked /\ u.expires_at <= r.expires_at
  BY DEF IInv, LiveAccessHasRefresh
<1>10. /\ nextPair' = nextPair + 1
       /\ tokens' = tokens \cup PairRows(nextPair, codes[g].client, codes[g].principal, g, now)
       /\ UNCHANGED <<now, revoked, pending, mapping, nextGrant, approved, ended, asked>>
  BY DEF ExchangeCode
<1>11. /\ approved[g] # NotApproved /\ codes[g].client = approved[g].client
       /\ codes[g].principal = (IF g = 0 THEN Null ELSE approved[g].principal)
  BY <1>1 DEF HasApproval
<1>12. \A u \in tokens : u.grant = g => u.revoked
  BY <1>3
<1> QED
  BY <1>1, <1>2, <1>3, <1>4, <1>5, <1>6, <1>7, <1>8, <1>9, <1>10, <1>11, <1>12, IssueKeeps

LEMMA ExchangeRefreshKeeps ==
  ASSUME IInv, NEW token \in tokens, ExchangeRefresh(token)
  PROVE  IInv'
<1> DEFINE Older == Revoke(Retired(token.pair))
<1>g. PICK g \in Grants : g = token.grant
  BY DEF IInv, TypeOK, Token
<1>1. /\ token \in Token /\ HasApproval(token, g) /\ ~token.revoked
      /\ g = 0 \/ token.principal \in Principals
  BY <1>g DEF ExchangeRefresh, Usable, IInv, TypeOK, Bound
<1>2. token.client \in Clients /\ token.principal \in Holders
  BY <1>1 DEF Token
<1>3. g \notin ended /\ (g = 0 => LegacyLive)
  BY <1>g, <1>1 DEF IInv, EndedIsDead, LegacyLive
<1>4. nextPair \in Pairs
  BY DEF ExchangeRefresh, IInv, TypeOK, Pairs
<1>5. tokens \subseteq Token
  BY DEF IInv, TypeOK
<1>6. /\ Older \in SUBSET Token
      /\ \A u \in Older : \E t \in tokens : Like(t, u) /\ (u.revoked <=> t.revoked \/ t \in Retired(token.pair))
      /\ \A t \in tokens : \E u \in Older : Like(t, u) /\ (u.revoked <=> t.revoked \/ t \in Retired(token.pair))
  BY <1>5, RevokeRows
<1> HIDE DEF Older
<1>7. \A u \in Older : u.grant = g => u.revoked
  BY <1>g, <1>1, <1>6 DEF IInv, OneLivePair, Like, Retired
<1>8. ASSUME NEW u \in Older, u.kind = "access", ~u.revoked
      PROVE  \E r \in Older : r.pair = u.pair /\ r.kind = "refresh" /\ ~r.revoked /\ u.expires_at <= r.expires_at
  <2>1. PICK t \in tokens : Like(t, u) /\ ~t.revoked /\ t \notin Retired(token.pair)
    BY <1>6, <1>8
  <2>2. PICK r \in tokens : r.pair = t.pair /\ r.kind = "refresh" /\ ~r.revoked /\ t.expires_at <= r.expires_at
    BY <1>8, <2>1 DEF IInv, LiveAccessHasRefresh, Like
  <2>3. r \notin Retired(token.pair)
    BY <2>1, <2>2 DEF Retired
  <2>4. PICK v \in Older : Like(r, v) /\ ~v.revoked
    BY <1>6, <2>2, <2>3
  <2> QED
    BY <2>1, <2>2, <2>4 DEF Like
<1>9. ~Claimable(g)'
  BY <1>g DEF ExchangeRefresh, IInv, Phases, Claimable
<1>10. /\ nextPair' = nextPair + 1
       /\ tokens' = Older \cup PairRows(nextPair, token.client, token.principal, g, now)
       /\ UNCHANGED <<now, revoked, pending, mapping, nextGrant, approved, ended, asked>>
       /\ codes' = codes
  BY <1>g DEF ExchangeRefresh, Older
<1>11. codes \in [DOMAIN codes -> Code]
  BY DEF IInv, TypeOK
<1>12. \A u \in Older : \E t \in tokens : Like(t, u) /\ (t.revoked => u.revoked)
  BY <1>6
<1>13. /\ approved[g] # NotApproved /\ token.client = approved[g].client
       /\ token.principal = (IF g = 0 THEN Null ELSE approved[g].principal)
  BY <1>1 DEF HasApproval
<1>14. /\ DOMAIN codes' = DOMAIN codes /\ codes' \in [DOMAIN codes -> Code]
       /\ \A h \in DOMAIN codes : /\ codes'[h].client = codes[h].client
                                  /\ codes'[h].principal = codes[h].principal
                                  /\ codes[h].used => codes'[h].used
  BY <1>10, <1>11
<1>15. Older \in SUBSET Token
  BY <1>6
<1> QED
  BY <1>1, <1>2, <1>3, <1>4, <1>7, <1>8, <1>9, <1>10, <1>12, <1>13, <1>14, <1>15, IssueKeeps

-----------------------------------------------------------------------------
(* Revocations *)

\* Tokens of S revoked, codes of C spent.
LEMMA RevokeKeeps ==
  ASSUME IInv, NEW S, NEW C, tokens' = Revoke(S), codes' = Spend(C),
         \A r, t \in tokens : r.pair = t.pair /\ r \in S => t \in S,
         mapping' \in [Clients -> Holders], ended' \subseteq Grants, asked' \subseteq Pairs,
         \A g \in ended' \ ended : /\ approved[g] # NotApproved
                                   /\ \A t \in tokens : t.grant = g => t.revoked \/ t \in S
                                   /\ Claimable(g) => g \in C,
         mapping' = mapping
           \/ ~LegacyLive'
           \/ mapping'[approved[0].client] = mapping[approved[0].client]
           \/ approved[0].principal = Null,
         UNCHANGED <<now, revoked, pending, nextGrant, nextPair, approved>>
  PROVE  IInv'
<1>1. tokens \subseteq Token /\ codes \in [DOMAIN codes -> Code]
  BY DEF IInv, TypeOK
<1>2. /\ tokens' \subseteq Token
      /\ \A u \in tokens' : \E t \in tokens : Like(t, u) /\ (u.revoked <=> t.revoked \/ t \in S)
  BY <1>1, RevokeRows
<1>3. /\ DOMAIN codes' = DOMAIN codes
      /\ codes' \in [DOMAIN codes -> Code]
      /\ \A g \in DOMAIN codes : /\ codes'[g].client = codes[g].client
                                 /\ codes'[g].principal = codes[g].principal
                                 /\ codes'[g].used <=> codes[g].used \/ g \in C
  BY <1>1, SpendRows
<1>4. TypeOK'
  <2>1. \A u \in tokens' : u.grant = 0 \/ u.principal \in Principals
    BY <1>2 DEF Like, IInv, TypeOK
  <2>2. \A g \in DOMAIN codes' \ {0} : codes'[g].principal \in Principals
    BY <1>3 DEF IInv, TypeOK
  <2> QED
    BY <1>2, <1>3, <2>1, <2>2 DEF IInv, TypeOK
<1>5. NothingIssued
  <2>1. \A u \in tokens' : \E t \in tokens : Like(t, u) /\ (t.revoked => u.revoked)
    BY <1>2
  <2> QED
    BY <1>3, <2>1 DEF NothingIssued
<1>6. Phases' /\ PairsAgree' /\ Bound' /\ OneLivePair'
  BY <1>4, <1>5, NothingIssuedKeeps
<1>7. EndedIsDead'
  <2>1. \A u \in tokens' : u.grant \in ended' => u.revoked
    BY <1>2 DEF Like, IInv, EndedIsDead
  <2>2. \A g \in ended' : ~Claimable(g)'
    BY <1>3 DEF Claimable, IInv, EndedIsDead
  <2> QED
    BY <2>1, <2>2 DEF EndedIsDead
<1>8. LegacyMapped'
  <2>1. LegacyLive' => LegacyLive
    BY <1>2, <1>3 DEF LegacyLive, Claimable, Like
  <2> QED
    BY <2>1 DEF IInv, LegacyMapped
<1>9. LiveAccessHasRefresh'
  BY RevokeTogether
<1> QED
  BY <1>4, <1>6, <1>7, <1>8, <1>9 DEF IInv

LEMMA RevokeTokenKeeps ==
  ASSUME IInv, NEW client \in Clients, NEW n \in 0 .. nextPair - 1, NEW kind \in {"refresh", "access"},
         RevokeToken(client, n, kind)
  PROVE  IInv'
<1> DEFINE S == RevokedBy(client, n, kind)
           pair == {t \in tokens : t.pair = n /\ t.client = client}
<1>1. codes' = Spend({})
  <2>1. Spend({}) = [g \in DOMAIN codes |-> codes[g]]
    BY DEF Spend
  <2> QED
    BY <2>1 DEF RevokeToken, IInv, TypeOK
<1>2. \A r, t \in tokens : r.pair = t.pair /\ r \in S => t \in S
  BY DEF RevokedBy, IInv, PairsAgree
<1>3. \A g \in ended' \ ended :
        \E t \in tokens : t.grant = g /\ t.pair = n /\ t.client = client /\ ~t.revoked /\ t \in S
  <2>1. CASE \E t \in pair : t.kind = kind
    BY <2>1 DEF RevokeToken, RevokedBy
  <2>2. CASE ~ \E t \in pair : t.kind = kind
    BY <2>2 DEF RevokeToken
  <2> QED
    BY <2>1, <2>2
<1>4. ASSUME NEW g \in ended' \ ended
      PROVE  /\ g \in Grants /\ approved[g] # NotApproved
             /\ \A t \in tokens : t.grant = g => t.revoked \/ t \in S
             /\ ~Claimable(g)
  <2>1. PICK t \in tokens : t.grant = g /\ t.pair = n /\ t.client = client /\ ~t.revoked /\ t \in S
    BY <1>3
  <2>2. g \in Grants /\ approved[g] # NotApproved
    BY <2>1 DEF IInv, TypeOK, Token, Bound, HasApproval
  <2>3. \A u \in tokens : u.grant = g => u.revoked \/ u \in S
    BY <1>2, <2>1 DEF IInv, OneLivePair
  <2>4. ~Claimable(g)
    BY <2>1 DEF IInv, Phases
  <2> QED
    BY <2>2, <2>3, <2>4
<1>5. ended' \subseteq Grants
  BY <1>4 DEF IInv, TypeOK
<1>6. asked' \subseteq Pairs
  BY DEF RevokeToken, IInv, TypeOK, Token
<1>7. tokens' = Revoke(S) /\ UNCHANGED <<now, revoked, pending, mapping, nextGrant, nextPair, approved>>
  BY DEF RevokeToken
<1>8. mapping' \in [Clients -> Holders]
  BY <1>7 DEF IInv, TypeOK
<1> HIDE DEF S
<1> QED
  BY <1>1, <1>2, <1>4, <1>5, <1>6, <1>7, <1>8, RevokeKeeps

\* A row without a principal is the upgraded database's, and while it lives its client is
\* mapped to the principal who had it: a principal who approved a grant owns its rows.
LEMMA ApproverIsAttributed ==
  ASSUME IInv, NEW row, NEW g \in Grants, HasApproval(row, g), NEW principal \in Principals,
         Attributed(approved[g], principal), g = 0 => LegacyLive
  PROVE  Attributed(row, principal)
BY DEF HasApproval, Attributed, IInv, LegacyMapped

LEMMA ClearKeeps ==
  ASSUME IInv, NEW principal \in Principals, Clear(principal)
  PROVE  IInv'
<1> DEFINE S == {t \in tokens : Attributed(t, principal)}
<1>1. \A r, t \in tokens : r.pair = t.pair /\ r \in S => t \in S
  BY DEF IInv, PairsAgree, Bound, HasApproval, Attributed
<1>2. /\ tokens' = Revoke(S) /\ codes' = Spend(ClearedCodes(principal))
      /\ mapping' = [c \in Clients |-> IF mapping[c] = principal THEN Null ELSE mapping[c]]
      /\ ended' = ended \cup {g \in Grants : approved[g] # NotApproved /\ Attributed(approved[g], principal)}
      /\ UNCHANGED <<now, revoked, pending, nextGrant, nextPair, approved, asked>>
  BY DEF Clear
<1>3. ASSUME NEW g \in ended' \ ended
      PROVE  /\ approved[g] # NotApproved
             /\ \A t \in tokens : t.grant = g => t.revoked \/ t \in S
             /\ Claimable(g) => g \in ClearedCodes(principal)
  <2>1. g \in Grants /\ approved[g] # NotApproved /\ Attributed(approved[g], principal)
    BY <1>2
  <2>2. ASSUME NEW t \in tokens, t.grant = g, ~t.revoked
        PROVE  t \in S
    <3>1. HasApproval(t, g) /\ (g = 0 => LegacyLive)
      BY <2>2 DEF IInv, Bound, LegacyLive
    <3> QED
      BY <2>1, <3>1, ApproverIsAttributed
  <2>3. ASSUME Claimable(g)
        PROVE  g \in ClearedCodes(principal)
    <3>1. g \in DOMAIN codes /\ HasApproval(codes[g], g) /\ (g = 0 => LegacyLive)
      BY <2>3 DEF IInv, Bound, LegacyLive, Claimable
    <3> QED
      BY <2>1, <3>1, ApproverIsAttributed DEF ClearedCodes
  <2> QED
    BY <2>1, <2>2, <2>3
<1>4. mapping' \in [Clients -> Holders]
  BY <1>2 DEF IInv, TypeOK, Holders
<1>5. ended' \subseteq Grants /\ asked' \subseteq Pairs
  BY <1>2 DEF IInv, TypeOK
<1>6. ASSUME LegacyLive', approved[0].principal # Null
      PROVE  mapping'[approved[0].client] = mapping[approved[0].client]
  <2>1. 0 \in Grants
    BY DEF Grants
  <2>2. PICK row : HasApproval(row, 0) /\ ~Attributed(row, principal)
    <3>1. tokens \subseteq Token /\ codes \in [DOMAIN codes -> Code]
      BY DEF IInv, TypeOK
    <3>2. CASE Claimable(0)'
      <4>1. 0 \in DOMAIN codes /\ 0 \notin ClearedCodes(principal)
        BY <1>2, <3>1, <3>2, SpendRows DEF Claimable
      <4> QED
        BY <4>1 DEF ClearedCodes, IInv, Bound
    <3>3. CASE \E u \in tokens' : u.grant = 0 /\ ~u.revoked
      <4>1. PICK u \in tokens' : u.grant = 0 /\ ~u.revoked
        BY <3>3
      <4>2. PICK t \in tokens : Like(t, u) /\ t \notin S
        BY <1>2, <3>1, <4>1, RevokeRows
      <4> QED
        BY <4>1, <4>2 DEF Like, IInv, Bound
    <3> QED
      BY <1>6, <3>2, <3>3 DEF LegacyLive
  <2>3. approved[0].client \in Clients
    BY <2>1, <2>2 DEF HasApproval, IInv, TypeOK, Approval
  <2>4. mapping[approved[0].client] # principal
    BY <2>2 DEF HasApproval, Attributed
  <2> QED
    BY <1>2, <2>3, <2>4
<1> HIDE DEF S
<1> QED
  BY <1>1, <1>2, <1>3, <1>4, <1>5, <1>6, RevokeKeeps

LEMMA RemoveKeeps ==
  ASSUME IInv, NEW client \in Clients, Remove(client)
  PROVE  IInv'
<1> DEFINE S == {t \in tokens : t.client = client}
           C == {g \in DOMAIN codes : codes[g].client = client}
<1>1. \A r, t \in tokens : r.pair = t.pair /\ r \in S => t \in S
  BY DEF IInv, PairsAgree
<1>2. /\ tokens' = Revoke(S) /\ codes' = Spend(C)
      /\ mapping' = [mapping EXCEPT ![client] = Null]
      /\ ended' = ended \cup {g \in Grants : approved[g].client = client}
      /\ UNCHANGED <<now, revoked, pending, nextGrant, nextPair, approved, asked>>
  BY DEF Remove
<1>3. \A g \in ended' \ ended : /\ approved[g] # NotApproved
                                /\ \A t \in tokens : t.grant = g => t.revoked \/ t \in S
                                /\ Claimable(g) => g \in C
  BY <1>2 DEF NotApproved, IInv, Bound, HasApproval, Claimable
<1>4. mapping' \in [Clients -> Holders]
  BY <1>2 DEF IInv, TypeOK, Holders
<1>5. ended' \subseteq Grants /\ asked' \subseteq Pairs
  BY <1>2 DEF IInv, TypeOK
<1>6. LegacyLive' => approved[0].client # client
  <2>1. tokens \subseteq Token /\ codes \in [DOMAIN codes -> Code]
    BY DEF IInv, TypeOK
  <2>2. Claimable(0)' => 0 \in DOMAIN codes /\ 0 \notin C
    BY <1>2, <2>1, SpendRows DEF Claimable
  <2>3. \A u \in tokens' : ~u.revoked => \E t \in tokens : Like(t, u) /\ t \notin S
    BY <1>2, <2>1, RevokeRows
  <2> QED
    BY <2>2, <2>3 DEF LegacyLive, Like, IInv, Bound, HasApproval
<1>7. LegacyLive' => mapping'[approved[0].client] = mapping[approved[0].client]
  BY <1>2, <1>6 DEF IInv, TypeOK
<1> HIDE DEF S, C
<1> QED
  BY <1>1, <1>2, <1>3, <1>4, <1>5, <1>7, RevokeKeeps

-----------------------------------------------------------------------------
(* The sweep *)

LEMMA CleanupKeeps ==
  ASSUME IInv, CleanupExpired
  PROVE  IInv'
<1>1. /\ tokens' = tokens \ SweptTokens
      /\ codes' = Without(codes, SweptCodes)
      /\ pending' = Without(pending, {g \in DOMAIN pending : Expired(pending[g])})
      /\ UNCHANGED <<now, revoked, mapping, nextGrant, nextPair, approved, ended, asked>>
  BY DEF CleanupExpired
<1>2. /\ DOMAIN codes' \subseteq DOMAIN codes
      /\ \A g \in DOMAIN codes' : codes'[g] = codes[g]
      /\ DOMAIN pending' \subseteq DOMAIN pending
      /\ \A g \in DOMAIN pending' : pending'[g] = pending[g]
  BY <1>1 DEF Without
<1>3. TypeOK'
  <2>1. /\ DOMAIN codes' \subseteq Grants /\ codes' \in [DOMAIN codes' -> Code]
        /\ \A g \in DOMAIN codes' \ {0} : codes'[g].principal \in Principals
    BY <1>1, <1>2 DEF Without, IInv, TypeOK
  <2>2. DOMAIN pending' \subseteq Grants /\ pending' \in [DOMAIN pending' -> Pending]
    BY <1>1, <1>2 DEF Without, IInv, TypeOK
  <2> QED
    BY <1>1, <2>1, <2>2 DEF IInv, TypeOK
<1>4. NothingIssued
  <2>1. \A u \in tokens' : \E t \in tokens : Like(t, u) /\ (t.revoked => u.revoked)
    BY <1>1 DEF Like
  <2> QED
    BY <1>1, <1>2, <2>1 DEF NothingIssued
\* A refresh token lives at least as long as the access token beside it.
<1>5. LiveAccessHasRefresh'
  <2> SUFFICES ASSUME NEW t \in tokens', t.kind = "access", ~t.revoked
               PROVE  \E r \in tokens' : /\ r.pair = t.pair /\ r.kind = "refresh" /\ ~r.revoked
                                         /\ t.expires_at <= r.expires_at
    BY DEF LiveAccessHasRefresh
  <2>1. t \in tokens /\ ~Expired(t)
    BY <1>1 DEF SweptTokens
  <2>2. PICK r \in tokens : /\ r.pair = t.pair /\ r.kind = "refresh" /\ ~r.revoked
                            /\ t.expires_at <= r.expires_at
    BY <2>1 DEF IInv, LiveAccessHasRefresh
  <2>3. ~Expired(r)
    BY <2>1, <2>2 DEF Expired, IInv, TypeOK, Token
  <2> QED
    BY <1>1, <2>2, <2>3 DEF SweptTokens
<1> QED
  BY <1>1, <1>3, <1>4, <1>5, NothingIssuedKeeps, NothingEndedKeeps, MappingKept DEF IInv

-----------------------------------------------------------------------------
(* The invariant *)

LEMMA InitIInv == Init => IInv
<1> SUFFICES ASSUME Init PROVE IInv
  OBVIOUS
<1>1. PICK client \in Clients :
        /\ approved = [g \in Grants |-> IF g = 0 THEN [client |-> client, principal |-> LegacyOwner[client]]
                                                 ELSE NotApproved]
        /\ \/ codes = [g \in {0} |-> LegacyCode(client)] /\ tokens = {}
           \/ codes = [g \in {} |-> LegacyCode(client)] /\ tokens = PairRows(0, client, Null, 0, 0)
  BY DEF Init
<1>2. 0 \in Grants /\ 0 \in Pairs /\ Null \in Holders /\ 0 \in Nat /\ LegacyOwner[client] \in Holders
  BY DEF Grants, Pairs, Holders
<1>3. /\ PairRows(0, client, Null, 0, 0) \subseteq Token
      /\ \A u \in PairRows(0, client, Null, 0, 0) :
           /\ u.pair = 0 /\ u.client = client /\ u.principal = Null /\ u.grant = 0 /\ ~u.revoked
      /\ \E r \in PairRows(0, client, Null, 0, 0) :
           /\ r.kind = "refresh"
           /\ \A u \in PairRows(0, client, Null, 0, 0) : u.expires_at <= r.expires_at
  BY <1>2, NewPair
<1>4. LegacyCode(client) \in Code /\ LegacyCode(client).client = client
      /\ LegacyCode(client).principal = Null
  BY <1>2 DEF LegacyCode, Code
<1>5. /\ DOMAIN pending = {} /\ DOMAIN codes \subseteq {0}
      /\ \A g \in DOMAIN codes : codes[g] = LegacyCode(client)
      /\ tokens = {} \/ (tokens = PairRows(0, client, Null, 0, 0) /\ DOMAIN codes = {})
  BY <1>1 DEF Init
<1>6. /\ approved[0] = [client |-> client, principal |-> LegacyOwner[client]]
      /\ approved[0] # NotApproved
      /\ \A g \in Grants : g # 0 => approved[g] = NotApproved
  BY <1>1, <1>2 DEF NotApproved
<1>7. TypeOK
  <2>1. pending \in [DOMAIN pending -> Pending]
    BY <1>5 DEF Init
  <2>2. codes \in [DOMAIN codes -> Code] /\ DOMAIN codes \subseteq Grants
    BY <1>1, <1>2, <1>4, <1>5
  <2>3. tokens \subseteq Token /\ \A t \in tokens : t.grant = 0
    BY <1>3, <1>5
  <2>4. approved \in [Grants -> Approval \cup {NotApproved}]
    BY <1>1, <1>2 DEF Approval
  <2>5. mapping \in [Clients -> Holders] /\ nextGrant \in 1 .. MaxGrants + 1
        /\ nextPair \in 1 .. MaxPairs + 1 /\ now \in 0 .. MaxTime
    BY DEF Init, Holders
  <2>6. revoked = {} /\ ended = {} /\ asked = {}
    BY DEF Init
  <2> QED
    BY <1>5, <2>1, <2>2, <2>3, <2>4, <2>5, <2>6 DEF TypeOK
<1>8. Phases
  BY <1>3, <1>5, <1>6 DEF Phases, Claimable, Init, Grants
<1>9. PairsAgree /\ OneLivePair
  BY <1>3, <1>5 DEF PairsAgree, OneLivePair
<1>10. Bound
  BY <1>3, <1>4, <1>5, <1>6 DEF Bound, HasApproval
<1>11. LegacyMapped
  BY <1>6 DEF LegacyMapped, Init
<1>12. EndedIsDead
  BY DEF EndedIsDead, Init
<1>13. LiveAccessHasRefresh
  BY <1>3, <1>5 DEF LiveAccessHasRefresh
<1> QED
  BY <1>7, <1>8, <1>9, <1>10, <1>11, <1>12, <1>13 DEF IInv

LEMMA NextIInv == IInv /\ [Next]_vars => IInv'
<1> SUFFICES ASSUME IInv, [Next]_vars PROVE IInv'
  OBVIOUS
<1>1. CASE ConsentStep
  <2>1. ASSUME NEW g \in DOMAIN pending, Deny(g)
        PROVE  IInv'
    <3>1. /\ pending' = Without(pending, {g})
          /\ UNCHANGED <<now, revoked, codes, tokens, mapping, nextGrant, nextPair, approved, ended, asked>>
      BY <2>1 DEF Deny
    <3>2. now' \in 0 .. MaxTime /\ revoked' \subseteq Principals
      BY <3>1 DEF IInv, TypeOK
    <3> QED
      BY <3>1, <3>2, QuietKeeps
  <2> QED
    BY <1>1, <2>1, AuthorizeKeeps, ApproveKeeps DEF ConsentStep
<1>2. CASE TokenStep
  BY <1>2, ExchangeCodeKeeps, BurnCodeKeeps, ExchangeRefreshKeeps, RevokeTokenKeeps DEF TokenStep
<1>3. CASE AdminStep
  <2>1. ASSUME NEW principal \in Principals, RevokePrincipal(principal)
        PROVE  IInv'
    <3>1. /\ pending' = pending /\ revoked' \subseteq Principals /\ now' \in 0 .. MaxTime
          /\ UNCHANGED <<codes, tokens, mapping, nextGrant, nextPair, approved, ended, asked>>
      BY <2>1 DEF RevokePrincipal, IInv, TypeOK
    <3> QED
      BY <3>1, QuietKeeps
  <2> QED
    BY <1>3, <2>1, ClearKeeps, RemoveKeeps DEF AdminStep
<1>4. CASE CleanupExpired
  BY <1>4, CleanupKeeps
<1>5. CASE Restart
  <2>1. /\ pending' = Without(pending, DOMAIN pending)
        /\ UNCHANGED <<now, revoked, codes, tokens, mapping, nextGrant, nextPair, approved, ended, asked>>
    BY <1>5 DEF Restart
  <2>2. now' \in 0 .. MaxTime /\ revoked' \subseteq Principals
    BY <2>1 DEF IInv, TypeOK
  <2> QED
    BY <2>1, <2>2, QuietKeeps
<1>6. CASE Tick
  <2>1. /\ now' \in 0 .. MaxTime /\ pending' = pending /\ revoked' \subseteq Principals
        /\ UNCHANGED <<codes, tokens, mapping, nextGrant, nextPair, approved, ended, asked>>
    BY <1>6 DEF Tick, IInv, TypeOK
  <2> QED
    BY <2>1, QuietKeeps
<1>7. CASE UNCHANGED vars
  <2>1. /\ now' \in 0 .. MaxTime /\ pending' = pending /\ revoked' \subseteq Principals
        /\ UNCHANGED <<codes, tokens, mapping, nextGrant, nextPair, approved, ended, asked>>
    BY <1>7 DEF vars, IInv, TypeOK
  <2> QED
    BY <2>1, QuietKeeps
<1> QED
  BY <1>1, <1>2, <1>3, <1>4, <1>5, <1>6, <1>7 DEF Next

THEOREM Invariance == Spec => []IInv
BY InitIInv, NextIInv, PTL DEF Spec

\* TypeOK in every reachable state: tables and maps keep their shape, and no code or token
\* issued since the upgrade is without a principal.
THEOREM TypeCorrect == Spec => []TypeOK
<1>1. IInv => TypeOK
  BY DEF IInv
<1> QED
  BY <1>1, Invariance, PTL

\* The tokens of a grant that are not revoked are always those of one pair: exchanges and
\* rotations are single use, however the clients and the administration interleave.
THEOREM GrantsHaveOneLivePair == Spec => []OneLivePair
<1>1. IInv => OneLivePair
  BY DEF IInv
<1> QED
  BY <1>1, Invariance, PTL

\* What `clear`, `remove` or a client's revocation has ended stays ended: no code and no
\* token of it is ever good again.
THEOREM EndedGrantsStayDead == Spec => []EndedIsDead
<1>1. IInv => EndedIsDead
  BY DEF IInv
<1> QED
  BY <1>1, Invariance, PTL

\* Every token acts for the principal who approved its grant, or for nobody: by its own
\* principal, or for a token from before the upgrade, by a mapping that cannot have moved.
THEOREM TokensActForTheirApprover == Spec => []ActsForItsApprover
<1>1. IInv => ActsForItsApprover
  <2> SUFFICES ASSUME IInv, NEW t \in tokens, Usable(t), approved[t.grant].principal # Null
               PROVE  ActsFor(t) \in {approved[t.grant].principal, Null}
    BY DEF ActsForItsApprover
  <2>1. HasApproval(t, t.grant) /\ (t.grant = 0 => LegacyLive)
    BY DEF IInv, Bound, LegacyLive, Usable
  <2>2. Lookup(t.client, t.principal) = approved[t.grant].principal
    <3>1. CASE t.grant = 0
      <4>1. t.principal = Null /\ mapping[t.client] = approved[0].principal
        BY <2>1, <3>1 DEF HasApproval, IInv, LegacyMapped
      <4> QED
        BY <3>1, <4>1 DEF Lookup
    <3>2. CASE t.grant # 0
      <4>1. t.principal = approved[t.grant].principal /\ t.principal # Null
        BY <2>1, <3>2 DEF HasApproval
      <4> QED
        BY <4>1 DEF Lookup
    <3> QED
      BY <3>1, <3>2
  <2> QED
    BY <2>2 DEF ActsFor
<1> QED
  BY <1>1, Invariance, PTL

\* A usable access token always has its refresh token beside it.
THEOREM AccessNeverAlone == Spec => []AccessHasItsRefresh
<1>1. IInv => AccessHasItsRefresh
  BY DEF IInv, LiveAccessHasRefresh, AccessHasItsRefresh, Usable, Expired, TypeOK, Token
<1> QED
  BY <1>1, Invariance, PTL

\* A grant that can be refreshed stays so until it is ended or its time is up.
THEOREM GrantsSurvive == Spec => GrantSurvives
<1>1. IInv /\ [Next]_vars =>
        [\A g \in Grants : Refreshable(g) /\ now' = now => Refreshable(g)' \/ g \in ended']_vars
  <2> SUFFICES ASSUME IInv, Next, NEW t \in tokens, t.kind = "refresh", Usable(t), now' = now,
                      t.grant \notin ended'
               PROVE  \E u \in tokens' : u.grant = t.grant /\ u.kind = "refresh" /\ Usable(u)'
    BY DEF Refreshable
  <2>1. tokens \subseteq Token
    BY DEF IInv, TypeOK
  <2>2. tokens \subseteq tokens' => \E u \in tokens' : u.grant = t.grant /\ u.kind = "refresh" /\ Usable(u)'
    BY DEF Usable, Expired
  <2>3. ASSUME NEW S, Revoke(S) \subseteq tokens', t \notin S
        PROVE  \E u \in tokens' : u.grant = t.grant /\ u.kind = "refresh" /\ Usable(u)'
    BY <2>1, <2>3, RevokeRows DEF Like, Usable, Expired
  <2>4. CASE ConsentStep
    BY <2>2, <2>4 DEF ConsentStep, Authorize, Approve, Deny
  <2>5. ASSUME NEW g \in DOMAIN codes, ExchangeCode(g) \/ BurnCode(g)
        PROVE  tokens \subseteq tokens'
    BY <2>5 DEF ExchangeCode, BurnCode
  <2>6. ASSUME NEW token \in tokens, ExchangeRefresh(token)
        PROVE  \E u \in tokens' : u.grant = t.grant /\ u.kind = "refresh" /\ Usable(u)'
    <3>1. CASE t \in Retired(token.pair)
      <4>1. t.grant = token.grant
        BY <3>1 DEF Retired, IInv, PairsAgree
      <4>2. /\ nextPair \in Pairs /\ token.client \in Clients /\ token.principal \in Holders
            /\ token.grant \in Grants /\ now \in Nat
        BY <2>1, <2>6 DEF ExchangeRefresh, IInv, TypeOK, Pairs, Token
      <4>3. PICK r \in PairRows(nextPair, token.client, token.principal, token.grant, now) :
              /\ r.kind = "refresh" /\ r.expires_at = now + RefreshTTL
              /\ r.grant = token.grant /\ ~r.revoked
        BY <4>2, NewPair
      <4>4. r \in tokens'
        BY <2>6 DEF ExchangeRefresh
      <4> QED
        BY <4>1, <4>2, <4>3, <4>4 DEF Usable, Expired
    <3>2. CASE t \notin Retired(token.pair)
      BY <2>3, <2>6, <3>2 DEF ExchangeRefresh
    <3> QED
      BY <3>1, <3>2
  <2>7. ASSUME NEW client \in Clients, NEW n \in 0 .. nextPair - 1, NEW kind \in {"refresh", "access"},
               RevokeToken(client, n, kind)
        PROVE  \E u \in tokens' : u.grant = t.grant /\ u.kind = "refresh" /\ Usable(u)'
    <3>1. t \notin RevokedBy(client, n, kind)
      BY <2>7 DEF RevokeToken, RevokedBy, Usable
    <3> QED
      BY <2>3, <2>7, <3>1 DEF RevokeToken
  <2>8. CASE TokenStep
    BY <2>2, <2>5, <2>6, <2>7, <2>8 DEF TokenStep
  <2>9. ASSUME NEW principal \in Principals, Clear(principal)
        PROVE  \E u \in tokens' : u.grant = t.grant /\ u.kind = "refresh" /\ Usable(u)'
    <3>1. t.grant \in Grants /\ HasApproval(t, t.grant) /\ (t.grant = 0 => LegacyLive)
      BY <2>1 DEF Token, IInv, Bound, LegacyLive, Usable
    <3>2. Attributed(t, principal) => approved[t.grant] # NotApproved /\ Attributed(approved[t.grant], principal)
      BY <3>1 DEF HasApproval, Attributed, IInv, LegacyMapped
    <3>3. ~Attributed(t, principal)
      BY <2>9, <3>1, <3>2 DEF Clear
    <3> QED
      BY <2>3, <2>9, <3>3 DEF Clear
  <2>10. ASSUME NEW client \in Clients, Remove(client)
         PROVE  \E u \in tokens' : u.grant = t.grant /\ u.kind = "refresh" /\ Usable(u)'
    <3>1. t.client # client
      BY <2>1, <2>10 DEF Remove, Token, IInv, Bound, HasApproval
    <3> QED
      BY <2>3, <2>10, <3>1 DEF Remove
  <2>11. CASE AdminStep
    BY <2>2, <2>9, <2>10, <2>11 DEF AdminStep, RevokePrincipal
  <2>12. CASE CleanupExpired
    BY <2>12 DEF CleanupExpired, SweptTokens, Usable, Expired
  <2>13. CASE Restart \/ Tick
    BY <2>2, <2>13 DEF Restart, Tick
  <2> QED
    BY <2>4, <2>8, <2>11, <2>12, <2>13 DEF Next
<1> QED
  BY <1>1, Invariance, PTL DEF Spec, GrantSurvives

=============================================================================
