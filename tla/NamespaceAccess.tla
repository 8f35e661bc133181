-------------------------- MODULE NamespaceAccess --------------------------
(* Which namespaces a caller may read, and how a request's filter and the     *)
(* caller's rules are turned into the selectors of a query (access.ts,       *)
(* internal/namespace-filter.ts). A namespace is the sequence of its         *)
(* segments. "x/" as a prefix stands for all that is strictly below x, so a  *)
(* string prefix test is the test of a path being below another.             *)
EXTENDS Naturals, Sequences

\* A path that another one starts with; one that is strictly below another.
StartsWith(n, p) == Len(p) <= Len(n) /\ \A i \in 1..Len(p) : n[i] = p[i]
Below(n, p) == Len(p) < Len(n) /\ StartsWith(n, p)

\* Rules: "*", "x/*" and "x", each with its permissions.
RuleKinds == {"all", "prefix", "exact"}
Readable(rules) == {r \in rules : r.permissions \in {"read", "rw"}}

MatchesPattern(n, r) ==
  \/ r.kind = "all"
  \/ r.kind = "prefix" /\ Below(n, r.at)
  \/ r.kind = "exact" /\ n = r.at

CanRead(rules, n) == \E r \in Readable(rules) : MatchesPattern(n, r)

\* A rule reaches something under a path: the handlers answer with nothing
\* when none does, before they query.
CanReadSubtree(rules, p) ==
  \E r \in Readable(rules) :
    \/ r.kind = "all"
    \/ r.kind = "prefix" /\ (StartsWith(p, r.at) \/ StartsWith(r.at, p))
    \/ r.kind = "exact" /\ Below(r.at, p)

\* A request's filter: none, "x/" for all below x, or "x" for x and all below.
MatchesFilter(n, f) ==
  \/ f.kind = "none"
  \/ f.kind = "prefix" /\ Below(n, f.at)
  \/ f.kind = "subtree" /\ (n = f.at \/ Below(n, f.at))

\* A selector is an exact namespace or a prefix.
Exact(p) == [kind |-> "exact", at |-> p]
Prefix(p) == [kind |-> "prefix", at |-> p]
Selects(s, n) == \/ s.kind = "exact" /\ n = s.at
                 \/ s.kind = "prefix" /\ Below(n, s.at)
Selected(S, n) == \E s \in S : Selects(s, n)

FilterSelectors(f) ==
  IF f.kind = "prefix" THEN {Prefix(f.at)} ELSE {Exact(f.at), Prefix(f.at)}

RuleSelectors(rules) ==
  {IF r.kind = "prefix" THEN Prefix(r.at) ELSE Exact(r.at) : r \in Readable(rules)}

\* A mutant: a prefix also covers the namespace it is the prefix of.
CoversAs(p, s) == p.kind = "prefix" /\ StartsWith(s.at, p.at) /\ p # s

\* What a kept prefix makes superfluous: longer prefixes, and exact namespaces
\* strictly below it.
Covers(p, s) == p.kind = "prefix" /\ Below(s.at, p.at)

\* The selectors without those that another one covers.
Normalized(S) == {s \in S : ~\E p \in S : Covers(p, s)}

\* The common part of two selectors: at most one selector.
Meet(s, t) ==
  IF s.kind = "exact" THEN IF Selects(t, s.at) THEN {s} ELSE {}
  ELSE IF t.kind = "exact" THEN IF Selects(s, t.at) THEN {t} ELSE {}
  ELSE IF StartsWith(s.at, t.at) THEN {s}
  ELSE IF StartsWith(t.at, s.at) THEN {t} ELSE {}

Meets(S, T) == Normalized(UNION {Meet(s, t) : s \in S, t \in T})

Unrestricted(rules) == \E r \in Readable(rules) : r.kind = "all"

\* The namespaces a request selects: those of its filter, those of the rules,
\* or what the two have in common.
SelectedBy(rules, f, n) ==
  IF Unrestricted(rules) THEN f.kind = "none" \/ Selected(Normalized(FilterSelectors(f)), n)
  ELSE IF f.kind = "none" THEN Selected(Normalized(RuleSelectors(rules)), n)
  ELSE Selected(Meets(Normalized(RuleSelectors(rules)), Normalized(FilterSelectors(f))), n)
=============================================================================
