-------------------------- MODULE AuditHistoryProofs --------------------------
(* Theorems about namespace access and the paging of the audit log, for any  *)
(* namespaces, rules and filters, any page size and any number of rows.      *)
EXTENDS AuditHistory, FiniteSetTheorems, TLAPS

-----------------------------------------------------------------------------
(* Finite orders *)

\* A finite set has a member that nothing in it lies beyond.
LEMMA Greatest ==
  ASSUME NEW W, IsFiniteSet(W), W # {}, NEW R,
         \A i \in W : <<i, i>> \notin R,
         \A i, j, k \in W : <<i, j>> \in R /\ <<j, k>> \in R => <<i, k>> \in R
  PROVE  \E i \in W : \A j \in W : <<j, i>> \notin R
<1> DEFINE Above(i) == {j \in W : <<j, i>> \in R}
           Sets == {Above(i) : i \in W}
<1>1. \A i \in W : Above(i) \in FiniteSubsetsOf(W)
  BY FS_Subset DEF FiniteSubsetsOf
<1>2. Sets \subseteq FiniteSubsetsOf(W) /\ Sets # {}
  <2> HIDE DEF Above
  <2>1. PICK i \in W : TRUE
    OBVIOUS
  <2>2. Above(i) \in Sets
    BY <2>1
  <2> QED BY <1>1, <2>2
<1>3. PICK A \in Sets : \A B \in Sets : <<B, A>> \notin StrictSubsetOrdering(W)
  <2> HIDE DEF Sets
  <2> QED BY <1>2, FS_StrictSubsetOrderingWellFounded, WFMin
<1>4. PICK i \in W : A = Above(i)
  OBVIOUS
<1>5. SUFFICES ASSUME NEW j \in W, <<j, i>> \in R PROVE FALSE
  OBVIOUS
<1>6. Above(j) \subseteq Above(i)
  BY <1>5
<1>7. j \in Above(i) /\ j \notin Above(j)
  BY <1>5
<1>8. <<Above(j), A>> \in StrictSubsetOrdering(W)
  BY <1>4, <1>6, <1>7 DEF StrictSubsetOrdering
<1> QED BY <1>3, <1>8

LEMMA HasHighest ==
  ASSUME NEW S \in SUBSET Nat, IsFiniteSet(S), S # {}
  PROVE  \E i \in S : \A j \in S : j <= i
<1> DEFINE R == {e \in S \X S : e[1] > e[2]}
<1>1. \A i, j \in S : <<i, j>> \in R <=> i > j
  OBVIOUS
<1> HIDE DEF R
<1>2. /\ \A i \in S : <<i, i>> \notin R
      /\ \A i, j, k \in S : <<i, j>> \in R /\ <<j, k>> \in R => <<i, k>> \in R
  BY <1>1
<1>3. PICK i \in S : \A j \in S : <<j, i>> \notin R
  BY <1>2, Greatest
<1>4. \A j \in S : j <= i
  <2> SUFFICES ASSUME NEW j \in S PROVE j <= i
    OBVIOUS
  <2>1. ~(j > i)
    BY <1>1, <1>3
  <2>2. i \in Nat /\ j \in Nat
    OBVIOUS
  <2> QED BY <2>1, <2>2
<1> QED BY <1>4

LEMMA HasLowest ==
  ASSUME NEW S \in SUBSET Nat, IsFiniteSet(S), S # {}
  PROVE  \E i \in S : \A j \in S : i <= j
<1> DEFINE R == {e \in S \X S : e[1] < e[2]}
<1>1. \A i, j \in S : <<i, j>> \in R <=> i < j
  OBVIOUS
<1> HIDE DEF R
<1>2. /\ \A i \in S : <<i, i>> \notin R
      /\ \A i, j, k \in S : <<i, j>> \in R /\ <<j, k>> \in R => <<i, k>> \in R
  BY <1>1
<1>3. PICK i \in S : \A j \in S : <<j, i>> \notin R
  BY <1>2, Greatest
<1>4. \A j \in S : i <= j
  <2> SUFFICES ASSUME NEW j \in S PROVE i <= j
    OBVIOUS
  <2>1. ~(j < i)
    BY <1>1, <1>3
  <2>2. i \in Nat /\ j \in Nat
    OBVIOUS
  <2> QED BY <2>1, <2>2
<1> QED BY <1>4

-----------------------------------------------------------------------------
(* Paths *)

LEMMA PathOrder ==
  ASSUME NEW X, NEW p \in Seq(X), NEW q \in Seq(X), NEW r \in Seq(X)
  PROVE  /\ ~Below(p, p)
         /\ Below(r, q) /\ Below(q, p) => Below(r, p)
         /\ Below(r, q) /\ StartsWith(q, p) => Below(r, p)
BY DEF Below, StartsWith

\* Two paths that a third one starts with start with each other.
LEMMA PathsCompare ==
  ASSUME NEW X, NEW p \in Seq(X), NEW q \in Seq(X), NEW n \in Seq(X),
         StartsWith(n, p), StartsWith(n, q)
  PROVE  StartsWith(p, q) \/ StartsWith(q, p)
BY DEF StartsWith

-----------------------------------------------------------------------------
(* Selectors *)

Selector(X) == [kind: {"exact", "prefix"}, at: Seq(X)]
Rule(X) == [kind: RuleKinds, at: Seq(X), permissions: {"read", "write", "rw"}]
Filter(X) == [kind: {"none", "prefix", "subtree"}, at: Seq(X)]

\* What is dropped as superfluous is selected by what is kept.
LEMMA NormalizedSelects ==
  ASSUME NEW X, NEW S \in SUBSET Selector(X), IsFiniteSet(S), NEW n \in Seq(X)
  PROVE  Selected(Normalized(S), n) <=> Selected(S, n)
<1>1. Selected(Normalized(S), n) => Selected(S, n)
  BY DEF Selected, Normalized
<1>2. ASSUME Selected(S, n) PROVE Selected(Normalized(S), n)
  <2> DEFINE W == {s \in S : Selects(s, n)}
             R == {e \in W \X W : Covers(e[1], e[2])}
  <2>1. IsFiniteSet(W) /\ W # {}
    BY <1>2, FS_Subset DEF Selected
  <2>2. \A s \in S : s.at \in Seq(X)
    BY DEF Selector
  <2>3. \A s, t \in W : <<s, t>> \in R <=> Covers(s, t)
    OBVIOUS
  <2>4. \A s \in W : ~Covers(s, s)
    BY <2>2, PathOrder DEF Covers
  <2>5. \A s, t, u \in W : Covers(s, t) /\ Covers(t, u) => Covers(s, u)
    BY <2>2, PathOrder DEF Covers
  <2>6. \A s, t \in S : Covers(s, t) /\ t \in W => s \in W
    BY <2>2, PathOrder DEF Covers, Selects
  <2>7. W \subseteq S /\ \A s \in W : Selects(s, n)
    OBVIOUS
  <2> HIDE DEF W, R
  <2>8. PICK s \in W : \A t \in W : <<t, s>> \notin R
    BY <2>1, <2>3, <2>4, <2>5, Greatest
  <2>9. s \in Normalized(S)
    BY <2>3, <2>6, <2>7, <2>8 DEF Normalized
  <2> QED BY <2>7, <2>9 DEF Selected
<1> QED BY <1>1, <1>2

LEMMA MeetSelects ==
  ASSUME NEW X, NEW s \in Selector(X), NEW t \in Selector(X), NEW n \in Seq(X)
  PROVE  /\ Selected(Meet(s, t), n) <=> Selects(s, n) /\ Selects(t, n)
         /\ Meet(s, t) \subseteq {s, t}
<1>1. s.at \in Seq(X) /\ t.at \in Seq(X)
      /\ s.kind \in {"exact", "prefix"} /\ t.kind \in {"exact", "prefix"}
  BY DEF Selector
<1>2. Meet(s, t) \subseteq {s, t}
  BY DEF Meet
<1>3. CASE s.kind = "exact"
  BY <1>3 DEF Meet, Selected, Selects
<1>4. CASE s.kind = "prefix" /\ t.kind = "exact"
  BY <1>4 DEF Meet, Selected, Selects
<1>5. CASE s.kind = "prefix" /\ t.kind = "prefix"
  <2>1. Selects(s, n) <=> Below(n, s.at)
    BY <1>5 DEF Selects
  <2>2. Selects(t, n) <=> Below(n, t.at)
    BY <1>5 DEF Selects
  <2>3. CASE StartsWith(s.at, t.at)
    <3>1. Meet(s, t) = {s}
      BY <1>5, <2>3 DEF Meet
    <3> QED BY <1>1, <2>1, <2>2, <2>3, <3>1, <1>2, PathOrder DEF Selected
  <2>4. CASE ~StartsWith(s.at, t.at) /\ StartsWith(t.at, s.at)
    <3>1. Meet(s, t) = {t}
      BY <1>5, <2>4 DEF Meet
    <3> QED BY <1>1, <2>1, <2>2, <2>4, <3>1, <1>2, PathOrder DEF Selected
  <2>5. CASE ~StartsWith(s.at, t.at) /\ ~StartsWith(t.at, s.at)
    <3>1. Meet(s, t) = {}
      BY <1>5, <2>5 DEF Meet
    <3>2. ~(Below(n, s.at) /\ Below(n, t.at))
      BY <1>1, <2>5, PathsCompare DEF Below
    <3> QED BY <2>1, <2>2, <3>1, <3>2 DEF Selected
  <2> QED BY <2>3, <2>4, <2>5
<1> QED BY <1>1, <1>2, <1>3, <1>4, <1>5

LEMMA MeetsSelect ==
  ASSUME NEW X, NEW S \in SUBSET Selector(X), NEW T \in SUBSET Selector(X),
         IsFiniteSet(S), IsFiniteSet(T), NEW n \in Seq(X)
  PROVE  Selected(Meets(S, T), n) <=> Selected(S, n) /\ Selected(T, n)
<1> DEFINE all == UNION {Meet(s, t) : s \in S, t \in T}
<1>1. all \subseteq S \cup T
  BY DEF Meet
<1>2. IsFiniteSet(all) /\ all \in SUBSET Selector(X)
  <2> HIDE DEF all
  <2>1. IsFiniteSet(S \cup T)
    BY FS_Union
  <2> QED BY <1>1, <2>1, FS_Subset
<1>3. Selected(all, n) <=> \E s \in S, t \in T : Selected(Meet(s, t), n)
  BY DEF Selected
<1>4. \A s \in S, t \in T : Selected(Meet(s, t), n) <=> Selects(s, n) /\ Selects(t, n)
  BY MeetSelects
<1>5. Selected(all, n) <=> Selected(S, n) /\ Selected(T, n)
  BY <1>3, <1>4 DEF Selected
<1> HIDE DEF all
<1>6. Selected(Normalized(all), n) <=> Selected(all, n)
  BY <1>2, NormalizedSelects
<1> QED BY <1>5, <1>6 DEF Meets, all

LEMMA RulesSelect ==
  ASSUME NEW X, NEW R \in SUBSET Rule(X), IsFiniteSet(R), ~Unrestricted(R), NEW n \in Seq(X)
  PROVE  /\ RuleSelectors(R) \in SUBSET Selector(X) /\ IsFiniteSet(RuleSelectors(R))
         /\ Selected(Normalized(RuleSelectors(R)), n) <=> CanRead(R, n)
<1> DEFINE sel(r) == IF r.kind = "prefix" THEN Prefix(r.at) ELSE Exact(r.at)
           f == [r \in Readable(R) |-> sel(r)]
<1>1. \A r \in Readable(R) : sel(r) \in Selector(X)
  BY DEF Readable, Rule, Selector, Prefix, Exact
<1>2. RuleSelectors(R) = {sel(r) : r \in Readable(R)}
  BY DEF RuleSelectors
<1>3. \A r \in Readable(R) : r.kind \in {"prefix", "exact"}
  BY DEF Unrestricted, Readable, Rule, RuleKinds
<1>4. \A r \in Readable(R) : Selects(sel(r), n) <=> MatchesPattern(n, r)
  BY <1>3 DEF Selects, MatchesPattern, Prefix, Exact
<1>5. IsFiniteSet(Readable(R))
  BY FS_Subset DEF Readable
<1> HIDE DEF sel
<1>6. f \in Surjection(Readable(R), RuleSelectors(R))
  BY <1>2 DEF Surjection
<1>7. IsFiniteSet(RuleSelectors(R)) /\ RuleSelectors(R) \in SUBSET Selector(X)
  BY <1>1, <1>2, <1>5, <1>6, FS_Surjection
<1>8. Selected(RuleSelectors(R), n) <=> CanRead(R, n)
  BY <1>2, <1>4 DEF Selected, CanRead
<1> QED BY <1>7, <1>8, NormalizedSelects

LEMMA FilterSelects ==
  ASSUME NEW X, NEW f \in Filter(X), f.kind # "none", NEW n \in Seq(X)
  PROVE  /\ FilterSelectors(f) \in SUBSET Selector(X) /\ IsFiniteSet(FilterSelectors(f))
         /\ Normalized(FilterSelectors(f)) \in SUBSET Selector(X)
         /\ IsFiniteSet(Normalized(FilterSelectors(f)))
         /\ Selected(Normalized(FilterSelectors(f)), n) <=> MatchesFilter(n, f)
<1>1. f.at \in Seq(X) /\ f.kind \in {"prefix", "subtree"}
  BY DEF Filter
<1>2. FilterSelectors(f) \in SUBSET Selector(X)
  BY <1>1 DEF FilterSelectors, Selector, Prefix, Exact
<1>3. IsFiniteSet(FilterSelectors(f))
  <2>1. IsFiniteSet({Exact(f.at), Prefix(f.at)})
    <3>1. IsFiniteSet({Exact(f.at)} \cup {Prefix(f.at)})
      BY FS_Singleton, FS_Union
    <3>2. {Exact(f.at)} \cup {Prefix(f.at)} = {Exact(f.at), Prefix(f.at)}
      OBVIOUS
    <3> QED BY <3>1, <3>2
  <2>2. FilterSelectors(f) \subseteq {Exact(f.at), Prefix(f.at)}
    BY DEF FilterSelectors
  <2> QED BY <2>1, <2>2, FS_Subset
<1>4. Normalized(FilterSelectors(f)) \subseteq FilterSelectors(f)
  BY DEF Normalized
<1>5. Selected(FilterSelectors(f), n) <=> MatchesFilter(n, f)
  <2>1. CASE f.kind = "prefix"
    <3>1. Selected(FilterSelectors(f), n) <=> Selects(Prefix(f.at), n)
      BY <2>1 DEF Selected, FilterSelectors
    <3> QED BY <2>1, <3>1 DEF MatchesFilter, Selects, Prefix
  <2>2. CASE f.kind = "subtree"
    <3>1. Selected(FilterSelectors(f), n)
            <=> Selects(Prefix(f.at), n) \/ Selects(Exact(f.at), n)
      BY <2>2 DEF Selected, FilterSelectors
    <3> QED BY <2>2, <3>1 DEF MatchesFilter, Selects, Prefix, Exact
  <2> QED BY <1>1, <2>1, <2>2
<1> QED BY <1>2, <1>3, <1>4, <1>5, NormalizedSelects, FS_Subset

\* The selectors of a query reach exactly the namespaces that the caller's
\* rules let it read and that match its filter (namespace-filter.ts,
\* access.ts), for every finite set of rules.
THEOREM SelectionIsExact ==
  ASSUME NEW X, NEW R \in SUBSET Rule(X), IsFiniteSet(R), NEW f \in Filter(X), NEW n \in Seq(X)
  PROVE  SelectedBy(R, f, n) <=> CanRead(R, n) /\ MatchesFilter(n, f)
<1>1. f.kind = "none" => MatchesFilter(n, f)
  BY DEF MatchesFilter
<1>2. CASE Unrestricted(R)
  <2>1. CanRead(R, n)
    BY <1>2 DEF Unrestricted, CanRead, MatchesPattern
  <2> QED BY <1>1, <1>2, <2>1, FilterSelects DEF SelectedBy
<1>3. CASE ~Unrestricted(R) /\ f.kind = "none"
  BY <1>1, <1>3, RulesSelect DEF SelectedBy
<1>4. CASE ~Unrestricted(R) /\ f.kind # "none"
  <2> DEFINE S == Normalized(RuleSelectors(R))
             T == Normalized(FilterSelectors(f))
  <2>1. S \subseteq RuleSelectors(R)
    BY DEF Normalized
  <2>2. S \in SUBSET Selector(X) /\ IsFiniteSet(S) /\ (Selected(S, n) <=> CanRead(R, n))
    BY <1>4, <2>1, RulesSelect, FS_Subset
  <2>3. T \in SUBSET Selector(X) /\ IsFiniteSet(T) /\ (Selected(T, n) <=> MatchesFilter(n, f))
    BY <1>4, FilterSelects
  <2>4. SelectedBy(R, f, n) <=> Selected(Meets(S, T), n)
    BY <1>4 DEF SelectedBy
  <2> HIDE DEF S, T
  <2> QED BY <2>2, <2>3, <2>4, MeetsSelect
<1> QED BY <1>2, <1>3, <1>4

-----------------------------------------------------------------------------
(* Pages *)

\* What the constants are: finite sets of rules, filters and namespaces over
\* some segments X, and pages that hold something.
Instances(X) ==
  /\ \A R \in RuleSets : R \subseteq Rule(X) /\ IsFiniteSet(R)
  /\ Filters \subseteq Filter(X)
  /\ Namespaces \subseteq Seq(X)
  /\ PageLimit \in Nat \ {0} /\ MaxLog \in Nat

\* The rows that a caller with rules R and filter f is due of a log l.
DueOf(R, f, l) == {i \in DOMAIN l : CanRead(R, l[i]) /\ MatchesFilter(l[i], f)}

\* The rows that the query selects of it, with the handler's early answer.
RowsOf(R, f, l) ==
  {i \in DOMAIN l :
     /\ ~(f.kind # "none" /\ ~CanReadSubtree(R, f.at) /\ ~CanRead(R, f.at))
     /\ SelectedBy(R, f, l[i])}

\* A caller that is answered early has nothing to see.
LEMMA RefusedSeesNothing ==
  ASSUME NEW X, NEW n \in Seq(X), NEW R \in SUBSET Rule(X), NEW f \in Filter(X),
         f.kind # "none", ~CanReadSubtree(R, f.at), ~CanRead(R, f.at)
  PROVE  ~(CanRead(R, n) /\ MatchesFilter(n, f))
<1>1. SUFFICES ASSUME CanRead(R, n), MatchesFilter(n, f) PROVE FALSE
  OBVIOUS
<1>2. f.at \in Seq(X)
  BY DEF Filter
<1>3. Below(n, f.at)
  BY <1>1 DEF MatchesFilter
<1>4. PICK r \in Readable(R) : MatchesPattern(n, r)
  BY <1>1 DEF CanRead
<1>5. r.at \in Seq(X)
  BY DEF Readable, Rule
<1>6. CanReadSubtree(R, f.at)
  <2>1. CASE r.kind = "all"
    BY <2>1 DEF CanReadSubtree
  <2>2. CASE r.kind = "prefix" /\ Below(n, r.at)
    <3>1. StartsWith(f.at, r.at) \/ StartsWith(r.at, f.at)
      BY <1>2, <1>3, <1>5, <2>2, PathsCompare DEF Below
    <3> QED BY <2>2, <3>1 DEF CanReadSubtree
  <2>3. CASE r.kind = "exact" /\ n = r.at
    BY <1>3, <2>3 DEF CanReadSubtree
  <2> QED BY <1>4, <2>1, <2>2, <2>3 DEF MatchesPattern
<1> QED BY <1>6

LEMMA RowsAreDue ==
  ASSUME NEW X, Instances(X), NEW R \in RuleSets, NEW f \in Filters, NEW l \in Seq(Namespaces)
  PROVE  RowsOf(R, f, l) = DueOf(R, f, l)
<1>1. /\ R \in SUBSET Rule(X) /\ IsFiniteSet(R) /\ f \in Filter(X)
      /\ \A i \in DOMAIN l : l[i] \in Seq(X)
  BY DEF Instances
<1>2. \A i \in DOMAIN l :
        SelectedBy(R, f, l[i]) <=> CanRead(R, l[i]) /\ MatchesFilter(l[i], f)
  BY <1>1, SelectionIsExact
<1> QED BY <1>1, <1>2, RefusedSeesNothing DEF RowsOf, DueOf

LEMMA RowsHere ==
  ASSUME NEW X, Instances(X), TypeOK
  PROVE  /\ Rows = DueOf(rules, filter, log)
         /\ \A i \in Rows : CanRead(rules, log[i])
         /\ Rows \in SUBSET (1 .. MaxLog) /\ IsFiniteSet(Rows)
         /\ \A i \in Rows : i <= Len(log)
<1>1. log \in Seq(Namespaces) /\ Len(log) <= MaxLog /\ MaxLog \in Nat
  BY DEF TypeOK, Instances
<1>2. DOMAIN log = 1 .. Len(log) /\ Len(log) \in Nat
  BY <1>1
<1>3. Rows = RowsOf(rules, filter, log)
  BY DEF Rows, Refused, RowsOf
<1>4. Rows = DueOf(rules, filter, log)
  BY <1>3, RowsAreDue DEF TypeOK
<1>5. \A i \in Rows : i \in 1 .. Len(log)
  BY <1>2 DEF Rows
<1>6. IsFiniteSet(1 .. MaxLog)
  BY <1>1, FS_Interval
<1>7. Rows \in SUBSET (1 .. MaxLog) /\ \A i \in Rows : i <= Len(log)
  BY <1>1, <1>2, <1>5
<1>8. IsFiniteSet(Rows)
  BY <1>6, <1>7, FS_Subset
<1> QED BY <1>4, <1>7, <1>8 DEF DueOf

LEMMA NewestPage ==
  ASSUME NEW S \in SUBSET Nat, IsFiniteSet(S), PageLimit \in Nat \ {0}
  PROVE  /\ Newest(S) \subseteq S /\ IsFiniteSet(Newest(S))
         /\ \A i \in S \ Newest(S), j \in Newest(S) : i < j
         /\ S # {} => Newest(S) # {}
<1> DEFINE after(i) == {j \in S : j > i}
<1>1. Newest(S) \subseteq S
  BY DEF Newest
<1>2. \A i \in S : IsFiniteSet(after(i)) /\ Cardinality(after(i)) \in Nat
  <2> TAKE i \in S
  <2>1. after(i) \subseteq S
    OBVIOUS
  <2> HIDE DEF after
  <2> QED BY <2>1, FS_Subset, FS_CardinalityType
<1>3. ASSUME NEW i \in S \ Newest(S), NEW j \in Newest(S) PROVE i < j
  <2>1. SUFFICES ASSUME ~(i < j) PROVE FALSE
    OBVIOUS
  <2>2. i \in S /\ j \in S /\ \A k \in S : k \in Nat
    BY <1>1
  <2>3. after(i) \subseteq after(j)
    <3> SUFFICES ASSUME NEW k \in S, k > i PROVE k > j
      OBVIOUS
    <3>1. i \in Nat /\ j \in Nat /\ k \in Nat
      BY <2>2
    <3> QED BY <2>1, <3>1
  <2>4. Cardinality(after(i)) <= Cardinality(after(j))
    <3> HIDE DEF after
    <3> QED BY <1>2, <2>2, <2>3, FS_Subset
  <2>5. Cardinality(after(j)) < PageLimit /\ ~(Cardinality(after(i)) < PageLimit)
    BY DEF Newest
  <2> QED BY <1>2, <2>2, <2>4, <2>5
<1>4. ASSUME S # {} PROVE Newest(S) # {}
  <2>1. PICK i \in S : \A j \in S : j <= i
    BY <1>4, HasHighest
  <2>2. after(i) = {}
    <3> SUFFICES ASSUME NEW j \in S, j > i PROVE FALSE
      OBVIOUS
    <3>1. i \in Nat /\ j \in Nat /\ j <= i
      BY <2>1
    <3> QED BY <3>1
  <2>3. Cardinality(after(i)) = 0
    BY <2>2, FS_EmptySet
  <2>4. i \in Newest(S)
    BY <2>3 DEF Newest
  <2> QED BY <2>4
<1> QED BY <1>1, <1>3, <1>4, FS_Subset

LEMMA OldestPage ==
  ASSUME NEW S \in SUBSET Nat, IsFiniteSet(S), PageLimit \in Nat \ {0}
  PROVE  /\ Oldest(S) \subseteq S /\ IsFiniteSet(Oldest(S))
         /\ \A i \in S \ Oldest(S), j \in Oldest(S) : j < i
<1> DEFINE before(i) == {j \in S : j < i}
<1>1. Oldest(S) \subseteq S
  BY DEF Oldest
<1>2. \A i \in S : IsFiniteSet(before(i)) /\ Cardinality(before(i)) \in Nat
  <2> TAKE i \in S
  <2>1. before(i) \subseteq S
    OBVIOUS
  <2> HIDE DEF before
  <2> QED BY <2>1, FS_Subset, FS_CardinalityType
<1>3. ASSUME NEW i \in S \ Oldest(S), NEW j \in Oldest(S) PROVE j < i
  <2>1. SUFFICES ASSUME ~(j < i) PROVE FALSE
    OBVIOUS
  <2>2. i \in S /\ j \in S /\ \A k \in S : k \in Nat
    BY <1>1
  <2>3. before(i) \subseteq before(j)
    <3> SUFFICES ASSUME NEW k \in S, k < i PROVE k < j
      OBVIOUS
    <3>1. i \in Nat /\ j \in Nat /\ k \in Nat
      BY <2>2
    <3> QED BY <2>1, <3>1
  <2>4. Cardinality(before(i)) <= Cardinality(before(j))
    <3> HIDE DEF before
    <3> QED BY <1>2, <2>2, <2>3, FS_Subset
  <2>5. Cardinality(before(j)) < PageLimit /\ ~(Cardinality(before(i)) < PageLimit)
    BY DEF Oldest
  <2> QED BY <1>2, <2>2, <2>4, <2>5
<1> QED BY <1>1, <1>3, FS_Subset

LEMMA Ends ==
  ASSUME NEW S \in SUBSET Nat, IsFiniteSet(S), NEW none
  PROVE  /\ S = {} => Highest(S, none) = none /\ Lowest(S, none) = none
         /\ S # {} => /\ Highest(S, none) \in S /\ \A j \in S : j <= Highest(S, none)
                      /\ Lowest(S, none) \in S /\ \A j \in S : Lowest(S, none) <= j
<1>1. CASE S = {}
  BY <1>1 DEF Highest, Lowest
<1>2. CASE S # {}
  BY <1>2, HasHighest, HasLowest DEF Highest, Lowest
<1> QED BY <1>1, <1>2

\* The rows of S from a cursor back to the beginning up to a sync cursor.
Held(S, older, sync) == {i \in S : i <= sync /\ (older = NoCursor \/ older <= i)}

LEMMA FirstPage ==
  ASSUME MaxLog \in Nat, PageLimit \in Nat \ {0}, NEW S \in SUBSET (1 .. MaxLog), IsFiniteSet(S)
  PROVE  LET page == Newest(S)
             older == OlderThan(page, S)
             sync == Highest(page, 0)
         IN  /\ page = Held(S, older, sync)
             /\ sync \in 0 .. MaxLog /\ \A i \in S : i <= sync
             /\ older \in 1 .. NoCursor /\ (older # NoCursor => older <= sync)
<1> DEFINE page == Newest(S)
           older == OlderThan(page, S)
           sync == Highest(page, 0)
<1>1. \A i \in S : i \in 1 .. MaxLog
  OBVIOUS
<1>2. S \in SUBSET Nat
  BY <1>1
<1>3. /\ page \subseteq S /\ IsFiniteSet(page)
      /\ \A i \in S \ page, j \in page : i < j
      /\ S # {} => page # {}
  BY <1>2, NewestPage
<1>4. page \in SUBSET Nat
  BY <1>2, <1>3
<1> HIDE DEF page
<1>5. CASE S = {}
  <2>1. page = {} /\ sync = 0 /\ older = NoCursor
    BY <1>3, <1>4, <1>5, Ends DEF OlderThan
  <2> QED BY <1>5, <2>1 DEF page, Held, NoCursor
<1>6. CASE S # {}
  <2>1. sync \in page /\ \A j \in page : j <= sync
    BY <1>3, <1>4, <1>6, Ends
  <2>2. sync \in 1 .. MaxLog
    BY <1>1, <1>3, <2>1
  <2> HIDE DEF sync
  <2>3. \A i \in S : i <= sync
    <3> SUFFICES ASSUME NEW i \in S PROVE i <= sync
      OBVIOUS
    <3>1. i \in 1 .. MaxLog /\ (i \in page \/ i < sync)
      BY <1>1, <1>3, <2>1
    <3> QED BY <2>1, <2>2, <3>1
  <2>4. CASE page = S
    <3>1. older = NoCursor
      BY <2>4 DEF OlderThan
    <3>2. page = Held(S, older, sync)
      BY <2>3, <2>4, <3>1 DEF Held
    <3> QED BY <2>2, <2>3, <3>1, <3>2 DEF page, sync, NoCursor
  <2>5. CASE page # S
    <3>1. older \in page /\ \A j \in page : older <= j
      BY <1>3, <1>4, <1>6, <2>5, Ends DEF OlderThan
    <3>2. older \in 1 .. MaxLog /\ older <= sync
      BY <1>1, <1>3, <2>1, <3>1
    <3> HIDE DEF older
    <3>3. ASSUME NEW i \in S PROVE i \in page <=> i <= sync /\ (older = NoCursor \/ older <= i)
      <4>1. i \in 1 .. MaxLog /\ i <= sync /\ (i \in page => older <= i)
            /\ (i \notin page => i < older)
        BY <1>1, <1>3, <2>3, <3>1
      <4> QED BY <3>2, <4>1 DEF NoCursor
    <3>4. page = Held(S, older, sync)
      BY <1>3, <3>3 DEF Held
    <3> QED BY <2>2, <2>3, <3>2, <3>4 DEF page, sync, older, NoCursor
  <2> QED BY <2>4, <2>5
<1> QED BY <1>5, <1>6

LEMMA OlderPage ==
  ASSUME MaxLog \in Nat, PageLimit \in Nat \ {0}, NEW S \in SUBSET (1 .. MaxLog), IsFiniteSet(S),
         NEW older \in 1 .. MaxLog, NEW sync \in 0 .. MaxLog, older <= sync
  PROVE  LET all == {i \in S : i < older}
             page == Newest(all)
             next == OlderThan(page, all)
         IN  /\ page \subseteq S
             /\ Held(S, older, sync) \cup page = Held(S, next, sync)
             /\ next \in 1 .. NoCursor /\ (next # NoCursor => next <= sync)
<1> DEFINE all == {i \in S : i < older}
           page == Newest(all)
           next == OlderThan(page, all)
<1>1. \A i \in S : i \in 1 .. MaxLog
  OBVIOUS
<1>2. all \in SUBSET Nat /\ all \subseteq S /\ IsFiniteSet(all)
  <2>1. all \subseteq S
    OBVIOUS
  <2> HIDE DEF all
  <2>2. all \in SUBSET Nat
    BY <1>1, <2>1
  <2>3. IsFiniteSet(all)
    BY <2>1, FS_Subset
  <2> QED BY <2>1, <2>2, <2>3
<1>3. \A i \in S : i \in all <=> i < older
  OBVIOUS
<1> HIDE DEF all
<1>4. /\ page \subseteq all /\ IsFiniteSet(page)
      /\ \A i \in all \ page, j \in page : i < j
      /\ all # {} => page # {}
  BY <1>2, NewestPage
<1>5. page \in SUBSET Nat
  BY <1>2, <1>4
<1> HIDE DEF page
<1>6. older # NoCursor
  BY DEF NoCursor
<1>7. CASE page = all
  <2>1. next = NoCursor
    BY <1>7 DEF OlderThan
  <2>2. ASSUME NEW i \in S
        PROVE  i \in Held(S, older, sync) \cup page <=> i \in Held(S, next, sync)
    <3>1. i \in 1 .. MaxLog /\ (i \in page <=> i < older)
      BY <1>1, <1>3, <1>7
    <3> QED BY <1>6, <2>1, <3>1 DEF Held
  <2>3. Held(S, older, sync) \cup page = Held(S, next, sync)
    BY <1>2, <1>4, <2>2 DEF Held
  <2> QED BY <1>2, <1>4, <2>1, <2>3 DEF all, page, NoCursor
<1>8. CASE page # all
  <2>1. next \in page /\ \A j \in page : next <= j
    BY <1>4, <1>5, <1>8, Ends DEF OlderThan
  <2>2. next \in 1 .. MaxLog /\ next < older
    BY <1>1, <1>2, <1>3, <1>4, <2>1
  <2> HIDE DEF next
  <2>3. ASSUME NEW i \in S
        PROVE  i \in Held(S, older, sync) \cup page <=> i \in Held(S, next, sync)
    <3>1. /\ i \in 1 .. MaxLog /\ (i \in page => i < older /\ next <= i)
          /\ (i < older /\ i \notin page => i < next)
      BY <1>1, <1>3, <1>4, <2>1
    <3> QED BY <1>6, <2>2, <3>1 DEF Held, NoCursor
  <2>4. Held(S, older, sync) \cup page = Held(S, next, sync)
    BY <1>2, <1>4, <2>3 DEF Held
  <2>5. next \in 1 .. NoCursor /\ next <= sync
    BY <2>2 DEF NoCursor
  <2> QED BY <1>2, <1>4, <2>4, <2>5 DEF all, page, next
<1> QED BY <1>7, <1>8

LEMMA PolledPage ==
  ASSUME MaxLog \in Nat, PageLimit \in Nat \ {0}, NEW S \in SUBSET (1 .. MaxLog), IsFiniteSet(S),
         NEW older \in 1 .. NoCursor, NEW sync \in 0 .. MaxLog,
         older # NoCursor => older <= sync
  PROVE  LET all == {i \in S : i > sync}
             page == Oldest(all)
             next == Highest(page, sync)
         IN  /\ page \subseteq S
             /\ Held(S, older, sync) \cup page = Held(S, older, next)
             /\ next \in 0 .. MaxLog /\ sync <= next
             /\ page = all => \A i \in S : i <= next
<1> DEFINE all == {i \in S : i > sync}
           page == Oldest(all)
           next == Highest(page, sync)
<1>1. \A i \in S : i \in 1 .. MaxLog
  OBVIOUS
<1>2. all \in SUBSET Nat /\ all \subseteq S /\ IsFiniteSet(all)
  <2>1. all \subseteq S
    OBVIOUS
  <2> HIDE DEF all
  <2>2. all \in SUBSET Nat
    BY <1>1, <2>1
  <2>3. IsFiniteSet(all)
    BY <2>1, FS_Subset
  <2> QED BY <2>1, <2>2, <2>3
<1>3. \A i \in S : i \in all <=> i > sync
  OBVIOUS
<1> HIDE DEF all
<1>4. /\ page \subseteq all /\ IsFiniteSet(page)
      /\ \A i \in all \ page, j \in page : j < i
  BY <1>2, OldestPage
<1>5. page \in SUBSET Nat
  BY <1>2, <1>4
<1> HIDE DEF page
<1>6. /\ next \in 0 .. MaxLog /\ sync <= next
      /\ \A j \in page : j <= next
      /\ next = sync \/ next \in page
  <2>1. CASE page = {}
    <3>1. next = sync
      BY <1>4, <1>5, <2>1, Ends
    <3> QED BY <2>1, <3>1
  <2>2. CASE page # {}
    <3>1. next \in page /\ \A j \in page : j <= next
      BY <1>4, <1>5, <2>2, Ends
    <3>2. next \in 1 .. MaxLog /\ next > sync
      BY <1>1, <1>2, <1>3, <1>4, <3>1
    <3> QED BY <3>1, <3>2
  <2> QED BY <2>1, <2>2
<1> HIDE DEF next
<1>7. ASSUME NEW i \in S
      PROVE  i \in Held(S, older, sync) \cup page <=> i \in Held(S, older, next)
  <2>1. /\ i \in 1 .. MaxLog /\ (i \in page => i > sync /\ i <= next)
        /\ (i > sync /\ i \notin page => next = sync \/ next < i)
    BY <1>1, <1>3, <1>4, <1>6
  <2> QED BY <1>6, <2>1 DEF Held, NoCursor
<1>8. Held(S, older, sync) \cup page = Held(S, older, next)
  BY <1>2, <1>4, <1>7 DEF Held
<1>9. ASSUME page = all, NEW i \in S PROVE i <= next
  <2>1. i \in 1 .. MaxLog /\ (i > sync => i <= next)
    BY <1>1, <1>3, <1>6, <1>9
  <2> QED BY <1>6, <2>1
<1> QED BY <1>2, <1>4, <1>6, <1>8, <1>9 DEF all, page, next

-----------------------------------------------------------------------------
(* The invariant *)

\* What the consumer has is all it is due between its two cursors, and beyond
\* the sync cursor there is nothing when it is told so.
ReaderHolds ==
  reader.begun =>
    /\ reader.got = Held(Rows, reader.older, reader.sync)
    /\ reader.sync <= Len(log)
    /\ reader.older # NoCursor => reader.older <= reader.sync
    /\ reader.current => \A i \in Rows : i <= reader.sync

IInv == TypeOK /\ ReaderHolds

LEMMA RowsKept ==
  ASSUME UNCHANGED <<rules, filter, log>>
  PROVE  Rows' = Rows /\ \A S : Visible(S)' = {i \in S : CanRead(rules, log[i])}
BY DEF Rows, Refused, Visible

LEMMA InitHolds ==
  ASSUME NEW X, Instances(X), Init
  PROVE  IInv
<1>1. MaxLog \in Nat
  BY DEF Instances
<1>2. log \in Seq(Namespaces) /\ Len(log) <= MaxLog
  BY <1>1 DEF Init
<1>3. NoCursor \in 1 .. NoCursor /\ 0 \in 0 .. MaxLog
  BY <1>1 DEF NoCursor
<1> QED BY <1>2, <1>3 DEF Init, IInv, TypeOK, ReaderHolds

\* A row more lies beyond the sync cursor.
LEMMA LogKeeps ==
  ASSUME NEW X, Instances(X), IInv, NEW n \in Namespaces, Log(n)
  PROVE  IInv'
<1>1. log \in Seq(Namespaces) /\ Len(log) < MaxLog /\ MaxLog \in Nat /\ log' = Append(log, n)
      /\ rules' = rules /\ filter' = filter /\ reader' = [reader EXCEPT !.current = FALSE]
  BY DEF IInv, TypeOK, Instances, Log
<1>2. /\ log' \in Seq(Namespaces) /\ Len(log') = Len(log) + 1 /\ Len(log) \in Nat
      /\ DOMAIN log = 1 .. Len(log) /\ DOMAIN log' = 1 .. (Len(log) + 1)
      /\ \A i \in DOMAIN log : log'[i] = log[i]
  BY <1>1
<1>3. TypeOK'
  <2>1. reader' \in [got: SUBSET (1 .. MaxLog), older: 1 .. NoCursor, sync: 0 .. MaxLog,
                     begun: BOOLEAN, current: BOOLEAN]
    BY <1>1 DEF IInv, TypeOK
  <2> QED BY <1>1, <1>2, <2>1 DEF IInv, TypeOK
<1>4. Rows = DueOf(rules, filter, log) /\ Rows' = DueOf(rules, filter, log')
  <2>1. Rows = DueOf(rules, filter, log)
    BY RowsHere DEF IInv
  <2>2. PICK l \in Seq(Namespaces) : l = log'
    BY <1>2
  <2>3. RowsOf(rules, filter, l) = DueOf(rules, filter, l)
    BY RowsAreDue DEF IInv, TypeOK
  <2>4. Rows' = RowsOf(rules, filter, log')
    BY <1>1 DEF Rows, Refused, RowsOf
  <2> QED BY <2>1, <2>2, <2>3, <2>4
<1>5. ReaderHolds'
  BY <1>1, <1>2, <1>4 DEF IInv, ReaderHolds, TypeOK, Held, DueOf
<1> QED BY <1>3, <1>5 DEF IInv

ReaderType ==
  [got: SUBSET (1 .. MaxLog), older: 1 .. NoCursor, sync: 0 .. MaxLog, begun: BOOLEAN,
   current: BOOLEAN]

\* The reader as a step leaves it.
LEMMA ReaderStep ==
  ASSUME NEW X, Instances(X), IInv, UNCHANGED <<rules, filter, log>>, reader' \in ReaderType,
         reader'.got = Held(Rows, reader'.older, reader'.sync), reader'.sync <= Len(log),
         reader'.older # NoCursor => reader'.older <= reader'.sync,
         reader'.current => \A i \in Rows : i <= reader'.sync
  PROVE  IInv'
<1>1. Rows' = Rows
  BY RowsKept
<1>2. TypeOK'
  BY DEF IInv, TypeOK, ReaderType
<1>3. ReaderHolds'
  BY <1>1 DEF ReaderHolds, Held
<1> QED BY <1>2, <1>3 DEF IInv

\* A page's rows are all shown, and its highest is a row of the log.
LEMMA PageShown ==
  ASSUME NEW X, Instances(X), TypeOK, NEW S \in SUBSET Rows
  PROVE  Visible(S) = S
BY RowsHere DEF Visible

LEMMA FirstKeeps ==
  ASSUME NEW X, Instances(X), IInv, First
  PROVE  IInv'
<1> DEFINE page == Newest(Rows)
           older == OlderThan(page, Rows)
           sync == Highest(page, 0)
<1>1. /\ Rows \in SUBSET (1 .. MaxLog) /\ IsFiniteSet(Rows)
      /\ \A i \in Rows : i <= Len(log)
      /\ MaxLog \in Nat /\ PageLimit \in Nat \ {0} /\ Len(log) \in Nat
  BY RowsHere DEF IInv, TypeOK, Instances
<1>2. /\ page = Held(Rows, older, sync)
      /\ sync \in 0 .. MaxLog /\ \A i \in Rows : i <= sync
      /\ older \in 1 .. NoCursor /\ (older # NoCursor => older <= sync)
  BY <1>1, FirstPage
<1>3. sync <= Len(log)
  <2>1. Rows \in SUBSET Nat
    BY <1>1
  <2>2. page \subseteq Rows /\ IsFiniteSet(page) /\ page \in SUBSET Nat
    BY <1>1, <2>1, NewestPage
  <2> HIDE DEF page
  <2>3. sync = 0 \/ sync \in page
    BY <2>2, Ends
  <2> HIDE DEF sync
  <2>4. CASE sync = 0
    BY <1>1, <2>4
  <2>5. CASE sync \in page
    BY <1>1, <2>2, <2>5
  <2> QED BY <2>3, <2>4, <2>5
<1>4. Visible(page) = page
  <2>1. page \in SUBSET Rows
    BY DEF Newest
  <2> QED BY <2>1, PageShown DEF IInv
<1>5. /\ reader' = [got |-> page, older |-> older, sync |-> sync, begun |-> TRUE, current |-> TRUE]
      /\ UNCHANGED <<rules, filter, log>>
  BY <1>4 DEF First, FirstSync
<1> HIDE DEF page, older, sync
<1>6. page \in SUBSET (1 .. MaxLog)
  BY <1>1, <1>2 DEF Held
<1>7. reader' \in ReaderType
  BY <1>2, <1>5, <1>6 DEF ReaderType
<1> QED BY <1>2, <1>3, <1>5, <1>7, ReaderStep

LEMMA OlderKeeps ==
  ASSUME NEW X, Instances(X), IInv, Older
  PROVE  IInv'
<1> DEFINE all == {i \in Rows : i < reader.older}
           page == Newest(all)
           next == OlderThan(page, all)
<1>1. /\ Rows \in SUBSET (1 .. MaxLog) /\ IsFiniteSet(Rows)
      /\ MaxLog \in Nat /\ PageLimit \in Nat \ {0}
  BY RowsHere DEF IInv, Instances
<1>2. /\ reader.got = Held(Rows, reader.older, reader.sync)
      /\ reader.sync \in 0 .. MaxLog /\ reader.sync <= Len(log)
      /\ reader.older \in 1 .. MaxLog /\ reader.older <= reader.sync
  BY <1>1 DEF Older, IInv, ReaderHolds, TypeOK, NoCursor
<1>3. reader.current \in BOOLEAN /\ (reader.current => \A i \in Rows : i <= reader.sync)
  BY DEF Older, IInv, ReaderHolds, TypeOK
<1>4. /\ page \subseteq Rows
      /\ Held(Rows, reader.older, reader.sync) \cup page = Held(Rows, next, reader.sync)
      /\ next \in 1 .. NoCursor /\ (next # NoCursor => next <= reader.sync)
  BY <1>1, <1>2, OlderPage
<1>5. Visible(page) = page
  BY <1>4, PageShown DEF IInv
<1>6. /\ reader' = [reader EXCEPT !.got = @ \cup page, !.older = next]
      /\ UNCHANGED <<rules, filter, log>>
  BY <1>5 DEF Older
<1> HIDE DEF page, next
<1>7. reader' = [got |-> reader.got \cup page, older |-> next, sync |-> reader.sync,
                 begun |-> TRUE, current |-> reader.current]
  BY <1>6 DEF IInv, TypeOK, Older
<1>8. reader.got \cup page \in SUBSET (1 .. MaxLog)
  BY <1>1, <1>2, <1>4 DEF Held
<1>9. reader' \in ReaderType
  BY <1>2, <1>4, <1>7, <1>3, <1>8 DEF ReaderType
<1> QED BY <1>2, <1>4, <1>6, <1>7, <1>3, <1>9, ReaderStep

LEMMA PollKeeps ==
  ASSUME NEW X, Instances(X), IInv, Poll
  PROVE  IInv'
<1> DEFINE all == {i \in Rows : i > reader.sync}
           page == Oldest(all)
           next == Highest(page, reader.sync)
<1>1. /\ Rows \in SUBSET (1 .. MaxLog) /\ IsFiniteSet(Rows)
      /\ \A i \in Rows : i <= Len(log)
      /\ MaxLog \in Nat /\ PageLimit \in Nat \ {0} /\ Len(log) \in Nat
  BY RowsHere DEF IInv, TypeOK, Instances
<1>2. /\ reader.got = Held(Rows, reader.older, reader.sync)
      /\ reader.sync \in 0 .. MaxLog /\ reader.sync <= Len(log)
      /\ reader.older \in 1 .. NoCursor
      /\ reader.older # NoCursor => reader.older <= reader.sync
  BY DEF Poll, IInv, ReaderHolds, TypeOK
<1>3. /\ page \subseteq Rows
      /\ Held(Rows, reader.older, reader.sync) \cup page = Held(Rows, reader.older, next)
      /\ next \in 0 .. MaxLog /\ reader.sync <= next
      /\ page = all => \A i \in Rows : i <= next
  BY <1>1, <1>2, PolledPage
<1>4. next <= Len(log)
  <2> HIDE DEF page
  <2>1. page \in SUBSET Nat /\ IsFiniteSet(page)
    <3>1. page \in SUBSET Nat
      BY <1>1, <1>3
    <3> QED BY <1>1, <1>3, <3>1, FS_Subset
  <2>2. next = reader.sync \/ next \in page
    BY <2>1, Ends
  <2> QED BY <1>1, <1>2, <1>3, <2>2
<1>5. Visible(page) = page
  BY <1>3, PageShown DEF IInv
<1>6. /\ reader' = [reader EXCEPT !.got = @ \cup page, !.sync = next, !.current = page = all]
      /\ UNCHANGED <<rules, filter, log>>
  BY <1>5 DEF Poll
<1>7. reader.older # NoCursor => reader.older <= next
  <2> HIDE DEF next
  <2> QED BY <1>2, <1>3
<1> DEFINE current == page = all
<1>8. current \in BOOLEAN /\ (current => \A i \in Rows : i <= next)
  BY <1>3
<1> HIDE DEF page, next, all, current
<1>9. reader' = [got |-> reader.got \cup page, older |-> reader.older, sync |-> next,
                 begun |-> TRUE, current |-> current]
  BY <1>6 DEF IInv, TypeOK, Poll, current
<1>10. reader.got \cup page \in SUBSET (1 .. MaxLog)
  BY <1>1, <1>2, <1>3 DEF Held
<1>11. reader' \in ReaderType
  BY <1>2, <1>3, <1>8, <1>9, <1>10 DEF ReaderType
<1>12. /\ reader'.got = Held(Rows, reader'.older, reader'.sync)
       /\ reader'.older = reader.older /\ reader'.sync = next /\ reader'.current = current
  BY <1>2, <1>3, <1>9
<1> QED BY <1>4, <1>6, <1>7, <1>8, <1>11, <1>12, ReaderStep

LEMMA NextKeeps ==
  ASSUME NEW X, Instances(X), IInv, [Next]_vars
  PROVE  IInv'
<1>1. CASE UNCHANGED vars
  <2>1. UNCHANGED <<rules, filter, log, reader>>
    BY <1>1 DEF vars
  <2> QED BY <2>1, RowsKept DEF IInv, TypeOK, ReaderHolds, Held
<1> QED BY <1>1, LogKeeps, FirstKeeps, OlderKeeps, PollKeeps DEF Next

LEMMA HeldIsWhole ==
  ASSUME NEW X, Instances(X), IInv
  PROVE  HistoryIsWhole
<1>1. Rows = DueOf(rules, filter, log)
  BY RowsHere DEF IInv
<1>2. ASSUME reader.begun, reader.current, reader.older = NoCursor
      PROVE  reader.got = DueOf(rules, filter, log)
  BY <1>1, <1>2 DEF IInv, ReaderHolds, Held
<1> QED BY <1>2 DEF HistoryIsWhole, DueOf

\* A consumer that has paged to the beginning and polled to the end has all the
\* rows that its rules and its filter let it see and no other, whatever is
\* written between its calls and however small its pages are.
THEOREM HistoryIsWholeAlways ==
  ASSUME NEW X, Instances(X)
  PROVE  Spec => []HistoryIsWhole
<1>1. Init => IInv
  BY InitHolds
<1>2. IInv /\ [Next]_vars => IInv'
  BY NextKeeps
<1>3. IInv => HistoryIsWhole
  BY HeldIsWhole
<1> QED BY <1>1, <1>2, <1>3, PTL DEF Spec

===============================================================================
