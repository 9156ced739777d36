---------------------------- MODULE MatchingProofs ----------------------------
(***************************************************************************)
(* What holds of matching and of the distances for every set of words,     *)
(* names and patterns, and for requests of any number of pairs.            *)
(*                                                                         *)
(* Apart from typing there is nothing inductive about the states here.     *)
(* For matching, the work is in the table of matchers: the lemmas split it *)
(* by what two matchers share.  For the distances it is in the measures:   *)
(* the edit distance is a table that is filled by induction on the lengths *)
(* of the prefixes it compares, and each comparator that refuses is shown  *)
(* to give a distance above 0 before the pairs of a request are looked at. *)
(***************************************************************************)
EXTENDS Distances, SelectionsProofs, FiniteSetTheorems, TLAPS

-------------------------------------------------------------------------------
\* Conditions and requests keep the form in which the readers produce them,
\* whatever pairs a request is built from.
THEOREM MatchingTypeCorrect == Spec => []TypeOK
<1>1. Init => TypeOK
  BY MatchingAssumption DEF Init, TypeOK
<1>2. TypeOK /\ [Next]_vars => TypeOK'
  <2> SUFFICES ASSUME TypeOK, [Next]_vars PROVE TypeOK'
    OBVIOUS
  <2>1. ASSUME NEW name \in Names, NEW w \in Words, AddPair(name, w) PROVE TypeOK'
    <3>1. [name |-> name, value |-> w] \in [name: Names, value: Words]
      OBVIOUS
    <3>2. pairs' \in Seq([name: Names, value: Words]) /\ Len(pairs') <= MaxPairs
      BY <2>1, <3>1, MatchingAssumption DEF AddPair, TypeOK
    <3>3. QED
      BY <2>1, <3>2 DEF AddPair, TypeOK
  <2>2. CASE NextRequest
    BY <2>2, MatchingAssumption DEF NextRequest, TypeOK
  <2>3. CASE UNCHANGED vars
    BY <2>3 DEF vars, TypeOK
  <2>4. QED
    BY <2>1, <2>2, <2>3 DEF Next
<1>3. QED
  BY <1>1, <1>2, PTL DEF Spec

-------------------------------------------------------------------------------
\* Opposites.  Two comparators that differ in negation only never both hold, also
\* where a comparison gives up early; names may be compared with less regard to
\* case in the negative condition than in the positive one.

StringTests == {"equals", "includes", "prefix", "suffix"}

LEMMA StringOpposites ==
    ASSUME NEW test \in StringTests, NEW folds, NEW expected, NEW actual
    PROVE  ~(/\ Compare(Comparator(test, folds, FALSE), expected, actual)
             /\ Compare(Comparator(test, folds, TRUE), expected, actual))
BY DEF StringTests, Compare, Comparator, StringEquals, StringContains, StringHasPrefix,
       StringHasSuffix, Includes, IsPrefix, IsSuffix

LEMMA BytesOpposites ==
    ASSUME NEW test \in {"bytes", "bytes includes", "bytes prefix", "bytes suffix", "hostname"},
           NEW folds, NEW expected, expected # <<>> \/ test = "hostname", NEW actual
    PROVE  ~(/\ Compare(Comparator(test, folds, FALSE), expected, actual)
             /\ Compare(Comparator(test, folds, TRUE), expected, actual))
BY DEF Compare, Comparator, StringEquals, BytesIncludes, BytesPrefix, BytesSuffix,
       HostnameEquals, Includes, IsPrefix, IsSuffix

Opposites == {<<"equal", "not">>, <<"includes", "excludes">>, <<"prefix", "prefix_not">>,
              <<"suffix", "suffix_not">>}

\* MultiValueAccepts with the pairs as a parameter.
OverPairs(ps, m, name, expected) ==
    /\ m.keyRequired => \E n \in DOMAIN ps : Compare(m.key, name, ps[n].name)
    /\ IF m.strategy = "Absence"
       THEN \A n \in DOMAIN ps : PairMeets(m, name, expected, ps[n])
       ELSE \E n \in DOMAIN ps : PairMeets(m, name, expected, ps[n])

LEMMA AcceptsPairs ==
    ASSUME NEW m, NEW name, NEW expected
    PROVE  MultiValueAccepts(m, name, expected) <=> OverPairs(pairs, m, name, expected)
BY DEF MultiValueAccepts, OverPairs

\* The four tables of pairs, as one: the positive condition never folds the case of
\* names when its opposite does not.
LEMMA PairTable ==
    ASSUME NEW e \in PairEntities, NEW p \in Opposites
    PROVE  \E f, g \in BOOLEAN : /\ MatcherFor(e, p[1]) = PairMatcher(p[1], f)
                                 /\ MatcherFor(e, p[2]) = PairMatcher(p[2], g)
                                 /\ (f = TRUE => g = TRUE)
<1>1. (p[1] \in {"prefix_not", "suffix_not"}) = FALSE /\ (p[1] = "prefix_not") = FALSE
  BY DEF Opposites
<1>2. CASE e = "query"
  BY <1>2 DEF MatcherFor, QueryMatcher
<1>3. CASE e = "header"
  BY <1>3 DEF MatcherFor, HeaderMatcher
<1>4. CASE e = "cookie"
  <2>1. /\ MatcherFor(e, p[1]) = PairMatcher(p[1], FALSE)
        /\ MatcherFor(e, p[2]) = PairMatcher(p[2], p[2] \in {"prefix_not", "suffix_not"})
    BY <1>1, <1>4, Zenon DEF MatcherFor, CookieMatcher
  <2>2. (p[2] \in {"prefix_not", "suffix_not"}) \in BOOLEAN
    OBVIOUS
  <2>3. QED
    BY <2>1, <2>2, Zenon
<1>5. CASE e = "form"
  <2>1. /\ MatcherFor(e, p[1]) = PairMatcher(p[1], FALSE)
        /\ MatcherFor(e, p[2]) = PairMatcher(p[2], p[2] = "prefix_not")
    BY <1>1, <1>5 DEF MatcherFor, FormMatcher
  <2>2. (p[2] = "prefix_not") \in BOOLEAN
    OBVIOUS
  <2>3. QED
    BY <2>1, <2>2, Zenon
<1>6. QED
  BY <1>2, <1>3, <1>4, <1>5 DEF PairEntities

\* What a matcher on pairs is for a positive condition and for a negative one.
LEMMA PositiveMatcher ==
    ASSUME NEW p \in Opposites, NEW f \in BOOLEAN
    PROVE  /\ PairMatcher(p[1], f).strategy = "Presence"
           /\ PairMatcher(p[1], f).operator = "AND"
           /\ PairMatcher(p[1], f).key = Comparator("equals", f, FALSE)
           /\ PairMatcher(p[1], f).value = Comparator(TestOf(p[1]), FALSE, FALSE)
<1>1. /\ p[1] \in {"equal", "includes", "prefix", "suffix"}
      /\ p[1] \notin Negative \cup {"missing"} /\ p[1] \notin {"matches", "count"}
      /\ (p[1] = "missing") = FALSE /\ (p[1] \in Negative) = FALSE
  BY DEF Opposites, Negative
<1>2. QED
  BY <1>1 DEF PairMatcher

LEMMA NegativeMatcher ==
    ASSUME NEW p \in Opposites, NEW f \in BOOLEAN
    PROVE  /\ PairMatcher(p[2], f).strategy = "Absence"
           /\ PairMatcher(p[2], f).operator = "IMPLICATION"
           /\ PairMatcher(p[2], f).key = Comparator("equals", f, FALSE)
           /\ PairMatcher(p[2], f).value = Comparator(TestOf(p[1]), FALSE, TRUE)
<1>1. /\ p[2] \in Negative /\ p[2] # "missing" /\ p[2] \notin {"matches", "count"}
  BY DEF Opposites, Negative
<1>2. TestOf(p[2]) = TestOf(p[1])
  BY DEF Opposites, TestOf
<1>3. QED
  BY <1>1, <1>2 DEF PairMatcher

LEMMA FoldingKeepsEqual ==
    ASSUME NEW f \in BOOLEAN, NEW g \in BOOLEAN, (f = TRUE => g = TRUE), NEW name, NEW actual,
           Compare(Comparator("equals", f, FALSE), name, actual)
    PROVE  Compare(Comparator("equals", g, FALSE), name, actual)
BY DEF Compare, Comparator, StringEquals, Cased

LEMMA PairOpposites ==
    ASSUME NEW e \in PairEntities, NEW p \in Opposites, NEW name, NEW expected, expected # NoValue,
           MultiValueAccepts(MatcherFor(e, p[1]), name, expected)
    PROVE  ~MultiValueAccepts(MatcherFor(e, p[2]), name, expected)
<1>1. PICK f, g \in BOOLEAN : /\ MatcherFor(e, p[1]) = PairMatcher(p[1], f)
                              /\ MatcherFor(e, p[2]) = PairMatcher(p[2], g)
                              /\ (f = TRUE => g = TRUE)
  BY PairTable
<1> DEFINE m == PairMatcher(p[1], f)
           o == PairMatcher(p[2], g)
<1>2. OverPairs(pairs, m, name, expected)
  BY <1>1, AcceptsPairs
<1>3. PICK n \in DOMAIN pairs : PairMeets(m, name, expected, pairs[n])
  BY <1>2, PositiveMatcher DEF OverPairs
<1>4. /\ Compare(Comparator("equals", f, FALSE), name, pairs[n].name)
      /\ pairs[n].value # NoValue
      /\ Compare(Comparator(TestOf(p[1]), FALSE, FALSE), expected, pairs[n].value)
  BY <1>3, PositiveMatcher DEF PairMeets
<1>5. Compare(o.key, name, pairs[n].name)
  <2>1. o.key = Comparator("equals", g, FALSE)
    BY NegativeMatcher
  <2>2. Compare(Comparator("equals", g, FALSE), name, pairs[n].name)
    BY <1>1, <1>4, FoldingKeepsEqual
  <2>3. QED
    BY <2>1, <2>2
<1>6. TestOf(p[1]) \in StringTests
  BY DEF Opposites, TestOf, StringTests
<1>7. ~Compare(o.value, expected, pairs[n].value)
  BY <1>4, <1>6, StringOpposites, NegativeMatcher
<1>8. ~PairMeets(o, name, expected, pairs[n])
  BY <1>5, <1>7, NegativeMatcher DEF PairMeets
<1>9. ~OverPairs(pairs, o, name, expected)
  BY <1>3, <1>8, NegativeMatcher DEF OverPairs
<1>10. QED
  BY <1>1, <1>9, AcceptsPairs

LEMMA MissingOpposite ==
    ASSUME NEW e \in PairEntities, NEW name,
           MultiValueAccepts(MatcherFor(e, "exists"), name, NoValue)
    PROVE  ~MultiValueAccepts(MatcherFor(e, "missing"), name, NoValue)
<1>1. PICK f \in BOOLEAN : /\ MatcherFor(e, "exists") = PairMatcher("exists", f)
                           /\ MatcherFor(e, "missing") = PairMatcher("missing", f)
  <2>1. CASE e = "query"
    BY <2>1 DEF MatcherFor, QueryMatcher
  <2>2. CASE e = "header"
    BY <2>2 DEF MatcherFor, HeaderMatcher
  <2>3. CASE e = "cookie"
    <3>1. /\ ("exists" \in {"prefix_not", "suffix_not"}) = FALSE
          /\ ("missing" \in {"prefix_not", "suffix_not"}) = FALSE
      OBVIOUS
    <3>2. QED
      BY <2>3, <3>1 DEF MatcherFor, CookieMatcher
  <2>4. CASE e = "form"
    <3>1. ("exists" = "prefix_not") = FALSE /\ ("missing" = "prefix_not") = FALSE
      OBVIOUS
    <3>2. QED
      BY <2>4, <3>1 DEF MatcherFor, FormMatcher
  <2>5. QED
    BY <2>1, <2>2, <2>3, <2>4 DEF PairEntities
<1>2. /\ PairMatcher("exists", f).strategy = "Presence"
      /\ PairMatcher("exists", f).operator = "AND"
      /\ PairMatcher("exists", f).key = Comparator("equals", f, FALSE)
      /\ PairMatcher("missing", f).strategy = "Absence"
      /\ PairMatcher("missing", f).operator = "AND"
      /\ PairMatcher("missing", f).key = Comparator("equals", f, TRUE)
  BY DEF PairMatcher, Negative
<1>3. PICK n \in DOMAIN pairs : Compare(Comparator("equals", f, FALSE), name, pairs[n].name)
  BY <1>1, <1>2 DEF MultiValueAccepts, PairMeets
<1>4. ~Compare(Comparator("equals", f, TRUE), name, pairs[n].name)
  BY <1>3, StringOpposites DEF StringTests
<1>5. QED
  BY <1>1, <1>2, <1>4 DEF MultiValueAccepts, PairMeets

LEMMA ValueOpposites ==
    ASSUME NEW e \in ValueEntities, NEW p \in Opposites, NEW expected,
           e = "body" => expected # <<>>, e = "method" => p[1] = "equal",
           SingleValueAccepts(ValueMatcherFor(e, p[1]), expected)
    PROVE  ~SingleValueAccepts(ValueMatcherFor(e, p[2]), expected)
<1> DEFINE BytesTests == {"bytes", "bytes includes", "bytes prefix", "bytes suffix", "hostname"}
           Pair(test, folds) ==
               /\ test \in StringTests \cup BytesTests
               /\ test \in BytesTests => expected # <<>> \/ test = "hostname"
               /\ ValueMatcherFor(e, p[1]) = Comparator(test, folds, FALSE)
               /\ ValueMatcherFor(e, p[2]) = Comparator(test, folds, TRUE)
<1>1. /\ (p[1] \in Negative) = FALSE /\ (p[2] \in Negative) = TRUE
      /\ TestOf(p[1]) = TestOf(p[2]) /\ TestOf(p[1]) \in StringTests
  BY DEF Opposites, Negative, TestOf, StringTests
<1>2. \E test, folds : Pair(test, folds)
  <2>1. CASE e = "method"
    <3>1. Pair("equals", TRUE)
      BY <1>1, <2>1 DEF ValueMatcherFor, MethodMatcher, StringTests
    <3>2. QED
      BY <3>1
  <2>2. CASE e = "host" /\ p = <<"equal", "not">>
    <3>1. Pair("hostname", TRUE)
      BY <2>2 DEF ValueMatcherFor, HostMatcher
    <3>2. QED
      BY <3>1
  <2>3. CASE e = "host" /\ p # <<"equal", "not">>
    <3>1. p[1] \notin {"equal", "not", "matches"} /\ p[2] \notin {"equal", "not", "matches"}
      BY <2>3 DEF Opposites
    <3>2. Pair(TestOf(p[1]), TRUE)
      BY <1>1, <2>3, <3>1 DEF ValueMatcherFor, HostMatcher, StringTests
    <3>3. QED
      BY <3>2
  <2>4. CASE e = "path"
    <3>1. Pair(TestOf(p[1]), FALSE)
      BY <1>1, <2>4 DEF ValueMatcherFor, PathMatcher, StringTests
    <3>2. QED
      BY <3>1
  <2>5. CASE e = "body"
    <3>1. CASE p = <<"equal", "not">>
      <4>1. Pair("bytes", FALSE)
        BY <2>5, <3>1 DEF ValueMatcherFor, BodyMatcher
      <4>2. QED
        BY <4>1
    <3>2. CASE p = <<"includes", "excludes">>
      <4>1. Pair("bytes includes", FALSE)
        BY <2>5, <3>2 DEF ValueMatcherFor, BodyMatcher
      <4>2. QED
        BY <4>1
    <3>3. CASE p = <<"prefix", "prefix_not">>
      <4>1. Pair("bytes prefix", FALSE)
        BY <2>5, <3>3 DEF ValueMatcherFor, BodyMatcher
      <4>2. QED
        BY <4>1
    <3>4. CASE p = <<"suffix", "suffix_not">>
      <4>1. Pair("bytes suffix", FALSE)
        BY <2>5, <3>4 DEF ValueMatcherFor, BodyMatcher
      <4>2. QED
        BY <4>1
    <3>5. QED
      BY <3>1, <3>2, <3>3, <3>4 DEF Opposites
  <2>6. QED
    BY <2>1, <2>2, <2>3, <2>4, <2>5 DEF ValueEntities
<1>3. PICK test, folds : Pair(test, folds)
  BY <1>2
<1> DEFINE c == Comparator(test, folds, FALSE)
           d == Comparator(test, folds, TRUE)
<1>4. ~c.negated
  BY DEF Comparator
<1>5. value # NoValue /\ Compare(c, expected, value)
  BY <1>3, <1>4 DEF SingleValueAccepts, CompareOptional
<1>6. ~Compare(d, expected, value)
  BY <1>3, <1>5, StringOpposites, BytesOpposites
<1>7. QED
  BY <1>3, <1>5, <1>6 DEF SingleValueAccepts, CompareOptional

\* What a condition can be, one line for each kind of method.
LEMMA ConditionForms ==
    ASSUME TypeOK
    PROVE  /\ entity \in PairEntities \cup ValueEntities
           /\ entity \in ValueEntities => condition.method \in ValueMethods(entity)
           /\ condition.method \in {"exists", "missing"} =>
                 entity \in PairEntities /\ condition.value = NoValue
           /\ condition.method \in Negative \cup {"equal", "includes", "prefix", "suffix"} =>
                 condition.value \in Words
           /\ entity \in PairEntities /\ condition.method \in Negative => condition.name \in Names
BY DEF TypeOK, Conditions, ValueMethods, PairEntities, ValueEntities, PairMethods, Negative

\* No request meets both a condition and its negation: a test cannot see a mock
\* called by a request that the documentation says it excludes.
THEOREM NegationsExclude == Spec => []OppositesDisagree
<1>1. ASSUME TypeOK PROVE OppositesDisagree
  <2> SUFFICES ASSUME NEW p \in Opposites \cup {<<"exists", "missing">>},
                      condition.method = p[1], ~(entity = "body" /\ condition.value = <<>>),
                      Accepted
               PROVE  ~Accepts(p[2], condition)
    BY DEF OppositesDisagree, Opposites
  <2>1. CASE p = <<"exists", "missing">>
    <3>1. entity \in PairEntities /\ condition.value = NoValue
      BY <1>1, <2>1, ConditionForms
    <3>2. QED
      BY <2>1, <3>1, MissingOpposite
         DEF Accepted, Accepts, PairEntities, ValueEntities
  <2>2. CASE p \in Opposites /\ entity \in PairEntities
    <3>1. condition.value # NoValue
      BY <1>1, <2>2, ConditionForms, MatchingAssumption DEF Opposites
    <3>2. QED
      BY <2>2, <3>1, PairOpposites
         DEF Accepted, Accepts, PairEntities, ValueEntities, Opposites
  <2>3. CASE p \in Opposites /\ entity \in ValueEntities
    <3>1. entity = "method" => p[1] = "equal"
      BY <1>1, <2>3, ConditionForms DEF ValueMethods, Opposites
    <3>2. QED
      BY <2>3, <3>1, ValueOpposites DEF Accepted, Accepts
  <2>4. QED
    BY <1>1, <2>1, <2>2, <2>3, ConditionForms
<1>2. QED
  BY <1>1, MatchingTypeCorrect, PTL

-------------------------------------------------------------------------------
\* One more pair.

Adding == {"equal", "includes", "prefix", "suffix", "exists", "matches"}
Losing == Negative \cup {"missing"}

LEMMA AppendedPairs ==
    ASSUME NEW T, NEW ps \in Seq(T), NEW x \in T
    PROVE  /\ DOMAIN ps \subseteq DOMAIN Append(ps, x)
           /\ \A n \in DOMAIN ps : Append(ps, x)[n] = ps[n]
OBVIOUS

\* Presence asks for a pair, so that further pairs do no harm.
LEMMA PresenceKept ==
    ASSUME NEW T, NEW ps \in Seq(T), NEW x \in T, NEW m, NEW name, NEW expected,
           m.strategy # "Absence", OverPairs(ps, m, name, expected)
    PROVE  OverPairs(Append(ps, x), m, name, expected)
BY AppendedPairs DEF OverPairs

\* Absence asks all pairs, so that further pairs do not help, once the name is there.
LEMMA AbsenceKept ==
    ASSUME NEW T, NEW ps \in Seq(T), NEW x \in T, NEW m, NEW name, NEW expected,
           m.strategy = "Absence",
           m.keyRequired => \E n \in DOMAIN ps : Compare(m.key, name, ps[n].name),
           OverPairs(Append(ps, x), m, name, expected)
    PROVE  OverPairs(ps, m, name, expected)
BY AppendedPairs DEF OverPairs

LEMMA Strategies ==
    ASSUME NEW e \in PairEntities, NEW method
    PROVE  /\ method \in Adding => MatcherFor(e, method).strategy = "Presence"
           /\ method \in Losing => MatcherFor(e, method).strategy = "Absence"
<1>1. \E f : MatcherFor(e, method) = PairMatcher(method, f)
  BY DEF PairEntities, MatcherFor, QueryMatcher, HeaderMatcher, CookieMatcher, FormMatcher
<1>2. QED
  BY <1>1 DEF PairMatcher, Adding, Losing, Negative

\* A pair that the condition speaks of has a name that the matcher accepts.
LEMMA SubjectNamed ==
    ASSUME NEW e \in PairEntities, NEW method \in Losing, NEW name, NEW actual,
           IF e = "header" THEN Folded(actual) = Folded(name) ELSE actual = name,
           MatcherFor(e, method).keyRequired
    PROVE  Compare(MatcherFor(e, method).key, name, actual)
<1>1. PICK f : /\ MatcherFor(e, method) = PairMatcher(method, f)
               /\ e = "header" => f = TRUE
  BY DEF PairEntities, MatcherFor, QueryMatcher, HeaderMatcher, CookieMatcher, FormMatcher
<1>2. method # "missing" /\ method \notin {"matches", "count"}
  <2>1. PairMatcher(method, f).keyRequired = (method # "missing")
    BY DEF PairMatcher
  <2>2. QED
    BY <1>1, <2>1 DEF Losing, Negative
<1>3. PairMatcher(method, f).key = Comparator("equals", f, method = "missing")
  BY <1>2 DEF PairMatcher
<1>4. Cased(f, actual) = Cased(f, name)
  BY <1>1 DEF Cased
<1>5. QED
  BY <1>1, <1>2, <1>3, <1>4 DEF Compare, Comparator, StringEquals

\* A request that meets a positive condition still does with more pairs, and one that
\* has the name and fails a negative condition fails it with more pairs.
THEOREM MorePairsKeep == Spec => AppendingKeeps
<1>1. ASSUME TypeOK, [Next]_vars, Len(pairs') > Len(pairs)
      PROVE  /\ condition.method \in Adding /\ Accepted => Accepted'
             /\ condition.method \in Losing /\ Subjects # {} /\ Accepted' => Accepted
  <2>1. PICK name \in Names, w \in Words : AddPair(name, w)
    BY <1>1 DEF Next, NextRequest, vars, TypeOK
  <2> DEFINE x == [name |-> name, value |-> w]
             T == [name: Names, value: Words]
             m == MatcherFor(entity, condition.method)
  <2>2. /\ entity \in PairEntities /\ pairs' = Append(pairs, x)
        /\ entity' = entity /\ condition' = condition
    BY <2>1 DEF AddPair
  <2>3. pairs \in Seq(T) /\ x \in T
    BY <1>1 DEF TypeOK
  <2>4. entity \notin ValueEntities
    BY <2>2 DEF PairEntities, ValueEntities
  <2>5. ASSUME condition.method \in Adding \cup Losing
        PROVE  /\ Accepted <=> OverPairs(pairs, m, condition.name, condition.value)
               /\ Accepted' <=> OverPairs(pairs', m, condition.name, condition.value)
    <3>1. condition.method # "count"
      BY <2>5 DEF Adding, Losing, Negative
    <3>2. Accepted <=> OverPairs(pairs, m, condition.name, condition.value)
      BY <2>4, <3>1 DEF Accepted, Accepts, MultiValueAccepts, OverPairs
    <3>3. Accepted' <=> OverPairs(pairs', m, condition.name, condition.value)
      BY <2>2, <2>4, <3>1 DEF Accepted, Accepts, MultiValueAccepts, OverPairs
    <3>4. QED
      BY <3>2, <3>3
  <2>6. ASSUME condition.method \in Adding, Accepted PROVE Accepted'
    BY <2>2, <2>3, <2>5, <2>6, Strategies, PresenceKept
  <2>7. ASSUME condition.method \in Losing, Subjects # {}, Accepted' PROVE Accepted
    <3>1. PICK k \in DOMAIN pairs :
             IF entity = "header" THEN Folded(pairs[k].name) = Folded(condition.name)
                                  ELSE pairs[k].name = condition.name
      BY <2>4, <2>7 DEF Subjects
    <3>2. m.keyRequired => \E n \in DOMAIN pairs : Compare(m.key, condition.name, pairs[n].name)
      BY <2>2, <2>7, <3>1, SubjectNamed
    <3>3. QED
      BY <2>2, <2>3, <2>5, <2>7, <3>2, Strategies, AbsenceKept
  <2>8. QED
    BY <2>6, <2>7
<1>2. QED
  BY <1>1, MatchingTypeCorrect, PTL DEF Spec, AppendingKeeps, Adding, Losing

-------------------------------------------------------------------------------
\* Sequences.

LEMMA SubSeqFacts ==
    ASSUME NEW S, NEW w \in Seq(S), NEW m \in 1..(Len(w) + 1), NEW n \in 0..Len(w)
    PROVE  /\ SubSeq(w, m, n) \in Seq(S)
           /\ Len(SubSeq(w, m, n)) = IF m <= n THEN n - m + 1 ELSE 0
           /\ \A i \in 1..Len(SubSeq(w, m, n)) : SubSeq(w, m, n)[i] = w[m + i - 1]
OBVIOUS

LEMMA ElementOf ==
    ASSUME NEW S, NEW w \in Seq(S), NEW n \in DOMAIN w
    PROVE  w[n] \in S
OBVIOUS

LEMMA SameSeq ==
    ASSUME NEW S, NEW s \in Seq(S), NEW t \in Seq(S), Len(s) = Len(t),
           \A i \in 1..Len(s) : s[i] = t[i]
    PROVE  s = t
OBVIOUS

LEMMA IncludesMeans ==
    ASSUME NEW S, NEW w \in Seq(S), NEW v \in Seq(S)
    PROVE  Includes(w, v) <=> \E m \in 1..(Len(w) + 1), n \in 0..Len(w) : SubSeq(w, m, n) = v
<1>1. ASSUME Includes(w, v)
      PROVE  \E m \in 1..(Len(w) + 1), n \in 0..Len(w) : SubSeq(w, m, n) = v
  <2>1. PICK k \in 0..(Len(w) - Len(v)) : SubSeq(w, k + 1, k + Len(v)) = v
    BY <1>1 DEF Includes
  <2>2. k + 1 \in 1..(Len(w) + 1) /\ k + Len(v) \in 0..Len(w)
    OBVIOUS
  <2>3. QED
    BY <2>1, <2>2
<1>2. ASSUME NEW m \in 1..(Len(w) + 1), NEW n \in 0..Len(w), SubSeq(w, m, n) = v
      PROVE  Includes(w, v)
  <2>1. CASE m <= n
    <3>1. Len(v) = n - m + 1
      BY <1>2, <2>1, SubSeqFacts
    <3>2. m - 1 \in 0..(Len(w) - Len(v)) /\ (m - 1) + 1 = m /\ (m - 1) + Len(v) = n
      BY <2>1, <3>1
    <3>3. QED
      BY <1>2, <3>2 DEF Includes
  <2>2. CASE ~(m <= n)
    <3>1. Len(v) = 0
      BY <1>2, <2>2, SubSeqFacts
    <3>2. SubSeq(w, 1, 0) = v
      BY <3>1
    <3>3. 0 \in 0..(Len(w) - Len(v)) /\ 0 + 1 = 1 /\ 0 + Len(v) = 0
      BY <3>1
    <3>4. QED
      BY <3>2, <3>3 DEF Includes
  <2>3. QED
    BY <2>1, <2>2
<1>3. QED
  BY <1>1, <1>2

LEMMA PrefixMeans ==
    ASSUME NEW S, NEW w \in Seq(S), NEW v \in Seq(S)
    PROVE  /\ IsPrefix(v, w) <=> \E n \in 0..Len(w) : SubSeq(w, 1, n) = v
           /\ IsPrefix(v, w) => Len(w) >= Len(v)
<1>1. SubSeq(v, 1, Len(v)) = v
  OBVIOUS
<1>2. ASSUME IsPrefix(v, w) PROVE Len(v) \in 0..Len(w) /\ SubSeq(w, 1, Len(v)) = v
  BY <1>1, <1>2 DEF IsPrefix
<1>3. ASSUME NEW n \in 0..Len(w), SubSeq(w, 1, n) = v PROVE IsPrefix(v, w)
  <2>1. Len(v) = n
    BY <1>3
  <2>2. QED
    BY <1>1, <1>3, <2>1 DEF IsPrefix
<1>4. QED
  BY <1>2, <1>3

LEMMA SuffixMeans ==
    ASSUME NEW S, NEW w \in Seq(S), NEW v \in Seq(S)
    PROVE  /\ IsSuffix(v, w) <=> \E m \in 1..(Len(w) + 1) : SubSeq(w, m, Len(w)) = v
           /\ IsSuffix(v, w) => Len(w) >= Len(v)
<1> DEFINE rv == Reverse(v)
           rw == Reverse(w)
           d == Len(w) - Len(v)
<1>1. /\ rv \in Seq(S) /\ Len(rv) = Len(v) /\ \A i \in 1..Len(v) : rv[i] = v[Len(v) - i + 1]
      /\ rw \in Seq(S) /\ Len(rw) = Len(w) /\ \A i \in 1..Len(w) : rw[i] = w[Len(w) - i + 1]
  BY DEF Reverse
<1>2. IsSuffix(v, w) <=> \E n \in 0..Len(w) : SubSeq(rw, 1, n) = rv
  BY <1>1, PrefixMeans DEF IsSuffix
<1>3. IsSuffix(v, w) => Len(w) >= Len(v)
  BY <1>1, PrefixMeans DEF IsSuffix
<1>4. ASSUME IsSuffix(v, w) PROVE \E m \in 1..(Len(w) + 1) : SubSeq(w, m, Len(w)) = v
  <2>1. PICK n \in 0..Len(w) : SubSeq(rw, 1, n) = rv
    BY <1>2, <1>4
  <2>2. Len(v) = n /\ \A i \in 1..Len(v) : rw[i] = rv[i]
    BY <1>1, <2>1
  <2>3. d + 1 \in 1..(Len(w) + 1)
    BY <2>2
  <2>4. Len(SubSeq(w, d + 1, Len(w))) = Len(v) /\ SubSeq(w, d + 1, Len(w)) \in Seq(S)
    BY <2>3
  <2>5. ASSUME NEW j \in 1..Len(v) PROVE SubSeq(w, d + 1, Len(w))[j] = v[j]
    <3>1. SubSeq(w, d + 1, Len(w))[j] = w[d + j]
      BY <2>3, <2>4
    <3>2. Len(v) - j + 1 \in 1..Len(v) /\ Len(v) - (Len(v) - j + 1) + 1 = j
          /\ Len(w) - (Len(v) - j + 1) + 1 = d + j /\ Len(v) - j + 1 \in 1..Len(w)
      BY <2>2
    <3>3. rw[Len(v) - j + 1] = w[d + j] /\ rv[Len(v) - j + 1] = v[j]
      BY <1>1, <3>2
    <3>4. QED
      BY <2>2, <3>1, <3>2, <3>3
  <2>6. SubSeq(w, d + 1, Len(w)) = v
    BY <2>4, <2>5, SameSeq
  <2>7. QED
    BY <2>3, <2>6
<1>5. ASSUME NEW m \in 1..(Len(w) + 1), SubSeq(w, m, Len(w)) = v PROVE IsSuffix(v, w)
  <2>1. Len(v) = Len(w) - m + 1 /\ \A i \in 1..Len(v) : v[i] = w[m + i - 1]
    BY <1>5
  <2>2. Len(v) \in 0..Len(w)
    BY <2>1
  <2>3. SubSeq(rw, 1, Len(v)) \in Seq(S) /\ Len(SubSeq(rw, 1, Len(v))) = Len(rv)
    BY <1>1, <2>2
  <2>4. ASSUME NEW i \in 1..Len(rv) PROVE SubSeq(rw, 1, Len(v))[i] = rv[i]
    <3>1. SubSeq(rw, 1, Len(v))[i] = rw[i]
      BY <1>1, <2>2
    <3>2. /\ i \in 1..Len(w) /\ Len(v) - i + 1 \in 1..Len(v)
          /\ m + (Len(v) - i + 1) - 1 = Len(w) - i + 1
      BY <1>1, <2>1, <2>2
    <3>3. rw[i] = w[Len(w) - i + 1] /\ rv[i] = v[Len(v) - i + 1]
      BY <1>1, <3>2
    <3>4. QED
      BY <2>1, <3>1, <3>2, <3>3
  <2>5. SubSeq(rw, 1, Len(v)) = rv
    BY <1>1, <2>3, <2>4, SameSeq
  <2>6. QED
    BY <1>2, <2>2, <2>5
<1>6. QED
  BY <1>3, <1>4, <1>5

-------------------------------------------------------------------------------
\* What comparisons mean.

\* What a test says of a word, both in the case in which they are compared.
TestSays(test, w, v) ==
    CASE test = "equals" -> w = v
      [] test = "includes" -> \E m \in 1..(Len(w) + 1), n \in 0..Len(w) : SubSeq(w, m, n) = v
      [] test = "prefix" -> \E n \in 0..Len(w) : SubSeq(w, 1, n) = v
      [] test = "suffix" -> \E m \in 1..(Len(w) + 1) : SubSeq(w, m, Len(w)) = v

LEMMA CasedWord ==
    ASSUME NEW folds, NEW w \in Words
    PROVE  /\ Cased(folds, w) \in Seq(DOMAIN Lower)
           /\ Len(Cased(folds, w)) = Len(w)
<1>1. w \in Seq(DOMAIN Lower) /\ Folded(w) \in Seq(DOMAIN Lower)
  BY MatchingAssumption
<1>2. DOMAIN Folded(w) = DOMAIN w
  BY DEF Folded
<1>3. Len(Folded(w)) = Len(w)
  BY <1>1, <1>2
<1>4. QED
  BY <1>1, <1>3 DEF Cased

\* A positive comparison of strings holds as documented; so does a negated one, unless
\* the lengths alone decide.
LEMMA StringsMean ==
    ASSUME NEW test \in StringTests, NEW folds \in BOOLEAN, NEW v \in Words, NEW w \in Words
    PROVE  /\ Compare(Comparator(test, folds, FALSE), v, w)
                 <=> TestSays(test, Cased(folds, w), Cased(folds, v))
           /\ test \in {"equals", "includes"} =>
                 (Compare(Comparator(test, folds, TRUE), v, w)
                    <=> ~TestSays(test, Cased(folds, w), Cased(folds, v)))
<1> DEFINE cw == Cased(folds, w)
           cv == Cased(folds, v)
<1>1. /\ cw \in Seq(DOMAIN Lower) /\ cv \in Seq(DOMAIN Lower)
      /\ Len(cw) = Len(w) /\ Len(cv) = Len(v)
  BY CasedWord
<1> HIDE DEF cw, cv
<1>2. CASE test = "equals"
  BY <1>2 DEF Compare, Comparator, StringEquals, TestSays, cw, cv
<1>3. CASE test = "includes"
  <2>1. Includes(cw, cv) <=> TestSays(test, cw, cv)
    BY <1>1, <1>3, IncludesMeans DEF TestSays
  <2>2. Includes(cw, cv) \in BOOLEAN
    BY DEF Includes
  <2>3. /\ Compare(Comparator(test, folds, FALSE), v, w) <=> (Includes(cw, cv) # FALSE)
        /\ Compare(Comparator(test, folds, TRUE), v, w) <=> (Includes(cw, cv) # TRUE)
    BY <1>3 DEF Compare, Comparator, StringContains, cw, cv
  <2>4. QED
    BY <2>1, <2>2, <2>3 DEF cw, cv
<1>4. CASE test = "prefix"
  <2>1. /\ IsPrefix(cv, cw) <=> TestSays(test, cw, cv)
        /\ IsPrefix(cv, cw) => Len(w) >= Len(v)
    BY <1>1, <1>4, PrefixMeans DEF TestSays
  <2>2. IsPrefix(cv, cw) \in BOOLEAN
    BY DEF IsPrefix
  <2>3. Compare(Comparator(test, folds, FALSE), v, w)
          <=> Len(w) >= Len(v) /\ (IsPrefix(cv, cw) # FALSE)
    BY <1>4 DEF Compare, Comparator, StringHasPrefix, cw, cv
  <2>4. QED
    BY <1>4, <2>1, <2>2, <2>3 DEF cw, cv
<1>5. CASE test = "suffix"
  <2>1. /\ IsSuffix(cv, cw) <=> TestSays(test, cw, cv)
        /\ IsSuffix(cv, cw) => Len(w) >= Len(v)
    BY <1>1, <1>5, SuffixMeans DEF TestSays
  <2>2. IsSuffix(cv, cw) \in BOOLEAN
    BY DEF IsSuffix, IsPrefix
  <2>3. Compare(Comparator(test, folds, FALSE), v, w)
          <=> Len(w) >= Len(v) /\ (IsSuffix(cv, cw) # FALSE)
    BY <1>5 DEF Compare, Comparator, StringHasSuffix, cw, cv
  <2>4. QED
    BY <1>5, <2>1, <2>2, <2>3 DEF cw, cv
<1>6. QED
  BY <1>2, <1>3, <1>4, <1>5 DEF StringTests

\* So do comparisons of bytes, save that excluding nothing is always true.
BytesTest(test) ==
    CASE test = "equals" -> "bytes"
      [] test = "includes" -> "bytes includes"
      [] test = "prefix" -> "bytes prefix"
      [] test = "suffix" -> "bytes suffix"

LEMMA BytesMean ==
    ASSUME NEW test \in StringTests, NEW v \in Words, NEW w \in Words
    PROVE  /\ Compare(Comparator(BytesTest(test), FALSE, FALSE), v, w) <=> TestSays(test, w, v)
           /\ ~(test = "includes" /\ v = <<>>) =>
                 (Compare(Comparator(BytesTest(test), FALSE, TRUE), v, w) <=> ~TestSays(test, w, v))
<1>1. w \in Seq(DOMAIN Lower) /\ v \in Seq(DOMAIN Lower)
  BY MatchingAssumption
<1>2. CASE test = "equals"
  BY <1>2 DEF Compare, Comparator, StringEquals, Cased, TestSays, BytesTest
<1>3. CASE test = "includes"
  <2>1. Includes(w, v) <=> TestSays(test, w, v)
    BY <1>1, <1>3, IncludesMeans DEF TestSays
  <2>2. Includes(w, v) \in BOOLEAN
    BY DEF Includes
  <2>3. /\ Compare(Comparator(BytesTest(test), FALSE, FALSE), v, w)
             <=> v = <<>> \/ (Includes(w, v) # FALSE)
        /\ Compare(Comparator(BytesTest(test), FALSE, TRUE), v, w)
             <=> v = <<>> \/ (Includes(w, v) # TRUE)
    BY <1>3 DEF Compare, Comparator, BytesIncludes, BytesTest
  <2>4. v = <<>> => Includes(w, v)
    <3>1. SubSeq(w, 0 + 1, 0 + 0) = <<>> /\ Len(<<>>) = 0 /\ 0 \in 0..(Len(w) - 0)
      BY <1>1
    <3>2. QED
      BY <3>1 DEF Includes
  <2>5. QED
    BY <1>3, <2>1, <2>2, <2>3, <2>4
<1>4. CASE test = "prefix"
  <2>1. IsPrefix(v, w) <=> TestSays(test, w, v)
    BY <1>1, <1>4, PrefixMeans DEF TestSays
  <2>2. IsPrefix(v, w) \in BOOLEAN
    BY DEF IsPrefix
  <2>3. /\ Compare(Comparator(BytesTest(test), FALSE, FALSE), v, w) <=> (IsPrefix(v, w) # FALSE)
        /\ Compare(Comparator(BytesTest(test), FALSE, TRUE), v, w) <=> (IsPrefix(v, w) # TRUE)
    BY <1>4 DEF Compare, Comparator, BytesPrefix, BytesTest
  <2>4. QED
    BY <2>1, <2>2, <2>3
<1>5. CASE test = "suffix"
  <2>1. IsSuffix(v, w) <=> TestSays(test, w, v)
    BY <1>1, <1>5, SuffixMeans DEF TestSays
  <2>2. IsSuffix(v, w) \in BOOLEAN
    BY DEF IsSuffix, IsPrefix
  <2>3. /\ Compare(Comparator(BytesTest(test), FALSE, FALSE), v, w) <=> (IsSuffix(v, w) # FALSE)
        /\ Compare(Comparator(BytesTest(test), FALSE, TRUE), v, w) <=> (IsSuffix(v, w) # TRUE)
    BY <1>5 DEF Compare, Comparator, BytesSuffix, BytesTest
  <2>4. QED
    BY <2>1, <2>2, <2>3
<1>6. QED
  BY <1>2, <1>3, <1>4, <1>5 DEF StringTests

StringMethods == Negative \cup {"equal", "includes", "prefix", "suffix"}

LEMMA MethodTests ==
    ASSUME NEW method \in StringMethods
    PROVE  /\ TestOf(method) \in StringTests
           /\ method \notin {"matches", "count", "exists", "missing"}
           /\ \/ (method \in Negative) = TRUE
              \/ (method \in Negative) = FALSE
           /\ TestOf(method) = "equals" <=> method \in {"equal", "not"}
           /\ TestOf(method) = "includes" <=> method \in {"includes", "excludes"}
           /\ TestOf(method) = "prefix" <=> method \in {"prefix", "prefix_not"}
           /\ TestOf(method) = "suffix" <=> method \in {"suffix", "suffix_not"}
BY DEF StringMethods, Negative, TestOf, StringTests

\* Says, by tests.
LEMMA SaysTest ==
    ASSUME NEW method \in StringMethods, NEW w, NEW v, NEW folds \in BOOLEAN,
           folds = TRUE <=> entity \in {"host", "method"},
           ~(entity = "host" /\ method \in {"equal", "not"})
    PROVE  Says(method, w, v) <=> TestSays(TestOf(method), Cased(folds, w), Cased(folds, v))
<1>1. (entity \in {"host", "method"}) = folds
  OBVIOUS
<1>2. CASE method \in {"equal", "not"}
  BY <1>1, <1>2 DEF Says, TestSays, TestOf
<1>3. CASE method \in {"includes", "excludes"}
  BY <1>1, <1>3 DEF Says, TestSays, TestOf
<1>4. CASE method \in {"prefix", "prefix_not"}
  BY <1>1, <1>4 DEF Says, TestSays, TestOf
<1>5. CASE method \in {"suffix", "suffix_not"}
  BY <1>1, <1>5 DEF Says, TestSays, TestOf
<1>6. QED
  BY <1>2, <1>3, <1>4, <1>5 DEF StringMethods, Negative

LEMMA HostsMean ==
    ASSUME entity = "host", NEW method \in {"equal", "not"}, NEW w \in Words, NEW v \in Words
    PROVE  /\ Compare(Comparator("hostname", TRUE, FALSE), v, w) <=> Says(method, w, v)
           /\ Compare(Comparator("hostname", TRUE, TRUE), v, w) <=> ~Says(method, w, v)
<1> DEFINE same == \/ Folded(w) = Folded(v)
                   \/ Folded(w) \in Loopback /\ Folded(v) \in Loopback
<1>1. Folded(Folded(w)) = Folded(w) /\ Folded(Folded(v)) = Folded(v)
  BY MatchingAssumption
<1>2. Says(method, w, v) <=> same
  BY <1>1 DEF Says, Cased
<1>3. /\ Compare(Comparator("hostname", TRUE, FALSE), v, w) <=> same
      /\ Compare(Comparator("hostname", TRUE, TRUE), v, w) <=> ~same
  BY DEF Compare, Comparator, HostnameEquals, StringEquals, Cased
<1>4. QED
  BY <1>2, <1>3

-------------------------------------------------------------------------------
\* Values.
LEMMA ValueMeans ==
    ASSUME entity \in ValueEntities, NEW method \in StringMethods,
           entity = "method" => method \in {"equal", "not"},
           entity # "body" => method \notin {"prefix_not", "suffix_not"},
           NEW v \in Words, NEW w \in Words,
           ~(entity = "body" /\ method = "excludes" /\ v = <<>>)
    PROVE  /\ ValueMatcherFor(entity, method).negated <=> method \in Negative
           /\ Compare(ValueMatcherFor(entity, method), v, w)
                <=> IF method \in Negative THEN ~Says(method, w, v) ELSE Says(method, w, v)
<1> DEFINE test == TestOf(method)
           neg == method \in Negative
<1>1. test \in StringTests /\ (neg = TRUE \/ neg = FALSE)
  BY MethodTests
<1>2. neg = TRUE /\ entity # "body" => test \in {"equals", "includes"}
  BY MethodTests DEF StringMethods, Negative
<1>3. CASE entity = "host" /\ method \in {"equal", "not"}
  <2>1. /\ method = "equal" => ValueMatcherFor(entity, method) = Comparator("hostname", TRUE, FALSE)
        /\ method = "not" => ValueMatcherFor(entity, method) = Comparator("hostname", TRUE, TRUE)
    BY <1>3 DEF ValueMatcherFor, HostMatcher
  <2>2. method \in Negative <=> method = "not"
    BY <1>3 DEF Negative
  <2>3. /\ Comparator("hostname", TRUE, FALSE).negated = FALSE
        /\ Comparator("hostname", TRUE, TRUE).negated = TRUE
    BY DEF Comparator
  <2>4. QED
    BY <1>3, <2>1, <2>2, <2>3, HostsMean
<1>4. ASSUME NEW folds \in BOOLEAN, folds = TRUE <=> entity \in {"host", "method"},
             ValueMatcherFor(entity, method) = Comparator(test, folds, neg),
             entity # "body", ~(entity = "host" /\ method \in {"equal", "not"})
      PROVE  /\ ValueMatcherFor(entity, method).negated <=> method \in Negative
             /\ Compare(ValueMatcherFor(entity, method), v, w)
                  <=> IF method \in Negative THEN ~Says(method, w, v) ELSE Says(method, w, v)
  <2>1. Says(method, w, v) <=> TestSays(test, Cased(folds, w), Cased(folds, v))
    BY <1>4, SaysTest
  <2>2. Comparator(test, folds, neg).negated = neg
    BY DEF Comparator
  <2>3. CASE neg = FALSE
    BY <1>1, <1>4, <2>1, <2>2, <2>3, StringsMean
  <2>4. CASE neg = TRUE
    <3>1. test \in {"equals", "includes"}
      BY <1>2, <1>4, <2>4
    <3>2. Compare(Comparator(test, folds, TRUE), v, w)
            <=> ~TestSays(test, Cased(folds, w), Cased(folds, v))
      BY <1>1, <3>1, StringsMean
    <3>3. QED
      BY <1>4, <2>1, <2>2, <2>4, <3>2
  <2>5. QED
    BY <1>1, <2>3, <2>4
<1>5. CASE entity = "method"
  <2>1. ValueMatcherFor(entity, method) = Comparator(test, TRUE, neg)
    BY <1>5, MethodTests DEF ValueMatcherFor, MethodMatcher
  <2>2. QED
    BY <1>4, <1>5, <2>1
<1>6. CASE entity = "path"
  <2>1. ValueMatcherFor(entity, method) = Comparator(test, FALSE, neg)
    BY <1>6 DEF ValueMatcherFor, PathMatcher
  <2>2. QED
    BY <1>4, <1>6, <2>1
<1>7. CASE entity = "host" /\ method \notin {"equal", "not"}
  <2>1. ValueMatcherFor(entity, method) = Comparator(test, TRUE, neg)
    BY <1>7, MethodTests DEF ValueMatcherFor, HostMatcher
  <2>2. QED
    BY <1>4, <1>7, <2>1
<1>8. CASE entity = "body"
  <2>1. ValueMatcherFor(entity, method) = Comparator(BytesTest(test), FALSE, neg)
    <3>1. CASE method \in {"equal", "not"}
      <4>1. (method = "not") = neg /\ test = "equals"
        BY <3>1 DEF Negative, TestOf
      <4>2. QED
        BY <1>8, <3>1, <4>1 DEF ValueMatcherFor, BodyMatcher, BytesTest
    <3>2. CASE method \in {"includes", "excludes"}
      <4>1. (method = "excludes") = neg /\ test = "includes" /\ method \notin {"equal", "not"}
        BY <3>2 DEF Negative, TestOf
      <4>2. QED
        BY <1>8, <3>2, <4>1 DEF ValueMatcherFor, BodyMatcher, BytesTest
    <3>3. CASE method \in {"prefix", "prefix_not"}
      <4>1. /\ (method = "prefix_not") = neg /\ test = "prefix"
            /\ method \notin {"equal", "not", "includes", "excludes"}
        BY <3>3 DEF Negative, TestOf
      <4>2. QED
        BY <1>8, <3>3, <4>1 DEF ValueMatcherFor, BodyMatcher, BytesTest
    <3>4. CASE method \in {"suffix", "suffix_not"}
      <4>1. /\ (method = "suffix_not") = neg /\ test = "suffix"
            /\ method \notin {"equal", "not", "includes", "excludes", "prefix", "prefix_not"}
        BY <3>4 DEF Negative, TestOf
      <4>2. QED
        BY <1>8, <3>4, <4>1 DEF ValueMatcherFor, BodyMatcher, BytesTest
    <3>5. QED
      BY <3>1, <3>2, <3>3, <3>4 DEF StringMethods, Negative
  <2>2. Says(method, w, v) <=> TestSays(test, w, v)
    BY <1>8, SaysTest DEF Cased
  <2>3. Comparator(BytesTest(test), FALSE, neg).negated = neg
    BY DEF Comparator
  <2>4. neg = TRUE => ~(test = "includes" /\ v = <<>>)
    BY <1>8, MethodTests DEF Negative
  <2>5. CASE neg = FALSE
    BY <1>1, <2>1, <2>2, <2>3, <2>5, BytesMean
  <2>6. CASE neg = TRUE
    BY <1>1, <2>1, <2>2, <2>3, <2>4, <2>6, BytesMean
  <2>7. QED
    BY <1>1, <2>5, <2>6
<1>9. QED
  BY <1>3, <1>5, <1>6, <1>7, <1>8 DEF ValueEntities

LEMMA ValuesAccepted ==
    ASSUME TypeOK, entity \in ValueEntities,
           condition.method \notin {"matches", "count"}, ~CutShort
    PROVE  Accepted <=> Meaning
<1> DEFINE method == condition.method
           v == condition.value
           c == ValueMatcherFor(entity, method)
<1>1. /\ method \in StringMethods /\ v \in Words
      /\ entity = "method" => method \in {"equal", "not"}
      /\ value \in Words \cup {NoValue}
      /\ entity \notin PairEntities
  BY DEF TypeOK, Conditions, ValueMethods, ValuesOf, PairEntities, ValueEntities,
         StringMethods, Negative
<1>2. Accepted <=> IF value = NoValue THEN c.negated ELSE Compare(c, v, value)
  BY DEF Accepted, Accepts, SingleValueAccepts, CompareOptional
<1>3. /\ entity # "body" => method \notin {"prefix_not", "suffix_not"}
      /\ ~(entity = "body" /\ method = "excludes" /\ v = <<>>)
  BY DEF CutShort
<1>4. Subjects = {value} \ {NoValue}
  BY DEF Subjects
<1>5. Meaning <=> IF method \in Negative THEN \A w \in Subjects : ~Says(method, w, v)
                                        ELSE \E w \in Subjects : Says(method, w, v)
  BY <1>1, MethodTests DEF Meaning
<1>6. CASE value = NoValue
  <2>1. c.negated <=> method \in Negative
    BY <1>1, <1>3, ValueMeans
  <2>2. Subjects = {}
    BY <1>4, <1>6
  <2>3. QED
    BY <1>2, <1>5, <1>6, <2>1, <2>2
<1>7. CASE value # NoValue
  <2>1. value \in Words /\ Subjects = {value}
    BY <1>1, <1>4, <1>7
  <2>2. Compare(c, v, value) <=> IF method \in Negative THEN ~Says(method, value, v)
                                                      ELSE Says(method, value, v)
    BY <1>1, <1>3, <2>1, ValueMeans
  <2>3. QED
    BY <1>2, <1>5, <1>7, <2>1, <2>2
<1>8. QED
  BY <1>6, <1>7
-------------------------------------------------------------------------------
\* Pairs.
LEMMA PairsAccepted ==
    ASSUME TypeOK, entity \in PairEntities,
           condition.method \notin {"matches", "count"}, ~CutShort
    PROVE  Accepted <=> Meaning
<1> DEFINE method == condition.method
           name == condition.name
           v == condition.value
           Named(n) == IF entity = "header" THEN Folded(pairs[n].name) = Folded(name)
                                            ELSE pairs[n].name = name
           test == TestOf(method)
<1>1. /\ method \in (StringMethods \cup {"exists", "missing"}) \ {"prefix_not", "suffix_not"}
      /\ method \in StringMethods => v \in Words
      /\ method \in {"exists", "missing"} => v = NoValue
      /\ entity \notin ValueEntities
      /\ pairs \in Seq([name: Names, value: Words])
  BY DEF TypeOK, Conditions, PairEntities, ValueEntities, PairMethods, StringMethods,
         Negative, CutShort
<1>2. PICK f \in BOOLEAN : /\ MatcherFor(entity, method) = PairMatcher(method, f)
                           /\ f = TRUE <=> entity = "header"
  <2>1. /\ (method \in {"prefix_not", "suffix_not"}) = FALSE
        /\ (method = "prefix_not") = FALSE
    BY <1>1
  <2>2. CASE entity = "query"
    BY <2>2 DEF MatcherFor, QueryMatcher
  <2>3. CASE entity = "header"
    BY <2>3 DEF MatcherFor, HeaderMatcher
  <2>4. CASE entity = "cookie"
    BY <2>1, <2>4 DEF MatcherFor, CookieMatcher
  <2>5. CASE entity = "form"
    BY <2>1, <2>5 DEF MatcherFor, FormMatcher
  <2>6. QED
    BY <2>2, <2>3, <2>4, <2>5 DEF PairEntities
<1> DEFINE m == PairMatcher(method, f)
<1>3. Accepted <=> OverPairs(pairs, m, name, v)
  <2>1. Accepted <=> OverPairs(pairs, MatcherFor(entity, method), name, v)
    BY <1>1 DEF Accepted, Accepts, MultiValueAccepts, OverPairs
  <2>2. QED
    BY <1>2, <2>1
<1>4. ASSUME NEW n \in DOMAIN pairs
      PROVE  /\ Compare(Comparator("equals", f, FALSE), name, pairs[n].name) <=> Named(n)
             /\ Compare(Comparator("equals", f, TRUE), name, pairs[n].name) <=> ~Named(n)
             /\ pairs[n].value \in Words /\ pairs[n].value # NoValue
  <2>1. /\ Compare(Comparator("equals", f, FALSE), name, pairs[n].name) <=> Named(n)
        /\ Compare(Comparator("equals", f, TRUE), name, pairs[n].name) <=> ~Named(n)
    BY <1>2 DEF Compare, Comparator, StringEquals, Cased
  <2>2. pairs[n] \in [name: Names, value: Words]
    BY <1>1, ElementOf
  <2>3. QED
    BY <2>1, <2>2, MatchingAssumption
<1>5. Subjects = {pairs[n].value : n \in {k \in DOMAIN pairs : Named(k)}}
  BY <1>1 DEF Subjects
<1> HIDE DEF Named
<1>6. CASE method = "exists"
  <2>1. /\ m.strategy = "Presence" /\ m.operator = "AND"
        /\ m.key = Comparator("equals", f, FALSE)
    BY <1>6 DEF PairMatcher, Negative
  <2>2. OverPairs(pairs, m, name, v) <=> \E n \in DOMAIN pairs : Named(n)
    BY <1>1, <1>4, <1>6, <2>1 DEF OverPairs, PairMeets
  <2>3. Meaning <=> Subjects # {}
    BY <1>6 DEF Meaning, Negative
  <2>4. Subjects # {} <=> \E n \in DOMAIN pairs : Named(n)
    BY <1>5
  <2>5. QED
    BY <1>3, <2>2, <2>3, <2>4
<1>7. CASE method = "missing"
  <2>1. /\ m.strategy = "Absence" /\ m.operator = "AND" /\ ~m.keyRequired
        /\ m.key = Comparator("equals", f, TRUE)
    BY <1>7 DEF PairMatcher, Negative
  <2>2. OverPairs(pairs, m, name, v) <=> \A n \in DOMAIN pairs : ~Named(n)
    BY <1>1, <1>4, <1>7, <2>1 DEF OverPairs, PairMeets
  <2>3. Meaning <=> Subjects = {}
    BY <1>7 DEF Meaning, Negative
  <2>4. Subjects = {} <=> \A n \in DOMAIN pairs : ~Named(n)
    BY <1>5
  <2>5. QED
    BY <1>3, <2>2, <2>3, <2>4
<1>8. ASSUME method \in StringMethods, NEW n \in DOMAIN pairs
      PROVE  /\ method \notin Negative =>
                   (Compare(Comparator(test, FALSE, FALSE), v, pairs[n].value)
                      <=> Says(method, pairs[n].value, v))
             /\ method \in Negative =>
                   (Compare(Comparator(test, FALSE, TRUE), v, pairs[n].value)
                      <=> ~Says(method, pairs[n].value, v))
  <2>1. v \in Words /\ pairs[n].value \in Words /\ test \in StringTests
    BY <1>1, <1>4, <1>8, MethodTests
  <2>2. Says(method, pairs[n].value, v) <=> TestSays(test, pairs[n].value, v)
    <3>1. entity \notin {"host", "method"}
      BY DEF PairEntities
    <3>2. QED
      BY <1>8, <3>1, SaysTest DEF Cased
  <2>3. method \in Negative => test \in {"equals", "includes"}
    BY <1>1, <1>8, MethodTests DEF Negative
  <2>4. QED
    BY <2>1, <2>2, <2>3, StringsMean DEF Cased
<1>9. CASE method \in StringMethods /\ method \in Negative
  <2>1. /\ m.strategy = "Absence" /\ m.operator = "IMPLICATION" /\ m.keyRequired
        /\ m.key = Comparator("equals", f, FALSE)
        /\ m.value = Comparator(test, FALSE, TRUE)
    <3>1. (method \in Negative) = TRUE /\ (method = "missing") = FALSE
          /\ method \notin {"matches", "count"}
      BY <1>9, MethodTests DEF Negative
    <3>2. QED
      BY <3>1 DEF PairMatcher
  <2>2. v # NoValue
    BY <1>1, <1>9, MatchingAssumption
  <2>3. OverPairs(pairs, m, name, v) <=>
           /\ \E n \in DOMAIN pairs : Named(n)
           /\ \A n \in DOMAIN pairs : Named(n) => ~Says(method, pairs[n].value, v)
    BY <1>4, <1>8, <1>9, <2>1, <2>2 DEF OverPairs, PairMeets
  <2>4. Meaning <=> Subjects # {} /\ \A w \in Subjects : ~Says(method, w, v)
    BY <1>9, MethodTests DEF Meaning
  <2>5. QED
    BY <1>3, <1>5, <2>3, <2>4
<1>10. CASE method \in StringMethods /\ method \notin Negative
  <2>1. /\ m.strategy = "Presence" /\ m.operator = "AND"
        /\ m.key = Comparator("equals", f, FALSE)
        /\ m.value = Comparator(test, FALSE, FALSE)
    <3>1. (method \in Negative) = FALSE /\ (method = "missing") = FALSE
          /\ method \notin {"matches", "count"}
      BY <1>10, MethodTests
    <3>2. QED
      BY <3>1 DEF PairMatcher
  <2>2. v # NoValue
    BY <1>1, <1>10, MatchingAssumption
  <2>3. OverPairs(pairs, m, name, v) <=>
           \E n \in DOMAIN pairs : Named(n) /\ Says(method, pairs[n].value, v)
    BY <1>4, <1>8, <1>10, <2>1, <2>2 DEF OverPairs, PairMeets
  <2>4. Meaning <=> \E w \in Subjects : Says(method, w, v)
    BY <1>10, MethodTests DEF Meaning
  <2>5. QED
    BY <1>3, <1>5, <2>3, <2>4
<1>11. QED
  BY <1>1, <1>6, <1>7, <1>9, <1>10

\* A condition means what the documentation of When says, for all words and names,
\* save where an early return cuts across it (CutShort) and for regular expressions.
THEOREM ConditionsMean == Spec => []AcceptsWhatIsAsked
<1>1. TypeOK => AcceptsWhatIsAsked
  BY PairsAccepted, ValuesAccepted DEF AcceptsWhatIsAsked, TypeOK
<1>2. QED
  BY <1>1, MatchingTypeCorrect, PTL

-------------------------------------------------------------------------------
\* The edit distance.

LEMMA LeastOfSome ==
    ASSUME NEW A \in SUBSET Nat, A # {}
    PROVE  Min(A) \in A /\ \A n \in A : Min(A) <= n
<1>1. PICK m \in A : \A n \in A : m <= n
  BY LeastExists
<1> QED
  BY <1>1 DEF Min

LEMMA GreatestOfSome ==
    ASSUME NEW m \in Nat, NEW A \in SUBSET (0..m), A # {}
    PROVE  Max(A) \in A /\ \A n \in A : n <= Max(A)
<1>1. PICK k \in A : \A n \in A : n <= k
  BY GreatestExists
<1>2. \A n \in A : k >= n
  <2> SUFFICES ASSUME NEW n \in A PROVE k >= n
    OBVIOUS
  <2>1. n \in Nat /\ k \in Nat /\ n <= k
    BY <1>1
  <2> QED
    BY <2>1
<1>3. Max(A) \in A /\ \A n \in A : Max(A) >= n
  BY <1>1, <1>2 DEF Max
<1> SUFFICES ASSUME NEW n \in A PROVE n <= Max(A)
  BY <1>3
<1>4. \A x \in A : x \in Nat
  OBVIOUS
<1>5. \A x, y \in Nat : x >= y => y <= x
  OBVIOUS
<1> QED
  BY <1>3, <1>4, <1>5, Zenon

Step(d, v, w, i, j) ==
    IF i = 0 \/ j = 0 THEN i + j
    ELSE Min({d[<<i - 1, j>>] + 1, d[<<i, j - 1>>] + 1,
              d[<<i - 1, j - 1>>] + IF v[i] = w[j] THEN 0 ELSE 1})

\* d gives the distances of all prefixes of v, up to length m, and of w, up to n.
Table(d, v, w, m, n) ==
    d = [at \in (0..m) \X (0..n) |-> Step(d, v, w, at[1], at[2])]

LEMMA TableExists ==
    ASSUME NEW v, NEW w, NEW m \in Nat, NEW n \in Nat
    PROVE  \E d : Table(d, v, w, m, n)
<1> DEFINE P == (0..m) \X (0..n)
           Upto(d, k) == /\ d = [at \in P |-> d[at]]
                         /\ \A i \in 0..m, j \in 0..n : i + j <= k => d[<<i, j>>] = Step(d, v, w, i, j)
           T == {k \in Nat : \E d : Upto(d, k)}
<1>1. 0 \in T
  <2> DEFINE d == [at \in P |-> 0]
  <2>1. ASSUME NEW i \in 0..m, NEW j \in 0..n, i + j <= 0 PROVE d[<<i, j>>] = Step(d, v, w, i, j)
    BY <2>1 DEF Step
  <2>2. d = [at \in P |-> d[at]]
    OBVIOUS
  <2> HIDE DEF d
  <2>3. Upto(d, 0)
    BY <2>1, <2>2
  <2> QED
    BY <2>3
<1>2. ASSUME NEW k \in Nat, k \in T PROVE k + 1 \in T
  <2>1. PICK d : Upto(d, k)
    BY <1>2
  <2> DEFINE e == [at \in P |-> IF at[1] + at[2] = k + 1 THEN Step(d, v, w, at[1], at[2]) ELSE d[at]]
  <2>2. e = [at \in P |-> e[at]]
    OBVIOUS
  <2>3. \A i \in 0..m, j \in 0..n :
           e[<<i, j>>] = IF i + j = k + 1 THEN Step(d, v, w, i, j) ELSE d[<<i, j>>]
    OBVIOUS
  <2> HIDE DEF e, P
  <2>4. ASSUME NEW i \in 0..m, NEW j \in 0..n, i + j <= k + 1
        PROVE  e[<<i, j>>] = Step(e, v, w, i, j)
    <3>1. Step(d, v, w, i, j) = Step(e, v, w, i, j)
      <4>1. CASE i = 0 \/ j = 0
        BY <4>1 DEF Step
      <4>2. CASE i # 0 /\ j # 0
        <5>1. /\ i - 1 \in 0..m /\ j - 1 \in 0..n /\ (i - 1) + j # k + 1 /\ i + (j - 1) # k + 1
              /\ (i - 1) + (j - 1) # k + 1
          BY <2>4, <4>2
        <5>2. /\ e[<<i - 1, j>>] = d[<<i - 1, j>>] /\ e[<<i, j - 1>>] = d[<<i, j - 1>>]
              /\ e[<<i - 1, j - 1>>] = d[<<i - 1, j - 1>>]
          BY <2>3, <5>1
        <5> QED
          BY <5>2, Zenon DEF Step
      <4> QED
        BY <4>1, <4>2
    <3>2. e[<<i, j>>] = Step(d, v, w, i, j)
      <4>1. CASE i + j = k + 1
        BY <2>3, <4>1
      <4>2. CASE i + j <= k
        BY <2>1, <2>3, <4>2
      <4> QED
        BY <2>4, <4>1, <4>2
    <3> QED
      BY <3>1, <3>2
  <2>5. Upto(e, k + 1)
    BY <2>2, <2>4
  <2> QED
    BY <2>5
<1> HIDE DEF T
<1>3. m + n \in T
  BY <1>1, <1>2, Inductive
<1>4. PICK d : Upto(d, m + n)
  BY <1>3 DEF T
<1>5. \A at \in P : d[at] = Step(d, v, w, at[1], at[2])
  <2> SUFFICES ASSUME NEW at \in P PROVE d[at] = Step(d, v, w, at[1], at[2])
    OBVIOUS
  <2>1. at = <<at[1], at[2]>> /\ at[1] \in 0..m /\ at[2] \in 0..n
    OBVIOUS
  <2>2. at[1] + at[2] <= m + n
    BY <2>1
  <2>3. d[<<at[1], at[2]>>] = Step(d, v, w, at[1], at[2])
    BY <1>4, <2>1, <2>2
  <2> QED
    BY <2>1, <2>3
<1>6. d = [at \in P |-> d[at]]
  BY <1>4
<1>7. Table(d, v, w, m, n)
  BY <1>5, <1>6 DEF Table
<1> QED
  BY <1>7

LEMMA TableOfDistance ==
    ASSUME NEW v, NEW w, Len(v) \in Nat, Len(w) \in Nat
    PROVE  \E d : Table(d, v, w, Len(v), Len(w)) /\ Levenshtein(v, w) = d[<<Len(v), Len(w)>>]
<1> DEFINE d == CHOOSE e : Table(e, v, w, Len(v), Len(w))
<1>1. Table(d, v, w, Len(v), Len(w))
  BY TableExists, Zenon
<1>2. Levenshtein(v, w) = d[<<Len(v), Len(w)>>]
  BY Zenon DEF Levenshtein, Table, Step
<1> QED
  BY <1>1, <1>2, Zenon

\* The distance of two prefixes is 0 when they are the same, and at most the length of
\* the longer one.
Measured(x, v, w, i, j) ==
    /\ x \in Nat /\ (x <= i \/ x <= j)
    /\ x = 0 <=> i = j /\ \A k \in 1..i : v[k] = w[k]

LEMMA LeastOfThree ==
    ASSUME NEW a \in Nat, NEW b \in Nat, NEW c \in Nat
    PROVE  /\ Min({a, b, c}) \in {a, b, c}
           /\ Min({a, b, c}) <= a /\ Min({a, b, c}) <= b /\ Min({a, b, c}) <= c
BY LeastOfSome

LEMMA StepMeasured ==
    ASSUME NEW d, NEW v, NEW w, NEW i \in Nat, NEW j \in Nat, i # 0, j # 0,
           Measured(d[<<i - 1, j>>], v, w, i - 1, j),
           Measured(d[<<i, j - 1>>], v, w, i, j - 1),
           Measured(d[<<i - 1, j - 1>>], v, w, i - 1, j - 1)
    PROVE  Measured(Step(d, v, w, i, j), v, w, i, j)
<1> DEFINE a == d[<<i - 1, j>>]
           b == d[<<i, j - 1>>]
           c == d[<<i - 1, j - 1>>]
           change == IF v[i] = w[j] THEN 0 ELSE 1
           x == Step(d, v, w, i, j)
<1>1. x = Min({a + 1, b + 1, c + change})
  BY DEF Step
<1>2. a \in Nat /\ b \in Nat /\ c \in Nat /\ (c <= i - 1 \/ c <= j - 1) /\ change \in {0, 1}
  BY DEF Measured
<1>3. c = 0 <=> i - 1 = j - 1 /\ \A k \in 1..(i - 1) : v[k] = w[k]
  BY DEF Measured
<1>4. change = 0 <=> v[i] = w[j]
  OBVIOUS
<1> HIDE DEF a, b, c, change, x
<1>5. a + 1 \in Nat /\ b + 1 \in Nat /\ c + change \in Nat
  BY <1>2
<1>6. x \in {a + 1, b + 1, c + change} /\ x <= c + change
  BY <1>1, <1>5, LeastOfThree
<1>7. x \in Nat /\ (x <= i \/ x <= j) /\ (x = 0 <=> c = 0 /\ change = 0)
  BY <1>2, <1>6
<1>8. c = 0 /\ change = 0 <=> i = j /\ \A k \in 1..i : v[k] = w[k]
  <2>1. i - 1 = j - 1 <=> i = j
    OBVIOUS
  <2>2. (\A k \in 1..i : v[k] = w[k]) <=> (\A k \in 1..(i - 1) : v[k] = w[k]) /\ v[i] = w[i]
    <3>1. \A k \in 1..i : k \in 1..(i - 1) \/ k = i
      OBVIOUS
    <3>2. i \in 1..i /\ \A k \in 1..(i - 1) : k \in 1..i
      OBVIOUS
    <3> QED
      BY <3>1, <3>2
  <2> QED
    BY <1>3, <1>4, <2>1, <2>2
<1> QED
  BY <1>7, <1>8 DEF Measured, x

LEMMA TableMeasured ==
    ASSUME NEW v, NEW w, NEW m \in Nat, NEW n \in Nat, NEW d, Table(d, v, w, m, n)
    PROVE  Measured(d[<<m, n>>], v, w, m, n)
<1> DEFINE T == {k \in Nat : \A i \in 0..m, j \in 0..n :
                    i + j <= k => Measured(d[<<i, j>>], v, w, i, j)}
<1>1. \A i \in 0..m, j \in 0..n : d[<<i, j>>] = Step(d, v, w, i, j)
  BY DEF Table
<1>2. ASSUME NEW i \in 0..m, NEW j \in 0..n, i = 0 \/ j = 0
      PROVE  Measured(d[<<i, j>>], v, w, i, j)
  <2>1. d[<<i, j>>] = i + j
    BY <1>1, <1>2 DEF Step
  <2>2. i + j = 0 <=> i = 0 /\ j = 0
    OBVIOUS
  <2>3. i = j /\ (\A k \in 1..i : v[k] = w[k]) <=> i = 0 /\ j = 0
    <3>1. 1..0 = {}
      OBVIOUS
    <3> QED
      BY <1>2, <3>1
  <2>4. i + j \in Nat /\ (i + j <= i \/ i + j <= j)
    BY <1>2
  <2> QED
    BY <2>1, <2>2, <2>3, <2>4 DEF Measured
<1>3. 0 \in T
  <2>1. ASSUME NEW i \in 0..m, NEW j \in 0..n, i + j <= 0 PROVE Measured(d[<<i, j>>], v, w, i, j)
    <3>1. i = 0
      BY <2>1
    <3> QED
      BY <1>2, <3>1
  <2> QED
    BY <2>1
<1>4. ASSUME NEW k \in Nat, k \in T PROVE k + 1 \in T
  <2>1. ASSUME NEW i \in 0..m, NEW j \in 0..n, i + j <= k + 1
        PROVE  Measured(d[<<i, j>>], v, w, i, j)
    <3>1. CASE i = 0 \/ j = 0
      BY <1>2, <3>1
    <3>2. CASE i # 0 /\ j # 0
      <4>1. /\ i - 1 \in 0..m /\ j - 1 \in 0..n /\ (i - 1) + j <= k /\ i + (j - 1) <= k
            /\ (i - 1) + (j - 1) <= k /\ i \in Nat /\ j \in Nat
        BY <2>1, <3>2
      <4>2. /\ Measured(d[<<i - 1, j>>], v, w, i - 1, j)
            /\ Measured(d[<<i, j - 1>>], v, w, i, j - 1)
            /\ Measured(d[<<i - 1, j - 1>>], v, w, i - 1, j - 1)
        BY <1>4, <4>1
      <4>3. Measured(Step(d, v, w, i, j), v, w, i, j)
        BY <3>2, <4>1, <4>2, StepMeasured
      <4> QED
        BY <1>1, <4>3
    <3> QED
      BY <3>1, <3>2
  <2> QED
    BY <2>1
<1> HIDE DEF T
<1>5. m + n \in T
  BY <1>3, <1>4, Inductive
<1> QED
  BY <1>5 DEF T

LEMMA EditDistance ==
    ASSUME NEW S, NEW v \in Seq(S), NEW w \in Seq(S)
    PROVE  /\ Levenshtein(v, w) \in Nat
           /\ Levenshtein(v, w) <= Len(v) \/ Levenshtein(v, w) <= Len(w)
           /\ Levenshtein(v, w) = 0 <=> v = w
<1>1. PICK d : Table(d, v, w, Len(v), Len(w)) /\ Levenshtein(v, w) = d[<<Len(v), Len(w)>>]
  BY TableOfDistance
<1>2. Measured(Levenshtein(v, w), v, w, Len(v), Len(w))
  BY <1>1, TableMeasured
<1>3. Len(v) = Len(w) /\ (\A k \in 1..Len(v) : v[k] = w[k]) => v = w
  BY SeqEqual
<1> QED
  BY <1>2, <1>3 DEF Measured

-------------------------------------------------------------------------------
\* The measures of comparison.rs.

Chars == DOMAIN Lower \cup {Lower[c] : c \in DOMAIN Lower}

LEMMA CasedChars ==
    ASSUME NEW folds, NEW w \in Seq(DOMAIN Lower)
    PROVE  /\ Cased(folds, w) \in Seq(Chars) /\ Len(Cased(folds, w)) = Len(w)
           /\ \A i \in 1..Len(w) : Cased(folds, w)[i] = IF folds THEN Lower[w[i]] ELSE w[i]
<1>1. Len(w) \in Nat /\ DOMAIN w = 1..Len(w) /\ \A i \in 1..Len(w) : w[i] \in DOMAIN Lower
  OBVIOUS
<1>2. Folded(w) = [n \in 1..Len(w) |-> Lower[w[n]]]
  BY <1>1 DEF Folded
<1>3. \A i \in 1..Len(w) : Lower[w[i]] \in Chars /\ w[i] \in Chars
  BY <1>1 DEF Chars
<1>4. Folded(w) \in Seq(Chars) /\ Len(Folded(w)) = Len(w)
  BY <1>1, <1>2, <1>3
<1>5. w \in Seq(Chars)
  BY <1>1, <1>3
<1> QED
  BY <1>2, <1>4, <1>5 DEF Cased

LEMMA Lengths ==
    ASSUME NEW v, NEW w, Len(v) \in Nat, Len(w) \in Nat
    PROVE  /\ Longer(v, w) = IF Len(v) >= Len(w) THEN Len(v) ELSE Len(w)
           /\ Shorter(v, w) = IF Len(v) <= Len(w) THEN Len(v) ELSE Len(w)
<1> DEFINE a == Len(v)
           b == Len(w)
<1> HIDE DEF a, b
<1>1. ASSUME a \in Nat, b \in Nat
      PROVE  /\ Max({a, b}) = IF a >= b THEN a ELSE b
             /\ Min({a, b}) = IF a <= b THEN a ELSE b
  <2>1. {a, b} \in SUBSET Nat /\ {a, b} # {} /\ {a, b} \in SUBSET (0..(a + b)) /\ a + b \in Nat
    BY <1>1
  <2>2. Min({a, b}) \in {a, b} /\ Min({a, b}) <= a /\ Min({a, b}) <= b
    BY <2>1, LeastOfSome
  <2>3. Max({a, b}) \in {a, b} /\ a <= Max({a, b}) /\ b <= Max({a, b})
    BY <2>1, GreatestOfSome
  <2> QED
    BY <1>1, <2>2, <2>3
<1> QED
  BY <1>1 DEF a, b, Longer, Shorter

LEMMA StartOf ==
    ASSUME NEW S, NEW w \in Seq(S), NEW n \in Nat
    PROVE  /\ Start(w, n) \in Seq(S) /\ Len(Start(w, n)) = IF n <= Len(w) THEN n ELSE Len(w)
           /\ \A i \in 1..Len(Start(w, n)) : Start(w, n)[i] = w[i]
<1>1. Min({n, Len(w)}) = IF n <= Len(w) THEN n ELSE Len(w)
  <2>1. Len(w) \in Nat /\ {n, Len(w)} \in SUBSET Nat /\ {n, Len(w)} # {}
    OBVIOUS
  <2>2. /\ Min({n, Len(w)}) \in {n, Len(w)}
        /\ Min({n, Len(w)}) <= n /\ Min({n, Len(w)}) <= Len(w)
    BY <2>1, LeastOfSome
  <2> QED
    BY <2>1, <2>2
<1> DEFINE k == IF n <= Len(w) THEN n ELSE Len(w)
<1>2. Start(w, n) = SubSeq(w, 1, k)
  BY <1>1 DEF Start
<1>3. k \in 0..Len(w)
  OBVIOUS
<1> HIDE DEF k
<1>4. /\ SubSeq(w, 1, k) \in Seq(S) /\ Len(SubSeq(w, 1, k)) = k
      /\ \A i \in 1..k : SubSeq(w, 1, k)[i] = w[i]
  BY <1>3
<1> QED
  BY <1>2, <1>4 DEF k

LEMMA CommonSubstring ==
    ASSUME NEW folds, NEW v \in Seq(DOMAIN Lower), NEW w \in Seq(DOMAIN Lower)
    PROVE  LET l == LongestCommonSubstring(folds, v, w)
               one == Cased(folds, v)
               other == Cased(folds, w)
           IN  /\ l \in Nat /\ l <= Len(v) /\ l <= Len(w)
               /\ l = Len(v) /\ l = Len(w) => one = other
               /\ Includes(other, one) => l = Len(v)
<1> DEFINE one == Cased(folds, v)
           other == Cased(folds, w)
           l == LongestCommonSubstring(folds, v, w)
           Common(n) == \E i \in 0..(Len(v) - n), j \in 0..(Len(w) - n) :
                           SubSeq(one, i + 1, i + n) = SubSeq(other, j + 1, j + n)
           A == {n \in 0..Shorter(v, w) : Common(n)}
<1>1. /\ one \in Seq(Chars) /\ other \in Seq(Chars) /\ Len(one) = Len(v) /\ Len(other) = Len(w)
      /\ Len(v) \in Nat /\ Len(w) \in Nat
  BY CasedChars
<1>2. l = Max(A)
  BY DEF LongestCommonSubstring
<1>3. Shorter(v, w) = IF Len(v) <= Len(w) THEN Len(v) ELSE Len(w)
  BY <1>1, Lengths
<1>4. Shorter(v, w) \in Nat /\ Shorter(v, w) <= Len(v) /\ Shorter(v, w) <= Len(w)
  BY <1>1, <1>3
<1> HIDE DEF one, other
<1>5. 0 \in A
  <2>1. SubSeq(one, 0 + 1, 0 + 0) = <<>> /\ SubSeq(other, 0 + 1, 0 + 0) = <<>>
    BY <1>1
  <2>2. 0 \in 0..(Len(v) - 0) /\ 0 \in 0..(Len(w) - 0) /\ 0 \in 0..Shorter(v, w)
    BY <1>1, <1>4
  <2> QED
    BY <2>1, <2>2
<1>6. l \in A /\ \A n \in A : n <= l
  <2>1. A \in SUBSET (0..Shorter(v, w)) /\ A # {}
    BY <1>5
  <2> HIDE DEF A, l
  <2> QED
    BY <1>2, <1>4, <2>1, GreatestOfSome
<1>7. l \in Nat /\ l <= Len(v) /\ l <= Len(w)
  BY <1>1, <1>4, <1>6
<1> HIDE DEF l
<1>8. ASSUME l = Len(v), l = Len(w) PROVE one = other
  <2>1. PICK i \in 0..(Len(v) - l), j \in 0..(Len(w) - l) :
             SubSeq(one, i + 1, i + l) = SubSeq(other, j + 1, j + l)
    BY <1>6
  <2>2. i = 0 /\ j = 0
    BY <1>1, <1>8
  <2>3. SubSeq(one, 1, Len(one)) = SubSeq(other, 1, Len(other))
    BY <1>1, <1>8, <2>1, <2>2
  <2> QED
    BY <1>1, <2>3, SubSeqFull
<1>9. ASSUME Includes(other, one) PROVE l = Len(v)
  <2>1. PICK k \in 0..(Len(other) - Len(one)) : SubSeq(other, k + 1, k + Len(one)) = one
    BY <1>9 DEF Includes
  <2>2. SubSeq(one, 0 + 1, 0 + Len(v)) = one
    BY <1>1, SubSeqFull
  <2>3. 0 \in 0..(Len(v) - Len(v)) /\ k \in 0..(Len(w) - Len(v)) /\ Len(v) \in 0..Shorter(v, w)
    BY <1>1, <1>3, <2>1
  <2>4. Len(v) \in A
    BY <1>1, <2>1, <2>2, <2>3
  <2>5. Len(v) <= l
    BY <1>6, <2>4
  <2> HIDE DEF A
  <2> QED
    BY <1>1, <1>7, <2>5
<1> QED
  BY <1>7, <1>8, <1>9 DEF l, one, other

\* What a measure of two words is.
LEMMA SubstringMeasure ==
    ASSUME NEW folds, NEW v \in Seq(DOMAIN Lower), NEW w \in Seq(DOMAIN Lower)
    PROVE  /\ SubstringDistance(folds, FALSE, v, w) \in Nat
           /\ SubstringDistance(folds, TRUE, v, w) \in Nat
           /\ SubstringDistance(folds, FALSE, v, w) = 0 =>
                 Cased(folds, v) = Cased(folds, w) /\ Len(v) = Len(w)
           /\ Includes(Cased(folds, w), Cased(folds, v)) =>
                 SubstringDistance(folds, TRUE, v, w) = Len(v)
<1> DEFINE l == LongestCommonSubstring(folds, v, w)
<1>1. Len(v) \in Nat /\ Len(w) \in Nat
  OBVIOUS
<1>2. /\ SubstringDistance(folds, FALSE, v, w) = Longer(v, w) - l
      /\ SubstringDistance(folds, TRUE, v, w) = l
  BY DEF SubstringDistance
<1>3. /\ l \in Nat /\ l <= Len(v) /\ l <= Len(w)
      /\ l = Len(v) /\ l = Len(w) => Cased(folds, v) = Cased(folds, w)
      /\ Includes(Cased(folds, w), Cased(folds, v)) => l = Len(v)
  BY CommonSubstring
<1>4. Longer(v, w) = IF Len(v) >= Len(w) THEN Len(v) ELSE Len(w)
  BY <1>1, Lengths
<1> HIDE DEF l
<1>5. Longer(v, w) - l \in Nat /\ (Longer(v, w) - l = 0 => l = Len(v) /\ l = Len(w))
  BY <1>1, <1>3, <1>4
<1> QED
  BY <1>2, <1>3, <1>5

LEMMA StringMeasure ==
    ASSUME NEW folds, NEW v \in Seq(DOMAIN Lower), NEW w \in Seq(DOMAIN Lower)
    PROVE  /\ StringDistance(folds, FALSE, v, w) \in Nat
           /\ StringDistance(folds, TRUE, v, w) \in Nat
           /\ StringDistance(folds, FALSE, v, w) = 0 => Cased(folds, v) = Cased(folds, w)
           /\ Cased(folds, v) = Cased(folds, w) =>
                 StringDistance(folds, TRUE, v, w) = Len(v) /\ Len(v) = Len(w)
<1> DEFINE x == Levenshtein(Cased(folds, v), Cased(folds, w))
<1>1. Len(v) \in Nat /\ Len(w) \in Nat
  OBVIOUS
<1>2. /\ StringDistance(folds, FALSE, v, w) = x
      /\ StringDistance(folds, TRUE, v, w) = Longer(v, w) - x
  BY DEF StringDistance
<1>3. /\ Cased(folds, v) \in Seq(Chars) /\ Len(Cased(folds, v)) = Len(v)
      /\ Cased(folds, w) \in Seq(Chars) /\ Len(Cased(folds, w)) = Len(w)
  BY CasedChars
<1>4. x \in Nat /\ (x <= Len(v) \/ x <= Len(w)) /\ (x = 0 <=> Cased(folds, v) = Cased(folds, w))
  BY <1>3, EditDistance
<1>5. Longer(v, w) = IF Len(v) >= Len(w) THEN Len(v) ELSE Len(w)
  BY <1>1, Lengths
<1> HIDE DEF x
<1>6. Longer(v, w) - x \in Nat /\ (x = 0 /\ Len(v) = Len(w) => Longer(v, w) - x = Len(v))
  BY <1>1, <1>4, <1>5
<1> QED
  BY <1>2, <1>3, <1>4, <1>6

\* Of a start that is not there, something is missing.
LEMMA PrefixMeasure ==
    ASSUME NEW folds, NEW v \in Seq(DOMAIN Lower), NEW w \in Seq(DOMAIN Lower)
    PROVE  /\ PrefixDistance(folds, FALSE, v, w) \in Nat
           /\ PrefixDistance(folds, TRUE, v, w) \in Nat
           /\ PrefixDistance(folds, FALSE, v, w) = 0 =>
                 Len(w) >= Len(v) /\ IsPrefix(Cased(folds, v), Cased(folds, w))
<1> DEFINE s == Start(w, Len(v))
           cv == Cased(folds, v)
           cw == Cased(folds, w)
<1>1. /\ cv \in Seq(Chars) /\ Len(cv) = Len(v) /\ cw \in Seq(Chars) /\ Len(cw) = Len(w)
      /\ Len(v) \in Nat /\ Len(w) \in Nat
      /\ \A i \in 1..Len(w) : cw[i] = IF folds THEN Lower[w[i]] ELSE w[i]
  BY CasedChars
<1>2. /\ s \in Seq(DOMAIN Lower) /\ Len(s) = IF Len(v) <= Len(w) THEN Len(v) ELSE Len(w)
      /\ \A i \in 1..Len(s) : s[i] = w[i]
  BY <1>1, StartOf
<1>3. ASSUME SubstringDistance(folds, FALSE, v, s) = 0
      PROVE  Len(w) >= Len(v) /\ IsPrefix(cv, cw)
  <2>1. cv = Cased(folds, s) /\ Len(v) = Len(s)
    BY <1>2, <1>3, SubstringMeasure
  <2>2. Len(v) <= Len(w)
    BY <1>1, <1>2, <2>1
  <2>3. \A i \in 1..Len(v) : cv[i] = cw[i]
    <3>1. \A i \in 1..Len(s) : Cased(folds, s)[i] = IF folds THEN Lower[s[i]] ELSE s[i]
      BY <1>2, CasedChars
    <3> HIDE DEF s, cv, cw
    <3>2. ASSUME NEW i \in 1..Len(v) PROVE cv[i] = cw[i]
      <4>1. i \in 1..Len(s) /\ i \in 1..Len(w)
        BY <1>1, <2>1, <2>2
      <4> QED
        BY <1>1, <1>2, <2>1, <3>1, <4>1
    <3> QED
      BY <3>2
  <2> HIDE DEF cv, cw
  <2>4. SubSeq(cw, 1, Len(v)) = cv
    <3>1. /\ SubSeq(cw, 1, Len(v)) \in Seq(Chars) /\ Len(SubSeq(cw, 1, Len(v))) = Len(v)
          /\ \A i \in 1..Len(v) : SubSeq(cw, 1, Len(v))[i] = cw[i]
      BY <1>1, <2>2
    <3> QED
      BY <1>1, <2>3, <3>1, SeqEqual
  <2>5. Len(v) \in 0..Len(cw)
    BY <1>1, <2>2
  <2>6. IsPrefix(cv, cw)
    BY <1>1, <2>4, <2>5, PrefixMeans
  <2> QED
    BY <1>1, <2>2, <2>6
<1>4. /\ PrefixDistance(folds, FALSE, v, w) = IF v = <<>> THEN 0 ELSE SubstringDistance(folds, FALSE, v, s)
      /\ PrefixDistance(folds, TRUE, v, w) = IF v = <<>> THEN 0 ELSE SubstringDistance(folds, TRUE, v, s)
  BY DEF PrefixDistance
<1>5. v = <<>> => Len(w) >= Len(v) /\ IsPrefix(cv, cw)
  <2> SUFFICES ASSUME v = <<>> PROVE Len(w) >= Len(v) /\ IsPrefix(cv, cw)
    OBVIOUS
  <2>1. Len(cv) = 0 /\ Len(w) >= Len(v)
    BY <1>1
  <2> HIDE DEF cv, cw
  <2>2. SubSeq(cw, 1, 0) = cv /\ 0 \in 0..Len(cw)
    BY <1>1, <2>1
  <2> QED
    BY <1>1, <2>1, <2>2, PrefixMeans
<1>6. /\ SubstringDistance(folds, FALSE, v, s) \in Nat
      /\ SubstringDistance(folds, TRUE, v, s) \in Nat
  BY <1>2, SubstringMeasure
<1> HIDE DEF s, cv, cw
<1>7. 0 \in Nat
  OBVIOUS
<1> QED
  BY <1>3, <1>4, <1>5, <1>6, <1>7 DEF cv, cw

-------------------------------------------------------------------------------
\* What each comparator measures.

LEMMA WordsTyped ==
    /\ \A w \in Words : w \in Seq(DOMAIN Lower)
    /\ \A w \in Words \cup {NoValue} : Present(w) \in Seq(DOMAIN Lower)
    /\ \A w \in Words : Present(w) = w
    /\ <<>> \in Seq(DOMAIN Lower) /\ Present(NoValue) = <<>>
<1>1. <<>> \in Seq(DOMAIN Lower)
  OBVIOUS
<1> QED
  BY <1>1, MatchingAssumption DEF Present

LEMMA IncludesSelf ==
    ASSUME NEW S, NEW w \in Seq(S)
    PROVE  Includes(w, w)
<1>1. SubSeq(w, 1, Len(w)) = w /\ Len(w) \in Nat
  OBVIOUS
<1>2. 0 \in 0..(Len(w) - Len(w)) /\ 0 + 1 = 1 /\ 0 + Len(w) = Len(w)
  BY <1>1
<1> QED
  BY <1>1, <1>2 DEF Includes

\* The comparators of strings.
Measuring == {"equals", "includes", "prefix", "suffix"}

LEMMA StringComparators ==
    ASSUME NEW folds, NEW negated, NEW e \in Words, NEW w0
    PROVE  /\ Distance(Comparator("equals", folds, negated), e, w0)
                 = StringDistance(folds, negated, e, Present(w0))
           /\ Distance(Comparator("includes", folds, negated), e, w0)
                 = SubstringDistance(folds, negated, e, Present(w0))
           /\ Distance(Comparator("prefix", folds, negated), e, w0)
                 = PrefixDistance(folds, negated, e, Present(w0))
           /\ Distance(Comparator("suffix", folds, negated), e, w0)
                 = PrefixDistance(folds, negated, e, Present(w0))
<1>1. e # NoValue
  BY MatchingAssumption
<1> QED
  BY <1>1 DEF Distance, Comparator, SuffixDistance, PrefixDistance

LEMMA StringDistances ==
    ASSUME NEW test \in Measuring, NEW folds, NEW negated \in BOOLEAN,
           NEW e \in Words, NEW w0 \in Words \cup {NoValue}
    PROVE  Distance(Comparator(test, folds, negated), e, w0) \in Nat
<1> DEFINE w == Present(w0)
<1>1. e \in Seq(DOMAIN Lower) /\ w \in Seq(DOMAIN Lower)
  BY WordsTyped
<1>2. /\ StringDistance(folds, negated, e, w) \in Nat
      /\ SubstringDistance(folds, negated, e, w) \in Nat
      /\ PrefixDistance(folds, negated, e, w) \in Nat
  BY <1>1, StringMeasure, SubstringMeasure, PrefixMeasure
<1>3. CASE test = "equals"
  BY <1>2, <1>3, StringComparators, Zenon
<1>4. CASE test = "includes"
  BY <1>2, <1>4, StringComparators, Zenon
<1>5. CASE test = "prefix"
  BY <1>2, <1>5, StringComparators, Zenon
<1>6. CASE test = "suffix"
  BY <1>2, <1>6, StringComparators, Zenon
<1> QED
  BY <1>3, <1>4, <1>5, <1>6 DEF Measuring

LEMMA StringRefused ==
    ASSUME NEW test \in Measuring \ {"suffix"}, NEW folds,
           NEW e \in Words, NEW w0 \in Words \cup {NoValue},
           ~Compare(Comparator(test, folds, FALSE), e, Present(w0))
    PROVE  Distance(Comparator(test, folds, FALSE), e, w0) > 0
<1> DEFINE w == Present(w0)
           x == Distance(Comparator(test, folds, FALSE), e, w0)
<1>1. e \in Seq(DOMAIN Lower) /\ w \in Seq(DOMAIN Lower)
  BY WordsTyped
<1>2. test \in Measuring /\ FALSE \in BOOLEAN
  OBVIOUS
<1>3. x \in Nat
  BY <1>2, StringDistances
<1>4. x # 0
  <2>1. CASE test = "equals"
    <3>1. Cased(folds, e) # Cased(folds, w)
      BY <2>1 DEF Compare, Comparator, StringEquals
    <3>2. StringDistance(folds, FALSE, e, w) # 0
      BY <1>1, <3>1, StringMeasure
    <3>3. x = StringDistance(folds, FALSE, e, w)
      BY <2>1, StringComparators, Zenon
    <3> QED
      BY <3>2, <3>3
  <2>2. CASE test = "includes"
    <3>1. ~Includes(Cased(folds, w), Cased(folds, e))
      BY <2>2 DEF Compare, Comparator, StringContains
    <3>2. ASSUME Cased(folds, e) = Cased(folds, w) PROVE FALSE
      <4>1. Cased(folds, w) \in Seq(Chars)
        BY <1>1, CasedChars
      <4>2. Includes(Cased(folds, w), Cased(folds, w))
        BY <4>1, IncludesSelf
      <4> QED
        BY <3>1, <3>2, <4>2
    <3>3. SubstringDistance(folds, FALSE, e, w) # 0
      BY <1>1, <3>2, SubstringMeasure
    <3>4. x = SubstringDistance(folds, FALSE, e, w)
      BY <2>2, StringComparators, Zenon
    <3> QED
      BY <3>3, <3>4
  <2>3. CASE test = "prefix"
    <3>1. ~(Len(w) >= Len(e) /\ IsPrefix(Cased(folds, e), Cased(folds, w)))
      BY <2>3 DEF Compare, Comparator, StringHasPrefix
    <3>2. PrefixDistance(folds, FALSE, e, w) # 0
      BY <1>1, <3>1, PrefixMeasure
    <3>4. x = PrefixDistance(folds, FALSE, e, w)
      BY <2>3, StringComparators, Zenon
    <3> QED
      BY <3>2, <3>4
  <2> QED
    BY <2>1, <2>2, <2>3 DEF Measuring
<1> HIDE DEF x
<1>5. x > 0
  BY <1>3, <1>4
<1> QED
  BY <1>5 DEF x

\* Of a negated comparison, what it names is in the way, all of it.
LEMMA NegatedRefused ==
    ASSUME NEW test \in {"equals", "includes"}, NEW folds,
           NEW e \in Words, e # <<>>, NEW w0 \in Words \cup {NoValue},
           ~Compare(Comparator(test, folds, TRUE), e, Present(w0))
    PROVE  Distance(Comparator(test, folds, TRUE), e, w0) > 0
<1> DEFINE w == Present(w0)
           x == Distance(Comparator(test, folds, TRUE), e, w0)
<1>1. e \in Seq(DOMAIN Lower) /\ w \in Seq(DOMAIN Lower)
  BY WordsTyped
<1>2. test \in Measuring /\ Len(e) > 0
  BY <1>1 DEF Measuring
<1>3. CASE test = "equals"
  <2>1. Cased(folds, e) = Cased(folds, w)
    BY <1>3 DEF Compare, Comparator, StringEquals
  <2>2. x = StringDistance(folds, TRUE, e, w)
    BY <1>3, StringComparators, Zenon
  <2>3. StringDistance(folds, TRUE, e, w) = Len(e)
    BY <1>1, <2>1, StringMeasure
  <2> QED
    BY <1>2, <2>2, <2>3
<1>4. CASE test = "includes"
  <2>1. Includes(Cased(folds, w), Cased(folds, e))
    BY <1>4 DEF Compare, Comparator, StringContains
  <2>2. x = SubstringDistance(folds, TRUE, e, w)
    BY <1>4, StringComparators, Zenon
  <2>3. SubstringDistance(folds, TRUE, e, w) = Len(e)
    BY <1>1, <2>1, SubstringMeasure
  <2> QED
    BY <1>2, <2>2, <2>3
<1> QED
  BY <1>3, <1>4

\* Nothing is not something, nor does it have it.
LEMMA NothingRefused ==
    ASSUME NEW test \in Measuring \ {"suffix"}, NEW folds, NEW e \in Words, e # <<>>
    PROVE  ~Compare(Comparator(test, folds, FALSE), e, <<>>)
<1> DEFINE ce == Cased(folds, e)
           cn == Cased(folds, <<>>)
<1>1. e \in Seq(DOMAIN Lower) /\ Len(e) > 0
  <2>1. e \in Seq(DOMAIN Lower)
    BY WordsTyped
  <2> QED
    BY <2>1
<1>2. ce \in Seq(Chars) /\ Len(ce) = Len(e) /\ cn \in Seq(Chars) /\ Len(cn) = 0
  <2>1. <<>> \in Seq(DOMAIN Lower) /\ Len(<<>>) = 0
    OBVIOUS
  <2> QED
    BY <1>1, <2>1, CasedChars
<1> HIDE DEF ce, cn
<1>3. ce # cn /\ ~(0 >= Len(e))
  BY <1>1, <1>2
<1>4. ~Includes(cn, ce)
  BY <1>1, <1>2 DEF Includes
<1>5. CASE test = "equals"
  BY <1>3, <1>5 DEF Compare, Comparator, StringEquals, ce, cn
<1>6. CASE test = "includes"
  <2>1. Compare(Comparator("includes", folds, FALSE), e, <<>>) <=> StringContains(folds, FALSE, e, <<>>)
    BY DEF Compare, Comparator
  <2>2. ~StringContains(folds, FALSE, e, <<>>)
    BY <1>4 DEF StringContains, Includes, ce, cn
  <2> QED
    BY <1>6, <2>1, <2>2
<1>7. CASE test = "prefix"
  <2>1. Len(<<>>) = 0
    OBVIOUS
  <2> QED
    BY <1>3, <1>7, <2>1 DEF Compare, Comparator, StringHasPrefix
<1> QED
  BY <1>5, <1>6, <1>7 DEF Measuring

\* The comparator of host names.
LEMMA HostRefused ==
    ASSUME NEW negated \in BOOLEAN, NEW e \in Words, e # <<>>, NEW w0 \in Words \cup {NoValue},
           ~CompareOptional(Comparator("hostname", TRUE, negated), e, w0),
           negated => Folded(w0) \notin Loopback
    PROVE  Distance(Comparator("hostname", TRUE, negated), e, w0) > 0
<1> DEFINE w == Present(w0)
           x == Distance(Comparator("hostname", TRUE, negated), e, w0)
<1>1. e \in Seq(DOMAIN Lower) /\ w \in Seq(DOMAIN Lower) /\ e # NoValue
  BY WordsTyped, MatchingAssumption
<1>2. x = StringDistance(TRUE, negated, e, w)
  BY <1>1 DEF Distance, Comparator
<1>3. IF w0 = NoValue THEN ~negated /\ w = <<>> ELSE ~HostnameEquals(negated, e, w0) /\ w = w0
  BY WordsTyped DEF CompareOptional, Comparator, Compare
<1>4. CASE ~negated
  <2>1. negated = FALSE
    BY <1>4
  <2>2. Cased(TRUE, e) # Cased(TRUE, w)
    <3>1. CASE w0 = NoValue
      <4>1. ~Compare(Comparator("equals", TRUE, FALSE), e, <<>>)
        BY NothingRefused DEF Measuring
      <4> QED
        BY <1>3, <3>1, <4>1 DEF Compare, Comparator, StringEquals
    <3>2. CASE w0 # NoValue
      BY <1>3, <2>1, <3>2 DEF HostnameEquals, StringEquals
    <3> QED
      BY <3>1, <3>2
  <2>3. StringDistance(TRUE, FALSE, e, w) \in Nat /\ StringDistance(TRUE, FALSE, e, w) # 0
    BY <1>1, <2>2, StringMeasure
  <2>4. x \in Nat /\ x # 0
    BY <1>2, <2>1, <2>3, Zenon
  <2> HIDE DEF x
  <2>5. x > 0
    BY <2>4
  <2> QED
    BY <2>5 DEF x
<1>5. CASE negated
  <2>1. negated = TRUE /\ w0 # NoValue /\ w = w0
    BY <1>3, <1>5
  <2>2. Folded(w) \notin Loopback /\ ~HostnameEquals(TRUE, e, w)
    BY <1>3, <2>1
  <2>3. Cased(TRUE, e) = Cased(TRUE, w)
    BY <2>2 DEF HostnameEquals, StringEquals
  <2>4. StringDistance(TRUE, TRUE, e, w) = Len(e)
    BY <1>1, <2>3, StringMeasure
  <2>5. Len(e) > 0
    BY <1>1
  <2> QED
    BY <1>2, <2>1, <2>4, <2>5
<1> QED
  BY <1>4, <1>5

\* The comparators of patterns.
LEMMA PatternDistances ==
    ASSUME NEW folds, NEW p \in Patterns, NEW w0 \in Words \cup {NoValue}
    PROVE  /\ entity \notin {"path", "body"} =>
                 Distance(Comparator("pattern", folds, FALSE), p, w0) \in Nat
           /\ /\ entity \notin {"path", "body"}
              /\ w0 = NoValue => TextLength[p] # 0
              /\ w0 # NoValue => w0 \notin Language[p]
              =>
                 Distance(Comparator("pattern", FALSE, FALSE), p, w0) > 0
           /\ w0 \in Words \ ({<<>>} \cup Language[p]) =>
                 Distance(Comparator("pattern", FALSE, FALSE), p, w0) > 0
<1>1. p # NoValue /\ TextLength[p] \in Nat /\ \A w \in Words : Unmatched[p][w] \in Nat
  BY DistanceAssumption
<1>2. \A f : Distance(Comparator("pattern", f, FALSE), p, w0) = RegexDistance(f, p, w0)
  BY <1>1 DEF Distance, Comparator
<1>3. \A w \in Words : w # <<>> => Len(w) \in Nat /\ Len(w) > 0
  BY WordsTyped
<1>4. \A w \in Words : w \notin Language[p] => Unmatched[p][w] = Len(w)
  BY DistanceAssumption
<1>5. ASSUME w0 \in Words \ ({<<>>} \cup Language[p]) PROVE RegexDistance(FALSE, p, w0) > 0
  <2>1. w0 # NoValue
    BY <1>5, MatchingAssumption
  <2>2. RegexDistance(FALSE, p, w0) = Unmatched[p][w0]
    BY <1>5, <2>1 DEF RegexDistance
  <2> QED
    BY <1>3, <1>4, <1>5, <2>2
<1>6. ASSUME entity \notin {"path", "body"}, w0 \in {NoValue, <<>>},
             w0 = NoValue => TextLength[p] # 0, w0 # NoValue => w0 \notin Language[p]
      PROVE  RegexDistance(FALSE, p, w0) > 0
  <2>1. TextLength[p] # 0
    BY <1>6, DistanceAssumption
  <2>2. RegexDistance(FALSE, p, w0) =
           IF w0 # NoValue /\ StringMatchesRegex(FALSE, p, w0) THEN 0 ELSE TextLength[p]
    BY <1>6, Zenon DEF RegexDistance
  <2>3. StringMatchesRegex(FALSE, p, w0) <=> w0 \in Language[p]
    BY Zenon DEF StringMatchesRegex
  <2>4. RegexDistance(FALSE, p, w0) = TextLength[p]
    BY <1>6, <2>2, <2>3, Zenon
  <2>5. TextLength[p] > 0
    <3>1. \A n \in Nat : n # 0 => n > 0
      OBVIOUS
    <3> QED
      BY <1>1, <2>1, <3>1, Zenon
  <2> QED
    BY <2>4, <2>5, Zenon
<1>7. ASSUME entity \notin {"path", "body"} PROVE RegexDistance(folds, p, w0) \in Nat
  <2>1. CASE w0 \in {NoValue, <<>>}
    <3>1. RegexDistance(folds, p, w0) = 0 \/ RegexDistance(folds, p, w0) = TextLength[p]
      BY <1>7, <2>1 DEF RegexDistance
    <3> QED
      BY <1>1, <3>1
  <2>2. CASE w0 \notin {NoValue, <<>>}
    BY <1>1, <2>2 DEF RegexDistance
  <2> QED
    BY <2>1, <2>2
<1> QED
  BY <1>2, <1>5, <1>6, <1>7

\* The comparators of bytes.
LEMMA BytesComparators ==
    ASSUME NEW negated, NEW e \in Words, NEW w \in Words
    PROVE  /\ Distance(Comparator("bytes", FALSE, negated), e, w) = Levenshtein(e, w)
           /\ Distance(Comparator("bytes includes", FALSE, negated), e, w) = Levenshtein(e, w)
           /\ Distance(Comparator("bytes prefix", FALSE, negated), e, w)
                 = BytesPrefixDistance(negated, e, w)
           /\ Distance(Comparator("bytes suffix", FALSE, negated), e, w)
                 = BytesSuffixDistance(negated, e, w)
<1>1. e # NoValue /\ Present(w) = w
  BY MatchingAssumption, WordsTyped
<1> QED
  BY <1>1 DEF Distance, Comparator

\* Enough is there to compare: the measure is that of as many bytes as are expected.
LEMMA BytesWindows ==
    ASSUME NEW negated, NEW e \in Words, e # <<>>, NEW w \in Words, Len(w) >= Len(e)
    PROVE  /\ BytesPrefixDistance(negated, e, w)
                 = WindowDistance(negated, Len(e), e, SubSeq(w, 1, Len(e)))
           /\ BytesSuffixDistance(negated, e, w)
                 = WindowDistance(negated, Len(e), e, SubSeq(w, Len(w) - Len(e) + 1, Len(w)))
<1>1. /\ e \in Seq(DOMAIN Lower) /\ w \in Seq(DOMAIN Lower)
      /\ Len(e) \in Nat /\ Len(w) \in Nat /\ Len(e) > 0
  BY WordsTyped
<1>2. w # <<>>
  BY <1>1
<1>3. Shorter(e, w) = Len(e)
  BY <1>1, Lengths
<1>4. Start(e, Len(e)) = e
  <2>1. Start(e, Len(e)) \in Seq(DOMAIN Lower) /\ Len(Start(e, Len(e))) = Len(e)
        /\ \A i \in 1..Len(e) : Start(e, Len(e))[i] = e[i]
    BY <1>1, StartOf
  <2> QED
    BY <1>1, <2>1, SeqEqual
<1>5. Start(w, Len(e)) = SubSeq(w, 1, Len(e))
  <2>1. Min({Len(e), Len(w)}) = Len(e)
    BY <1>3 DEF Shorter
  <2> QED
    BY <2>1 DEF Start
<1> QED
  BY <1>2, <1>3, <1>4, <1>5 DEF BytesPrefixDistance, BytesSuffixDistance

LEMMA WindowMeasure ==
    ASSUME NEW S, NEW v \in Seq(S), v # <<>>, NEW w \in Seq(S)
    PROVE  /\ v # w => WindowDistance(FALSE, Len(v), v, w) > 0
           /\ v = w => WindowDistance(TRUE, Len(v), v, w) > 0
<1>1. Levenshtein(v, w) \in Nat /\ (Levenshtein(v, w) = 0 <=> v = w) /\ Len(v) \in Nat /\ Len(v) > 0
  BY EditDistance
<1> QED
  BY <1>1 DEF WindowDistance

LEMMA PrefixWindow ==
    ASSUME NEW S, NEW v \in Seq(S), NEW w \in Seq(S), Len(w) >= Len(v)
    PROVE  /\ IsPrefix(v, w) <=> v = SubSeq(w, 1, Len(v))
           /\ SubSeq(w, 1, Len(v)) \in Seq(S)
<1>1. Len(v) \in 0..Len(w) /\ SubSeq(w, 1, Len(v)) \in Seq(S)
  OBVIOUS
<1>2. \A n \in 0..Len(w) : SubSeq(w, 1, n) = v => n = Len(v)
  OBVIOUS
<1> QED
  BY <1>1, <1>2, PrefixMeans

LEMMA SuffixWindow ==
    ASSUME NEW S, NEW v \in Seq(S), NEW w \in Seq(S), Len(w) >= Len(v)
    PROVE  /\ IsSuffix(v, w) <=> v = SubSeq(w, Len(w) - Len(v) + 1, Len(w))
           /\ SubSeq(w, Len(w) - Len(v) + 1, Len(w)) \in Seq(S)
<1>1. /\ Len(w) - Len(v) + 1 \in 1..(Len(w) + 1)
      /\ SubSeq(w, Len(w) - Len(v) + 1, Len(w)) \in Seq(S)
  OBVIOUS
<1>2. \A m \in 1..(Len(w) + 1) : SubSeq(w, m, Len(w)) = v => m = Len(w) - Len(v) + 1
  OBVIOUS
<1> QED
  BY <1>1, <1>2, SuffixMeans

-------------------------------------------------------------------------------
\* Values that are refused.

LEMMA OptionalRefused ==
    ASSUME NEW folds, NEW e \in Words, NEW w0 \in Words \cup {NoValue}
    PROVE  /\ \A test \in Measuring \ {"suffix"} :
                 /\ w0 = NoValue => e # <<>>
                 /\ ~CompareOptional(Comparator(test, folds, FALSE), e, w0)
                 => Distance(Comparator(test, folds, FALSE), e, w0) > 0
           /\ \A test \in {"equals", "includes"} :
                 e # <<>> /\ ~CompareOptional(Comparator(test, folds, TRUE), e, w0)
                 => Distance(Comparator(test, folds, TRUE), e, w0) > 0
<1>1. \A test : Comparator(test, folds, FALSE).negated = FALSE /\ Comparator(test, folds, TRUE).negated = TRUE
  BY DEF Comparator
<1>2. w0 # NoValue => Present(w0) = w0
  BY DEF Present
<1>3. w0 = NoValue => Present(w0) = <<>>
  BY DEF Present
<1>4. ASSUME NEW test \in Measuring \ {"suffix"}, w0 = NoValue => e # <<>>,
             ~CompareOptional(Comparator(test, folds, FALSE), e, w0)
      PROVE  Distance(Comparator(test, folds, FALSE), e, w0) > 0
  <2>1. CASE w0 = NoValue
    BY <1>3, <1>4, <2>1, NothingRefused, StringRefused
  <2>2. CASE w0 # NoValue
    <3>1. ~Compare(Comparator(test, folds, FALSE), e, Present(w0))
      BY <1>2, <1>4, <2>2 DEF CompareOptional
    <3> QED
      BY <1>4, <3>1, StringRefused
  <2> QED
    BY <2>1, <2>2
<1>5. ASSUME NEW test \in {"equals", "includes"}, e # <<>>,
             ~CompareOptional(Comparator(test, folds, TRUE), e, w0)
      PROVE  Distance(Comparator(test, folds, TRUE), e, w0) > 0
  <2>1. w0 # NoValue /\ ~Compare(Comparator(test, folds, TRUE), e, Present(w0))
    BY <1>1, <1>2, <1>5 DEF CompareOptional
  <2> QED
    BY <1>5, <2>1, NegatedRefused
<1> QED
  BY <1>4, <1>5

\* The matchers of single values that are measured by what they refuse, one line each.
LEMMA ValueMatchers ==
    /\ ValueMatcherFor("method", "equal") = Comparator("equals", TRUE, FALSE)
    /\ ValueMatcherFor("method", "not") = Comparator("equals", TRUE, TRUE)
    /\ ValueMatcherFor("host", "equal") = Comparator("hostname", TRUE, FALSE)
    /\ ValueMatcherFor("host", "not") = Comparator("hostname", TRUE, TRUE)
    /\ ValueMatcherFor("host", "includes") = Comparator("includes", TRUE, FALSE)
    /\ ValueMatcherFor("host", "excludes") = Comparator("includes", TRUE, TRUE)
    /\ ValueMatcherFor("host", "prefix") = Comparator("prefix", TRUE, FALSE)
    /\ ValueMatcherFor("host", "matches") = Comparator("pattern", FALSE, FALSE)
    /\ ValueMatcherFor("path", "equal") = Comparator("equals", FALSE, FALSE)
    /\ ValueMatcherFor("path", "not") = Comparator("equals", FALSE, TRUE)
    /\ ValueMatcherFor("path", "includes") = Comparator("includes", FALSE, FALSE)
    /\ ValueMatcherFor("path", "excludes") = Comparator("includes", FALSE, TRUE)
    /\ ValueMatcherFor("path", "prefix") = Comparator("prefix", FALSE, FALSE)
    /\ ValueMatcherFor("path", "matches") = Comparator("pattern", FALSE, FALSE)
    /\ ValueMatcherFor("body", "equal") = Comparator("bytes", FALSE, FALSE)
    /\ ValueMatcherFor("body", "not") = Comparator("bytes", FALSE, TRUE)
    /\ ValueMatcherFor("body", "includes") = Comparator("bytes includes", FALSE, FALSE)
    /\ ValueMatcherFor("body", "excludes") = Comparator("bytes includes", FALSE, TRUE)
    /\ ValueMatcherFor("body", "prefix") = Comparator("bytes prefix", FALSE, FALSE)
    /\ ValueMatcherFor("body", "prefix_not") = Comparator("bytes prefix", FALSE, TRUE)
    /\ ValueMatcherFor("body", "suffix") = Comparator("bytes suffix", FALSE, FALSE)
    /\ ValueMatcherFor("body", "suffix_not") = Comparator("bytes suffix", FALSE, TRUE)
    /\ ValueMatcherFor("body", "matches") = Comparator("pattern", FALSE, FALSE)
<1>1. /\ "equal" \notin Negative /\ "includes" \notin Negative /\ "prefix" \notin Negative
      /\ "matches" \notin Negative /\ "not" \in Negative /\ "excludes" \in Negative
  BY DEF Negative
<1>2. /\ ("equal" \in Negative) = FALSE /\ ("includes" \in Negative) = FALSE
      /\ ("prefix" \in Negative) = FALSE /\ ("matches" \in Negative) = FALSE
      /\ ("not" \in Negative) = TRUE /\ ("excludes" \in Negative) = TRUE
  BY <1>1
<1>3. /\ TestOf("equal") = "equals" /\ TestOf("not") = "equals"
      /\ TestOf("includes") = "includes" /\ TestOf("excludes") = "includes"
      /\ TestOf("prefix") = "prefix" /\ TestOf("matches") = "pattern"
  BY DEF TestOf
<1>4. \A m : /\ ValueMatcherFor("method", m) = Comparator("equals", TRUE, m \in Negative)
             /\ ValueMatcherFor("host", m) = HostMatcher(m)
             /\ ValueMatcherFor("path", m) = Comparator(TestOf(m), FALSE, m \in Negative)
             /\ ValueMatcherFor("body", m) = BodyMatcher(m)
  BY DEF ValueMatcherFor, MethodMatcher, PathMatcher
<1>5. /\ HostMatcher("equal") = Comparator("hostname", TRUE, FALSE)
      /\ HostMatcher("not") = Comparator("hostname", TRUE, TRUE)
      /\ HostMatcher("matches") = Comparator("pattern", FALSE, FALSE)
  BY DEF HostMatcher
<1>6. /\ HostMatcher("includes") = Comparator("includes", TRUE, FALSE)
      /\ HostMatcher("excludes") = Comparator("includes", TRUE, TRUE)
      /\ HostMatcher("prefix") = Comparator("prefix", TRUE, FALSE)
  BY <1>2, <1>3 DEF HostMatcher
<1>7. /\ BodyMatcher("equal") = Comparator("bytes", FALSE, FALSE)
      /\ BodyMatcher("not") = Comparator("bytes", FALSE, TRUE)
      /\ BodyMatcher("includes") = Comparator("bytes includes", FALSE, FALSE)
      /\ BodyMatcher("excludes") = Comparator("bytes includes", FALSE, TRUE)
      /\ BodyMatcher("prefix") = Comparator("bytes prefix", FALSE, FALSE)
      /\ BodyMatcher("prefix_not") = Comparator("bytes prefix", FALSE, TRUE)
      /\ BodyMatcher("suffix") = Comparator("bytes suffix", FALSE, FALSE)
      /\ BodyMatcher("suffix_not") = Comparator("bytes suffix", FALSE, TRUE)
      /\ BodyMatcher("matches") = Comparator("pattern", FALSE, FALSE)
  BY DEF BodyMatcher
<1> QED
  BY <1>2, <1>3, <1>4, <1>5, <1>6, <1>7, ZenonT(30)

LEMMA BytesCompares ==
    ASSUME NEW negated, NEW e, NEW w
    PROVE  /\ Compare(Comparator("bytes", FALSE, negated), e, w) <=> StringEquals(FALSE, negated, e, w)
           /\ Compare(Comparator("bytes includes", FALSE, negated), e, w) <=> BytesIncludes(negated, e, w)
           /\ Compare(Comparator("bytes prefix", FALSE, negated), e, w) <=> BytesPrefix(negated, e, w)
           /\ Compare(Comparator("bytes suffix", FALSE, negated), e, w) <=> BytesSuffix(negated, e, w)
BY DEF Compare, Comparator, StringEquals, BytesIncludes, BytesPrefix, BytesSuffix

\* A body that is long enough and not what it should be, is some bytes away.
LEMMA BodyRefused ==
    ASSUME NEW method \in Negative \cup {"equal", "includes", "prefix", "suffix"},
           NEW e \in Words, NEW w \in Words,
           method \in Negative => e # <<>>,
           method \in {"not", "excludes"} => w # e,
           method \in {"prefix", "suffix"} => Len(w) >= Len(e),
           ~Compare(ValueMatcherFor("body", method), e, w)
    PROVE  Distance(ValueMatcherFor("body", method), e, w) > 0
<1>1. e \in Seq(DOMAIN Lower) /\ w \in Seq(DOMAIN Lower)
  BY WordsTyped
<1>2. ASSUME e # w PROVE Levenshtein(e, w) > 0
  <2>1. Levenshtein(e, w) \in Nat /\ Levenshtein(e, w) # 0
    BY <1>1, <1>2, EditDistance
  <2> QED
    BY <2>1
<1> DEFINE c == ValueMatcherFor("body", method)
           start == SubSeq(w, 1, Len(e))
           end == SubSeq(w, Len(w) - Len(e) + 1, Len(w))
<1>3. ASSUME c \in {Comparator("bytes", FALSE, n) : n \in BOOLEAN}
                   \cup {Comparator("bytes includes", FALSE, n) : n \in BOOLEAN}, e # w
      PROVE  Distance(c, e, w) > 0
  <2>1. Distance(c, e, w) = Levenshtein(e, w)
    BY <1>3, BytesComparators, ZenonT(30)
  <2> QED
    BY <1>2, <1>3, <2>1
<1>4. CASE method = "equal"
  <2>1. c = Comparator("bytes", FALSE, FALSE)
    BY <1>4, ValueMatchers, Zenon
  <2>2. ~StringEquals(FALSE, FALSE, e, w)
    BY <2>1, BytesCompares, Zenon
  <2>3. e # w
    BY <2>2 DEF StringEquals
  <2> HIDE DEF c
  <2>4. Distance(c, e, w) > 0
    BY <1>3, <2>1, <2>3
  <2> QED
    BY <2>4 DEF c
<1>5. CASE method = "not"
  <2>1. c = Comparator("bytes", FALSE, TRUE)
    BY <1>5, ValueMatchers, Zenon
  <2> HIDE DEF c
  <2>2. Distance(c, e, w) > 0
    BY <1>3, <1>5, <2>1
  <2> QED
    BY <2>2 DEF c
<1>6. CASE method = "includes"
  <2>1. c = Comparator("bytes includes", FALSE, FALSE)
    BY <1>6, ValueMatchers, Zenon
  <2>2. ~BytesIncludes(FALSE, e, w)
    BY <2>1, BytesCompares, Zenon
  <2>3. ~Includes(w, e) /\ Includes(e, e)
    BY <1>1, <2>2, IncludesSelf DEF BytesIncludes, Includes
  <2>4. e # w
    BY <2>3
  <2> HIDE DEF c
  <2>5. Distance(c, e, w) > 0
    BY <1>3, <2>1, <2>4
  <2> QED
    BY <2>5 DEF c
<1>7. CASE method = "excludes"
  <2>1. c = Comparator("bytes includes", FALSE, TRUE)
    BY <1>7, ValueMatchers, Zenon
  <2> HIDE DEF c
  <2>2. Distance(c, e, w) > 0
    BY <1>3, <1>7, <2>1
  <2> QED
    BY <2>2 DEF c
<1>8. CASE method = "prefix"
  <2>1. c = Comparator("bytes prefix", FALSE, FALSE)
    BY <1>8, ValueMatchers, Zenon
  <2>2. ~BytesPrefix(FALSE, e, w)
    BY <2>1, BytesCompares, Zenon
  <2>3. ~IsPrefix(e, w)
    BY <2>2 DEF BytesPrefix, IsPrefix
  <2>4. Len(w) >= Len(e)
    BY <1>8
  <2>5. start \in Seq(DOMAIN Lower) /\ (IsPrefix(e, w) <=> e = start)
    BY <1>1, <2>4, PrefixWindow
  <2>6. e # <<>>
    BY <1>1, <2>3, <2>5
  <2>7. BytesPrefixDistance(FALSE, e, w) = WindowDistance(FALSE, Len(e), e, start)
    BY <2>4, <2>6, BytesWindows
  <2> HIDE DEF start
  <2>8. WindowDistance(FALSE, Len(e), e, start) > 0
    BY <1>1, <2>3, <2>5, <2>6, WindowMeasure
  <2>9. Distance(c, e, w) = BytesPrefixDistance(FALSE, e, w)
    BY <2>1, BytesComparators, Zenon
  <2> QED
    BY <2>7, <2>8, <2>9
<1>9. CASE method = "prefix_not"
  <2>1. c = Comparator("bytes prefix", FALSE, TRUE)
    BY <1>9, ValueMatchers, Zenon
  <2>2. ~BytesPrefix(TRUE, e, w)
    BY <2>1, BytesCompares, Zenon
  <2>3. IsPrefix(e, w)
    BY <2>2 DEF BytesPrefix, IsPrefix
  <2>4. Len(w) >= Len(e)
    BY <1>1, <2>3, PrefixMeans
  <2>5. start \in Seq(DOMAIN Lower) /\ (IsPrefix(e, w) <=> e = start)
    BY <1>1, <2>4, PrefixWindow
  <2>6. e # <<>>
    BY <1>9 DEF Negative
  <2>7. BytesPrefixDistance(TRUE, e, w) = WindowDistance(TRUE, Len(e), e, start)
    BY <2>4, <2>6, BytesWindows
  <2> HIDE DEF start
  <2>8. WindowDistance(TRUE, Len(e), e, start) > 0
    BY <1>1, <2>3, <2>5, <2>6, WindowMeasure
  <2>9. Distance(c, e, w) = BytesPrefixDistance(TRUE, e, w)
    BY <2>1, BytesComparators, Zenon
  <2> QED
    BY <2>7, <2>8, <2>9
<1>10. CASE method = "suffix"
  <2>1. c = Comparator("bytes suffix", FALSE, FALSE)
    BY <1>10, ValueMatchers, Zenon
  <2>2. ~BytesSuffix(FALSE, e, w)
    BY <2>1, BytesCompares, Zenon
  <2>3. ~IsSuffix(e, w)
    BY <2>2 DEF BytesSuffix, IsSuffix, IsPrefix
  <2>4. Len(w) >= Len(e)
    BY <1>10
  <2>5. end \in Seq(DOMAIN Lower) /\ (IsSuffix(e, w) <=> e = end)
    BY <1>1, <2>4, SuffixWindow
  <2>6. e # <<>>
    BY <1>1, <2>3, <2>5
  <2>7. BytesSuffixDistance(FALSE, e, w) = WindowDistance(FALSE, Len(e), e, end)
    BY <2>4, <2>6, BytesWindows
  <2> HIDE DEF end
  <2>8. WindowDistance(FALSE, Len(e), e, end) > 0
    BY <1>1, <2>3, <2>5, <2>6, WindowMeasure
  <2>9. Distance(c, e, w) = BytesSuffixDistance(FALSE, e, w)
    BY <2>1, BytesComparators, Zenon
  <2> QED
    BY <2>7, <2>8, <2>9
<1>11. CASE method = "suffix_not"
  <2>1. c = Comparator("bytes suffix", FALSE, TRUE)
    BY <1>11, ValueMatchers, Zenon
  <2>2. ~BytesSuffix(TRUE, e, w)
    BY <2>1, BytesCompares, Zenon
  <2>3. IsSuffix(e, w)
    BY <2>2 DEF BytesSuffix, IsSuffix, IsPrefix
  <2>4. Len(w) >= Len(e)
    BY <1>1, <2>3, SuffixMeans
  <2>5. end \in Seq(DOMAIN Lower) /\ (IsSuffix(e, w) <=> e = end)
    BY <1>1, <2>4, SuffixWindow
  <2>6. e # <<>>
    BY <1>11 DEF Negative
  <2>7. BytesSuffixDistance(TRUE, e, w) = WindowDistance(TRUE, Len(e), e, end)
    BY <2>4, <2>6, BytesWindows
  <2> HIDE DEF end
  <2>8. WindowDistance(TRUE, Len(e), e, end) > 0
    BY <1>1, <2>3, <2>5, <2>6, WindowMeasure
  <2>9. Distance(c, e, w) = BytesSuffixDistance(TRUE, e, w)
    BY <2>1, BytesComparators, Zenon
  <2> QED
    BY <2>7, <2>8, <2>9
<1> QED
  BY <1>4, <1>5, <1>6, <1>7, <1>8, <1>9, <1>10, <1>11 DEF Negative

\* A value that is refused, and not for a reason the measure does not see, is away from
\* what is asked.
LEMMA ValueRefused ==
    ASSUME TypeOK, entity \in ValueEntities, ~Accepted, ~Blind
    PROVE  DistanceOf(condition.method, condition) > 0
<1> DEFINE m == condition.method
           e == condition.value
           c == ValueMatcherFor(entity, m)
<1>1. /\ m \in ValueMethods(entity) /\ entity \notin PairEntities
      /\ IF m = "matches" THEN e \in Patterns ELSE e \in Words
      /\ value \in Words \cup {NoValue} /\ (entity # "host" => value \in Words)
  BY DEF TypeOK, Conditions, ValueMethods, ValuesOf, ValueEntities, PairEntities, Negative
<1>2. ~CompareOptional(c, e, value)
  BY DEF Accepted, Accepts, SingleValueAccepts
<1>3. DistanceOf(m, condition) = Distance(c, e, value)
  BY DEF Accepted, DistanceOf
<1>4. /\ m \in Negative \/ entity = "host" => e # <<>>
      /\ entity = "host" /\ m = "matches" => TextLength[e] # 0
      /\ entity # "body" => m \notin {"suffix", "suffix_not", "prefix_not"}
      /\ entity = "host" /\ m = "not" => Folded(value) \notin Loopback
      /\ entity = "body" /\ m \in {"not", "excludes"} => value # e
      /\ entity = "body" /\ m \in {"prefix", "suffix"} => Len(value) >= Len(e)
      /\ entity \in {"path", "body"} /\ m = "matches" => value # <<>>
  <2>1. entity = "body" => value \in Seq(DOMAIN Lower)
    BY <1>1, WordsTyped
  <2>2. entity = "body" /\ m # "matches" => Len(value) \in Nat /\ Len(e) \in Nat
    BY <1>1, <2>1, WordsTyped
  <2>3. entity = "host" /\ m = "matches" => e \in Patterns
    BY <1>1
  <2> QED
    BY <2>2, <2>3 DEF Blind, Nothing
<1> HIDE DEF m, e
<1> SUFFICES DistanceOf(m, condition) > 0
  BY DEF m
<1>5. /\ "not" \in Negative /\ "excludes" \in Negative
      /\ "equal" \notin Negative /\ "includes" \notin Negative /\ "prefix" \notin Negative
  BY DEF Negative
<1>6. CASE m = "matches"
  <2>1. entity \in {"host", "path", "body"}
    BY <1>1, <1>6 DEF ValueMethods, ValueEntities
  <2>2. c = Comparator("pattern", FALSE, FALSE)
    BY <1>6, <2>1, ValueMatchers
  <2> HIDE DEF c
  <2>3. c.negated = FALSE
    BY <2>2 DEF Comparator
  <2>4. value = NoValue \/ value \notin Language[e]
    <3>1. value # NoValue => ~Compare(c, e, value)
      BY <1>2 DEF CompareOptional
    <3>2. Compare(Comparator("pattern", FALSE, FALSE), e, value) <=> value \in Language[e]
      BY DEF Compare, Comparator, StringMatchesRegex
    <3> QED
      BY <2>2, <3>1, <3>2
  <2>5. CASE entity = "host"
    <3>1. e \in Patterns /\ value \in Words \cup {NoValue} /\ TextLength[e] # 0
      BY <1>1, <1>4, <1>6, <2>5
    <3>2. Distance(Comparator("pattern", FALSE, FALSE), e, value) > 0
      BY <2>4, <2>5, <3>1, PatternDistances
    <3> QED
      BY <1>3, <2>2, <3>2, Zenon
  <2>6. CASE entity \in {"path", "body"}
    <3>1. value \in Words \ ({<<>>} \cup Language[e])
      BY <1>1, <1>4, <1>6, <2>4, <2>6, MatchingAssumption
    <3> QED
      BY <1>1, <1>3, <1>6, <2>2, <3>1, PatternDistances
  <2> QED
    BY <2>1, <2>5, <2>6
<1>7. ASSUME NEW folds, NEW test \in Measuring \ {"suffix"}, c = Comparator(test, folds, FALSE),
             entity # "body", m # "matches", m \notin Negative
      PROVE  Distance(c, e, value) > 0
  <2>1. e \in Words /\ (value = NoValue => e # <<>>)
    BY <1>1, <1>4, <1>7, MatchingAssumption
  <2> HIDE DEF c
  <2>2. ~CompareOptional(Comparator(test, folds, FALSE), e, value)
    BY <1>2, <1>7
  <2>3. Distance(Comparator(test, folds, FALSE), e, value) > 0
    BY <1>1, <2>1, <2>2, OptionalRefused
  <2> QED
    BY <1>7, <2>3
<1>8. ASSUME NEW folds, NEW test \in {"equals", "includes"}, c = Comparator(test, folds, TRUE),
             m # "matches", m \in Negative
      PROVE  Distance(c, e, value) > 0
  <2>1. e \in Words /\ e # <<>>
    BY <1>1, <1>4, <1>8
  <2> HIDE DEF c
  <2>2. ~CompareOptional(Comparator(test, folds, TRUE), e, value)
    BY <1>2, <1>8
  <2>3. Distance(Comparator(test, folds, TRUE), e, value) > 0
    BY <1>1, <2>1, <2>2, OptionalRefused
  <2> QED
    BY <1>8, <2>3
<1>9. "equals" \in Measuring \ {"suffix"} /\ "includes" \in Measuring \ {"suffix"}
      /\ "prefix" \in Measuring \ {"suffix"}
  BY DEF Measuring
<1>10. CASE entity = "host" /\ m \in {"equal", "not"}
  <2>1. PICK negated \in BOOLEAN : /\ c = Comparator("hostname", TRUE, negated)
                                   /\ negated <=> m = "not"
    <3>1. CASE m = "equal"
      <4>1. c = Comparator("hostname", TRUE, FALSE)
        BY <1>10, <3>1, ValueMatchers, Zenon
      <4> QED
        BY <3>1, <4>1, Zenon
    <3>2. CASE m = "not"
      <4>1. c = Comparator("hostname", TRUE, TRUE)
        BY <1>10, <3>2, ValueMatchers, Zenon
      <4> QED
        BY <3>2, <4>1, Zenon
    <3> QED
      BY <1>10, <3>1, <3>2
  <2>2. e \in Words /\ e # <<>>
    BY <1>1, <1>4, <1>10
  <2> HIDE DEF c
  <2>3. ~CompareOptional(Comparator("hostname", TRUE, negated), e, value)
    BY <1>2, <2>1
  <2>4. negated => Folded(value) \notin Loopback
    BY <1>4, <1>10, <2>1
  <2>5. Distance(Comparator("hostname", TRUE, negated), e, value) > 0
    BY <1>1, <2>2, <2>3, <2>4, HostRefused
  <2> QED
    BY <1>3, <2>1, <2>5
<1>11. CASE entity # "body" /\ m # "matches" /\ ~(entity = "host" /\ m \in {"equal", "not"})
  <2>1. m \in {"equal", "not", "includes", "excludes", "prefix"}
    BY <1>1, <1>4, <1>11 DEF ValueMethods, Negative
  <2>2. entity = "method" => m \in {"equal", "not"}
    BY <1>1 DEF ValueMethods
  <2>3. CASE m = "equal"
    <3>1. entity \in {"method", "path"}
      BY <1>11, <2>2, <2>3 DEF ValueEntities
    <3>2. c \in {Comparator("equals", TRUE, FALSE), Comparator("equals", FALSE, FALSE)}
      BY <2>3, <3>1, ValueMatchers
    <3> HIDE DEF c
    <3> QED
      BY <1>3, <1>5, <1>7, <1>9, <1>11, <2>3, <3>2
  <2>4. CASE m = "includes"
    <3>1. entity \in {"host", "path"}
      BY <1>11, <2>2, <2>4 DEF ValueEntities
    <3>2. c \in {Comparator("includes", TRUE, FALSE), Comparator("includes", FALSE, FALSE)}
      BY <2>4, <3>1, ValueMatchers
    <3> HIDE DEF c
    <3> QED
      BY <1>3, <1>5, <1>7, <1>9, <1>11, <2>4, <3>2
  <2>5. CASE m = "prefix"
    <3>1. entity \in {"host", "path"}
      BY <1>11, <2>2, <2>5 DEF ValueEntities
    <3>2. c \in {Comparator("prefix", TRUE, FALSE), Comparator("prefix", FALSE, FALSE)}
      BY <2>5, <3>1, ValueMatchers
    <3> HIDE DEF c
    <3> QED
      BY <1>3, <1>5, <1>7, <1>9, <1>11, <2>5, <3>2
  <2>6. CASE m = "not"
    <3>1. entity \in {"method", "path"}
      BY <1>11, <2>2, <2>6 DEF ValueEntities
    <3>2. c \in {Comparator("equals", TRUE, TRUE), Comparator("equals", FALSE, TRUE)}
      BY <2>6, <3>1, ValueMatchers
    <3> HIDE DEF c
    <3> QED
      BY <1>3, <1>5, <1>8, <1>11, <2>6, <3>2
  <2>7. CASE m = "excludes"
    <3>1. entity \in {"host", "path"}
      BY <1>11, <2>2, <2>7 DEF ValueEntities
    <3>2. c \in {Comparator("includes", TRUE, TRUE), Comparator("includes", FALSE, TRUE)}
      BY <2>7, <3>1, ValueMatchers
    <3> HIDE DEF c
    <3> QED
      BY <1>3, <1>5, <1>8, <1>11, <2>7, <3>2
  <2> QED
    BY <2>1, <2>3, <2>4, <2>5, <2>6, <2>7
<1>12. CASE entity = "body" /\ m # "matches"
  <2>1. /\ m \in Negative \cup {"equal", "includes", "prefix", "suffix"}
        /\ e \in Words /\ value \in Words
    BY <1>1, <1>12 DEF ValueMethods
  <2>2. value # NoValue
    BY <2>1, MatchingAssumption
  <2>3. ~Compare(ValueMatcherFor("body", m), e, value)
    BY <1>2, <1>12, <2>2 DEF CompareOptional
  <2>4. Distance(ValueMatcherFor("body", m), e, value) > 0
    BY <1>4, <1>12, <2>1, <2>3, BodyRefused
  <2> QED
    BY <1>3, <1>12, <2>4
<1> QED
  BY <1>6, <1>10, <1>11, <1>12

-------------------------------------------------------------------------------
\* Pairs that are refused.

\* The pair that is measured is one of the request's.
LEMMA BestMatch ==
    ASSUME NEW m, NEW name, NEW expected, pairs \in Seq([name: Names, value: Words]), pairs # <<>>,
           \A n \in DOMAIN pairs : PairDistance(m, name, expected, pairs[n]) \in Nat
    PROVE  \E n \in DOMAIN pairs : FindBestMatch(m, name, expected) = pairs[n]
<1> DEFINE named == {n \in DOMAIN pairs : pairs[n].name = name}
           far == {PairDistance(m, name, expected, pairs[n]) : n \in DOMAIN pairs}
           nearest == {n \in DOMAIN pairs : PairDistance(m, name, expected, pairs[n]) = Min(far)}
           best == IF named # {} THEN named ELSE nearest
<1>1. DOMAIN pairs = 1..Len(pairs) /\ Len(pairs) \in Nat /\ 1 \in DOMAIN pairs
  OBVIOUS
<1>2. far \in SUBSET Nat /\ far # {}
  BY <1>1
<1>3. Min(far) \in far
  BY <1>2, LeastOfSome
<1>4. nearest # {}
  BY <1>3
<1>5. best \in SUBSET (DOMAIN pairs) /\ best # {}
  BY <1>4
<1>6. best \in SUBSET Nat
  BY <1>1, <1>5
<1>7. FindBestMatch(m, name, expected) = pairs[Min(best)]
  BY DEF FindBestMatch
<1> HIDE DEF best
<1>8. Min(best) \in best
  BY <1>5, <1>6, LeastOfSome
<1> QED
  BY <1>5, <1>7, <1>8

\* A request of which every pair is away, and the absence of one, is away.
LEMMA PairsAway ==
    ASSUME NEW m, NEW name, NEW expected, pairs \in Seq([name: Names, value: Words]),
           \A n \in DOMAIN pairs : /\ PairDistance(m, name, expected, pairs[n]) \in Nat
                                   /\ PairDistance(m, name, expected, pairs[n]) > 0,
           pairs = <<>> =>
              PairDistance(m, name, expected, [name |-> NoValue, value |-> NoValue]) > 0
    PROVE  MultiValueDistance(m, name, expected) > 0
<1>1. CASE pairs = <<>>
  BY <1>1 DEF MultiValueDistance
<1>2. CASE pairs # <<>>
  <2>1. PICK n \in DOMAIN pairs : FindBestMatch(m, name, expected) = pairs[n]
    BY <1>2, BestMatch
  <2>2. MultiValueDistance(m, name, expected) = PairDistance(m, name, expected, pairs[n])
    BY <1>2, <2>1 DEF MultiValueDistance
  <2> QED
    BY <2>2
<1> QED
  BY <1>1, <1>2

LEMMA SumAway ==
    ASSUME NEW k \in Nat, NEW v \in Nat
    PROVE  k + v \in Nat /\ (k > 0 \/ v > 0 => k + v > 0)
OBVIOUS

LEMMA AnyMatcher ==
    ASSUME NEW e \in PairEntities, NEW method
    PROVE  \E f \in BOOLEAN : /\ MatcherFor(e, method) = PairMatcher(method, f)
                              /\ method = "matches" /\ e # "header" => f = FALSE
<1>1. CASE e = "query"
  BY <1>1 DEF MatcherFor, QueryMatcher
<1>2. CASE e = "header"
  BY <1>2 DEF MatcherFor, HeaderMatcher
<1>3. CASE e = "cookie"
  <2> DEFINE f == method \in {"prefix_not", "suffix_not"}
  <2>1. MatcherFor(e, method) = PairMatcher(method, f)
    BY <1>3, Zenon DEF MatcherFor, CookieMatcher
  <2>2. f \in BOOLEAN /\ (method = "matches" => f = FALSE)
    OBVIOUS
  <2> QED
    BY <2>1, <2>2, Zenon
<1>4. CASE e = "form"
  <2> DEFINE f == method = "prefix_not"
  <2>1. MatcherFor(e, method) = PairMatcher(method, f)
    BY <1>4 DEF MatcherFor, FormMatcher
  <2>2. f \in BOOLEAN /\ (method = "matches" => f = FALSE)
    OBVIOUS
  <2> QED
    BY <2>1, <2>2, Zenon
<1> QED
  BY <1>1, <1>2, <1>3, <1>4 DEF PairEntities

\* What a condition on pairs holds.
LEMMA PairConditions ==
    ASSUME TypeOK, entity \in PairEntities
    PROVE  /\ entity \notin ValueEntities /\ entity \notin {"path", "body"}
           /\ condition.method \in PairMethods
           /\ IF condition.method \in {"matches", "count"} THEN condition.name \in Patterns
                                                           ELSE condition.name \in Words
           /\ condition.method \in {"matches", "count"} => condition.value \in Patterns
           /\ condition.method \in {"exists", "missing"} => condition.value = NoValue
           /\ condition.method \notin {"matches", "count", "exists", "missing"} =>
                 condition.value \in Words
           /\ condition.count \in Nat
           /\ pairs \in Seq([name: Names, value: Words])
           /\ \A n \in DOMAIN pairs : /\ pairs[n].name \in Words /\ pairs[n].name # NoValue
                                      /\ pairs[n].value \in Words /\ pairs[n].value # NoValue
<1>1. Names \subseteq Words /\ NoValue \notin Words /\ MaxPairs \in Nat
  BY MatchingAssumption
<1>2. entity \notin ValueEntities /\ entity \notin {"path", "body"}
  BY DEF PairEntities, ValueEntities
<1>3. condition \in Conditions(entity) /\ pairs \in Seq([name: Names, value: Words])
  BY DEF TypeOK
<1>4. \A n \in DOMAIN pairs : pairs[n] \in [name: Names, value: Words]
  BY <1>3, ElementOf
<1>5. 0 \in Nat /\ \A n \in 0..MaxPairs : n \in Nat
  BY <1>1
<1> QED
  BY <1>1, <1>2, <1>3, <1>4, <1>5 DEF Conditions, PairMethods, Negative

\* The comparators for pairs, by method.
LEMMA PairComparators ==
    ASSUME NEW f, NEW method \in PairMethods
    PROVE  /\ PairMatcher(method, f).key =
                 IF method \in {"matches", "count"} THEN Comparator("pattern", f, FALSE)
                 ELSE IF method = "missing" THEN Comparator("equals", f, TRUE)
                 ELSE Comparator("equals", f, FALSE)
           /\ method \in {"equal", "includes", "prefix", "suffix"} =>
                 /\ PairMatcher(method, f).value = Comparator(TestOf(method), FALSE, FALSE)
                 /\ TestOf(method) \in Measuring /\ (method # "suffix" => TestOf(method) # "suffix")
           /\ method \in Negative =>
                 /\ PairMatcher(method, f).value = Comparator(TestOf(method), FALSE, TRUE)
                 /\ TestOf(method) \in Measuring
                 /\ method \in {"not", "excludes"} => TestOf(method) \in {"equals", "includes"}
           /\ method \in {"matches", "count"} =>
                 PairMatcher(method, f).value = Comparator("pattern", FALSE, FALSE)
<1>1. /\ method = "missing" => (method = "missing") = TRUE
      /\ method # "missing" => (method = "missing") = FALSE
      /\ method \in Negative => (method \in Negative) = TRUE
      /\ method \notin Negative => (method \in Negative) = FALSE
  OBVIOUS
<1>2. /\ PairMatcher(method, f).key = IF method \in {"matches", "count"}
                                      THEN Comparator("pattern", f, FALSE)
                                      ELSE Comparator("equals", f, method = "missing")
      /\ PairMatcher(method, f).value = Comparator(TestOf(method), FALSE, method \in Negative)
  BY DEF PairMatcher
<1>3. /\ method \in {"equal", "not"} => TestOf(method) = "equals"
      /\ method \in {"includes", "excludes"} => TestOf(method) = "includes"
      /\ method \in {"prefix", "prefix_not"} => TestOf(method) = "prefix"
      /\ method \in {"suffix", "suffix_not"} => TestOf(method) = "suffix"
      /\ method \in {"matches", "count"} => TestOf(method) = "pattern"
  BY DEF TestOf
<1>4. /\ method \in {"equal", "includes", "prefix", "suffix"} =>
            TestOf(method) \in Measuring /\ (method # "suffix" => TestOf(method) # "suffix")
      /\ method \in Negative => TestOf(method) \in Measuring
      /\ method \in {"not", "excludes"} => TestOf(method) \in {"equals", "includes"}
      /\ method \in {"equal", "includes", "prefix", "suffix", "matches", "count"} => method \notin Negative
  BY <1>3 DEF Measuring, Negative
<1>5. PairMatcher(method, f).key =
         IF method \in {"matches", "count"} THEN Comparator("pattern", f, FALSE)
         ELSE IF method = "missing" THEN Comparator("equals", f, TRUE)
         ELSE Comparator("equals", f, FALSE)
  BY <1>1, <1>2
<1>6. /\ method \in Negative => PairMatcher(method, f).value = Comparator(TestOf(method), FALSE, TRUE)
      /\ method \notin Negative => PairMatcher(method, f).value = Comparator(TestOf(method), FALSE, FALSE)
  BY <1>1, <1>2
<1>7. method \in {"matches", "count"} => PairMatcher(method, f).value = Comparator("pattern", FALSE, FALSE)
  BY <1>3, <1>4, <1>6
<1> QED
  BY <1>4, <1>5, <1>6, <1>7

LEMMA PairDistances ==
    ASSUME TypeOK, entity \in PairEntities, NEW f \in BOOLEAN,
           NEW k0 \in Words \cup {NoValue}, NEW v0 \in Words \cup {NoValue}
    PROVE  LET m == PairMatcher(condition.method, f)
           IN  /\ Distance(m.key, condition.name, k0) \in Nat
               /\ Distance(m.value, condition.value, v0) \in Nat
<1> DEFINE method == condition.method
           name == condition.name
           e == condition.value
           m == PairMatcher(method, f)
<1>1. /\ method \in PairMethods /\ entity \notin {"path", "body"}
      /\ IF method \in {"matches", "count"} THEN name \in Patterns ELSE name \in Words
      /\ method \in {"matches", "count"} => e \in Patterns
      /\ method \in {"exists", "missing"} => e = NoValue
      /\ method \notin {"matches", "count", "exists", "missing"} => e \in Words
  BY PairConditions
<1> HIDE DEF method, name, e
<1>2. Distance(m.key, name, k0) \in Nat
  <2>1. CASE method \in {"matches", "count"}
    <3>1. m.key = Comparator("pattern", f, FALSE)
      BY <1>1, <2>1, PairComparators
    <3>2. Distance(Comparator("pattern", f, FALSE), name, k0) \in Nat
      BY <1>1, <2>1, PatternDistances
    <3> QED
      BY <3>1, <3>2, Zenon
  <2>2. CASE method \notin {"matches", "count"}
    <3>1. m.key = Comparator("equals", f, TRUE) \/ m.key = Comparator("equals", f, FALSE)
      BY <1>1, <2>2, PairComparators
    <3>2. "equals" \in Measuring /\ TRUE \in BOOLEAN /\ FALSE \in BOOLEAN
      BY DEF Measuring
    <3>3. /\ Distance(Comparator("equals", f, TRUE), name, k0) \in Nat
          /\ Distance(Comparator("equals", f, FALSE), name, k0) \in Nat
      BY <1>1, <2>2, <3>2, StringDistances
    <3> QED
      BY <3>1, <3>3, Zenon
  <2> QED
    BY <2>1, <2>2
<1>3. Distance(m.value, e, v0) \in Nat
  <2>1. CASE method \in {"matches", "count"}
    <3>1. m.value = Comparator("pattern", FALSE, FALSE)
      BY <1>1, <2>1, PairComparators
    <3>2. Distance(Comparator("pattern", FALSE, FALSE), e, v0) \in Nat
      BY <1>1, <2>1, PatternDistances
    <3> QED
      BY <3>1, <3>2, Zenon
  <2>2. CASE method \in {"exists", "missing"}
    <3>1. Distance(m.value, e, v0) = 0
      BY <1>1, <2>2 DEF Distance
    <3> QED
      BY <3>1
  <2>3. CASE method \in Negative \cup {"equal", "includes", "prefix", "suffix"}
    <3>1. /\ \/ m.value = Comparator(TestOf(method), FALSE, TRUE)
             \/ m.value = Comparator(TestOf(method), FALSE, FALSE)
          /\ TestOf(method) \in Measuring
      BY <1>1, <2>3, PairComparators
    <3>2. e \in Words
      BY <1>1, <2>3 DEF Negative
    <3>3. /\ Distance(Comparator(TestOf(method), FALSE, TRUE), e, v0) \in Nat
          /\ Distance(Comparator(TestOf(method), FALSE, FALSE), e, v0) \in Nat
      BY <3>1, <3>2, StringDistances
    <3> QED
      BY <3>1, <3>3, Zenon
  <2> QED
    BY <1>1, <2>1, <2>2, <2>3 DEF PairMethods
<1> QED
  BY <1>2, <1>3 DEF method, name, e

\* Whoever is absent is away from every name.
LEMMA NameAway ==
    ASSUME TypeOK, entity \in PairEntities, NEW f \in BOOLEAN, ~Blind,
           condition.method \notin {"missing", "count"},
           condition.method = "matches" => f = FALSE,
           NEW k0 \in Words \cup {NoValue}, k0 = NoValue => pairs = <<>>,
           k0 # NoValue => ~Compare(PairMatcher(condition.method, f).key, condition.name, k0)
    PROVE  Distance(PairMatcher(condition.method, f).key, condition.name, k0) > 0
<1> DEFINE method == condition.method
           name == condition.name
           key == PairMatcher(method, f).key
<1>1. /\ method \in PairMethods /\ entity \notin {"path", "body"}
      /\ IF method \in {"matches", "count"} THEN name \in Patterns ELSE name \in Words
  BY PairConditions
<1>2. k0 = NoValue => name # <<>> /\ (name \in Patterns => TextLength[name] # 0)
  BY DEF Blind, Nothing
<1> HIDE DEF method, name
<1>3. CASE method = "matches"
  <2>1. key = Comparator("pattern", FALSE, FALSE)
    <3>1. key = Comparator("pattern", f, FALSE)
      BY <1>1, <1>3, PairComparators DEF method
    <3>2. f = FALSE
      BY <1>3 DEF method
    <3> QED
      BY <3>1, <3>2, Zenon
  <2>2. Compare(Comparator("pattern", FALSE, FALSE), name, k0) <=> k0 \in Language[name]
    BY DEF Compare, Comparator, StringMatchesRegex
  <2>3. k0 = NoValue \/ k0 \notin Language[name]
    BY <2>1, <2>2 DEF method, name
  <2>4. Distance(Comparator("pattern", FALSE, FALSE), name, k0) > 0
    BY <1>1, <1>2, <1>3, <2>3, PatternDistances
  <2>5. Distance(key, name, k0) > 0
    BY <2>1, <2>4, Zenon
  <2> QED
    BY <2>5 DEF method, name
<1>4. CASE method # "matches"
  <2>1. key = Comparator("equals", f, FALSE)
    BY <1>1, <1>4, PairComparators DEF method
  <2>2. name \in Words
    BY <1>1, <1>4 DEF method
  <2>3. "equals" \in Measuring \ {"suffix"}
    BY DEF Measuring
  <2>4. ~Compare(Comparator("equals", f, FALSE), name, Present(k0))
    <3>1. CASE k0 = NoValue
      <4>1. Present(k0) = <<>>
        BY <3>1 DEF Present
      <4>2. ~Compare(Comparator("equals", f, FALSE), name, <<>>)
        BY <1>2, <2>2, <2>3, <3>1, NothingRefused
      <4> QED
        BY <4>1, <4>2, Zenon
    <3>2. CASE k0 # NoValue
      <4>1. Present(k0) = k0
        BY <3>2 DEF Present
      <4>2. ~Compare(key, name, k0)
        BY <3>2 DEF method, name
      <4> QED
        BY <2>1, <4>1, <4>2, Zenon
    <3> QED
      BY <3>1, <3>2
  <2>5. Distance(Comparator("equals", f, FALSE), name, k0) > 0
    BY <2>2, <2>3, <2>4, StringRefused
  <2>6. Distance(key, name, k0) > 0
    BY <2>1, <2>5, Zenon
  <2> QED
    BY <2>6 DEF method, name
<1> QED
  BY <1>3, <1>4

\* A value of that name that is not as asked is away from it.
LEMMA ValueAway ==
    ASSUME TypeOK, entity \in PairEntities, NEW f \in BOOLEAN, ~Blind, NEW v0 \in Words,
           condition.method # "count", condition.value # NoValue,
           ~Compare(PairMatcher(condition.method, f).value, condition.value, v0)
    PROVE  Distance(PairMatcher(condition.method, f).value, condition.value, v0) > 0
<1> DEFINE method == condition.method
           e == condition.value
           c == PairMatcher(method, f).value
<1>1. /\ method \in PairMethods /\ entity \notin {"path", "body"}
      /\ method = "matches" => e \in Patterns
      /\ method \notin {"exists", "missing"}
      /\ method # "matches" => e \in Words
  BY PairConditions
<1>2. /\ method \in Negative => e # <<>>
      /\ method \notin {"suffix", "suffix_not", "prefix_not"}
  BY <1>1 DEF Blind, Nothing
<1>3. v0 # NoValue /\ Present(v0) = v0
  BY MatchingAssumption, WordsTyped
<1> HIDE DEF method, e
<1>4. ~Compare(c, e, v0)
  BY DEF method, e
<1>5. CASE method = "matches"
  <2>1. c = Comparator("pattern", FALSE, FALSE)
    BY <1>1, <1>5, PairComparators
  <2>2. Compare(Comparator("pattern", FALSE, FALSE), e, v0) <=> v0 \in Language[e]
    BY DEF Compare, Comparator, StringMatchesRegex
  <2>3. v0 \notin Language[e]
    BY <1>4, <2>1, <2>2
  <2>4. Distance(Comparator("pattern", FALSE, FALSE), e, v0) > 0
    BY <1>1, <1>3, <1>5, <2>3, PatternDistances
  <2>5. Distance(c, e, v0) > 0
    BY <2>1, <2>4, Zenon
  <2> QED
    BY <2>5 DEF method, e
<1>6. CASE method \in {"equal", "includes", "prefix"}
  <2>1. /\ c = Comparator(TestOf(method), FALSE, FALSE)
        /\ TestOf(method) \in Measuring \ {"suffix"}
    BY <1>1, <1>6, PairComparators
  <2>2. ~Compare(Comparator(TestOf(method), FALSE, FALSE), e, Present(v0))
    BY <1>3, <1>4, <2>1, Zenon
  <2>3. Distance(Comparator(TestOf(method), FALSE, FALSE), e, v0) > 0
    BY <1>1, <1>6, <2>1, <2>2, StringRefused
  <2>4. Distance(c, e, v0) > 0
    BY <2>1, <2>3, Zenon
  <2> QED
    BY <2>4 DEF method, e
<1>7. CASE method \in {"not", "excludes"}
  <2>1. /\ c = Comparator(TestOf(method), FALSE, TRUE)
        /\ TestOf(method) \in {"equals", "includes"} /\ method \in Negative
    BY <1>1, <1>7, PairComparators DEF Negative
  <2>2. ~Compare(Comparator(TestOf(method), FALSE, TRUE), e, Present(v0))
    BY <1>3, <1>4, <2>1, Zenon
  <2>3. Distance(Comparator(TestOf(method), FALSE, TRUE), e, v0) > 0
    BY <1>1, <1>2, <1>7, <2>1, <2>2, NegatedRefused
  <2>4. Distance(c, e, v0) > 0
    BY <2>1, <2>3, Zenon
  <2> QED
    BY <2>4 DEF method, e
<1>8. method # "count"
  BY DEF method
<1> QED
  BY <1>1, <1>2, <1>5, <1>6, <1>7, <1>8 DEF PairMethods, Negative

\* Where some pair has to fit, and none does.
LEMMA PresenceAway ==
    ASSUME TypeOK, entity \in PairEntities, NEW f \in BOOLEAN, ~Blind,
           condition.method \in PairMethods \ (Negative \cup {"missing", "count"}),
           condition.method = "matches" => f = FALSE,
           ~MultiValueAccepts(PairMatcher(condition.method, f), condition.name, condition.value)
    PROVE  MultiValueDistance(PairMatcher(condition.method, f), condition.name, condition.value) > 0
<1> DEFINE method == condition.method
           name == condition.name
           e == condition.value
           m == PairMatcher(method, f)
           nobody == [name |-> NoValue, value |-> NoValue]
<1>1. m.strategy = "Presence" /\ m.operator = "AND"
  BY DEF PairMatcher
<1>2. \A n \in DOMAIN pairs : pairs[n].name \in Words /\ pairs[n].name # NoValue
                              /\ pairs[n].value \in Words /\ pairs[n].value # NoValue
  BY PairConditions
<1>3. ASSUME NEW n \in DOMAIN pairs
      PROVE  PairDistance(m, name, e, pairs[n]) \in Nat /\ PairDistance(m, name, e, pairs[n]) > 0
  <2> DEFINE p == pairs[n]
  <2>1. ~PairMeets(m, name, e, p)
    BY <1>1 DEF MultiValueAccepts, PairMeets
  <2>2. \/ ~Compare(m.key, name, p.name)
        \/ e # NoValue /\ ~Compare(m.value, e, p.value)
    BY <1>1, <1>2, <2>1 DEF PairMeets
  <2>3. Distance(m.key, name, p.name) \in Nat /\ Distance(m.value, e, p.value) \in Nat
    BY <1>2, PairDistances
  <2>4. ~Compare(m.key, name, p.name) => Distance(m.key, name, p.name) > 0
    BY <1>2, NameAway
  <2>5. e # NoValue /\ ~Compare(m.value, e, p.value) => Distance(m.value, e, p.value) > 0
    BY <1>2, ValueAway
  <2> QED
    BY <2>2, <2>3, <2>4, <2>5, SumAway DEF PairDistance
<1>4. ASSUME pairs = <<>> PROVE PairDistance(m, name, e, nobody) > 0
  <2>1. Distance(m.key, name, NoValue) \in Nat /\ Distance(m.value, e, NoValue) \in Nat
    BY PairDistances
  <2>2. Distance(m.key, name, NoValue) > 0
    BY <1>4, NameAway
  <2>3. PairDistance(m, name, e, nobody) = Distance(m.key, name, NoValue) + Distance(m.value, e, NoValue)
    BY DEF PairDistance
  <2> QED
    BY <2>1, <2>2, <2>3, SumAway
<1>5. pairs \in Seq([name: Names, value: Words])
  BY PairConditions
<1> QED
  BY <1>3, <1>4, <1>5, PairsAway

\* Where no pair may fit, and the only one does, or its name is not there.
LEMMA AbsenceAway ==
    ASSUME TypeOK, entity \in PairEntities, NEW f \in BOOLEAN, ~Blind,
           condition.method \in Negative \cup {"missing"},
           ~MultiValueAccepts(PairMatcher(condition.method, f), condition.name, condition.value)
    PROVE  MultiValueDistance(PairMatcher(condition.method, f), condition.name, condition.value) > 0
<1> DEFINE method == condition.method
           name == condition.name
           e == condition.value
           m == PairMatcher(method, f)
           nobody == [name |-> NoValue, value |-> NoValue]
<1>1. /\ method \in {"not", "excludes", "missing"} /\ method \in PairMethods
      /\ method = "missing" => name # <<>> /\ e = NoValue
      /\ method # "missing" => e \in Words /\ e # NoValue
      /\ name \in Words /\ pairs \in Seq([name: Names, value: Words])
  <2>1. method \notin {"suffix", "suffix_not", "prefix_not"}
    BY PairConditions DEF Blind
  <2>2. method = "missing" => name # <<>>
    BY DEF Blind
  <2>3. method \in {"not", "excludes", "missing"} /\ method \notin {"matches", "count", "exists"}
    BY <2>1 DEF Negative
  <2> QED
    BY <2>2, <2>3, PairConditions, MatchingAssumption
<1>2. \A n \in DOMAIN pairs : pairs[n].name \in Words /\ pairs[n].name # NoValue
                              /\ pairs[n].value \in Words /\ pairs[n].value # NoValue
  BY PairConditions
<1>3. DOMAIN pairs \subseteq {1} /\ (pairs # <<>> => DOMAIN pairs = {1})
  <2>1. Len(pairs) <= 1
    <3>1. Len(pairs) \in Nat
      BY <1>1
    <3> QED
      BY <3>1 DEF Blind
  <2>2. DOMAIN pairs = 1..Len(pairs) /\ Len(pairs) \in Nat /\ (pairs # <<>> => Len(pairs) # 0)
    BY <1>1
  <2> DEFINE l == Len(pairs)
  <2> HIDE DEF l
  <2>3. l \in Nat /\ l <= 1 => 1..l \subseteq {1} /\ (l # 0 => 1..l = {1})
    OBVIOUS
  <2> QED
    BY <2>1, <2>2, <2>3 DEF l
<1>4. /\ m.strategy = "Absence" /\ m.operator = IF method = "missing" THEN "AND" ELSE "IMPLICATION"
      /\ m.keyRequired <=> method # "missing"
  <2>1. method = "missing" => method \notin Negative
    BY DEF Negative
  <2>2. method \in Negative \cup {"missing"}
    OBVIOUS
  <2> QED
    BY <2>1, <2>2 DEF PairMatcher
<1>5. ASSUME NEW n \in DOMAIN pairs
      PROVE  PairDistance(m, name, e, pairs[n]) \in Nat /\ PairDistance(m, name, e, pairs[n]) > 0
  <2> DEFINE p == pairs[n]
  <2>1. Distance(m.key, name, p.name) \in Nat /\ Distance(m.value, e, p.value) \in Nat
    BY <1>2, PairDistances
  <2>2. CASE method # "missing"
    <3>1. ~Compare(m.key, name, p.name) \/ ~PairMeets(m, name, e, p)
      BY <1>3, <1>4, <2>2 DEF MultiValueAccepts, PairMeets
    <3>2. \/ ~Compare(m.key, name, p.name)
          \/ e # NoValue /\ ~Compare(m.value, e, p.value)
      BY <1>2, <1>4, <2>2, <3>1 DEF PairMeets
    <3>3. ~Compare(m.key, name, p.name) => Distance(m.key, name, p.name) > 0
      BY <1>1, <1>2, <2>2, NameAway
    <3>4. e # NoValue /\ ~Compare(m.value, e, p.value) => Distance(m.value, e, p.value) > 0
      BY <1>1, <1>2, ValueAway
    <3> QED
      BY <2>1, <3>2, <3>3, <3>4, SumAway DEF PairDistance
  <2>3. CASE method = "missing"
    <3>1. ~PairMeets(m, name, e, p)
      BY <1>3, <1>4, <2>3 DEF MultiValueAccepts, PairMeets
    <3>2. ~Compare(m.key, name, p.name)
      BY <1>1, <1>4, <2>3, <3>1 DEF PairMeets
    <3>3. m.key = Comparator("equals", f, TRUE)
      BY <1>1, <2>3, PairComparators
    <3>4. Present(p.name) = p.name
      BY <1>2 DEF Present
    <3>5. ~Compare(Comparator("equals", f, TRUE), name, Present(p.name))
      BY <3>2, <3>3, <3>4, Zenon
    <3>6. Distance(Comparator("equals", f, TRUE), name, p.name) > 0
      BY <1>1, <1>2, <2>3, <3>5, NegatedRefused
    <3>7. Distance(m.key, name, p.name) > 0
      BY <3>3, <3>6, Zenon
    <3> QED
      BY <2>1, <3>7, SumAway DEF PairDistance
  <2> QED
    BY <2>2, <2>3
<1>6. ASSUME pairs = <<>> PROVE PairDistance(m, name, e, nobody) > 0
  <2>1. Distance(m.key, name, NoValue) \in Nat /\ Distance(m.value, e, NoValue) \in Nat
    BY PairDistances
  <2>2. method # "missing"
    BY <1>4, <1>6 DEF MultiValueAccepts
  <2>3. Distance(m.key, name, NoValue) > 0
    BY <1>1, <1>6, <2>2, NameAway
  <2>4. PairDistance(m, name, e, nobody) = Distance(m.key, name, NoValue) + Distance(m.value, e, NoValue)
    BY DEF PairDistance
  <2> QED
    BY <2>1, <2>3, <2>4, SumAway
<1> QED
  BY <1>1, <1>5, <1>6, PairsAway

\* Another number of pairs is some pairs away.
LEMMA CountAway ==
    ASSUME TypeOK, entity \in PairEntities, NEW m, NEW name, NEW e, NEW count \in Nat,
           ~MultiValueCountAccepts(m, name, e, count)
    PROVE  MultiValueCountDistance(m, name, e, count) > 0
<1> DEFINE A == {n \in DOMAIN pairs : /\ Compare(m.key, name, pairs[n].name)
                                      /\ Compare(m.value, e, pairs[n].value)}
           k == Cardinality(A)
<1>1. DOMAIN pairs = 1..Len(pairs) /\ Len(pairs) \in Nat
  BY PairConditions
<1>2. IsFiniteSet(DOMAIN pairs)
  BY <1>1, FS_Interval
<1>3. IsFiniteSet(A)
  BY <1>2, FS_Subset
<1>4. k \in Nat
  BY <1>3, FS_CardinalityType
<1>5. count # k
  BY DEF MultiValueCountAccepts
<1>6. MultiValueCountDistance(m, name, e, count) = IF k > count THEN k - count ELSE count - k
  BY DEF MultiValueCountDistance
<1> HIDE DEF k
<1>7. (IF k > count THEN k - count ELSE count - k) > 0
  BY <1>4, <1>5
<1> QED
  BY <1>6, <1>7

\* What is refused is away from what is asked, for words of any length and any number
\* of pairs, outside the cases that Blind names (the distances in comparison.rs,
\* comparators.rs and generic.rs under src/src/server/matchers): get_distances never
\* takes a request that a condition refuses for one that it accepts.
THEOREM RefusedAreApart == Spec => []RefusedIsApart
<1>1. ASSUME TypeOK PROVE RefusedIsApart
  <2> SUFFICES ASSUME ~Accepted, ~Blind PROVE DistanceOf(condition.method, condition) > 0
    BY DEF RefusedIsApart
  <2>1. CASE entity \in ValueEntities
    BY <1>1, <2>1, ValueRefused
  <2>2. CASE entity \in PairEntities
    <3>1. PICK f \in BOOLEAN : /\ MatcherFor(entity, condition.method) = PairMatcher(condition.method, f)
                               /\ condition.method = "matches" /\ entity # "header" => f = FALSE
      BY <2>2, AnyMatcher
    <3>2. entity \notin ValueEntities /\ condition.method \in PairMethods /\ condition.count \in Nat
      BY <1>1, <2>2, PairConditions
    <3>3. condition.method = "matches" => f = FALSE
      BY <3>1 DEF Blind
    <3>4. CASE condition.method = "count"
      BY <1>1, <2>2, <3>2, <3>4, CountAway DEF Accepted, Accepts, DistanceOf
    <3>5. CASE condition.method # "count"
      <4> DEFINE m == PairMatcher(condition.method, f)
      <4>1. /\ ~MultiValueAccepts(m, condition.name, condition.value)
            /\ DistanceOf(condition.method, condition) = MultiValueDistance(m, condition.name, condition.value)
        BY <3>1, <3>2, <3>5 DEF Accepted, Accepts, DistanceOf
      <4>2. CASE condition.method \in Negative \cup {"missing"}
        BY <1>1, <2>2, <4>1, <4>2, AbsenceAway
      <4>3. CASE condition.method \notin Negative \cup {"missing"}
        BY <1>1, <2>2, <3>2, <3>3, <3>5, <4>1, <4>3, PresenceAway
      <4> QED
        BY <4>2, <4>3
    <3> QED
      BY <3>4, <3>5
  <2> QED
    BY <1>1, <2>1, <2>2 DEF TypeOK
<1> QED
  BY <1>1, MatchingTypeCorrect, PTL

===============================================================================
