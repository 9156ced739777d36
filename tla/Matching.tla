------------------------------- MODULE Matching -------------------------------
(***************************************************************************)
(* Whether a request meets a condition of a mock: the matchers that        *)
(* src/src/server/matchers/mod.rs lists, the generic ones they are made    *)
(* of, and the comparisons underneath.  For the other modules this is the  *)
(* relation Matches.                                                       *)
(*                                                                         *)
(* A request is built up pair by pair (a header, a cookie, a query         *)
(* parameter, a form field) or has one value (a path, a host, a body, a    *)
(* method), and is held against one condition; a definition with several   *)
(* conditions accepts what all of them accept.  Words are ASCII, so bytes, *)
(* characters and their lower-case forms correspond.  A regular expression *)
(* is the set of words it matches.  The matchers on JSON bodies and those  *)
(* that call a user's function are left out.                               *)
(***************************************************************************)
EXTENDS Integers, FiniteSets, SequencesExt

CONSTANTS
    Words,        \* values in conditions and requests, as sequences of characters
    Names,        \* the words that name a parameter, header, cookie or field
    Lower,        \* character -> character in lower case
    Loopback,     \* "localhost" and "127.0.0.1"
    Patterns,     \* regular expressions
    Language,     \* pattern -> the words it matches
    LowerPattern, \* pattern -> the pattern whose text is that text in lower case
    NoValue,      \* what a request does not have
    MaxPairs      \* bound of the model: pairs of a request, and counts asked for

Folded(w) == [n \in DOMAIN w |-> Lower[w[n]]]

ASSUME MatchingAssumption ==
    /\ Words \subseteq Seq(DOMAIN Lower) /\ Names \subseteq Words
    /\ NoValue \notin Words
    /\ Patterns \cap Words = {}
    /\ Language \in [Patterns -> SUBSET Words]
    /\ LowerPattern \in [Patterns -> Patterns]
    /\ \A w \in Words : Folded(w) \in Words /\ Folded(Folded(w)) = Folded(w)
    /\ MaxPairs \in Nat

VARIABLES
    entity,       \* what the condition is about
    condition,    \* [method, name, value, count]
    value,        \* the request's value, if the entity has one
    pairs         \* the request's pairs, if it has pairs: a sequence of [name, value]

vars == <<entity, condition, value, pairs>>

PairEntities == {"query", "header", "cookie", "form"}
ValueEntities == {"method", "host", "path", "body"}

-------------------------------------------------------------------------------
\* comparison.rs.  A comparison that is negated gives the opposite result, save
\* for the early returns, which are the same either way.

Cased(folds, w) == IF folds THEN Folded(w) ELSE w
Includes(w, part) ==
    \E n \in 0..(Len(w) - Len(part)) : SubSeq(w, n + 1, n + Len(part)) = part

StringEquals(folds, negated, expected, actual) ==
    (Cased(folds, expected) = Cased(folds, actual)) # negated

StringContains(folds, negated, expected, actual) ==
    Includes(Cased(folds, actual), Cased(folds, expected)) # negated

StringHasPrefix(folds, negated, expected, actual) ==
    /\ Len(actual) >= Len(expected)
    /\ IsPrefix(Cased(folds, expected), Cased(folds, actual)) # negated

StringHasSuffix(folds, negated, expected, actual) ==
    /\ Len(actual) >= Len(expected)
    /\ IsSuffix(Cased(folds, expected), Cased(folds, actual)) # negated

HostnameEquals(negated, expected, actual) ==
    IF Folded(expected) \in Loopback /\ Folded(actual) \in Loopback
    THEN ~negated
    ELSE StringEquals(TRUE, negated, expected, actual)

StringMatchesRegex(folds, pattern, actual) ==
    IF folds THEN Folded(actual) \in Language[LowerPattern[pattern]]
             ELSE actual \in Language[pattern]

BytesIncludes(negated, expected, actual) ==
    expected = <<>> \/ Includes(actual, expected) # negated

BytesPrefix(negated, expected, actual) == IsPrefix(expected, actual) # negated
BytesSuffix(negated, expected, actual) == IsSuffix(expected, actual) # negated

-------------------------------------------------------------------------------
\* comparators.rs: a comparator is a comparison with its two switches.

Comparator(test, folds, negated) == [test |-> test, folds |-> folds, negated |-> negated]

Compare(c, expected, actual) ==
    CASE c.test = "any" -> TRUE
      [] c.test = "equals" -> StringEquals(c.folds, c.negated, expected, actual)
      [] c.test = "includes" -> StringContains(c.folds, c.negated, expected, actual)
      [] c.test = "prefix" -> StringHasPrefix(c.folds, c.negated, expected, actual)
      [] c.test = "suffix" -> StringHasSuffix(c.folds, c.negated, expected, actual)
      [] c.test = "hostname" -> HostnameEquals(c.negated, expected, actual)
      [] c.test = "pattern" -> StringMatchesRegex(c.folds, expected, actual)
      [] c.test = "bytes" -> StringEquals(FALSE, c.negated, expected, actual)
      [] c.test = "bytes includes" -> BytesIncludes(c.negated, expected, actual)
      [] c.test = "bytes prefix" -> BytesPrefix(c.negated, expected, actual)
      [] c.test = "bytes suffix" -> BytesSuffix(c.negated, expected, actual)

\* A request without the value meets the negated conditions only.
CompareOptional(c, expected, actual) ==
    IF actual = NoValue THEN c.negated ELSE Compare(c, expected, actual)

-------------------------------------------------------------------------------
\* mod.rs.  The methods of When that set a condition, by what they have in common.

Negative == {"not", "excludes", "prefix_not", "suffix_not"}
TestOf(method) ==
    CASE method \in {"equal", "not"} -> "equals"
      [] method \in {"includes", "excludes"} -> "includes"
      [] method \in {"prefix", "prefix_not"} -> "prefix"
      [] method \in {"suffix", "suffix_not"} -> "suffix"
      [] method \in {"exists", "missing"} -> "any"
      [] method \in {"matches", "count"} -> "pattern"

PairMethods == Negative \cup {"equal", "includes", "prefix", "suffix",
                              "exists", "missing", "matches", "count"}

\* One of the four lists of matchers on pairs; they differ in which names are
\* compared without regard to case.
PairMatcher(method, namesFold) ==
    [strategy |-> IF method \in Negative \cup {"missing"} THEN "Absence" ELSE "Presence",
     operator |-> IF method \in Negative THEN "IMPLICATION" ELSE "AND",
     keyRequired |-> method # "missing",
     key |-> IF method \in {"matches", "count"}
             THEN Comparator("pattern", namesFold, FALSE)
             ELSE Comparator("equals", namesFold, method = "missing"),
     value |-> Comparator(TestOf(method), FALSE, method \in Negative)]

QueryMatcher(method) == PairMatcher(method, FALSE)
FoldPositiveOnly(method) ==   \* wrong: negative conditions take the case of a name seriously
    PairMatcher(method, method \notin Negative)
HeaderMatcher(method) == PairMatcher(method, TRUE)
CookieMatcher(method) == PairMatcher(method, method \in {"prefix_not", "suffix_not"})
FormMatcher(method) == PairMatcher(method, method = "prefix_not")

MatcherFor(e, method) ==
    CASE e = "query" -> QueryMatcher(method)
      [] e = "header" -> HeaderMatcher(method)
      [] e = "cookie" -> CookieMatcher(method)
      [] e = "form" -> FormMatcher(method)

\* The lists of matchers on single values.
MethodMatcher(method) == Comparator("equals", TRUE, method \in Negative)
HostMatcher(method) ==
    CASE method \in {"equal", "not"} -> Comparator("hostname", TRUE, method = "not")
      [] method = "matches" -> Comparator("pattern", FALSE, FALSE)
      [] OTHER -> Comparator(TestOf(method), TRUE, method \in Negative)
PathMatcher(method) == Comparator(TestOf(method), FALSE, method \in Negative)
BodyMatcher(method) ==
    CASE method \in {"equal", "not"} -> Comparator("bytes", FALSE, method = "not")
      [] method \in {"includes", "excludes"} ->
            Comparator("bytes includes", FALSE, method = "excludes")
      [] method \in {"prefix", "prefix_not"} ->
            Comparator("bytes prefix", FALSE, method = "prefix_not")
      [] method \in {"suffix", "suffix_not"} ->
            Comparator("bytes suffix", FALSE, method = "suffix_not")
      [] method = "matches" -> Comparator("pattern", FALSE, FALSE)

ValueMatcherFor(e, method) ==
    CASE e = "method" -> MethodMatcher(method)
      [] e = "host" -> HostMatcher(method)
      [] e = "path" -> PathMatcher(method)
      [] e = "body" -> BodyMatcher(method)

-------------------------------------------------------------------------------
\* generic.rs.

\* A pair meets an expectation; a condition on the name alone has no value.
PairMeets(m, name, expected, p) ==
    LET keyMatches == Compare(m.key, name, p.name)
        valueMatches == \/ expected = NoValue
                        \/ p.value # NoValue /\ Compare(m.value, expected, p.value)
    IN  IF m.operator = "IMPLICATION" THEN keyMatches => valueMatches
                                      ELSE keyMatches /\ valueMatches

KeyOptional(m, name, expected) ==   \* wrong: an absent name satisfies the negative conditions
    IF m.strategy = "Absence"
    THEN \A n \in DOMAIN pairs : PairMeets(m, name, expected, pairs[n])
    ELSE \E n \in DOMAIN pairs : PairMeets(m, name, expected, pairs[n])
LastPairDecides(m, name, expected) ==   \* wrong: of several pairs the last one counts
    pairs # <<>> /\ PairMeets(m, name, expected, pairs[Len(pairs)])

MultiValueAccepts(m, name, expected) ==
    /\ m.keyRequired => \E n \in DOMAIN pairs : Compare(m.key, name, pairs[n].name)
    /\ IF m.strategy = "Absence"
       THEN \A n \in DOMAIN pairs : PairMeets(m, name, expected, pairs[n])
       ELSE \E n \in DOMAIN pairs : PairMeets(m, name, expected, pairs[n])

MultiValueCountAccepts(m, name, expected, count) ==
    count = Cardinality({n \in DOMAIN pairs : /\ Compare(m.key, name, pairs[n].name)
                                              /\ Compare(m.value, expected, pairs[n].value)})

SingleValueAccepts(c, expected) == CompareOptional(c, expected, value)

\* Does the request meet what one call of When asks for?
Accepts(method, c) ==
    IF entity \in ValueEntities
    THEN SingleValueAccepts(ValueMatcherFor(entity, method), c.value)
    ELSE IF method = "count"
    THEN MultiValueCountAccepts(MatcherFor(entity, method), c.name, c.value, c.count)
    ELSE MultiValueAccepts(MatcherFor(entity, method), c.name, c.value)

Accepted == Accepts(condition.method, condition)

-------------------------------------------------------------------------------
\* What a condition can hold, from the calls of When.

ValueMethods(e) ==
    IF e = "method" THEN {"equal", "not"}
    ELSE Negative \cup {"equal", "includes", "prefix", "suffix", "matches"}

Conditions(e) ==
    IF e \in ValueEntities
    THEN [method: ValueMethods(e) \ {"matches"}, name: {NoValue}, value: Words, count: {0}]
           \cup [method: ValueMethods(e) \cap {"matches"}, name: {NoValue},
                 value: Patterns, count: {0}]
    ELSE [method: PairMethods \ {"exists", "missing", "matches", "count"},
          name: Names, value: Words, count: {0}]
           \cup [method: {"exists", "missing"}, name: Names, value: {NoValue}, count: {0}]
           \cup [method: {"matches"}, name: Patterns, value: Patterns, count: {0}]
           \cup [method: {"count"}, name: Patterns, value: Patterns, count: 0..MaxPairs]

\* Readers: a host may be missing; a request without pairs has the empty list.
ValuesOf(e) ==
    CASE e \in PairEntities -> {NoValue}
      [] e = "host" -> Words \cup {NoValue}
      [] OTHER -> Words

Init ==
    /\ entity \in PairEntities \cup ValueEntities
    /\ condition \in Conditions(entity)
    /\ value \in ValuesOf(entity)
    /\ pairs = <<>>

AddPair(name, w) ==
    /\ entity \in PairEntities /\ Len(pairs) < MaxPairs
    /\ pairs' = Append(pairs, [name |-> name, value |-> w])
    /\ UNCHANGED <<entity, condition, value>>

NextRequest ==
    /\ value' \in ValuesOf(entity)
    /\ pairs' = <<>>
    /\ UNCHANGED <<entity, condition>>

Next ==
    \/ \E name \in Names, w \in Words : AddPair(name, w)
    \/ NextRequest

Spec == Init /\ [][Next]_vars
-------------------------------------------------------------------------------
\* Conditions and requests are what the readers produce.
TypeOK ==
    /\ entity \in PairEntities \cup ValueEntities
    /\ condition \in Conditions(entity)
    /\ value \in ValuesOf(entity)
    /\ pairs \in Seq([name: Names, value: Words]) /\ Len(pairs) <= MaxPairs

\* The words of the request that the condition speaks of, by the documentation of
\* When: header names are compared without regard to case, other names are not.
Subjects ==
    IF entity \in ValueEntities THEN {value} \ {NoValue}
    ELSE {pairs[n].value : n \in {k \in DOMAIN pairs :
             IF entity = "header" THEN Folded(pairs[k].name) = Folded(condition.name)
                                  ELSE pairs[k].name = condition.name}}

\* What the positive condition says of one word, without reference to the code's
\* helpers: to start with v is to have it at the beginning, and so on.  Hosts and
\* methods are compared without regard to case.
Says(method, word, expected) ==
    LET folds == entity \in {"host", "method"}
        w == Cased(folds, word)
        v == Cased(folds, expected)
    IN  CASE method \in {"equal", "not"} ->
                \/ w = v
                \/ entity = "host" /\ {Folded(w), Folded(v)} \subseteq Loopback
          [] method \in {"includes", "excludes"} ->
                \E m \in 1..(Len(w) + 1), n \in 0..Len(w) : SubSeq(w, m, n) = v
          [] method \in {"prefix", "prefix_not"} -> \E n \in 0..Len(w) : SubSeq(w, 1, n) = v
          [] method \in {"suffix", "suffix_not"} ->
                \E m \in 1..(Len(w) + 1) : SubSeq(w, m, Len(w)) = v

\* Several values of one name: a positive condition needs one that fits, a negative
\* one needs the name to be there and no value to fit.
Meaning ==
    CASE condition.method = "exists" -> Subjects # {}
      [] condition.method = "missing" -> Subjects = {}
      [] condition.method \in Negative ->
            /\ entity \in PairEntities => Subjects # {}
            /\ \A w \in Subjects : ~Says(condition.method, w, condition.value)
      [] OTHER -> \E w \in Subjects : Says(condition.method, w, condition.value)

\* Where the code's early returns cut across the meaning: prefix_not and suffix_not
\* of strings refuse every value shorter than theirs, and body_excludes of nothing
\* accepts every body.
CutShort ==
    \/ entity # "body" /\ condition.method \in {"prefix_not", "suffix_not"}
    \/ entity = "body" /\ condition.method = "excludes" /\ condition.value = <<>>

\* A condition accepts a request exactly when the request does what the method's
\* documentation says, over repeated names, absent names and values, empty words,
\* words that differ in case only, and the aliases of localhost.
AcceptsWhatIsAsked ==
    condition.method \notin {"matches", "count"} /\ ~CutShort => (Accepted <=> Meaning)

\* No request meets a condition and its negation, also for the methods that cut
\* their answer short, and wherever names or values are compared without case.
OppositesDisagree ==
    \A p \in {<<"equal", "not">>, <<"includes", "excludes">>, <<"prefix", "prefix_not">>,
              <<"suffix", "suffix_not">>, <<"exists", "missing">>} :
        condition.method = p[1] /\ ~(entity = "body" /\ condition.value = <<>>) =>
            ~(Accepted /\ Accepts(p[2], condition))

\* A further pair never spoils a positive condition that was met, and never repairs
\* a negative one that was refused for a value of its name.
AppendingKeeps ==
    [][Len(pairs') > Len(pairs) =>
          /\ condition.method \in {"equal", "includes", "prefix", "suffix", "exists", "matches"}
             /\ Accepted => Accepted'
          /\ condition.method \in Negative \cup {"missing"} /\ Subjects # {}
             /\ Accepted' => Accepted]_vars

\* What the methods ending in prefix_not document ("the prefix that the query
\* parameter value should not start with"): a request that does as told is accepted.
PrefixNotAcceptsOthers ==
    entity = "query" /\ condition.method = "prefix_not" /\ Meaning => Accepted

===============================================================================
