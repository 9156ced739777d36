------------------------------- MODULE Distances -------------------------------
(***************************************************************************)
(* How far a request is from a condition it does not meet: the distances   *)
(* of src/src/server/matchers, which decide which request the message of a *)
(* failed assertion shows (module Assertions has that choice).  A matcher  *)
(* sums up the distances of what it refuses, so that a request it accepts  *)
(* is at distance 0.                                                       *)
(***************************************************************************)
EXTENDS Matching

CONSTANTS
    Unmatched,    \* pattern -> word -> characters outside its matches in the word
    TextLength    \* pattern -> the length of its text

ASSUME DistanceAssumption ==
    /\ NoValue \notin Patterns
    /\ Unmatched \in [Patterns -> [Words -> Nat]] /\ TextLength \in [Patterns -> Nat]
    /\ \A p \in Patterns, w \in Words : w \notin Language[p] => Unmatched[p][w] = Len(w)
    /\ \A p \in Patterns : TextLength[p] = 0 => Language[p] = Words

-------------------------------------------------------------------------------
\* comparison.rs.  A value the request does not have counts as empty.

Present(w) == IF w = NoValue THEN <<>> ELSE w
Longer(v, w) == Max({Len(v), Len(w)})
Shorter(v, w) == Min({Len(v), Len(w)})
Start(w, n) == SubSeq(w, 1, Min({n, Len(w)}))

\* The edit distance with equal weights, from the crate stringmetrics.
Levenshtein(v, w) ==
    LET d[at \in (0..Len(v)) \X (0..Len(w))] ==
            LET i == at[1]
                j == at[2]
            IN  IF i = 0 \/ j = 0 THEN i + j
                ELSE Min({d[<<i - 1, j>>] + 1, d[<<i, j - 1>>] + 1,
                          d[<<i - 1, j - 1>>] + IF v[i] = w[j] THEN 0 ELSE 1})
    IN  d[<<Len(v), Len(w)>>]

LongestCommonSubstring(folds, v, w) ==
    LET one == Cased(folds, v)
        other == Cased(folds, w)
    IN  Max({n \in 0..Shorter(v, w) : \E i \in 0..(Len(v) - n), j \in 0..(Len(w) - n) :
                 SubSeq(one, i + 1, i + n) = SubSeq(other, j + 1, j + n)})

NegatedAlike(folds, negated, expected, actual) ==  \* wrong: a negated condition measured like any
    Longer(expected, actual) - LongestCommonSubstring(folds, expected, actual)
SubstringDistance(folds, negated, expected, actual) ==
    LET common == LongestCommonSubstring(folds, expected, actual)
    IN  IF negated THEN common ELSE Longer(expected, actual) - common

PrefixDistance(folds, negated, expected, actual) ==
    IF expected = <<>> THEN 0
    ELSE SubstringDistance(folds, negated, expected, Start(actual, Len(expected)))

\* The slice is taken from the front, as for a prefix.
SuffixDistance(folds, negated, expected, actual) ==
    IF expected = <<>> THEN 0
    ELSE SubstringDistance(folds, negated, expected, Start(actual, Len(expected)))

StringDistance(folds, negated, expected, actual) ==
    LET distance == Levenshtein(Cased(folds, expected), Cased(folds, actual))
    IN  IF negated THEN Longer(expected, actual) - distance ELSE distance

\* With a text to look at, the pattern as it was written counts.  The comparators of
\* paths and bodies always look.
RegexDistance(folds, pattern, actual) ==
    IF entity \in {"path", "body"} \/ actual \notin {NoValue, <<>>}
    THEN Unmatched[pattern][actual]
    ELSE IF actual # NoValue /\ StringMatchesRegex(folds, pattern, actual)
         THEN 0 ELSE TextLength[pattern]

\* comparators.rs, BytesPrefixComparator and BytesSuffixComparator.
WindowDistance(negated, window, expected, actual) ==
    LET distance == Levenshtein(expected, actual)
    IN  IF negated THEN window - distance ELSE distance

BytesPrefixDistance(negated, expected, actual) ==
    LET window == Shorter(expected, actual)
    IN  IF expected = <<>> THEN 0
        ELSE IF actual = <<>> THEN Len(expected)
        ELSE WindowDistance(negated, window, Start(expected, window), Start(actual, window))

BytesSuffixDistance(negated, expected, actual) ==
    LET window == Shorter(expected, actual)
    IN  IF expected = <<>> THEN 0
        ELSE IF actual = <<>> THEN Len(expected)
        ELSE WindowDistance(negated, window, Start(expected, window),
                            SubSeq(actual, Len(actual) - window + 1, Len(actual)))

\* The distance of each comparator; without an expectation there is none.
Distance(c, expected, value0) ==
    LET actual == Present(value0)
    IN  IF expected = NoValue \/ c.test = "any" THEN 0
        ELSE CASE c.test = "equals" -> StringDistance(c.folds, c.negated, expected, actual)
               [] c.test = "includes" -> SubstringDistance(c.folds, c.negated, expected, actual)
               [] c.test = "prefix" -> PrefixDistance(c.folds, c.negated, expected, actual)
               [] c.test = "suffix" -> SuffixDistance(c.folds, c.negated, expected, actual)
               [] c.test = "hostname" ->
                    IF CompareOptional(c, expected, value0) THEN 0
                    ELSE StringDistance(TRUE, c.negated, expected, actual)
               [] c.test = "pattern" -> RegexDistance(c.folds, expected, value0)
               [] c.test \in {"bytes", "bytes includes"} -> Levenshtein(expected, actual)
               [] c.test = "bytes prefix" -> BytesPrefixDistance(c.negated, expected, actual)
               [] c.test = "bytes suffix" -> BytesSuffixDistance(c.negated, expected, actual)

-------------------------------------------------------------------------------
\* generic.rs.

PairDistance(m, name, expected, p) ==
    Distance(m.key, name, p.name) + Distance(m.value, expected, p.value)

\* The first pair of that very name, or else the first of the nearest.  The text of a
\* pattern is nobody's name here.
FindBestMatch(m, name, expected) ==
    LET named == {n \in DOMAIN pairs : pairs[n].name = name}
        least == Min({PairDistance(m, name, expected, pairs[n]) : n \in DOMAIN pairs})
        nearest == {n \in DOMAIN pairs : PairDistance(m, name, expected, pairs[n]) = least}
    IN  pairs[Min(IF named # {} THEN named ELSE nearest)]

MultiValueDistance(m, name, expected) ==
    IF pairs = <<>> THEN PairDistance(m, name, expected, [name |-> NoValue, value |-> NoValue])
    ELSE PairDistance(m, name, expected, FindBestMatch(m, name, expected))

MultiValueCountDistance(m, name, expected, count) ==
    LET matching == Cardinality({n \in DOMAIN pairs : /\ Compare(m.key, name, pairs[n].name)
                                                      /\ Compare(m.value, expected, pairs[n].value)})
    IN  IF matching > count THEN matching - count ELSE count - matching

\* Only what is refused is measured.
DistanceOf(method, c) ==
    IF Accepts(method, c) THEN 0
    ELSE IF entity \in ValueEntities THEN Distance(ValueMatcherFor(entity, method), c.value, value)
    ELSE IF method = "count"
    THEN MultiValueCountDistance(MatcherFor(entity, method), c.name, c.value, c.count)
    ELSE MultiValueDistance(MatcherFor(entity, method), c.name, c.value)

-------------------------------------------------------------------------------
\* Where the measure does not see why a request is refused:
\*  - negative conditions on nothing, as prefix_not of the empty word, and conditions
\*    on nothing, also on the empty pattern, for a request without a host;
\*  - an empty name, if the request has no pairs or is not to have this one, and the
\*    empty pattern for a name, if it has none;
\*  - a suffix is looked for at the front;
\*  - prefix_not and suffix_not of values that are too short to have either;
\*  - of several pairs, another one is measured than the one that is in the way;
\*  - the aliases of localhost for host_not;
\*  - a body that is what body_not and body_excludes name, and one that is too short
\*    but otherwise as body_prefix and body_suffix want it;
\*  - header names whose pattern is compared in lower case but measured as written;
\*  - an empty path or body, which has no characters outside the matches of a pattern.
Nothing(expected) == expected = <<>> \/ (expected \in Patterns /\ TextLength[expected] = 0)
Blind ==
    \/ Nothing(condition.value) /\ (condition.method \in Negative \/ entity = "host")
    \/ Nothing(condition.name) /\ pairs = <<>> /\ condition.method # "count"
    \/ condition.name = <<>> /\ condition.method = "missing"
    \/ entity # "body" /\ condition.method \in {"suffix", "suffix_not", "prefix_not"}
    \/ entity \in PairEntities /\ condition.method \in Negative \cup {"missing"} /\ Len(pairs) > 1
    \/ entity = "host" /\ condition.method = "not" /\ Folded(value) \in Loopback
    \/ entity = "body" /\ condition.method \in {"not", "excludes"} /\ value = condition.value
    \/ entity = "body" /\ condition.method \in {"prefix", "suffix"}
       /\ Len(value) < Len(condition.value)
    \/ entity = "header" /\ condition.method = "matches"
    \/ entity \in {"path", "body"} /\ condition.method = "matches" /\ value = <<>>

\* A request that is refused is further away than every request that is accepted, so
\* that it is never shown in the place of one that misses less, save where the measure
\* is blind; and what is subtracted on the way is at most what it is subtracted from
\* (usize has no value below 0).
RefusedIsApart == Accepted \/ Blind \/ DistanceOf(condition.method, condition) > 0

===============================================================================
