--------------------------- MODULE RecordingsProofs ---------------------------
(***************************************************************************)
(* What a mock is told with the calls of When and Then, what a file keeps  *)
(* of it, and what a server that has loaded the file answers, for any      *)
(* number of calls, values, requests and exchanges.                        *)
(***************************************************************************)
EXTENDS Recordings, SelectionsProofs

-------------------------------------------------------------------------------
\* The names of methods, fields and keys.

Bodies == {"body", "then.body"}

\* FieldOf and what follows from it, as the provers read it.
LEMMA FieldsOfMethods ==
    ASSUME NEW method
    PROVE  FieldOf(method) = IF method = "host_includes" THEN "host_contains"
                             ELSE IF method \in {"then.body_from_file", "then.json_body"}
                             THEN "then.body" ELSE method
BY DEF FieldOf

LEMMA FieldOfAspect ==
    ASSUME NEW method \in Methods
    PROVE  /\ FieldOf(method) = ReadBy(Means(method))
           /\ method \in Replacing <=> ReadBy(Means(method)) \in Single
           /\ Means(method) \in Aspects
<1>1. FieldOf(method) = ReadBy(Means(method))
  BY FieldsOfMethods DEF ReadBy, Means
<1>2. method \in Replacing <=> ReadBy(Means(method)) \in Single
  <2>1. method # "json_body_not"
    BY DEF Methods, ThenMethods, WhenMethods, SchemeMethods, MethodMethods, HostMethods,
           PortMethods, PathMethods, QueryMethods, HeaderMethods, CookieMethods, BodyMethods,
           JsonMethods, FormMethods, FunctionMethods
  <2> QED
    BY <2>1 DEF Replacing, Single, ReadBy, Means
<1> QED
  BY <1>1, <1>2 DEF Aspects

LEMMA AspectsAreMethods ==
    ASSUME NEW aspect \in Aspects
    PROVE  /\ aspect \in Methods /\ Means(aspect) = aspect
           /\ aspect # "host_contains" /\ ReadBy(aspect) \in Fields
<1>1. PICK method \in Methods : aspect = Means(method)
  BY DEF Aspects
<1>2. aspect \in Methods
  BY <1>1 DEF Means, Methods, ThenMethods
<1>3. Means(aspect) = aspect
  BY <1>1 DEF Means
<1>4. "host_contains" \notin Methods
  BY DEF Methods, ThenMethods, WhenMethods, SchemeMethods, MethodMethods, HostMethods,
         PortMethods, PathMethods, QueryMethods, HeaderMethods, CookieMethods, BodyMethods,
         JsonMethods, FormMethods, FunctionMethods
<1>5. ReadBy(aspect) \in Fields
  BY <1>2, <1>3, FieldOfAspect DEF Fields
<1> QED
  BY <1>2, <1>3, <1>4, <1>5

LEMMA AspectsAreApart ==
    ASSUME NEW a \in Aspects, NEW b \in Aspects, ReadBy(a) = ReadBy(b)
    PROVE  a = b
BY AspectsAreMethods DEF ReadBy

\* Every field in a file is written under a key of its own.
LEMMA KeysAreReadBack ==
    ASSUME NEW f \in Fields
    PROVE  FieldReadFrom(KeyOf(f)) = f
<1>1. f \notin DOMAIN ReadAs
  <2>1. CASE f = "json_body_not"
    BY <2>1 DEF ReadAs
  <2>2. ASSUME NEW method \in Methods, f = FieldOf(method) PROVE f \notin DOMAIN ReadAs
    BY <2>2, FieldsOfMethods DEF ReadAs, Methods, ThenMethods, WhenMethods, SchemeMethods,
       MethodMethods, HostMethods, PortMethods, PathMethods, QueryMethods, HeaderMethods,
       CookieMethods, BodyMethods, JsonMethods, FormMethods, FunctionMethods
  <2> QED
    BY <2>1, <2>2 DEF Fields
<1>2. ASSUME f \in DOMAIN Renamed PROVE Renamed[f] \in DOMAIN ReadAs /\ ReadAs[Renamed[f]] = f
  BY <1>2 DEF Renamed, ReadAs
<1> QED
  BY <1>1, <1>2 DEF FieldReadFrom, KeyOf

-------------------------------------------------------------------------------
\* The calls and the definition they leave.

CallsTyped ==
    /\ calls \in Seq(Methods \X Values)
    /\ \A n \in DOMAIN calls : calls[n][2] \in ValuesOf(calls[n][1])

\* The values a field holds are of its kind, and a body is one value.
Typed(d) ==
    /\ DOMAIN d = Fields
    /\ \A f \in InFile : /\ d[f] \in Seq(Texts \cup Binaries)
                         /\ f \notin Bodies => d[f] \in Seq(Texts)
                         /\ f \in Bodies => Len(d[f]) <= 1

DefInv ==
    /\ CallsTyped /\ definition = [f \in Fields |-> definition[f]] /\ Typed(definition)
    /\ definition["then.respond_with"] \in Seq(Functions)
    /\ \A f \in MethodMethods : definition[f] \in Seq(KnownMethods)
    /\ definition["json_body_not"] = <<>>
    /\ \A aspect \in Aspects : definition[ReadBy(aspect)] = Told(aspect)

LEMMA ValuesOfMethods ==
    ASSUME NEW method
    PROVE  ValuesOf(method) = IF method \in Skipped THEN Functions
                              ELSE IF method \in JsonMethods THEN Words \cup {Null}
                              ELSE IF method \in {"then.body", "then.body_from_file"}
                              THEN Words \cup Binaries
                              ELSE IF method \in MethodMethods THEN KnownMethods
                              ELSE Words
<1>1. method \in MethodMethods => method \notin {"then.body", "then.body_from_file"} \cup Skipped
  BY DEF MethodMethods, Skipped, FunctionMethods
<1>2. method \in Skipped => method \notin {"then.body", "then.body_from_file"}
  BY DEF Skipped, FunctionMethods
<1>3. method \in JsonMethods =>
         method \notin {"then.body", "then.body_from_file"} \cup Skipped \cup MethodMethods
  BY DEF JsonMethods, MethodMethods, Skipped, FunctionMethods
<1> QED
  BY <1>1, <1>2, <1>3 DEF ValuesOf

LEMMA Responding ==
    /\ "then.respond_with" \in Methods /\ "then.respond_with" \in Fields
    /\ ValuesOf("then.respond_with") = Functions /\ "then.respond_with" \in Replacing
    /\ \A method \in Methods : FieldOf(method) = "then.respond_with" =>
          method = "then.respond_with"
<1>1. "then.respond_with" \in Methods
  BY DEF Methods, ThenMethods
<1>2. FieldOf("then.respond_with") = "then.respond_with"
  BY DEF FieldOf
<1>3. "then.respond_with" \in Skipped
  BY DEF Skipped
<1>4. ValuesOf("then.respond_with") = Functions
  BY <1>3, ValuesOfMethods
<1>5. \A method \in Methods : FieldOf(method) = "then.respond_with" =>
         method = "then.respond_with"
  BY FieldsOfMethods
<1> QED
  BY <1>1, <1>2, <1>4, <1>5 DEF Fields, Replacing

\* What names a method is one of those that the enum has, and there is no call that
\* fills json_body_not.
LEMMA Naming ==
    /\ MethodMethods \subseteq Methods
    /\ \A f \in MethodMethods : f \in Fields /\ ValuesOf(f) = KnownMethods
    /\ \A method \in Methods, f \in MethodMethods : FieldOf(method) = f => method = f
    /\ \A method \in Methods : FieldOf(method) # "json_body_not"
    /\ "json_body_not" \in Fields
<1>1. MethodMethods \subseteq Methods
  BY DEF Methods, WhenMethods
<1>2. ASSUME NEW f \in MethodMethods PROVE FieldOf(f) = f /\ ValuesOf(f) = KnownMethods
  BY <1>2, FieldsOfMethods, ValuesOfMethods DEF MethodMethods, Skipped, FunctionMethods,
     JsonMethods
<1>3. \A method \in Methods, f \in MethodMethods : FieldOf(method) = f => method = f
  BY FieldsOfMethods DEF MethodMethods
<1>4. "json_body_not" \notin Methods
  BY DEF Methods, ThenMethods, WhenMethods, SchemeMethods, MethodMethods, HostMethods,
         PortMethods, PathMethods, QueryMethods, HeaderMethods, CookieMethods, BodyMethods,
         JsonMethods, FormMethods, FunctionMethods
<1>5. \A method \in Methods : FieldOf(method) # "json_body_not"
  BY <1>4, FieldsOfMethods
<1> QED
  BY <1>1, <1>2, <1>3, <1>5 DEF Fields

LEMMA DefStart == definition = Nothing /\ calls = <<>> => DefInv
<1> SUFFICES ASSUME definition = Nothing, calls = <<>> PROVE DefInv
  OBVIOUS
<1>1. CallsTyped
  BY EmptySeq DEF CallsTyped
<1>2. ASSUME NEW aspect \in Aspects PROVE definition[ReadBy(aspect)] = Told(aspect)
  <2>1. Selected(calls, CallsFor(aspect)) = <<>> /\ Len(<<>>) = 0
    BY SelectedEmpty
  <2>2. Told(aspect) = <<>>
    BY <2>1 DEF Told
  <2> QED
    BY <2>2, AspectsAreMethods DEF Nothing
<1>3. /\ \A f \in Fields : definition[f] = <<>>
      /\ DOMAIN definition = Fields
  BY DEF Nothing
<1>4. Typed(definition)
  <2>1. <<>> \in Seq(Texts \cup Binaries) /\ <<>> \in Seq(Texts) /\ Len(<<>>) = 0
    BY EmptySeq
  <2>2. ASSUME NEW f \in InFile
        PROVE  /\ definition[f] \in Seq(Texts \cup Binaries) /\ definition[f] \in Seq(Texts)
               /\ Len(definition[f]) <= 1
    <3>1. definition[f] = <<>>
      BY <1>3 DEF InFile
    <3> HIDE <1>3
    <3> QED
      BY <2>1, <3>1
  <2> QED
    BY <1>3, <2>2 DEF Typed
<1>5. definition = [f \in Fields |-> definition[f]]
  BY DEF Nothing
<1>6. definition["then.respond_with"] \in Seq(Functions)
  BY <1>3, EmptySeq, Responding
<1>7. /\ \A f \in MethodMethods : definition[f] \in Seq(KnownMethods)
      /\ definition["json_body_not"] = <<>>
  BY <1>3, EmptySeq, Naming
<1> QED
  BY <1>1, <1>2, <1>4, <1>5, <1>6, <1>7 DEF DefInv

\* What a call adds to what a test has said.
LEMMA ToldMore ==
    ASSUME CallsTyped, NEW method \in Methods, NEW v \in Values,
           calls' = Append(calls, <<method, v>>), NEW aspect \in Aspects
    PROVE  Told(aspect)' = IF Means(method) # aspect THEN Told(aspect)
                           ELSE IF ReadBy(aspect) \in Single THEN <<v>>
                           ELSE Append(Told(aspect), v)
<1> DEFINE S == CallsFor(aspect)
           before == Selected(calls, S)
           after == Selected(Append(calls, <<method, v>>), S)
           X == Methods \X Values
           n == Len(before)
<1>1. calls \in Seq(X) /\ <<method, v>> \in X
  BY DEF CallsTyped
<1>2. <<method, v>> \in S <=> Means(method) = aspect
  BY DEF CallsFor
<1>3. after = IF Means(method) = aspect THEN Append(before, <<method, v>>) ELSE before
  <2> HIDE DEF S, X
  <2> QED
    BY <1>1, <1>2, SelectedAppend
<1>4. before \in Seq(X)
  <2>1. before \in Seq(X \cap S)
    <3> HIDE DEF S, X
    <3> QED
      BY <1>1, SelectedType
  <2> HIDE DEF S, X, before
  <2>2. X \cap S \subseteq X
    OBVIOUS
  <2> QED
    BY <2>1, <2>2, SeqMonotonic
<1>5. Told(aspect) = IF ReadBy(aspect) \in Single /\ n > 0 THEN <<before[n][2]>>
                     ELSE [i \in 1..n |-> before[i][2]]
  BY DEF Told
<1>6. Told(aspect)' = IF ReadBy(aspect) \in Single /\ Len(after) > 0
                      THEN <<after[Len(after)][2]>>
                      ELSE [i \in 1..Len(after) |-> after[i][2]]
  BY DEF Told
<1> HIDE DEF S, X, after
<1>7. CASE Means(method) # aspect
  BY <1>3, <1>5, <1>6, <1>7
<1>8. CASE Means(method) = aspect
  <2> HIDE DEF before
  <2>1. /\ n \in Nat /\ Len(after) = n + 1 /\ after[n + 1] = <<method, v>>
        /\ \A i \in 1..n : after[i] = before[i]
    BY <1>1, <1>3, <1>4, <1>8, AppendProperties
  <2>2. CASE ReadBy(aspect) \in Single
    BY <1>6, <1>8, <2>1, <2>2
  <2>3. CASE ReadBy(aspect) \notin Single
    <3> DEFINE told == [i \in 1..n |-> before[i][2]]
               more == [i \in 1..(n + 1) |-> after[i][2]]
    <3>1. Told(aspect) = told /\ Told(aspect)' = more
      BY <1>5, <1>6, <2>1, <2>3
    <3>2. told \in Seq({before[i][2] : i \in 1..n}) /\ Len(told) = n
      BY <2>1
    <3>3. more = Append(told, v)
      BY <2>1, <3>2
    <3> QED
      BY <1>8, <2>3, <3>1, <3>3
  <2> QED
    BY <2>2, <2>3
<1> QED
  BY <1>7, <1>8

LEMMA SomeMethods ==
    /\ \A method \in Methods : method \in Skipped => FieldOf(method) \in Skipped
    /\ \A method \in Methods : FieldOf(method) \in Bodies =>
          method \in Replacing /\ method \notin MethodMethods \cup Skipped
    /\ \A method \in Methods : FieldOf(method) \notin Bodies =>
          method \notin {"then.body", "then.body_from_file"}
BY FieldsOfMethods DEF Skipped, FunctionMethods, Bodies, Replacing, MethodMethods

\* What a call leaves in a field is of the kind the field holds.
LEMMA CallTyped ==
    ASSUME Typed(definition), NEW method \in Methods, NEW v \in ValuesOf(method),
           NEW values,
           \/ method \in Replacing /\ values = <<v>>
           \/ method \notin Replacing /\ values = Append(definition[FieldOf(method)], v),
           definition' = [definition EXCEPT ![FieldOf(method)] = values]
    PROVE  Typed(definition)'
<1> DEFINE f == FieldOf(method)
<1> Words \subseteq Texts /\ KnownMethods \subseteq Texts /\ Null \in Texts
  BY DefinitionAssumption
<1>1. f \in Fields
  BY DEF Fields
<1>2. DOMAIN definition = Fields /\ DOMAIN definition' = Fields
  BY DEF Typed
<1>3. \A g \in Fields : definition'[g] = IF g = f THEN values ELSE definition[g]
  BY <1>2
<1>4. f \in InFile => /\ v \in Texts \cup Binaries
                      /\ f \notin Bodies => v \in Texts
                      /\ f \in Bodies => method \in Replacing
  <2>1. f \in InFile => method \notin Skipped
    BY SomeMethods DEF InFile
  <2> QED
    BY <2>1, ValuesOfMethods, SomeMethods
<1> HIDE DEF f
<1>5. ASSUME f \in InFile
      PROVE  /\ values \in Seq(Texts \cup Binaries)
             /\ f \notin Bodies => values \in Seq(Texts)
             /\ f \in Bodies => Len(values) <= 1
  <2>1. CASE values = <<v>>
    BY <1>4, <1>5, <2>1
  <2>2. CASE method \notin Replacing /\ values = Append(definition[f], v)
    <3>1. f \notin Bodies /\ definition[f] \in Seq(Texts) /\ v \in Texts
      BY <1>4, <1>5, <2>2 DEF Typed
    <3>2. values \in Seq(Texts)
      BY <2>2, <3>1, AppendProperties
    <3> QED
      BY <3>1, <3>2, SeqMonotonic
  <2> QED
    BY <2>1, <2>2 DEF f
<1> QED
  BY <1>2, <1>3, <1>5 DEF Typed, InFile

LEMMA CallKeeps ==
    ASSUME DefInv, NEW method \in Methods, NEW v \in ValuesOf(method), v \in Values,
           Call(method, v)
    PROVE  DefInv'
<1> DEFINE f == FieldOf(method)
           values == IF method \in Replacing THEN <<v>> ELSE Append(definition[f], v)
<1>1. /\ definition' = [definition EXCEPT ![f] = values]
      /\ calls' = Append(calls, <<method, v>>)
  BY DEF Call, Replace, Push
<1>2. f \in Fields /\ \A g \in Fields : definition'[g] = IF g = f THEN values ELSE definition[g]
  BY <1>1 DEF DefInv, Fields
<1>3. CallsTyped'
  <2>1. calls \in Seq(Methods \X Values) /\ <<method, v>> \in Methods \X Values
    BY DEF DefInv, CallsTyped
  <2>2. /\ calls' \in Seq(Methods \X Values) /\ Len(calls') = Len(calls) + 1
        /\ calls'[Len(calls) + 1] = <<method, v>>
        /\ \A n \in 1..Len(calls) : calls'[n] = calls[n]
    BY <1>1, <2>1, AppendProperties
  <2>3. ASSUME NEW n \in 1..Len(calls') PROVE calls'[n][2] \in ValuesOf(calls'[n][1])
    <3>1. CASE n = Len(calls) + 1
      BY <2>2, <3>1
    <3>2. CASE n \in 1..Len(calls)
      BY <2>1, <2>2, <3>2 DEF DefInv, CallsTyped
    <3> QED
      BY <2>1, <2>2, <3>1, <3>2
  <2> QED
    BY <2>2, <2>3 DEF CallsTyped
<1>4. Typed(definition)'
  BY <1>1, CallTyped DEF DefInv
<1>5. ASSUME NEW aspect \in Aspects PROVE definition'[ReadBy(aspect)] = Told(aspect)'
  <2>1. ReadBy(aspect) \in Fields /\ definition[ReadBy(aspect)] = Told(aspect)
    BY AspectsAreMethods DEF DefInv
  <2>2. f = ReadBy(Means(method)) /\ Means(method) \in Aspects
        /\ (method \in Replacing <=> ReadBy(Means(method)) \in Single)
    BY FieldOfAspect
  <2>3. Told(aspect)' = IF Means(method) # aspect THEN Told(aspect)
                        ELSE IF ReadBy(aspect) \in Single THEN <<v>> ELSE Append(Told(aspect), v)
    BY <1>1, ToldMore DEF DefInv
  <2>4. CASE Means(method) # aspect
    <3>1. f # ReadBy(aspect)
      BY <2>2, <2>4, AspectsAreApart
    <3> QED
      BY <1>2, <2>1, <2>3, <2>4, <3>1
  <2>5. CASE Means(method) = aspect
    BY <1>2, <2>1, <2>2, <2>3, <2>5
  <2> QED
    BY <2>4, <2>5
<1>6. definition' = [g \in Fields |-> definition'[g]]
  BY <1>1 DEF DefInv
<1>7. definition'["then.respond_with"] \in Seq(Functions)
  <2>1. CASE f = "then.respond_with"
    <3>1. method = "then.respond_with"
      BY <2>1, Responding
    <3>2. values = <<v>> /\ v \in Functions
      BY <3>1, Responding
    <3>3. definition'["then.respond_with"] = <<v>>
      BY <1>2, <2>1, <3>2
    <3>4. <<v>> \in Seq(Functions)
      BY <3>2
    <3> QED
      BY <3>3, <3>4
  <2>2. CASE f # "then.respond_with"
    BY <1>2, <2>2, Responding DEF DefInv
  <2> QED
    BY <2>1, <2>2
<1>8. ASSUME NEW g \in MethodMethods PROVE definition'[g] \in Seq(KnownMethods)
  <2>1. g \in Fields /\ definition[g] \in Seq(KnownMethods)
    BY Naming DEF DefInv
  <2>2. CASE f = g
    <3>1. v \in KnownMethods
      BY <2>2, Naming
    <3>2. Append(definition[g], v) \in Seq(KnownMethods) /\ <<v>> \in Seq(KnownMethods)
      BY <2>1, <3>1, AppendProperties
    <3>3. definition'[g] \in {Append(definition[g], v), <<v>>}
      BY <1>2, <2>1, <2>2
    <3> QED
      BY <3>2, <3>3
  <2> QED
    BY <1>2, <2>1, <2>2
<1>9. definition'["json_body_not"] = <<>>
  BY <1>2, Naming DEF DefInv
<1> QED
  BY <1>3, <1>4, <1>5, <1>6, <1>7, <1>8, <1>9 DEF DefInv

-------------------------------------------------------------------------------
\* The file.

\* What a field holds is all text, or is a body that is none.
LEMMA OneKind ==
    ASSUME NEW d, Typed(d), NEW f \in InFile
    PROVE  \/ Selected(d[f], Texts) = d[f] /\ Selected(d[f], Binaries) = <<>>
           \/ f \in Bodies /\ Selected(d[f], Texts) = <<>> /\ Selected(d[f], Binaries) = d[f]
<1> DEFINE s == d[f]
<1>1. /\ s \in Seq(Texts \cup Binaries) /\ Len(s) \in Nat
      /\ f \notin Bodies => s \in Seq(Texts)
      /\ f \in Bodies => Len(s) <= 1
  BY DEF Typed
<1> HIDE DEF s
<1>2. CASE \A n \in 1..Len(s) : s[n] \in Texts
  <2>1. Selected(s, Texts) = s
    BY <1>1, <1>2, SelectedAll
  <2>2. \A n \in 1..Len(s) : s[n] \notin Binaries
    BY <1>2, DefinitionAssumption
  <2>3. Selected(s, Binaries) = <<>>
    BY <1>1, <2>2, SelectedNone
  <2> QED
    BY <2>1, <2>3 DEF s
<1>3. CASE \E n \in 1..Len(s) : s[n] \notin Texts
  <2>1. PICK n \in 1..Len(s) : s[n] \notin Texts
    BY <1>3
  <2>2. f \in Bodies
    BY <1>1, <2>1
  <2>3. \A k \in 1..Len(s) : s[k] \in Binaries /\ s[k] \notin Texts
    BY <1>1, <2>1, <2>2, DefinitionAssumption
  <2>4. Selected(s, Binaries) = s /\ Selected(s, Texts) = <<>>
    BY <1>1, <2>3, SelectedAll, SelectedNone
  <2> QED
    BY <2>2, <2>4 DEF s
<1> QED
  BY <1>2, <1>3

\* The definition as the format writes it: with its methods in upper case.
Uniform(d) == [f \in Fields |-> Written(f, d[f])]

LEMMA UniformTyped ==
    ASSUME NEW d, Typed(d)
    PROVE  /\ Typed(Uniform(d))
           /\ \A f \in InFile : Uniform(d)[f] = Written(f, d[f])
           /\ \A f \in InFile : Uniform(d)[f] = <<>> <=> d[f] = <<>>
           /\ \A f \in InFile \ MethodMethods : Uniform(d)[f] = d[f]
<1>1. InFile \subseteq Fields
  BY DEF InFile
<1>2. DOMAIN Uniform(d) = Fields /\ \A f \in InFile : Uniform(d)[f] = Written(f, d[f])
  BY <1>1 DEF Uniform
<1>3. \A f \in InFile \ MethodMethods : Uniform(d)[f] = d[f]
  BY <1>2 DEF Written
<1>4. ASSUME NEW f \in InFile, f \in MethodMethods
      PROVE  /\ f \notin Bodies /\ Uniform(d)[f] \in Seq(Texts)
             /\ Uniform(d)[f] = <<>> <=> d[f] = <<>>
  <2>1. f \notin Bodies
    BY <1>4 DEF MethodMethods, Bodies
  <2>2. d[f] \in Seq(Texts)
    BY <2>1 DEF Typed
  <2> DEFINE s == d[f]
  <2>3. Uniform(d)[f] = [n \in 1..Len(s) |-> Upper[s[n]]]
    BY <1>2, <1>4, <2>2 DEF Written
  <2> HIDE DEF s
  <2>4. \A n \in 1..Len(s) : Upper[s[n]] \in Texts
    BY <2>2, DefinitionAssumption DEF s
  <2>5. Len(s) \in Nat /\ (s = <<>> <=> Len(s) = 0)
    BY <2>2 DEF s
  <2>6. Uniform(d)[f] \in Seq(Texts) /\ Len(Uniform(d)[f]) = Len(s)
    BY <2>3, <2>4, <2>5
  <2> QED
    BY <2>1, <2>5, <2>6 DEF s
<1>5. Seq(Texts) \subseteq Seq(Texts \cup Binaries)
  BY SeqMonotonic
<1>6. Typed(Uniform(d))
  BY <1>2, <1>3, <1>4, <1>5 DEF Typed
<1> QED
  BY <1>2, <1>3, <1>4, <1>6

WrittenBy(u, f, e) ==
    /\ u[f] # <<>> /\ e.values # <<>>
    /\ \/ e = Entry(KeyOf(f), FALSE, Selected(u[f], Texts))
       \/ e = Entry(KeyOf(f), TRUE, Selected(u[f], Binaries))

LEMMA EntriesOfFile ==
    ASSUME NEW d, Typed(d), NEW u, u = Uniform(d)
    PROVE  \A e : e \in ToFile(d) <=> \E f \in InFile : WrittenBy(u, f, e)
<1>1. \A f \in InFile : Written(f, d[f]) = u[f] /\ (u[f] = <<>> <=> d[f] = <<>>)
  BY UniformTyped
<1>2. \A e : e \in ToFile(d) <=> \E f \in InFile : /\ d[f] # <<>> /\ e.values # <<>>
                                                /\ e \in EntriesFor(f, u[f])
  BY <1>1 DEF ToFile
<1> QED
  BY <1>1, <1>2 DEF EntriesFor, WrittenBy

\* A field is read from the entries it was written to.
LEMMA ListedAgain ==
    ASSUME NEW d, Typed(d), NEW u, u = Uniform(d), NEW f \in InFile, NEW base64 \in BOOLEAN
    PROVE  Listed(ToFile(d), f, base64) = Selected(u[f], IF base64 THEN Binaries ELSE Texts)
<1> DEFINE kind == Selected(u[f], IF base64 THEN Binaries ELSE Texts)
           entries == {e \in ToFile(d) : FieldReadFrom(e.key) = f /\ e.base64 = base64}
           entry == Entry(KeyOf(f), base64, kind)
<1>1. entry.key = KeyOf(f) /\ entry.base64 = base64 /\ entry.values = kind
  BY DEF Entry
<1>2. ASSUME NEW e \in entries PROVE e = entry /\ kind # <<>>
  <2>1. PICK g \in InFile : WrittenBy(u, g, e)
    BY EntriesOfFile, Zenon
  <2>2. e.key = KeyOf(g)
    BY <2>1 DEF Entry, WrittenBy
  <2>3. g = f
    BY <2>2, KeysAreReadBack DEF InFile
  <2>4. e.base64 = base64
    OBVIOUS
  <2>5. e = entry
    BY <2>1, <2>3, <2>4 DEF Entry, WrittenBy
  <2> HIDE DEF entry
  <2> QED
    BY <1>1, <2>1, <2>5 DEF WrittenBy
<1>3. ASSUME kind # <<>> PROVE entry \in entries
  <2>1. u[f] # <<>>
    BY <1>3, SelectedEmpty
  <2>2. \/ entry = Entry(KeyOf(f), FALSE, Selected(u[f], Texts))
        \/ entry = Entry(KeyOf(f), TRUE, Selected(u[f], Binaries))
    OBVIOUS
  <2> HIDE DEF entry, kind
  <2>3. entry \in ToFile(d)
    BY <1>1, <1>3, <2>1, <2>2, EntriesOfFile DEF WrittenBy
  <2> QED
    BY <1>1, <2>3, KeysAreReadBack DEF InFile
<1>4. Listed(ToFile(d), f, base64) =
         IF entries = {} THEN <<>> ELSE (CHOOSE e \in entries : TRUE).values
  BY DEF Listed
<1> HIDE DEF entries, entry
<1>5. CASE kind = <<>>
  BY <1>2, <1>4, <1>5
<1>6. CASE kind # <<>>
  <2>1. entries # {} /\ (CHOOSE e \in entries : TRUE) \in entries
    BY <1>3, <1>6
  <2>2. (CHOOSE e \in entries : TRUE) = entry
    BY <1>2, <2>1
  <2> QED
    BY <1>1, <1>4, <2>1, <2>2
<1> QED
  BY <1>5, <1>6

LEMMA PresentAgain ==
    ASSUME NEW d, Typed(d), NEW u, u = Uniform(d)
    PROVE  {FieldReadFrom(e.key) : e \in ToFile(d)} \ Skipped = {f \in InFile : u[f] # <<>>}
<1>1. ASSUME NEW e \in ToFile(d)
      PROVE  FieldReadFrom(e.key) \in {f \in InFile : u[f] # <<>>}
  <2>1. PICK f \in InFile : WrittenBy(u, f, e)
    BY EntriesOfFile, Zenon
  <2>2. e.key = KeyOf(f) /\ u[f] # <<>>
    BY <2>1 DEF Entry, WrittenBy
  <2> QED
    BY <2>1, <2>2, KeysAreReadBack DEF InFile
<1>2. ASSUME NEW f \in InFile, u[f] # <<>>
      PROVE  \E e \in ToFile(d) : FieldReadFrom(e.key) = f
  <2>1. PICK e : /\ e \in {Entry(KeyOf(f), FALSE, Selected(u[f], Texts)),
                           Entry(KeyOf(f), TRUE, Selected(u[f], Binaries))}
                 /\ e.values = u[f]
    <3>1. /\ Entry(KeyOf(f), FALSE, Selected(u[f], Texts)).values = Selected(u[f], Texts)
          /\ Entry(KeyOf(f), TRUE, Selected(u[f], Binaries)).values = Selected(u[f], Binaries)
      BY DEF Entry
    <3> QED
      BY <3>1, OneKind, UniformTyped
  <2>2. e \in ToFile(d)
    BY <1>2, <2>1, EntriesOfFile DEF WrittenBy
  <2>3. e.key = KeyOf(f)
    BY <2>1 DEF Entry
  <2> QED
    BY <2>2, <2>3, KeysAreReadBack DEF InFile
<1>3. \A f \in InFile : f \notin Skipped
  BY DEF InFile
<1> QED
  BY <1>1, <1>2, <1>3

\* What was written is read again, and nothing else, save for a JSON null.
LEMMA FileKeeps ==
    ASSUME NEW d, Typed(d)
    PROVE  /\ DOMAIN FromFile(ToFile(d)) = Fields
           /\ \A f \in InFile :
                 FromFile(ToFile(d))[f] = IF ReadAsNone(f, Written(f, d[f])) THEN <<>>
                                          ELSE Written(f, d[f])
           /\ \A f \in Fields \ InFile : FromFile(ToFile(d))[f] = <<>>
<1> DEFINE u == Uniform(d)
           present == {FieldReadFrom(e.key) : e \in ToFile(d)} \ Skipped
           text(f) == Listed(ToFile(d), f, FALSE)
           bytes(f) == Listed(ToFile(d), f, TRUE)
           value(f) == IF \/ f \in Bodies /\ text(f) # <<>> /\ bytes(f) # <<>>
                          \/ ReadAsNone(f, text(f))
                       THEN <<>> ELSE text(f) \o bytes(f)
<1>1. FromFile(ToFile(d)) = [f \in Fields |-> IF f \in present THEN value(f) ELSE <<>>]
  BY DEF FromFile, Bodies
<1>2. present = {f \in InFile : u[f] # <<>>}
  BY PresentAgain
<1>3. Typed(u) /\ \A f \in InFile : u[f] = Written(f, d[f])
  BY UniformTyped
<1>4. ASSUME NEW f \in InFile PROVE value(f) = IF ReadAsNone(f, u[f]) THEN <<>> ELSE u[f]
  <2>1. text(f) = Selected(u[f], Texts) /\ bytes(f) = Selected(u[f], Binaries)
    BY ListedAgain
  <2> HIDE DEF u
  <2>2. u[f] \in Seq(Texts \cup Binaries)
    BY <1>3 DEF Typed
  <2>3. \/ text(f) = u[f] /\ bytes(f) = <<>>
        \/ f \in Bodies /\ text(f) = <<>> /\ bytes(f) = u[f]
    BY <1>3, <2>1, OneKind
  <2> HIDE DEF text, bytes
  <2>4. CASE text(f) = u[f] /\ bytes(f) = <<>>
    BY <2>2, <2>4, ConcatEmptySeq
  <2>5. CASE f \in Bodies /\ text(f) = <<>> /\ bytes(f) = u[f]
    <3>1. ~ReadAsNone(f, text(f)) /\ ~ReadAsNone(f, u[f])
      BY <2>5 DEF ReadAsNone, Bodies
    <3> QED
      BY <2>2, <2>5, <3>1, ConcatEmptySeq
  <2> QED
    BY <2>3, <2>4, <2>5
<1> HIDE DEF value, present, u
<1>5. InFile \subseteq Fields
  BY DEF InFile
<1>6. \A f : ~ReadAsNone(f, <<>>)
  BY DEF ReadAsNone
<1> QED
  BY <1>1, <1>2, <1>3, <1>4, <1>5, <1>6

\* A definition means the same when it comes back from a file, whatever was called.
LEMMA DefinitionFiled == DefInv => FileKeepsDefinition
<1> SUFFICES ASSUME DefInv, NEW f \in InFile
             PROVE  SaysNull(f, definition[f]) \/ FromFile(ToFile(definition))[f] = definition[f]
  BY DEF FileKeepsDefinition
<1>1. FromFile(ToFile(definition))[f] =
         IF ReadAsNone(f, Written(f, definition[f])) THEN <<>> ELSE Written(f, definition[f])
  BY FileKeeps DEF DefInv
<1>2. Written(f, definition[f]) = definition[f]
  <2>1. CASE f \notin MethodMethods
    BY <2>1 DEF Written
  <2>2. CASE f \in MethodMethods
    <3> DEFINE s == definition[f]
    <3>1. s \in Seq(KnownMethods)
      BY <2>2 DEF DefInv
    <3> HIDE DEF s
    <3>2. \A n \in 1..Len(s) : Upper[s[n]] = s[n]
      BY <3>1, DefinitionAssumption
    <3>3. s = [n \in DOMAIN s |-> Upper[s[n]]]
      BY <3>1, <3>2
    <3> QED
      BY <2>2, <3>3 DEF s, Written
  <2> QED
    BY <2>1, <2>2
<1>3. ReadAsNone(f, definition[f]) => SaysNull(f, definition[f])
  <2>1. <<>> # <<Null>>
    OBVIOUS
  <2> QED
    BY <2>1, Zenon DEF ReadAsNone, SaysNull, DefInv
<1> QED
  BY <1>1, <1>2, <1>3

LEMMA DefinitionRead == DefInv => ReadsWhatWasCalled
<1> SUFFICES ASSUME DefInv, NEW aspect \in Aspects
             PROVE  LET told == IF aspect \in Said THEN Told(aspect) ELSE <<>>
                    IN  /\ definition[ReadBy(aspect)] = told
                        /\ aspect \notin Skipped /\ ~SaysNull(aspect, told) =>
                              OverTheWire(definition)[ReadBy(aspect)] = told
  BY DEF ReadsWhatWasCalled
<1>1. definition[ReadBy(aspect)] = Told(aspect) /\ ReadBy(aspect) \in Fields
  BY AspectsAreMethods DEF DefInv
<1>2. aspect \notin Said => Told(aspect) = <<>>
  <2> SUFFICES ASSUME aspect \notin Said PROVE Told(aspect) = <<>>
    OBVIOUS
  <2>1. calls \in Seq(Methods \X Values)
    BY DEF DefInv, CallsTyped
  <2>2. \A n \in 1..Len(calls) : Means(calls[n][1]) # aspect
    BY <2>1 DEF Said
  <2>3. \A n \in 1..Len(calls) : calls[n] \notin CallsFor(aspect)
    BY <2>2 DEF CallsFor
  <2>4. Selected(calls, CallsFor(aspect)) = <<>>
    BY <2>1, <2>3, SelectedNone
  <2> QED
    BY <2>4, EmptySeq DEF Told
<1>3. aspect \notin Skipped => ReadBy(aspect) \notin Skipped
  BY DEF ReadBy, Skipped, FunctionMethods
<1>4. aspect \notin Skipped /\ ~SaysNull(aspect, Told(aspect)) =>
         OverTheWire(definition)[ReadBy(aspect)] = definition[ReadBy(aspect)]
  <2>1. ReadAsNone(ReadBy(aspect), definition[ReadBy(aspect)]) => SaysNull(aspect, Told(aspect))
    <3>1. ReadBy(aspect) = "json_body" => aspect = "json_body"
      BY DEF ReadBy
    <3>2. definition["json_body_not"] # <<Null>>
      BY DEF DefInv
    <3> QED
      BY <1>1, <3>1, <3>2 DEF ReadAsNone, SaysNull
  <2> QED
    BY <1>1, <1>3, <2>1 DEF OverTheWire
<1> QED
  BY <1>1, <1>2, <1>4

LEMMA DefNext == DefInv /\ [Next]_vars => DefInv'
<1> SUFFICES ASSUME DefInv, [Next]_vars PROVE DefInv'
  OBVIOUS
<1>1. ASSUME UNCHANGED <<definition, calls>> PROVE DefInv'
  BY <1>1 DEF DefInv, CallsTyped, Typed, Told
<1>2. ASSUME NEW method \in Methods, NEW v \in Values, Define(method, v) PROVE DefInv'
  <2>1. v \in ValuesOf(method) /\ Call(method, v)
    BY <1>2 DEF Define
  <2> QED
    BY <2>1, CallKeeps
<1>3. ASSUME NEW r \in Requests, NEW took \in Durations, Record(r, took) PROVE DefInv'
  BY <1>1, <1>3 DEF Record
<1>4. CASE Export
  BY <1>1, <1>4 DEF Export
<1>5. CASE Load
  BY <1>1, <1>5 DEF Load
<1>6. CASE StartOver
  <2>1. (definition = Nothing /\ calls = <<>>)'
    BY <1>6 DEF StartOver, Nothing
  <2>2. (definition = Nothing /\ calls = <<>> => DefInv)'
    BY DefStart, PTL
  <2> QED
    BY <2>1, <2>2
<1>7. CASE UNCHANGED vars
  BY <1>1, <1>7 DEF vars
<1> QED
  BY <1>2, <1>3, <1>4, <1>5, <1>6, <1>7 DEF Next

LEMMA DefAlways == Spec => []DefInv
<1>1. Init => DefInv
  BY DefStart DEF Init, DefInit
<1> QED
  BY <1>1, DefNext, PTL DEF Spec

\* ReadsWhatWasCalled for any number of calls and values (struct When and struct Then
\* in src/src/api/spec.rs, the matchers in src/src/server/matchers/mod.rs): no
\* condition is doubled or put into the field of another one, and none is lost but, on a
\* remote server, functions and a JSON body that is to be null.
THEOREM CallsAreRead == Spec => []ReadsWhatWasCalled
BY DefAlways, DefinitionRead, PTL

\* FileKeepsDefinition for any number of calls and values (the two conversions of
\* src/src/common/data.rs): every field is written under a key of its own and is read
\* back from it, text as text and bytes as bytes; but a JSON body that is to be null is
\* not, and functions are not written.
THEOREM FilesKeepDefinitions == Spec => []FileKeepsDefinition
BY DefAlways, DefinitionFiled, PTL

-------------------------------------------------------------------------------
\* Headers of one name behind one another.

Inserted(X, s, p, h, r) ==
    /\ r \in Seq(X) /\ Len(r) = Len(s) + 1
    /\ \A j \in 1..(Len(s) + 1) : r[j] = IF j < p THEN s[j] ELSE IF j = p THEN h ELSE s[j - 1]

LEMMA InsertedAt ==
    ASSUME NEW X, NEW s \in Seq(X), NEW p \in 1..(Len(s) + 1), NEW h \in X
    PROVE  Inserted(X, s, p, h, InsertAt(s, p, h))
<1> DEFINE front == SubSeq(s, 1, p - 1)
           back == SubSeq(s, p, Len(s))
<1>1. /\ front \in Seq(X) /\ Len(front) = p - 1
      /\ \A j \in 1..(p - 1) : front[j] = s[j]
  OBVIOUS
<1>2. /\ back \in Seq(X) /\ Len(back) = Len(s) - p + 1
      /\ \A j \in 1..(Len(s) - p + 1) : back[j] = s[p + j - 1]
  OBVIOUS
<1>3. InsertAt(s, p, h) = (front \o <<h>>) \o back
  BY DEF InsertAt
<1> HIDE DEF front, back
<1>4. /\ front \o <<h>> \in Seq(X) /\ Len(front \o <<h>>) = p
      /\ \A j \in 1..p : (front \o <<h>>)[j] = IF j < p THEN s[j] ELSE h
  BY <1>1
<1> QED
  BY <1>2, <1>3, <1>4, ConcatProperties, SMTT(30) DEF Inserted

\* A header goes to the others of its name, or to the end.
Place(s, h, p) ==
    /\ \A i \in p..Len(s) : NameOf[s[i]] # NameOf[h]
    /\ \/ p = Len(s) + 1 /\ \A i \in 1..Len(s) : NameOf[s[i]] # NameOf[h]
       \/ p > 1 /\ NameOf[s[p - 1]] = NameOf[h]

LEMMA AppendedPlace ==
    ASSUME NEW X, NEW s \in Seq(X), NEW h
    PROVE  \E p \in 1..(Len(s) + 1) : Appended(s, h) = InsertAt(s, p, h) /\ Place(s, h, p)
<1> DEFINE same == {i \in DOMAIN s : NameOf[s[i]] = NameOf[h]}
           p == 1 + IF same = {} THEN Len(s) ELSE Max(same)
<1>1. Appended(s, h) = InsertAt(s, p, h)
  BY DEF Appended
<1>2. same = {i \in 1..Len(s) : NameOf[s[i]] = NameOf[h]} /\ Len(s) \in Nat
  OBVIOUS
<1>3. CASE same = {}
  BY <1>1, <1>2, <1>3 DEF Place
<1>4. CASE same # {}
  <2>1. Max(same) \in same /\ \A i \in same : i <= Max(same)
    <3>1. same \in SUBSET (0..Len(s))
      BY <1>2
    <3> HIDE DEF same
    <3>2. PICK n \in same : \A k \in same : k <= n
      BY <1>2, <1>4, <3>1, GreatestExists
    <3>3. n \in same /\ \A k \in same : n >= k
      BY <1>2, <3>1, <3>2
    <3>4. Max(same) \in same /\ \A k \in same : Max(same) >= k
      BY <3>3 DEF Max
    <3> QED
      BY <1>2, <3>1, <3>4
  <2> DEFINE n == Max(same)
  <2>2. p = n + 1 /\ n \in 1..Len(s) /\ NameOf[s[n]] = NameOf[h]
    BY <1>2, <1>4, <2>1
  <2>3. \A i \in (n + 1)..Len(s) : NameOf[s[i]] # NameOf[h]
    <3> SUFFICES ASSUME NEW i \in (n + 1)..Len(s), NameOf[s[i]] = NameOf[h] PROVE FALSE
      OBVIOUS
    <3>1. i \in same
      BY <1>2, <2>2
    <3>2. i <= n
      BY <2>1, <3>1
    <3> HIDE DEF n
    <3> QED
      BY <2>2, <3>2
  <2> HIDE DEF n, p
  <2>4. Place(s, h, p) /\ p \in 1..(Len(s) + 1)
    BY <1>2, <2>2, <2>3 DEF Place
  <2> QED
    BY <1>1, <2>4
<1> QED
  BY <1>3, <1>4

Contiguous(s) ==
    \A i, j, k \in 1..Len(s) :
        i < j /\ j < k /\ NameOf[s[i]] = NameOf[s[k]] => NameOf[s[j]] = NameOf[s[i]]

LEMMA AppendedContiguous ==
    ASSUME NEW X, NEW s \in Seq(X), NEW h \in X, Contiguous(s)
    PROVE  Appended(s, h) \in Seq(X) /\ Contiguous(Appended(s, h))
<1>1. PICK p \in 1..(Len(s) + 1) : Appended(s, h) = InsertAt(s, p, h) /\ Place(s, h, p)
  BY AppendedPlace
<1> DEFINE r == Appended(s, h)
<1>2. /\ r \in Seq(X) /\ Len(r) = Len(s) + 1
      /\ \A j \in 1..(Len(s) + 1) : r[j] = IF j < p THEN s[j] ELSE IF j = p THEN h ELSE s[j - 1]
  <2>1. Inserted(X, s, p, h, r)
    BY <1>1, InsertedAt
  <2> QED
    BY <2>1 DEF Inserted
<1> HIDE DEF r
<1> SUFFICES ASSUME NEW i \in 1..Len(r), NEW j \in 1..Len(r), NEW k \in 1..Len(r),
                    i < j, j < k, NameOf[r[i]] = NameOf[r[k]]
             PROVE  NameOf[r[j]] = NameOf[r[i]]
  BY <1>2 DEF Contiguous, r
<1> Len(s) \in Nat
  OBVIOUS
<1>3. CASE k < p
  <2>1. /\ r[i] = s[i] /\ r[j] = s[j] /\ r[k] = s[k]
        /\ i \in 1..Len(s) /\ j \in 1..Len(s) /\ k \in 1..Len(s)
    BY <1>2, <1>3
  <2> QED
    BY <2>1 DEF Contiguous
<1>4. CASE k = p
  <2>1. r[i] = s[i] /\ r[j] = s[j] /\ r[k] = h /\ i \in 1..Len(s) /\ j \in 1..Len(s)
    BY <1>2, <1>4
  <2>2. p > 1 /\ NameOf[s[p - 1]] = NameOf[s[i]] /\ p - 1 \in 1..Len(s)
    BY <1>1, <2>1 DEF Place
  <2> QED
    BY <1>4, <2>1, <2>2 DEF Contiguous
<1>5. CASE k > p
  <2>1. r[k] = s[k - 1] /\ NameOf[s[k - 1]] # NameOf[h] /\ k - 1 \in p..Len(s)
    BY <1>1, <1>2, <1>5 DEF Place
  <2>2. i # p
    BY <1>2, <2>1
  <2>3. CASE j = p
    <3>1. r[j] = h /\ r[i] = s[i] /\ i \in 1..Len(s)
      BY <1>2, <2>3
    <3>2. p > 1 /\ NameOf[s[p - 1]] = NameOf[h] /\ p - 1 \in 1..Len(s)
      BY <1>1, <2>1 DEF Place
    <3> QED
      BY <2>1, <2>3, <3>1, <3>2 DEF Contiguous
  <2>4. CASE j # p
    <3> DEFINE a == IF i < p THEN i ELSE i - 1
               b == IF j < p THEN j ELSE j - 1
    <3>1. /\ r[i] = s[a] /\ r[j] = s[b] /\ a < b /\ b < k - 1
          /\ a \in 1..Len(s) /\ b \in 1..Len(s) /\ k - 1 \in 1..Len(s)
      BY <1>2, <1>5, <2>2, <2>4
    <3> HIDE DEF a, b
    <3> QED
      BY <2>1, <3>1 DEF Contiguous
  <2> QED
    BY <2>3, <2>4
<1> QED
  BY <1>3, <1>4, <1>5

LEMMA AppendedBehind ==
    ASSUME NEW X, NEW s \in Seq(X), NEW n \in Nat, n + 1 <= Len(s), Contiguous(s),
           NEW r \in Seq(X), Len(r) = n, \A k \in 1..n : r[k] = s[k]
    PROVE  /\ Appended(r, s[n + 1]) \in Seq(X) /\ Len(Appended(r, s[n + 1])) = n + 1
           /\ \A k \in 1..(n + 1) : Appended(r, s[n + 1])[k] = s[k]
<1> DEFINE h == s[n + 1]
<1>1. h \in X
  OBVIOUS
<1> HIDE DEF h
<1>2. PICK p \in 1..(Len(r) + 1) : Appended(r, h) = InsertAt(r, p, h) /\ Place(r, h, p)
  BY AppendedPlace
<1>3. p = n + 1
  <2> SUFFICES ASSUME p \in 1..n PROVE FALSE
    OBVIOUS
  <2>1. NameOf[s[p]] # NameOf[h] /\ p > 1 /\ NameOf[s[p - 1]] = NameOf[h]
    BY <1>2 DEF Place
  <2>2. /\ p - 1 \in 1..Len(s) /\ p \in 1..Len(s) /\ n + 1 \in 1..Len(s)
        /\ p - 1 < p /\ p < n + 1
    BY <2>1
  <2> QED
    BY <2>1, <2>2 DEF Contiguous, h
<1>4. Inserted(X, r, p, h, Appended(r, h))
  BY <1>1, <1>2, InsertedAt
<1> QED
  BY <1>3, <1>4 DEF h, Inserted

\* U gives the headers of every prefix of s up to length m, grouped.
Groups(s, U, m) ==
    U = [n \in 0..m |-> IF n = 0 THEN <<>> ELSE Appended(U[n - 1], s[n])]

LEMMA GroupsExist ==
    ASSUME NEW s, NEW m \in Nat
    PROVE  \E U : Groups(s, U, m)
<1> DEFINE T == {n \in Nat : \E U : Groups(s, U, n)}
<1>1. 0 \in T
  <2> DEFINE U == [n \in 0..0 |-> <<>>]
  <2>1. Groups(s, U, 0)
    BY DEF Groups
  <2> QED
    BY <2>1
<1>2. ASSUME NEW n \in Nat, n \in T PROVE n + 1 \in T
  <2>1. PICK U : Groups(s, U, n)
    BY <1>2
  <2> DEFINE V == [i \in 0..(n + 1) |-> IF i = n + 1 THEN Appended(U[n], s[n + 1]) ELSE U[i]]
  <2>2. V[n + 1] = Appended(U[n], s[n + 1]) /\ \A i \in 0..n : V[i] = U[i]
    OBVIOUS
  <2>3. V = [i \in 0..(n + 1) |-> V[i]]
    OBVIOUS
  <2> HIDE DEF V
  <2>4. \A i \in 0..(n + 1) : V[i] = IF i = 0 THEN <<>> ELSE Appended(V[i - 1], s[i])
    <3> SUFFICES ASSUME NEW i \in 0..(n + 1)
                 PROVE  V[i] = IF i = 0 THEN <<>> ELSE Appended(V[i - 1], s[i])
      OBVIOUS
    <3>1. CASE i = n + 1
      BY <2>2, <3>1
    <3>2. CASE i \in 0..n
      <4>1. U[i] = IF i = 0 THEN <<>> ELSE Appended(U[i - 1], s[i])
        BY <2>1, <3>2 DEF Groups
      <4>2. i # 0 => i - 1 \in 0..n
        BY <3>2
      <4> QED
        BY <2>2, <3>2, <4>1, <4>2
    <3> QED
      BY <3>1, <3>2
  <2>5. Groups(s, V, n + 1)
    BY <2>3, <2>4 DEF Groups
  <2> QED
    BY <2>5
<1> HIDE DEF T
<1>3. m \in T
  BY <1>1, <1>2, Inductive
<1> QED
  BY <1>3 DEF T

LEMMA GroupsOfGrouped ==
    ASSUME NEW s, Len(s) \in Nat
    PROVE  \E U : Groups(s, U, Len(s)) /\ Grouped(s) = U[Len(s)]
<1> DEFINE upTo == CHOOSE U : Groups(s, U, Len(s))
<1>1. Groups(s, upTo, Len(s))
  BY GroupsExist, Zenon
<1>2. Grouped(s) = upTo[Len(s)]
  BY Zenon DEF Grouped, Groups
<1> QED
  BY <1>1, <1>2, Zenon

LEMMA GroupedContiguous ==
    ASSUME NEW X, NEW s \in Seq(X)
    PROVE  Grouped(s) \in Seq(X) /\ Contiguous(Grouped(s))
<1> DEFINE m == Len(s)
<1>1. PICK U : Groups(s, U, m) /\ Grouped(s) = U[m]
  BY GroupsOfGrouped
<1> m \in Nat /\ \A n \in 1..m : s[n] \in X
  OBVIOUS
<1> HIDE DEF m
<1> DEFINE T == {n \in Nat : n <= m => U[n] \in Seq(X) /\ Contiguous(U[n])}
<1>2. 0 \in T
  <2>1. U[0] = <<>>
    BY <1>1 DEF Groups
  <2>2. <<>> \in Seq(X) /\ Contiguous(<<>>)
    BY EmptySeq DEF Contiguous
  <2> QED
    BY <2>1, <2>2
<1>3. ASSUME NEW n \in Nat, n \in T PROVE n + 1 \in T
  <2> SUFFICES ASSUME n + 1 <= m PROVE U[n + 1] \in Seq(X) /\ Contiguous(U[n + 1])
    OBVIOUS
  <2>1. U[n] \in Seq(X) /\ Contiguous(U[n]) /\ s[n + 1] \in X
    BY <1>3
  <2>2. U[n + 1] = Appended(U[n], s[n + 1])
    <3>1. n + 1 \in 0..m /\ n + 1 # 0 /\ (n + 1) - 1 = n
      OBVIOUS
    <3> QED
      BY <1>1, <3>1 DEF Groups
  <2> QED
    BY <2>1, <2>2, AppendedContiguous
<1> HIDE DEF T
<1>4. m \in T
  BY <1>2, <1>3, Inductive
<1> QED
  BY <1>1, <1>4 DEF T

\* What is grouped stays as it is.
LEMMA GroupedAgain ==
    ASSUME NEW X, NEW s \in Seq(X), Contiguous(s)
    PROVE  Grouped(s) = s
<1> DEFINE m == Len(s)
<1>1. PICK U : Groups(s, U, m) /\ Grouped(s) = U[m]
  BY GroupsOfGrouped
<1> m \in Nat /\ \A n \in 1..m : s[n] \in X
  OBVIOUS
<1> DEFINE T == {n \in Nat : n <= m => /\ U[n] \in Seq(X) /\ Len(U[n]) = n
                                       /\ \A k \in 1..n : U[n][k] = s[k]}
<1>2. 0 \in T
  <2>1. U[0] = <<>>
    BY <1>1 DEF Groups
  <2>2. U[0] \in Seq(X) /\ Len(U[0]) = 0 /\ 1..0 = {}
    BY <2>1, EmptySeq
  <2> QED
    BY <2>2
<1>3. ASSUME NEW n \in Nat, n \in T PROVE n + 1 \in T
  <2> SUFFICES ASSUME n + 1 <= m
               PROVE  /\ U[n + 1] \in Seq(X) /\ Len(U[n + 1]) = n + 1
                      /\ \A k \in 1..(n + 1) : U[n + 1][k] = s[k]
    OBVIOUS
  <2>1. U[n] \in Seq(X) /\ Len(U[n]) = n /\ \A k \in 1..n : U[n][k] = s[k]
    BY <1>3
  <2>2. U[n + 1] = Appended(U[n], s[n + 1])
    <3>1. n + 1 \in 0..m /\ n + 1 # 0 /\ (n + 1) - 1 = n
      OBVIOUS
    <3> QED
      BY <1>1, <3>1 DEF Groups
  <2> HIDE DEF T
  <2> QED
    BY <2>1, <2>2, AppendedBehind
<1> HIDE DEF T
<1>4. m \in T
  BY <1>2, <1>3, Inductive
<1>5. U[m] \in Seq(X) /\ Len(U[m]) = m /\ \A k \in 1..m : U[m][k] = s[k]
  BY <1>4 DEF T
<1> QED
  BY <1>1, <1>5, SeqEqual

-------------------------------------------------------------------------------
\* Exchanges and what is recorded of them.

Whole == {<<b>> : b \in Texts \cup Binaries}
Responses == [status: Seq(Texts), headers: Seq(Texts), body: {<<>>} \cup Whole]

\* A response as it was delivered: with a status, headers of one name together, a body.
Arrived(response) ==
    /\ response \in [status: Seq(Texts), headers: Seq(Texts), body: Whole]
    /\ response.status # <<>> /\ Contiguous(response.headers)

LEMMA WholeBodies == /\ \A body \in Whole : body \in Seq(Texts \cup Binaries) /\ Len(body) = 1
                     /\ <<>> \in Seq(Texts \cup Binaries) /\ Len(<<>>) = 0
<1>1. ASSUME NEW body \in Whole PROVE body \in Seq(Texts \cup Binaries) /\ Len(body) = 1
  <2>1. PICK b \in Texts \cup Binaries : body = <<b>>
    BY DEF Whole
  <2> QED
    BY <2>1
<1>2. <<>> \in Seq(Texts \cup Binaries) /\ Len(<<>>) = 0
  BY EmptySeq
<1> QED
  BY <1>1, <1>2, Zenon

LEMMA DefinitionAnswers == DefInv => Answer(definition) \in Responses
<1> SUFFICES ASSUME DefInv PROVE Answer(definition) \in Responses
  OBVIOUS
<1> DEFINE own == definition["then.respond_with"]
<1>1. CASE own # <<>>
  <2>1. own \in Seq(Functions)
    BY DEF DefInv
  <2>2. own[1] \in Functions
    BY <1>1, <2>1
  <2>3. Answer(definition) = Respond[own[1]]
    BY <1>1 DEF Answer
  <2> QED
    BY <2>2, <2>3, RecordingAssumption DEF Responses, Whole
<1>2. CASE own = <<>>
  <2>1. {"then.status", "then.header", "then.body"} \subseteq InFile
    <3>1. {"then.status", "then.header", "then.body"} \subseteq Methods
      BY DEF Methods, ThenMethods
    <3>2. \A m \in {"then.status", "then.header", "then.body"} : FieldOf(m) = m
      BY FieldsOfMethods
    <3>3. \A m \in {"then.status", "then.header", "then.body"} : m \in Fields
      BY <3>1, <3>2 DEF Fields
    <3> QED
      BY <3>3 DEF InFile, Skipped, FunctionMethods
  <2>2. /\ definition["then.status"] \in Seq(Texts) /\ definition["then.header"] \in Seq(Texts)
        /\ definition["then.body"] \in Seq(Texts \cup Binaries)
        /\ Len(definition["then.body"]) <= 1
    BY <2>1 DEF DefInv, Typed, Bodies
  <2>3. definition["then.body"] \in {<<>>} \cup Whole
    <3> DEFINE body == definition["then.body"]
    <3>1. body \in Seq(Texts \cup Binaries) /\ Len(body) <= 1 /\ Len(body) \in Nat
      BY <2>2
    <3> HIDE DEF body
    <3>2. CASE Len(body) = 0
      <4>1. body = <<>>
        BY <3>1, <3>2
      <4> QED
        BY <4>1 DEF body
    <3>3. CASE Len(body) = 1
      <4>1. body = <<body[1]>> /\ body[1] \in Texts \cup Binaries
        BY <3>1, <3>3
      <4> QED
        BY <4>1 DEF Whole, body
    <3>4. Len(body) = 0 \/ Len(body) = 1
      <4>1. \A l \in Nat : l <= 1 => l = 0 \/ l = 1
        OBVIOUS
      <4> QED
        BY <3>1, <4>1, Zenon
    <3> QED
      BY <3>2, <3>3, <3>4
  <2>4. <<Ok>> \in Seq(Texts)
    BY RecordingAssumption
  <2>5. Answer(definition) =
           [status |-> IF definition["then.status"] = <<>> THEN <<Ok>> ELSE definition["then.status"],
            headers |-> definition["then.header"], body |-> definition["then.body"]]
    BY <1>2 DEF Answer
  <2> HIDE <1>2
  <2> QED
    BY <2>2, <2>3, <2>4, <2>5 DEF Responses
<1> QED
  BY <1>1, <1>2

LEMMA DeliveredArrives ==
    ASSUME NEW a \in Responses, a.status # <<>>
    PROVE  Arrived(Delivered(a))
<1>1. Grouped(a.headers) \in Seq(Texts) /\ Contiguous(Grouped(a.headers))
  BY GroupedContiguous DEF Responses
<1>2. a.status \in Seq(Texts) /\ a.body \in {<<>>} \cup Whole
  BY DEF Responses
<1>3. <<Empty>> \in Whole
  BY RecordingAssumption DEF Whole
<1> QED
  BY <1>1, <1>2, <1>3 DEF Arrived, Delivered

\* Of every name that is recorded, the first header.
LEMMA FirstIsLeast ==
    ASSUME NEW r \in Requests, NEW name, NEW i \in DOMAIN r.headers, NameOf[r.headers[i]] = name
    PROVE  LET at == {k \in DOMAIN r.headers : NameOf[r.headers[k]] = name}
           IN  Min(at) \in at /\ \A k \in at : Min(at) <= k
<1> DEFINE at == {k \in DOMAIN r.headers : NameOf[r.headers[k]] = name}
<1>1. r.headers \in Seq(Texts)
  BY RecordingAssumption
<1>2. at \in SUBSET Nat /\ i \in at
  BY <1>1
<1> HIDE DEF at
<1>3. PICK n \in at : \A k \in at : n <= k
  BY <1>2, LeastExists
<1>4. Min(at) \in at /\ \A k \in at : Min(at) <= k
  BY <1>3 DEF Min
<1> QED
  BY <1>4 DEF at

LEMMA HeadersKept ==
    ASSUME NEW r \in Requests
    PROVE  /\ FirstHeaders(r) \in Seq(Texts)
           /\ \A h : h \in ToSet(FirstHeaders(r)) <=>
                 \E i \in DOMAIN r.headers :
                    /\ h = r.headers[i] /\ NameOf[h] \in ToSet(RecordHeaders)
                    /\ \A j \in 1..(i - 1) : NameOf[r.headers[j]] # NameOf[h]
<1> DEFINE given == {NameOf[h] : h \in ToSet(r.headers)}
           names == Selected(RecordHeaders, given)
           At(name) == {i \in DOMAIN r.headers : NameOf[r.headers[i]] = name}
           first == FirstHeaders(r)
<1>1. r.headers \in Seq(Texts) /\ DOMAIN r.headers = 1..Len(r.headers)
  BY RecordingAssumption
<1>2. given = {NameOf[r.headers[i]] : i \in DOMAIN r.headers}
  BY <1>1 DEF ToSet
<1>3. RecordHeaders \in Seq({NameOf[t] : t \in Texts}) /\ Len(RecordHeaders) \in Nat
  BY RecordingAssumption
<1>4. /\ names \in Seq(given) /\ Len(names) \in Nat
      /\ \A name : (\E n \in 1..Len(names) : names[n] = name) <=>
                     name \in ToSet(RecordHeaders) /\ name \in given
  <2>1. Enumerates(RecordHeaders, given, names, Len(RecordHeaders))
    BY <1>3, SelectedEnumerates
  <2> HIDE DEF names, given
  <2>2. PICK pos : Positions(RecordHeaders, given, names, Len(names), Len(RecordHeaders), pos)
    BY <2>1 DEF Enumerates
  <2>3. names \in Seq(given) /\ Len(names) \in Nat
    BY <2>1 DEF Enumerates
  <2>4. ASSUME NEW n \in 1..Len(names)
        PROVE  names[n] \in ToSet(RecordHeaders) /\ names[n] \in given
    BY <1>3, <2>2, <2>3, <2>4 DEF Positions, ToSet
  <2>5. ASSUME NEW name \in given, name \in ToSet(RecordHeaders)
        PROVE  \E n \in 1..Len(names) : names[n] = name
    BY <1>3, <2>2, <2>3, <2>5, SMTT(30) DEF Positions, ToSet
  <2> QED
    BY <2>3, <2>4, <2>5
<1>5. first = [n \in 1..Len(names) |-> r.headers[Min(At(names[n]))]]
  BY <1>4 DEF FirstHeaders
<1>6. ASSUME NEW n \in 1..Len(names)
      PROVE  /\ Min(At(names[n])) \in At(names[n])
             /\ \A k \in At(names[n]) : Min(At(names[n])) <= k
  <2>1. names[n] \in given
    BY <1>4
  <2>2. PICK i \in DOMAIN r.headers : NameOf[r.headers[i]] = names[n]
    BY <1>2, <2>1
  <2> HIDE DEF names
  <2> QED
    BY <2>2, FirstIsLeast
<1> HIDE DEF first, names, given
<1>7. first \in Seq(Texts) /\ DOMAIN first = 1..Len(names)
  <2>1. ASSUME NEW n \in 1..Len(names) PROVE r.headers[Min(At(names[n]))] \in Texts
    <3> DEFINE l == Min(At(names[n]))
    <3>1. l \in At(names[n])
      BY <1>6
    <3> HIDE DEF l
    <3>2. r.headers[l] \in Texts
      BY <1>1, <3>1
    <3> QED
      BY <3>2 DEF l
  <2> HIDE DEF At
  <2> QED
    BY <1>4, <1>5, <2>1
<1>8. ASSUME NEW n \in 1..Len(names)
      PROVE  \E i \in DOMAIN r.headers :
                /\ first[n] = r.headers[i] /\ NameOf[first[n]] \in ToSet(RecordHeaders)
                /\ \A j \in 1..(i - 1) : NameOf[r.headers[j]] # NameOf[first[n]]
  <2> DEFINE i == Min(At(names[n]))
  <2>1. i \in At(names[n]) /\ \A k \in At(names[n]) : i <= k
    BY <1>6
  <2>2. first[n] = r.headers[i]
    BY <1>5
  <2> HIDE DEF i
  <2>3. i \in DOMAIN r.headers /\ NameOf[r.headers[i]] = names[n]
    BY <2>1
  <2>4. \A j \in 1..(i - 1) : NameOf[r.headers[j]] # names[n]
    <3> SUFFICES ASSUME NEW j \in 1..(i - 1), NameOf[r.headers[j]] = names[n] PROVE FALSE
      OBVIOUS
    <3>1. j \in DOMAIN r.headers
      BY <1>1, <2>3
    <3> QED
      BY <1>1, <2>1, <2>3, <3>1
  <2>5. names[n] \in ToSet(RecordHeaders)
    BY <1>4
  <2> QED
    BY <2>2, <2>3, <2>4, <2>5
<1>9. ASSUME NEW i \in DOMAIN r.headers, NameOf[r.headers[i]] \in ToSet(RecordHeaders),
             \A j \in 1..(i - 1) : NameOf[r.headers[j]] # NameOf[r.headers[i]]
      PROVE  \E n \in 1..Len(names) : first[n] = r.headers[i]
  <2>1. NameOf[r.headers[i]] \in given
    BY <1>2
  <2>2. PICK n \in 1..Len(names) : names[n] = NameOf[r.headers[i]]
    BY <1>4, <1>9, <2>1
  <2> DEFINE l == Min(At(names[n]))
  <2>3. l \in At(names[n]) /\ \A k \in At(names[n]) : l <= k
    BY <1>6
  <2>4. first[n] = r.headers[l]
    BY <1>5
  <2> HIDE DEF l
  <2>5. l \in DOMAIN r.headers /\ NameOf[r.headers[l]] = NameOf[r.headers[i]] /\ l <= i
    BY <2>2, <2>3
  <2>6. l = i
    BY <1>1, <1>9, <2>5
  <2> QED
    BY <2>4, <2>6
<1>10. \A h : h \in ToSet(first) <=> \E n \in 1..Len(names) : first[n] = h
  BY <1>7 DEF ToSet
<1>11. first \in Seq(Texts) /\
       \A h : h \in ToSet(first) <=>
             \E i \in DOMAIN r.headers :
                /\ h = r.headers[i] /\ NameOf[h] \in ToSet(RecordHeaders)
                /\ \A j \in 1..(i - 1) : NameOf[r.headers[j]] # NameOf[h]
  BY <1>7, <1>8, <1>9, <1>10
<1> QED
  BY <1>11 DEF first

\* The fields a recording fills, and no other one.
RecordedIn ==
    {"scheme", "host", "port", "path", "method", "header", "body", "query_param",
     "then.status", "then.header", "then.body", "then.delay"}

LEMMA RecordedFields == RecordedIn \subseteq InFile
<1>1. RecordedIn \subseteq Methods
  BY DEF RecordedIn, Methods, ThenMethods, WhenMethods, SchemeMethods, MethodMethods,
     HostMethods, PortMethods, PathMethods, QueryMethods, HeaderMethods, BodyMethods
<1>2. \A f \in RecordedIn : FieldOf(f) = f
  BY FieldsOfMethods DEF RecordedIn
<1>3. \A f \in RecordedIn : f \in Fields
  BY <1>1, <1>2 DEF Fields
<1> QED
  BY <1>3 DEF InFile, Skipped, FunctionMethods, RecordedIn

Holds(d, r, a, took) ==
    /\ DOMAIN d = Fields
    /\ d["scheme"] = IF r.proxied THEN <<r.scheme>> ELSE <<>>
    /\ d["host"] = IF r.proxied THEN <<r.host>> ELSE <<>>
    /\ d["port"] = IF r.proxied THEN r.port ELSE <<>>
    /\ d["path"] = <<r.path>> /\ d["method"] = <<r.method>>
    /\ d["header"] = FirstHeaders(r) /\ d["body"] = Kept(<<r.body>>)
    /\ d["query_param"] = r.query /\ d["then.status"] = a.status
    /\ d["then.header"] = a.headers /\ d["then.body"] = Kept(a.body)
    /\ d["then.delay"] = IF RecordDelays THEN <<took>> ELSE <<>>
    /\ \A f \in Fields \ RecordedIn : d[f] = <<>>

LEMMA RecordedWhat ==
    \A r, a, took : Holds(BuildMockDefinition(r, a, took), r, a, took)
<1> RecordedIn \subseteq Fields
  BY RecordedFields DEF InFile
<1> QED
  BY DEF BuildMockDefinition, RecordedIn, Holds

LEMMA KeptBodies ==
    ASSUME NEW body \in Whole
    PROVE  Kept(body) \in Seq(Texts \cup Binaries) /\ Len(Kept(body)) <= 1
<1>1. body \in Seq(Texts \cup Binaries) /\ Len(body) = 1
  BY WholeBodies
<1>2. <<>> \in Seq(Texts \cup Binaries) /\ Len(<<>>) = 0
  BY WholeBodies
<1>3. Kept(body) = <<>> \/ Kept(body) = body
  BY DEF Kept
<1>4. 0 <= 1 /\ 1 <= 1
  OBVIOUS
<1> QED
  BY <1>1, <1>2, <1>3, <1>4, Zenon

LEMMA RecordedTyped ==
    ASSUME NEW r \in Requests, NEW a, Arrived(a), NEW took \in Durations
    PROVE  Typed(BuildMockDefinition(r, a, took))
<1> DEFINE d == BuildMockDefinition(r, a, took)
<1> Holds(d, r, a, took)
  BY RecordedWhat
<1> HIDE DEF d
<1>1. /\ r.scheme \in Texts /\ r.host \in Texts /\ r.port \in Seq(Texts) /\ r.path \in Texts
      /\ r.method \in Texts /\ r.query \in Seq(Texts) /\ r.body \in Texts \cup Binaries
      /\ took \in Texts
  BY RecordingAssumption
<1>2. a.status \in Seq(Texts) /\ a.headers \in Seq(Texts) /\ a.body \in Whole
  BY DEF Arrived
<1>3. FirstHeaders(r) \in Seq(Texts)
  BY HeadersKept
<1>4. \A t \in Texts : <<t>> \in Seq(Texts)
  OBVIOUS
<1>5. <<>> \in Seq(Texts) /\ <<>> \in Seq(Texts \cup Binaries) /\ Len(<<>>) = 0
  BY EmptySeq
<1>6. <<r.body>> \in Whole
  BY <1>1 DEF Whole
<1>7. /\ Kept(<<r.body>>) \in Seq(Texts \cup Binaries) /\ Len(Kept(<<r.body>>)) <= 1
      /\ Kept(a.body) \in Seq(Texts \cup Binaries) /\ Len(Kept(a.body)) <= 1
  BY <1>2, <1>6, KeptBodies
<1>8. ASSUME NEW f \in Fields, f \notin Bodies PROVE d[f] \in Seq(Texts)
  <2>1. CASE f \notin RecordedIn
    <3>1. d[f] = <<>>
      BY <1>8, <2>1 DEF Holds
    <3> QED
      BY <1>5, <3>1
  <2>2. CASE f \in RecordedIn
    <3>1. d[f] \in {<<r.scheme>>, <<r.host>>, r.port, <<r.path>>, <<r.method>>, FirstHeaders(r),
                    r.query, a.status, a.headers, <<took>>, <<>>}
      BY <1>8, <2>2 DEF Holds, RecordedIn, Bodies
    <3> QED
      BY <1>1, <1>2, <1>3, <1>4, <1>5, <3>1
  <2> QED
    BY <2>1, <2>2
<1>9. ASSUME NEW f \in Bodies PROVE d[f] \in Seq(Texts \cup Binaries) /\ Len(d[f]) <= 1
  <2>1. d[f] \in {Kept(<<r.body>>), Kept(a.body)}
    BY DEF Holds, Bodies
  <2> QED
    BY <1>7, <2>1
<1>10. Seq(Texts) \subseteq Seq(Texts \cup Binaries)
  BY SeqMonotonic
<1>11. DOMAIN d = Fields /\ InFile \subseteq Fields
  BY DEF Holds, InFile
<1> QED
  BY <1>8, <1>9, <1>10, <1>11 DEF Typed, d

-------------------------------------------------------------------------------
\* The recording, the file and what has been loaded of it.

Exchanged ==
    {e \in [request: Requests, response: [status: Seq(Texts), headers: Seq(Texts), body: Whole]] :
        Arrived(e.response)}
Recorded(e, d) == \E took \in Durations : d = BuildMockDefinition(e.request, e.response, took)
Recordable == {BuildMockDefinition(e.request, e.response, took) : e \in Exchanged, took \in Durations}

\* The document for every exchange up to the export, if all can be converted.
Filed(ds, m) ==
    IF \A n \in 1..m : Convertible(ds[n]) THEN [n \in 1..m |-> ToFile(ds[n])] ELSE <<>>
Documents == [n \in DOMAIN file |-> FromFile(file[n])]

RecInv ==
    /\ exchanges \in Seq(Exchanged) /\ recording \in Seq(Recordable)
    /\ Len(recording) = Len(exchanges)
    /\ \A n \in 1..Len(exchanges) : Recorded(exchanges[n], recording[n])
    /\ exported \in 0..Len(exchanges) /\ file = Filed(recording, exported)
    /\ outcome \in {"none", "loaded", "refused"}
    /\ outcome # "none" =>
          /\ played = BeforeInvalid(Documents)
          /\ outcome = IF Documents # <<>> /\ played = Documents THEN "loaded" ELSE "refused"

LEMMA NothingFiled == \A ds : Filed(ds, 0) = <<>>
<1> SUFFICES ASSUME NEW ds PROVE Filed(ds, 0) = <<>>
  OBVIOUS
<1>1. 1..0 = {}
  OBVIOUS
<1>2. [n \in 1..0 |-> ToFile(ds[n])] = <<>>
  OBVIOUS
<1> QED
  BY <1>2 DEF Filed

LEMMA RecStart ==
    exchanges = <<>> /\ recording = <<>> /\ file = <<>> /\ exported = 0 /\ outcome = "none"
       => RecInv
<1> SUFFICES ASSUME exchanges = <<>>, recording = <<>>, file = <<>>, exported = 0,
                    outcome = "none"
             PROVE  RecInv
  OBVIOUS
<1>1. exchanges \in Seq(Exchanged) /\ recording \in Seq(Recordable) /\ Len(exchanges) = 0
  BY EmptySeq
<1> QED
  BY <1>1, NothingFiled DEF RecInv

LEMMA RecordKeeps ==
    ASSUME DefInv, RecInv, NEW r \in Requests, NEW took \in Durations, Record(r, took)
    PROVE  RecInv'
<1> DEFINE a == Delivered(Answer(definition))
           e == [request |-> r, response |-> a]
           d == BuildMockDefinition(r, a, took)
           m == Len(exchanges)
<1>1. Arrived(a)
  BY DefinitionAnswers, DeliveredArrives DEF Record
<1>2. e \in Exchanged /\ e.request = r /\ e.response = a
  BY <1>1 DEF Exchanged, Arrived
<1>3. d \in Recordable /\ Recorded(e, d)
  BY <1>2 DEF Recordable, Recorded
<1>4. /\ exchanges' = Append(exchanges, e) /\ recording' = Append(recording, d)
      /\ UNCHANGED <<file, exported, played, outcome>>
  BY DEF Record
<1> HIDE DEF a, e, d
<1>5. exchanges \in Seq(Exchanged) /\ recording \in Seq(Recordable) /\ Len(recording) = m /\ m \in Nat
  BY DEF RecInv
<1> HIDE DEF m
<1>6. /\ exchanges' \in Seq(Exchanged) /\ Len(exchanges') = m + 1 /\ exchanges'[m + 1] = e
      /\ \A n \in 1..m : exchanges'[n] = exchanges[n]
  BY <1>2, <1>4, <1>5, AppendProperties DEF m
<1>7. /\ recording' \in Seq(Recordable) /\ Len(recording') = m + 1 /\ recording'[m + 1] = d
      /\ \A n \in 1..m : recording'[n] = recording[n]
  BY <1>3, <1>4, <1>5, AppendProperties
<1>8. \A n \in 1..(m + 1) : Recorded(exchanges'[n], recording'[n])
  BY <1>3, <1>5, <1>6, <1>7, SMTT(30) DEF RecInv, m
<1>9. Filed(recording', exported) = Filed(recording, exported)
  <2>1. exported \in 0..m
    BY DEF RecInv, m
  <2>2. \A n \in 1..exported : recording'[n] = recording[n]
    BY <1>5, <1>7, <2>1
  <2> QED
    BY <2>2 DEF Filed
<1>10. exported' \in 0..(m + 1)
  BY <1>4, <1>5 DEF RecInv, m
<1> QED
  BY <1>4, <1>6, <1>7, <1>8, <1>9, <1>10 DEF RecInv, Documents

LEMMA RecNext == DefInv /\ RecInv /\ [Next]_vars => RecInv'
<1> SUFFICES ASSUME DefInv, RecInv, [Next]_vars PROVE RecInv'
  OBVIOUS
<1>1. ASSUME UNCHANGED recVars PROVE RecInv'
  BY <1>1 DEF RecInv, recVars, Documents
<1>2. ASSUME NEW method \in Methods, NEW v, Define(method, v) PROVE RecInv'
  BY <1>1, <1>2 DEF Define
<1>3. ASSUME NEW r \in Requests, NEW took \in Durations, Record(r, took) PROVE RecInv'
  BY <1>3, RecordKeeps
<1>4. CASE Export
  <2>1. /\ exchanges' = exchanges /\ recording' = recording /\ outcome' = "none"
        /\ exported' = Len(exchanges)
    BY <1>4 DEF Export
  <2>2. DOMAIN recording = 1..exported' /\ Len(exchanges) \in Nat
    BY <2>1 DEF RecInv
  <2>3. file' = Filed(recording, exported')
    BY <1>4, <2>2 DEF Export, Filed
  <2>4. exported' \in 0..Len(exchanges)
    BY <2>1, <2>2
  <2> QED
    BY <2>1, <2>3, <2>4 DEF RecInv
<1>5. CASE Load
  <2>1. /\ UNCHANGED <<exchanges, recording, file, exported>> /\ Documents' = Documents
        /\ played' = BeforeInvalid(Documents)
        /\ outcome' = IF Documents # <<>> /\ played' = Documents THEN "loaded" ELSE "refused"
    BY <1>5 DEF Load, Documents
  <2> QED
    BY <2>1 DEF RecInv
<1>6. CASE StartOver
  <2>1. (exchanges = <<>> /\ recording = <<>> /\ file = <<>> /\ exported = 0
           /\ outcome = "none")'
    BY <1>6 DEF StartOver
  <2>2. (exchanges = <<>> /\ recording = <<>> /\ file = <<>> /\ exported = 0
           /\ outcome = "none" => RecInv)'
    BY RecStart, PTL
  <2> QED
    BY <2>1, <2>2
<1>7. CASE UNCHANGED vars
  BY <1>1, <1>7 DEF vars
<1> QED
  BY <1>2, <1>3, <1>4, <1>5, <1>6, <1>7 DEF Next

LEMMA RecAlways == Spec => []RecInv
<1>1. Init => RecInv
  BY RecStart DEF Init, RecInit
<1> QED
  BY <1>1, DefAlways, RecNext, PTL DEF Spec

-------------------------------------------------------------------------------
\* What has been loaded.

\* The values a recording holds come back from the file, the method in upper case.
LEMMA RecordedAgain ==
    ASSUME RecInv, NEW n \in 1..Len(exchanges)
    PROVE  /\ exchanges[n] \in Exchanged
           /\ \E took \in Durations :
                 Holds(recording[n], exchanges[n].request, exchanges[n].response, took)
           /\ \A f \in RecordedIn \ {"method"} :
                 FromFile(ToFile(recording[n]))[f] = recording[n][f]
           /\ FromFile(ToFile(recording[n]))["method"] = <<Upper[exchanges[n].request.method]>>
           /\ \A f \in Fields \ InFile : FromFile(ToFile(recording[n]))[f] = <<>>
<1>1. exchanges[n] \in Exchanged
  BY DEF RecInv
<1>2. PICK took \in Durations :
         recording[n] = BuildMockDefinition(exchanges[n].request, exchanges[n].response, took)
  BY DEF RecInv, Recorded
<1>3. Arrived(exchanges[n].response) /\ exchanges[n].request \in Requests
  BY <1>1 DEF Exchanged
<1>4. Typed(recording[n])
  BY <1>2, <1>3, RecordedTyped
<1>5. Holds(recording[n], exchanges[n].request, exchanges[n].response, took)
  BY <1>2, RecordedWhat
<1>6. RecordedIn \subseteq InFile /\ "method" \in RecordedIn
  BY RecordedFields DEF RecordedIn
<1>7. ASSUME NEW f \in RecordedIn
      PROVE  FromFile(ToFile(recording[n]))[f] = Written(f, recording[n][f])
  <2>1. f \notin {"json_body", "json_body_not"}
    BY DEF RecordedIn
  <2> QED
    BY <1>4, <1>6, <2>1, FileKeeps DEF ReadAsNone
<1>8. \A f \in RecordedIn \ {"method"} : Written(f, recording[n][f]) = recording[n][f]
  BY DEF RecordedIn, Written, MethodMethods
<1>9. Written("method", recording[n]["method"]) = <<Upper[exchanges[n].request.method]>>
  <2>1. recording[n]["method"] = <<exchanges[n].request.method>>
    BY <1>5 DEF Holds
  <2>2. "method" \in MethodMethods
    BY DEF MethodMethods
  <2> QED
    BY <2>1, <2>2 DEF Written
<1>10. \A f \in Fields \ InFile : FromFile(ToFile(recording[n]))[f] = <<>>
  BY <1>4, FileKeeps
<1> QED
  BY <1>1, <1>5, <1>6, <1>7, <1>8, <1>9, <1>10

\* A recording can be converted when the format knows its method.
LEMMA ConvertibleWhen ==
    ASSUME RecInv, NEW n \in 1..Len(exchanges)
    PROVE  Convertible(recording[n]) <=> Upper[exchanges[n].request.method] \in KnownMethods
<1>1. "method_not" \in Fields \ RecordedIn
  <2>1. "method_not" \in Methods /\ FieldOf("method_not") = "method_not"
    BY FieldsOfMethods DEF Methods, WhenMethods, MethodMethods
  <2> QED
    BY <2>1 DEF Fields, RecordedIn
<1>2. recording[n]["method"] = <<exchanges[n].request.method>> /\ recording[n]["method_not"] = <<>>
  BY <1>1, RecordedAgain DEF Holds
<1>3. ToSet(<<exchanges[n].request.method>>) = {exchanges[n].request.method} /\ ToSet(<<>>) = {}
  BY DEF ToSet
<1> QED
  BY <1>2, <1>3 DEF Convertible

\* A mock that is refused has the body of a request that may not have one.
LEMMA ValidWhen ==
    ASSUME RecInv, NEW n \in 1..Len(exchanges)
    PROVE  Valid(FromFile(ToFile(recording[n]))) <=>
              ~(/\ Upper[exchanges[n].request.method] \in Bodyless
                /\ exchanges[n].request.body # Empty)
<1> DEFINE d == FromFile(ToFile(recording[n]))
           r == exchanges[n].request
<1>1. "body" \in RecordedIn \ {"method"}
  BY DEF RecordedIn
<1>2. d["method"] = <<Upper[r.method]>> /\ d["body"] = Kept(<<r.body>>)
  BY <1>1, RecordedAgain DEF Holds
<1>3. ToSet(<<Upper[r.method]>>) = {Upper[r.method]}
  BY DEF ToSet
<1>4. Kept(<<r.body>>) = <<>> <=> r.body = Empty
  BY DEF Kept
<1> HIDE DEF d, r
<1>5. Valid(d) <=> d["body"] = <<>> \/ ToSet(d["method"]) \cap Bodyless = {}
  BY DEF Valid
<1>6. Valid(d) <=> r.body = Empty \/ Upper[r.method] \notin Bodyless
  BY <1>2, <1>3, <1>4, <1>5
<1> QED
  BY <1>6 DEF d, r

Unknown == \E n \in 1..exported : Upper[exchanges[n].request.method] \notin KnownMethods
BodiesOfNone == {n \in 1..exported : /\ Upper[exchanges[n].request.method] \in Bodyless
                                     /\ exchanges[n].request.body # Empty}

LEMMA DocumentsAre ==
    ASSUME RecInv
    PROVE  /\ Unknown => Documents = <<>>
           /\ ~Unknown => Documents = [n \in 1..exported |-> FromFile(ToFile(recording[n]))]
<1> exported \in 0..Len(exchanges) /\ Len(exchanges) \in Nat
  BY DEF RecInv
<1>1. Unknown <=> ~ \A n \in 1..exported : Convertible(recording[n])
  BY ConvertibleWhen DEF Unknown
<1>2. CASE Unknown
  <2>1. file = <<>>
    BY <1>1, <1>2 DEF RecInv, Filed
  <2>2. DOMAIN file = {}
    BY <2>1
  <2>3. Documents = [n \in {} |-> FromFile(file[n])]
    BY <2>2 DEF Documents
  <2> QED
    BY <1>2, <2>3
<1>3. CASE ~Unknown
  <2>1. file = [n \in 1..exported |-> ToFile(recording[n])]
    BY <1>1, <1>3 DEF RecInv, Filed
  <2> QED
    BY <1>3, <2>1 DEF Documents
<1> QED
  BY <1>2, <1>3

\* Loading stops before the first mock that is refused.
LEMMA StopsBefore ==
    ASSUME RecInv, ~Unknown
    PROVE  /\ Len(Documents) = exported /\ exported \in Nat
           /\ BodiesOfNone = {} => BeforeInvalid(Documents) = Documents
           /\ BodiesOfNone # {} =>
                 /\ Min(BodiesOfNone) \in 1..exported
                 /\ Len(BeforeInvalid(Documents)) = Min(BodiesOfNone) - 1
<1> DEFINE docs == Documents
           stop == {n \in DOMAIN docs : ~Valid(docs[n])}
<1>1. exported \in 0..Len(exchanges) /\ Len(exchanges) \in Nat
  BY DEF RecInv
<1>2. docs = [n \in 1..exported |-> FromFile(ToFile(recording[n]))]
  BY DocumentsAre
<1>3. stop = BodiesOfNone
  <2>1. \A n \in 1..exported : n \in 1..Len(exchanges)
    BY <1>1
  <2>2. \A n \in 1..exported : Valid(docs[n]) <=>
           ~(/\ Upper[exchanges[n].request.method] \in Bodyless
             /\ exchanges[n].request.body # Empty)
    BY <1>2, <2>1, ValidWhen
  <2>3. DOMAIN docs = 1..exported
    BY <1>2
  <2> HIDE DEF docs
  <2> QED
    BY <2>2, <2>3 DEF BodiesOfNone
<1>4. BeforeInvalid(docs) = SubSeq(docs, 1, IF stop = {} THEN Len(docs) ELSE Min(stop) - 1)
  BY DEF BeforeInvalid
<1>5. docs \in Seq({FromFile(ToFile(recording[n])) : n \in 1..exported}) /\ Len(docs) = exported
  BY <1>1, <1>2
<1> HIDE DEF docs, stop
<1>6. CASE BodiesOfNone = {}
  <2>1. BeforeInvalid(docs) = SubSeq(docs, 1, Len(docs))
    BY <1>3, <1>4, <1>6
  <2> QED
    BY <1>1, <1>5, <1>6, <2>1, SubSeqFull DEF docs
<1>7. CASE BodiesOfNone # {}
  <2>1. BodiesOfNone \in SUBSET Nat /\ BodiesOfNone \subseteq 1..exported
    BY <1>1 DEF BodiesOfNone
  <2>2. PICK n \in BodiesOfNone : \A k \in BodiesOfNone : n <= k
    BY <1>7, <2>1, LeastExists
  <2>3. Min(BodiesOfNone) \in BodiesOfNone
    BY <2>2 DEF Min
  <2> DEFINE m == Min(BodiesOfNone)
  <2>4. m \in 1..exported
    BY <2>1, <2>3
  <2>5. BeforeInvalid(docs) = SubSeq(docs, 1, m - 1)
    BY <1>3, <1>4, <1>7
  <2> HIDE DEF m
  <2>6. Len(SubSeq(docs, 1, m - 1)) = m - 1
    BY <1>1, <1>5, <2>4
  <2> QED
    BY <1>1, <1>5, <1>7, <2>4, <2>5, <2>6 DEF docs, m
<1> QED
  BY <1>6, <1>7

LEMMA RefusedInv == RecInv => RefusedForCause
<1> SUFFICES ASSUME RecInv, outcome # "none"
             PROVE  /\ outcome = "refused" <=> exported = 0 \/ Unknown \/ BodiesOfNone # {}
                    /\ ~Unknown => Len(played) = IF BodiesOfNone = {} THEN exported
                                                 ELSE Min(BodiesOfNone) - 1
  BY DEF RefusedForCause, Unknown, BodiesOfNone
<1>1. /\ played = BeforeInvalid(Documents)
      /\ outcome = IF Documents # <<>> /\ played = Documents THEN "loaded" ELSE "refused"
  BY DEF RecInv
<1>2. CASE Unknown
  BY <1>1, <1>2, DocumentsAre
<1>3. CASE ~Unknown
  <2>1. /\ Len(Documents) = exported /\ exported \in Nat
        /\ BodiesOfNone = {} => BeforeInvalid(Documents) = Documents
        /\ BodiesOfNone # {} =>
              /\ Min(BodiesOfNone) \in 1..exported
              /\ Len(BeforeInvalid(Documents)) = Min(BodiesOfNone) - 1
    BY <1>3, StopsBefore
  <2>2. Documents = <<>> <=> exported = 0
    <3>1. Documents = [n \in 1..exported |-> FromFile(ToFile(recording[n]))]
      BY <1>3, DocumentsAre
    <3> QED
      BY <2>1, <3>1
  <2>3. CASE BodiesOfNone = {}
    BY <1>1, <1>3, <2>1, <2>2, <2>3
  <2>4. CASE BodiesOfNone # {}
    <3>1. played # Documents
      <4> DEFINE m == Min(BodiesOfNone)
      <4> HIDE DEF m
      <4>1. m \in 1..exported /\ Len(played) = m - 1 /\ Len(Documents) = exported
        BY <1>1, <2>1, <2>4 DEF m
      <4>2. Len(played) # Len(Documents)
        BY <2>1, <4>1
      <4> QED
        BY <4>2
    <3> QED
      BY <1>1, <1>3, <2>1, <2>4, <3>1
  <2> QED
    BY <2>3, <2>4
<1> QED
  BY <1>2, <1>3

\* RefusedForCause for any number of exchanges (export_recording,
\* load_mocks_from_recording and validate_request_requirements in src/src/server/state.rs,
\* the documents of src/src/server/persistence.rs): loading fails on what a mock may not
\* be, on nothing else, and keeps what comes before it.
THEOREM LoadingFailsForCause == Spec => []RefusedForCause
BY RecAlways, RefusedInv, PTL

-------------------------------------------------------------------------------
\* What the other server answers.

CoversHeaders(q, r) ==
    \A i \in DOMAIN q.headers :
        NameOf[q.headers[i]] \in ToSet(RecordHeaders) =>
           \/ q.headers[i] \in ToSet(r.headers)
           \/ \E j \in 1..(i - 1) : NameOf[q.headers[j]] = NameOf[q.headers[i]]

LEMMA HeadersAccepted ==
    ASSUME NEW q \in Requests, NEW r
    PROVE  ToSet(FirstHeaders(q)) \subseteq ToSet(r.headers) <=> CoversHeaders(q, r)
<1> DEFINE kept == ToSet(FirstHeaders(q))
           offered == ToSet(r.headers)
<1>1. \A h : h \in kept <=>
           \E i \in DOMAIN q.headers :
              /\ h = q.headers[i] /\ NameOf[h] \in ToSet(RecordHeaders)
              /\ \A j \in 1..(i - 1) : NameOf[q.headers[j]] # NameOf[h]
  BY HeadersKept
<1> HIDE DEF kept, offered
<1>2. ASSUME kept \subseteq offered, NEW i \in DOMAIN q.headers,
             NameOf[q.headers[i]] \in ToSet(RecordHeaders),
             \A j \in 1..(i - 1) : NameOf[q.headers[j]] # NameOf[q.headers[i]]
      PROVE  q.headers[i] \in offered
  BY <1>1, <1>2
<1>3. ASSUME \A i \in DOMAIN q.headers :
                NameOf[q.headers[i]] \in ToSet(RecordHeaders) =>
                   \/ q.headers[i] \in offered
                   \/ \E j \in 1..(i - 1) : NameOf[q.headers[j]] = NameOf[q.headers[i]],
             NEW h \in kept
      PROVE  h \in offered
  <2>1. PICK i \in DOMAIN q.headers :
              /\ h = q.headers[i] /\ NameOf[h] \in ToSet(RecordHeaders)
              /\ \A j \in 1..(i - 1) : NameOf[q.headers[j]] # NameOf[h]
    BY <1>1
  <2> QED
    BY <1>3, <2>1
<1>4. CoversHeaders(q, r) <=>
         \A i \in DOMAIN q.headers :
            NameOf[q.headers[i]] \in ToSet(RecordHeaders) =>
               \/ q.headers[i] \in offered
               \/ \E j \in 1..(i - 1) : NameOf[q.headers[j]] = NameOf[q.headers[i]]
  BY DEF CoversHeaders, offered
<1>5. kept \subseteq offered => CoversHeaders(q, r)
  BY <1>2, <1>4
<1>6. CoversHeaders(q, r) => kept \subseteq offered
  BY <1>3, <1>4
<1> QED
  BY <1>5, <1>6 DEF kept, offered

LEMMA SingleValue == (\A v : ToSet(<<v>>) = {v}) /\ ToSet(<<>>) = {}
BY DEF ToSet

\* The mock of an exchange answers what the exchange covers.
LEMMA AcceptsWhen ==
    ASSUME RecInv, NEW n \in 1..Len(exchanges), NEW r \in Requests, r.host \notin Literals
    PROVE  AcceptsRequest(FromFile(ToFile(recording[n])), r) <=> Covers(exchanges[n], r)
<1> DEFINE d == FromFile(ToFile(recording[n]))
           q == exchanges[n].request
<1>1. q \in Requests
  BY RecordedAgain DEF Exchanged
<1>2. {"scheme", "host", "port", "path", "header", "body", "query_param"}
         \subseteq RecordedIn \ {"method"}
  BY DEF RecordedIn
<1>3. /\ d["scheme"] = IF q.proxied THEN <<q.scheme>> ELSE <<>>
      /\ d["host"] = IF q.proxied THEN <<q.host>> ELSE <<>>
      /\ d["port"] = IF q.proxied THEN q.port ELSE <<>>
      /\ d["path"] = <<q.path>> /\ d["method"] = <<Upper[q.method]>>
      /\ d["header"] = FirstHeaders(q) /\ d["body"] = Kept(<<q.body>>)
      /\ d["query_param"] = q.query
  BY <1>2, RecordedAgain, ZenonT(30) DEF Holds
<1> HIDE DEF d
<1>4. HostRead(r) = r.host
  BY DEF HostRead
<1> USE SingleValue
<1>5. (\A scheme \in ToSet(d["scheme"]) : SameText(scheme, r.scheme))
         <=> (q.proxied => SameText(q.scheme, r.scheme))
  BY <1>3
<1>6. (\A host \in ToSet(d["host"]) : SameHost(host, HostRead(r)))
         <=> (q.proxied => SameHost(q.host, r.host))
  BY <1>3, <1>4
<1>7. d["port"] \in {<<>>, PortRead(r)} <=> (q.proxied => q.port \in {<<>>, PortRead(r)})
  BY <1>3
<1>8. /\ d["path"] \in {<<>>, <<r.path>>} <=> q.path = r.path
      /\ (\A method \in ToSet(d["method"]) : SameText(method, r.method))
            <=> SameText(q.method, r.method)
  <2>1. SameText(Upper[q.method], r.method) <=> SameText(q.method, r.method)
    BY <1>1, RecordingAssumption DEF SameText
  <2> QED
    BY <1>3, <2>1
<1>9. d["body"] \in {<<>>, <<r.body>>} <=> q.body \in {Empty, r.body}
  BY <1>3 DEF Kept
<1>10. AcceptsHeaders(d, r) <=> CoversHeaders(q, r)
  BY <1>1, <1>3, HeadersAccepted DEF AcceptsHeaders
<1>11. AcceptsQuery(d, r) <=> ToSet(q.query) \subseteq ToSet(r.query)
  BY <1>3 DEF AcceptsQuery
<1>12. AcceptsRequest(d, r) <=>
          /\ \A scheme \in ToSet(d["scheme"]) : SameText(scheme, r.scheme)
          /\ \A method \in ToSet(d["method"]) : SameText(method, r.method)
          /\ \A host \in ToSet(d["host"]) : SameHost(host, HostRead(r))
          /\ d["port"] \in {<<>>, PortRead(r)} /\ d["path"] \in {<<>>, <<r.path>>}
          /\ d["body"] \in {<<>>, <<r.body>>}
          /\ AcceptsHeaders(d, r) /\ AcceptsQuery(d, r)
  BY DEF AcceptsRequest
<1>13. Covers(exchanges[n], r) <=>
          /\ SameText(q.method, r.method) /\ q.path = r.path
          /\ ToSet(q.query) \subseteq ToSet(r.query)
          /\ q.body \in {Empty, r.body} /\ CoversHeaders(q, r)
          /\ q.proxied => /\ SameText(q.scheme, r.scheme) /\ SameHost(q.host, r.host)
                          /\ q.port \in {<<>>, PortRead(r)}
  BY DEF Covers, CoversHeaders
<1> HIDE DEF q
<1>14. AcceptsRequest(d, r) <=> Covers(exchanges[n], r)
  BY <1>5, <1>6, <1>7, <1>8, <1>9, <1>10, <1>11, <1>12, <1>13, Zenon
<1> QED
  BY <1>14 DEF d

\* It answers with what was recorded.
LEMMA AnswersAgain ==
    ASSUME RecInv, NEW n \in 1..Len(exchanges)
    PROVE  Delivered(Answer(FromFile(ToFile(recording[n])))) = exchanges[n].response
<1> DEFINE d == FromFile(ToFile(recording[n]))
           a == exchanges[n].response
<1>1. /\ a \in [status: Seq(Texts), headers: Seq(Texts), body: Whole]
      /\ a.status # <<>> /\ Contiguous(a.headers)
  BY RecordedAgain DEF Exchanged, Arrived
<1>2. {"then.status", "then.header", "then.body"} \subseteq RecordedIn \ {"method"}
  BY DEF RecordedIn
<1>3. /\ d["then.status"] = a.status /\ d["then.header"] = a.headers
      /\ d["then.body"] = Kept(a.body)
  BY <1>2, RecordedAgain DEF Holds
<1>4. d["then.respond_with"] = <<>>
  <2>1. "then.respond_with" \in Fields \ InFile
    BY Responding DEF InFile, Skipped
  <2> QED
    BY <2>1, RecordedAgain
<1> HIDE DEF d
<1>5. Answer(d) = [status |-> a.status, headers |-> a.headers, body |-> Kept(a.body)]
  BY <1>1, <1>3, <1>4 DEF Answer
<1>6. Grouped(a.headers) = a.headers
  BY <1>1, GroupedAgain
<1>7. (IF Kept(a.body) = <<>> THEN <<Empty>> ELSE Kept(a.body)) = a.body
  <2>1. \A body \in Whole : body # <<>>
    BY DEF Whole
  <2>2. a.body \in Whole
    BY <1>1
  <2> QED
    BY <2>1, <2>2 DEF Kept
<1>8. Delivered(Answer(d)) = [status |-> a.status, headers |-> a.headers, body |-> a.body]
  BY <1>5, <1>6, <1>7 DEF Delivered
<1>9. a = [status |-> a.status, headers |-> a.headers, body |-> a.body]
  BY <1>1
<1> QED
  BY <1>8, <1>9 DEF d

LEMMA PlayedInv == RecInv => PlayedBack
<1> SUFFICES ASSUME RecInv, outcome = "loaded", NEW n \in 1..exported,
                    exchanges[n].request.host \notin Literals
             PROVE  LET r == exchanges[n].request
                    IN  /\ Answering(r) # {}
                        /\ Playback(r) =
                              exchanges[Min({k \in 1..n : Covers(exchanges[k], r)})].response
  BY DEF PlayedBack
<1> DEFINE r == exchanges[n].request
           covering == {k \in 1..n : Covers(exchanges[k], r)}
<1>1. exported \in Nat /\ \A k \in 1..exported : k \in 1..Len(exchanges)
  BY DEF RecInv
<1>2. played = [k \in 1..exported |-> FromFile(ToFile(recording[k]))]
  <2>1. played = Documents /\ Documents # <<>>
    BY DEF RecInv
  <2> QED
    BY <2>1, DocumentsAre
<1>3. r \in Requests
  BY <1>1, RecordedAgain DEF Exchanged
<1>4. Answering(r) = {k \in 1..exported : Covers(exchanges[k], r)}
  <2>1. DOMAIN played = 1..exported
    BY <1>2
  <2>2. \A k \in 1..exported : AcceptsRequest(played[k], r) <=> Covers(exchanges[k], r)
    BY <1>1, <1>2, <1>3, AcceptsWhen
  <2> QED
    BY <2>1, <2>2 DEF Answering
<1>5. Covers(exchanges[n], r)
  <2>1. \A i \in DOMAIN r.headers : r.headers[i] \in ToSet(r.headers)
    BY DEF ToSet
  <2>2. r.port \in {<<>>, PortRead(r)}
    BY DEF PortRead
  <2> QED
    BY <2>1, <2>2 DEF Covers, SameText, SameHost
<1>6. n \in covering /\ covering \subseteq Answering(r) /\ covering \in SUBSET Nat
  BY <1>1, <1>4, <1>5
<1>7. \A k \in Answering(r) : k \in covering \/ n < k
  BY <1>1, <1>4
<1> HIDE DEF covering
<1>8. PICK m \in covering : \A k \in covering : m <= k
  BY <1>6, LeastExists
<1>9. m \in Nat /\ n \in Nat /\ m <= n /\ Answering(r) \in SUBSET Nat
  BY <1>1, <1>4, <1>6, <1>8
<1>10. \A k \in Answering(r) : m <= k
  BY <1>7, <1>8, <1>9
<1>11. Min(covering) = m
  <2> DEFINE l == Min(covering)
  <2>1. l \in covering /\ \A k \in covering : l <= k
    BY <1>8 DEF Min
  <2> HIDE DEF l
  <2>2. l <= m /\ m <= l /\ l \in Nat
    BY <1>6, <1>8, <2>1
  <2>3. l = m
    BY <1>9, <2>2
  <2> QED
    BY <2>3 DEF l
<1>12. Min(Answering(r)) = m
  <2>1. m \in Answering(r)
    BY <1>6, <1>8
  <2> DEFINE A == Answering(r)
  <2> HIDE DEF A
  <2>2. Min(A) \in A /\ \A k \in A : Min(A) <= k
    BY <1>10, <2>1 DEF Min, A
  <2> QED
    BY <1>9, <1>10, <2>1, <2>2 DEF A
<1>13. m \in 1..exported /\ m \in 1..Len(exchanges)
  BY <1>1, <1>4, <1>6, <1>8
<1>14. Playback(r) = exchanges[m].response
  BY <1>2, <1>12, <1>13, AnswersAgain DEF Playback, FirstMock
<1>15. Answering(r) # {} /\ Playback(r) = exchanges[Min(covering)].response
  BY <1>6, <1>11, <1>14
<1> QED
  BY <1>15 DEF covering

\* PlayedBack for any number of exchanges, headers, parameters and values
\* (build_mock_definition in src/src/server/state.rs, the file of
\* src/src/server/persistence.rs, the matchers and serve_mock): what was recorded is
\* answered as it was, where two exchanges that differ in the case of their method,
\* scheme or host only, or in the name of this machine, are one to the matchers.
THEOREM RecordingsPlayBack == Spec => []PlayedBack
BY RecAlways, PlayedInv, PTL

===============================================================================
