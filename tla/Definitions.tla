------------------------------ MODULE Definitions ------------------------------
(***************************************************************************)
(* How a mock is put into words: the calls of When and Then that a test    *)
(* chains (src/src/api/spec.rs), the definition they leave behind, and the *)
(* two forms in which it travels (src/src/common/data.rs): as JSON to a    *)
(* remote server, and as YAML in a file of static mocks or of a recording. *)
(*                                                                         *)
(* A definition maps every field of RequestRequirements, and those of the  *)
(* response, to the values it holds, none if it is absent.  A pair, a      *)
(* regular expression or a number is one value here; what tells values     *)
(* apart is whether they are text, bytes that are no text, or functions.   *)
(***************************************************************************)
EXTENDS SequencesExt, Selections

CONSTANTS
    Texts,        \* values that are valid UTF-8
    Words,        \* those that calls are given (a bound of the model)
    Binaries,     \* bodies that are not
    Functions,    \* given to is_true, is_false and respond_with
    Null,         \* the JSON value null
    KnownMethods, \* the names of the nine methods of the enum Method
    Upper,        \* a text in upper case
    MaxCalls      \* bound of the model: calls that are chained

ASSUME DefinitionAssumption ==
    /\ Texts \cap Binaries = {} /\ Functions \cap (Texts \cup Binaries) = {}
    /\ KnownMethods \subseteq Texts /\ Words \subseteq Texts /\ Null \in Texts \ Words
    /\ Upper \in [Texts -> Texts] /\ \A m \in KnownMethods : Upper[m] = m
    /\ MaxCalls \in Nat

VARIABLES
    definition,   \* field -> the values it holds
    calls         \* auxiliary: the calls so far, as <<method, value>>

-------------------------------------------------------------------------------
\* The methods of When, family by family.  "matches" and "json_body_obj" are other
\* ways to call is_true and json_body, any_request calls nothing, and passes the
\* definition through a function that calls these.

SchemeMethods == {"scheme", "scheme_not"}
MethodMethods == {"method", "method_not"}
HostMethods ==
    {"host", "host_not", "host_includes", "host_excludes", "host_prefix", "host_suffix",
     "host_prefix_not", "host_suffix_not", "host_matches"}
PortMethods == {"port", "port_not"}
PathMethods ==
    {"path", "path_not", "path_includes", "path_excludes", "path_prefix", "path_suffix",
     "path_prefix_not", "path_suffix_not", "path_matches"}
QueryMethods ==
    {"query_param", "query_param_not", "query_param_exists", "query_param_missing",
     "query_param_includes", "query_param_excludes", "query_param_prefix", "query_param_suffix",
     "query_param_prefix_not", "query_param_suffix_not", "query_param_matches",
     "query_param_count"}
HeaderMethods ==
    {"header", "header_not", "header_exists", "header_missing", "header_includes",
     "header_excludes", "header_prefix", "header_suffix", "header_prefix_not",
     "header_suffix_not", "header_matches", "header_count"}
CookieMethods ==
    {"cookie", "cookie_not", "cookie_exists", "cookie_missing", "cookie_includes",
     "cookie_excludes", "cookie_prefix", "cookie_suffix", "cookie_prefix_not",
     "cookie_suffix_not", "cookie_matches", "cookie_count"}
BodyMethods ==
    {"body", "body_not", "body_includes", "body_excludes", "body_prefix", "body_suffix",
     "body_prefix_not", "body_suffix_not", "body_matches"}
JsonMethods == {"json_body", "json_body_includes", "json_body_excludes"}
FormMethods ==
    {"form_urlencoded_tuple", "form_urlencoded_tuple_not", "form_urlencoded_tuple_exists",
     "form_urlencoded_tuple_missing", "form_urlencoded_tuple_includes",
     "form_urlencoded_tuple_excludes", "form_urlencoded_tuple_prefix",
     "form_urlencoded_tuple_prefix_not", "form_urlencoded_tuple_suffix",
     "form_urlencoded_tuple_suffix_not", "form_urlencoded_tuple_matches",
     "form_urlencoded_tuple_count"}
FunctionMethods == {"is_true", "is_false"}

WhenMethods ==
    SchemeMethods \cup MethodMethods \cup HostMethods \cup PortMethods \cup PathMethods
      \cup QueryMethods \cup HeaderMethods \cup CookieMethods \cup BodyMethods
      \cup JsonMethods \cup FormMethods \cup FunctionMethods
ThenMethods ==
    {"then.status", "then.body", "then.body_from_file", "then.json_body", "then.header",
     "then.delay", "then.respond_with"}
Methods == WhenMethods \cup ThenMethods

\* RequestRequirements and MockServerHttpResponse: most fields are called like the
\* method that fills them.
SwappedField(method) ==       \* wrong: prefix and suffix mixed up in one place
    CASE method = "host_includes" -> "host_contains"
      [] method = "header_prefix_not" -> "header_suffix_not"
      [] method = "header_suffix_not" -> "header_prefix_not"
      [] method \in {"then.body_from_file", "then.json_body"} -> "then.body"
      [] OTHER -> method
FieldOf(method) ==
    CASE method = "host_includes" -> "host_contains"
      [] method \in {"then.body_from_file", "then.json_body"} -> "then.body"
      [] OTHER -> method
Fields == {FieldOf(method) : method \in Methods} \cup {"json_body_not"}
Skipped == FunctionMethods \cup {"then.respond_with"}     \* serde(skip)

\* What a call may be given: When takes bodies as strings, Then as bytes.
Values == Words \cup {Null} \cup Binaries \cup Functions
ValuesOf(method) ==
    CASE method \in Skipped -> Functions
      [] method \in JsonMethods -> Words \cup {Null}
      [] method \in {"then.body", "then.body_from_file"} -> Words \cup Binaries
      [] method \in MethodMethods -> KnownMethods
      [] OTHER -> Words

Nothing == [f \in Fields |-> <<>>]
DefInit ==
    /\ definition = Nothing
    /\ calls = <<>>

\* A method either replaces what its field holds, or adds to it (push_to).
Replacing ==
    {"scheme", "scheme_not", "method", "host", "port", "path", "body", "json_body",
     "then.status", "then.body", "then.body_from_file", "then.json_body", "then.delay",
     "then.respond_with"}

Replace(method, v) ==
    /\ method \in Replacing
    /\ definition' = [definition EXCEPT ![FieldOf(method)] = <<v>>]

Push(method, v) ==
    /\ method \notin Replacing
    /\ definition' = [definition EXCEPT ![FieldOf(method)] = Append(@, v)]

Call(method, v) ==
    /\ Len(calls) < MaxCalls
    /\ Replace(method, v) \/ Push(method, v)
    /\ calls' = Append(calls, <<method, v>>)

-------------------------------------------------------------------------------
\* An Option<Value> that holds null is written as null, which is read as None; in a
\* Vec<Value>, null stays.
ReadAsNone(f, values) == f \in {"json_body", "json_body_not"} /\ values = <<Null>>

\* The JSON form: fields that serde skips are not there.
OverTheWire(d) ==
    [f \in Fields |-> IF f \in Skipped \/ ReadAsNone(f, d[f]) THEN <<>> ELSE d[f]]

\* The YAML form: a set of entries, each a key with its values, as text or in
\* base64.  Fields that are absent have no entry, and most keys are called like
\* their field.
InFile == Fields \ Skipped
Renamed ==
    [path_includes |-> "path_contains", query_param_includes |-> "query_param_contains",
     header_includes |-> "header_contains", cookie_includes |-> "cookie_contains",
     body_includes |-> "body_contains",
     form_urlencoded_tuple_exists |-> "form_urlencoded_key_exists",
     form_urlencoded_tuple_missing |-> "form_urlencoded_key_missing",
     form_urlencoded_tuple_includes |-> "form_urlencoded_contains",
     form_urlencoded_tuple_excludes |-> "form_urlencoded_excludes",
     form_urlencoded_tuple_prefix |-> "form_urlencoded_prefix",
     form_urlencoded_tuple_suffix |-> "form_urlencoded_suffix",
     form_urlencoded_tuple_prefix_not |-> "form_urlencoded_prefix_not",
     form_urlencoded_tuple_suffix_not |-> "form_urlencoded_suffix_not",
     form_urlencoded_tuple_matches |-> "form_urlencoded_matches",
     form_urlencoded_tuple_count |-> "form_urlencoded_count"]
KeyOf(f) == IF f \in DOMAIN Renamed THEN Renamed[f] ELSE f

Entry(key, base64, values) == [key |-> key, base64 |-> base64, values |-> values]

\* from_bytes_to_string, bytes_to_string_vec: what is text is written as text.
AlwaysText(f, values) ==      \* wrong: bytes that are no text are left out
    {Entry(KeyOf(f), FALSE, Selected(values, Texts))}
EntriesFor(f, values) ==
    {Entry(KeyOf(f), FALSE, Selected(values, Texts)),
     Entry(KeyOf(f), TRUE, Selected(values, Binaries))}

\* Method::from_str: case does not matter, and a method that the format does not know
\* fails the conversion.
Convertible(d) ==
    \A m \in ToSet(d["method"]) \cup ToSet(d["method_not"]) : Upper[m] \in KnownMethods
Written(f, values) ==
    IF f \in MethodMethods THEN [n \in DOMAIN values |-> Upper[values[n]]] ELSE values
ToFile(d) ==
    LET present == {f \in InFile : d[f] # <<>>}
    IN  {e \in UNION {EntriesFor(f, Written(f, d[f])) : f \in present} : e.values # <<>>}

ReadAs ==
    [path_contains |-> "path_includes", query_param_contains |-> "query_param_includes",
     header_contains |-> "header_includes", cookie_contains |-> "cookie_includes",
     body_contains |-> "body_includes",
     form_urlencoded_key_exists |-> "form_urlencoded_tuple_exists",
     form_urlencoded_key_missing |-> "form_urlencoded_tuple_missing",
     form_urlencoded_contains |-> "form_urlencoded_tuple_includes",
     form_urlencoded_excludes |-> "form_urlencoded_tuple_excludes",
     form_urlencoded_prefix |-> "form_urlencoded_tuple_prefix",
     form_urlencoded_suffix |-> "form_urlencoded_tuple_suffix",
     form_urlencoded_prefix_not |-> "form_urlencoded_tuple_prefix_not",
     form_urlencoded_suffix_not |-> "form_urlencoded_tuple_suffix_not",
     form_urlencoded_matches |-> "form_urlencoded_tuple_matches",
     form_urlencoded_count |-> "form_urlencoded_tuple_count"]
FieldReadFrom(key) == IF key \in DOMAIN ReadAs THEN ReadAs[key] ELSE key

\* to_bytes_vec puts the two kinds of values behind one another; of a body there may
\* only be one (from_string_to_bytes_choose).
Listed(file, f, base64) ==
    LET entries == {e \in file : FieldReadFrom(e.key) = f /\ e.base64 = base64}
    IN  IF entries = {} THEN <<>> ELSE (CHOOSE e \in entries : TRUE).values
FromFile(file) ==
    LET present == {FieldReadFrom(e.key) : e \in file} \ Skipped
        Content(f) == LET text == Listed(file, f, FALSE)
                          bytes == Listed(file, f, TRUE)
                      IN  IF \/ f \in {"body", "then.body"} /\ text # <<>> /\ bytes # <<>>
                             \/ ReadAsNone(f, text)
                          THEN <<>> ELSE text \o bytes
    IN  [f \in Fields |-> IF f \in present THEN Content(f) ELSE <<>>]

-------------------------------------------------------------------------------
\* The server: the field behind the matcher of a condition, and behind what
\* serve_mock takes for the response.
ReadBy(aspect) == IF aspect = "host_includes" THEN "host_contains" ELSE aspect

\* What a test says with a call, whichever of its forms it uses.
Means(method) ==
    IF method \in {"then.body_from_file", "then.json_body"} THEN "then.body" ELSE method
Aspects == {Means(method) : method \in Methods}
Said == {Means(calls[n][1]) : n \in DOMAIN calls}
CallsFor(aspect) == {method \in Methods : Means(method) = aspect} \X Values

\* What can be said only once: the fields that are declared Option<T> of something that
\* is no Vec, whatever the methods do with them.
Single ==
    {"scheme", "scheme_not", "host", "port", "method", "path", "body", "json_body",
     "json_body_not", "then.status", "then.body", "then.delay", "then.respond_with"}
Told(aspect) ==
    LET values == Selected(calls, CallsFor(aspect))
        n == Len(values)
    IN  IF ReadBy(aspect) \in Single /\ n > 0 THEN <<values[n][2]>>
        ELSE [i \in 1..n |-> values[i][2]]
SaysNull(aspect, told) == aspect = "json_body" /\ told = <<Null>>
-------------------------------------------------------------------------------
\* Each matcher of the server, and the response, reads what the calls of the method
\* it is for were given, all of it and in its order, or the last of what can be said
\* only once; also on a remote server, save for functions, which do not travel, and a
\* JSON body that is to be null, which gets lost.
ReadsWhatWasCalled ==
    LET said == Said
        remote == OverTheWire(definition)
    IN  \A aspect \in Aspects :
            LET told == IF aspect \in said THEN Told(aspect) ELSE <<>>
            IN  /\ definition[ReadBy(aspect)] = told
                /\ aspect \notin Skipped /\ ~SaysNull(aspect, told) =>
                      remote[ReadBy(aspect)] = told

\* A definition that is written to a file and read again says the same, whatever it
\* is about, except for its functions and a JSON body that is to be null.
FileKeepsDefinition ==
    LET read == FromFile(ToFile(definition))
    IN  \A f \in InFile : SaysNull(f, definition[f]) \/ read[f] = definition[f]

===============================================================================
