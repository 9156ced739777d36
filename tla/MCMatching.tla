------------------------------ MODULE MCMatching ------------------------------
(***************************************************************************)
(* Matching and the distances, with words over two letters, one of them in *)
(* both cases.                                                             *)
(***************************************************************************)
EXTENDS Distances, TLC

CONSTANTS a, A, b, text, blank, caps, nothing

MCLower == a :> a @@ A :> a @@ b :> b
MCNames == {<<>>, <<a>>, <<A>>, <<b>>}
MCWords == {<<>>, <<a>>, <<A>>, <<b>>, <<a, b>>, <<A, b>>, <<b, a>>, <<a, a>>, <<a, b, a>>}
MCLoopback == {<<a, b>>, <<b, a>>}

\* \S, whose text in lower case is \s and matches none of the words, [[:upper:]],
\* and the empty pattern.
MCLanguage == text :> MCWords \ {<<>>} @@ blank :> {} @@ caps :> {<<A>>, <<A, b>>}
                 @@ nothing :> MCWords
MCUnmatched == text :> [w \in MCWords |-> 0]
                 @@ blank :> [w \in MCWords |-> Len(w)] @@ nothing :> [w \in MCWords |-> Len(w)]
                 @@ caps :> [w \in MCWords |-> IF w = <<A>> THEN 0 ELSE IF w = <<A, b>> THEN 1 ELSE Len(w)]
MCTextLength == text :> 2 @@ blank :> 2 @@ caps :> 11 @@ nothing :> 0
MCLowerPattern == text :> blank @@ blank :> blank @@ caps :> caps @@ nothing :> nothing
===============================================================================
