SPECIFICATION Spec
CONSTANTS
    a = a  A = A  b = b  text = text  blank = blank  caps = caps  nothing = nothing
    Words <- MCWords
    Names <- MCNames
    Lower <- MCLower
    Loopback <- MCLoopback
    Patterns = {text, blank, caps, nothing}
    Language <- MCLanguage
    LowerPattern <- MCLowerPattern
    Unmatched <- MCUnmatched
    TextLength <- MCTextLength
    NoValue = NoValue
    MaxPairs = 2
INVARIANTS
    PrefixNotAcceptsOthers
