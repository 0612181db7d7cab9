\* Files of one or two commands, well-formed or not.
CONSTANTS
    n1 = n1
    None = None
    Untokenizable = Untokenizable
    Names <- MCNames
    Files <- MCInputs

SPECIFICATION Spec
INVARIANT MalformedLocateIgnored

\* parse_lpf returns, or raises, and the program goes on or stops
CHECK_DEADLOCK FALSE
