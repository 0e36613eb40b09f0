\* Three operations of one source, or of none, created by two requests while
\* earlier ones end or are deleted.
CONSTANTS
    Requests = {r1, r2}
    Sources = {s1}
    NoKey = NoKey
    MAX_CREATE_ATTEMPTS = 2
    MaxOperations = 3
    MaxVersion = 2
    MaxEvents = 0
\* With its bounds used up and nothing in flight, the system is at rest.
CHECK_DEADLOCK FALSE
SPECIFICATION Spec
SYMMETRY RequestSymmetry
INVARIANTS
    OneActivePerSource
    KeyHeldWhileActive
    ExhaustedOnlyWhenRaced
