\* One operation and two requests on it.
CONSTANTS
    Requests = {r1, r2}
    Sources = {s1}
    NoKey = NoKey
    MAX_CREATE_ATTEMPTS = 2
    MaxOperations = 1
    MaxVersion = 5
    MaxEvents = 3
\* With its bounds used up and nothing in flight, the system is at rest.
CHECK_DEADLOCK FALSE
SPECIFICATION Spec
SYMMETRY RequestSymmetry
INVARIANTS
    TypeOK
    TimelineTellsTheStory
PROPERTIES
    HandlersAreAtomic
