\* A write and a second one, which may be the first one's handler; one fault.

SPECIFICATION Spec
CONSTANTS
    Unset = Unset
    r1 = r1
    r2 = r2
    Requests = {r1, r2}
    Cases <- MCCases
    MaxFaults = 1
INVARIANTS
    PreflightChangesNothing
PROPERTIES
    AnswersAreTrue
    EveryWriteIsTold
\* When both requests are made and answered, nothing happens.
CHECK_DEADLOCK FALSE
