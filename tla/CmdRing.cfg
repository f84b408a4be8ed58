SPECIFICATION Spec
CONSTANTS
    Callers = {c1, c2, c3}
    Len = 2
    NoCaller = NoCaller
INVARIANTS OneCommandPerCall InOrder SleeperIsWoken
PROPERTIES AcceptedAnswered
