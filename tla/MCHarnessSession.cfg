CONSTANTS
    Session = {s1, s2, x1}
    Engine <- MCEngine
    Faults = {"term", "kill", "hang"}
    None = None
    s1 = s1
    s2 = s2
    x1 = x1
SPECIFICATION FairSpec
INVARIANTS
    HarnessOwnsItsHome
    SignalsLeaveNoOrphan
PROPERTIES
    OperatorKeepsCredential
    SignalEndsSession
