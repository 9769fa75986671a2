SPECIFICATION MovesSpec
CONSTANTS
    c1 = c1  c2 = c2  c3 = c3  k1 = k1  k2 = k2
    s1 = s1  s2 = s2  d1 = d1  d2 = d2  q1 = q1  q2 = q2  q3 = q3
    LocalCands = {c1, c2, c3}
    CloudCands = {k1, k2}
    Sources = {s1, s2}
    Destinations = {d1, d2}
    SourceOf <- MCSourceOf
    DestinationOf <- MCDestinationOf
    None = None
    MaxFaults = 2
    Quarantines = {q1, q2, q3}
    QuarantineOf <- MCQuarantineOf
    Foreign = {f1}
    Writable = {s2}
    Flapping = FALSE
    Other = {o1, o2}
    VerifyAttempts = 2
    Late = FALSE
INVARIANTS
    MoveAccounted CalledOnceJournalled CloudAccounted
PROPERTIES
    KeepsFiles ContractKept CloudContractKept OpenMovesEnd
CHECK_DEADLOCK FALSE
