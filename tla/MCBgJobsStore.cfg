SPECIFICATION Spec
CONSTANTS
    Jobs       = {j1, j2}
    Sessions   = {s1}
    MaxFaults  = 1
    MaxTurns   = 2
    j1 = j1
    j2 = j2
    s1 = s1
SYMMETRY Symmetry
INVARIANT TypeOK
INVARIANT OutcomeTrue
INVARIANT KilledStaysSilent
INVARIANT FollowedMeansInvoked
INVARIANT RepeatsNeedFault
PROPERTY KeepsPromise
