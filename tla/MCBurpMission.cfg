SPECIFICATION Spec
CONSTANTS
    Missions = {A, B}
    MaxRequests = 3
    None = None
INVARIANTS
    TypeOK
    LeaseAgrees
    CallsWithinLease
    IssuesNameTheirMission
SYMMETRY MissionSymmetry
CHECK_DEADLOCK FALSE
