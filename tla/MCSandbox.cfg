SPECIFICATION Spec
CONSTANTS
    Scans = {s1, s2}
    Names = {n1, n2}
    Creates = {c1, c2, c3}
    Destroys = {x1}
    None = None
INVARIANTS
    TypeOK
    EntryMatches
    NoOrphanWithoutFault
    TrackedIsThere
    CleanupComplete
SYMMETRY Symmetry
