SPECIFICATION Spec
CONSTANTS
    Scans = {s1}
    Names = {n1}
    Creates = {c1, c2}
    Destroys = {x1}
    None = None
INVARIANT TrackedNotRemoved
