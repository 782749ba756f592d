CONSTANTS
    Ids = {c1, c2, c3}
    None = None
    Names = {n1, n2}
    Types = {ingreso, egreso}
    Requests = {r1, r2}
    MaxFields = 2
SPECIFICATION Spec
SYMMETRY Symmetry
INVARIANTS
    GroupsAreSound
    NamesAreUnique
CHECK_DEADLOCK FALSE
