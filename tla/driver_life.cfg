SPECIFICATION Spec
CONSTANTS
    Modules = {m0, m1}
    Multdev = {m1}
    Majors = {j1, j2}
    Procs = {p1, p2}
    Nobody = Nobody
    MaxLoads = 2
    MaxStarts = 2
    MaxAll = 3
SYMMETRY Symmetry
CHECK_DEADLOCK FALSE
INVARIANTS
    ModulesApart
    OneSession
    OrderlyExit
