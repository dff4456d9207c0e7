SPECIFICATION Spec
CONSTANTS
    Tasks = {t1, t2}
    MaxVer = 2
INVARIANTS
    LoadsLastSave
    NothingForgotten
SYMMETRY Symmetry
