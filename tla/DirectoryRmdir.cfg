CONSTANTS
    Inums = {root, i1, i2, i3}
    NoInum = NoInum
    root = root
    Names = {n1, n2, n3}
    ShortNames = {n1}
    RmdirNames = {n1, n2, n3}
    Cookies = {c1}
    MaxDeletes = 1
SPECIFICATION Spec
SYMMETRY Symmetry
INVARIANT RmdirOnlyEmpty
