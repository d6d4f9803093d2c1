CONSTANTS
    Dirs = {d1, d2}
    a = a
    b = b
    c = c
    d = d
    Segments = {a, b, c, d}
    Names <- MCNames
    Backslashed <- MCBackslashed
    Contents = {x, y}
    MaxFilesCount = 2
    NoRoot = NoRoot
    Here = Here
    NoFile = NoFile
    NoBag = NoBag
    d1 = d1
    d2 = d2
    x = x
    y = y
SPECIFICATION Spec
SYMMETRY Symmetry
INVARIANTS
    TypeOK
    UploadedBagIsWhole
    RecordedBagIsServed
