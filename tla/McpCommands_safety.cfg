SPECIFICATION Spec
CONSTANTS
    Caller = {c1, c2, c3}
    Key = {scan, disposition}
    ScanKey = {scan}
    Input = {i1, i2}
SYMMETRY Symmetry
INVARIANTS
    CommandRunsOnce
    AnswersAgree
