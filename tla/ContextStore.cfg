CONSTANTS
    Process = {p1, p2}
    Name = {n1, n2}
    Host = {plain, secure}
    Tls = {secure}
    Unwritable = FALSE
    None = None
    MaxContended = 1
SPECIFICATION Spec
CONSTRAINT Bounded
SYMMETRY Alike
INVARIANTS Readable CurrentExists CertsMatch
PROPERTIES NoOverwrite
