\* One program, and a configuration file it may not be able to write.
CONSTANTS
    Process = {p1}
    Name = {n1, n2}
    Host = {plain, secure}
    Tls = {secure}
    Unwritable = TRUE
    None = None
    MaxContended = 0
SPECIFICATION Spec
CONSTRAINT Bounded
INVARIANTS CurrentExists
