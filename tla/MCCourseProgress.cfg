\* One student, two reports at once, edits, a refund and a crash.
SPECIFICATION Spec
CONSTANTS
    s1 = s1  s2 = s2  x1 = x1  x2 = x2  l1 = l1  l2 = l2  w1 = w1  w2 = w2
    Students = {s1}
    Sections = {x1, x2}
    Lessons = {l1, l2}
    SectionOf <- TwoSections
    Workers = {w1, w2}
    MaxEdits = 3
    MaxFaults = 1
    NoRow = NoRow
SYMMETRY Symmetry
INVARIANTS PercentInRange CertificatesAreSound
PROPERTY ImplementsRegister
CHECK_DEADLOCK FALSE
