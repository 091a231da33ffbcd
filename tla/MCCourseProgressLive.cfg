\* Every student who finishes is certified, when no request dies.
SPECIFICATION FairSpec
CONSTANTS
    s1 = s1  s2 = s2  x1 = x1  x2 = x2  l1 = l1  l2 = l2  w1 = w1  w2 = w2
    Students = {s1}
    Sections = {x1}
    Lessons = {l1, l2}
    SectionOf <- OneSection
    Workers = {w1, w2}
    MaxEdits = 1
    MaxFaults = 0
    NoRow = NoRow
PROPERTY LearningSettles
CHECK_DEADLOCK FALSE
