\* One instructor, two requests in flight, one fault; two students and courses.
SPECIFICATION MCSpec
CONSTANTS
    i1 = i1  i2 = i2  n1 = n1  d1 = d1  d2 = d2  d3 = d3  d4 = d4  w1 = w1  w2 = w2
    u1 = u1  u2 = u2  c1 = c1  c2 = c2  k1 = k1
    Instructors = {i1}
    Phones = {n1}
    Amounts = {1, 2}
    Shares = {1, 2}
    Disbursements = {d1, d2, d3}
    Workers = {w1, w2}
    MaxSales = 3
    MaxFaults = 1
    NoPhone = NoPhone  Unused = Unused
    Learners = {u1, u2}
    Offered = {c1, c2}
    TeacherOf <- Teachers
    CategoryOf <- Subject
    Prices = {0, 3}
    FirstDay = 6
    LastDay = 7
    MonthDays = 7
    MaxSeats = 2
    TopLength = 1
    NoRow = NoRow  NoPage = NoPage
SYMMETRY Symmetry
INVARIANTS RowsMatchDisbursements OverdraftIsBounded 
CHECK_DEADLOCK FALSE
