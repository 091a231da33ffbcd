\* One buyer, two courses of two sellers, two payments, two refunds and a fault.
SPECIFICATION Spec
CONSTANTS
    u1 = u1  u2 = u2  c1 = c1  c2 = c2  i1 = i1  i2 = i2  k1 = k1
    p1 = p1  p2 = p2  d1 = d1  d2 = d2  w1 = w1  w2 = w2
    Users = {u1}
    Courses = {c1, c2}
    Instructors = {i1, i2}
    Coupons = {k1}
    PaymentIds = {p1, p2}
    Disbursements = {d1, d2}
    Workers = {w1, w2}
    InstructorOf <- TwoSellers
    Prices <- FreeThenPaid
    Discount <- WholePrice
    UsageLimit <- OneUse
    Share = 70
    MaxFaults = 1
    NoCoupon = NoCoupon  NoOrder = NoOrder  NoRow = NoRow
    NoPayment = NoPayment  Free = Free
SYMMETRY Symmetry
CONSTRAINT Bounded
INVARIANTS SalesAreSound StudentsReconcile TotalsReconcile
PROPERTY ImplementsLedger
CHECK_DEADLOCK FALSE
