\* Two requests at a time, two payments, amounts that cover and that do not.
SPECIFICATION Spec
CONSTANTS
    Callers = {c1, c2}
    Payments = {p1, p2}
    Amounts <- MCAmounts
    Totals = {2, 4}
    NoPayment = NoPayment
    NoJob = NoJob
SYMMETRY Symmetric
INVARIANTS PaidIsCovered
PROPERTIES PaidIsImmutable
CHECK_DEADLOCK FALSE
