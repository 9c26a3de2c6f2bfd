SPECIFICATION FairSpec
CONSTANTS
    Products   = {p1, p2}
    TrxIds     = {t1}
    Payers     = {k1}
    Methods    = {"cash", "debt"}
    MaxStock   = 1
    MaxPending = 1
    MaxVisits  = 1
    p1 = p1
    p2 = p2
    t1 = t1
    k1 = k1
INVARIANT TypeOK
INVARIANT StockMatchesSales
INVARIANT CartCanBeServed
INVARIANT DebtMatchesSale
PROPERTY PaymentEnds
