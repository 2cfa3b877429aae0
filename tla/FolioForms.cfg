CONSTANTS
    w1 = w1
    w2 = w2
    t1 = t1
    t2 = t2
    t3 = t3
    c1 = c1
    c2 = c2
    p1 = p1
    none = none
    None = none
    Folios = {"group", "guest"}
    PricedFolios = {"group"}
    Charges = {c1}
    PosCharges = {}
    Worth <- SmallWorth
    Amounts = {0, 1, 2}
    Transfers = {t1, t2, t3}
    Workers = {w1, w2}
    MaxRevision = 2
    Kinds = {"post", "transfer", "reverse", "invoice"}
    RepeatableRead = TRUE
SPECIFICATION Spec
SYMMETRY Symmetric
INVARIANTS TypeOK BilledOnce VoidIsNotBilled LinksAgree StatusAgrees AmountsConserved
PROPERTIES ImplementsLedger
CHECK_DEADLOCK FALSE
