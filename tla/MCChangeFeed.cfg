SPECIFICATION FairSpec
CONSTANTS
    m1 = m1
    m2 = m2
    g1 = g1
    t1 = t1
    t2 = t2
    p1 = p1
    Docs <- MCDocs
    OptInDocs <- MCOptInDocs
    Txns <- MCTxns
    Phones <- MCPhones
    PageSize = 1
    MaxSeq = 3
INVARIANTS
    TypeOK
    NoChangeSkipped
    DecidedOnCurrent
PROPERTIES
    VisibleInOrder
    ImplementsOrderedFeed
    ChangeReachesPhone
CHECK_DEADLOCK TRUE
