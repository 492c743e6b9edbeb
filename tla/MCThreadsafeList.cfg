SPECIFICATION FairSpec
CONSTANTS
    Thread = {t1, t2, t3}
    Node = {n1, n2, n3}
    v1 = v1
    v2 = v2
    Value = {v1, v2}
    Predicate <- MCPredicate
    First = head
    NoThread = NoThread
    NoNode = NoNode
    NoValue = NoValue
INVARIANTS NoUseAfterFree WalksAreAtomic
PROPERTIES WalksEnd
