CONSTANTS
    p1 = p1
    p2 = p2
    c1 = c1
    c2 = c2
    u = u
    v = v
    Producers <- MCProducers
    Consumers <- MCConsumers
    Values <- MCValues
    NoValue = NoValue
    NoThread = NoThread
    QueueBound = 2
SPECIFICATION Spec
INVARIANTS TypeOK PopNonEmpty NoLostWakeup
PROPERTIES FifoSpec TakeReturns
