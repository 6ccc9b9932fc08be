SPECIFICATION Spec
CONSTANTS
    Width = 4
    Hosts <- MCHosts
    LocalRanges <- MCLocalRanges
    LocalDomains <- MCLocalDomains
    Loopback <- MCLoopback
    Loopback6 <- MCLoopback6
    Private <- MCPrivate
    Requests <- MCRequests
    None = None
INVARIANTS TypeOK RoutesAsAsked ClientsAsAsked ServedIsHashed NoTotalRule
