SPECIFICATION Spec
CONSTANTS
    u1 = u1
    u2 = u2
    d1 = d1
    d2 = d2
    NoOffer = NoOffer
    Users = {u1, u2}
    Devices = {d1, d2}
    Owner <- OwnerEach
    InitStamps <- Stamps20
    Offers <- TwoAccountOffers
    MaxPurchases = 2
    MaxClaims = 1
    MaxKills = 1
    MaxFaults = 1
INVARIANTS TypeOK BalanceNeverNegative PriceTakenOnce PendingPaymentsChain CachedBalanceBacked PayThenDeliver NoFreeStamps
CHECK_DEADLOCK FALSE
