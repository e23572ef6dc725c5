SPECIFICATION Spec
CONSTANTS
    u1 = u1
    u2 = u2
    d1 = d1
    d2 = d2
    NoOffer = NoOffer
    Users = {u1, u2}
    Devices = {d1, d2}
    Owner <- OwnerEach
    InitStamps <- Stamps32
    Offers <- FeeOffers
    MaxPurchases = 2
    MaxClaims = 0
    MaxKills = 0
    MaxFaults = 0
INVARIANTS CreatorKeepsFee
CHECK_DEADLOCK FALSE
