SPECIFICATION FairSpec
CONSTANTS
    u1 = u1
    u2 = u2
    d1 = d1
    d2 = d2
    NoOffer = NoOffer
    Users = {u1, u2}
    Devices = {d1}
    Owner <- OwnerSame
    InitStamps <- Stamps40
    Offers <- AnswerOffers
    MaxPurchases = 2
    MaxClaims = 0
    MaxKills = 1
    MaxFaults = 1
PROPERTIES PurchaseAnswered PaymentDecided
CHECK_DEADLOCK FALSE
