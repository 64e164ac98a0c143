SPECIFICATION Spec
CONSTANTS
    h1 = h1
    h2 = h2
    Hyps = {h1, h2}
    NoHyp = NoHyp
    Confs <- MCConfs
    Reviews <- MCReviews
    Answers <- MCAnswers
    MaxFaults = 1
INVARIANTS RepairsAuthorized CertifiedFresh ReviewedAsStarted JudgedByItsPacket
PROPERTIES DriveReturns
CHECK_DEADLOCK FALSE
