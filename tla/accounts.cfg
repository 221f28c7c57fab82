SPECIFICATION Spec
CONSTANTS
    q1 = q1
    q2 = q2
    s1 = s1
    s2 = s2
    s3 = s3
    h1 = h1
    e1 = e1
    e2 = e2
    e3 = e3
    i1 = i1
    i2 = i2
    Nobody = Nobody
    Blank = Blank
    Registrations <- TwoRegistrations
    Seeds <- ThreeSeeds
    AdminRequests <- OneAdminRequest
    Emails <- ThreeEmails
    Codes <- TwoCodes
    MaxUses = 1
INVARIANTS TypeOK InvitesBalance ActiveEmailsDistinct SingleAdmin NoStandstill
PROPERTIES AdminKept ImplementsLedger
CHECK_DEADLOCK FALSE
SYMMETRY Interchangeable
