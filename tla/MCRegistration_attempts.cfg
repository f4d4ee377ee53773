SPECIFICATION FairSpec
CONSTANTS
    s1 = s1
    s2 = s2
    Site = {s1, s2}
    RLASites = {s1, s2}
    RASites = {s2}
    Late = {s2}
    Seed = s1
    NoSite = NoSite
    UserRequests <- MCUserRequests
    MaxFaults = 2
INVARIANTS
    TypeOK
    SelfIsInTable
    ServingLeadIsListed
PROPERTIES
    RegistrationCompletes
