\* Roles, subscriptions, tickets, limits, the count, the booth, keys and the books, side by side.
SPECIFICATION MCSpec
CONSTANTS
    u1 = u1
    u2 = u2
    g1 = g1
    g2 = g2
    e1 = e1
    e2 = e2
    Users <- MCUsers
    PlatformStaff = {}
    Everywhere = Everywhere
    Orgs <- MCOrgs
    Events <- MCEvents
    Owner <- MCOwner
    Organizer <- MCOrganizer
    FirstOrg = g1
    FirstAdmin = u1
    Grantable = {"ORG_ADMIN", "ELECTION_REVIEWER"}
    Rows = {1, 2, 3}
    t1 = t1
    t2 = t2
    Tasks <- MCTasks
    Month = 2
    Trial = 1
    LastDay = 4
    MaxInvoices = 3
    MaxRedemptions = 1
    FullCoupon = FALSE
    p1 = p1
    p2 = p2
    Handlers <- MCTasks
    Purchases <- MCPurchases
    Prices = {1, 2}
    Stock = {1}
    MaxBought = 1
    c1 = c1
    c2 = c2
    mail = mail
    phone = phone
    Blank = Blank
    Sales <- MCSales
    Buyers <- MCBuyers
    Contestants <- MCContestants
    MaxAtOnce = 2
    MaxPerVoter = 3
    MaxOnContestant = 2
    MaxPackages = 1
    MaxUses = 1
    PerPayer = 1
    Candidates <- MCCandidates
    Lot <- MCLot
    Positions <- MCPositions
    va = va
    vb = vb
    vc = vc
    mayor = mayor
    clerk = clerk
    judge = judge
    ma = ma
    mb = mb
    kek = kek
    column = column
    Nobody = Nobody
    WholeElection = WholeElection
    Dev = Dev
    Kms = Kms
    Elections = {e1, e2}
    Covered <- MCCovered
    Voters = {va, vb, vc}
    Home <- MCHome
    Contacts <- MCContacts
    SignInMethods <- MCSignIn
    TwoFactor = {e1}
    SelfService = {e1}
    Offices <- MCOffices
    Rules <- MCRules
    SessionTtl = 2
    OtpLife = 1
    PassTtl = 3
    MaxGuesses = 1
    MaxChallenges = 2
    MaxPasses = 2
    MaxForms = 2
    LastHour = 1
    Processes <- MCProcesses
    Columns = {column}
    Keks = {kek}
    MaxDataKeys = 3
    MaxWrites = 2
    b1 = b1
    b2 = b2
    Bills <- MCBills
    Worth <- MCWorth
    Stranger = Stranger
    Cap = 1
INVARIANTS
    BilledOnce
    TicketsHold
    
    CountHolds
    BoothHolds
    
    
PROPERTIES
    RolesHold
SYMMETRY MCSymmetry
CHECK_DEADLOCK FALSE
