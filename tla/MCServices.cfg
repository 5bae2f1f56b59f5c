\* Mail, administrators, the guards of requests, the catalogue, checkouts, customers.
SPECIFICATION ServicesSpec
CONSTANTS
    one = one
    two = two
    aud = aud
    Mail = {m1}
    Dispatcher = {one, two}
    MailMaxAttempts = 2
    MailBatch = 2
    MaxCopy = 2
    MaxMailCrash = 0
    Admin = {a1, a2}
    Founder = a1
    Link = {one, two}
    Session = {one, two}
    Token = {one, two}
    Request = {one, two}
    MaxStep = 2
    MaxSecret = 2
    AdminScenario <- AdminOperations
    None = None
    Call = {one, two, c3}
    Body = {b1, b2}
    RateLimit = 2
    MaxWindow = 2
    MaxBreak = 1
    Offer = {o1}
    Currency = {aud, usd}
    Amount = {1, 2}
    Interval = {"month", "year"}
    CreatePriceInput <- NewPrices
    Clerk = {one, two}
    MaxVersion = 3
    MaxEdit = 4
    CatalogueScenario <- CatalogueOperations
    Import = {one, two}
    Runner = {one, two}
    Row <- PriceList
    MaxDeath = 1
    MaxMeanwhile = 1
    Order = {k1}
    Caller = {one, two}
    MaxFault = 1
    MaxSell = 1
    Relinking = TRUE
    Licence = {one, two}
    Handler = {one, two}
    Policy <- Measures
    Person = {one, two}
    Account = {one, two}
    Purchase = {one, two}
    Visitor = {v1}
    MaxSupport = 1
    CustomerScenario <- CustomerChanges
SYMMETRY Symmetry
INVARIANTS ServicesTypeOK OneCopy SecretsUsedOnce SuperadminRemains RightsEnd RequestsGuarded SaleIsWhole ImportDelivers MadeOnce
PROPERTIES  BuyersKept
CHECK_DEADLOCK FALSE
