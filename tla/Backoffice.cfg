\* Two clerks that sell and count two variants, two editors of two
\* articles, two requests about pictures, two credit sales, three requests
\* about people, an order that is cancelled up to twice, two mails with one
\* place in the hour, two readers of a flag, two products and two categories
\* that share three slugs, two goods in a list that changes twice, and two
\* online orders with a sale over three days of one hour each.
SPECIFICATION Spec
CONSTANTS
    VariantRows = {w0, w1}
    MainVariant = w0
    SaleRows = {s1, s2}
    OrderRows = {o1}
    Clerks = {u1, u2}
    Counts = {1}
    MaxTasks = 3
    MaxCancels = 2
    NoVariant = NoVariant
    NoSale = NoSale
    Categories = {"shirts", "sheets"}
    red = red
    blue = blue
    big = big
    cotton = cotton
    Values = {red, blue, big, cotton}
    AttributeOf <- Attributes
    CategoryOf <- CategoryOfAttribute
    Articles = {x0, x1}
    MainArticle = x0
    Editors = {u1, u2}
    MaxChanges = 2
    NoCategory = NoCategory
    Files = {f1, f2}
    PictureRows = {p1, p2, p3}
    Models = {m1}
    Curators = {u1, u2}
    MaxPictureRequests = 4
    General = General
    NoFile = NoFile
    NoPicture = NoPicture
    CreditSales = {k1, k2}
    Sellers = {u1, u2}
    Orders <- SomeOrders
    Edits <- SomeEdits
    Amounts = {1, 334}
    Limits = {1000, 1500}
    MaxPlanSteps = 3
    NoCreditSale = NoCreditSale
    StaffRows = {t1}
    CustomerRows = {u1, u2}
    ClientRows = {n1, n2}
    Emails = {y1, y2}
    People = {p1, p2, p3}
    NoEmail = NoEmail
    NoOne = NoOne
    Mails = {u1, u2}
    MaxPerHour = 1
    MailThreshold = 1
    MaxStalls = 1
    MaxStops = 1
    Adapters = {a1}
    AdminAdapter = a0
    Readers = {u1, u2}
    Admins = {z1}
    FlagTTL = 1
    SlowestQuery = 1
    MaxFlagTime = 3
    NoFlagRow = NoFlagRow
    Wares = {u1, u2}
    Shelves = {k1, k2}
    SlugNames = {"shirt", "shirt-2", "top"}
    Candidates <- Slugged
    Renamers = {p1, p2}
    MaxSlugSteps = 4
    NoSlug = NoSlug
    NoWare = NoWare
    Goods = {1, 2}
    Queries <- SomeQueries
    MaxCacheChanges = 2
    WebOrders = {u1, u2}
    SlipRows = {p1}
    HoursPerDay = 1
    DaysPerMonth = 2
    MaxHour = 2
    MaxEntries = 3
    PaidFloor = 0
    ExpiredFloor = 1
    Nobody = Nobody
SYMMETRY Symmetric
INVARIANTS TypeOK UnitsAccounted NeverOversold VariantsFitProduct LinksLead PlansSound PeopleConsistent HandoversAccounted CachesAgree
CHECK_DEADLOCK FALSE
