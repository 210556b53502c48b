SPECIFICATION Spec
INVARIANT AccountsMatchDecisions
PROPERTY OutForGood
INVARIANT ProfileFitsRole
INVARIANT FiguresExactOnceSettled
INVARIANT BucketMatchesRows
INVARIANT DeletedWasUnused
INVARIANT EveryScanWarns
INVARIANT WatchersEndOnNewest
INVARIANT OverviewTellsOneStory
INVARIANT NewsMatchTrail
INVARIANT EachChangeToldOnce
CONSTANT Handlers = {h1, h2}
CONSTANT Secrets = {s1}
CONSTANT Guests = {g1, g2}
CONSTANT Raters = {r1, r2}
CONSTANT Rated = {o1, o2}
CONSTANT Uploaders = {u1, u2}
CONSTANT Images = {i1}
CONSTANT Extensions = {jpg, png}
CONSTANT Clerks = {c1, c2}
CONSTANT Orders = {w1, w2}
CONSTANT DueOrders = {d1, d2}
CONSTANT MaxAttempts = 3
CONSTANT MaxStalls = 1
CONSTANT MaxUpdates = 3
CONSTANT Users = {t1}
CONSTANT NoTechnician = none
CONSTANT dealer = dealer
CONSTANT coordinator = coordinator
CONSTANT customer = customer
CONSTANT NewsOrders = {o1}
CONSTANT Senders = {s1}
CONSTANT MaxHistory = 6
CONSTANT NewRows = 2
CONSTANT MaxFaults = 1
CONSTANT MaxCrashes = 0
CONSTANT SendAttempts = 1
CONSTANT MaxStalled = 0
CONSTANT Adapters = {"LINE", "EMAIL"}
CONSTANT Known = {{"LINE", "EMAIL"}}
CHECK_DEADLOCK FALSE
