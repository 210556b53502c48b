SPECIFICATION Spec
INVARIANT OnePersonUnlessCrossed
INVARIANT SocketFollowsHook
INVARIANT RefusalsExplained
INVARIANT OneOrderPerForm
PROPERTY RequestsSettle
CONSTANT People = {p1, p2}
CONSTANT Requests = {q1, q2}
CONSTANT MaxTokens = 3
CONSTANT MaxSockets = 6
CONSTANT MaxObjects = 4
CONSTANT MaxOrphans = 1
CONSTANT hq = hq
CONSTANT dealer = dealer
CONSTANT coordinator = coordinator
CONSTANT technician = technician
CONSTANT NoTechnician = none
CONSTANT Calls = {c1}
CONSTANT MaxSubmissions = 3
CONSTANT Serials = {x1}
CONSTANT MaxOpenings = 2
CHECK_DEADLOCK FALSE
