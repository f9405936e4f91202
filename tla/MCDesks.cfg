SPECIFICATION DesksSpec
CONSTANTS
    r1 = r1  r2 = r2  o1 = o1  o2 = o2
    Workers <- TwoRequests
    Names = {"plan"}
    Products = {"sku"}
    MaxPlans = 2
    MaxGrants = 1
    MaxOrders = 1
    MaxRequests = 2
    Threads <- TwoRequests
    Items = {1, 2}
    NewStatuses = {"draft", "pending_approval"}
    NewApprovals = {"not_required"}
    MaxMoves <- ItemMoves
    MaxNotes = 1
    Clerks <- TwoRequests
    Actions = {1}
    Columns = {"returns", "orders"}
    Amounts = {o1, o2}
    NoValue = NoValue
    Outcomes <- TwoOutcomes
    MaxEvents = 7
SYMMETRY Symmetry
CHECK_DEADLOCK FALSE
INVARIANTS VersionsCountUp RecommendationsAreApproved OrdersWriteBackApprovals OneOrderPerPlan OrdersAreDecided
           ItemsAreDecided LinksAreLogged ResolvedIsMeasured
PROPERTIES ImplementsItemTrail ImplementsActionTrail
