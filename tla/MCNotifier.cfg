SPECIFICATION MCSpec
CONSTANTS
    EventArray <- AllEvents
    Clients = {c1, c2}
    Lone = c1
    Bounds <- MCBounds
    Grpc = grpc
    Addresses = {a1}
    MaxCalls = 3
    MaxNotifications = 1
INVARIANTS TableExact FeedbackExact
PROPERTIES Delivered StopsCleanly
CHECK_DEADLOCK FALSE
