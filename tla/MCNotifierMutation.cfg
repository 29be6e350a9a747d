SPECIFICATION MCSpec
CONSTANTS
    EventArray <- UtxosChangedOnly
    Clients = {c1}
    Lone = c1
    Bounds <- MutationBounds
    Grpc = grpc
    Addresses = {a1}
    MaxCalls = 2
    MaxNotifications = 1
PROPERTY MutationDispatched
CHECK_DEADLOCK FALSE
