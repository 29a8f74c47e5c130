SPECIFICATION BrokerSpec
CONSTANTS
    c1 = c1  c2 = c2  p1 = p1  p2 = p2  d1 = d1  d2 = d2
    Clients = {c1, c2}
    Publishers = {p1, p2}
    Devices = {d1, d2}
    DeviceOf <- MCTwoDevices
    NoClient = NoClient
    NoEvent = NoEvent
    NoFilter = NoFilter
    BufferSize = 1
    MaxEvents = 2
SYMMETRY MCSymmetry
INVARIANTS
    BrokerTypeOK
    SendsOnOpenChannel
    StreamIsFaithful
    SubscribersAreServed
PROPERTIES
    NothingDroppedEarly
