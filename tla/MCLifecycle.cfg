SPECIFICATION LifecycleSpec
CONSTANTS
    c1 = c1  p1 = p1  p2 = p2  d1 = d1  d2 = d2
    Clients = {c1}
    Publishers = {p1, p2}
    Devices = {d1, d2}
    DeviceOf <- MCOneDevice
    NoClient = NoClient
    NoEvent = NoEvent
    NoFilter = NoFilter
    BufferSize = 1
    MaxEvents = 2
INVARIANTS
    HandlersHaveDatabase
PROPERTIES
    SignalEndsProcess
    PublishReturns
    GoneClientsLeave
