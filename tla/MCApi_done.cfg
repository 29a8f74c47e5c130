SPECIFICATION ApiSpec
CONSTANTS
    d1 = d1  d2 = d2  m1 = m1  m2 = m2  s1 = s1  s2 = s2  r1 = r1  r2 = r2
    noUrl = noUrl  url1 = url1  c1 = c1  c2 = c2
    Calls = {c1}
    NoUrl = noUrl
    Devices = {d1}
    Messages = {m1}
    Sessions = {s1}
    Requests = {r1}
    Urls = {noUrl}
    MaxSends = 0
    NoRow = NoRow
    NoDevice = NoDevice
    NoSession = NoSession
    NoMessage = NoMessage
    Cancelled = Cancelled
    OverlappingPosts = FALSE
SYMMETRY MCSymmetry
PROPERTIES
    DoneMeansNothingPending
