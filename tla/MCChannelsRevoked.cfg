CONSTANTS
    Sockets = {w1}
    Posts = {}
    Streams = {}
    Calls = {}
    Devices = {d1}
    Challenges = {x1}
    MaxInFlight = 1
    None = None
SPECIFICATION FairSpec
PROPERTY RevokedDevicesLoseTheirChannels
CHECK_DEADLOCK FALSE
