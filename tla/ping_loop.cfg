SPECIFICATION Spec
CONSTANTS
    a = a
    b = b
    Peer = {a, b}
    watched = a
    ping_interval = 2
    pong_timeout = 3
    close_timeout = 2
    send_timeout = 1
    AgeCap = 24
INVARIANTS TypeOK QuietBounded
PROPERTIES ClosedForCause
