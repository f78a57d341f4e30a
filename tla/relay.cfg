\* Two copies of a host and two phones, over connections that come and go.
SPECIFICATION Spec
CONSTANTS
    Places = {a, b}
    Phones = {c, d}
    MaxClients = 2
    MaxConns = 2
    MaxSaid = 1
    MaxBreaks = 2
SYMMETRY Interchangeable
INVARIANTS
    RightWire
    WiresAgree
    PhonesAgree
CHECK_DEADLOCK FALSE
