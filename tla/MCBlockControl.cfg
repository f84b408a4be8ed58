CONSTANTS
    c1 = c1
    c2 = c2
    d1 = d1
    d2 = d2
    Clients = {c1, c2}
    Devices = {d1, d2}
    Probes <- MCProbes
    Local = {d1}
    MaxClients = 2
    MaxDevices = 2
    RingSize = 1
    MaxOpen = 2
    None = None
SPECIFICATION Spec
INVARIANTS
    DeviceRefs
    ConnectionsAgree
    NotMountedWhileOpen
    SlotsDistinct
    TransfersConnected
    RingNotOverfilled
    ControlInv
