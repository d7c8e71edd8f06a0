CONSTANTS
    ip1 = ip1  ip2 = ip2
    Dials = {d1, d2, d3}
    IPs = {ip1, ip2}
    BusAddrs <- MCBusAddrs
    NoIP = NoIP
SPECIFICATION Spec
PROPERTY ClearOnlyFailedIP
CHECK_DEADLOCK FALSE
