\* A request of two octets, two addresses, caps of two octets.
CONSTANTS
    Req = 2
    MaxHead = 2
    MaxBody = 2
    Addrs = 2
    Peers <- SomePeers
    Expected = 3
SPECIFICATION FairSpec
INVARIANTS EmissionExact QualifiedIsWhole GatewayQualifies
PROPERTY ExchangeEnds
CHECK_DEADLOCK FALSE
