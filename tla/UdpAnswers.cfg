\* The answers of the same deployment.
CONSTANTS
    n1 = n1
    n2 = n2
    n3 = n3
    Node <- MCNode
    HostOf <- MCHostOf
    PortOf <- MCPortOf
    NoPort = NoPort
    NoDatagram = NoDatagram
SPECIFICATION UdpSpec
INVARIANT
    AnswersGetOut
