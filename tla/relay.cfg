CONSTANTS
    p1 = p1
    p2 = p2
    p3 = p3
    p4 = p4
    Peer <- Four
    Talker <- Talkers
    NoPeer = NoPeer
    MaxSaid = 2
SYMMETRY Symmetry
SPECIFICATION SpecFew
INVARIANTS SameOrder InOrder NoGap
CHECK_DEADLOCK FALSE
PROPERTY Final
