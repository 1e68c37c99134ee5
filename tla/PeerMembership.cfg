SPECIFICATION FairSpec
CONSTANTS
    Node = {1, 2, 3, 4, 5, 6}
    known_peer <- Arguments
    NoPeer = 0
    MAX_CAPACITY = 3
    MaxReplyPeers = 2
    MaxDatagramPeers = 1
    MaxLosses = 1
    MaxDuplicates = 1
CHECK_DEADLOCK FALSE
INVARIANTS
    TypeOK
    CapacityRespected
    NeverOwnPeer
    KnowledgeReturned
PROPERTIES
    PeersOnlyJoin
    MeshForms
