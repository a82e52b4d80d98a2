CONSTANTS
    MaxKeys = 2
    MaxMoves = 2
    Lengths = {2, 6}
SPECIFICATION Spec
INVARIANTS
    TypeOK
    KeysInOrder
    PacketsAreMovements
PROPERTIES
    PolledKeysArrive
