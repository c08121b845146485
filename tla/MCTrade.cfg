SPECIFICATION Spec
CONSTANTS
    ann = ann
    bob = bob
    Client = {ann, bob}
    Owns <- MCOwns
    MaxTrades = 2
    MaxMoves = 3
    MaxSent = 2
INVARIANT SameGoods
PROPERTIES Sealed CancelEndsBoth
CHECK_DEADLOCK FALSE
