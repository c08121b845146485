SPECIFICATION Spec
CONSTANTS
    Floor = {1, 2}
    Last = 2
    EventAt <- MCEventAt
    Behind <- MCBehind
    Entry = 1
    MaxWarps = 1
    MaxBattles = 1
    MaxSent = 2
INVARIANT SamePlace
PROPERTIES WarpAskedWhereDue ShownWithMap WarpEnds BattleShown
