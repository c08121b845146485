SPECIFICATION FairSpec
CONSTANTS
    BATTLE_BUF_SIZE = 4
    Ahead = 3
    MaxBattles = 2
    MaxTurn = 2
    MaxBA = 1
INVARIANTS InStep LeavesOnlyEnded PhantomOnlyByEarlyEscape TurnAgrees
PROPERTIES RingsUsedAsAssumed BattleEnds
