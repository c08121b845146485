SPECIFICATION Spec
CONSTANTS
    BATTLE_BUF_SIZE = 4
    Ahead = 3
    Msg = {m1, m2, m3}
    NoMsg = NoMsg
PROPERTY IsQueue
