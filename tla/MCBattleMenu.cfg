SPECIFICATION FairInput
CONSTANTS
    ButtonSteps = 2
    MaxIdle = 2
    Situations <- AllTurns
INVARIANTS OneCommand InputComplete IdleForAReason
PROPERTY InputEnds
