SPECIFICATION InputSpec
CONSTANTS
    ButtonSteps = 2
    MaxIdle = 2
    Situations <- AllTurns
INVARIANT SwitchingRepaired
