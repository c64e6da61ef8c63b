SPECIFICATION Spec
CONSTANTS
    i1 = i1
    i2 = i2
    Human = Human
    Instructions = {i1, i2}
    Setups <- MCSetups
    MaxTurns = 2
    MaxOrdinal = 3
    MaxGenerations = 2
    MaxDisturbances = 2
INVARIANTS AnswersItsInstruction
PROPERTIES BarrierEnds
CHECK_DEADLOCK FALSE
