\* One command, three chunks of input, every buffer a single chunk.
SPECIFICATION Spec
CONSTANTS
    MaxIn = 3
    Capacity = 1
    Codes = {7}
INVARIANTS OutputIsComplete EofMeansAllInput
PROPERTIES CliReturns InputIsAnswered
CHECK_DEADLOCK FALSE
