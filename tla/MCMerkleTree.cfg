SPECIFICATION Spec
CONSTANTS
    MaxLen = 7
    Alphabet <- Bits
    Data <- Files
    BlockSize = 2
INVARIANTS RootCoversFile MeasurementBinds VerifierIsExact
PROPERTIES Terminates
