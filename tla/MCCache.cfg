CONSTANTS
    Digits = {1, 2, 3, 4, 5, 6, 7, 8}
    NoText = NoText
    ReadRetries = 2
    Setups <- MCSetups
SPECIFICATION Spec
INVARIANTS
    WriterInvariant
    PublicationIsKept
CHECK_DEADLOCK FALSE
