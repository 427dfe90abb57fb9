SPECIFICATION Spec
CONSTANTS
    Outputs <- MCOutputs
    Dlq <- MCDlq
    Fields <- MCFields
    MaxGeneration = 2
    MaxSignals = 2
    MaxOutages = 1
INVARIANTS
    TypeOK
    CredentialsLoaded
    CleanExit
PROPERTIES
    SignalEnds
    Recovers
