SPECIFICATION Spec
CONSTANTS
    Writer <- MCWriter
    Dlq <- MCDlq
    Prefix <- MCPrefix
    Word <- MCWord
    Message <- MCMessage
    Size = {1, 2}
    SrcPrefixes <- MCSrcPrefixes
    DstPrefix <- MCDstPrefix
    BackoffLimit = 1
    MaxPuts = 3
    MaxJobs = 1
\* Once the puts and the jobs are used up, nothing is left to do.
CHECK_DEADLOCK FALSE
INVARIANTS
    TypeOK
    MirroredUpToSize
    MirrorsThePath
PROPERTIES
    OneMessagePerObject
