SPECIFICATION Spec
CONSTANTS
    Entries <- SomeEntries
    MaxRecords <- Records
    Jobs = {"concat", "invert"}
INVARIANTS
    TypeOK
    CutFileYieldsPrefix
    EndOnlyBetweenRecords
    OutputReadsBack
    PartialOutputIsPrefix
    InverseKeepsKeys
CHECK_DEADLOCK FALSE
