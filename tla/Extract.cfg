\* A text has five tokens between BOS and EOS, a word six nodes and a name three
\* letters: each limit is met.
SPECIFICATION FairSpec
CONSTANTS
    MaxSeq = 7
    BpeMaxChars = 8
    NoFile = NoFile
    MaxKinds = 16
    FieldSize = 12
    Inputs <- MCInputs
    OntologyFile <- MCOntologyFile
    FilePath <- MCFilePath
    NameSize = 5
    EscSize = 12
INVARIANTS
    TypeOK
    EncodingIsBpe
    EntityAsWritten
    StoredIsDeclared
    MatchesInProcess
PROPERTIES
    PluginFinishes
\* The plugin stops when it has read all its paths.
CHECK_DEADLOCK FALSE
