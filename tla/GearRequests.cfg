\* Three requests, so that a reply left over by the first meets the second.
SPECIFICATION Spec
CONSTANTS
    MaxRequests = 3
    MaxDeaths = 1
    EmptyLine = EmptyLine
    near = near
    far = far
    Texts <- MCTexts
    Gears <- MCGears
    Structural = {"list"}
    Matches <- MCMatches
    Score <- MCScore
    Threshold = 1
INVARIANTS
    TypeOK
    GateFailsClosed
    PromptsFresh
    HooksTellRun
    ResultIsLastSuccess
    AnswersInStep
PROPERTIES
    EveryRequestAnswered
CHECK_DEADLOCK FALSE
