SPECIFICATION TurnSpec
CONSTANTS
    a = a
    b = b
    Letters = {a, b}
    Tools = {t1}
    CodexTools = {t1}
    Texts <- MCTexts
    ErrorText <- MCErrorText
    ItemTexts <- MCItemTexts
    AnyTexts <- MCAnyTexts
    AgentMessages = {m1}
    Reasonings = {}
    HideThinking = FALSE
    ShowStats = TRUE
    Journal = TRUE
    MaxEvents = 2
    MaxFaults = 1
    MaxImages = 1
    MaxInterrupts = 1
INVARIANTS
    OneCardEach
    CardsAreFresh
    StopIsShown
    NothingLost
    FragmentsAddUp
    TempDirRemoved
    RenderedInOrder
PROPERTY EveryMessageEnds
CHECK_DEADLOCK FALSE
