SPECIFICATION FairSpec
CONSTANTS
    loop = loop
    llm = llm
    listener = listener
    dice = dice
    Reader = {loop, llm, listener, dice}
    Loop = loop
    Llm = llm
    Listener = listener
    Dice = dice
    Agents <- AllAgents
    Texts = {"dice.roll"}
    MaxDepth = 2
    Scenarios <- SomeScenarios
    MaxCalls = 4
CHECK_DEADLOCK FALSE
INVARIANTS
    TextIsOfTrigger
    AnswersAreDue
PROPERTIES
    EveryMessageIsHandled
    EveryRequestIsAnswered
    AbortEndsStream
