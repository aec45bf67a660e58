SPECIFICATION Spec
CONSTANTS
    None = None
    Value <- MCValue
    AnthropicRequests <- MCAnthropicRequests
    OpenAIRequests <- MCOpenAIRequests
    Shapes <- MCShapes
    Reports <- MCReports
    InputReports <- MCInputReports
    Prompt = 5
    MaxItems = 4
    MaxEvents = 7
    MaxBlocks = 2
INVARIANTS
    StreamAgreesWithResponse
    TokensAreKept
    ConversationStaysLegal
    NothingIsLost
PROPERTY
    WritesMessageStream
CHECK_DEADLOCK FALSE
