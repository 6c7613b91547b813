SPECIFICATION StreamSpec
CONSTANTS
    Letters <- MCLetters
    Digits <- MCDigits
    Value <- MCValue
    Spelling <- MCSpelling
    Methods = {"GET", "CONNECT"}
    HTTP_MAX_HEADER_SIZE = 18
    MaxNumber = 9
    LengthLimit = 17
    MaxLength = 2
    MaxPacket = 2
    MaxMessages = 2
    MaxLines = 1
    MaxRepeats = 1
INVARIANTS
    EveryByteIsGiven
    BodyIsFramed
    HeaderIsLimited
    MessagesAreAssembled
PROPERTIES
    ImplementsDialogue
\* a parser that did not accept a packet is not executed again
CHECK_DEADLOCK FALSE
