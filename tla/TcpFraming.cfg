\* Two messages of up to four bytes, sent in every way and cut everywhere; the
\* longest do not fit the buffer.  A behaviour ends with the connection.
SPECIFICATION Spec
CONSTANTS
    Content <- SomeContent
    MaxLength = 4
    MaxMessages = 2
    MaxDigits = 1
    MaxFrame = 4
INVARIANTS
    OnlyWholeMessages
    DeliveredAtOnce
    CloseKeepsAll
CHECK_DEADLOCK FALSE
