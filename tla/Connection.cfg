\* The connection with the debugger and those of send_irq, one part at a time;
\* each part stops at its bound.
CONSTANTS
    MaxRequests = 4
    MaxFaults = 2
    MaxInterrupts = 4
    MAX_ERROR_SIZE = 4
    None = None
    Chars = {0, 1, 2, 3, 4, 5, 6, 7}
    BufSize = 2
    ReadSize = 2
    MaxText = 4
    MAX_PACKET_SIZE = 12
    PacketSize = 12
    MemorySize = 5
    Addresses = {0, 4, 5}
    Values = {0, 125}
    Words <- MCWords
    Names <- MCNames
    MaxWrite = 2
    Orders = {"little", "big"}
    Senders = {"s1", "s2", "s3", "s4"}
    Limit = 5
    Backlog = 2
SPECIFICATION MCFairSpec
INVARIANTS
    ExcessPaidByInterrupts
    InsideBuffer
    AnswersAreDue
PROPERTIES
    ExactlyOnce
    AlwaysAnswered
    CutsIntoTokens
    WritesWhatIsMeant
    ConnectedIsRaised
CHECK_DEADLOCK FALSE
