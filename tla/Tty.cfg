SPECIFICATION FairSpec
CONSTANTS
    CtrlC = CtrlC
    Backspace = Backspace
    Return = Return
    Newline = Newline
    EndOfText = EndOfText
    char = char
    Bytes <- MCBytes
    Received <- MCReceived
    Size = 3
    PidMax = 2
    MaxActivity = 2

    
PROPERTIES
    QueueSpec
    BreaksAreDelivered
