\* Two commands in two writes each, replies in every partition into reads, and
\* one fault.  The stack holds two arrays and the task of an element, an int
\* numbers up to 2.
SPECIFICATION FairSpec
CONSTANTS
    StackSize = 3
    IntMax = 2
    DiscardAt = 6
    Replies <- MCReplies
    CmdLen = 2
    MaxCommands = 2
    MaxFaults = 1
INVARIANTS
    TypeOK
    CommandsIntact
    ReplySound
PROPERTIES
    NoReplyOverlooked
    Implements
    GetReplyReturns
CHECK_DEADLOCK FALSE
