CONSTANTS
    MessagesBound = 3
    NowBound = 2
    QueueLimit = 1
SPECIFICATION TerminalSpec
INVARIANT OnlyOneIsDropped
