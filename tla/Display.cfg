SPECIFICATION FairSpec
CONSTANTS
    w1 = w1
    Writer = {w1}
    Cells = 4
    Chars = 2
    Longest = 3
    MaxMessages = 3
INVARIANTS
    DisplayInv
    MessagesWhole
PROPERTIES
    StatusComesBack
