CONSTANTS
    Owners = {}
    NameOf = NameOf
    Tastes = {}
    Sayings = {}
    Chats = {"s1"}
    ReadLimit = 2
    NoFile = NoFile
    Torn = Torn
    MaxWrites = 3
    MaxHarms = 1
SPECIFICATION FilesSpec
INVARIANTS
    DamageStaysInItsLine
CHECK_DEADLOCK FALSE
