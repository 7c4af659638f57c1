CONSTANTS
    INT_MAX = 200
    KVS_MAX_TOKENS = 4
    KVS_ARRAY_SIZE = 3
    REPLY_RESERVE = 5
    VALUE_OVERHEAD = 8
    Count = 2
    Interval = 2
    Blog <- BlogText
    Slot <- Slots
    Session <- Sessions
    BUFFER_SIZE = 8
    Segment = 10
SPECIFICATION Spec
INVARIANTS StreamIntact RepliesInOrder  
 
