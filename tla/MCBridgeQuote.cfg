CONSTANTS
    Asked = {0, 1, 2, 5, 11}
    Prices <- MCPrices
    Deltas <- MCDeltas
    BufferNum = 1
    BufferDen = 50
    Cut = 2
    Retries = 3
    Gas = 1
    Fee = 1
SPECIFICATION Spec
CHECK_DEADLOCK FALSE
INVARIANTS
    Suffices
    NothingLeft
    Delivers
