SPECIFICATION BufSpec
CONSTANT Endian = "big"
CONSTANT UsizeMax = 63
CONSTANT DebugAssertions = FALSE
CONSTANT Chunks <- SomeChunks
CONSTANT Offsets = {0, 5, 57}
CONSTANT MaxLen = 21
CONSTANT MaxViews = 2
CONSTANT MaxStrs = 2
INVARIANT BufInv
INVARIANT SlackKept
INVARIANT ContractKept
INVARIANT StrsSound
INVARIANT LoadedInSlice
INVARIANT PanicsAsDocumented
INVARIANT PayloadKept
