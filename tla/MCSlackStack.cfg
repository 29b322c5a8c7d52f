SPECIFICATION StackSpec
CONSTANT Endian = "little"
CONSTANT Calls = {}
CONSTANT SkipVariant = "swar"
CONSTANT Simdutf8 = FALSE
CONSTANT LONG_THRESHOLD = 128
CONSTANT Multibyte = "dfa"
CONSTANT UsizeMax = 63
CONSTANT DebugAssertions = TRUE
CONSTANT Chunks <- FewChunks
CONSTANT Offsets = {0, 4, 57}
CONSTANT MaxLen = 19
CONSTANT MaxViews = 1
CONSTANT MaxStrs = 1
INVARIANT LoadsAllowed
INVARIANT PanicsAsDocumented
INVARIANT VerdictsRight
PROPERTY RequestAdvances
PROPERTY ImplementsSlackBuf
