SPECIFICATION WordSpec
CONSTANT Endian = "big"
CONSTANT Calls <- PlantedCalls
CONSTANT SkipVariant = "swar"
CONSTANT Simdutf8 = FALSE
CONSTANT LONG_THRESHOLD = 128
CONSTANT Multibyte = "dfa"
CONSTANT Lengths = {1, 2, 3, 4, 5, 7, 8, 17, 19}
CONSTANT Longest = 19
CONSTANT DoubleLength = 18
PROPERTY ImplementsLanes
