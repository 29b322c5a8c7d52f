SPECIFICATION WordSpec
CONSTANT Endian = "little"
CONSTANT Calls <- PlantedCalls
CONSTANT SkipVariant = "neon"
CONSTANT Simdutf8 = FALSE
CONSTANT LONG_THRESHOLD = 128
CONSTANT Multibyte = "dfa"
CONSTANT Lengths = {32, 41}
CONSTANT Longest = 41
CONSTANT DoubleLength = 18
PROPERTY ImplementsLanes
