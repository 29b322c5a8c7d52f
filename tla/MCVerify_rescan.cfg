SPECIFICATION Spec
CONSTANT Calls <- PlantedCalls
CONSTANT SkipVariant = "neon"
CONSTANT Simdutf8 = FALSE
CONSTANT LONG_THRESHOLD = 64
CONSTANT Multibyte = "dfa"
CONSTANT Lengths = {32, 39}
CONSTANT Longest = 39
CONSTANT DoubleLength = 33
PROPERTY BlockRescanned
