SPECIFICATION Spec
CONSTANT Calls <- PlantedCalls
CONSTANT SkipVariant = "swar"
CONSTANT Simdutf8 = FALSE
CONSTANT LONG_THRESHOLD = 128
CONSTANT Multibyte = "std"
CONSTANT Lengths = {2, 3, 4, 7, 8, 9, 16, 23}
CONSTANT Longest = 23
CONSTANT DoubleLength = 17
INVARIANT Inv
PROPERTY SlowPathJustified
