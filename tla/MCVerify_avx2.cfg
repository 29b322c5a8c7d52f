SPECIFICATION Spec
CONSTANT Calls <- PlantedCalls
CONSTANT SkipVariant = "avx2"
CONSTANT Simdutf8 = FALSE
CONSTANT LONG_THRESHOLD = 128
CONSTANT Multibyte = "dfa"
CONSTANT Lengths = {31, 32, 33, 40, 65}
CONSTANT Longest = 65
CONSTANT DoubleLength = 33
INVARIANT LoadsAllowed
INVARIANT SkipContract
INVARIANT Correct
PROPERTY SlowPathJustified
