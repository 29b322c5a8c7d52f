SPECIFICATION Spec
CONSTANT Calls <- PlantedCalls
CONSTANT SkipVariant = "neon"
CONSTANT Simdutf8 = TRUE
CONSTANT LONG_THRESHOLD = 64
CONSTANT Multibyte = "dfa"
CONSTANT Lengths = {32, 33, 39, 63, 64}
CONSTANT Longest = 64
CONSTANT DoubleLength = 33
INVARIANT LoadsAllowed
INVARIANT SkipContract
PROPERTY EachStepAdvances
PROPERTY ImplementsValidator
