SPECIFICATION Spec
CONSTANT Calls <- PlantedCalls
CONSTANT SkipVariant = "swar"
CONSTANT Simdutf8 = FALSE
CONSTANT LONG_THRESHOLD = 128
CONSTANT Multibyte = "dfa"
CONSTANT Lengths = {8, 9, 15, 16, 17, 24, 25, 33}
CONSTANT Longest = 33
CONSTANT DoubleLength = 25
INVARIANT TypeOK
INVARIANT LoadsAllowed
INVARIANT AsciiSoFar
INVARIANT StateIsRun
INVARIANT StateSummarises
PROPERTY SlowPathJustified
PROPERTY ImplementsValidator
