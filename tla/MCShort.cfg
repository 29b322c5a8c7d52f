SPECIFICATION Spec
CONSTANT Calls <- ShortCalls
CONSTANT SkipVariant = "swar"
CONSTANT Simdutf8 = FALSE
CONSTANT LONG_THRESHOLD = 128
CONSTANT Multibyte = "dfa"
INVARIANT LoadsAllowed
INVARIANT Correct
PROPERTY SlowPathJustified
