CONSTANTS
    NrThread = 2
    MinFree <- MCMinFree
    Target <- MCTarget
    Hundred = 2
    Word = 6
    NrFrag = 1
    Faults = {"run", "mem", "read", "write"}
    MaxReads = 7
SPECIFICATION FairSpec
CHECK_DEADLOCK FALSE
INVARIANT RateIsTrue
PROPERTY SomebodyPopulates
