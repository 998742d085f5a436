CONSTANTS
    EntSize = 3
    PagePerFrag = 8
    SctrPerPage = 2
    HeaderSctr = 16
    Word = 64
    TargetSize = {37, 61, 70}
    CacheFrags = {0, 1, 2, 3}
    None = None
SPECIFICATION CSpec
INVARIANTS CountsValid ChecksRange HitReadsDisk
