\* Every format of up to four tokens, and argument lists; memory runs out anywhere.
\* Some commands are longer than an int counts.
SPECIFICATION Spec
CONSTANTS
    IntMax = 127
    Formats <- MCFormats
    Arguments <- MCArguments
INVARIANTS
    WordsOfFormat
    FitsBuffer
    AllFreed
CHECK_DEADLOCK FALSE
