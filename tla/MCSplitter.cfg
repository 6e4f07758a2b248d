\* split_note on every body of up to 4 lines of any kind, and longer ones of fewer kinds.
SPECIFICATION Spec
CONSTANTS
    Bodies <- MCBodies
    TargetChars = 14
    MaxChars = 20
    MinSectionChars = 6
    AnyLines = 4
    PlainLines = 7
    FencedLines = 5
INVARIANTS
    TypeOK
    PassagesWithinCap
    NothingLost
    ShortRunsWithinTarget
    ShortSectionsMerge
    LabelledByItsLongSection
