\* A tilde line inside a backtick fence, and a heading in the code after it.
SPECIFICATION Spec
CONSTANTS
    Bodies <- MCBodies
    TargetChars = 14
    MaxChars = 20
    MinSectionChars = 6
    AnyLines = 1
    PlainLines = 1
    FencedLines = 4
INVARIANT
    CutsOutsideFences
