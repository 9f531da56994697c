SPECIFICATION Spec
CONSTANTS
    a = a
    b = b
    Contexts = {c, d}
    Tokens = {a, b}
    Prompts <- MCPrompts
    MaxNew = 2
    PromptKill = FALSE
INVARIANTS
    ReloadsAfterStop
