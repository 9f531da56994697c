SPECIFICATION FairSpec
CONSTANTS
    a = a
    b = b
    Contexts = {c, d}
    Tokens = {a, b}
    Prompts <- MCPrompts
    MaxNew = 2
    PromptKill = TRUE
INVARIANTS
    AnswersAreOwn
    ReuseIsExact
PROPERTIES
    CallsEnd
