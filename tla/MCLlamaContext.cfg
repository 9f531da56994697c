SPECIFICATION Spec
CONSTANTS
    Requests <- MCRequests
    Piece <- MCPiece
    NCtx = 8
    NBatch = 2
INVARIANTS
    LogitsAreCurrent
    AccountIsTrue
    AnswerIsTheText
    StopsAreCutOut
