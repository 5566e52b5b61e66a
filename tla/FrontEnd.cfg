SPECIFICATION FrontSpec
CONSTANTS
    Styles <- Names
    Opens <- MCOpens
    Pieces <- MCPieces
    ColumnNames <- MCColumnNames
    MaxWords = 8
    MaxLong = 14
    MaxFragments = 3
    MaxInComment = 2
INVARIANTS
    LongestMatch
    AgreesWithGrammar
    ExpectedWereLegal
    OnlyCommentsSwallow
    TreeSaysStatement
    TurnsBounded
