\* Lines with fewer fields than the line before them.
SPECIFICATION Spec
CONSTANTS
    Alphabet <- MCAlphabet
    MaxTokens = 1
    Scripts <- MCScripts
    Field <- MCField
    YYSTACKDEPTH = 7
    Conf <- MCConf
    Line <- MCLine
    Leftover = {}
    MaxLines = 2
INVARIANT OnlyItsLines

CHECK_DEADLOCK FALSE
