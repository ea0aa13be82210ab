\* Every string of up to five tokens, longer ones, and lines of several shapes.
SPECIFICATION Spec
CONSTANTS
    Alphabet <- MCAlphabet
    MaxTokens = 5
    Scripts <- MCScripts
    Field <- MCField
    YYSTACKDEPTH = 7
    Conf <- MCConf
    Line <- MCLine
    Leftover <- MCLeftover
    MaxLines = 2
INVARIANTS TypeOK GoodTree RejectsOnlyErrors NodesOwned Explained NothingStale JudgedByItself
PROPERTY Compiles
CHECK_DEADLOCK FALSE
