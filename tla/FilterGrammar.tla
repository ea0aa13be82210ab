--------------------------- MODULE FilterGrammar ---------------------------
(***************************************************************************)
(* How a client's filter string becomes a tree of tests: compile1 takes    *)
(* tokens from the scanner and gives each one, with a node for it, to the  *)
(* parser that lemon made of grammar.y.  One step of the parser is one     *)
(* turn of the loop of Tfilter: a shift, a reduction or an error.          *)
(*                                                                         *)
(* A token is what the scanner found: its code, its text, the number the   *)
(* text stands for, and whether that number is one (good).  Which string   *)
(* the client sent is decided as the scanner reads it.                     *)
(***************************************************************************)
EXTENDS SyntaxTree, SequencesExt

CONSTANTS
    Alphabet,       \* tokens: every string of them of up to MaxTokens, and
    MaxTokens,      \* the sequences of Scripts with all they begin with, are
    Scripts,        \* what clients send
    Field,          \* the names that protoExist knows
    YYSTACKDEPTH

Token == Alphabet \cup UNION {Range(s) : s \in Scripts}

TOKEN_TEST_AND == 1
TOKEN_TEST_OR == 2
TOKEN_FIELD == 9
TOKEN_STRING == 10
TOKEN_UNPARSED == 11
TOKEN_INTEGER == 12
TOKEN_LPAREN == 13
TOKEN_RPAREN == 14
RelOp == <<"", "", "EQ", "NE", "LT", "LE", "GT", "GE">>

(* The scanner gives no TOKEN_FIELD, which parse would refuse, and what a   *)
(* token has no use for is "" or 0.                                         *)
ASSUME GrammarAssumption ==
    /\ MaxTokens \in Nat /\ YYSTACKDEPTH \in Nat \ {0}
    /\ Scripts \subseteq Seq(Token)
    /\ \A t \in Token : /\ t.good \in BOOLEAN /\ t.value \in Int
                        /\ t.major \in ({-1} \cup 1..14) \ {TOKEN_FIELD}
                        /\ IF t.major = TOKEN_INTEGER THEN t.text = "" ELSE t.value = 0

YYNSTATE == 25
YYNRULE == 20
YY_ERROR_ACTION == YYNSTATE + YYNRULE

yy_action == <<
    17, 16, 13, 12, 15, 14, 26, 21, 20, 19,
    18,  1,  5, 11,  4, 21, 20, 19, 18,  1,
    46,  8,  6, 24, 23, 21, 20, 19, 18,  9,
     6, 24, 23,  2, 22,  6, 24, 23,  7,  6,
    24, 23, 25,  3,  2,  3,  2, 47, 47, 47,
    47, 47, 47, 47, 47, 47, 47, 47, 10>>

yy_lookahead == <<
     3,  4,  5,  6,  7,  8,  0,  9, 10, 11,
    12, 13, 18, 19, 21,  9, 10, 11, 12, 13,
    16, 17, 18, 19, 20,  9, 10, 11, 12, 17,
    18, 19, 20,  2, 17, 18, 19, 20, 17, 18,
    19, 20,  0,  1,  2,  1,  2, 23, 23, 23,
    23, 23, 23, 23, 23, 23, 23, 23, 14>>

yy_shift_ofst == <<6, -2, -2, -2, 16, -3, -3, 44, 42, 31>>

yy_reduce_ofst == <<4, 21, 17, 12, -6, -7, -7>>

yy_defaultNoBrackets == <<
    45, 45, 45, 45, 45, 36, 31, 45, 45, 29,
    45, 37, 43, 42, 41, 40, 39, 38, 35, 34,
    33, 32, 30, 28, 27>>

yy_default == <<
    45, 45, 45, 45, 45, 36, 31, 45, 45, 29,
    44, 37, 43, 42, 41, 40, 39, 38, 35, 34,
    33, 32, 30, 28, 27>>

(* The left-hand side of a rule and the number of symbols on its right.     *)
yyRuleInfo == <<
    <<16, 1>>, <<16, 0>>, <<17, 1>>, <<17, 1>>, <<20, 3>>, <<20, 3>>, <<20, 1>>,
    <<18, 1>>, <<18, 1>>, <<18, 1>>, <<18, 1>>, <<19, 3>>, <<19, 3>>, <<21, 1>>,
    <<21, 1>>, <<21, 1>>, <<21, 1>>, <<21, 1>>, <<21, 1>>, <<17, 3>>>>

yy_find_shift_action(state, major) ==
    IF state >= Len(yy_shift_ofst) THEN yy_default[state + 1]
    ELSE LET i == yy_shift_ofst[state + 1] + major + 1
         IN IF i \in 1..Len(yy_action) /\ yy_lookahead[i] = major
            THEN yy_action[i] ELSE yy_default[state + 1]

yy_find_reduce_action(state, goto) == yy_action[yy_reduce_ofst[state + 1] + goto + 1]

VARIABLES
    text,       \* the tokens the scanner has found
    pc,         \* where compile1 is
    major,      \* the code of the token that Tfilter works on, 0 at the end
    minor,      \* and its node
    yystack,    \* the parser's stack, the top last
    yyerrcnt,
    heap,       \* the nodes
    stRoot,     \* tf: the root of the filter
    syntaxError,\* tf
    errorMessage, \* tf: whether there is one
    failure,    \* the local of compile1
    parser,     \* what TfilterAlloc gave: "live" or "freed"
    overflowed  \* history: the stack overflowed

tf == <<stRoot, syntaxError, errorMessage>>
grammarVars == <<text, pc, major, minor, yystack, yyerrcnt, heap, tf, failure, parser, overflowed>>

Bottom == [state |-> 0, major |-> 0, node |-> 0, op |-> ""]

GrammarInit ==
    /\ text = << >> /\ pc = "compile"
    /\ major = 0 /\ minor = 0
    /\ yystack = << >> /\ yyerrcnt = 0
    /\ heap = NoMemory
    /\ stRoot = 0 /\ syntaxError = FALSE /\ errorMessage = FALSE
    /\ failure = FALSE /\ parser = "none" /\ overflowed = FALSE

----------------------------------------------------------------------------
(***************************************************************************)
(* compile and the scanner's side of compile1.                             *)
(***************************************************************************)
(* The string "all" does not go through the parser.                         *)
CompileAll ==
    /\ pc = "compile"
    /\ pc' = "compiled"
    /\ UNCHANGED <<text, major, minor, yystack, yyerrcnt, heap, tf, failure, parser, overflowed>>

Compile ==
    /\ pc = "compile"
    /\ parser' = "live"
    /\ pc' = "lex"
    /\ UNCHANGED <<text, major, minor, yystack, yyerrcnt, heap, tf, failure, overflowed>>

(* Tfilter is called; an empty stack is set up anew.                        *)
Tfilter(yymajor, node) ==
    /\ major' = yymajor /\ minor' = node
    /\ yystack' = IF yystack = << >> THEN <<Bottom>> ELSE yystack
    /\ yyerrcnt' = IF yystack = << >> THEN -1 ELSE yyerrcnt
    /\ pc' = "parse"

(* No more tokens: the node that waits for the next one goes.               *)
EndOfText == Tfilter(0, 0) /\ heap' = stnode_free(stnode_new(heap), Fresh(heap))

Fails(t) == t.major = -1 \/ (t.major = TOKEN_INTEGER /\ ~t.good)

NodeType(t) ==
    CASE t.major = TOKEN_UNPARSED -> IF t.text \in Field THEN "FIELD" ELSE "STRING"
      [] t.major = TOKEN_STRING -> "STRING"
      [] t.major = TOKEN_INTEGER -> "INTEGER"

ExplainNot == UNCHANGED errorMessage

Explain == errorMessage' = TRUE

(* An unterminated string, or a number that parse refuses, ends the string  *)
(* where it is.                                                             *)
ScanFailed(t) ==
    /\ Fails(t)
    /\ failure' = TRUE
    /\ Explain
    /\ EndOfText

Scanned(t) ==
    /\ ~Fails(t)
    /\ heap' = IF t.major \in {TOKEN_UNPARSED, TOKEN_STRING, TOKEN_INTEGER}
               THEN stnode_init(stnode_new(heap), Fresh(heap), NodeType(t), t.text, t.value)
               ELSE stnode_new(heap)
    /\ Tfilter(t.major, Fresh(heap))
    /\ UNCHANGED <<failure, errorMessage>>

MayFollow(t) ==
    \/ t \in Alphabet /\ Len(text) < MaxTokens /\ text \in Seq(Alphabet)
    \/ \E s \in Scripts : IsPrefix(Append(text, t), s)

Lex ==
    /\ pc = "lex"
    /\ \/ \E t \in Token : /\ MayFollow(t)
                           /\ text' = Append(text, t)
                           /\ ScanFailed(t) \/ Scanned(t)
       \/ EndOfText /\ UNCHANGED <<text, failure, errorMessage>>
    /\ UNCHANGED <<stRoot, syntaxError, parser, overflowed>>

----------------------------------------------------------------------------
(***************************************************************************)
(* The parser.                                                             *)
(***************************************************************************)
Act == yy_find_shift_action(Last(yystack).state, major)

(* The top of the stack is Rhs(0).                                          *)
Rhs(k) == yystack[Len(yystack) - k]

(* All nodes on the stack are freed.                                        *)
PopAll(h, stack) ==
    FoldLeft(LAMBDA g, e : IF e.node = 0 THEN g ELSE stnode_free(g, e.node), h, stack)

(* Tfilter returns to compile1.                                             *)
Return == pc' = IF major = 0 THEN "finish" ELSE "lex"

FullLate == Len(yystack) > YYSTACKDEPTH

Full == Len(yystack) = YYSTACKDEPTH

(* A stack that is full loses all it holds, and the token.                  *)
Shift ==
    /\ pc = "parse" /\ Act < YYNSTATE
    /\ IF Full
          THEN yystack' = << >> /\ heap' = PopAll(heap, yystack) /\ overflowed' = TRUE
          ELSE /\ yystack' = Append(yystack, [state |-> Act, major |-> major, node |-> minor, op |-> ""])
               /\ UNCHANGED <<heap, overflowed>>
    /\ yyerrcnt' = yyerrcnt - 1
    /\ Return
    /\ UNCHANGED <<text, major, minor, tf, failure, parser>>

Reducing(rule) == pc = "parse" /\ Act = YYNSTATE + rule

(* The symbols on the right of the rule give way to the one on its left.    *)
Becomes(rule, node, op) ==
    LET lhs == yyRuleInfo[rule + 1][1]
        below == SubSeq(yystack, 1, Len(yystack) - yyRuleInfo[rule + 1][2])
    IN /\ yystack' = Append(below, [state |-> yy_find_reduce_action(Last(below).state, lhs),
                                    major |-> lhs, node |-> node, op |-> op])
       /\ UNCHANGED <<text, pc, major, minor, yyerrcnt, tf, failure, parser, overflowed>>

(* sentence ::= expr and sentence ::= , after which the parser accepts.     *)
ReduceSentence == \E rule \in {0, 1} :
    /\ Reducing(rule)
    /\ stRoot' = IF rule = 0 THEN Rhs(0).node ELSE 0
    /\ heap' = PopAll(heap, SubSeq(yystack, 1, Len(yystack) - yyRuleInfo[rule + 1][2]))
    /\ yystack' = << >>
    /\ Return
    /\ UNCHANGED <<text, major, minor, yyerrcnt, syntaxError, errorMessage, failure, parser, overflowed>>

(* expr ::= relation_test | logical_test, and entity ::= a token.           *)
ReduceUnit == \E rule \in {2, 3, 7, 8, 9, 10} :
    Reducing(rule) /\ Becomes(rule, Rhs(0).node, "") /\ UNCHANGED heap

(* logical_test ::= expr TEST_AND expr | expr TEST_OR expr                  *)
ReduceLogical == \E rule \in {4, 5} :
    /\ Reducing(rule)
    /\ heap' = stnode_free(new_test(heap, IF rule = 4 THEN "AND" ELSE "OR", Rhs(2).node, Rhs(0).node),
                           Rhs(1).node)
    /\ Becomes(rule, Fresh(heap), "")

(* logical_test ::= entity                                                  *)
ReduceExists ==
    /\ Reducing(6)
    /\ heap' = new_test(heap, "EXISTS", Rhs(0).node, 0)
    /\ Becomes(6, Fresh(heap), "")

(* relation_test ::= entity rel_op2 entity                                  *)
ReduceRelation ==
    /\ Reducing(11)
    /\ heap' = new_test(heap, Rhs(1).op, Rhs(2).node, Rhs(0).node)
    /\ Becomes(11, Fresh(heap), "")

Rightmost(h, root) ==
    LET F[n \in 1..Len(h.node)] == IF h.node[n].type = "TEST" THEN F[h.node[n].val2] ELSE n
    IN F[root]

Leftmost(h, root) ==
    LET F[n \in 1..Len(h.node)] == IF h.node[n].type = "TEST" THEN F[h.node[n].val1] ELSE n
    IN F[root]

ChainSharing(h, op, val1, rest) ==
    new_test(new_test(h, op, val1, Leftmost(h, rest)), "AND", Fresh(h), rest)

Chain(h, op, val1, rest) ==
    LET L == Fresh(h)
        h1 == stnode_dup(new_test(h, op, val1, L + 1), Leftmost(h, rest))
    IN new_test(h1, "AND", L, rest)

(* relation_test ::= entity rel_op2 relation_test: a == b == c is a == b    *)
(* and b == c, and the b of the first is a copy.                            *)
ReduceChain ==
    /\ Reducing(12)
    /\ heap' = Chain(heap, Rhs(1).op, Rhs(2).node, Rhs(0).node)
    /\ Becomes(12, Len(heap'.node), "")

(* rel_op2 ::= one of the comparisons                                       *)
ReduceOp == \E rule \in 13..18 :
    /\ Reducing(rule)
    /\ heap' = stnode_free(heap, Rhs(0).node)
    /\ Becomes(rule, 0, RelOp[Rhs(0).major])

(* expr ::= LPAREN expr RPAREN                                              *)
ReduceBrackets ==
    /\ Reducing(19)
    /\ heap' = stnode_free(stnode_free(stnode_set_bracket(heap, Rhs(1).node), Rhs(2).node), Rhs(0).node)
    /\ Becomes(19, Rhs(1).node, "")

Kept == pc' = IF major = 0 THEN "finish" ELSE pc

ThrownAway == Return

Reported == yyerrcnt <= 0

(* The token is thrown away; at the end of the string the parse fails.      *)
SyntaxError ==
    /\ pc = "parse" /\ Act = YY_ERROR_ACTION
    /\ errorMessage' = (errorMessage \/ Reported)
    /\ syntaxError' = (syntaxError \/ Reported \/ major = 0)
    /\ yyerrcnt' = 3
    /\ IF major = 0
          THEN yystack' = << >> /\ heap' = PopAll(heap, yystack)
          ELSE heap' = stnode_free(heap, minor) /\ UNCHANGED yystack
    /\ ThrownAway
    /\ UNCHANGED <<text, major, minor, stRoot, failure, parser, overflowed>>

Reduce == \/ ReduceSentence \/ ReduceUnit \/ ReduceLogical \/ ReduceExists
          \/ ReduceRelation \/ ReduceChain \/ ReduceOp \/ ReduceBrackets

(* compile1 ends.  The parser is freed only if the filter is good.          *)
Accepted ==
    /\ pc = "finish" /\ ~failure /\ ~syntaxError
    /\ heap' = PopAll(heap, yystack) /\ yystack' = << >>
    /\ parser' = "freed"
    /\ pc' = "compiled"
    /\ UNCHANGED <<text, major, minor, yyerrcnt, tf, failure, overflowed>>

Rejected ==
    /\ pc = "finish" /\ (failure \/ syntaxError)
    /\ heap' = IF stRoot = 0 THEN heap ELSE stnode_free(heap, stRoot)
    /\ pc' = "rejected"
    /\ UNCHANGED <<text, major, minor, yystack, yyerrcnt, tf, failure, parser, overflowed>>

GrammarNext == \/ CompileAll \/ Compile \/ Lex \/ Shift \/ Reduce \/ SyntaxError
               \/ Accepted \/ Rejected
============================================================================
