---------------------------- MODULE MCLineFilter ----------------------------
(* Small instances of LineFilter: two fields besides pri and from, all      *)
(* short strings of some tokens, and longer strings that use the others.    *)
EXTENDS LineFilter

Of(code, string, number) == [major |-> code, text |-> string, value |-> number, good |-> TRUE]
Op(code) == Of(code, "", 0)
type == Of(TOKEN_UNPARSED, "type", 0)
port == Of(TOKEN_UNPARSED, "port", 0)
pri == Of(TOKEN_UNPARSED, "pri", 0)
tcp == Of(TOKEN_STRING, "tcp", 0)
n22 == Of(TOKEN_INTEGER, "", 22)

EQ == Op(3)
NE == Op(4)
LT == Op(5)
LE == Op(6)
GT == Op(7)
GE == Op(8)
AND == Op(TOKEN_TEST_AND)
OR == Op(TOKEN_TEST_OR)
LP == Op(TOKEN_LPAREN)
RP == Op(TOKEN_RPAREN)
Unterminated == Of(-1, "", 0)
TooBig == [Of(TOKEN_INTEGER, "", 0) EXCEPT !.good = FALSE]

MCAlphabet == {port, EQ, AND, OR, LP, RP}
MCScripts == {
    <<type, EQ, tcp, AND, port, GE, n22, OR, pri, LT, n22>>,
    <<LP, type, NE, tcp, OR, port, LE, n22, RP, AND, pri, GT, n22>>,
    <<type, NE, tcp, AND, n22, GE, port>>,
    <<type, EQ, type, OR, LP, port, NE, tcp, RP>>,
    <<pri, LT, port, LE, n22>>,
    <<port, EQ, n22, AND, Unterminated>>, <<port, EQ, n22, Unterminated>>,
    <<port, EQ, TooBig>>, <<n22, n22, TooBig>>,
    <<LP, LP, LP, LP, LP, LP, LP, port, EQ, n22>>}
MCField == {"pri", "from", "type", "port"}
MCConf == <<[name |-> "type", type |-> "string"], [name |-> "at", type |-> "time"],
            [name |-> "port", type |-> "integer"]>>
V(t, n) == [text |-> t, num |-> n]
MCLine == {
    [proto |-> TRUE, values |-> <<V("6", 6), V("here", 0), V("tcp", 0), V("22", 22)>>],
    [proto |-> TRUE, values |-> <<V("30", 30), V("here", 0), V("udp", 0), V("21", 21)>>],
    [proto |-> TRUE, values |-> <<V("6", 6), V("here", 0), V("udp", 0)>>],
    [proto |-> TRUE, values |-> <<V("30", 30), V("here", 0), V("tcp", 0), V("23", 23), V("more", 0)>>],
    [proto |-> TRUE, values |-> <<V("6", 6), V("here", 0), V("udp", 0), V("22", 22), V("more", 0), V("even", 0)>>],
    [proto |-> FALSE, values |-> << >>]}
MCLeftover == {V("old", 0)}
============================================================================
