----------------------------- MODULE LineFilter -----------------------------
(***************************************************************************)
(* A watcher's filter from its compilation to its end, and the lines it    *)
(* judges: watchDispatchServer parses a line into a table of fields        *)
(* (parseString in proto.c), deliver asks doFilter (filter.c) about it,    *)
(* and cleanFilter ends the filter.                                        *)
(*                                                                         *)
(* The table outlives the line.  parseString also reads one entry past the *)
(* end of each of its two arrays, and takes what it finds there for a      *)
(* value or a name unless it is null: Leftover holds the values that the   *)
(* memory behind the array of one line may hold, and protoEnd says whether *)
(* there is anything behind g_protoArray.                                  *)
(***************************************************************************)
EXTENDS FilterGrammar

CONSTANTS
    Conf,       \* the lines of proto.conf: [name, type]
    Line,       \* lines: [proto |-> whether it begins with '[', values |-> pri,
                \* from and the words in brackets]; a value is [text, num], and
                \* num is what atoi makes of its text
    Leftover,
    MaxLines    \* bound

g_hash_table_insert(table, key, value) ==
    [k \in DOMAIN table \cup {key} |-> IF k = key THEN value ELSE table[k]]

(* A name that is registered twice stands in the array twice.               *)
protoRegister(proto, entry) ==
    IF entry.type \notin {"string", "integer"} THEN proto
    ELSE [array |-> Append(proto.array, entry.name),
          map |-> g_hash_table_insert(proto.map, entry.name,
                                      IF entry.type = "string" THEN "STRING" ELSE "INTEGER")]

(* Every line has pri and from.                                             *)
protoExplore ==
    FoldLeft(protoRegister, [array |-> << >>, map |-> [f \in {} |-> ""]],
             <<[name |-> "pri", type |-> "integer"], [name |-> "from", type |-> "string"]>> \o Conf)

g_protoArray == protoExplore.array
g_protoNameMap == protoExplore.map

ASSUME ProtoAssumption ==
    /\ Conf \in Seq(Range(Conf))
    /\ Field = DOMAIN g_protoNameMap
    /\ \A l \in Line : l.values \in Seq(Range(l.values)) /\ (l.proto => Len(l.values) >= 2)
    /\ \A l \in Line : \A i \in DOMAIN l.values : l.values[i].num \in Int

VARIABLES
    parseTable, \* parsedMap: name |-> [type, text, value]
    protoEnd,   \* what lies behind g_protoArray: "null" or "unknown"
    verdict,    \* on the last line: "none", "ignored", "yes", "no", "crash"
    line,       \* history: the last line
    lines       \* history: how many there were

lineVars == <<parseTable, protoEnd, verdict, line, lines>>
vars == <<grammarVars, lineVars>>

Init ==
    /\ GrammarInit
    /\ parseTable = [f \in {} |-> 0]
    /\ protoEnd \in IF Leftover = {} THEN {"null"} ELSE {"null", "unknown"}
    /\ verdict = "none" /\ line = [proto |-> FALSE, values |-> << >>] /\ lines = 0

----------------------------------------------------------------------------
(***************************************************************************)
(* parseString.                                                            *)
(***************************************************************************)
(* newStrNode and newIntNode: the number of a string and the text of a      *)
(* number are not kept.                                                     *)
newNode(name, v) ==
    IF g_protoNameMap[name] = "STRING" THEN [type |-> "STRING", text |-> v.text, value |-> 0]
    ELSE [type |-> "INTEGER", text |-> "", value |-> v.num]

FilledOnce(table, values) ==
    FoldLeft(LAMBDA t, i : IF g_protoArray[i] \in DOMAIN t THEN t
                           ELSE g_hash_table_insert(t, g_protoArray[i], newNode(g_protoArray[i], values[i])),
             table, [i \in 1..Min({Len(values), Len(g_protoArray)}) |-> i])

(* Each value that has a name goes into the table.                          *)
Filled(table, values) ==
    FoldLeft(LAMBDA t, i : g_hash_table_insert(t, g_protoArray[i], newNode(g_protoArray[i], values[i])),
             table, [i \in 1..Min({Len(values), Len(g_protoArray)}) |-> i])

(* The values of a line as the loop sees them: what lies behind them may be *)
(* null at once or go on, at most as far as there are names.                *)
Seen(values) == {values \o tail : tail \in
    UNION {[1..n -> Leftover] : n \in {0} \cup 0..(Len(g_protoArray) + 1 - Len(values))}}

(* A value past the last name is no harm if g_protoArray ends in null;      *)
(* otherwise the name found there is not known, and the line is an error.   *)
ParseError(values) == Len(values) > Len(g_protoArray) /\ protoEnd = "unknown"

----------------------------------------------------------------------------
(***************************************************************************)
(* doFilter.                                                               *)
(***************************************************************************)
stringTest(op, val1, val2) == (op = "EQ" /\ val1 = val2) \/ (op = "NE" /\ val1 # val2)

(* val1 is the filter's, val2 the line's.                                   *)
integerTest(op, val1, val2) ==
    CASE op = "EQ" -> val2 = val1
      [] op = "NE" -> val2 # val1
      [] op = "GT" -> val2 > val1
      [] op = "GE" -> val2 >= val1
      [] op = "LT" -> val2 < val1
      [] op = "LE" -> val2 <= val1

(* The key of a number is the null pointer, which the hash function reads.  *)
cmpPattern(key, value, op, table) ==
    IF key.type = "INTEGER" THEN "crash"
    ELSE IF key.text \notin DOMAIN table THEN "no"
    ELSE LET node == table[key.text] IN
         IF node.type # value.type THEN "no"
         ELSE IF value.type = "INTEGER"
         THEN IF integerTest(op, value.value, node.value) THEN "yes" ELSE "no"
         ELSE IF stringTest(op, value.text, node.text) THEN "yes" ELSE "no"

(* What a node comes to, given what its children do.                        *)
testTree(h, table, V, n) ==
    LET c == h.node[n] IN
    CASE c.type # "TEST" -> "yes"
      [] c.op = "AND" -> IF V[c.val1] = "yes" THEN V[c.val2] ELSE V[c.val1]
      [] c.op = "OR" -> IF V[c.val1] = "no" THEN V[c.val2] ELSE V[c.val1]
      [] c.op = "EXISTS" -> "no"
      [] OTHER -> cmpPattern(h.node[c.val1], h.node[c.val2], c.op, table)

testNode(h, root, table) ==
    LET V[n \in 1..Len(h.node)] == testTree(h, table, V, n) IN V[root]

doFilter(table) == IF stRoot = 0 THEN "yes" ELSE testNode(heap, stRoot, table)

----------------------------------------------------------------------------
(* watchDispatchServer takes a line, parses it and, if that worked, lets    *)
(* the filter judge it.                                                     *)
Dispatch(l) ==
    /\ pc = "compiled" /\ verdict # "crash"
    /\ lines < MaxLines
    /\ lines' = lines + 1
    /\ line' = l
    /\ IF ~l.proto
          THEN verdict' = "ignored" /\ UNCHANGED parseTable
          ELSE \E values \in Seen(l.values) :
               /\ parseTable' = Filled(parseTable, values)
               /\ verdict' = IF ParseError(values) THEN "ignored" ELSE doFilter(parseTable')
    /\ UNCHANGED <<grammarVars, protoEnd>>

(* The watcher leaves: cleanFilter.                                         *)
cleanFilter ==
    /\ pc = "compiled" /\ verdict # "crash"
    /\ heap' = IF stRoot = 0 THEN heap ELSE stnode_free(heap, stRoot)
    /\ pc' = "cleaned"
    /\ UNCHANGED <<text, major, minor, yystack, yyerrcnt, tf, failure, parser, overflowed, lineVars>>

Next == (GrammarNext /\ UNCHANGED lineVars) \/ cleanFilter \/ \E l \in Line : Dispatch(l)

Spec == Init /\ [][Next]_vars /\ WF_vars(GrammarNext /\ UNCHANGED lineVars)

----------------------------------------------------------------------------
Reference == INSTANCE FilterMeaning WITH
    Name <- Field, And <- TOKEN_TEST_AND, Or <- TOKEN_TEST_OR, Word <- TOKEN_UNPARSED, Quoted <- TOKEN_STRING,
    Number <- TOKEN_INTEGER, Open <- TOKEN_LPAREN, Close <- TOKEN_RPAREN, Comparison <- RelOp

NodeSet == 0..Len(heap.node)

TypeOK ==
    /\ text \in Seq(Token)
    /\ pc \in {"compile", "lex", "parse", "finish", "compiled", "rejected", "cleaned"}
    /\ major \in 0..TOKEN_RPAREN /\ {minor, stRoot} \subseteq NodeSet
    /\ Len(yystack) <= YYSTACKDEPTH
    /\ \A i \in 1..Len(yystack) : /\ yystack[i].state \in 0..(YYNSTATE - 1)
                                  /\ yystack[i].node \in NodeSet
    /\ yyerrcnt \in Int
    /\ heap.live \subseteq NodeSet \ {0}
    /\ {syntaxError, errorMessage, failure, overflowed} \subseteq BOOLEAN
    /\ parser \in {"none", "live", "freed"}
    /\ DOMAIN parseTable \subseteq Field
    /\ verdict \in {"none", "ignored", "yes", "no", "crash"}

Compiled == pc \in {"compiled", "cleaned"}

(* A string is accepted if and only if the grammar derives it, and its tree *)
(* is the one the grammar gives it, as long as the parser's stack is deep   *)
(* enough.                                                                  *)
GoodTree == (~overflowed /\ Compiled) =>
    IF stRoot = 0 THEN text = << >> ELSE Shape(heap, stRoot) = Reference!Tree(text)

RejectsOnlyErrors == (~overflowed /\ pc = "rejected") =>
    \/ \E i \in 1..Len(text) : Fails(text[i])
    \/ text # << >> /\ Reference!Tree(text) = Reference!NoTree

(* What refers to the nodes: the stack, the token at hand, the filter, and  *)
(* the tests.                                                               *)
Owners(n) ==
    Cardinality({i \in 1..Len(yystack) : yystack[i].node = n})
    + (IF pc = "parse" /\ minor = n THEN 1 ELSE 0)
    + (IF pc \in {"finish", "compiled"} /\ stRoot = n THEN 1 ELSE 0)
    + Cardinality({m \in heap.live : heap.node[m].val1 = n})
    + Cardinality({m \in heap.live : heap.node[m].val2 = n})

(* No node is used after it was freed, freed twice or lost.                 *)
NodesOwned ==
    /\ heap.ok
    /\ ~overflowed => \A n \in heap.live : Owners(n) = 1
    /\ (~overflowed /\ pc \in {"rejected", "cleaned"}) => heap.live = {}

(* The server prints the message of a string that it rejects.               *)
Explained == pc = "rejected" => errorMessage

Complete == Len(line.values) >= Len(g_protoArray)

(* The fields that the last line itself has.                                *)
FieldsThere ==
    LET At(f) == {i \in 1..Min({Len(line.values), Len(g_protoArray)}) : g_protoArray[i] = f}
    IN [f \in {g \in Field : At(g) # {}} |-> newNode(f, line.values[Max(At(f))])]

(* A line with all its fields leaves nothing of the lines before it in the  *)
(* table that doFilter looks at.                                            *)
NothingStale == (verdict \in {"yes", "no", "crash"} /\ Complete) => parseTable = FieldsThere

(* A line with all its fields gets the verdict that its own fields give it, *)
(* whatever lines came before.                                              *)
JudgedByItself == (verdict \in {"yes", "no"} /\ ~overflowed /\ text # << >> /\ Complete)
    => (verdict = "yes" <=> Reference!Satisfies(text, FieldsThere))

(* "logwatch gets the lines that satisfy what it specified": a line that is *)
(* delivered has the fields that the filter asks for.                       *)
OnlyItsLines == (verdict = "yes" /\ ~overflowed /\ text # << >> /\ protoEnd = "null")
    => Reference!Satisfies(text, FieldsThere)

(* The compiler comes to an end with every string.                          *)
Compiles == <>(pc \notin {"compile", "lex", "parse", "finish"})
============================================================================
