--------------------------- MODULE FilterMeaning ---------------------------
(***************************************************************************)
(* What the grammar of grammar.y says a sequence of tokens means, with no  *)
(* parser: TEST_AND binds weaker than TEST_OR, both group to the left, and *)
(* a comparison may go on (a == b == c).  The nesting is found by counting *)
(* brackets, so this is the reference that FilterGrammar is held against.  *)
(***************************************************************************)
EXTENDS Integers, Sequences, FiniteSetsExt

CONSTANTS Name, \* the names of fields
          And, Or, Word, Quoted, Number, Open, Close, \* codes of tokens
          Comparison \* code |-> name of the comparison, "" if it is none

IsEntity(t) == t.major \in {Word, Quoted, Number}

IsComparison(t) == t.major \in 1..Len(Comparison) /\ Comparison[t.major] # ""

Entity(t) == CASE t.major = Number -> <<"INTEGER", "", t.value>>
               [] t.major = Word /\ t.text \in Name -> <<"FIELD", t.text, 0>>
               [] OTHER -> <<"STRING", t.text, 0>>

Count(s, i, j, code) == Cardinality({k \in i..j : s[k].major = code})

(* The places in s[i..j] outside all brackets where code stands.            *)
Outside(s, i, j, code) ==
    {k \in (i + 1)..(j - 1) : /\ s[k].major = code
                              /\ Count(s, i, k, Open) = Count(s, i, k, Close)}

(* x == y == z: each neighbour is compared with the next.                   *)
IsChain(s, i, j) ==
    /\ i <= j /\ (j - i) % 2 = 0
    /\ \A k \in i..j : IF (k - i) % 2 = 0 THEN IsEntity(s[k]) ELSE IsComparison(s[k])

SameString(op, v, w) == (op = "EQ" /\ v = w) \/ (op = "NE" /\ v # w)

Ordered(op, v, w) == \/ op \in {"EQ", "LE", "GE"} /\ v = w
                     \/ op \in {"NE", "LT", "LE"} /\ v < w
                     \/ op \in {"NE", "GT", "GE"} /\ v > w

(* Whether a line satisfies a comparison: it has the field named on the     *)
(* left, of the type of the value on the right, and the relation holds.     *)
(* line maps the names of its fields to their values.                       *)
Compare(op, x, y, line) ==
    /\ x[1] # "INTEGER" /\ x[2] \in DOMAIN line
    /\ line[x[2]].type = y[1]
    /\ IF y[1] = "STRING" THEN SameString(op, line[x[2]].text, y[2])
       ELSE Ordered(op, line[x[2]].value, y[3])

(* What a part of the string is: its tree, and whether the line satisfies   *)
(* it.                                                                      *)
NoTree == <<"none">>
NoSentence == [tree |-> NoTree, holds |-> FALSE]

Both(op, l, r) ==
    [tree |-> IF NoTree \in {l.tree, r.tree} THEN NoTree ELSE <<op, l.tree, r.tree>>,
     holds |-> IF op = "AND" THEN l.holds /\ r.holds ELSE l.holds \/ r.holds]

(* No line satisfies a word alone.                                          *)
Alone(x) == [tree |-> <<"EXISTS", x>>, holds |-> FALSE]

Pair(op, x, y, line) == [tree |-> <<op, x, y>>, holds |-> Compare(op, x, y, line)]

(* s[i..j], given what each shorter part is.                                *)
Part(s, line, R, i, j) ==
    IF i > j THEN NoSentence
    ELSE IF Outside(s, i, j, And) # {}
        THEN LET k == Max(Outside(s, i, j, And)) IN Both("AND", R[i][k - 1], R[k + 1][j])
    ELSE IF Outside(s, i, j, Or) # {}
        THEN LET k == Max(Outside(s, i, j, Or)) IN Both("OR", R[i][k - 1], R[k + 1][j])
    ELSE IF s[i].major = Open /\ s[j].major = Close THEN R[i + 1][j - 1]
    ELSE IF ~IsChain(s, i, j) THEN NoSentence
    ELSE IF i = j THEN Alone(Entity(s[i]))
    ELSE LET first == Pair(Comparison[s[i + 1].major], Entity(s[i]), Entity(s[i + 2]), line)
         IN IF j = i + 2 THEN first ELSE Both("AND", first, R[i + 2][j])

Read(s, line) ==
    LET R[i \in 1..(Len(s) + 1)] == [j \in 0..Len(s) |-> Part(s, line, R, i, j)]
    IN R[1][Len(s)]

(* The tree of s, NoTree if s is not a sentence: it is the same for every   *)
(* line.                                                                    *)
NoLine == [f \in {} |-> 0]
Tree(s) == Read(s, NoLine).tree

(* Whether line satisfies the sentence s.                                   *)
Satisfies(s, line) == Read(s, line).holds
============================================================================
