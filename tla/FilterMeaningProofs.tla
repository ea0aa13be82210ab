------------------------- MODULE FilterMeaningProofs -------------------------
(***************************************************************************)
(* The parser against the grammar: the filter that compile1 makes of a     *)
(* string is the tree that FilterMeaning gives it, only strings that are   *)
(* no sentences are refused, and what doFilter says of a line is what the  *)
(* string says; for any strings, fields and lines, up to the depth of the  *)
(* parser's stack.                                                         *)
(*                                                                         *)
(* The invariant TextRead says what the parser has read: each symbol on    *)
(* the stack stands for a part of the string, and its node has the tree    *)
(* and the truth of that part.                                             *)
(***************************************************************************)
EXTENDS LineFilterProofs

----------------------------------------------------------------------------
(***************************************************************************)
(* What the parser has read.  Every symbol on the stack stands for a part  *)
(* of the string; ends[p] is where the part of yystack[p] ends.            *)
(***************************************************************************)
Meant(s, table) ==
    LET R[i \in 1..(Len(s) + 1)] == [j \in 0..Len(s) |-> Reference!Part(s, table, R, i, j)]
    IN R

Depth(s, i, k) == Reference!Count(s, i, k, TOKEN_LPAREN) - Reference!Count(s, i, k, TOKEN_RPAREN)

Free(s, i, j, code) == Reference!Outside(s, i, j, code) = {}

Starts(t) == Reference!IsEntity(t) \/ t.major = TOKEN_LPAREN
Ends(t) == Reference!IsEntity(t) \/ t.major = TOKEN_RPAREN

Balanced(s, i, j) ==
    /\ i \in 1..Len(s) /\ j \in i..Len(s)
    /\ Starts(s[i]) /\ Ends(s[j])
    /\ Depth(s, i, j) = 0 /\ \A k \in i..j : Depth(s, i, k) >= 0

IsLine(table) == \A f \in DOMAIN table : /\ table[f].type \in {"STRING", "INTEGER"}
                                         /\ table[f].value \in Int

(* The tree at n is that of s[i..j], and says of each line what that says.  *)
Means(h, n, s, i, j) ==
    /\ n \in 1..Size(h) /\ Shape(h, n) # Reference!NoTree
    /\ \A table : IsLine(table) =>
          /\ Shape(h, n) = Meant(s, table)[i][j].tree
          /\ testNode(h, n, table) # "crash" =>
                (testNode(h, n, table) = "yes" <=> Meant(s, table)[i][j].holds)

IsEntityNode(h, n, t) ==
    /\ n \in 1..Size(h) /\ ~IsTest(h, n)
    /\ <<h.node[n].type, h.node[n].text, h.node[n].value>> = Reference!Entity(t)

(* What the symbol of e says of s[i..j].                                    *)
Stands(h, e, s, i, j) ==
    /\ e.major \in 1..14 => i = j /\ s[i].major = e.major
    /\ e.major \in 10..12 => IsEntityNode(h, e.node, s[i])
    /\ e.major = 18 => i = j /\ Reference!IsEntity(s[i]) /\ IsEntityNode(h, e.node, s[i])
    /\ e.major = 21 => i = j /\ Reference!IsComparison(s[i]) /\ e.op = RelOp[s[i].major]
    /\ e.major = 19 => /\ Reference!IsChain(s, i, j) /\ i < j
                       /\ IsEntityNode(h, Leftmost(h, e.node), s[i])
    /\ e.major \in {17, 20} => Balanced(s, i, j)
    /\ e.major \in {17, 19, 20} => Means(h, e.node, s, i, j)

(* TEST_AND binds weaker than TEST_OR, and both group to the left: next is  *)
(* the symbol that comes after s[i..j].                                     *)
Binds(below, next, s, i, j) ==
    /\ below = 3 \/ (below \in {0, 1} /\ next = TOKEN_TEST_OR) => Free(s, i, j, TOKEN_TEST_AND)
    /\ below = 2 => Free(s, i, j, TOKEN_TEST_AND) /\ Free(s, i, j, TOKEN_TEST_OR)

(* A word before a comparison is an operand of it.                          *)
Operand(next, s, j) == Reference!IsEntity(s[j]) => next \notin 3..8

(* What stands for s[i..j], above the state below and before the symbol     *)
(* next.                                                                    *)
Covered(h, e, below, next, s, i, j) ==
    /\ i <= j /\ Stands(h, e, s, i, j)
    /\ e.major \in {17, 19, 20} => Binds(below, next, s, i, j) /\ Operand(next, s, j)

After(stack, next, p) == IF p < Len(stack) THEN stack[p + 1].major ELSE next

(* The stack stands for the first tokens of s, as many as were taken.       *)
Spans(h, stack, s, next, taken, ends) ==
    /\ ends \in [1..Len(stack) -> 0..taken] /\ ends[1] = 0 /\ ends[Len(stack)] = taken
    /\ \A p \in 2..Len(stack) :
          Covered(h, stack[p], stack[p - 1].state, After(stack, next, p), s, ends[p - 1] + 1, ends[p])

Taken == IF pc = "parse" /\ major # 0 THEN Len(text) - 1 ELSE Len(text)

Clean == ~failure /\ ~syntaxError /\ ~overflowed

TokenAtHand == (pc = "parse" /\ major # 0) =>
    /\ text # << >> /\ text[Len(text)].major = major
    /\ major \in 10..12 => IsEntityNode(heap, minor, text[Len(text)])

Reads == (Clean /\ pc \in {"lex", "parse"}) =>
    /\ yyerrcnt <= 0
    /\ TokenAtHand
    /\ yystack = << >> => pc = "lex" /\ text = << >>
    /\ yystack # << >> => \E ends : Spans(heap, yystack, text, major, Taken, ends)
    /\ (pc = "lex" /\ yystack # << >>) => Last(yystack).major \in 0..14

HasRead == (Clean /\ pc \in {"finish", "compiled", "cleaned"}) =>
    IF stRoot = 0 THEN text = << >> ELSE Means(heap, stRoot, text, 1, Len(text)) /\ text # << >>

(* Why a string is no sentence: two tokens that cannot be neighbours, a     *)
(* first one that cannot be the first, or a bracket that was never opened;  *)
(* and at the end one that cannot be the last, or an open bracket.          *)
Follows(t, u) ==
    IF Reference!IsEntity(t) THEN Reference!IsComparison(u) \/ u.major \in {TOKEN_TEST_AND, TOKEN_TEST_OR, TOKEN_RPAREN}
    ELSE IF t.major = TOKEN_RPAREN THEN u.major \in {TOKEN_TEST_AND, TOKEN_TEST_OR, TOKEN_RPAREN}
    ELSE IF Reference!IsComparison(t) THEN Reference!IsEntity(u)
    ELSE Starts(u)

Doomed(s) == s # << >> /\
    \/ ~Starts(s[1])
    \/ \E k \in 1..(Len(s) - 1) : ~Follows(s[k], s[k + 1])
    \/ \E k \in 1..Len(s) : Depth(s, 1, k) < 0

DoomedAtEnd(s) == s # << >> /\
    \/ ~Ends(s[Len(s)])
    \/ \E k \in 1..Len(s) : Depth(s, k, Len(s)) > 0

Misread == (syntaxError /\ ~failure /\ ~overflowed) =>
    Doomed(text) \/ (pc \notin {"lex", "parse"} /\ DoomedAtEnd(text))

Failed == failure => \E i \in 1..Len(text) : Fails(text[i])

Ended == /\ pc \in {"compiled", "cleaned"} => ~failure /\ ~syntaxError
         /\ pc = "rejected" => failure \/ syntaxError

----------------------------------------------------------------------------
(***************************************************************************)
(* Counting brackets.                                                      *)
(***************************************************************************)
(* The reference counts and takes maxima as this module does.               *)
LEMMA CardinalityThere == \A S : Reference!Cardinality(S) = Cardinality(S)
BY DEF Reference!Cardinality, Cardinality

LEMMA MaxThere == \A S : Reference!Max(S) = Max(S)
BY DEF Reference!Max, Max

Those(s, i, k, c) == {m \in i..k : s[m].major = c}

LEMMA FewIn ==
    ASSUME NEW s, NEW c, NEW i \in Int, NEW k \in Int
    PROVE  IsFiniteSet(Those(s, i, k, c))
<1>1. IsFiniteSet(i..k)
  BY FS_Interval
<1>2. Those(s, i, k, c) \in SUBSET (i..k)
  BY DEF Those
<1>. QED
  BY <1>1, <1>2, FS_Subset

LEMMA CountIs ==
    ASSUME NEW s, NEW c, NEW i \in Int, NEW k \in Int
    PROVE  /\ Reference!Count(s, i, k, c) \in Nat
           /\ k < i => Reference!Count(s, i, k, c) = 0
           /\ i = k => Reference!Count(s, i, k, c) = IF s[i].major = c THEN 1 ELSE 0
<1>. DEFINE S == {m \in i..k : s[m].major = c}
<1>1. IsFiniteSet(S) /\ Cardinality(S) \in Nat
  <2>1. IsFiniteSet(Those(s, i, k, c))
    BY FewIn
  <2>. QED
    BY <2>1, FS_CardinalityType DEF Those
<1>2. Reference!Count(s, i, k, c) = Cardinality(S)
  BY CardinalityThere DEF Reference!Count
<1>3. k < i => Cardinality(S) = 0
  BY Empty
<1>4. ASSUME i = k PROVE Cardinality(S) = IF s[i].major = c THEN 1 ELSE 0
  <2>1. \A m \in S : m = i
    BY <1>4
  <2>2. s[i].major = c => i \in S
    BY <1>4
  <2>. HIDE DEF S
  <2>3. CASE s[i].major = c
    BY <2>1, <2>2, <2>3, Single
  <2>4. CASE s[i].major # c
    BY <1>4, <2>4, Empty DEF S
  <2>. QED
    BY <2>3, <2>4
<1>. QED
  BY <1>1, <1>2, <1>3, <1>4

LEMMA CountSplit ==
    ASSUME NEW s, NEW c, NEW i \in Int, NEW m \in Int, NEW k \in Int, i <= m + 1, m <= k
    PROVE  Reference!Count(s, i, k, c) = Reference!Count(s, i, m, c) + Reference!Count(s, m + 1, k, c)
<1>. DEFINE S == {x \in i..m : s[x].major = c}
            T == {x \in (m + 1)..k : s[x].major = c}
            U == {x \in i..k : s[x].major = c}
<1>1. IsFiniteSet(S) /\ IsFiniteSet(T)
  <2>1. IsFiniteSet(Those(s, i, m, c)) /\ IsFiniteSet(Those(s, m + 1, k, c))
    BY FewIn
  <2>. QED
    BY <2>1 DEF Those
<1>2. U = S \cup T /\ S \cap T = {}
  <2>1. i..k = (i..m) \cup ((m + 1)..k) /\ (i..m) \cap ((m + 1)..k) = {}
    OBVIOUS
  <2>. QED
    BY <2>1
<1>3. Cardinality(S) \in Nat /\ Cardinality(T) \in Nat
  BY <1>1, FS_CardinalityType
<1>. HIDE DEF S, T, U
<1>4. Cardinality(U) = Cardinality(S) + Cardinality(T) - Cardinality(S \cap T)
  BY <1>1, <1>2, FS_Union
<1>5. Cardinality(S \cap T) = 0
  BY <1>2, FS_EmptySet
<1>6. Cardinality(U) = Cardinality(S) + Cardinality(T)
  BY <1>3, <1>4, <1>5
<1>. QED
  BY <1>6, CardinalityThere DEF Reference!Count, S, T, U

LEMMA DepthIs ==
    ASSUME NEW s, NEW i \in Int, NEW k \in Int
    PROVE  /\ Depth(s, i, k) \in Int
           /\ k < i => Depth(s, i, k) = 0
           /\ i = k => Depth(s, i, k) = IF s[i].major = TOKEN_LPAREN THEN 1
                                        ELSE IF s[i].major = TOKEN_RPAREN THEN -1 ELSE 0
<1>1. /\ Reference!Count(s, i, k, TOKEN_LPAREN) \in Nat
      /\ k < i => Reference!Count(s, i, k, TOKEN_LPAREN) = 0
      /\ i = k => Reference!Count(s, i, k, TOKEN_LPAREN) = IF s[i].major = TOKEN_LPAREN THEN 1 ELSE 0
  BY CountIs
<1>2. /\ Reference!Count(s, i, k, TOKEN_RPAREN) \in Nat
      /\ k < i => Reference!Count(s, i, k, TOKEN_RPAREN) = 0
      /\ i = k => Reference!Count(s, i, k, TOKEN_RPAREN) = IF s[i].major = TOKEN_RPAREN THEN 1 ELSE 0
  BY CountIs
<1>3. TOKEN_LPAREN # TOKEN_RPAREN
  BY DEF TOKEN_LPAREN, TOKEN_RPAREN
<1>. QED
  BY <1>1, <1>2, <1>3 DEF Depth

LEMMA DepthSplit ==
    ASSUME NEW s, NEW i \in Int, NEW m \in Int, NEW k \in Int, i <= m + 1, m <= k
    PROVE  Depth(s, i, k) = Depth(s, i, m) + Depth(s, m + 1, k)
<1>1. /\ Reference!Count(s, i, k, TOKEN_LPAREN)
             = Reference!Count(s, i, m, TOKEN_LPAREN) + Reference!Count(s, m + 1, k, TOKEN_LPAREN)
      /\ Reference!Count(s, i, k, TOKEN_RPAREN)
             = Reference!Count(s, i, m, TOKEN_RPAREN) + Reference!Count(s, m + 1, k, TOKEN_RPAREN)
  BY CountSplit
<1>2. \A c : /\ Reference!Count(s, i, k, c) \in Nat /\ Reference!Count(s, i, m, c) \in Nat
             /\ Reference!Count(s, m + 1, k, c) \in Nat
  BY CountIs
<1>. QED
  BY <1>1, <1>2 DEF Depth

LEMMA DepthSame ==
    ASSUME NEW s, NEW t, NEW i \in Int, NEW k \in Int, \A m \in i..k : s[m] = t[m]
    PROVE  Depth(s, i, k) = Depth(t, i, k)
<1>1. \A c : {m \in i..k : s[m].major = c} = {m \in i..k : t[m].major = c}
  OBVIOUS
<1>. QED
  BY <1>1 DEF Depth, Reference!Count

----------------------------------------------------------------------------
(***************************************************************************)
(* Parts of a string.                                                      *)
(***************************************************************************)
LEMMA OutsideIs ==
    ASSUME NEW s, NEW i \in Int, NEW j \in Int, NEW c
    PROVE  Reference!Outside(s, i, j, c) = {k \in (i + 1)..(j - 1) : s[k].major = c /\ Depth(s, i, k) = 0}
<1>1. ASSUME NEW k \in (i + 1)..(j - 1)
      PROVE  Depth(s, i, k) = 0 <=>
                Reference!Count(s, i, k, TOKEN_LPAREN) = Reference!Count(s, i, k, TOKEN_RPAREN)
  <2>1. k \in Int
    OBVIOUS
  <2>2. \A c1 : Reference!Count(s, i, k, c1) \in Nat
    BY <2>1, CountIs
  <2>. QED
    BY <2>2 DEF Depth
<1>. QED
  BY <1>1 DEF Reference!Outside

LEMMA GreatestIs ==
    ASSUME NEW I \in SUBSET Int, NEW k \in I, \A m \in I : m <= k
    PROVE  Max(I) = k
<1>1. \A x \in I : (\A y \in I : x >= y) => x = k
  OBVIOUS
<1>2. \A y \in I : k >= y
  OBVIOUS
<1>. QED
  BY <1>1, <1>2 DEF Max

Junctions == {TOKEN_TEST_AND, TOKEN_TEST_OR}

LEMMA Codes ==
    /\ TOKEN_TEST_AND = 1 /\ TOKEN_TEST_OR = 2 /\ TOKEN_LPAREN = 13 /\ TOKEN_RPAREN = 14
    /\ Junctions = {1, 2}
    /\ \A t : Reference!IsEntity(t) <=> t.major \in {10, 11, 12}
    /\ \A t : Reference!IsComparison(t) <=> t.major \in 3..8
    /\ \A t : Starts(t) <=> t.major \in {10, 11, 12, 13}
    /\ \A t : Ends(t) <=> t.major \in {10, 11, 12, 14}
<1>. USE DEF TOKEN_TEST_AND, TOKEN_TEST_OR, TOKEN_LPAREN, TOKEN_RPAREN, TOKEN_UNPARSED, TOKEN_STRING, TOKEN_INTEGER
<1>1. \A t : Reference!IsEntity(t) <=> t.major \in {10, 11, 12}
  BY DEF Reference!IsEntity
<1>2. \A t : Reference!IsComparison(t) <=> t.major \in 3..8
  <2>1. /\ Len(RelOp) = 8 /\ RelOp[1] = "" /\ RelOp[2] = "" /\ RelOp[3] # "" /\ RelOp[4] # ""
        /\ RelOp[5] # "" /\ RelOp[6] # "" /\ RelOp[7] # "" /\ RelOp[8] # ""
    BY DEF RelOp
  <2>. SUFFICES ASSUME NEW t PROVE Reference!IsComparison(t) <=> t.major \in 3..8
    OBVIOUS
  <2>2. Reference!IsComparison(t) <=> t.major \in 1..Len(RelOp) /\ RelOp[t.major] # ""
    BY DEF Reference!IsComparison
  <2>. DEFINE m == t.major
  <2>. HIDE DEF m
  <2>3. m \in 1..8 <=> m = 1 \/ m = 2 \/ m = 3 \/ m = 4 \/ m = 5 \/ m = 6 \/ m = 7 \/ m = 8
    OBVIOUS
  <2>4. m \in 3..8 <=> m = 3 \/ m = 4 \/ m = 5 \/ m = 6 \/ m = 7 \/ m = 8
    OBVIOUS
  <2>. QED
    BY <2>1, <2>2, <2>3, <2>4 DEF m
<1>3. \A t : Starts(t) <=> t.major \in {10, 11, 12, 13}
  BY <1>1 DEF Starts
<1>4. \A t : Ends(t) <=> t.major \in {10, 11, 12, 14}
  BY <1>1 DEF Ends
<1>. QED
  BY <1>1, <1>2, <1>3, <1>4 DEF Junctions

LEMMA EntityPart ==
    ASSUME NEW s, Len(s) \in Nat, NEW i \in 1..Len(s), Reference!IsEntity(s[i])
    PROVE  Balanced(s, i, i) /\ \A c : Free(s, i, i, c)
<1>1. i \in Int /\ i \in i..Len(s)
  OBVIOUS
<1>2. s[i].major \in {10, 11, 12}
  BY Codes
<1>3. Depth(s, i, i) = 0
  BY <1>1, <1>2, DepthIs, Codes
<1>4. \A k \in i..i : k = i
  BY <1>1
<1>5. Balanced(s, i, i)
  BY <1>1, <1>2, <1>3, <1>4, Codes DEF Balanced
<1>6. (i + 1)..(i - 1) = {}
  BY <1>1
<1>. QED
  BY <1>1, <1>5, <1>6, OutsideIs DEF Free

(* x TEST_AND y and x TEST_OR y.                                            *)
LEMMA JoinedDepth ==
    ASSUME NEW s, Len(s) \in Nat, NEW i, NEW k, NEW j, Balanced(s, i, k - 1), Balanced(s, k + 1, j), k \in Int,
           s[k].major \in Junctions
    PROVE  /\ i \in 1..Len(s) /\ j \in 1..Len(s) /\ i < k /\ k < j
           /\ \A m \in Int : k <= m => Depth(s, i, m) = Depth(s, k + 1, m)
<1>1. /\ i \in 1..Len(s) /\ k - 1 \in i..Len(s) /\ k + 1 \in 1..Len(s) /\ j \in (k + 1)..Len(s)
      /\ Depth(s, i, k - 1) = 0
  BY DEF Balanced
<1>2. Depth(s, k, k) = 0
  BY Codes, DepthIs
<1>3. Depth(s, i, k) = 0
  <2>1. Depth(s, i, k) = Depth(s, i, k - 1) + Depth(s, (k - 1) + 1, k)
    BY <1>1, DepthSplit
  <2>2. (k - 1) + 1 = k
    OBVIOUS
  <2>. QED
    BY <1>1, <1>2, <2>1, <2>2
<1>4. ASSUME NEW m \in Int, k <= m PROVE Depth(s, i, m) = Depth(s, k + 1, m)
  <2>1. Depth(s, i, m) = Depth(s, i, k) + Depth(s, k + 1, m)
    BY <1>1, <1>4, DepthSplit
  <2>2. Depth(s, k + 1, m) \in Int
    BY DepthIs
  <2>. QED
    BY <1>3, <2>1, <2>2
<1>. QED
  BY <1>1, <1>4

LEMMA JoinedBalanced ==
    ASSUME NEW s, Len(s) \in Nat, NEW i, NEW k, NEW j, Balanced(s, i, k - 1), Balanced(s, k + 1, j), k \in Int,
           s[k].major \in Junctions
    PROVE  Balanced(s, i, j)
<1>1. /\ i \in 1..Len(s) /\ k - 1 \in i..Len(s) /\ k + 1 \in 1..Len(s) /\ j \in (k + 1)..Len(s)
      /\ Starts(s[i]) /\ Ends(s[j]) /\ Depth(s, k + 1, j) = 0
      /\ \A m \in i..(k - 1) : Depth(s, i, m) >= 0
      /\ \A m \in (k + 1)..j : Depth(s, k + 1, m) >= 0
  BY DEF Balanced
<1>2. \A m \in Int : k <= m => Depth(s, i, m) = Depth(s, k + 1, m)
  BY JoinedDepth
<1>3. j \in i..Len(s) /\ Depth(s, i, j) = 0
  BY <1>1, <1>2
<1>4. ASSUME NEW m \in i..j PROVE Depth(s, i, m) >= 0
  <2>1. CASE m < k
    BY <1>1, <2>1
  <2>2. CASE m = k
    <3>1. Depth(s, k + 1, k) = 0
      BY DepthIs
    <3>. QED
      BY <1>2, <2>2, <3>1
  <2>3. CASE m > k
    <3>1. m \in (k + 1)..j /\ m \in Int /\ k <= m
      BY <1>1, <2>3
    <3>. QED
      BY <1>1, <1>2, <3>1
  <2>. QED
    BY <1>1, <2>1, <2>2, <2>3
<1>. QED
  BY <1>1, <1>3, <1>4 DEF Balanced

SplitAt(s, i, k, j, c) ==
    Reference!Outside(s, i, j, c) =
      Reference!Outside(s, i, k - 1, c) \cup Reference!Outside(s, k + 1, j, c)
      \cup (IF s[k].major = c THEN {k} ELSE {})

LEMMA JoinedOutside ==
    ASSUME NEW s, Len(s) \in Nat, NEW i, NEW k, NEW j, Balanced(s, i, k - 1), Balanced(s, k + 1, j), k \in Int,
           s[k].major \in Junctions, NEW c \in Junctions
    PROVE  SplitAt(s, i, k, j, c)
<1>1. /\ i \in 1..Len(s) /\ k - 1 \in i..Len(s) /\ k + 1 \in 1..Len(s) /\ j \in (k + 1)..Len(s)
      /\ Ends(s[k - 1]) /\ Starts(s[k + 1])
  BY DEF Balanced
<1>2. \A m \in Int : k <= m => Depth(s, i, m) = Depth(s, k + 1, m)
  BY JoinedDepth
<1>3. s[k - 1].major # c /\ s[k + 1].major # c
  <2>1. s[k - 1].major \in {10, 11, 12, 14} /\ s[k + 1].major \in {10, 11, 12, 13}
    BY <1>1, Codes
  <2>2. c = 1 \/ c = 2
    BY Codes
  <2>. QED
    BY <2>1, <2>2
<1>4. Depth(s, i, k) = 0
  <2>1. Depth(s, k + 1, k) = 0
    BY DepthIs
  <2>. QED
    BY <1>2, <2>1
<1>. DEFINE A == {m \in (i + 1)..(j - 1) : s[m].major = c /\ Depth(s, i, m) = 0}
            B == {m \in (i + 1)..((k - 1) - 1) : s[m].major = c /\ Depth(s, i, m) = 0}
            C == {m \in ((k + 1) + 1)..(j - 1) : s[m].major = c /\ Depth(s, k + 1, m) = 0}
            E == IF s[k].major = c THEN {k} ELSE {}
<1>5. Reference!Outside(s, i, j, c) = A /\ Reference!Outside(s, i, k - 1, c) = B
      /\ Reference!Outside(s, k + 1, j, c) = C
  <2>1. i \in Int /\ j \in Int /\ k - 1 \in Int /\ k + 1 \in Int
    BY <1>1
  <2>2. Reference!Outside(s, i, j, c) = A
    BY <2>1, OutsideIs
  <2>3. \A a, b \in Int : Reference!Outside(s, a, b, c) = {m \in (a + 1)..(b - 1) : s[m].major = c /\ Depth(s, a, m) = 0}
    BY OutsideIs
  <2>4. Reference!Outside(s, i, k - 1, c) = B
    BY <2>1, <2>3
  <2>5. Reference!Outside(s, k + 1, j, c) = C
    BY <2>1, <2>3
  <2>. QED
    BY <2>2, <2>4, <2>5
<1>6. ASSUME NEW m \in A PROVE m \in B \cup C \cup E
  <2>1. m \in (i + 1)..(j - 1) /\ s[m].major = c /\ Depth(s, i, m) = 0
    OBVIOUS
  <2>2. m # k - 1 /\ m # k + 1
    BY <1>3, <2>1
  <2>3. m <= (k - 1) - 1 \/ m = k \/ m >= (k + 1) + 1
    BY <1>1, <2>1, <2>2
  <2>4. CASE m <= (k - 1) - 1
    BY <1>1, <2>1, <2>4
  <2>5. CASE m = k
    BY <2>1, <2>5
  <2>6. CASE m >= (k + 1) + 1
    <3>1. m \in ((k + 1) + 1)..(j - 1) /\ m \in Int /\ k <= m
      BY <1>1, <2>1, <2>6
    <3>2. Depth(s, k + 1, m) = 0
      BY <1>2, <2>1, <3>1
    <3>. QED
      BY <2>1, <3>1, <3>2
  <2>. QED
    BY <2>3, <2>4, <2>5, <2>6
<1>7. ASSUME NEW m \in B PROVE m \in A
  BY <1>1
<1>8. ASSUME NEW m \in C PROVE m \in A
  <2>1. m \in (i + 1)..(j - 1) /\ m \in Int /\ k <= m
    BY <1>1
  <2>. QED
    BY <1>2, <2>1
<1>9. ASSUME NEW m \in E PROVE m \in A
  <2>1. m = k /\ s[k].major = c
    OBVIOUS
  <2>2. k \in (i + 1)..(j - 1)
    BY <1>1
  <2>. QED
    BY <1>4, <2>1, <2>2
<1>. HIDE DEF A, B, C, E
<1>10. A = B \cup C \cup E
  BY <1>6, <1>7, <1>8, <1>9
<1>. QED
  BY <1>5, <1>10 DEF E, SplitAt

(* ( x ), where the brackets hide what is between them.                     *)
LEMMA BracketedPart ==
    ASSUME NEW s, Len(s) \in Nat, NEW i \in 1..Len(s), NEW j \in 1..Len(s), Balanced(s, i + 1, j - 1),
           s[i].major = TOKEN_LPAREN, s[j].major = TOKEN_RPAREN
    PROVE  Balanced(s, i, j) /\ \A c \in Junctions : Free(s, i, j, c)
<1>1. /\ i + 1 \in 1..Len(s) /\ j - 1 \in (i + 1)..Len(s) /\ Depth(s, i + 1, j - 1) = 0
      /\ \A m \in (i + 1)..(j - 1) : Depth(s, i + 1, m) >= 0
  BY DEF Balanced
<1>2. Depth(s, i, i) = 1 /\ Depth(s, j, j) = -1
  <2>1. i \in Int /\ j \in Int /\ TOKEN_LPAREN # TOKEN_RPAREN
    BY DEF TOKEN_LPAREN, TOKEN_RPAREN
  <2>2. Depth(s, i, i) = 1
    BY <2>1, DepthIs
  <2>3. Depth(s, j, j) = -1
    BY <2>1, DepthIs
  <2>. QED
    BY <2>2, <2>3
<1>3. ASSUME NEW m \in i..j PROVE Depth(s, i, m) = 1 + Depth(s, i + 1, m) /\ Depth(s, i + 1, m) \in Int
  <2>1. Depth(s, i, m) = Depth(s, i, i) + Depth(s, i + 1, m)
    BY DepthSplit
  <2>2. Depth(s, i + 1, m) \in Int
    BY DepthIs
  <2>. QED
    BY <1>2, <2>1, <2>2
<1>4. ASSUME NEW m \in i..(j - 1) PROVE Depth(s, i, m) >= 1
  <2>1. CASE m = i
    BY <1>2, <2>1
  <2>2. CASE m # i
    <3>1. m \in (i + 1)..(j - 1) /\ m \in i..j
      BY <2>2
    <3>. QED
      BY <1>1, <1>3, <3>1
  <2>. QED
    BY <2>1, <2>2
<1>5. Depth(s, i, j) = 0
  <2>1. Depth(s, i, j) = Depth(s, i, j - 1) + Depth(s, (j - 1) + 1, j)
    BY <1>1, DepthSplit
  <2>2. (j - 1) + 1 = j /\ j - 1 \in i..j
    BY <1>1
  <2>3. Depth(s, i, j - 1) = 1
    BY <1>1, <1>3, <2>2
  <2>. QED
    BY <1>2, <2>1, <2>2, <2>3
<1>6. ASSUME NEW m \in i..j PROVE Depth(s, i, m) >= 0
  <2>1. m = j \/ m \in i..(j - 1)
    OBVIOUS
  <2>2. CASE m = j
    BY <1>5, <2>2
  <2>3. CASE m \in i..(j - 1)
    <3>1. Depth(s, i, m) \in Int
      BY DepthIs
    <3>. QED
      BY <1>4, <2>3, <3>1
  <2>. QED
    BY <2>1, <2>2, <2>3
<1>7. Starts(s[i]) /\ Ends(s[j]) /\ j \in i..Len(s)
  BY <1>1, Codes
<1>8. Balanced(s, i, j)
  BY <1>5, <1>6, <1>7 DEF Balanced
<1>9. ASSUME NEW c \in Junctions PROVE Free(s, i, j, c)
  <2>1. Reference!Outside(s, i, j, c) = {k \in (i + 1)..(j - 1) : s[k].major = c /\ Depth(s, i, k) = 0}
    BY OutsideIs
  <2>2. \A k \in (i + 1)..(j - 1) : Depth(s, i, k) # 0
    <3>1. ASSUME NEW k \in (i + 1)..(j - 1) PROVE Depth(s, i, k) # 0
      <4>1. k \in i..(j - 1)
        OBVIOUS
      <4>2. Depth(s, i, k) >= 1
        BY <1>4, <4>1
      <4>. QED
        BY <4>2
    <3>. QED
      BY <3>1
  <2>. QED
    BY <2>1, <2>2 DEF Free
<1>. QED
  BY <1>8, <1>9

(* x == y == z                                                              *)
LEMMA ChainPart ==
    ASSUME NEW s, Len(s) \in Nat, NEW i \in 1..Len(s), NEW j \in 1..Len(s), Reference!IsChain(s, i, j)
    PROVE  /\ Balanced(s, i, j) /\ \A c \in Junctions : Free(s, i, j, c)
           /\ Reference!IsEntity(s[i]) /\ Reference!IsEntity(s[j])
           /\ \A k \in i..j : s[k].major \in 3..12
<1>1. /\ i <= j /\ (j - i) % 2 = 0
      /\ \A k \in i..j : IF (k - i) % 2 = 0 THEN Reference!IsEntity(s[k]) ELSE Reference!IsComparison(s[k])
  BY DEF Reference!IsChain
<1>2. Reference!IsEntity(s[i]) /\ Reference!IsEntity(s[j])
  <2>1. (i - i) % 2 = 0 /\ i \in i..j /\ j \in i..j
    BY <1>1
  <2>. QED
    BY <1>1, <2>1
<1>3. ASSUME NEW k \in i..j PROVE s[k].major \in 3..12
  <2>1. Reference!IsEntity(s[k]) \/ Reference!IsComparison(s[k])
    BY <1>1
  <2>2. s[k].major \in {10, 11, 12} \/ s[k].major \in 3..8
    BY <2>1, Codes
  <2>. QED
    BY <2>2
<1>4. ASSUME NEW k \in i..j, NEW c \in {1, 2, 13, 14} PROVE s[k].major # c
  <2>1. PICK m \in 3..12 : s[k].major = m
    BY <1>3
  <2>2. m # 1 /\ m # 2 /\ m # 13 /\ m # 14
    OBVIOUS
  <2>. QED
    BY <2>1, <2>2
<1>5. ASSUME NEW m \in i..j PROVE Depth(s, i, m) = 0
  <2>1. ASSUME NEW c \in {13, 14} PROVE Reference!Count(s, i, m, c) = 0
    <3>1. {k \in i..m : s[k].major = c} = {}
      BY <1>4
    <3>. QED
      BY <3>1, CardinalityThere, FS_EmptySet DEF Reference!Count
  <2>. QED
    BY <2>1, Codes DEF Depth
<1>6. Balanced(s, i, j)
  <2>1. Starts(s[i]) /\ Ends(s[j])
    BY <1>2 DEF Starts, Ends
  <2>2. j \in i..Len(s) /\ j \in i..j
    BY <1>1
  <2>. QED
    BY <1>5, <2>1, <2>2 DEF Balanced
<1>7. ASSUME NEW c \in Junctions PROVE Free(s, i, j, c)
  <2>1. Reference!Outside(s, i, j, c) = {k \in (i + 1)..(j - 1) : s[k].major = c /\ Depth(s, i, k) = 0}
    BY OutsideIs
  <2>2. c \in {1, 2, 13, 14}
    BY Codes
  <2>3. \A k \in (i + 1)..(j - 1) : k \in i..j
    OBVIOUS
  <2>. QED
    BY <1>4, <2>1, <2>2, <2>3 DEF Free
<1>. QED
  BY <1>2, <1>3, <1>6, <1>7

----------------------------------------------------------------------------
(***************************************************************************)
(* The reading of a string: each part of it is read from shorter ones, so  *)
(* the function is well defined, and what comes later in the string does   *)
(* not matter.                                                             *)
(***************************************************************************)
LEMMA OutsideIn ==
    ASSUME NEW s, NEW i \in Nat \ {0}, NEW j \in Nat, NEW c, Reference!Outside(s, i, j, c) # {}
    PROVE  Reference!Max(Reference!Outside(s, i, j, c)) \in (i + 1)..(j - 1)
<1>. DEFINE I == Reference!Outside(s, i, j, c)
<1>1. I \in SUBSET ((i + 1)..(j - 1))
  BY DEF Reference!Outside
<1>. HIDE DEF I
<1>2. I \in SUBSET (1..j)
  BY <1>1
<1>3. I # {}
  BY DEF I
<1>4. Max(I) \in I
  BY <1>2, <1>3, MaxIn
<1>5. Reference!Max(I) = Max(I)
  BY MaxThere
<1>6. Reference!Max(I) \in (i + 1)..(j - 1)
  BY <1>1, <1>4, <1>5
<1>. QED
  BY <1>6 DEF I

LEMMA OutsideSame ==
    ASSUME NEW s, NEW t, NEW i \in Int, NEW j \in Int, \A k \in i..j : s[k] = t[k], NEW c
    PROVE  Reference!Outside(s, i, j, c) = Reference!Outside(t, i, j, c)
<1>1. /\ Reference!Outside(s, i, j, c) = {k \in (i + 1)..(j - 1) : s[k].major = c /\ Depth(s, i, k) = 0}
      /\ Reference!Outside(t, i, j, c) = {k \in (i + 1)..(j - 1) : t[k].major = c /\ Depth(t, i, k) = 0}
  BY OutsideIs
<1>2. ASSUME NEW k \in (i + 1)..(j - 1) PROVE s[k] = t[k] /\ Depth(s, i, k) = Depth(t, i, k)
  <2>1. \A m \in i..k : s[m] = t[m]
    OBVIOUS
  <2>2. k \in Int /\ k \in i..j
    OBVIOUS
  <2>. QED
    BY <2>1, <2>2, DepthSame
<1>. QED
  BY <1>1, <1>2

LEMMA ChainSame ==
    ASSUME NEW s, NEW t, NEW i \in Int, NEW j \in Int, \A k \in i..j : s[k] = t[k]
    PROVE  Reference!IsChain(s, i, j) = Reference!IsChain(t, i, j)
<1>1. \A k \in i..j : Reference!IsEntity(s[k]) = Reference!IsEntity(t[k])
                      /\ Reference!IsComparison(s[k]) = Reference!IsComparison(t[k])
  OBVIOUS
<1>. QED
  BY <1>1 DEF Reference!IsChain

(* The cases of Part.                                                       *)
Outsides(s, i, j, c) == Reference!Outside(s, i, j, c) # {}
Greatest(s, i, j, c) == Reference!Max(Reference!Outside(s, i, j, c))
InBrackets(s, i, j) == s[i].major = TOKEN_LPAREN /\ s[j].major = TOKEN_RPAREN
AndOf(l, r) == Reference!Both("AND", l, r)
OrOf(l, r) == Reference!Both("OR", l, r)
FirstPair(s, i, table) ==
    Reference!Pair(RelOp[s[i + 1].major], Reference!Entity(s[i]), Reference!Entity(s[i + 2]), table)

LEMMA PartIs ==
    ASSUME NEW s, NEW table, NEW R, NEW i, NEW j
    PROVE  Reference!Part(s, table, R, i, j) =
             IF i > j THEN Reference!NoSentence
             ELSE IF Outsides(s, i, j, TOKEN_TEST_AND)
             THEN AndOf(R[i][Greatest(s, i, j, TOKEN_TEST_AND) - 1], R[Greatest(s, i, j, TOKEN_TEST_AND) + 1][j])
             ELSE IF Outsides(s, i, j, TOKEN_TEST_OR)
             THEN OrOf(R[i][Greatest(s, i, j, TOKEN_TEST_OR) - 1], R[Greatest(s, i, j, TOKEN_TEST_OR) + 1][j])
             ELSE IF InBrackets(s, i, j) THEN R[i + 1][j - 1]
             ELSE IF ~Reference!IsChain(s, i, j) THEN Reference!NoSentence
             ELSE IF i = j THEN Reference!Alone(Reference!Entity(s[i]))
             ELSE IF j = i + 2 THEN FirstPair(s, i, table)
             ELSE AndOf(FirstPair(s, i, table), R[i + 2][j])
BY DEF Reference!Part, Outsides, Greatest, InBrackets, AndOf, OrOf, FirstPair

LEMMA OutsidesSame ==
    ASSUME NEW s, NEW t, NEW i \in Int, NEW j \in Int, \A k \in i..j : s[k] = t[k], NEW c
    PROVE  Outsides(s, i, j, c) = Outsides(t, i, j, c) /\ Greatest(s, i, j, c) = Greatest(t, i, j, c)
<1>1. Reference!Outside(s, i, j, c) = Reference!Outside(t, i, j, c)
  BY OutsideSame
<1>. QED
  BY <1>1 DEF Outsides, Greatest

LEMMA PlacesSame ==
    ASSUME NEW s, NEW t, NEW i \in Nat \ {0}, NEW j \in Nat, \A k \in i..j : s[k] = t[k]
    PROVE  \A c : Outsides(s, i, j, c) = Outsides(t, i, j, c) /\ Greatest(s, i, j, c) = Greatest(t, i, j, c)
<1>1. i \in Int /\ j \in Int
  OBVIOUS
<1>. QED
  BY <1>1, OutsidesSame

LEMMA PartAgrees ==
    ASSUME NEW s, NEW t, NEW table, NEW i \in Nat \ {0}, NEW j \in Nat, \A k \in i..j : s[k] = t[k],
           NEW R, NEW Q, \A a \in i..(j + 1), b \in (i - 1)..j : b - a < j - i => R[a][b] = Q[a][b]
    PROVE  Reference!Part(s, table, R, i, j) = Reference!Part(t, table, Q, i, j)
<1>1. ASSUME NEW c PROVE Outsides(s, i, j, c) = Outsides(t, i, j, c) /\ Greatest(s, i, j, c) = Greatest(t, i, j, c)
  BY PlacesSame
<1>2. ASSUME NEW c, Outsides(s, i, j, c), i <= j
      PROVE  /\ R[i][Greatest(s, i, j, c) - 1] = Q[i][Greatest(s, i, j, c) - 1]
             /\ R[Greatest(s, i, j, c) + 1][j] = Q[Greatest(s, i, j, c) + 1][j]
  <2>1. Greatest(s, i, j, c) \in (i + 1)..(j - 1)
    BY <1>2, OutsideIn DEF Outsides, Greatest
  <2>2. PICK k \in (i + 1)..(j - 1) : k = Greatest(s, i, j, c)
    BY <2>1
  <2>3. /\ i \in i..(j + 1) /\ k - 1 \in (i - 1)..j /\ (k - 1) - i < j - i
        /\ k + 1 \in i..(j + 1) /\ j \in (i - 1)..j /\ j - (k + 1) < j - i
    OBVIOUS
  <2>. QED
    BY <2>2, <2>3
<1>3. ASSUME i <= j PROVE InBrackets(s, i, j) = InBrackets(t, i, j) /\ R[i + 1][j - 1] = Q[i + 1][j - 1]
  <2>1. /\ i + 1 \in i..(j + 1) /\ j - 1 \in (i - 1)..j /\ (j - 1) - (i + 1) < j - i /\ i \in i..j /\ j \in i..j
    BY <1>3
  <2>. QED
    BY <2>1 DEF InBrackets
<1>4. Reference!IsChain(s, i, j) = Reference!IsChain(t, i, j)
  BY ChainSame
<1>5. ASSUME i <= j PROVE s[i] = t[i]
  BY <1>5
<1>6. ASSUME i <= j, Reference!IsChain(s, i, j), i # j
      PROVE FirstPair(s, i, table) = FirstPair(t, i, table) /\ R[i + 2][j] = Q[i + 2][j]
  <2>1. (j - i) % 2 = 0
    BY <1>6 DEF Reference!IsChain
  <2>2. j >= i + 2
    BY <1>6, <2>1
  <2>3. /\ i + 2 \in i..(j + 1) /\ j \in (i - 1)..j /\ j - (i + 2) < j - i
        /\ i + 1 \in i..j /\ i + 2 \in i..j /\ i \in i..j
    BY <2>2
  <2>. QED
    BY <2>3 DEF FirstPair
<1>7. (i > j) = ~(i <= j)
  OBVIOUS
<1>. DEFINE big == i > j
<1>. HIDE DEF big
<1>. QED
  BY <1>1, <1>2, <1>3, <1>4, <1>5, <1>6, <1>7, PartIs

ReadUpTo(s, table, f, r) ==
    /\ f = [i \in 1..(Len(s) + 1) |-> [j \in 0..Len(s) |-> f[i][j]]]
    /\ \A i \in 1..(Len(s) + 1), j \in 0..Len(s) : j - i < r => f[i][j] = Reference!Part(s, table, f, i, j)

IsMeant(s, table, f) ==
    f = [i \in 1..(Len(s) + 1) |-> [j \in 0..Len(s) |-> Reference!Part(s, table, f, i, j)]]

LEMMA MeantExists ==
    ASSUME NEW s, Len(s) \in Nat, NEW table
    PROVE  \E f : IsMeant(s, table, f)
<1>. DEFINE T == {r \in Nat : \E f : ReadUpTo(s, table, f, r)}
            P(f, i, j) == Reference!Part(s, table, f, i, j)
<1>1. PICK L \in Nat : L = Len(s)
  OBVIOUS
<1>2. \A f, r : ReadUpTo(s, table, f, r) <=>
         /\ f = [i \in 1..(L + 1) |-> [j \in 0..L |-> f[i][j]]]
         /\ \A i \in 1..(L + 1), j \in 0..L : j - i < r => f[i][j] = P(f, i, j)
  BY <1>1 DEF ReadUpTo
<1>3. ASSUME NEW i \in 1..(L + 1), NEW j \in 0..L, NEW f, NEW g,
             \A a \in 1..(L + 1), b \in 0..L : b - a < j - i => f[a][b] = g[a][b]
      PROVE  P(f, i, j) = P(g, i, j)
  <2>1. \A a \in i..(j + 1), b \in (i - 1)..j : b - a < j - i => f[a][b] = g[a][b]
    BY <1>3
  <2>2. i \in Nat \ {0} /\ j \in Nat /\ \A k \in i..j : s[k] = s[k]
    OBVIOUS
  <2>. QED
    BY <2>1, <2>2, PartAgrees
<1>4. ASSUME NEW i \in 1..(L + 1), NEW j \in 0..L, j - i < 0, NEW f PROVE P(f, i, j) = Reference!NoSentence
  <2>1. i > j
    BY <1>4
  <2>. QED
    BY <2>1, PartIs
<1>. HIDE DEF P
<1>5. 0 \in T
  <2>. DEFINE f == [i \in 1..(L + 1) |-> [j \in 0..L |-> Reference!NoSentence]]
  <2>1. f = [i \in 1..(L + 1) |-> [j \in 0..L |-> f[i][j]]]
    OBVIOUS
  <2>2. \A i \in 1..(L + 1), j \in 0..L : f[i][j] = Reference!NoSentence
    OBVIOUS
  <2>. HIDE DEF f
  <2>3. ReadUpTo(s, table, f, 0)
    BY <1>2, <1>4, <2>1, <2>2
  <2>. QED
    BY <2>3
<1>6. ASSUME NEW r \in Nat, r \in T PROVE r + 1 \in T
  <2>1. PICK f : ReadUpTo(s, table, f, r)
    BY <1>6
  <2>. DEFINE g == [i \in 1..(L + 1) |-> [j \in 0..L |-> P(f, i, j)]]
  <2>2. ASSUME NEW i \in 1..(L + 1), NEW j \in 0..L PROVE g[i][j] = P(f, i, j)
    OBVIOUS
  <2>3. g = [i \in 1..(L + 1) |-> [j \in 0..L |-> g[i][j]]]
    OBVIOUS
  <2>. HIDE DEF g
  <2>4. ASSUME NEW i \in 1..(L + 1), NEW j \in 0..L, j - i < r PROVE g[i][j] = f[i][j]
    BY <1>2, <2>1, <2>2, <2>4
  <2>5. ASSUME NEW i \in 1..(L + 1), NEW j \in 0..L, j - i < r + 1
        PROVE  g[i][j] = P(g, i, j)
    <3>1. ASSUME NEW a \in 1..(L + 1), NEW b \in 0..L, b - a < j - i PROVE g[a][b] = f[a][b]
      <4>1. b - a < r
        BY <2>5, <3>1
      <4>. QED
        BY <2>4, <4>1
    <3>2. P(g, i, j) = P(f, i, j)
      BY <1>3, <3>1
    <3>. QED
      BY <2>2, <3>2
  <2>6. ReadUpTo(s, table, g, r + 1)
    BY <1>2, <2>3, <2>5
  <2>. QED
    BY <2>6
<1>. HIDE DEF T
<1>7. L \in T
  BY <1>5, <1>6, Successors
<1>8. PICK f : ReadUpTo(s, table, f, L)
  BY <1>7 DEF T
<1>9. ASSUME NEW i \in 1..(L + 1), NEW j \in 0..L PROVE f[i][j] = P(f, i, j)
  <2>1. j - i < L
    OBVIOUS
  <2>. QED
    BY <1>2, <1>8, <2>1
<1>10. f = [i \in 1..(L + 1) |-> [j \in 0..L |-> P(f, i, j)]]
  <2>1. f = [i \in 1..(L + 1) |-> [j \in 0..L |-> f[i][j]]]
    BY <1>2, <1>8
  <2>2. [i \in 1..(L + 1) |-> [j \in 0..L |-> f[i][j]]] = [i \in 1..(L + 1) |-> [j \in 0..L |-> P(f, i, j)]]
    BY <1>9
  <2>. QED
    BY <2>1, <2>2
<1>. QED
  BY <1>1, <1>10 DEF P, IsMeant

LEMMA MeantIs ==
    ASSUME NEW s, Len(s) \in Nat, NEW table, NEW i \in 1..(Len(s) + 1), NEW j \in 0..Len(s)
    PROVE  Meant(s, table)[i][j] = Reference!Part(s, table, Meant(s, table), i, j)
<1>. DEFINE M == Meant(s, table)
            P(f, a, b) == Reference!Part(s, table, f, a, b)
<1>1. M = CHOOSE f : IsMeant(s, table, f)
  BY DEF Meant, IsMeant
<1>2. \E f : IsMeant(s, table, f)
  BY MeantExists
<1>. HIDE DEF M
<1>3. IsMeant(s, table, M)
  BY <1>1, <1>2
<1>4. M[i] = [b \in 0..Len(s) |-> P(M, i, b)]
  BY <1>3 DEF IsMeant, P
<1>. HIDE DEF P
<1>5. M[i][j] = P(M, i, j)
  BY <1>4
<1>. QED
  BY <1>5 DEF M, P

LEMMA ReadIs ==
    ASSUME NEW s, NEW table
    PROVE  Reference!Read(s, table) = Meant(s, table)[1][Len(s)]
BY DEF Reference!Read, Meant

LEMMA MeantSame ==
    ASSUME NEW s, Len(s) \in Nat, NEW t, Len(t) \in Nat, Len(s) <= Len(t), \A k \in 1..Len(s) : s[k] = t[k],
           NEW table, NEW i \in 1..(Len(s) + 1), NEW j \in 0..Len(s)
    PROVE  Meant(s, table)[i][j] = Meant(t, table)[i][j]
<1>. DEFINE M == Meant(s, table)
            N == Meant(t, table)
            T == {r \in Nat : \A a \in 1..(Len(s) + 1), b \in 0..Len(s) : b - a < r => M[a][b] = N[a][b]}
<1>1. ASSUME NEW a \in 1..(Len(s) + 1), NEW b \in 0..Len(s)
      PROVE  M[a][b] = Reference!Part(s, table, M, a, b) /\ N[a][b] = Reference!Part(t, table, N, a, b)
  <2>1. a \in 1..(Len(t) + 1) /\ b \in 0..Len(t)
    OBVIOUS
  <2>. QED
    BY <2>1, MeantIs
<1>. HIDE DEF M, N
<1>2. ASSUME NEW a \in 1..(Len(s) + 1), NEW b \in 0..Len(s),
             \A x \in 1..(Len(s) + 1), y \in 0..Len(s) : y - x < b - a => M[x][y] = N[x][y]
      PROVE  M[a][b] = N[a][b]
  <2>1. ASSUME NEW x \in a..(b + 1), NEW y \in (a - 1)..b, y - x < b - a PROVE M[x][y] = N[x][y]
    <3>1. x \in 1..(Len(s) + 1) /\ y \in 0..Len(s)
      OBVIOUS
    <3>. QED
      BY <1>2, <2>1, <3>1
  <2>2. a \in Nat \ {0} /\ b \in Nat /\ \A k \in a..b : s[k] = t[k]
    OBVIOUS
  <2>3. Reference!Part(s, table, M, a, b) = Reference!Part(t, table, N, a, b)
    BY <2>1, <2>2, PartAgrees
  <2>. QED
    BY <1>1, <2>3
<1>3. 0 \in T
  <2>1. ASSUME NEW a \in 1..(Len(s) + 1), NEW b \in 0..Len(s), b - a < 0 PROVE M[a][b] = N[a][b]
    <3>1. a > b
      BY <2>1
    <3>2. Reference!Part(s, table, M, a, b) = Reference!NoSentence
          /\ Reference!Part(t, table, N, a, b) = Reference!NoSentence
      BY <3>1, PartIs
    <3>. QED
      BY <1>1, <3>2
  <2>. QED
    BY <2>1
<1>4. ASSUME NEW r \in Nat, r \in T PROVE r + 1 \in T
  <2>1. ASSUME NEW a \in 1..(Len(s) + 1), NEW b \in 0..Len(s), b - a < r + 1 PROVE M[a][b] = N[a][b]
    <3>1. \A x \in 1..(Len(s) + 1), y \in 0..Len(s) : y - x < b - a => M[x][y] = N[x][y]
      BY <1>4, <2>1
    <3>. QED
      BY <1>2, <3>1
  <2>. QED
    BY <2>1
<1>5. Len(s) \in T
  <2>. HIDE DEF T
  <2>. QED
    BY <1>3, <1>4, Successors
<1>6. j - i < Len(s)
  OBVIOUS
<1>7. M[i][j] = N[i][j]
  BY <1>5, <1>6
<1>. QED
  BY <1>7 DEF M, N

----------------------------------------------------------------------------
(***************************************************************************)
(* What every part with a tree looks like.                                 *)
(***************************************************************************)
LEMMA FollowIs ==
    ASSUME NEW t, NEW u
    PROVE  Follows(t, u) <=>
             \/ t.major \in {10, 11, 12} /\ (u.major \in 3..8 \/ u.major \in {1, 2, 14})
             \/ t.major = 14 /\ u.major \in {1, 2, 14}
             \/ t.major \in 3..8 /\ u.major \in {10, 11, 12}
             \/ t.major \notin {10, 11, 12, 14} /\ t.major \notin 3..8 /\ u.major \in {10, 11, 12, 13}
<1>1. /\ Reference!IsEntity(t) <=> t.major \in {10, 11, 12}
      /\ Reference!IsEntity(u) <=> u.major \in {10, 11, 12}
      /\ Reference!IsComparison(t) <=> t.major \in 3..8
      /\ Reference!IsComparison(u) <=> u.major \in 3..8
      /\ Starts(u) <=> u.major \in {10, 11, 12, 13}
      /\ TOKEN_TEST_AND = 1 /\ TOKEN_TEST_OR = 2 /\ TOKEN_RPAREN = 14
  BY Codes
<1>2. Follows(t, u) <=>
        IF t.major \in {10, 11, 12} THEN u.major \in 3..8 \/ u.major \in {1, 2, 14}
        ELSE IF t.major = 14 THEN u.major \in {1, 2, 14}
        ELSE IF t.major \in 3..8 THEN u.major \in {10, 11, 12}
        ELSE u.major \in {10, 11, 12, 13}
  BY <1>1 DEF Follows
<1>3. t.major \in {10, 11, 12} => t.major # 14 /\ t.major \notin 3..8
  OBVIOUS
<1>4. t.major \in 3..8 => t.major # 14 /\ t.major \notin {10, 11, 12}
  OBVIOUS
<1>5. t.major = 14 => t.major \notin 3..8 /\ t.major \notin {10, 11, 12}
  OBVIOUS
<1>. DEFINE a == t.major \in {10, 11, 12}
            b == t.major = 14
            c == t.major \in 3..8
            d == t.major \notin {10, 11, 12, 14}
<1>6. d <=> ~a /\ ~b
  OBVIOUS
<1>. HIDE DEF a, b, c, d
<1>7. Follows(t, u) <=>
        IF a THEN u.major \in 3..8 \/ u.major \in {1, 2, 14}
        ELSE IF b THEN u.major \in {1, 2, 14}
        ELSE IF c THEN u.major \in {10, 11, 12}
        ELSE u.major \in {10, 11, 12, 13}
  BY <1>2 DEF a, b, c
<1>8. (a => ~b /\ ~c) /\ (b => ~a /\ ~c) /\ (c => ~a /\ ~b)
  BY <1>3, <1>4, <1>5 DEF a, b, c
<1>9. Follows(t, u) <=>
             \/ a /\ (u.major \in 3..8 \/ u.major \in {1, 2, 14})
             \/ b /\ u.major \in {1, 2, 14}
             \/ c /\ u.major \in {10, 11, 12}
             \/ d /\ ~c /\ u.major \in {10, 11, 12, 13}
  BY <1>6, <1>7, <1>8
<1>. QED
  BY <1>9 DEF a, b, c, d

LEMMA TreesIn ==
    /\ Reference!NoSentence.tree = Reference!NoTree
    /\ \A l, r : AndOf(l, r).tree # Reference!NoTree => l.tree # Reference!NoTree /\ r.tree # Reference!NoTree
    /\ \A l, r : OrOf(l, r).tree # Reference!NoTree => l.tree # Reference!NoTree /\ r.tree # Reference!NoTree
BY DEF Reference!NoSentence, AndOf, OrOf, Reference!Both

Fluent(s, i, j) == \A k \in i..(j - 1) : Follows(s[k], s[k + 1])

Grammatical(s, i, j) == Balanced(s, i, j) /\ Fluent(s, i, j)

LEMMA JoinedFluent ==
    ASSUME NEW s, Len(s) \in Nat, NEW i, NEW k \in Int, NEW j, Grammatical(s, i, k - 1), Grammatical(s, k + 1, j),
           s[k].major \in Junctions
    PROVE  Grammatical(s, i, j)
<1>1. Balanced(s, i, j)
  BY JoinedBalanced DEF Grammatical
<1>2. /\ i \in 1..Len(s) /\ k - 1 \in i..Len(s) /\ k + 1 \in 1..Len(s) /\ j \in (k + 1)..Len(s)
      /\ Ends(s[k - 1]) /\ Starts(s[k + 1])
  BY DEF Grammatical, Balanced
<1>3. Follows(s[k - 1], s[k])
  <2>1. s[k - 1].major \in {10, 11, 12, 14} /\ s[k].major \in {1, 2}
    BY <1>2, Codes
  <2>. QED
    BY <2>1, FollowIs
<1>4. Follows(s[k], s[k + 1])
  <2>1. s[k].major \in {1, 2} /\ s[k + 1].major \in {10, 11, 12, 13}
    BY <1>2, Codes
  <2>2. PICK m \in {1, 2} : s[k].major = m
    BY <2>1
  <2>3. m \notin {10, 11, 12, 14} /\ m \notin 3..8
    OBVIOUS
  <2>. QED
    BY <2>1, <2>2, <2>3, FollowIs
<1>5. ASSUME NEW m \in i..(j - 1) PROVE Follows(s[m], s[m + 1])
  <2>1. m \in i..((k - 1) - 1) \/ m = k - 1 \/ m = k \/ m \in (k + 1)..(j - 1)
    BY <1>2
  <2>2. CASE m \in i..((k - 1) - 1) \/ m \in (k + 1)..(j - 1)
    BY <2>2 DEF Grammatical, Fluent
  <2>3. CASE m = k - 1
    <3>1. m + 1 = k
      BY <2>3
    <3>. QED
      BY <1>3, <2>3, <3>1
  <2>4. CASE m = k
    BY <1>4, <2>4
  <2>. QED
    BY <2>1, <2>2, <2>3, <2>4
<1>. QED
  BY <1>1, <1>5 DEF Grammatical, Fluent

LEMMA BracketedFluent ==
    ASSUME NEW s, Len(s) \in Nat, NEW i \in 1..Len(s), NEW j \in 1..Len(s), Grammatical(s, i + 1, j - 1),
           s[i].major = TOKEN_LPAREN, s[j].major = TOKEN_RPAREN
    PROVE  Grammatical(s, i, j)
<1>1. Balanced(s, i, j)
  BY BracketedPart DEF Grammatical
<1>2. /\ i + 1 \in 1..Len(s) /\ j - 1 \in (i + 1)..Len(s) /\ Starts(s[i + 1]) /\ Ends(s[j - 1])
  BY DEF Grammatical, Balanced
<1>3. Follows(s[i], s[i + 1])
  <2>1. s[i].major = 13 /\ s[i + 1].major \in {10, 11, 12, 13}
    BY <1>2, Codes
  <2>2. 13 \notin {10, 11, 12, 14} /\ 13 \notin 3..8
    OBVIOUS
  <2>. QED
    BY <2>1, <2>2, FollowIs
<1>4. Follows(s[j - 1], s[j])
  <2>1. s[j - 1].major \in {10, 11, 12, 14} /\ s[j].major = 14
    BY <1>2, Codes
  <2>. QED
    BY <2>1, FollowIs
<1>5. ASSUME NEW m \in i..(j - 1) PROVE Follows(s[m], s[m + 1])
  <2>1. m = i \/ m = j - 1 \/ m \in (i + 1)..((j - 1) - 1)
    BY <1>2
  <2>2. CASE m \in (i + 1)..((j - 1) - 1)
    BY <2>2 DEF Grammatical, Fluent
  <2>3. CASE m = j - 1
    <3>1. m + 1 = j
      BY <2>3
    <3>. QED
      BY <1>4, <2>3, <3>1
  <2>4. CASE m = i
    BY <1>3, <2>4
  <2>. QED
    BY <2>1, <2>2, <2>3, <2>4
<1>. QED
  BY <1>1, <1>5 DEF Grammatical, Fluent

LEMMA ChainFluent ==
    ASSUME NEW s, Len(s) \in Nat, NEW i \in 1..Len(s), NEW j \in 1..Len(s), Reference!IsChain(s, i, j)
    PROVE  Grammatical(s, i, j)
<1>1. Balanced(s, i, j)
  BY ChainPart
<1>2. /\ i <= j /\ (j - i) % 2 = 0
      /\ \A k \in i..j : IF (k - i) % 2 = 0 THEN Reference!IsEntity(s[k]) ELSE Reference!IsComparison(s[k])
  BY DEF Reference!IsChain
<1>3. ASSUME NEW m \in i..(j - 1) PROVE Follows(s[m], s[m + 1])
  <2>1. m \in i..j /\ m + 1 \in i..j
    OBVIOUS
  <2>2. CASE (m - i) % 2 = 0
    <3>1. ((m + 1) - i) % 2 # 0
      BY <2>2
    <3>2. Reference!IsEntity(s[m]) /\ Reference!IsComparison(s[m + 1])
      BY <1>2, <2>1, <2>2, <3>1
    <3>3. s[m].major \in {10, 11, 12} /\ s[m + 1].major \in 3..8
      BY <3>2, Codes
    <3>. QED
      BY <3>3, FollowIs
  <2>3. CASE (m - i) % 2 # 0
    <3>1. ((m + 1) - i) % 2 = 0
      BY <2>3
    <3>2. Reference!IsComparison(s[m]) /\ Reference!IsEntity(s[m + 1])
      BY <1>2, <2>1, <2>3, <3>1
    <3>3. s[m].major \in 3..8 /\ s[m + 1].major \in {10, 11, 12}
      BY <3>2, Codes
    <3>. QED
      BY <3>3, FollowIs
  <2>. QED
    BY <2>2, <2>3
<1>. QED
  BY <1>1, <1>3 DEF Grammatical, Fluent

LEMMA GreatestThere ==
    ASSUME NEW s, NEW i \in Nat \ {0}, NEW j \in Nat, NEW c, Outsides(s, i, j, c)
    PROVE  Greatest(s, i, j, c) \in (i + 1)..(j - 1) /\ s[Greatest(s, i, j, c)].major = c
<1>. DEFINE I == Reference!Outside(s, i, j, c)
<1>1. I \in SUBSET ((i + 1)..(j - 1)) /\ \A k \in I : s[k].major = c
  BY DEF Reference!Outside
<1>2. I # {} /\ Greatest(s, i, j, c) = Max(I)
  BY MaxThere DEF Outsides, Greatest
<1>. HIDE DEF I
<1>3. I \in SUBSET (1..j)
  BY <1>1
<1>4. Max(I) \in I
  BY <1>2, <1>3, MaxIn
<1>. QED
  BY <1>1, <1>2, <1>4

HasTree(M, i, j) == M[i][j].tree # Reference!NoTree

LEMMA PartGrammatical ==
    ASSUME NEW s, Len(s) \in Nat, NEW table, NEW M, NEW i \in 1..(Len(s) + 1), NEW j \in 0..Len(s),
           Reference!Part(s, table, M, i, j).tree # Reference!NoTree,
           \A a \in 1..(Len(s) + 1), b \in 0..Len(s) : b - a < j - i /\ HasTree(M, a, b) => Grammatical(s, a, b)
    PROVE  Grammatical(s, i, j)
<1>1. CASE i > j
  BY <1>1, PartIs, TreesIn
<1>2. CASE i <= j
  <2>. DEFINE X == i > j
  <2>1. ~X
    BY <1>2
  <2>. HIDE DEF X
  <2>2. i \in 1..Len(s) /\ j \in 1..Len(s)
    BY <1>2
  <2>3. ASSUME NEW k \in (i + 1)..(j - 1), s[k].major \in Junctions, HasTree(M, i, k - 1), HasTree(M, k + 1, j)
        PROVE  Grammatical(s, i, j)
    <3>1. k - 1 \in 0..Len(s) /\ k + 1 \in 1..(Len(s) + 1) /\ (k - 1) - i < j - i /\ j - (k + 1) < j - i
      BY <2>2
    <3>2. Grammatical(s, i, k - 1) /\ Grammatical(s, k + 1, j)
      BY <2>3, <3>1
    <3>. QED
      BY <2>3, <3>2, JoinedFluent
  <2>4. CASE Outsides(s, i, j, TOKEN_TEST_AND)
    <3>. DEFINE k == Greatest(s, i, j, TOKEN_TEST_AND)
    <3>1. Reference!Part(s, table, M, i, j) = AndOf(M[i][k - 1], M[k + 1][j])
      BY <2>1, <2>4, PartIs DEF X
    <3>2. k \in (i + 1)..(j - 1) /\ s[k].major = TOKEN_TEST_AND
      BY <2>2, <2>4, GreatestThere
    <3>. HIDE DEF k
    <3>3. HasTree(M, i, k - 1) /\ HasTree(M, k + 1, j)
      BY <3>1, TreesIn DEF HasTree
    <3>. QED
      BY <2>3, <3>2, <3>3 DEF Junctions
  <2>5. CASE ~Outsides(s, i, j, TOKEN_TEST_AND) /\ Outsides(s, i, j, TOKEN_TEST_OR)
    <3>. DEFINE k == Greatest(s, i, j, TOKEN_TEST_OR)
    <3>1. Reference!Part(s, table, M, i, j) = OrOf(M[i][k - 1], M[k + 1][j])
      BY <2>1, <2>5, PartIs DEF X
    <3>2. k \in (i + 1)..(j - 1) /\ s[k].major = TOKEN_TEST_OR
      BY <2>2, <2>5, GreatestThere
    <3>. HIDE DEF k
    <3>3. HasTree(M, i, k - 1) /\ HasTree(M, k + 1, j)
      BY <3>1, TreesIn DEF HasTree
    <3>. QED
      BY <2>3, <3>2, <3>3 DEF Junctions
  <2>6. CASE ~Outsides(s, i, j, TOKEN_TEST_AND) /\ ~Outsides(s, i, j, TOKEN_TEST_OR)
    <3>1. CASE InBrackets(s, i, j)
      <4>1. Reference!Part(s, table, M, i, j) = M[i + 1][j - 1]
        BY <2>1, <2>6, <3>1, PartIs DEF X
      <4>2. HasTree(M, i + 1, j - 1)
        BY <4>1 DEF HasTree
      <4>3. i + 1 \in 1..(Len(s) + 1) /\ j - 1 \in 0..Len(s) /\ (j - 1) - (i + 1) < j - i
        BY <2>2
      <4>4. Grammatical(s, i + 1, j - 1)
        BY <4>2, <4>3
      <4>. QED
        BY <2>2, <3>1, <4>4, BracketedFluent DEF InBrackets
    <3>2. CASE ~InBrackets(s, i, j)
      <4>1. Reference!IsChain(s, i, j)
        BY <2>1, <2>6, <3>2, PartIs, TreesIn DEF X
      <4>. QED
        BY <2>2, <4>1, ChainFluent
    <3>. QED
      BY <3>1, <3>2
  <2>. QED
    BY <2>4, <2>5, <2>6
<1>. QED
  BY <1>1, <1>2

LEMMA TreeGrammatical ==
    ASSUME NEW s, Len(s) \in Nat, NEW table, NEW i \in 1..(Len(s) + 1), NEW j \in 0..Len(s),
           HasTree(Meant(s, table), i, j)
    PROVE  Grammatical(s, i, j)
<1>. DEFINE M == Meant(s, table)
            T == {r \in Nat : \A a \in 1..(Len(s) + 1), b \in 0..Len(s) :
                                 b - a < r /\ HasTree(M, a, b) => Grammatical(s, a, b)}
<1>1. ASSUME NEW a \in 1..(Len(s) + 1), NEW b \in 0..Len(s) PROVE M[a][b] = Reference!Part(s, table, M, a, b)
  BY MeantIs
<1>. HIDE DEF M
<1>2. ASSUME NEW a \in 1..(Len(s) + 1), NEW b \in 0..Len(s), HasTree(M, a, b),
             \A x \in 1..(Len(s) + 1), y \in 0..Len(s) : y - x < b - a /\ HasTree(M, x, y) => Grammatical(s, x, y)
      PROVE  Grammatical(s, a, b)
  <2>1. Reference!Part(s, table, M, a, b).tree # Reference!NoTree
    BY <1>1, <1>2 DEF HasTree
  <2>. QED
    BY <1>2, <2>1, PartGrammatical
<1>3. 0 \in T
  <2>1. ASSUME NEW a \in 1..(Len(s) + 1), NEW b \in 0..Len(s), b - a < 0 PROVE ~HasTree(M, a, b)
    <3>1. a > b
      BY <2>1
    <3>2. Reference!Part(s, table, M, a, b) = Reference!NoSentence
      BY <3>1, PartIs
    <3>. QED
      BY <1>1, <3>2, TreesIn DEF HasTree
  <2>. QED
    BY <2>1
<1>4. ASSUME NEW r \in Nat, r \in T PROVE r + 1 \in T
  <2>1. ASSUME NEW a \in 1..(Len(s) + 1), NEW b \in 0..Len(s), b - a < r + 1, HasTree(M, a, b)
        PROVE  Grammatical(s, a, b)
    <3>1. \A x \in 1..(Len(s) + 1), y \in 0..Len(s) : y - x < b - a /\ HasTree(M, x, y) => Grammatical(s, x, y)
      BY <1>4, <2>1
    <3>. QED
      BY <1>2, <2>1, <3>1
  <2>. QED
    BY <2>1
<1>5. Len(s) \in T
  <2>. HIDE DEF T
  <2>. QED
    BY <1>3, <1>4, Successors
<1>6. j - i < Len(s)
  OBVIOUS
<1>7. HasTree(M, i, j)
  BY DEF M
<1>. QED
  BY <1>5, <1>6, <1>7

(* Such strings are no sentences.                                           *)
LEMMA NoSentences ==
    ASSUME NEW s, Len(s) \in Nat, s # << >>, Len(s) # 0, Doomed(s) \/ DoomedAtEnd(s)
    PROVE  Reference!Tree(s) = Reference!NoTree
<1>1. SUFFICES ASSUME HasTree(Meant(s, Reference!NoLine), 1, Len(s)) PROVE FALSE
  BY ReadIs DEF Reference!Tree, HasTree
<1>2. Balanced(s, 1, Len(s)) /\ Fluent(s, 1, Len(s))
  <2>1. 1 \in 1..(Len(s) + 1) /\ Len(s) \in 0..Len(s)
    OBVIOUS
  <2>. QED
    BY <1>1, <2>1, TreeGrammatical DEF Grammatical
<1>3. /\ Starts(s[1]) /\ Ends(s[Len(s)]) /\ Depth(s, 1, Len(s)) = 0
      /\ \A k \in 1..Len(s) : Depth(s, 1, k) >= 0
  BY <1>2 DEF Balanced
<1>4. CASE Doomed(s)
  <2>1. \A k \in 1..(Len(s) - 1) : Follows(s[k], s[k + 1])
    BY <1>2 DEF Fluent
  <2>2. \A k \in 1..Len(s) : ~(Depth(s, 1, k) < 0)
    <3>1. ASSUME NEW k \in 1..Len(s) PROVE ~(Depth(s, 1, k) < 0)
      <4>1. Depth(s, 1, k) >= 0 /\ Depth(s, 1, k) \in Int
        BY <1>3, DepthIs
      <4>. QED
        BY <4>1
    <3>. QED
      BY <3>1
  <2>. QED
    BY <1>3, <1>4, <2>1, <2>2 DEF Doomed
<1>5. CASE DoomedAtEnd(s)
  <2>1. PICK k \in 1..Len(s) : Depth(s, k, Len(s)) > 0
    BY <1>3, <1>5 DEF DoomedAtEnd
  <2>2. Depth(s, 1, Len(s)) = Depth(s, 1, k - 1) + Depth(s, k, Len(s))
    <3>1. PICK m \in Int : m = k - 1
      OBVIOUS
    <3>2. Depth(s, 1, Len(s)) = Depth(s, 1, m) + Depth(s, m + 1, Len(s))
      BY <3>1, DepthSplit
    <3>3. m + 1 = k
      BY <3>1
    <3>. QED
      BY <3>1, <3>2, <3>3
  <2>3. Depth(s, 1, k - 1) \in Int /\ Depth(s, k, Len(s)) \in Int /\ Depth(s, 1, k - 1) >= 0
    <3>1. k - 1 \in Int
      OBVIOUS
    <3>2. Depth(s, 1, k - 1) \in Int /\ Depth(s, k, Len(s)) \in Int
      BY <3>1, DepthIs
    <3>3. CASE k = 1
      <4>1. k - 1 < 1
        BY <3>3
      <4>2. Depth(s, 1, k - 1) = 0
        BY <3>1, <4>1, DepthIs
      <4>. QED
        BY <3>2, <4>2
    <3>4. CASE k # 1
      <4>1. k - 1 \in 1..Len(s)
        BY <3>4
      <4>. QED
        BY <1>3, <3>2, <4>1
    <3>. QED
      BY <3>3, <3>4
  <2>. QED
    BY <1>3, <2>1, <2>2, <2>3
<1>. QED
  BY <1>4, <1>5

----------------------------------------------------------------------------
(***************************************************************************)
(* The tree at a node, and what it says of a line.  Only the brackets of a *)
(* node are ever changed, so both stay what they are.                      *)
(***************************************************************************)
Shapes(h, f) == f = [n \in 1..Size(h) |-> shapeOf(h, f, n)]

ShapesUpTo(h, f, r) ==
    /\ f = [n \in 1..Size(h) |-> f[n]]
    /\ \A n \in 1..Size(h) : Rank(h, n) < r => f[n] = shapeOf(h, f, n)

LEMMA ShapeAgrees ==
    ASSUME NEW h, Memory(h), NEW n \in 1..Size(h), NEW f, NEW g, \A k \in Kids(h, n) : f[k] = g[k]
    PROVE  shapeOf(h, f, n) = shapeOf(h, g, n)
<1>1. CASE h.node[n].type # "TEST"
  BY <1>1 DEF shapeOf
<1>2. CASE h.node[n].type = "TEST"
  <2>1. Val1(h, n) \in Kids(h, n)
    BY <1>2, KidsBelow DEF IsTest
  <2>2. Val2(h, n) # 0 => Val2(h, n) \in Kids(h, n)
    BY DEF Kids
  <2>. QED
    BY <1>2, <2>1, <2>2 DEF shapeOf, Val1, Val2
<1>. QED
  BY <1>1, <1>2

LEMMA ShapesExist ==
    ASSUME NEW h, Memory(h)
    PROVE  \E f : Shapes(h, f)
<1>. DEFINE N == Size(h)
            T == {r \in Nat : \E f : ShapesUpTo(h, f, r)}
<1>1. /\ N \in Nat
      /\ \A n \in 1..N : Rank(h, n) \in Nat /\ Rank(h, n) < N + 1
      /\ \A n \in 1..N : \A k \in Kids(h, n) : k \in 1..N /\ Rank(h, k) < Rank(h, n)
  <2>1. N \in Nat
    BY DEF Memory, Size
  <2>2. ASSUME NEW n \in 1..N
        PROVE  /\ Rank(h, n) \in Nat /\ Rank(h, n) <= N
               /\ \A k \in Kids(h, n) : k \in 1..N /\ Rank(h, k) < Rank(h, n)
    BY KidsBelow
  <2>. HIDE DEF N
  <2>. QED
    BY <2>1, <2>2
<1>2. \A n \in 1..N : \A f, g : (\A k \in Kids(h, n) : f[k] = g[k]) => shapeOf(h, f, n) = shapeOf(h, g, n)
  BY ShapeAgrees
<1>. HIDE DEF N
<1>3. \A f, r : ShapesUpTo(h, f, r) <=>
         /\ f = [n \in 1..N |-> f[n]]
         /\ \A n \in 1..N : Rank(h, n) < r => f[n] = shapeOf(h, f, n)
  BY DEF ShapesUpTo, N
<1>4. 0 \in T
  <2>. DEFINE f == [n \in 1..N |-> n]
  <2>1. \A n \in 1..N : ~(Rank(h, n) < 0)
    BY <1>1
  <2>2. f = [n \in 1..N |-> f[n]]
    OBVIOUS
  <2>. HIDE DEF f
  <2>3. ShapesUpTo(h, f, 0)
    BY <1>3, <2>1, <2>2
  <2>. QED
    BY <2>3
<1>5. ASSUME NEW r \in Nat, r \in T PROVE r + 1 \in T
  <2>1. PICK f : ShapesUpTo(h, f, r)
    BY <1>5
  <2>. DEFINE g == [n \in 1..N |-> shapeOf(h, f, n)]
  <2>2. ASSUME NEW k \in 1..N, Rank(h, k) < r PROVE g[k] = f[k]
    BY <1>3, <2>1, <2>2
  <2>3. ASSUME NEW n \in 1..N, Rank(h, n) < r + 1
        PROVE  g[n] = shapeOf(h, g, n)
    <3>1. ASSUME NEW k \in Kids(h, n) PROVE g[k] = f[k]
      <4>1. k \in 1..N /\ Rank(h, k) < Rank(h, n) /\ Rank(h, k) \in Nat /\ Rank(h, n) \in Nat
        BY <1>1
      <4>2. Rank(h, k) < r
        BY <2>3, <4>1
      <4>. QED
        BY <2>2, <4>1, <4>2
    <3>2. g[n] = shapeOf(h, f, n)
      OBVIOUS
    <3>. HIDE DEF g
    <3>3. shapeOf(h, g, n) = shapeOf(h, f, n)
      BY <1>2, <3>1
    <3>. QED
      BY <3>2, <3>3
  <2>4. g = [n \in 1..N |-> g[n]]
    OBVIOUS
  <2>. HIDE DEF g
  <2>5. ShapesUpTo(h, g, r + 1)
    BY <1>3, <2>3, <2>4
  <2>. QED
    BY <2>5
<1>. HIDE DEF T
<1>6. N + 1 \in T
  BY <1>1, <1>4, <1>5, Successors
<1>7. PICK f : ShapesUpTo(h, f, N + 1)
  BY <1>6 DEF T
<1>8. f = [n \in 1..N |-> f[n]] /\ \A n \in 1..N : f[n] = shapeOf(h, f, n)
  BY <1>1, <1>3, <1>7
<1>9. f = [n \in 1..N |-> shapeOf(h, f, n)]
  BY <1>8
<1>. QED
  BY <1>9 DEF Shapes, N

LEMMA ShapeIs ==
    ASSUME NEW h, Memory(h), NEW n \in 1..Size(h)
    PROVE  /\ ~IsTest(h, n) => Shape(h, n) = <<h.node[n].type, h.node[n].text, h.node[n].value>>
           /\ IsTest(h, n) /\ Val2(h, n) = 0 => Shape(h, n) = <<h.node[n].op, Shape(h, Val1(h, n))>>
           /\ IsTest(h, n) /\ Val2(h, n) # 0
                => Shape(h, n) = <<h.node[n].op, Shape(h, Val1(h, n)), Shape(h, Val2(h, n))>>
<1>. DEFINE f == CHOOSE f : Shapes(h, f)
<1>1. \A m : Shape(h, m) = f[m]
  BY DEF Shape, Shapes, Size
<1>2. Shapes(h, f)
  BY ShapesExist
<1>. HIDE DEF f
<1>3. f[n] = shapeOf(h, f, n)
  BY <1>2 DEF Shapes
<1>. QED
  BY <1>1, <1>3 DEF shapeOf, IsTest, Val1, Val2

LEMMA VotesAre ==
    ASSUME NEW h, Memory(h), NEW table
    PROVE  \E V : /\ \A n : testNode(h, n, table) = V[n]
                  /\ \A n \in 1..Size(h) : V[n] = testTree(h, table, V, n)
<1>. DEFINE V == CHOOSE f : Votes(h, table, f)
<1>1. \A n : testNode(h, n, table) = V[n]
  BY DEF testNode, Votes, Size
<1>2. Votes(h, table, V)
  BY VotesExist
<1>. HIDE DEF V
<1>3. \A n \in 1..Size(h) : V[n] = testTree(h, table, V, n)
  BY <1>2 DEF Votes
<1>. QED
  BY <1>1, <1>3

LEMMA JudgeIs ==
    ASSUME NEW h, Memory(h), NEW table, NEW n \in 1..Size(h), IsTest(h, n)
    PROVE  LET a == testNode(h, Val1(h, n), table)
               b == testNode(h, Val2(h, n), table)
               op == h.node[n].op
           IN /\ op = "AND" => testNode(h, n, table) = IF a = "yes" THEN b ELSE a
              /\ op = "OR" => testNode(h, n, table) = IF a = "no" THEN b ELSE a
              /\ op = "EXISTS" => testNode(h, n, table) = "no"
              /\ op \notin {"AND", "OR", "EXISTS"} =>
                    testNode(h, n, table) = cmpPattern(h.node[Val1(h, n)], h.node[Val2(h, n)], op, table)
<1>1. PICK V : /\ \A m : testNode(h, m, table) = V[m]
               /\ \A m \in 1..Size(h) : V[m] = testTree(h, table, V, m)
  BY VotesAre
<1>2. testNode(h, n, table) = testTree(h, table, V, n)
  BY <1>1
<1>3. h.node[n].type = "TEST"
  BY DEF IsTest
<1>. HIDE DEF IsTest
<1>. QED
  BY <1>1, <1>2, <1>3 DEF testTree, Val1, Val2

Alike(c, d) ==
    /\ c.type = d.type /\ c.text = d.text /\ c.value = d.value /\ c.op = d.op
    /\ c.val1 = d.val1 /\ c.val2 = d.val2

Keeps(h, g) == Size(h) <= Size(g) /\ \A n \in 1..Size(h) : Alike(h.node[n], g.node[n])

LEMMA SameNode ==
    ASSUME NEW h, Memory(h), NEW g, Memory(g), Keeps(h, g), NEW n \in 1..Size(h)
    PROVE  /\ n \in 1..Size(g) /\ Alike(h.node[n], g.node[n]) /\ IsTest(g, n) = IsTest(h, n)
           /\ Val1(g, n) = Val1(h, n) /\ Val2(g, n) = Val2(h, n)
           /\ IsTest(h, n) => Val1(h, n) \in 1..Size(h) /\ (Val2(h, n) # 0 => Val2(h, n) \in 1..Size(h))
<1>1. Size(h) \in Nat /\ Size(g) \in Nat
  BY KidsBelow DEF Memory, Size
<1>2. n \in 1..Size(g) /\ Alike(h.node[n], g.node[n])
  BY <1>1 DEF Keeps
<1>3. Val1(h, n) \in 0..Size(h) /\ Val2(h, n) \in 0..Size(h)
  BY KidsBelow
<1>4. IsTest(h, n) => Val1(h, n) \in 1..Size(h)
  BY KidsBelow
<1>5. Val2(h, n) # 0 => Val2(h, n) \in 1..Size(h)
  BY <1>1, <1>3
<1>. QED
  BY <1>2, <1>4, <1>5 DEF Alike, IsTest, Val1, Val2

LEMMA ShapeKept ==
    ASSUME NEW h, Memory(h), NEW g, Memory(g), Keeps(h, g), NEW root \in 1..Size(h)
    PROVE  Shape(g, root) = Shape(h, root)
<1>. DEFINE T == {n \in 1..Size(h) : Shape(g, n) = Shape(h, n)}
<1>1. ASSUME NEW n \in 1..Size(h), Kids(h, n) \subseteq T PROVE n \in T
  <2>1. /\ n \in 1..Size(g) /\ Alike(h.node[n], g.node[n]) /\ IsTest(g, n) = IsTest(h, n)
        /\ Val1(g, n) = Val1(h, n) /\ Val2(g, n) = Val2(h, n)
    BY SameNode
  <2>2. IsTest(h, n) => Shape(g, Val1(h, n)) = Shape(h, Val1(h, n))
    BY <1>1, KidsBelow
  <2>3. Val2(h, n) # 0 => Shape(g, Val2(h, n)) = Shape(h, Val2(h, n))
    BY <1>1 DEF Kids
  <2>4. h.node[n].type = g.node[n].type /\ h.node[n].text = g.node[n].text /\ h.node[n].value = g.node[n].value
        /\ h.node[n].op = g.node[n].op
    BY <2>1 DEF Alike
  <2>5. CASE ~IsTest(h, n)
    BY <2>1, <2>4, <2>5, ShapeIs
  <2>6. CASE IsTest(h, n) /\ Val2(h, n) = 0
    <3>1. Shape(h, n) = <<h.node[n].op, Shape(h, Val1(h, n))>>
      BY <2>6, ShapeIs
    <3>2. IsTest(g, n) /\ Val2(g, n) = 0
      BY <2>1, <2>6
    <3>3. Shape(g, n) = <<g.node[n].op, Shape(g, Val1(g, n))>>
      BY <2>1, <3>2, ShapeIs
    <3>. QED
      BY <2>1, <2>2, <2>4, <2>6, <3>1, <3>3
  <2>7. CASE IsTest(h, n) /\ Val2(h, n) # 0
    <3>1. Shape(h, n) = <<h.node[n].op, Shape(h, Val1(h, n)), Shape(h, Val2(h, n))>>
      BY <2>7, ShapeIs
    <3>2. IsTest(g, n) /\ Val2(g, n) # 0
      BY <2>1, <2>7
    <3>3. Shape(g, n) = <<g.node[n].op, Shape(g, Val1(g, n)), Shape(g, Val2(g, n))>>
      BY <2>1, <3>2, ShapeIs
    <3>. QED
      BY <2>1, <2>2, <2>3, <2>4, <2>7, <3>1, <3>3
  <2>. QED
    BY <2>5, <2>6, <2>7
<1>. HIDE DEF T
<1>2. 1..Size(h) \subseteq T
  BY <1>1, ByRank
<1>. QED
  BY <1>2 DEF T

LEMMA LeftmostKept ==
    ASSUME NEW h, Memory(h), NEW g, Memory(g), Keeps(h, g), NEW root \in 1..Size(h)
    PROVE  /\ Leftmost(g, root) = Leftmost(h, root)
           /\ Leftmost(h, root) \in 1..Size(h) /\ ~IsTest(h, Leftmost(h, root))
<1>. DEFINE T == {n \in 1..Size(h) : Leftmost(g, n) = Leftmost(h, n)}
<1>1. ASSUME NEW n \in 1..Size(h), Kids(h, n) \subseteq T PROVE n \in T
  <2>1. /\ n \in 1..Size(g) /\ IsTest(g, n) = IsTest(h, n) /\ Val1(g, n) = Val1(h, n)
    BY SameNode
  <2>2. IsTest(h, n) => Leftmost(g, Val1(h, n)) = Leftmost(h, Val1(h, n))
    BY <1>1, KidsBelow
  <2>. QED
    BY <2>1, <2>2, LeftmostIs
<1>. HIDE DEF T
<1>2. 1..Size(h) \subseteq T
  BY <1>1, ByRank
<1>3. Leftmost(h, root) \in 1..Size(h) /\ ~IsTest(h, Leftmost(h, root))
  <2>1. \A m \in 1..Size(h) : Kids(h, m) \subseteq 1..Size(h)
    BY KidsBelow
  <2>. QED
    BY <2>1, LeftmostLeaf
<1>. QED
  BY <1>2, <1>3 DEF T

LEMMA JudgementKept ==
    ASSUME NEW h, Memory(h), NEW g, Memory(g), Keeps(h, g), NEW root \in 1..Size(h), NEW table
    PROVE  testNode(g, root, table) = testNode(h, root, table)
<1>1. PICK V : /\ \A m : testNode(h, m, table) = V[m]
               /\ \A m \in 1..Size(h) : V[m] = testTree(h, table, V, m)
  BY VotesAre
<1>2. PICK W : /\ \A m : testNode(g, m, table) = W[m]
               /\ \A m \in 1..Size(g) : W[m] = testTree(g, table, W, m)
  BY VotesAre
<1>. DEFINE T == {n \in 1..Size(h) : V[n] = W[n]}
<1>3. ASSUME NEW n \in 1..Size(h), Kids(h, n) \subseteq T PROVE n \in T
  <2>1. /\ n \in 1..Size(g) /\ Alike(h.node[n], g.node[n]) /\ IsTest(g, n) = IsTest(h, n)
        /\ Val1(g, n) = Val1(h, n) /\ Val2(g, n) = Val2(h, n)
        /\ IsTest(h, n) => Val1(h, n) \in 1..Size(h) /\ (Val2(h, n) # 0 => Val2(h, n) \in 1..Size(h))
    BY SameNode
  <2>2. \A k \in Kids(h, n) : V[k] = W[k]
    BY <1>3
  <2>3. testTree(h, table, V, n) = testTree(h, table, W, n)
    BY <2>2, VoteAgrees
  <2>4. testTree(h, table, W, n) = testTree(g, table, W, n)
    <3>1. CASE ~IsTest(h, n)
      <4>1. h.node[n].type # "TEST" /\ g.node[n].type # "TEST"
        BY <2>1, <3>1 DEF Alike, IsTest
      <4>2. h.node[n].op = "" /\ g.node[n].op = ""
        BY <2>1, <3>1 DEF Alike, IsTest, Memory, Arity
      <4>3. testTree(h, table, W, n) = "yes" /\ testTree(g, table, W, n) = "yes"
        <5>1. \A f, V0 : f.node[n].type # "TEST" /\ f.node[n].op = "" => testTree(f, table, V0, n) = "yes"
          BY DEF testTree
        <5>. QED
          BY <4>1, <4>2, <5>1
      <4>. QED
        BY <4>3
    <3>2. CASE IsTest(h, n) /\ h.node[n].op \in {"AND", "OR", "EXISTS"}
      BY <2>1, <3>2 DEF testTree, IsTest, Alike
    <3>3. CASE IsTest(h, n) /\ h.node[n].op \notin {"AND", "OR", "EXISTS"}
      <4>1. Val2(h, n) # 0
        BY <3>3 DEF Memory, Arity, IsTest, Val2
      <4>2. Alike(h.node[Val1(h, n)], g.node[Val1(h, n)]) /\ Alike(h.node[Val2(h, n)], g.node[Val2(h, n)])
        BY <2>1, <3>3, <4>1, SameNode
      <4>3. /\ testTree(h, table, W, n) = cmpPattern(h.node[Val1(h, n)], h.node[Val2(h, n)], h.node[n].op, table)
            /\ testTree(g, table, W, n) = cmpPattern(g.node[Val1(h, n)], g.node[Val2(h, n)], h.node[n].op, table)
        BY <2>1, <3>3 DEF testTree, IsTest, Alike, Val1, Val2
      <4>4. ASSUME NEW a, NEW b, NEW x, NEW y, Alike(a, x), Alike(b, y), NEW op
            PROVE  cmpPattern(a, b, op, table) = cmpPattern(x, y, op, table)
        BY <4>4 DEF Alike, cmpPattern
      <4>. QED
        BY <4>2, <4>3, <4>4
    <3>. QED
      BY <3>1, <3>2, <3>3
  <2>. QED
    BY <1>1, <1>2, <2>1, <2>3, <2>4
<1>. HIDE DEF T
<1>4. 1..Size(h) \subseteq T
  BY <1>3, ByRank
<1>. QED
  BY <1>1, <1>2, <1>4 DEF T

----------------------------------------------------------------------------
(***************************************************************************)
(* How a longer part is read, rule by rule of the grammar.                 *)
(***************************************************************************)
LEMMA PartWithin ==
    ASSUME NEW s, Len(s) \in Nat, NEW i, NEW j, Balanced(s, i, j)
    PROVE  i \in 1..Len(s) /\ j \in 1..Len(s) /\ i <= j /\ i \in 1..(Len(s) + 1) /\ j \in 0..Len(s)
BY DEF Balanced

LEMMA OutsideParts ==
    ASSUME NEW s, Len(s) \in Nat, NEW i, NEW k \in Int, NEW j, Balanced(s, i, k - 1), Balanced(s, k + 1, j),
           s[k].major \in Junctions, NEW c \in Junctions, Free(s, k + 1, j, c)
    PROVE  /\ s[k].major = c => Outsides(s, i, j, c) /\ Greatest(s, i, j, c) = k
           /\ s[k].major # c /\ Free(s, i, k - 1, c) => ~Outsides(s, i, j, c)
<1>1. Reference!Outside(s, i, j, c) =
             Reference!Outside(s, i, k - 1, c) \cup Reference!Outside(s, k + 1, j, c)
             \cup (IF s[k].major = c THEN {k} ELSE {})
  <2>1. SplitAt(s, i, k, j, c)
    BY JoinedOutside
  <2>. QED
    BY <2>1 DEF SplitAt
<1>2. Reference!Outside(s, k + 1, j, c) = {}
  BY DEF Free
<1>3. i \in 1..Len(s) /\ i <= k - 1
  BY PartWithin
<1>. DEFINE I == Reference!Outside(s, i, k - 1, c)
<1>4. I \in SUBSET ((i + 1)..((k - 1) - 1))
  BY DEF Reference!Outside
<1>5. ASSUME s[k].major = c PROVE Outsides(s, i, j, c) /\ Greatest(s, i, j, c) = k
  <2>1. Reference!Outside(s, i, j, c) = I \cup {k}
    BY <1>1, <1>2, <1>5
  <2>. HIDE DEF I
  <2>2. (I \cup {k}) \in SUBSET Int /\ k \in I \cup {k} /\ \A m \in I \cup {k} : m <= k
    BY <1>3, <1>4
  <2>3. Max(I \cup {k}) = k
    BY <2>2, GreatestIs
  <2>. QED
    BY <2>1, <2>3, MaxThere DEF Outsides, Greatest
<1>6. ASSUME s[k].major # c, Free(s, i, k - 1, c) PROVE ~Outsides(s, i, j, c)
  BY <1>1, <1>2, <1>6 DEF Outsides, Free
<1>. QED
  BY <1>5, <1>6

NotOver(i, j) == ~(i > j)

LEMMA NotOverIs == ASSUME NEW i \in Int, NEW j \in Int, i <= j PROVE NotOver(i, j)
BY DEF NotOver

LEMMA PartOf ==
    ASSUME NEW s, NEW table, NEW R, NEW i, NEW j, NotOver(i, j)
    PROVE  Reference!Part(s, table, R, i, j) =
             IF Outsides(s, i, j, TOKEN_TEST_AND)
             THEN AndOf(R[i][Greatest(s, i, j, TOKEN_TEST_AND) - 1], R[Greatest(s, i, j, TOKEN_TEST_AND) + 1][j])
             ELSE IF Outsides(s, i, j, TOKEN_TEST_OR)
             THEN OrOf(R[i][Greatest(s, i, j, TOKEN_TEST_OR) - 1], R[Greatest(s, i, j, TOKEN_TEST_OR) + 1][j])
             ELSE IF InBrackets(s, i, j) THEN R[i + 1][j - 1]
             ELSE IF ~Reference!IsChain(s, i, j) THEN Reference!NoSentence
             ELSE IF i = j THEN Reference!Alone(Reference!Entity(s[i]))
             ELSE IF j = i + 2 THEN FirstPair(s, i, table)
             ELSE AndOf(FirstPair(s, i, table), R[i + 2][j])
BY PartIs DEF NotOver

LEMMA ReadsAnd ==
    ASSUME NEW s, Len(s) \in Nat, NEW i, NEW k \in Int, NEW j, Balanced(s, i, k - 1), Balanced(s, k + 1, j),
           s[k].major = TOKEN_TEST_AND, Free(s, k + 1, j, TOKEN_TEST_AND), NEW table
    PROVE  Meant(s, table)[i][j] = AndOf(Meant(s, table)[i][k - 1], Meant(s, table)[k + 1][j])
<1>1. i \in 1..(Len(s) + 1) /\ j \in 0..Len(s) /\ i \in Int /\ j \in Int /\ i <= j
  BY PartWithin
<1>2. NotOver(i, j)
  BY <1>1, NotOverIs
<1>3. Outsides(s, i, j, TOKEN_TEST_AND) /\ Greatest(s, i, j, TOKEN_TEST_AND) = k
  BY OutsideParts DEF Junctions
<1>4. Meant(s, table)[i][j] = Reference!Part(s, table, Meant(s, table), i, j)
  BY <1>1, MeantIs
<1>. QED
  BY <1>2, <1>3, <1>4, PartOf

LEMMA ReadsOr ==
    ASSUME NEW s, Len(s) \in Nat, NEW i, NEW k \in Int, NEW j, Balanced(s, i, k - 1), Balanced(s, k + 1, j),
           s[k].major = TOKEN_TEST_OR, Free(s, k + 1, j, TOKEN_TEST_OR),
           Free(s, i, k - 1, TOKEN_TEST_AND), Free(s, k + 1, j, TOKEN_TEST_AND), NEW table
    PROVE  Meant(s, table)[i][j] = OrOf(Meant(s, table)[i][k - 1], Meant(s, table)[k + 1][j])
<1>1. i \in 1..(Len(s) + 1) /\ j \in 0..Len(s) /\ i \in Int /\ j \in Int /\ i <= j
  BY PartWithin
<1>2. NotOver(i, j)
  BY <1>1, NotOverIs
<1>3. TOKEN_TEST_OR \in Junctions /\ TOKEN_TEST_AND \in Junctions /\ s[k].major \in Junctions
      /\ TOKEN_TEST_OR # TOKEN_TEST_AND
  BY Codes DEF Junctions
<1>4. Outsides(s, i, j, TOKEN_TEST_OR) /\ Greatest(s, i, j, TOKEN_TEST_OR) = k
  BY <1>3, OutsideParts
<1>5. ~Outsides(s, i, j, TOKEN_TEST_AND)
  BY <1>3, OutsideParts
<1>6. Meant(s, table)[i][j] = Reference!Part(s, table, Meant(s, table), i, j)
  BY <1>1, MeantIs
<1>. QED
  BY <1>2, <1>4, <1>5, <1>6, PartOf

LEMMA ReadsBrackets ==
    ASSUME NEW s, Len(s) \in Nat, NEW i \in 1..Len(s), NEW j \in 1..Len(s), Balanced(s, i + 1, j - 1),
           s[i].major = TOKEN_LPAREN, s[j].major = TOKEN_RPAREN, NEW table
    PROVE  Meant(s, table)[i][j] = Meant(s, table)[i + 1][j - 1]
<1>1. Balanced(s, i, j) /\ \A c \in Junctions : Free(s, i, j, c)
  BY BracketedPart
<1>2. i \in 1..(Len(s) + 1) /\ j \in 0..Len(s) /\ i \in Int /\ j \in Int /\ i <= j
  BY <1>1, PartWithin
<1>3. NotOver(i, j)
  BY <1>2, NotOverIs
<1>4. ~Outsides(s, i, j, TOKEN_TEST_AND) /\ ~Outsides(s, i, j, TOKEN_TEST_OR)
  BY <1>1 DEF Outsides, Free, Junctions
<1>5. Meant(s, table)[i][j] = Reference!Part(s, table, Meant(s, table), i, j)
  BY <1>2, MeantIs
<1>. QED
  BY <1>3, <1>4, <1>5, PartOf DEF InBrackets

LEMMA ChainNested ==
    ASSUME NEW s, Len(s) \in Nat, NEW i \in 1..Len(s), NEW j \in 1..Len(s), Reference!IsChain(s, i, j)
    PROVE  /\ ~Outsides(s, i, j, TOKEN_TEST_AND) /\ ~Outsides(s, i, j, TOKEN_TEST_OR) /\ ~InBrackets(s, i, j)
           /\ NotOver(i, j) /\ i <= j
<1>1. /\ Balanced(s, i, j) /\ \A c \in Junctions : Free(s, i, j, c)
      /\ Reference!IsEntity(s[i])
  BY ChainPart
<1>2. ~Outsides(s, i, j, TOKEN_TEST_AND) /\ ~Outsides(s, i, j, TOKEN_TEST_OR)
  BY <1>1 DEF Outsides, Free, Junctions
<1>3. ~InBrackets(s, i, j)
  <2>1. s[i].major \in {10, 11, 12}
    BY <1>1, Codes
  <2>2. s[i].major # 13
    BY <2>1
  <2>. QED
    BY <2>2, Codes DEF InBrackets
<1>4. i <= j /\ NotOver(i, j)
  <2>1. i <= j
    BY <1>1, PartWithin
  <2>. QED
    BY <2>1, NotOverIs
<1>. QED
  BY <1>2, <1>3, <1>4

LEMMA ReadsAlone ==
    ASSUME NEW s, Len(s) \in Nat, NEW i \in 1..Len(s), Reference!IsEntity(s[i]), NEW table
    PROVE  Meant(s, table)[i][i] = Reference!Alone(Reference!Entity(s[i]))
<1>1. Reference!IsChain(s, i, i)
  <2>1. \A k \in i..i : k = i
    OBVIOUS
  <2>2. (i - i) % 2 = 0 /\ i <= i
    OBVIOUS
  <2>. QED
    BY <2>1, <2>2 DEF Reference!IsChain
<1>2. Meant(s, table)[i][i] = Reference!Part(s, table, Meant(s, table), i, i)
  <2>1. i \in 1..(Len(s) + 1) /\ i \in 0..Len(s)
    OBVIOUS
  <2>. QED
    BY <2>1, MeantIs
<1>. QED
  BY <1>1, <1>2, ChainNested, PartOf

LEMMA LongerChain ==
    ASSUME NEW s, Len(s) \in Nat, NEW i \in 1..Len(s), NEW j \in 1..Len(s), Reference!IsEntity(s[i]),
           Reference!IsComparison(s[i + 1]), Reference!IsChain(s, i + 2, j)
    PROVE  Reference!IsChain(s, i, j) /\ i + 2 <= j
<1>1. /\ i + 2 <= j /\ (j - (i + 2)) % 2 = 0
      /\ \A k \in (i + 2)..j : IF (k - (i + 2)) % 2 = 0 THEN Reference!IsEntity(s[k])
                                                        ELSE Reference!IsComparison(s[k])
  BY DEF Reference!IsChain
<1>2. i <= j /\ (j - i) % 2 = 0
  BY <1>1
<1>3. ASSUME NEW k \in i..j
      PROVE  IF (k - i) % 2 = 0 THEN Reference!IsEntity(s[k]) ELSE Reference!IsComparison(s[k])
  <2>1. CASE k = i
    <3>1. (k - i) % 2 = 0
      BY <2>1
    <3>. QED
      BY <2>1, <3>1
  <2>2. CASE k = i + 1
    <3>1. (k - i) % 2 # 0
      BY <2>2
    <3>. QED
      BY <2>2, <3>1
  <2>3. CASE k >= i + 2
    <3>1. k \in (i + 2)..j
      BY <2>3
    <3>2. ((k - (i + 2)) % 2 = 0) <=> ((k - i) % 2 = 0)
      OBVIOUS
    <3>. QED
      BY <1>1, <3>1, <3>2
  <2>. QED
    BY <2>1, <2>2, <2>3
<1>. QED
  BY <1>1, <1>2, <1>3 DEF Reference!IsChain

LEMMA ReadsChain ==
    ASSUME NEW s, Len(s) \in Nat, NEW i \in 1..Len(s), NEW j \in 1..Len(s), Reference!IsEntity(s[i]),
           Reference!IsComparison(s[i + 1]), Reference!IsChain(s, i + 2, j), NEW table
    PROVE  Meant(s, table)[i][j] = IF j = i + 2 THEN FirstPair(s, i, table)
                                   ELSE AndOf(FirstPair(s, i, table), Meant(s, table)[i + 2][j])
<1>1. Reference!IsChain(s, i, j) /\ i # j
  BY LongerChain
<1>2. Meant(s, table)[i][j] = Reference!Part(s, table, Meant(s, table), i, j)
  <2>1. i \in 1..(Len(s) + 1) /\ j \in 0..Len(s)
    OBVIOUS
  <2>. QED
    BY <2>1, MeantIs
<1>. DEFINE two == j = i + 2
<1>. HIDE DEF two
<1>3. Meant(s, table)[i][j] = IF two THEN FirstPair(s, i, table)
                              ELSE AndOf(FirstPair(s, i, table), Meant(s, table)[i + 2][j])
  BY <1>1, <1>2, ChainNested, PartOf DEF two
<1>. QED
  BY <1>3 DEF two

(* A word alone is a chain, and so is what a comparison ends with.          *)
LEMMA OneChain ==
    ASSUME NEW s, NEW i \in Int, Reference!IsEntity(s[i])
    PROVE  Reference!IsChain(s, i, i)
<1>1. \A k \in i..i : k = i
  OBVIOUS
<1>2. (i - i) % 2 = 0 /\ i <= i
  OBVIOUS
<1>. QED
  BY <1>1, <1>2 DEF Reference!IsChain

----------------------------------------------------------------------------
(***************************************************************************)
(* A new node stands for what the rule has read.                           *)
(***************************************************************************)
Comparisons == {"EQ", "NE", "LT", "LE", "GT", "GE"}

LEMMA ComparisonIs ==
    ASSUME NEW t, Reference!IsComparison(t)
    PROVE  RelOp[t.major] \in Comparisons /\ t.major \in 3..8
<1>1. t.major \in 3..8
  BY Codes
<1>2. \A m \in 3..8 : m = 3 \/ m = 4 \/ m = 5 \/ m = 6 \/ m = 7 \/ m = 8
  OBVIOUS
<1>3. RelOp[3] \in Comparisons /\ RelOp[4] \in Comparisons /\ RelOp[5] \in Comparisons /\ RelOp[6] \in Comparisons
      /\ RelOp[7] \in Comparisons /\ RelOp[8] \in Comparisons
  BY DEF RelOp, Comparisons
<1>. QED
  BY <1>1, <1>2, <1>3

LEMMA NumbersAgree ==
    ASSUME NEW op \in Comparisons, NEW v \in Int, NEW w \in Int
    PROVE  integerTest(op, v, w) <=> Reference!Ordered(op, w, v)
<1>. DEFINE a == w = v
            b == w < v
            c == w > v
            d == w >= v
            e == w <= v
<1>1. (a \/ b \/ c) /\ (d <=> a \/ c) /\ (e <=> a \/ b) /\ (b => ~a /\ ~c) /\ (c => ~a)
  OBVIOUS
<1>2. Reference!Ordered(op, w, v) <=> \/ op \in {"EQ", "LE", "GE"} /\ a
                                      \/ op \in {"NE", "LT", "LE"} /\ b
                                      \/ op \in {"NE", "GT", "GE"} /\ c
  BY DEF Reference!Ordered
<1>3. /\ op = "EQ" => integerTest(op, v, w) = a
      /\ op = "NE" => integerTest(op, v, w) = ~a
      /\ op = "GT" => integerTest(op, v, w) = c
      /\ op = "GE" => integerTest(op, v, w) = d
      /\ op = "LT" => integerTest(op, v, w) = b
      /\ op = "LE" => integerTest(op, v, w) = e
  BY DEF integerTest
<1>. HIDE DEF a, b, c, d, e
<1>. QED
  BY <1>1, <1>2, <1>3 DEF Comparisons

(* cmpPattern and what the grammar means by a comparison.                   *)
LEMMA CompareAgrees ==
    ASSUME NEW key, NEW value, NEW op \in Comparisons, NEW table, IsLine(table), value.value \in Int,
           cmpPattern(key, value, op, table) # "crash"
    PROVE  cmpPattern(key, value, op, table) = "yes" <=>
              Reference!Compare(op, <<key.type, key.text, key.value>>, <<value.type, value.text, value.value>>, table)
<1>. DEFINE C == Reference!Compare(op, <<key.type, key.text, key.value>>,
                                   <<value.type, value.text, value.value>>, table)
            P == cmpPattern(key, value, op, table)
            node == table[key.text]
<1>1. C <=> /\ key.type # "INTEGER" /\ key.text \in DOMAIN table
            /\ node.type = value.type
            /\ IF value.type = "STRING" THEN Reference!SameString(op, node.text, value.text)
               ELSE Reference!Ordered(op, node.value, value.value)
  BY DEF Reference!Compare
<1>2. key.type # "INTEGER"
  BY DEF cmpPattern
<1>3. CASE key.text \notin DOMAIN table
  <2>1. P = "no"
    BY <1>2, <1>3 DEF cmpPattern
  <2>. QED
    BY <1>1, <1>3, <2>1
<1>4. CASE key.text \in DOMAIN table
  <2>1. node.type \in {"STRING", "INTEGER"} /\ node.value \in Int
    BY <1>4 DEF IsLine
  <2>2. CASE node.type # value.type
    <3>1. P = "no"
      BY <1>2, <1>4, <2>2 DEF cmpPattern
    <3>. QED
      BY <1>1, <2>2, <3>1
  <2>3. CASE node.type = value.type /\ value.type = "INTEGER"
    <3>1. P = IF integerTest(op, value.value, node.value) THEN "yes" ELSE "no"
      BY <1>2, <1>4, <2>3 DEF cmpPattern
    <3>2. integerTest(op, value.value, node.value) <=> Reference!Ordered(op, node.value, value.value)
      BY <2>1, NumbersAgree
    <3>. HIDE DEF node, P, C
    <3>. QED
      BY <1>1, <1>2, <1>4, <2>3, <3>1, <3>2 DEF C, P
  <2>4. CASE node.type = value.type /\ value.type = "STRING"
    <3>1. P = IF stringTest(op, value.text, node.text) THEN "yes" ELSE "no"
      BY <1>2, <1>4, <2>4 DEF cmpPattern
    <3>2. stringTest(op, value.text, node.text) <=> Reference!SameString(op, node.text, value.text)
      BY DEF stringTest, Reference!SameString
    <3>. HIDE DEF node, P, C
    <3>. QED
      BY <1>1, <1>2, <1>4, <2>4, <3>1, <3>2 DEF C, P
  <2>. QED
    BY <2>1, <2>2, <2>3, <2>4
<1>. QED
  BY <1>3, <1>4

(* A node with its tree and its verdict is all that Means asks for.         *)
Agrees(h, n, table, part) ==
    /\ Shape(h, n) = part.tree
    /\ testNode(h, n, table) # "crash" => (testNode(h, n, table) = "yes" <=> part.holds)

LEMMA MeansIs ==
    ASSUME NEW h, NEW n, NEW s, NEW i, NEW j
    PROVE  Means(h, n, s, i, j) <=>
             /\ n \in 1..Size(h) /\ Shape(h, n) # Reference!NoTree
             /\ \A table : IsLine(table) => Agrees(h, n, table, Meant(s, table)[i][j])
BY DEF Means, Agrees

LEMMA AgreesBoth ==
    ASSUME NEW h, Memory(h), NEW n \in 1..Size(h), IsTest(h, n), NEW table, NEW l, NEW r,
           Agrees(h, Val1(h, n), table, l), Agrees(h, Val2(h, n), table, r), Val2(h, n) # 0,
           Shape(h, Val1(h, n)) # Reference!NoTree, Shape(h, Val2(h, n)) # Reference!NoTree,
           h.node[n].op \in {"AND", "OR"}
    PROVE  Agrees(h, n, table, Reference!Both(h.node[n].op, l, r)) /\ Shape(h, n) # Reference!NoTree
<1>. DEFINE op == h.node[n].op
            a == testNode(h, Val1(h, n), table)
            b == testNode(h, Val2(h, n), table)
            v == testNode(h, n, table)
<1>1. Shape(h, n) = <<op, Shape(h, Val1(h, n)), Shape(h, Val2(h, n))>>
  BY ShapeIs
<1>2. Shape(h, n) = Reference!Both(op, l, r).tree
  BY <1>1 DEF Agrees, Reference!Both
<1>3. Shape(h, n) # Reference!NoTree
  BY <1>1 DEF Reference!NoTree
<1>4. (op = "AND" => v = IF a = "yes" THEN b ELSE a) /\ (op = "OR" => v = IF a = "no" THEN b ELSE a)
  BY JudgeIs
<1>5. (a # "crash" => (a = "yes" <=> l.holds)) /\ (b # "crash" => (b = "yes" <=> r.holds))
  BY DEF Agrees
<1>6. a \in Verdicts /\ b \in Verdicts
  <2>1. Val1(h, n) \in 1..Size(h) /\ Val2(h, n) \in 1..Size(h)
    <3>1. Val1(h, n) \in Kids(h, n) /\ \A k \in Kids(h, n) : k \in 1..Size(h)
      BY KidsBelow
    <3>2. Val2(h, n) \in Kids(h, n)
      BY DEF Kids
    <3>. QED
      BY <3>1, <3>2
  <2>. QED
    BY <2>1, Judgement
<1>7. Reference!Both(op, l, r).holds = IF op = "AND" THEN l.holds /\ r.holds ELSE l.holds \/ r.holds
  BY DEF Reference!Both
<1>8. op = "AND" \/ op = "OR"
  OBVIOUS
<1>. HIDE DEF op, a, b, v
<1>9. v # "crash" => (v = "yes" <=> Reference!Both(op, l, r).holds)
  <2>1. CASE op = "AND"
    BY <1>4, <1>5, <1>6, <1>7, <2>1 DEF Verdicts
  <2>2. CASE op = "OR"
    BY <1>4, <1>5, <1>6, <1>7, <2>2 DEF Verdicts
  <2>. QED
    BY <1>8, <2>1, <2>2
<1>. QED
  BY <1>2, <1>3, <1>9 DEF Agrees, op, v

LEMMA AgreesAlone ==
    ASSUME NEW h, Memory(h), NEW n \in 1..Size(h), IsTest(h, n), NEW table, NEW t,
           IsEntityNode(h, Val1(h, n), t), Val2(h, n) = 0
    PROVE  Agrees(h, n, table, Reference!Alone(Reference!Entity(t))) /\ Shape(h, n) # Reference!NoTree
<1>1. h.node[n].op = "EXISTS"
  BY DEF Memory, Arity, IsTest, Val2
<1>2. Shape(h, n) = <<"EXISTS", Shape(h, Val1(h, n))>>
  BY <1>1, ShapeIs
<1>3. Shape(h, Val1(h, n)) = Reference!Entity(t)
  BY ShapeIs DEF IsEntityNode
<1>4. testNode(h, n, table) = "no"
  BY <1>1, JudgeIs
<1>5. /\ Reference!Alone(Reference!Entity(t)).tree = <<"EXISTS", Reference!Entity(t)>>
      /\ Reference!Alone(Reference!Entity(t)).holds = FALSE
  BY DEF Reference!Alone
<1>6. Shape(h, n) # Reference!NoTree
  BY <1>2 DEF Reference!NoTree
<1>. QED
  BY <1>2, <1>3, <1>4, <1>5, <1>6 DEF Agrees

LEMMA AgreesPair ==
    ASSUME NEW h, Memory(h), NEW n \in 1..Size(h), IsTest(h, n), NEW table, IsLine(table), NEW t, NEW u,
           IsEntityNode(h, Val1(h, n), t), IsEntityNode(h, Val2(h, n), u), Val2(h, n) # 0,
           h.node[n].op \in Comparisons, \A m \in 1..Size(h) : h.node[m].value \in Int
    PROVE  /\ Agrees(h, n, table, Reference!Pair(h.node[n].op, Reference!Entity(t), Reference!Entity(u), table))
           /\ Shape(h, n) # Reference!NoTree
<1>. DEFINE op == h.node[n].op
            key == h.node[Val1(h, n)]
            value == h.node[Val2(h, n)]
            x == Reference!Entity(t)
            y == Reference!Entity(u)
<1>1. <<key.type, key.text, key.value>> = x /\ <<value.type, value.text, value.value>> = y /\ value.value \in Int
  BY DEF IsEntityNode
<1>2. Shape(h, Val1(h, n)) = x /\ Shape(h, Val2(h, n)) = y
  BY ShapeIs DEF IsEntityNode
<1>3. Shape(h, n) = <<op, x, y>>
  BY <1>2, ShapeIs
<1>4. op \notin {"AND", "OR", "EXISTS"}
  BY DEF Comparisons
<1>5. testNode(h, n, table) = cmpPattern(key, value, op, table)
  BY <1>4, JudgeIs
<1>. HIDE DEF op, key, value, x, y
<1>6. testNode(h, n, table) # "crash" => (testNode(h, n, table) = "yes" <=> Reference!Compare(op, x, y, table))
  <2>1. op \in Comparisons
    BY DEF op
  <2>. QED
    BY <1>1, <1>5, <2>1, CompareAgrees
<1>7. Reference!Pair(op, x, y, table).tree = <<op, x, y>>
      /\ Reference!Pair(op, x, y, table).holds = Reference!Compare(op, x, y, table)
  BY DEF Reference!Pair
<1>8. Shape(h, n) # Reference!NoTree
  BY <1>3 DEF Reference!NoTree
<1>9. Agrees(h, n, table, Reference!Pair(op, x, y, table))
  BY <1>3, <1>6, <1>7 DEF Agrees
<1>. QED
  BY <1>8, <1>9 DEF op, x, y

----------------------------------------------------------------------------
LEMMA NothingIsLine == IsLine(Reference!NoLine)
BY DEF IsLine, Reference!NoLine

LEMMA MeansBoth ==
    ASSUME NEW h, Memory(h), NEW n \in 1..Size(h), IsTest(h, n), Val2(h, n) # 0, h.node[n].op \in {"AND", "OR"},
           NEW s, NEW i, NEW a, NEW b, NEW j,
           Means(h, Val1(h, n), s, i, a), Means(h, Val2(h, n), s, b, j),
           \A table : Meant(s, table)[i][j]
                         = Reference!Both(h.node[n].op, Meant(s, table)[i][a], Meant(s, table)[b][j])
    PROVE  Means(h, n, s, i, j)
<1>1. ASSUME NEW table, IsLine(table)
      PROVE  Agrees(h, n, table, Meant(s, table)[i][j]) /\ Shape(h, n) # Reference!NoTree
  <2>. DEFINE l == Meant(s, table)[i][a]
              r == Meant(s, table)[b][j]
              both == Meant(s, table)[i][j]
  <2>1. Agrees(h, Val1(h, n), table, l) /\ Shape(h, Val1(h, n)) # Reference!NoTree
    BY <1>1, MeansIs
  <2>2. Agrees(h, Val2(h, n), table, r) /\ Shape(h, Val2(h, n)) # Reference!NoTree
    BY <1>1, MeansIs
  <2>3. both = Reference!Both(h.node[n].op, l, r)
    OBVIOUS
  <2>. HIDE DEF l, r, both
  <2>4. Agrees(h, n, table, both) /\ Shape(h, n) # Reference!NoTree
    BY <2>1, <2>2, <2>3, AgreesBoth
  <2>. QED
    BY <2>4 DEF both
<1>. QED
  BY <1>1, NothingIsLine, MeansIs

LEMMA MeansAnd ==
    ASSUME NEW h, Memory(h), NEW n \in 1..Size(h), IsTest(h, n), Val2(h, n) # 0, h.node[n].op = "AND",
           NEW s, Len(s) \in Nat, NEW i, NEW k \in Int, NEW j, Balanced(s, i, k - 1), Balanced(s, k + 1, j),
           s[k].major = TOKEN_TEST_AND, Free(s, k + 1, j, TOKEN_TEST_AND),
           Means(h, Val1(h, n), s, i, k - 1), Means(h, Val2(h, n), s, k + 1, j)
    PROVE  Means(h, n, s, i, j)
<1>1. ASSUME NEW table
      PROVE  Meant(s, table)[i][j]
                = Reference!Both(h.node[n].op, Meant(s, table)[i][k - 1], Meant(s, table)[k + 1][j])
  BY ReadsAnd DEF AndOf
<1>. QED
  BY <1>1, MeansBoth

LEMMA MeansOr ==
    ASSUME NEW h, Memory(h), NEW n \in 1..Size(h), IsTest(h, n), Val2(h, n) # 0, h.node[n].op = "OR",
           NEW s, Len(s) \in Nat, NEW i, NEW k \in Int, NEW j, Balanced(s, i, k - 1), Balanced(s, k + 1, j),
           s[k].major = TOKEN_TEST_OR, Free(s, k + 1, j, TOKEN_TEST_OR),
           Free(s, i, k - 1, TOKEN_TEST_AND), Free(s, k + 1, j, TOKEN_TEST_AND),
           Means(h, Val1(h, n), s, i, k - 1), Means(h, Val2(h, n), s, k + 1, j)
    PROVE  Means(h, n, s, i, j)
<1>1. ASSUME NEW table
      PROVE  Meant(s, table)[i][j]
                = Reference!Both(h.node[n].op, Meant(s, table)[i][k - 1], Meant(s, table)[k + 1][j])
  <2>1. Meant(s, table)[i][j] = OrOf(Meant(s, table)[i][k - 1], Meant(s, table)[k + 1][j])
    BY ReadsOr
  <2>. QED
    BY <2>1 DEF OrOf
<1>. QED
  BY <1>1, MeansBoth

LEMMA MeansBrackets ==
    ASSUME NEW h, NEW n, NEW s, Len(s) \in Nat, NEW i \in 1..Len(s), NEW j \in 1..Len(s),
           Balanced(s, i + 1, j - 1), s[i].major = TOKEN_LPAREN, s[j].major = TOKEN_RPAREN,
           Means(h, n, s, i + 1, j - 1)
    PROVE  Means(h, n, s, i, j)
<1>1. \A table : Meant(s, table)[i][j] = Meant(s, table)[i + 1][j - 1]
  BY ReadsBrackets
<1>2. ASSUME NEW table, IsLine(table) PROVE Agrees(h, n, table, Meant(s, table)[i][j])
  <2>1. Agrees(h, n, table, Meant(s, table)[i + 1][j - 1])
    BY <1>2, MeansIs
  <2>. QED
    BY <1>1, <2>1
<1>. QED
  BY <1>2, MeansIs

LEMMA MeansAlone ==
    ASSUME NEW h, Memory(h), NEW n \in 1..Size(h), IsTest(h, n), Val2(h, n) = 0,
           NEW s, Len(s) \in Nat, NEW i \in 1..Len(s), Reference!IsEntity(s[i]),
           IsEntityNode(h, Val1(h, n), s[i])
    PROVE  Means(h, n, s, i, i)
<1>1. ASSUME NEW table
      PROVE  Agrees(h, n, table, Meant(s, table)[i][i]) /\ Shape(h, n) # Reference!NoTree
  <2>1. Meant(s, table)[i][i] = Reference!Alone(Reference!Entity(s[i]))
    BY ReadsAlone
  <2>. QED
    BY <2>1, AgreesAlone
<1>. QED
  BY <1>1, MeansIs

NumbersIn(h) == \A m \in 1..Size(h) : h.node[m].value \in Int

LEMMA FirstAgrees ==
    ASSUME NEW h, Memory(h), NumbersIn(h), NEW n \in 1..Size(h), IsTest(h, n), Val2(h, n) # 0,
           NEW s, NEW i, Reference!IsComparison(s[i + 1]), h.node[n].op = RelOp[s[i + 1].major],
           IsEntityNode(h, Val1(h, n), s[i]), IsEntityNode(h, Val2(h, n), s[i + 2]), NEW table, IsLine(table)
    PROVE  Agrees(h, n, table, FirstPair(s, i, table)) /\ Shape(h, n) # Reference!NoTree
<1>1. h.node[n].op \in Comparisons
  BY ComparisonIs
<1>. QED
  BY <1>1, AgreesPair DEF FirstPair, NumbersIn

LEMMA MeansPair ==
    ASSUME NEW h, Memory(h), NumbersIn(h), NEW n \in 1..Size(h), IsTest(h, n), Val2(h, n) # 0,
           NEW s, Len(s) \in Nat, NEW i \in 1..Len(s), i + 2 \in 1..Len(s),
           Reference!IsEntity(s[i]), Reference!IsComparison(s[i + 1]), Reference!IsEntity(s[i + 2]),
           h.node[n].op = RelOp[s[i + 1].major],
           IsEntityNode(h, Val1(h, n), s[i]), IsEntityNode(h, Val2(h, n), s[i + 2])
    PROVE  Means(h, n, s, i, i + 2) /\ Reference!IsChain(s, i, i + 2)
<1>. DEFINE j == i + 2
<1>1. j \in Int /\ j \in 1..Len(s) /\ Reference!IsChain(s, j, j)
  BY OneChain
<1>2. Reference!IsChain(s, i, j)
  BY <1>1, LongerChain
<1>3. ASSUME NEW table PROVE Meant(s, table)[i][j] = FirstPair(s, i, table)
  BY <1>1, ReadsChain
<1>4. ASSUME NEW table, IsLine(table) PROVE Agrees(h, n, table, Meant(s, table)[i][j]) /\ Shape(h, n) # Reference!NoTree
  BY <1>3, <1>4, FirstAgrees
<1>. HIDE DEF j
<1>5. Means(h, n, s, i, j)
  BY <1>4, NothingIsLine, MeansIs
<1>. QED
  BY <1>2, <1>5 DEF j

LEMMA MeansChain ==
    ASSUME NEW h, Memory(h), NumbersIn(h), NEW n \in 1..Size(h), IsTest(h, n), Val2(h, n) # 0,
           h.node[n].op = "AND",
           NEW m \in 1..Size(h), m = Val1(h, n), IsTest(h, m), Val2(h, m) # 0,
           NEW s, Len(s) \in Nat, NEW i \in 1..Len(s), NEW j \in 1..Len(s), i + 2 < j,
           Reference!IsEntity(s[i]), Reference!IsComparison(s[i + 1]), Reference!IsChain(s, i + 2, j),
           h.node[m].op = RelOp[s[i + 1].major],
           IsEntityNode(h, Val1(h, m), s[i]), IsEntityNode(h, Val2(h, m), s[i + 2]),
           Means(h, Val2(h, n), s, i + 2, j)
    PROVE  Means(h, n, s, i, j) /\ Reference!IsChain(s, i, j)
<1>1. Reference!IsChain(s, i, j)
  BY LongerChain
<1>2. ASSUME NEW table, IsLine(table)
      PROVE  Agrees(h, n, table, Meant(s, table)[i][j]) /\ Shape(h, n) # Reference!NoTree
  <2>. DEFINE l == FirstPair(s, i, table)
              r == Meant(s, table)[i + 2][j]
  <2>1. Meant(s, table)[i][j] = Reference!Both("AND", l, r)
    <3>1. j # i + 2
      OBVIOUS
    <3>. QED
      BY <3>1, ReadsChain DEF AndOf
  <2>2. Agrees(h, m, table, l) /\ Shape(h, m) # Reference!NoTree
    BY <1>2, FirstAgrees
  <2>3. Agrees(h, Val2(h, n), table, r) /\ Shape(h, Val2(h, n)) # Reference!NoTree
    BY <1>2, MeansIs
  <2>. HIDE DEF l, r
  <2>4. Agrees(h, n, table, Reference!Both(h.node[n].op, l, r)) /\ Shape(h, n) # Reference!NoTree
    BY <2>2, <2>3, AgreesBoth
  <2>. QED
    BY <2>1, <2>4
<1>3. Means(h, n, s, i, j)
  BY <1>2, NothingIsLine, MeansIs
<1>. QED
  BY <1>1, <1>3

----------------------------------------------------------------------------
(***************************************************************************)
(* What stands on the stack goes on standing for its part of the string,   *)
(* while the heap and the string grow.                                     *)
(***************************************************************************)
Extends(s, t) ==
    /\ Len(s) \in Nat /\ Len(t) \in Nat /\ Len(s) <= Len(t)
    /\ \A k \in 1..Len(s) : s[k] = t[k]

LEMMA SameWithin ==
    ASSUME NEW s, NEW t, Extends(s, t), NEW i \in 1..Len(s), NEW j \in 1..Len(s)
    PROVE  /\ i \in Int /\ j \in Int /\ i \in 1..Len(t) /\ j \in 1..Len(t) /\ i \in 1..(Len(s) + 1) /\ j \in 0..Len(s)
           /\ s[i] = t[i] /\ s[j] = t[j] /\ \A k \in i..j : s[k] = t[k]
BY DEF Extends

LEMMA BalancedSame ==
    ASSUME NEW s, NEW t, Extends(s, t), NEW i \in 1..Len(s), NEW j \in 1..Len(s), Balanced(s, i, j)
    PROVE  Balanced(t, i, j)
<1>1. /\ i \in Int /\ j \in Int /\ i \in 1..Len(t) /\ j \in 1..Len(t)
      /\ s[i] = t[i] /\ s[j] = t[j] /\ \A k \in i..j : s[k] = t[k]
  BY SameWithin
<1>2. /\ j \in i..Len(s) /\ Starts(s[i]) /\ Ends(s[j]) /\ Depth(s, i, j) = 0
      /\ \A k \in i..j : Depth(s, i, k) >= 0
  BY DEF Balanced
<1>3. ASSUME NEW k \in i..j PROVE Depth(t, i, k) = Depth(s, i, k)
  <2>1. k \in Int /\ \A m \in i..k : s[m] = t[m]
    BY <1>1
  <2>. QED
    BY <1>1, <2>1, DepthSame
<1>4. j \in i..Len(t) /\ j \in i..j
  BY <1>1, <1>2
<1>. QED
  BY <1>1, <1>2, <1>3, <1>4 DEF Balanced

LEMMA FreeSame ==
    ASSUME NEW s, NEW t, Extends(s, t), NEW i \in 1..Len(s), NEW j \in 1..Len(s), NEW c
    PROVE  Free(s, i, j, c) <=> Free(t, i, j, c)
BY SameWithin, OutsideSame DEF Free

LEMMA MeansKept ==
    ASSUME NEW h, Memory(h), NEW g, Memory(g), Keeps(h, g), NEW s, NEW t, Extends(s, t),
           NEW i \in 1..Len(s), NEW j \in 1..Len(s), NEW n, Means(h, n, s, i, j)
    PROVE  Means(g, n, t, i, j)
<1>1. n \in 1..Size(h) /\ Shape(h, n) # Reference!NoTree
      /\ \A table : IsLine(table) => Agrees(h, n, table, Meant(s, table)[i][j])
  BY MeansIs
<1>2. n \in 1..Size(g) /\ Shape(g, n) = Shape(h, n)
  BY <1>1, ShapeKept, SameNode
<1>3. ASSUME NEW table PROVE Meant(s, table)[i][j] = Meant(t, table)[i][j] /\ testNode(g, n, table) = testNode(h, n, table)
  <2>1. Meant(s, table)[i][j] = Meant(t, table)[i][j]
    <3>1. i \in 1..(Len(s) + 1) /\ j \in 0..Len(s)
      BY SameWithin
    <3>. QED
      BY <3>1, MeantSame DEF Extends
  <2>2. testNode(g, n, table) = testNode(h, n, table)
    BY <1>1, JudgementKept
  <2>. QED
    BY <2>1, <2>2
<1>4. \A table : IsLine(table) => Agrees(g, n, table, Meant(t, table)[i][j])
  BY <1>1, <1>2, <1>3 DEF Agrees
<1>. QED
  BY <1>1, <1>2, <1>4, MeansIs

LEMMA EntityKept ==
    ASSUME NEW h, Memory(h), NEW g, Memory(g), Keeps(h, g), NEW n, NEW t, IsEntityNode(h, n, t)
    PROVE  IsEntityNode(g, n, t)
<1>1. n \in 1..Size(h) /\ ~IsTest(h, n)
  BY DEF IsEntityNode
<1>2. n \in 1..Size(g) /\ Alike(h.node[n], g.node[n]) /\ IsTest(g, n) = IsTest(h, n)
  BY <1>1, SameNode
<1>. QED
  BY <1>1, <1>2 DEF IsEntityNode, Alike

LEMMA StandsKept ==
    ASSUME NEW h, Memory(h), NEW g, Memory(g), Keeps(h, g), NEW s, NEW t, Extends(s, t),
           NEW i \in 1..Len(s), NEW j \in 1..Len(s), NEW e, Stands(h, e, s, i, j)
    PROVE  Stands(g, e, t, i, j)
<1>1. s[i] = t[i] /\ s[j] = t[j] /\ i \in Int /\ j \in Int /\ \A k \in i..j : s[k] = t[k]
  BY SameWithin
<1>2. Reference!IsChain(s, i, j) => Reference!IsChain(t, i, j)
  BY <1>1, ChainSame
<1>3. Balanced(s, i, j) => Balanced(t, i, j)
  BY BalancedSame
<1>4. Means(h, e.node, s, i, j) => Means(g, e.node, t, i, j)
  BY MeansKept
<1>5. \A n : IsEntityNode(h, n, s[i]) => IsEntityNode(g, n, t[i])
  BY <1>1, EntityKept
<1>6. Means(h, e.node, s, i, j) => Leftmost(g, e.node) = Leftmost(h, e.node)
  BY LeftmostKept DEF Means
<1>7. e.major = 19 => e.major \in {17, 19, 20}
  OBVIOUS
<1>. DEFINE m == e.major
<1>8. /\ m \in 1..14 => i = j /\ t[i].major = m
      /\ m \in 10..12 => IsEntityNode(g, e.node, t[i])
  BY <1>1, <1>5 DEF Stands
<1>9. m = 18 => i = j /\ Reference!IsEntity(t[i]) /\ IsEntityNode(g, e.node, t[i])
  BY <1>1, <1>5 DEF Stands
<1>10. m = 21 => i = j /\ Reference!IsComparison(t[i]) /\ e.op = RelOp[t[i].major]
  BY <1>1 DEF Stands
<1>11. m = 19 => Reference!IsChain(t, i, j) /\ i < j /\ IsEntityNode(g, Leftmost(g, e.node), t[i])
  BY <1>2, <1>5, <1>6, <1>7 DEF Stands
<1>12. m \in {17, 20} => Balanced(t, i, j)
  BY <1>3 DEF Stands
<1>13. m \in {17, 19, 20} => Means(g, e.node, t, i, j)
  BY <1>4 DEF Stands
<1>. QED
  BY <1>8, <1>9, <1>10, <1>11, <1>12, <1>13 DEF Stands

(* The parser's symbols that stand for a test.                              *)
Expressions == {17, 19, 20}

LEMMA CoveredKept ==
    ASSUME NEW h, Memory(h), NEW g, Memory(g), Keeps(h, g), NEW s, NEW t, Extends(s, t),
           NEW i \in 1..Len(s), NEW j \in 1..Len(s), NEW e, NEW below, NEW next, Covered(h, e, below, next, s, i, j),
           NEW then, then = next \/ e.major \notin Expressions
    PROVE  Covered(g, e, below, then, t, i, j)
<1>1. Stands(g, e, t, i, j) /\ i <= j
  BY StandsKept DEF Covered
<1>2. ASSUME e.major \in {17, 19, 20} PROVE Binds(below, then, t, i, j) /\ Operand(then, t, j)
  <2>1. then = next /\ Binds(below, next, s, i, j) /\ Operand(next, s, j)
    BY <1>2 DEF Covered, Expressions
  <2>2. Binds(below, next, t, i, j)
    BY <2>1, FreeSame DEF Binds
  <2>3. Operand(next, t, j)
    BY <2>1, SameWithin DEF Operand
  <2>. QED
    BY <2>1, <2>2, <2>3
<1>. QED
  BY <1>1, <1>2 DEF Covered

LEMMA SpansWithin ==
    ASSUME NEW h, NEW stack, Len(stack) \in Nat, NEW s, Len(s) \in Nat, NEW next, NEW taken \in 0..Len(s), NEW ends,
           Spans(h, stack, s, next, taken, ends), NEW p \in 2..Len(stack)
    PROVE  /\ p - 1 \in 1..Len(stack) /\ p \in 1..Len(stack)
           /\ ends[p - 1] \in Nat /\ ends[p] \in Nat /\ ends[p - 1] < ends[p] /\ ends[p] <= taken
           /\ ends[p - 1] + 1 \in 1..Len(s) /\ ends[p] \in 1..Len(s)
           /\ Covered(h, stack[p], stack[p - 1].state, After(stack, next, p), s, ends[p - 1] + 1, ends[p])
<1>1. Covered(h, stack[p], stack[p - 1].state, After(stack, next, p), s, ends[p - 1] + 1, ends[p])
  BY DEF Spans
<1>2. p - 1 \in 1..Len(stack) /\ p \in 1..Len(stack)
  OBVIOUS
<1>3. ends[p - 1] \in 0..taken /\ ends[p] \in 0..taken
  BY <1>2 DEF Spans
<1>4. ends[p - 1] + 1 <= ends[p]
  BY <1>1 DEF Covered
<1>. QED
  BY <1>1, <1>2, <1>3, <1>4

LEMMA SpansKept ==
    ASSUME NEW h, Memory(h), NEW g, Memory(g), Keeps(h, g), NEW s, NEW t, Extends(s, t),
           NEW stack, Len(stack) \in Nat, NEW next, NEW taken \in 0..Len(s), NEW ends, Spans(h, stack, s, next, taken, ends),
           NEW then, then = next \/ stack[Len(stack)].major \notin Expressions
    PROVE  Spans(g, stack, t, then, taken, ends)
<1>1. ASSUME NEW p \in 2..Len(stack)
      PROVE  Covered(g, stack[p], stack[p - 1].state, After(stack, then, p), t, ends[p - 1] + 1, ends[p])
  <2>1. /\ ends[p - 1] + 1 \in 1..Len(s) /\ ends[p] \in 1..Len(s)
        /\ Covered(h, stack[p], stack[p - 1].state, After(stack, next, p), s, ends[p - 1] + 1, ends[p])
    <3>1. Len(s) \in Nat
      BY DEF Extends
    <3>. QED
      BY <3>1, SpansWithin
  <2>2. After(stack, then, p) = After(stack, next, p) \/ stack[p].major \notin Expressions
    <3>1. CASE p < Len(stack)
      BY <3>1 DEF After
    <3>2. CASE p = Len(stack)
      BY <3>2 DEF After
    <3>. QED
      BY <3>1, <3>2
  <2>. QED
    BY <2>1, <2>2, CoveredKept
<1>2. ends \in [1..Len(stack) -> 0..taken] /\ ends[1] = 0 /\ ends[Len(stack)] = taken
  BY DEF Spans
<1>. QED
  BY <1>1, <1>2 DEF Spans

(* Symbols give way to e, which stands for what they and perhaps the token  *)
(* at hand stood for.                                                       *)
LEMMA SpansPushed ==
    ASSUME NEW h, NEW stack, NEW E, stack \in Seq(E), NEW s, Len(s) \in Nat, NEW next, NEW taken \in 0..Len(s), NEW ends,
           Spans(h, stack, s, next, taken, ends), NEW k \in 1..Len(stack), NEW e \in E, NEW then, NEW all \in taken..Len(s),
           Covered(h, e, stack[k].state, then, s, ends[k] + 1, all),
           stack[k].major \notin Expressions \/ (k = Len(stack) /\ e.major = next),
           NEW pushed, pushed = Append(SubSeq(stack, 1, k), e)
    PROVE  \E fin : Spans(h, pushed, s, then, all, fin)
<1>. DEFINE fin == [p \in 1..(k + 1) |-> IF p = k + 1 THEN all ELSE ends[p]]
<1>1. /\ Len(stack) \in Nat /\ SubSeq(stack, 1, k) \in Seq(E) /\ Len(SubSeq(stack, 1, k)) = k
      /\ \A p \in 1..k : SubSeq(stack, 1, k)[p] = stack[p]
  BY SubSeqProperties
<1>2. /\ Len(pushed) = k + 1 /\ pushed[k + 1] = e
      /\ \A p \in 1..k : pushed[p] = stack[p]
  BY <1>1, AppendProperties
<1>3. /\ \A p \in 1..Len(stack) : ends[p] \in 0..taken
      /\ ends[1] = 0
  BY DEF Spans
<1>4. /\ \A p \in 1..k : fin[p] = ends[p]
      /\ fin[k + 1] = all /\ fin \in [1..(k + 1) -> 0..all]
  BY <1>3
<1>. HIDE DEF fin
<1>5. ASSUME NEW p \in 2..(k + 1)
      PROVE  Covered(h, pushed[p], pushed[p - 1].state, After(pushed, then, p), s, fin[p - 1] + 1, fin[p])
  <2>1. CASE p = k + 1
    <3>1. p - 1 = k /\ k \in 1..k
      BY <2>1
    <3>2. pushed[p] = e /\ pushed[p - 1] = stack[k] /\ fin[p] = all /\ fin[p - 1] = ends[k]
      BY <1>2, <1>4, <2>1, <3>1
    <3>3. After(pushed, then, p) = then
      BY <1>2, <2>1 DEF After
    <3>. QED
      BY <3>2, <3>3
  <2>2. CASE p <= k
    <3>1. p \in 2..Len(stack) /\ p \in 1..k /\ p - 1 \in 1..k
      BY <1>1, <2>2
    <3>2. pushed[p] = stack[p] /\ pushed[p - 1] = stack[p - 1] /\ fin[p] = ends[p] /\ fin[p - 1] = ends[p - 1]
      BY <1>2, <1>4, <3>1
    <3>3. Covered(h, stack[p], stack[p - 1].state, After(stack, next, p), s, ends[p - 1] + 1, ends[p])
      BY <3>1 DEF Spans
    <3>4. After(pushed, then, p) = After(stack, next, p) \/ stack[p].major \notin Expressions
      <4>1. CASE p < k
        <5>1. p + 1 \in 1..k /\ p < Len(stack) /\ p < k + 1
          BY <1>1, <3>1, <4>1
        <5>. QED
          BY <1>2, <5>1 DEF After
      <4>2. CASE p = k
        <5>1. After(pushed, then, p) = e.major
          <6>1. p < k + 1
            BY <4>2
          <6>. QED
            BY <1>2, <4>2, <6>1 DEF After
        <5>2. k = Len(stack) => After(stack, next, p) = next
          BY <4>2 DEF After
        <5>. QED
          BY <4>2, <5>1, <5>2
      <4>. QED
        BY <2>2, <3>1, <4>1, <4>2
    <3>5. ASSUME NEW x, NEW y, NEW a, NEW b, NEW c, NEW d, Covered(h, a, b, x, s, c, d),
                 y = x \/ a.major \notin Expressions
          PROVE  Covered(h, a, b, y, s, c, d)
      BY <3>5 DEF Covered, Expressions
    <3>6. Covered(h, stack[p], stack[p - 1].state, After(pushed, then, p), s, ends[p - 1] + 1, ends[p])
      BY <3>3, <3>4, <3>5
    <3>. QED
      BY <3>2, <3>6
  <2>3. p = k + 1 \/ p <= k
    OBVIOUS
  <2>. QED
    BY <2>1, <2>2, <2>3
<1>6. fin[1] = 0
  BY <1>3, <1>4
<1>7. Spans(h, pushed, s, then, all, fin)
  BY <1>2, <1>4, <1>5, <1>6 DEF Spans
<1>. QED
  BY <1>7

----------------------------------------------------------------------------
(***************************************************************************)
(* The parser decides by the token at hand: after a word it waits for a    *)
(* comparison, after x TEST_AND y for TEST_OR; and an error is one of few. *)
(***************************************************************************)
LEMMA Decided ==
    ASSUME NEW m \in 0..14
    PROVE  /\ yy_find_shift_action(6, m) = 31 => m \notin 3..8
           /\ yy_find_shift_action(5, m) = 36 => m \notin 3..8
           /\ yy_find_shift_action(9, m) = 29 => m # 2
BY DEF yy_find_shift_action, yy_action, yy_lookahead, yy_shift_ofst, yy_default

RefusedIn(state, m) ==
    \/ state = 0 /\ m \notin {0, 9, 10, 11, 12, 13}
    \/ state \in {1, 2, 3} /\ m \notin {9, 10, 11, 12, 13}
    \/ state = 4 /\ m \notin {9, 10, 11, 12}
    \/ state = 7 /\ m \notin {1, 2, 14}
    \/ state = 8 /\ m \notin {0, 1, 2}

LEMMA Refused ==
    ASSUME NEW state \in 0..24, NEW m \in 0..14, yy_find_shift_action(state, m) = YY_ERROR_ACTION
    PROVE  RefusedIn(state, m)
<1>1. state \in 10..24 => FALSE
  <2>1. SUFFICES ASSUME state \in 10..24 PROVE FALSE
    OBVIOUS
  <2>2. state >= Len(yy_shift_ofst)
    BY <2>1 DEF yy_shift_ofst
  <2>3. yy_default[state + 1] = 45
    BY <2>2 DEF yy_find_shift_action, YY_ERROR_ACTION, YYNSTATE, YYNRULE
  <2>. QED
    BY <2>1, <2>3 DEF yy_default
<1>2. \/ state = 0 \/ state = 1 \/ state = 2 \/ state = 3 \/ state = 4 \/ state = 5 \/ state = 6
       \/ state = 7 \/ state = 8 \/ state = 9 \/ state \in 10..24
  OBVIOUS
<1>. USE DEF RefusedIn, YY_ERROR_ACTION, YYNSTATE, YYNRULE,
             yy_find_shift_action, yy_action, yy_lookahead, yy_shift_ofst, yy_default
<1>3. CASE state = 0
  BY <1>3
<1>4. CASE state = 1
  BY <1>4
<1>5. CASE state = 2
  BY <1>5
<1>6. CASE state = 3
  BY <1>6
<1>7. CASE state = 4
  BY <1>7
<1>8. CASE state = 5
  BY <1>8
<1>9. CASE state = 6
  BY <1>9
<1>10. CASE state = 7
  BY <1>10
<1>11. CASE state = 8
  BY <1>11
<1>12. CASE state = 9
  BY <1>12
<1>. QED
  BY <1>3, <1>4, <1>5, <1>6, <1>7, <1>8, <1>9, <1>10, <1>11, <1>12, <1>1, <1>2

(* A state tells the symbol on the stack, and what can lie below it.        *)
LEMMA SymbolsAre ==
    ASSUME NEW below, NEW state, NEW symbol, Enters(below, state, symbol)
    PROVE  /\ state = 1 => symbol = 13
           /\ state = 2 => symbol = 2 /\ below \in {7, 8, 9}
           /\ state = 3 => symbol = 1 /\ below \in {7, 8}
           /\ state = 4 => symbol = 21 /\ below \in {5, 6}
           /\ state \in {5, 6} => symbol = 18
           /\ state = 5 => below = 4
           /\ state = 6 => below \in 0..3
           /\ state = 7 => symbol = 17 /\ below = 1
           /\ state = 8 => symbol = 17 /\ below = 0
           /\ state = 9 => symbol = 17 /\ below = 3
           /\ state = 10 => symbol = 14 /\ below = 7
           /\ state = 11 => symbol = 19 /\ below = 4
           /\ state \in 12..17 => symbol \in 3..8
           /\ state \in 18..21 => symbol \in 9..12
           /\ state = 22 => symbol = 17 /\ below = 2
           /\ state = 23 => symbol = 20 /\ below \in 0..3
           /\ state = 24 => symbol = 19 /\ below \in 0..3
           /\ state \in 1..24
<1>1. state \in 1..24 /\ below \in Before[state] /\ Symbol[state] = symbol
  BY DEF Enters
<1>. QED
  BY <1>1 DEF Before, Symbol

(* Where a reduction goes on, no expression stands.                         *)
LEMMA BaseSymbol ==
    ASSUME NEW s, Viable(s), NEW k \in 1..Len(s), s[k].state \in 0..6
    PROVE  s[k].major \notin Expressions
<1>1. CASE s[k].state = 0
  <2>1. k = 1
    <3>1. SUFFICES ASSUME k # 1 PROVE FALSE
      OBVIOUS
    <3>2. k \in 2..Len(s)
      BY <3>1
    <3>3. Enters(s[k - 1].state, s[k].state, s[k].major)
      BY <3>2 DEF Viable
    <3>. QED
      BY <1>1, <3>3 DEF Enters
  <2>2. s[k] = Bottom
    <3>1. s # << >>
      OBVIOUS
    <3>. QED
      BY <2>1, <3>1 DEF Viable
  <2>3. Bottom.major = 0
    BY DEF Bottom
  <2>4. s[k].major = 0
    BY <2>2, <2>3
  <2>. QED
    BY <2>4 DEF Expressions
<1>2. CASE s[k].state # 0
  <2>1. Enters(s[k - 1].state, s[k].state, s[k].major)
    BY <1>2, Below
  <2>2. s[k].state \in {1, 2, 3, 4, 5, 6}
    BY <1>2
  <2>3. s[k].major \in {13, 2, 1, 21, 18}
    BY <2>1, <2>2, SymbolsAre
  <2>. QED
    BY <2>3 DEF Expressions
<1>. QED
  BY <1>1, <1>2

----------------------------------------------------------------------------
(***************************************************************************)
(* What an operation leaves of the nodes, and what a new one is.           *)
(***************************************************************************)
IsNew(h, g, n, op, a, b) ==
    /\ Keeps(h, g) /\ n \in 1..Size(g)
    /\ IsTest(g, n) /\ g.node[n].op = op /\ Val1(g, n) = a /\ Val2(g, n) = b

LEMMA KeepsSelf == ASSUME NEW h, Memory(h) PROVE Keeps(h, h)
<1>1. Size(h) \in Nat
  BY DEF Memory, Size
<1>. QED
  BY <1>1 DEF Keeps, Alike

LEMMA KeepsNodes ==
    ASSUME NEW h, NEW g, NEW f, f.node = g.node
    PROVE  /\ Keeps(h, g) => Keeps(h, f)
           /\ \A n, op, a, b : IsNew(h, g, n, op, a, b) => IsNew(h, f, n, op, a, b)
BY DEF Keeps, IsNew, Size, IsTest, Val1, Val2

LEMMA FreedNodes ==
    ASSUME NEW h, Memory(h), NEW n
    PROVE  stnode_free(h, n).node = h.node
BY DEF stnode_free, Memory

LEMMA AddedNode ==
    ASSUME NEW h, h.node \in Seq(stnode_t), h = [node |-> h.node, live |-> h.live, ok |-> h.ok], NEW c \in stnode_t
    PROVE  /\ Add(h, c).node \in Seq(stnode_t) /\ Size(Add(h, c)) = Size(h) + 1 /\ Fresh(h) = Size(h) + 1
           /\ Add(h, c).node[Fresh(h)] = c
           /\ \A n \in 1..Size(h) : Add(h, c).node[n] = h.node[n]
           /\ Size(h) \in Nat
<1>1. Add(h, c).node = Append(h.node, c)
  BY DEF Add
<1>2. /\ Append(h.node, c) \in Seq(stnode_t) /\ Len(Append(h.node, c)) = Len(h.node) + 1
      /\ Append(h.node, c)[Len(h.node) + 1] = c
      /\ \A n \in 1..Len(h.node) : Append(h.node, c)[n] = h.node[n]
      /\ Len(h.node) \in Nat
  BY AppendProperties
<1>. QED
  BY <1>1, <1>2 DEF Size, Fresh

TestNode(op, a, b) == [Leaf("TEST", "", 0) EXCEPT !.op = op, !.val1 = a, !.val2 = b]

LEMMA TestNodeIs ==
    ASSUME NEW op \in Ops, NEW a \in Nat, NEW b \in Nat
    PROVE  /\ TestNode(op, a, b) \in stnode_t /\ TestNode(op, a, b).type = "TEST" /\ TestNode(op, a, b).op = op
           /\ TestNode(op, a, b).val1 = a /\ TestNode(op, a, b).val2 = b
BY DEF TestNode, Leaf, stnode_t, Types, Texts, Values

LEMMA NewTestIs ==
    ASSUME NEW h, Memory(h), NEW op \in Ops, NEW a \in Nat, NEW b \in Nat
    PROVE  IsNew(h, new_test(h, op, a, b), Fresh(h), op, a, b)
<1>. DEFINE c == TestNode(op, a, b)
            g == Add(h, c)
<1>1. g = new_test(h, op, a, b)
  BY DEF new_test, TestNode
<1>2. c \in stnode_t /\ c.type = "TEST" /\ c.op = op /\ c.val1 = a /\ c.val2 = b
  BY TestNodeIs
<1>. HIDE DEF c
<1>3. h.node \in Seq(stnode_t) /\ h = [node |-> h.node, live |-> h.live, ok |-> h.ok]
  BY DEF Memory
<1>4. /\ Size(g) = Size(h) + 1 /\ Fresh(h) = Size(h) + 1 /\ g.node[Fresh(h)] = c /\ Size(h) \in Nat
      /\ \A n \in 1..Size(h) : g.node[n] = h.node[n]
  BY <1>2, <1>3, AddedNode
<1>. HIDE DEF g
<1>5. Keeps(h, g)
  BY <1>4 DEF Keeps, Alike
<1>6. Fresh(h) \in 1..Size(g)
  BY <1>4
<1>7. IsNew(h, g, Fresh(h), op, a, b)
  BY <1>2, <1>4, <1>5, <1>6 DEF IsNew, IsTest, Val1, Val2
<1>. QED
  BY <1>1, <1>7

LEMMA BracketsKept ==
    ASSUME NEW h, Memory(h), NEW n
    PROVE  Keeps(h, stnode_set_bracket(h, n)) /\ stnode_set_bracket(h, n).node \in Seq(stnode_t)
<1>. DEFINE g == stnode_set_bracket(h, n)
<1>1. g.node = [h.node EXCEPT ![n].brackets = TRUE]
  BY DEF stnode_set_bracket, Used, Memory
<1>. HIDE DEF g
<1>2. h.node \in Seq(stnode_t) /\ Len(h.node) \in Nat /\ DOMAIN h.node = 1..Len(h.node)
  BY DEF Memory
<1>3. \A m \in 1..Len(h.node) : h.node[m] \in stnode_t
  BY <1>2
<1>4. ASSUME NEW m \in 1..Len(h.node)
      PROVE  g.node[m] \in stnode_t /\ Alike(h.node[m], g.node[m])
  <2>1. CASE m = n
    <3>1. g.node[m] = [h.node[m] EXCEPT !.brackets = TRUE]
      BY <1>1, <1>2, <2>1
    <3>2. h.node[m] \in stnode_t
      BY <1>3
    <3>. QED
      BY <3>1, <3>2 DEF Alike, stnode_t
  <2>2. CASE m # n
    <3>1. g.node[m] = h.node[m]
      BY <1>1, <1>2, <2>2
    <3>. QED
      BY <1>3, <3>1 DEF Alike
  <2>. QED
    BY <2>1, <2>2
<1>5. DOMAIN g.node = 1..Len(h.node)
  BY <1>1, <1>2
<1>6. g.node = [m \in 1..Len(h.node) |-> g.node[m]]
  BY <1>1, <1>2
<1>7. g.node \in Seq(stnode_t) /\ Len(g.node) = Len(h.node)
  BY <1>2, <1>4, <1>6
<1>8. Keeps(h, g)
  BY <1>2, <1>4, <1>7 DEF Keeps, Size
<1>. QED
  BY <1>7, <1>8 DEF g

----------------------------------------------------------------------------
(***************************************************************************)
(* What a rule makes of the symbols a, b and c: they stand for their parts *)
(* of s, above the state q, and before the symbol next.                    *)
(***************************************************************************)
LEMMA ExpressionCovered ==
    ASSUME NEW g, NEW e, e.major \in {17, 20}, NEW q, NEW next, NEW s, Len(s) \in Nat, NEW i, NEW j,
           Balanced(s, i, j), Means(g, e.node, s, i, j), Binds(q, next, s, i, j), Operand(next, s, j)
    PROVE  Covered(g, e, q, next, s, i, j)
<1>1. i <= j
  BY PartWithin
<1>2. e.major \notin 1..14 /\ e.major \notin 10..12 /\ e.major \notin {18, 19, 21}
  OBVIOUS
<1>3. Stands(g, e, s, i, j)
  BY <1>2 DEF Stands
<1>. QED
  BY <1>1, <1>3 DEF Covered

LEMMA FreeBinds ==
    ASSUME NEW s, NEW i, NEW j, \A c \in Junctions : Free(s, i, j, c), NEW q, NEW next
    PROVE  Binds(q, next, s, i, j)
BY Codes DEF Binds

(* expr ::= relation_test | logical_test                                    *)
LEMMA UnitRead ==
    ASSUME NEW h, NEW c, c.major \in {19, 20}, NEW q, NEW next, NEW s, Len(s) \in Nat, NEW i \in 1..Len(s),
           NEW j \in 1..Len(s), Covered(h, c, q, next, s, i, j),
           NEW e, e.major = 17, e.node = c.node
    PROVE  Covered(h, e, q, next, s, i, j)
<1>1. c.major \in {17, 19, 20}
  OBVIOUS
<1>2. Means(h, c.node, s, i, j) /\ Binds(q, next, s, i, j) /\ Operand(next, s, j)
  BY <1>1 DEF Covered, Stands
<1>3. Balanced(s, i, j)
  <2>1. CASE c.major = 19
    BY <2>1, ChainPart DEF Covered, Stands
  <2>2. CASE c.major = 20
    BY <2>2 DEF Covered, Stands
  <2>. QED
    BY <2>1, <2>2
<1>. QED
  BY <1>2, <1>3, ExpressionCovered

(* entity ::= a token                                                       *)
LEMMA EntityRead ==
    ASSUME NEW h, NEW c, c.major \in 9..12, NEW q, NEW next, NEW s, Len(s) \in Nat, NEW i \in 1..Len(s),
           NEW j \in 1..Len(s), Covered(h, c, q, next, s, i, j), s[i].major # TOKEN_FIELD,
           NEW e, e.major = 18, e.node = c.node
    PROVE  Covered(h, e, q, next, s, i, j)
<1>1. i <= j /\ i = j /\ s[i].major = c.major
  BY DEF Covered, Stands
<1>2. c.major \in 10..12 /\ c.major \in {10, 11, 12}
  BY <1>1 DEF TOKEN_FIELD
<1>3. IsEntityNode(h, c.node, s[i])
  BY <1>2 DEF Covered, Stands
<1>4. Reference!IsEntity(s[i])
  BY <1>1, <1>2, Codes
<1>5. e.major \notin 1..14 /\ e.major \notin 10..12 /\ e.major \notin {17, 19, 20, 21}
  OBVIOUS
<1>6. Stands(h, e, s, i, j)
  BY <1>1, <1>3, <1>4, <1>5 DEF Stands
<1>. QED
  BY <1>1, <1>5, <1>6 DEF Covered

(* rel_op2 ::= one of the comparisons                                       *)
LEMMA OpRead ==
    ASSUME NEW h, NEW g, NEW c, c.major \in 3..8, NEW q, NEW next, NEW s, NEW i, NEW j,
           Covered(h, c, q, next, s, i, j), NEW e, e.major = 21, e.op = RelOp[c.major]
    PROVE  Covered(g, e, q, next, s, i, j)
<1>1. i <= j /\ i = j /\ s[i].major = c.major
  BY DEF Covered, Stands
<1>2. Reference!IsComparison(s[i])
  BY <1>1, Codes
<1>3. e.major \notin 1..14 /\ e.major \notin 10..12 /\ e.major \notin {17, 18, 19, 20}
  OBVIOUS
<1>4. Stands(g, e, s, i, j)
  BY <1>1, <1>2, <1>3 DEF Stands
<1>. QED
  BY <1>1, <1>3, <1>4 DEF Covered

(* logical_test ::= entity                                                  *)
LEMMA ExistsRead ==
    ASSUME NEW h, Memory(h), NEW g, Memory(g), NEW c, c.major = 18, NEW q, NEW next, next \notin 3..8,
           NEW s, Len(s) \in Nat, NEW i \in 1..Len(s), NEW j \in 1..Len(s), Covered(h, c, q, next, s, i, j),
           NEW e, e.major = 20, IsNew(h, g, e.node, "EXISTS", c.node, 0)
    PROVE  Covered(g, e, q, next, s, i, j)
<1>1. i = j /\ Reference!IsEntity(s[i]) /\ IsEntityNode(h, c.node, s[i])
  BY DEF Covered, Stands
<1>2. Keeps(h, g) /\ e.node \in 1..Size(g) /\ IsTest(g, e.node) /\ Val1(g, e.node) = c.node /\ Val2(g, e.node) = 0
  BY DEF IsNew
<1>3. IsEntityNode(g, c.node, s[i])
  BY <1>1, <1>2, EntityKept
<1>4. Means(g, e.node, s, i, i)
  BY <1>1, <1>2, <1>3, MeansAlone
<1>5. Balanced(s, i, i) /\ \A x : Free(s, i, i, x)
  BY <1>1, EntityPart
<1>6. Binds(q, next, s, i, i)
  BY <1>5, FreeBinds
<1>7. Operand(next, s, i)
  BY DEF Operand
<1>. QED
  BY <1>1, <1>4, <1>5, <1>6, <1>7, ExpressionCovered

(* expr ::= LPAREN expr RPAREN                                              *)
LEMMA BracketsRead ==
    ASSUME NEW h, Memory(h), NEW g, Memory(g), Keeps(h, g), NEW a, NEW b, NEW c,
           a.major = TOKEN_LPAREN, b.major = 17, c.major = TOKEN_RPAREN,
           NEW q, NEW p, NEW r, NEW next, NEW s, Len(s) \in Nat,
           NEW i \in 1..Len(s), NEW k \in 1..Len(s), NEW m \in 1..Len(s), NEW j \in 1..Len(s),
           Covered(h, a, q, 17, s, i, k), Covered(h, b, p, 14, s, k + 1, m), Covered(h, c, r, next, s, m + 1, j),
           NEW e, e.major = 17, e.node = b.node
    PROVE  Covered(g, e, q, next, s, i, j)
<1>1. i = k /\ s[i].major = TOKEN_LPAREN /\ m + 1 = j /\ s[j].major = TOKEN_RPAREN
  BY DEF Covered, Stands, TOKEN_LPAREN, TOKEN_RPAREN
<1>2. Balanced(s, i + 1, j - 1) /\ Means(h, b.node, s, i + 1, j - 1)
  <2>1. b.major \in {17, 19, 20} /\ b.major \in {17, 20}
    OBVIOUS
  <2>2. Balanced(s, k + 1, m) /\ Means(h, b.node, s, k + 1, m)
    BY <2>1 DEF Covered, Stands
  <2>3. k + 1 = i + 1 /\ m = j - 1
    BY <1>1
  <2>. QED
    BY <2>2, <2>3
<1>3. Means(g, b.node, s, i + 1, j - 1)
  <2>1. Extends(s, s)
    BY DEF Extends
  <2>2. i + 1 \in 1..Len(s) /\ j - 1 \in 1..Len(s)
    BY <1>2, PartWithin
  <2>. QED
    BY <1>2, <2>1, <2>2, MeansKept
<1>4. Means(g, e.node, s, i, j)
  BY <1>1, <1>2, <1>3, MeansBrackets
<1>5. Balanced(s, i, j) /\ \A x \in Junctions : Free(s, i, j, x)
  BY <1>1, <1>2, BracketedPart
<1>6. Binds(q, next, s, i, j)
  BY <1>5, FreeBinds
<1>7. Operand(next, s, j)
  <2>1. ~Reference!IsEntity(s[j])
    BY <1>1, Codes
  <2>. QED
    BY <2>1 DEF Operand
<1>. QED
  BY <1>4, <1>5, <1>6, <1>7, ExpressionCovered

(* logical_test ::= expr TEST_AND expr: to the left of x TEST_AND y no      *)
(* TEST_AND waits for x, and the token at hand is no TEST_OR.               *)
LEMMA AndRead ==
    ASSUME NEW h, Memory(h), NEW g, Memory(g), Keeps(h, g), NEW a, NEW b, NEW c,
           a.major = 17, b.major = TOKEN_TEST_AND, c.major = 17,
           NEW q \in {0, 1}, NEW p, NEW next, next # TOKEN_TEST_OR, NEW s, Len(s) \in Nat,
           NEW i \in 1..Len(s), NEW k \in 1..Len(s), NEW m \in 1..Len(s), NEW j \in 1..Len(s),
           Covered(h, a, q, 1, s, i, k), Covered(h, b, p, 17, s, k + 1, m), Covered(h, c, 3, next, s, m + 1, j),
           NEW e, e.major = 20, IsNew(h, g, e.node, "AND", a.node, c.node), c.node # 0
    PROVE  Covered(g, e, q, next, s, i, j)
<1>1. k + 1 = m /\ s[m].major = TOKEN_TEST_AND /\ k = m - 1
  BY DEF Covered, Stands, TOKEN_TEST_AND
<1>2. /\ Balanced(s, i, m - 1) /\ Means(h, a.node, s, i, m - 1)
      /\ Balanced(s, m + 1, j) /\ Means(h, c.node, s, m + 1, j) /\ Binds(3, next, s, m + 1, j) /\ Operand(next, s, j)
  <2>1. a.major \in {17, 20} /\ a.major \in {17, 19, 20} /\ c.major \in {17, 20} /\ c.major \in {17, 19, 20}
    OBVIOUS
  <2>2. Balanced(s, i, k) /\ Means(h, a.node, s, i, k)
    BY <2>1 DEF Covered, Stands
  <2>3. /\ Balanced(s, m + 1, j) /\ Means(h, c.node, s, m + 1, j) /\ Binds(3, next, s, m + 1, j)
        /\ Operand(next, s, j)
    BY <2>1 DEF Covered, Stands
  <2>. QED
    BY <1>1, <2>2, <2>3
<1>3. Free(s, m + 1, j, TOKEN_TEST_AND)
  BY <1>2 DEF Binds
<1>4. s[m].major \in Junctions /\ m \in Int
  BY <1>1 DEF Junctions
<1>5. Means(g, a.node, s, i, m - 1) /\ Means(g, c.node, s, m + 1, j)
  <2>1. Extends(s, s)
    BY DEF Extends
  <2>2. m - 1 \in 1..Len(s) /\ m + 1 \in 1..Len(s)
    BY <1>2, PartWithin
  <2>. QED
    BY <1>2, <2>1, <2>2, MeansKept
<1>6. Means(g, e.node, s, i, j)
  <2>1. /\ e.node \in 1..Size(g) /\ IsTest(g, e.node) /\ g.node[e.node].op = "AND"
        /\ Val1(g, e.node) = a.node /\ Val2(g, e.node) = c.node
    BY DEF IsNew
  <2>2. Means(g, Val1(g, e.node), s, i, m - 1) /\ Means(g, Val2(g, e.node), s, m + 1, j) /\ Val2(g, e.node) # 0
    BY <1>5, <2>1
  <2>. QED
    BY <1>1, <1>2, <1>3, <1>4, <2>1, <2>2, MeansAnd
<1>7. Balanced(s, i, j)
  BY <1>2, <1>4, JoinedBalanced
<1>8. Binds(q, next, s, i, j)
  BY DEF Binds
<1>. QED
  BY <1>2, <1>6, <1>7, <1>8, ExpressionCovered

(* logical_test ::= expr TEST_OR expr                                       *)
LEMMA OrRead ==
    ASSUME NEW h, Memory(h), NEW g, Memory(g), Keeps(h, g), NEW a, NEW b, NEW c,
           a.major = 17, b.major = TOKEN_TEST_OR, c.major = 17,
           NEW q \in {0, 1, 3}, NEW p, NEW next, NEW s, Len(s) \in Nat,
           NEW i \in 1..Len(s), NEW k \in 1..Len(s), NEW m \in 1..Len(s), NEW j \in 1..Len(s),
           Covered(h, a, q, 2, s, i, k), Covered(h, b, p, 17, s, k + 1, m), Covered(h, c, 2, next, s, m + 1, j),
           NEW e, e.major = 20, IsNew(h, g, e.node, "OR", a.node, c.node), c.node # 0
    PROVE  Covered(g, e, q, next, s, i, j)
<1>1. k + 1 = m /\ s[m].major = TOKEN_TEST_OR /\ k = m - 1
  BY DEF Covered, Stands, TOKEN_TEST_OR
<1>2. /\ Balanced(s, i, m - 1) /\ Means(h, a.node, s, i, m - 1) /\ Binds(q, 2, s, i, m - 1)
      /\ Balanced(s, m + 1, j) /\ Means(h, c.node, s, m + 1, j) /\ Binds(2, next, s, m + 1, j) /\ Operand(next, s, j)
  <2>1. a.major \in {17, 20} /\ a.major \in {17, 19, 20} /\ c.major \in {17, 20} /\ c.major \in {17, 19, 20}
    OBVIOUS
  <2>2. Balanced(s, i, k) /\ Means(h, a.node, s, i, k) /\ Binds(q, 2, s, i, k)
    BY <2>1 DEF Covered, Stands
  <2>3. /\ Balanced(s, m + 1, j) /\ Means(h, c.node, s, m + 1, j) /\ Binds(2, next, s, m + 1, j)
        /\ Operand(next, s, j)
    BY <2>1 DEF Covered, Stands
  <2>. QED
    BY <1>1, <2>2, <2>3
<1>3. /\ Free(s, m + 1, j, TOKEN_TEST_AND) /\ Free(s, m + 1, j, TOKEN_TEST_OR)
      /\ Free(s, i, m - 1, TOKEN_TEST_AND)
  <2>1. q = 3 \/ (q \in {0, 1} /\ 2 = TOKEN_TEST_OR)
    BY DEF TOKEN_TEST_OR
  <2>. QED
    BY <1>2, <2>1 DEF Binds
<1>4. s[m].major \in Junctions /\ m \in Int /\ TOKEN_TEST_AND \in Junctions
  BY <1>1 DEF Junctions
<1>5. Means(g, a.node, s, i, m - 1) /\ Means(g, c.node, s, m + 1, j)
  <2>1. Extends(s, s)
    BY DEF Extends
  <2>2. m - 1 \in 1..Len(s) /\ m + 1 \in 1..Len(s)
    BY <1>2, PartWithin
  <2>. QED
    BY <1>2, <2>1, <2>2, MeansKept
<1>6. Means(g, e.node, s, i, j)
  <2>1. /\ e.node \in 1..Size(g) /\ IsTest(g, e.node) /\ g.node[e.node].op = "OR"
        /\ Val1(g, e.node) = a.node /\ Val2(g, e.node) = c.node
    BY DEF IsNew
  <2>2. Means(g, Val1(g, e.node), s, i, m - 1) /\ Means(g, Val2(g, e.node), s, m + 1, j) /\ Val2(g, e.node) # 0
    BY <1>5, <2>1
  <2>. QED
    BY <1>1, <1>2, <1>3, <1>4, <2>1, <2>2, MeansOr
<1>7. Balanced(s, i, j)
  BY <1>2, <1>4, JoinedBalanced
<1>8. Free(s, i, j, TOKEN_TEST_AND)
  <2>1. SplitAt(s, i, m, j, TOKEN_TEST_AND)
    BY <1>2, <1>4, JoinedOutside
  <2>2. s[m].major # TOKEN_TEST_AND
    BY <1>1 DEF TOKEN_TEST_AND, TOKEN_TEST_OR
  <2>. QED
    BY <1>3, <2>1, <2>2 DEF SplitAt, Free
<1>9. Binds(q, next, s, i, j)
  BY <1>8 DEF Binds
<1>. QED
  BY <1>2, <1>6, <1>7, <1>9, ExpressionCovered

(* relation_test ::= entity rel_op2 entity                                  *)
LEMMA RelationCovered ==
    ASSUME NEW g, Memory(g), NEW e, e.major = 19, NEW q, NEW next, NEW s, Len(s) \in Nat,
           NEW i \in 1..Len(s), NEW j \in 1..Len(s), i < j, Reference!IsChain(s, i, j), Means(g, e.node, s, i, j),
           IsEntityNode(g, Leftmost(g, e.node), s[i]), Operand(next, s, j)
    PROVE  Covered(g, e, q, next, s, i, j)
<1>1. Binds(q, next, s, i, j)
  BY ChainPart, FreeBinds
<1>2. e.major \notin 1..14 /\ e.major \notin 10..12 /\ e.major \notin {17, 18, 20, 21}
  OBVIOUS
<1>3. Stands(g, e, s, i, j)
  BY <1>2 DEF Stands
<1>. QED
  BY <1>1, <1>3 DEF Covered

LEMMA LeftOf ==
    ASSUME NEW g, Memory(g), NEW n \in 1..Size(g), IsTest(g, n)
    PROVE  Leftmost(g, n) = Leftmost(g, Val1(g, n))
BY LeftmostIs

LEMMA LeftIs ==
    ASSUME NEW g, Memory(g), NEW n, NEW t, IsEntityNode(g, n, t)
    PROVE  Leftmost(g, n) = n /\ n \in 1..Size(g)
BY LeftmostIs DEF IsEntityNode

LEMMA RelationRead ==
    ASSUME NEW h, Memory(h), NEW g, Memory(g), NumbersIn(g), NEW a, NEW b, NEW c,
           a.major = 18, b.major = 21, c.major = 18, NEW q, NEW p, NEW r, NEW next, next \notin 3..8,
           NEW s, Len(s) \in Nat,
           NEW i \in 1..Len(s), NEW k \in 1..Len(s), NEW m \in 1..Len(s), NEW j \in 1..Len(s),
           Covered(h, a, q, 21, s, i, k), Covered(h, b, p, 18, s, k + 1, m), Covered(h, c, r, next, s, m + 1, j),
           NEW e, e.major = 19, IsNew(h, g, e.node, b.op, a.node, c.node), c.node # 0
    PROVE  Covered(g, e, q, next, s, i, j)
<1>1. /\ i = k /\ Reference!IsEntity(s[i]) /\ IsEntityNode(h, a.node, s[i])
      /\ k + 1 = m /\ Reference!IsComparison(s[k + 1]) /\ b.op = RelOp[s[k + 1].major]
      /\ m + 1 = j /\ Reference!IsEntity(s[m + 1]) /\ IsEntityNode(h, c.node, s[m + 1])
  BY DEF Covered, Stands
<1>2. m + 1 = i + 2 /\ k + 1 = i + 1 /\ j = i + 2 /\ i + 2 \in 1..Len(s) /\ i < j
  BY <1>1
<1>3. /\ Keeps(h, g) /\ e.node \in 1..Size(g) /\ IsTest(g, e.node) /\ g.node[e.node].op = b.op
      /\ Val1(g, e.node) = a.node /\ Val2(g, e.node) = c.node
  BY DEF IsNew
<1>4. IsEntityNode(g, a.node, s[i]) /\ IsEntityNode(g, c.node, s[i + 2])
  BY <1>1, <1>2, <1>3, EntityKept
<1>5. Means(g, e.node, s, i, i + 2) /\ Reference!IsChain(s, i, i + 2)
  <2>1. /\ Reference!IsComparison(s[i + 1]) /\ g.node[e.node].op = RelOp[s[i + 1].major]
        /\ Reference!IsEntity(s[i + 2]) /\ Val2(g, e.node) # 0
        /\ IsEntityNode(g, Val1(g, e.node), s[i]) /\ IsEntityNode(g, Val2(g, e.node), s[i + 2])
    BY <1>1, <1>2, <1>3, <1>4
  <2>. QED
    BY <1>1, <1>2, <1>3, <2>1, MeansPair
<1>6. IsEntityNode(g, Leftmost(g, e.node), s[i])
  <2>1. Leftmost(g, e.node) = Leftmost(g, a.node)
    BY <1>3, LeftOf
  <2>2. Leftmost(g, a.node) = a.node
    BY <1>4, LeftIs
  <2>. QED
    BY <1>4, <2>1, <2>2
<1>7. Operand(next, s, j)
  BY DEF Operand
<1>. QED
  BY <1>2, <1>5, <1>6, <1>7, RelationCovered

(* relation_test ::= entity rel_op2 relation_test: in g the node n is the   *)
(* test of a and a copy of the leftmost word of c, and e joins it to c.     *)
LEMMA ChainRead ==
    ASSUME NEW h, Memory(h), NEW g, Memory(g), NumbersIn(g), Keeps(h, g), NEW a, NEW b, NEW c,
           a.major = 18, b.major = 21, c.major = 19, NEW q, NEW p, NEW r, NEW next,
           NEW s, Len(s) \in Nat,
           NEW i \in 1..Len(s), NEW k \in 1..Len(s), NEW m \in 1..Len(s), NEW j \in 1..Len(s),
           Covered(h, a, q, 21, s, i, k), Covered(h, b, p, 19, s, k + 1, m), Covered(h, c, r, next, s, m + 1, j),
           NEW e, e.major = 19, NEW n, NEW copy, copy \in 1..Size(g), c.node # 0,
           IsNew(h, g, e.node, "AND", n, c.node), IsNew(h, g, n, b.op, a.node, copy),
           Alike(h.node[Leftmost(h, c.node)], g.node[copy])
    PROVE  Covered(g, e, q, next, s, i, j)
<1>1. /\ i = k /\ Reference!IsEntity(s[i]) /\ IsEntityNode(h, a.node, s[i])
      /\ k + 1 = m /\ Reference!IsComparison(s[k + 1]) /\ b.op = RelOp[s[k + 1].major]
  BY DEF Covered, Stands
<1>2. /\ Reference!IsChain(s, m + 1, j) /\ m + 1 < j /\ IsEntityNode(h, Leftmost(h, c.node), s[m + 1])
      /\ Means(h, c.node, s, m + 1, j) /\ Operand(next, s, j)
  BY DEF Covered, Stands
<1>3. m + 1 = i + 2 /\ k + 1 = i + 1 /\ i + 2 < j /\ i + 2 \in 1..Len(s) /\ i < j
  BY <1>1, <1>2
<1>4. /\ e.node \in 1..Size(g) /\ IsTest(g, e.node) /\ g.node[e.node].op = "AND"
      /\ Val1(g, e.node) = n /\ Val2(g, e.node) = c.node
      /\ n \in 1..Size(g) /\ IsTest(g, n) /\ g.node[n].op = b.op
      /\ Val1(g, n) = a.node /\ Val2(g, n) = copy
  BY DEF IsNew
<1>5. IsEntityNode(g, a.node, s[i])
  BY <1>1, EntityKept
<1>6. IsEntityNode(g, copy, s[i + 2])
  BY <1>2, <1>3 DEF IsEntityNode, Alike, IsTest
<1>7. Means(g, c.node, s, i + 2, j)
  <2>1. Extends(s, s)
    BY DEF Extends
  <2>2. Means(h, c.node, s, i + 2, j)
    BY <1>2, <1>3
  <2>. QED
    BY <1>3, <2>1, <2>2, MeansKept
<1>8. copy # 0
  <2>1. Size(g) \in Nat
    BY DEF Memory, Size
  <2>. QED
    BY <2>1
<1>9. Means(g, e.node, s, i, j) /\ Reference!IsChain(s, i, j)
  <2>1. /\ Reference!IsComparison(s[i + 1]) /\ g.node[n].op = RelOp[s[i + 1].major]
        /\ Reference!IsChain(s, i + 2, j) /\ Val2(g, e.node) # 0 /\ Val2(g, n) # 0
        /\ IsEntityNode(g, Val1(g, n), s[i]) /\ IsEntityNode(g, Val2(g, n), s[i + 2])
        /\ Means(g, Val2(g, e.node), s, i + 2, j)
    BY <1>1, <1>2, <1>3, <1>4, <1>5, <1>6, <1>7, <1>8
  <2>. QED
    BY <1>1, <1>3, <1>4, <2>1, MeansChain
<1>10. IsEntityNode(g, Leftmost(g, e.node), s[i])
  <2>1. Leftmost(g, e.node) = Leftmost(g, n) /\ Leftmost(g, n) = Leftmost(g, a.node)
    BY <1>4, LeftOf
  <2>2. Leftmost(g, a.node) = a.node
    BY <1>5, LeftIs
  <2>. QED
    BY <1>5, <2>1, <2>2
<1>. QED
  BY <1>2, <1>3, <1>9, <1>10, RelationCovered

----------------------------------------------------------------------------
(***************************************************************************)
(* What the parser's operations make of the heap.                          *)
(***************************************************************************)
LEMMA NumbersThere == ASSUME NEW h, Memory(h) PROVE NumbersIn(h)
<1>1. Values \subseteq Int
  <2>1. \A t \in Token : t.value \in Int
    BY GrammarAssumption
  <2>. QED
    BY <2>1 DEF Values
<1>2. ASSUME NEW m \in 1..Size(h) PROVE h.node[m].value \in Int
  <2>1. h.node[m] \in stnode_t
    BY DEF Memory, Size
  <2>2. h.node[m].value \in Values
    BY <2>1 DEF stnode_t
  <2>. QED
    BY <1>1, <2>2
<1>. QED
  BY <1>2 DEF NumbersIn

Heaps == [node : Seq(stnode_t), live : SUBSET Nat, ok : BOOLEAN]

LEMMA AddedHeap ==
    ASSUME NEW h \in Heaps, NEW c \in stnode_t
    PROVE  Add(h, c) \in Heaps
<1>1. h.node \in Seq(stnode_t) /\ h.live \in SUBSET Nat /\ h.ok \in BOOLEAN /\ Fresh(h) \in Nat
  BY DEF Heaps, Fresh
<1>2. Append(h.node, c) \in Seq(stnode_t) /\ h.live \cup {Fresh(h)} \in SUBSET Nat
  BY <1>1
<1>3. Add(h, c) = [h EXCEPT !.node = Append(h.node, c), !.live = h.live \cup {Fresh(h)}]
  BY DEF Add
<1>. QED
  BY <1>1, <1>2, <1>3 DEF Heaps

LEMMA AddedNodes ==
    ASSUME NEW h \in Heaps, NEW c \in stnode_t
    PROVE  /\ Add(h, c).node \in Seq(stnode_t) /\ Size(Add(h, c)) = Size(h) + 1 /\ Fresh(h) = Size(h) + 1
           /\ Add(h, c).node[Fresh(h)] = c
           /\ \A n \in 1..Size(h) : Add(h, c).node[n] = h.node[n]
           /\ Size(h) \in Nat
<1>1. h.node \in Seq(stnode_t) /\ h = [node |-> h.node, live |-> h.live, ok |-> h.ok]
  BY DEF Heaps
<1>. QED
  BY <1>1, AddedNode

LEMMA UsedNode ==
    ASSUME NEW h \in Heaps, NEW n
    PROVE  Used(h, n).node = h.node /\ Used(h, n) \in Heaps
<1>1. (h.ok /\ n \in h.live) \in BOOLEAN
  OBVIOUS
<1>. DEFINE b == h.ok /\ n \in h.live
<1>2. b \in BOOLEAN
  BY <1>1
<1>3. Used(h, n) = [h EXCEPT !.ok = b]
  BY DEF Used
<1>. HIDE DEF b
<1>. QED
  BY <1>2, <1>3 DEF Heaps

(* The chain a < b < c: a copy is made of the b that the rest begins with.  *)
LEMMA ChainNodes ==
    ASSUME NEW h, Memory(h), NEW op \in Ops, NEW a \in Nat, NEW rest \in 1..Size(h),
           NEW leaf \in 1..Size(h), leaf = Leftmost(h, rest), NEW g, g = Chain(h, op, a, rest)
    PROVE  /\ Keeps(h, g) /\ Fresh(h) + 1 \in 1..Size(g) /\ Alike(h.node[leaf], g.node[Fresh(h) + 1])
           /\ IsNew(h, g, Len(g.node), "AND", Fresh(h), rest) /\ IsNew(h, g, Fresh(h), op, a, Fresh(h) + 1)
<1>. DEFINE N == Size(h)
            L == Fresh(h)
            t == TestNode(op, a, L + 1)
            x == Add(h, t)
            c == x.node[leaf]
            y == Add(x, c)
            z == Used(y, leaf)
            and == "AND"
            u == TestNode(and, L, rest)
            w == Add(z, u)
<1>1. h \in Heaps /\ L = N + 1 /\ N \in Nat /\ L \in Nat /\ L + 1 \in Nat /\ rest \in Nat
  BY DEF Memory, Heaps, Fresh, Size
<1>2. and \in Ops
  BY DEF Ops
<1>3. g = w
  <2>1. new_test(h, op, a, L + 1) = x
    BY DEF new_test, TestNode
  <2>2. stnode_dup(x, leaf) = z
    BY DEF stnode_dup
  <2>3. new_test(z, and, L, rest) = w
    BY DEF new_test, TestNode
  <2>. QED
    BY <2>1, <2>2, <2>3 DEF Chain
<1>4. t \in stnode_t /\ t.type = "TEST" /\ t.op = op /\ t.val1 = a /\ t.val2 = L + 1
  BY <1>1, TestNodeIs
<1>5. u \in stnode_t /\ u.type = "TEST" /\ u.op = and /\ u.val1 = L /\ u.val2 = rest
  BY <1>1, <1>2, TestNodeIs
<1>. HIDE DEF t, u, and
<1>6. /\ x \in Heaps /\ Size(x) = N + 1 /\ x.node[L] = t /\ \A n \in 1..N : x.node[n] = h.node[n]
      /\ x.node \in Seq(stnode_t)
  BY <1>1, <1>4, AddedHeap, AddedNodes
<1>7. c \in stnode_t /\ c = h.node[leaf]
  <2>1. leaf \in 1..Len(x.node)
    BY <1>1, <1>6 DEF Size
  <2>. QED
    BY <1>6, <2>1
<1>. HIDE DEF x, L
<1>8. /\ y \in Heaps /\ Size(y) = N + 2 /\ y.node[N + 2] = c /\ \A n \in 1..(N + 1) : y.node[n] = x.node[n]
  <2>1. y \in Heaps
    BY <1>6, <1>7, AddedHeap
  <2>2. Size(y) = Size(x) + 1 /\ Fresh(x) = Size(x) + 1 /\ y.node[Fresh(x)] = c /\ \A n \in 1..Size(x) : y.node[n] = x.node[n]
    BY <1>6, <1>7, AddedNodes
  <2>. HIDE DEF y, c, N
  <2>3. Size(x) + 1 = N + 2
    BY <1>1, <1>6
  <2>. QED
    BY <1>6, <2>1, <2>2, <2>3
<1>9. z \in Heaps /\ z.node = y.node
  BY <1>8, UsedNode
<1>10. Size(z) = N + 2 /\ z.node[N + 2] = c /\ \A n \in 1..(N + 1) : z.node[n] = x.node[n]
  BY <1>8, <1>9 DEF Size
<1>. HIDE DEF z, y, c
<1>11. Size(w) = N + 3 /\ w.node[N + 3] = u /\ (\A n \in 1..(N + 2) : w.node[n] = z.node[n])
  <2>1. Size(w) = Size(z) + 1 /\ Fresh(z) = Size(z) + 1 /\ w.node[Fresh(z)] = u /\ \A n \in 1..Size(z) : w.node[n] = z.node[n]
    BY <1>5, <1>9, AddedNodes
  <2>. HIDE DEF w, N
  <2>2. Size(z) + 1 = N + 3
    BY <1>1, <1>10
  <2>. QED
    BY <1>10, <2>1, <2>2
<1>. HIDE DEF w
<1>12. /\ \A n \in 1..N : g.node[n] = h.node[n]
       /\ g.node[L] = t /\ g.node[L + 1] = c /\ g.node[Size(g)] = u
       /\ Size(g) = N + 3
  <2>. HIDE DEF N
  <2>1. \A n \in 1..N : n \in 1..(N + 1) /\ n \in 1..(N + 2)
    BY <1>1
  <2>2. L \in 1..(N + 1) /\ L \in 1..(N + 2) /\ L + 1 = N + 2 /\ N + 2 \in 1..(N + 2)
    BY <1>1
  <2>3. \A n \in 1..N : g.node[n] = h.node[n]
    BY <1>3, <1>6, <1>10, <1>11, <2>1
  <2>4. g.node[L] = t
    BY <1>3, <1>6, <1>10, <1>11, <2>2
  <2>5. g.node[L + 1] = c
    BY <1>3, <1>10, <1>11, <2>2
  <2>. QED
    BY <1>3, <1>11, <2>3, <2>4, <2>5
<1>13. Keeps(h, g)
  <2>1. Size(h) <= Size(g)
    BY <1>1, <1>12
  <2>2. \A n \in 1..Size(h) : Alike(h.node[n], g.node[n])
    BY <1>12 DEF Alike
  <2>. QED
    BY <2>1, <2>2 DEF Keeps
<1>14. L + 1 \in 1..Size(g) /\ L \in 1..Size(g) /\ Size(g) \in 1..Size(g)
  <2>. HIDE DEF N
  <2>. QED
    BY <1>1, <1>12
<1>15. Alike(h.node[leaf], g.node[L + 1])
  BY <1>7, <1>12 DEF Alike
<1>16. IsNew(h, g, Size(g), and, L, rest)
  BY <1>5, <1>12, <1>13, <1>14 DEF IsNew, IsTest, Val1, Val2
<1>17. IsNew(h, g, L, op, a, L + 1)
  BY <1>4, <1>12, <1>13, <1>14 DEF IsNew, IsTest, Val1, Val2
<1>. QED
  BY <1>13, <1>14, <1>15, <1>16, <1>17 DEF Size, L, and

----------------------------------------------------------------------------
(***************************************************************************)
(* The stack when a rule is reduced.                                       *)
(***************************************************************************)
Standing(h, stack, s, next, taken, ends) ==
    /\ Memory(h) /\ Viable(stack) /\ stack # << >> /\ Len(s) \in Nat /\ taken \in 0..Len(s)
    /\ Spans(h, stack, s, next, taken, ends)

LEMMA Standings ==
    ASSUME NEW h, NEW stack, NEW s, NEW next, NEW taken, NEW ends, Standing(h, stack, s, next, taken, ends),
           NEW p \in 2..Len(stack)
    PROVE  /\ p - 1 \in 1..Len(stack) /\ p \in 1..Len(stack) /\ Len(stack) \in Nat
           /\ ends[p - 1] \in Nat /\ ends[p] \in Nat /\ ends[p - 1] < ends[p] /\ ends[p] <= taken
           /\ ends[p - 1] + 1 \in 1..Len(s) /\ ends[p] \in 1..Len(s)
           /\ Covered(h, stack[p], stack[p - 1].state, After(stack, next, p), s, ends[p - 1] + 1, ends[p])
           /\ Enters(stack[p - 1].state, stack[p].state, stack[p].major)
           /\ ends[Len(stack)] = taken
<1>1. Len(stack) \in Nat /\ Enters(stack[p - 1].state, stack[p].state, stack[p].major)
  BY DEF Standing, Viable
<1>2. Len(s) \in Nat /\ taken \in 0..Len(s) /\ Spans(h, stack, s, next, taken, ends)
  BY DEF Standing
<1>3. ends[Len(stack)] = taken
  BY <1>2 DEF Spans
<1>. QED
  BY <1>1, <1>2, <1>3, SpansWithin

TopIs(h, stack, s, next, taken, ends) ==
    /\ Len(stack) \in Nat /\ Len(stack) - 1 \in 1..Len(stack)
    /\ ends[Len(stack) - 1] + 1 \in 1..Len(s) /\ taken \in 1..Len(s)
    /\ Covered(h, stack[Len(stack)], stack[Len(stack) - 1].state, next, s, ends[Len(stack) - 1] + 1, taken)
    /\ Enters(stack[Len(stack) - 1].state, stack[Len(stack)].state, stack[Len(stack)].major)

LEMMA OneCovered ==
    ASSUME NEW h, NEW stack, NEW s, NEW next, NEW taken, NEW ends, Standing(h, stack, s, next, taken, ends),
           NEW B, One(stack, B)
    PROVE  TopIs(h, stack, s, next, taken, ends) /\ stack[Len(stack) - 1].state \in B
<1>1. Len(stack) - 1 \in 1..Len(stack) /\ Len(stack) \in Nat /\ stack[Len(stack) - 1].state \in B
  BY DEF One, Standing, Viable
<1>2. Len(stack) \in 2..Len(stack)
  BY <1>1
<1>3. After(stack, next, Len(stack)) = next
  BY <1>1 DEF After
<1>4. /\ ends[Len(stack) - 1] + 1 \in 1..Len(s) /\ ends[Len(stack)] \in 1..Len(s) /\ ends[Len(stack)] = taken
      /\ Covered(h, stack[Len(stack)], stack[Len(stack) - 1].state, After(stack, next, Len(stack)), s,
                 ends[Len(stack) - 1] + 1, ends[Len(stack)])
      /\ Enters(stack[Len(stack) - 1].state, stack[Len(stack)].state, stack[Len(stack)].major)
  BY <1>2, Standings
<1>. QED
  BY <1>1, <1>3, <1>4 DEF TopIs

TopsAre(h, stack, s, next, taken, ends) ==
    LET n == Len(stack)
    IN /\ n \in Nat /\ n - 1 \in 1..n /\ n - 2 \in 1..n /\ n - 3 \in 1..n
       /\ ends[n - 3] + 1 \in 1..Len(s) /\ ends[n - 2] \in 1..Len(s) /\ ends[n - 1] \in 1..Len(s)
       /\ taken \in 1..Len(s)
       /\ Covered(h, stack[n - 2], stack[n - 3].state, stack[n - 1].major, s, ends[n - 3] + 1, ends[n - 2])
       /\ Covered(h, stack[n - 1], stack[n - 2].state, stack[n].major, s, ends[n - 2] + 1, ends[n - 1])
       /\ Covered(h, stack[n], stack[n - 1].state, next, s, ends[n - 1] + 1, taken)
       /\ Enters(stack[n - 3].state, stack[n - 2].state, stack[n - 2].major)
       /\ Enters(stack[n - 2].state, stack[n - 1].state, stack[n - 1].major)
       /\ Enters(stack[n - 1].state, stack[n].state, stack[n].major)

LEMMA ThreeCovered ==
    ASSUME NEW h, NEW stack, NEW s, NEW next, NEW taken, NEW ends, Standing(h, stack, s, next, taken, ends),
           NEW B, Three(stack, B)
    PROVE  TopsAre(h, stack, s, next, taken, ends) /\ stack[Len(stack) - 3].state \in B
<1>1. /\ Len(stack) - 1 \in 1..Len(stack) /\ Len(stack) - 2 \in 1..Len(stack) /\ Len(stack) - 3 \in 1..Len(stack)
      /\ Len(stack) \in Nat /\ stack[Len(stack) - 3].state \in B
  BY DEF Three, Standing, Viable
<1>. DEFINE n == Len(stack)
            a == n - 3
            b == n - 2
            c == n - 1
<1>2. /\ a + 1 = b /\ b + 1 = c /\ c + 1 = n /\ a \in 1..n /\ b \in 2..n /\ c \in 2..n /\ n \in 2..n
      /\ b - 1 = a /\ c - 1 = b /\ n - 1 = c /\ b < n /\ c < n
  BY <1>1
<1>3. /\ After(stack, next, n) = next /\ After(stack, next, c) = stack[n].major
      /\ After(stack, next, b) = stack[c].major
  <2>. HIDE DEF a, b, c
  <2>. QED
    BY <1>2 DEF After, n
<1>4. ends[n] = taken
  BY <1>2, Standings
<1>. HIDE DEF a, b, c, n
<1>5. /\ ends[a] + 1 \in 1..Len(s) /\ ends[b] \in 1..Len(s)
      /\ Covered(h, stack[b], stack[a].state, stack[c].major, s, ends[a] + 1, ends[b])
      /\ Enters(stack[a].state, stack[b].state, stack[b].major)
  <2>1. b \in 2..Len(stack)
    BY <1>2 DEF n
  <2>2. /\ ends[b - 1] + 1 \in 1..Len(s) /\ ends[b] \in 1..Len(s)
        /\ Covered(h, stack[b], stack[b - 1].state, After(stack, next, b), s, ends[b - 1] + 1, ends[b])
        /\ Enters(stack[b - 1].state, stack[b].state, stack[b].major)
    BY <2>1, Standings
  <2>. QED
    BY <1>2, <1>3, <2>2
<1>6. /\ ends[c] \in 1..Len(s)
      /\ Covered(h, stack[c], stack[b].state, stack[n].major, s, ends[b] + 1, ends[c])
      /\ Enters(stack[b].state, stack[c].state, stack[c].major)
  <2>1. c \in 2..Len(stack)
    BY <1>2 DEF n
  <2>2. /\ ends[c] \in 1..Len(s)
        /\ Covered(h, stack[c], stack[c - 1].state, After(stack, next, c), s, ends[c - 1] + 1, ends[c])
        /\ Enters(stack[c - 1].state, stack[c].state, stack[c].major)
    BY <2>1, Standings
  <2>. QED
    BY <1>2, <1>3, <2>2
<1>7. /\ ends[n] \in 1..Len(s)
      /\ Covered(h, stack[n], stack[c].state, next, s, ends[c] + 1, ends[n])
      /\ Enters(stack[c].state, stack[n].state, stack[n].major)
  <2>1. n \in 2..Len(stack)
    BY <1>2 DEF n
  <2>2. /\ ends[n] \in 1..Len(s)
        /\ Covered(h, stack[n], stack[n - 1].state, After(stack, next, n), s, ends[n - 1] + 1, ends[n])
        /\ Enters(stack[n - 1].state, stack[n].state, stack[n].major)
    BY <2>1, Standings
  <2>. QED
    BY <1>2, <1>3, <2>2
<1>8. TopsAre(h, stack, s, next, taken, ends)
  BY <1>1, <1>4, <1>5, <1>6, <1>7 DEF TopsAre, a, b, c, n
<1>. QED
  BY <1>1, <1>8

LEMMA ReducedSpans ==
    ASSUME NEW h, NEW stack, NEW s, NEW next, NEW taken, NEW ends, Standing(h, stack, s, next, taken, ends),
           NEW g, Memory(g), Keeps(h, g), NEW k \in 1..Len(stack), stack[k].state \in 0..6, NEW e \in Entry,
           Covered(g, e, stack[k].state, next, s, ends[k] + 1, taken),
           NEW pushed, pushed = Append(SubSeq(stack, 1, k), e)
    PROVE  \E fin : Spans(g, pushed, s, next, taken, fin)
<1>1. /\ Memory(h) /\ Viable(stack) /\ Len(s) \in Nat /\ taken \in 0..Len(s)
      /\ Spans(h, stack, s, next, taken, ends) /\ stack \in Seq(Entry) /\ Len(stack) \in Nat
  BY DEF Standing, Viable
<1>2. Extends(s, s)
  BY <1>1 DEF Extends
<1>3. Spans(g, stack, s, next, taken, ends)
  BY <1>1, <1>2, SpansKept
<1>4. stack[k].major \notin Expressions
  BY <1>1, BaseSymbol
<1>5. taken \in taken..Len(s)
  BY <1>1
<1>. QED
  BY <1>1, <1>3, <1>4, <1>5, SpansPushed

----------------------------------------------------------------------------
(***************************************************************************)
(* Reductions.                                                             *)
(***************************************************************************)
Written == text \in Seq(Token)

LEMMA WrittenIs ==
    ASSUME Written
    PROVE  /\ Len(text) \in Nat
           /\ \A k \in 1..Len(text) : text[k] \in Token /\ text[k].major # TOKEN_FIELD
<1>1. \A t \in Token : t.major # TOKEN_FIELD
  BY GrammarAssumption
<1>. QED
  BY <1>1 DEF Written

LEMMA TakenIs ==
    ASSUME Written, TokenAtHand
    PROVE  Taken \in 0..Len(text)
<1>1. Len(text) \in Nat
  BY WrittenIs
<1>2. (pc = "parse" /\ major # 0) => Len(text) >= 1
  BY DEF TokenAtHand, Written
<1>3. \/ Taken = Len(text) - 1 /\ Len(text) >= 1
      \/ Taken = Len(text)
  BY <1>2 DEF Taken
<1>. QED
  BY <1>1, <1>3

(* What a reduction finds.                                                  *)
AtRule(rule, ends) ==
    /\ Standing(heap, yystack, text, major, Taken, ends)
    /\ pc = "parse" /\ yyerrcnt <= 0 /\ TokenAtHand
    /\ yystack[Len(yystack)].state = Handle[rule + 1]
    /\ major \in 0..14 /\ yy_find_shift_action(Handle[rule + 1], major) = 25 + rule

LEMMA AtReduction ==
    ASSUME Owned, Written, Clean, Reads, NEW rule \in 2..19, Reducing(rule)
    PROVE  \E ends : AtRule(rule, ends)
<1>1. pc = "parse" /\ yy_find_shift_action(Last(yystack).state, major) = 25 + rule
  BY DEF Reducing, Act, YYNSTATE
<1>2. StackSound /\ PlaceSound /\ NodesHeld /\ Parsing
  BY <1>1 DEF Owned, Parsing
<1>3. /\ Viable(yystack) /\ yystack # << >> /\ major \in 0..14
  BY <1>2 DEF StackSound
<1>4. Last(yystack) = yystack[Len(yystack)]
  BY <1>2, AtWork
<1>5. yystack[Len(yystack)].state = Handle[rule + 1]
  BY <1>2, Working
<1>6. Memory(heap)
  BY <1>2 DEF NodesHeld, Held
<1>7. yyerrcnt <= 0 /\ TokenAtHand /\ \E ends : Spans(heap, yystack, text, major, Taken, ends)
  BY <1>1, <1>3 DEF Reads
<1>8. Len(text) \in Nat /\ Taken \in 0..Len(text)
  BY <1>7, WrittenIs, TakenIs
<1>9. PICK ends : Spans(heap, yystack, text, major, Taken, ends)
  BY <1>7
<1>10. Standing(heap, yystack, text, major, Taken, ends)
  BY <1>3, <1>6, <1>8, <1>9 DEF Standing
<1>11. AtRule(rule, ends)
  BY <1>1, <1>3, <1>4, <1>5, <1>7, <1>10 DEF AtRule
<1>. QED
  BY <1>11

(* What it leaves: the symbols above k give way to one.                     *)
GivesWay(rule, lhs, k) ==
    /\ k \in 1..Len(yystack) /\ k < Len(yystack) /\ yystack[k].state \in 0..6
    /\ yyRuleInfo[rule + 1] = <<lhs, Len(yystack) - k>>
    /\ Enters(yystack[k].state, Goto(yystack[k].state, lhs), lhs)

StandsAbove(k, lhs, node, op, i) ==
    \A e : e.major = lhs /\ e.node = node /\ e.op = op
              => Covered(heap', e, yystack[k].state, major, text, i, Taken)

LEMMA Replaced ==
    ASSUME Owned', NEW rule \in 2..19, NEW ends, AtRule(rule, ends),
           NEW lhs \in 16..21, NEW k, GivesWay(rule, lhs, k),
           NEW node \in Nat, NEW op \in Ops, Becomes(rule, node, op), Keeps(heap, heap'),
           StandsAbove(k, lhs, node, op, ends[k] + 1)
    PROVE  Reads'
<1>. DEFINE e == [state |-> Goto(yystack[k].state, lhs), major |-> lhs, node |-> node, op |-> op]
            s == SubSeq(yystack, 1, k)
            t == Append(s, e)
            size == Len(yystack) - k
<1>1. Standing(heap, yystack, text, major, Taken, ends) /\ pc = "parse" /\ yyerrcnt <= 0 /\ TokenAtHand
  BY DEF AtRule
<1>2. /\ Memory(heap) /\ Viable(yystack) /\ yystack \in Seq(Entry) /\ Len(yystack) \in Nat
      /\ k \in 1..Len(yystack) /\ yystack[k].state \in 0..6
      /\ Enters(yystack[k].state, Goto(yystack[k].state, lhs), lhs)
  BY <1>1 DEF Standing, Viable, GivesWay
<1>3. Memory(heap')
  BY DEF Owned, NodesHeld, Held
<1>4. Last(s) = yystack[k]
  <2>1. Len(s) = k /\ s[k] = yystack[k]
    BY <1>2
  <2>. QED
    BY <2>1 DEF Last
<1>5. /\ yystack' = Append(SubSeq(yystack, 1, Len(yystack) - size),
                          [state |-> yy_find_reduce_action(Last(SubSeq(yystack, 1, Len(yystack) - size)).state, lhs),
                           major |-> lhs, node |-> node, op |-> op])
      /\ UNCHANGED <<text, pc, major, minor, yyerrcnt>>
  <2>1. yyRuleInfo[rule + 1][1] = lhs /\ yyRuleInfo[rule + 1][2] = size
    BY DEF GivesWay
  <2>. HIDE DEF size
  <2>. QED
    BY <2>1 DEF Becomes
<1>6. yystack' = t
  <2>1. Len(yystack) - size = k
    BY <1>2
  <2>. QED
    BY <1>4, <1>5, <2>1 DEF Goto
<1>7. e.major = lhs /\ e.node = node /\ e.op = op /\ e \in Entry
  <2>1. Goto(yystack[k].state, lhs) \in 0..24
    BY <1>2 DEF Enters
  <2>. QED
    BY <2>1 DEF Entry
<1>. HIDE DEF e
<1>8. Covered(heap', e, yystack[k].state, major, text, ends[k] + 1, Taken)
  BY <1>7 DEF StandsAbove
<1>9. \E fin : Spans(heap', t, text, major, Taken, fin)
  BY <1>1, <1>2, <1>3, <1>7, <1>8, ReducedSpans
<1>10. t # << >>
  <2>1. s \in Seq(Entry)
    BY <1>2, <1>7
  <2>2. Len(t) = Len(s) + 1 /\ Len(s) \in Nat
    BY <1>7, <2>1
  <2>. HIDE DEF t, s
  <2>3. Len(t) # 0
    BY <2>2
  <2>. QED
    BY <2>3
<1>. HIDE DEF t
<1>11. Taken' = Taken
  BY <1>5 DEF Taken
<1>12. TokenAtHand'
  <2>1. IsEntityNode(heap, minor, text[Len(text)]) => IsEntityNode(heap', minor, text[Len(text)])
    BY <1>2, <1>3, EntityKept
  <2>. QED
    BY <1>1, <1>5, <2>1 DEF TokenAtHand
<1>13. \E fin : Spans(heap', yystack', text', major', Taken', fin)
  BY <1>5, <1>6, <1>9, <1>11
<1>14. yystack' # << >> /\ pc' = "parse" /\ yyerrcnt' <= 0
  BY <1>1, <1>5, <1>6, <1>10
<1>. QED
  BY <1>12, <1>13, <1>14 DEF Reads

LEMMA HandlesAre ==
    /\ \A rule \in {2, 3} : Handle[rule + 1] \in {23, 24}
    /\ \A rule \in 7..10 : Handle[rule + 1] \in 18..21
    /\ \A rule \in 13..18 : Handle[rule + 1] \in 12..17
    /\ Handle[4 + 1] = 9 /\ Handle[5 + 1] = 22 /\ Handle[6 + 1] = 6
    /\ Handle[11 + 1] = 5 /\ Handle[12 + 1] = 11 /\ Handle[19 + 1] = 10
<1>1. /\ Handle[3] = 24 /\ Handle[4] = 23 /\ Handle[5] = 9 /\ Handle[6] = 22 /\ Handle[7] = 6
      /\ Handle[8] = 21 /\ Handle[9] = 20 /\ Handle[10] = 19 /\ Handle[11] = 18
      /\ Handle[12] = 5 /\ Handle[13] = 11 /\ Handle[14] = 17 /\ Handle[15] = 16 /\ Handle[16] = 15
      /\ Handle[17] = 14 /\ Handle[18] = 13 /\ Handle[19] = 12 /\ Handle[20] = 10
  BY DEF Handle
<1>. QED
  BY <1>1

LEMMA KeepsFreed ==
    ASSUME NEW h, Memory(h), NEW g, Memory(g), NEW n
    PROVE  /\ Keeps(h, g) => Keeps(h, stnode_free(g, n))
           /\ \A m, op, a, b : IsNew(h, g, m, op, a, b) => IsNew(h, stnode_free(g, n), m, op, a, b)
BY FreedNodes, KeepsNodes

(* A rule with three symbols on its right, and what it makes of them.       *)
Joins(next, lhs, node, op) ==
    \A e, q, i, k, m :
       LET n == Len(yystack) IN
       /\ e.major = lhs /\ e.node = node /\ e.op = op
       /\ i \in 1..Len(text) /\ k \in 1..Len(text) /\ m \in 1..Len(text) /\ Taken \in 1..Len(text)
       /\ Covered(heap, yystack[n - 2], q, yystack[n - 1].major, text, i, k)
       /\ Covered(heap, yystack[n - 1], yystack[n - 2].state, yystack[n].major, text, k + 1, m)
       /\ Covered(heap, yystack[n], yystack[n - 1].state, next, text, m + 1, Taken)
       /\ Enters(q, yystack[n - 2].state, yystack[n - 2].major)
       /\ Enters(yystack[n - 2].state, yystack[n - 1].state, yystack[n - 1].major)
       /\ Enters(yystack[n - 1].state, yystack[n].state, yystack[n].major)
       => Covered(heap', e, q, next, text, i, Taken)

LEMMA ThreeReads ==
    ASSUME Owned', NEW rule \in 2..19, NEW ends, AtRule(rule, ends),
           NEW lhs \in 16..21, NEW B \in {0..3, 0..4}, Fits(yystack, rule, B, lhs, 3),
           NEW node \in Nat, NEW op \in Ops, Becomes(rule, node, op), Keeps(heap, heap'),
           Joins(major, lhs, node, op)
    PROVE  Reads'
<1>. DEFINE n == Len(yystack)
            k == n - 3
            q == yystack[k].state
<1>1. Standing(heap, yystack, text, major, Taken, ends)
  BY DEF AtRule
<1>2. Three(yystack, B) /\ yyRuleInfo[rule + 1] = <<lhs, 3>> /\ \A p \in B : Enters(p, Goto(p, lhs), lhs)
  BY DEF Fits
<1>3. TopsAre(heap, yystack, text, major, Taken, ends) /\ q \in B
  BY <1>1, <1>2, ThreeCovered
<1>4. Enters(q, Goto(q, lhs), lhs) /\ q \in 0..6
  BY <1>2, <1>3
<1>5. k \in 1..n /\ n \in Nat
  BY <1>3 DEF TopsAre
<1>6. ASSUME NEW e, e.major = lhs, e.node = node, e.op = op
      PROVE  Covered(heap', e, q, major, text, ends[k] + 1, Taken)
  BY <1>3, <1>6 DEF TopsAre, Joins
<1>7. StandsAbove(k, lhs, node, op, ends[k] + 1)
  BY <1>6 DEF StandsAbove
<1>8. GivesWay(rule, lhs, k)
  <2>1. Len(yystack) - k = 3 /\ k < Len(yystack)
    BY <1>5
  <2>. QED
    BY <1>2, <1>4, <1>5, <2>1 DEF GivesWay
<1>. HIDE DEF k
<1>. QED
  BY <1>7, <1>8, Replaced

Yields(next, lhs, node, op) ==
    \A e, q, i :
       LET n == Len(yystack) IN
       /\ e.major = lhs /\ e.node = node /\ e.op = op
       /\ i \in 1..Len(text) /\ Taken \in 1..Len(text)
       /\ Covered(heap, yystack[n], q, next, text, i, Taken)
       /\ Enters(q, yystack[n].state, yystack[n].major)
       => Covered(heap', e, q, next, text, i, Taken)

LEMMA OneReads ==
    ASSUME Owned', NEW rule \in 2..19, NEW ends, AtRule(rule, ends),
           NEW lhs \in 16..21, NEW B \in {0..3, 0..4, {5, 6}}, Fits(yystack, rule, B, lhs, 1),
           NEW node \in Nat, NEW op \in Ops, Becomes(rule, node, op), Keeps(heap, heap'),
           Yields(major, lhs, node, op)
    PROVE  Reads'
<1>. DEFINE n == Len(yystack)
            k == n - 1
            q == yystack[k].state
<1>1. Standing(heap, yystack, text, major, Taken, ends)
  BY DEF AtRule
<1>2. One(yystack, B) /\ yyRuleInfo[rule + 1] = <<lhs, 1>> /\ \A p \in B : Enters(p, Goto(p, lhs), lhs)
  BY DEF Fits
<1>3. TopIs(heap, yystack, text, major, Taken, ends) /\ q \in B
  BY <1>1, <1>2, OneCovered
<1>4. Enters(q, Goto(q, lhs), lhs) /\ q \in 0..6
  BY <1>2, <1>3
<1>5. k \in 1..n /\ n \in Nat
  BY <1>3 DEF TopIs
<1>6. ASSUME NEW e, e.major = lhs, e.node = node, e.op = op
      PROVE  Covered(heap', e, q, major, text, ends[k] + 1, Taken)
  BY <1>3, <1>6 DEF TopIs, Yields
<1>7. StandsAbove(k, lhs, node, op, ends[k] + 1)
  BY <1>6 DEF StandsAbove
<1>8. GivesWay(rule, lhs, k)
  <2>1. Len(yystack) - k = 1 /\ k < Len(yystack)
    BY <1>5
  <2>. QED
    BY <1>2, <1>4, <1>5, <2>1 DEF GivesWay
<1>. HIDE DEF k
<1>. QED
  BY <1>7, <1>8, Replaced

RuleFound(rule, ends) ==
    /\ AtRule(rule, ends) /\ Memory(heap) /\ Memory(heap') /\ Viable(yystack) /\ yystack # << >>
    /\ Len(yystack) \in Nat /\ Len(text) \in Nat /\ yystack[Len(yystack)].state = Handle[rule + 1]
    /\ Rhs(0) = yystack[Len(yystack)] /\ Rhs(1) = yystack[Len(yystack) - 1] /\ Rhs(2) = yystack[Len(yystack) - 2]

LEMMA Found ==
    ASSUME Owned, Owned', Written, Clean, Reads, NEW rule \in 2..19, Reducing(rule)
    PROVE  \E ends : RuleFound(rule, ends)
<1>1. PICK ends : AtRule(rule, ends)
  BY AtReduction
<1>2. /\ Memory(heap) /\ Viable(yystack) /\ yystack # << >> /\ Len(yystack) \in Nat
      /\ yystack[Len(yystack)].state = Handle[rule + 1]
  BY <1>1 DEF AtRule, Standing, Viable
<1>3. Memory(heap')
  BY DEF Owned, NodesHeld, Held
<1>4. Rhs(0) = yystack[Len(yystack)] /\ Rhs(1) = yystack[Len(yystack) - 1] /\ Rhs(2) = yystack[Len(yystack) - 2]
  BY <1>2 DEF Rhs
<1>5. Len(text) \in Nat
  BY WrittenIs
<1>6. RuleFound(rule, ends)
  BY <1>1, <1>2, <1>3, <1>4, <1>5 DEF RuleFound
<1>. QED
  BY <1>6

(* expr ::= relation_test | logical_test, and entity ::= a token.           *)
LEMMA UnitReads ==
    ASSUME Owned, Owned', Written, Clean, Reads, NEW rule \in {2, 3, 7, 8, 9, 10}, UnitBy(rule)
    PROVE  Reads'
<1>. DEFINE n == Len(yystack)
            c == yystack[n]
            none == ""
<1>0. rule \in 2..19 /\ (rule \in {2, 3} \/ rule \in 7..10)
  OBVIOUS
<1>1. Reducing(rule) /\ Becomes(rule, Rhs(0).node, none) /\ heap' = heap /\ none \in Ops
  BY DEF UnitBy, Ops
<1>. HIDE DEF none
<1>2. PICK ends : RuleFound(rule, ends)
  BY <1>0, <1>1, Found
<1>3. /\ AtRule(rule, ends) /\ Memory(heap) /\ Viable(yystack) /\ yystack # << >> /\ n \in Nat
      /\ c.state = Handle[rule + 1] /\ Rhs(0) = c /\ Len(text) \in Nat
  BY <1>2 DEF RuleFound
<1>4. c.node \in Nat
  <2>1. n \in 1..n
    BY <1>3
  <2>. QED
    BY <1>3, <2>1, EntryIs
<1>. HIDE DEF c
<1>5. Keeps(heap, heap')
  BY <1>1, <1>3, KeepsSelf
<1>6. Becomes(rule, c.node, none)
  BY <1>1, <1>3
<1>7. CASE rule \in {2, 3}
  <2>1. Fits(yystack, rule, 0..3, 17, 1)
    BY <1>0, <1>3, <1>7, Rules DEF c
  <2>2. c.state \in {23, 24}
    BY <1>3, <1>7, HandlesAre
  <2>3. Yields(major, 17, c.node, none)
    <3>1. SUFFICES ASSUME NEW e, NEW q, NEW i, e.major = 17, e.node = c.node,
                          i \in 1..Len(text), Taken \in 1..Len(text), Covered(heap, c, q, major, text, i, Taken),
                          Enters(q, c.state, c.major)
                   PROVE  Covered(heap', e, q, major, text, i, Taken)
      BY DEF Yields, c
    <3>2. c.major \in {19, 20}
      BY <2>2, <3>1, SymbolsAre
    <3>. QED
      BY <1>1, <1>3, <3>1, <3>2, UnitRead
  <2>4. 17 \in 16..21 /\ 0..3 \in {0..3, 0..4, {5, 6}}
    OBVIOUS
  <2>. QED
    BY <1>0, <1>1, <1>3, <1>4, <1>5, <1>6, <2>1, <2>3, <2>4, OneReads
<1>8. CASE rule \in 7..10
  <2>1. Fits(yystack, rule, 0..4, 18, 1)
    BY <1>0, <1>3, <1>8, Rules DEF c
  <2>2. c.state \in 18..21
    BY <1>3, <1>8, HandlesAre
  <2>3. Yields(major, 18, c.node, none)
    <3>1. SUFFICES ASSUME NEW e, NEW q, NEW i, e.major = 18, e.node = c.node,
                          i \in 1..Len(text), Taken \in 1..Len(text), Covered(heap, c, q, major, text, i, Taken),
                          Enters(q, c.state, c.major)
                   PROVE  Covered(heap', e, q, major, text, i, Taken)
      BY DEF Yields, c
    <3>2. c.major \in 9..12
      BY <2>2, <3>1, SymbolsAre
    <3>3. text[i].major # TOKEN_FIELD
      BY <3>1, WrittenIs
    <3>. QED
      BY <1>1, <1>3, <3>1, <3>2, <3>3, EntityRead
  <2>4. 18 \in 16..21 /\ 0..4 \in {0..3, 0..4, {5, 6}}
    OBVIOUS
  <2>. QED
    BY <1>0, <1>1, <1>3, <1>4, <1>5, <1>6, <2>1, <2>3, <2>4, OneReads
<1>. QED
  BY <1>0, <1>7, <1>8

(* logical_test ::= entity                                                  *)
LEMMA ExistsReads ==
    ASSUME Owned, Owned', Written, Clean, Reads, ExistsBy
    PROVE  Reads'
<1>. DEFINE n == Len(yystack)
            c == yystack[n]
            none == ""
            op == "EXISTS"
            F == Fresh(heap)
<1>0. 6 \in 2..19 /\ 0 \in Nat /\ 20 \in 16..21 /\ 0..3 \in {0..3, 0..4, {5, 6}}
  OBVIOUS
<1>1. Reducing(6) /\ Becomes(6, F, none) /\ heap' = new_test(heap, op, Rhs(0).node, 0) /\ none \in Ops /\ op \in Ops
  BY DEF ExistsBy, Ops
<1>2. PICK ends : RuleFound(6, ends)
  BY <1>0, <1>1, Found
<1>3. /\ AtRule(6, ends) /\ Memory(heap) /\ Memory(heap') /\ Viable(yystack) /\ yystack # << >> /\ n \in Nat
      /\ c.state = Handle[6 + 1] /\ Rhs(0) = c /\ Len(text) \in Nat
  BY <1>2 DEF RuleFound
<1>4. c.node \in Nat
  <2>1. n \in 1..n
    BY <1>3
  <2>. QED
    BY <1>3, <2>1, EntryIs
<1>. HIDE DEF c
<1>5. heap' = new_test(heap, op, c.node, 0)
  BY <1>1, <1>3
<1>6. IsNew(heap, heap', F, op, c.node, 0)
  <2>. HIDE DEF op
  <2>. QED
    BY <1>0, <1>1, <1>3, <1>4, <1>5, NewTestIs
<1>7. Keeps(heap, heap') /\ F \in Nat
  BY <1>3, <1>6 DEF IsNew, Fresh, Memory
<1>8. Fits(yystack, 6, 0..3, 20, 1)
  BY <1>0, <1>3, Rules DEF c
<1>9. c.state = 6
  BY <1>3, HandlesAre
<1>10. major \notin 3..8
  <2>1. major \in 0..14 /\ yy_find_shift_action(6, major) = 31
    BY <1>3, HandlesAre DEF AtRule
  <2>. QED
    BY <2>1, Decided
<1>11. Yields(major, 20, F, none)
  <2>1. SUFFICES ASSUME NEW e, NEW q, NEW i, e.major = 20, e.node = F,
                        i \in 1..Len(text), Taken \in 1..Len(text), Covered(heap, c, q, major, text, i, Taken),
                        Enters(q, c.state, c.major)
                 PROVE  Covered(heap', e, q, major, text, i, Taken)
    BY DEF Yields, c
  <2>2. c.major = 18
    BY <1>9, <2>1, SymbolsAre
  <2>. HIDE DEF F
  <2>3. IsNew(heap, heap', e.node, "EXISTS", c.node, 0)
    BY <1>6, <2>1
  <2>. QED
    BY <1>3, <1>10, <2>1, <2>2, <2>3, ExistsRead
<1>. HIDE DEF none, F
<1>. QED
  BY <1>0, <1>1, <1>3, <1>7, <1>8, <1>11, OneReads

(* rel_op2 ::= one of the comparisons                                       *)
LEMMA OpReads ==
    ASSUME Owned, Owned', Written, Clean, Reads, NEW rule \in 13..18, OpBy(rule)
    PROVE  Reads'
<1>. DEFINE n == Len(yystack)
            c == yystack[n]
            op == RelOp[c.major]
<1>0. rule \in 2..19 /\ 0 \in Nat /\ 21 \in 16..21 /\ {5, 6} \in {0..3, 0..4, {5, 6}}
  OBVIOUS
<1>1. Reducing(rule) /\ Becomes(rule, 0, RelOp[Rhs(0).major]) /\ heap' = stnode_free(heap, Rhs(0).node)
  BY DEF OpBy
<1>2. PICK ends : RuleFound(rule, ends)
  BY <1>0, <1>1, Found
<1>3. /\ AtRule(rule, ends) /\ Memory(heap) /\ Memory(heap') /\ Viable(yystack) /\ yystack # << >> /\ n \in Nat
      /\ c.state = Handle[rule + 1] /\ Rhs(0) = c /\ Len(text) \in Nat
  BY <1>2 DEF RuleFound
<1>4. Fits(yystack, rule, {5, 6}, 21, 1) /\ c.major \in 3..8
  BY <1>0, <1>3, Rules
<1>5. op \in Ops
  <2>1. Reference!IsComparison(c)
    BY <1>4, Codes
  <2>2. op \in Comparisons
    BY <2>1, ComparisonIs
  <2>. QED
    BY <2>2 DEF Comparisons, Ops
<1>6. Becomes(rule, 0, op) /\ heap' = stnode_free(heap, c.node)
  BY <1>1, <1>3
<1>7. Keeps(heap, heap')
  BY <1>3, <1>6, KeepsSelf, KeepsFreed
<1>8. Yields(major, 21, 0, op)
  <2>1. SUFFICES ASSUME NEW e, NEW q, NEW i, e.major = 21, e.op = op,
                        Covered(heap, c, q, major, text, i, Taken)
                 PROVE  Covered(heap', e, q, major, text, i, Taken)
    BY DEF Yields
  <2>. HIDE DEF c
  <2>. QED
    BY <1>4, <2>1, OpRead
<1>. HIDE DEF op
<1>. QED
  BY <1>0, <1>3, <1>4, <1>5, <1>6, <1>7, <1>8, OneReads

(* logical_test ::= expr TEST_AND expr | expr TEST_OR expr                  *)
LEMMA LogicalReads ==
    ASSUME Owned, Owned', Written, Clean, Reads, NEW rule \in {4, 5}, LogicalBy(rule)
    PROVE  Reads'
<1>. DEFINE n == Len(yystack)
            a == yystack[n - 2]
            b == yystack[n - 1]
            c == yystack[n]
            none == ""
            op == IF rule = 4 THEN "AND" ELSE "OR"
            F == Fresh(heap)
            h == new_test(heap, op, a.node, c.node)
<1>0. rule \in 2..19 /\ 20 \in 16..21 /\ 0..3 \in {0..3, 0..4}
  OBVIOUS
<1>1. op \in Ops /\ none \in Ops
  BY DEF Ops
<1>2. Reducing(rule)
  BY DEF LogicalBy
<1>3. PICK ends : RuleFound(rule, ends)
  BY <1>0, <1>2, Found
<1>4. /\ AtRule(rule, ends) /\ Memory(heap) /\ Memory(heap') /\ Viable(yystack) /\ yystack # << >> /\ n \in Nat
      /\ c.state = Handle[rule + 1] /\ Rhs(0) = c /\ Rhs(1) = b /\ Rhs(2) = a /\ Len(text) \in Nat
  BY <1>3 DEF RuleFound
<1>5. heap' = stnode_free(h, b.node) /\ Becomes(rule, F, none)
  BY <1>4 DEF LogicalBy
<1>6. Fits(yystack, rule, 0..3, 20, 3)
  BY <1>0, <1>4, Rules
<1>7. Three(yystack, 0..3)
  BY <1>6 DEF Fits
<1>8. a.node \in Nat /\ c.node \in Nat /\ c.node # 0 /\ a.node # 0 /\ a.node # c.node
  BY <1>4, <1>7, TopThree DEF StackSound, Owned
<1>. HIDE DEF a, b, c, op, none
<1>9. IsNew(heap, h, F, op, a.node, c.node)
  BY <1>1, <1>4, <1>8, NewTestIs
<1>10. IsNew(heap, heap', F, op, a.node, c.node)
  <2>1. h.node = stnode_free(h, b.node).node
    <3>1. Held(heap, Roots)
      BY DEF Owned, NodesHeld
    <3>2. a.node \in Roots /\ c.node \in Roots
      <4>1. OnStack \subseteq Roots
        BY DEF Roots
      <4>2. n - 2 \in 1..n /\ n \in 1..n
        BY <1>4, <1>7 DEF Three
      <4>. QED
        BY <1>8, <4>1, <4>2 DEF OnStack, StackNodes, a, c
    <3>3. Needs(op, c.node)
      BY <1>8 DEF Needs
    <3>4. Hands(heap, Roots, h, (Roots \ {a.node, c.node}) \cup {F})
      BY <1>1, <1>8, <3>1, <3>2, <3>3, NewTest
    <3>5. Memory(h)
      BY <3>4 DEF Hands, Held
    <3>. HIDE DEF h
    <3>. QED
      BY <3>5, FreedNodes
  <2>. HIDE DEF h, F
  <2>. QED
    BY <1>5, <1>9, <2>1, KeepsNodes
<1>11. Keeps(heap, heap') /\ F \in Nat
  BY <1>4, <1>10 DEF IsNew, Fresh, Memory
<1>. HIDE DEF F, h
<1>12. Joins(major, 20, F, none)
  <2>1. SUFFICES ASSUME NEW e, NEW q, NEW i, NEW k, NEW m, e.major = 20, e.node = F,
               i \in 1..Len(text), k \in 1..Len(text), m \in 1..Len(text), Taken \in 1..Len(text),
               Covered(heap, a, q, b.major, text, i, k),
               Covered(heap, b, a.state, c.major, text, k + 1, m),
               Covered(heap, c, b.state, major, text, m + 1, Taken),
               Enters(q, a.state, a.major), Enters(a.state, b.state, b.major), Enters(b.state, c.state, c.major)
             PROVE  Covered(heap', e, q, major, text, i, Taken)
    BY DEF Joins, a, b, c
  <2>2. IsNew(heap, heap', e.node, op, a.node, c.node)
    BY <1>10, <2>1
  <2>3. CASE rule = 4
    <3>1. c.state = 9
      BY <1>4, <2>3, HandlesAre
    <3>2. c.major = 17 /\ b.state = 3
      BY <2>1, <3>1, SymbolsAre
    <3>3. b.major = 1 /\ a.state \in {7, 8}
      BY <2>1, <3>2, SymbolsAre
    <3>4. a.major = 17 /\ q \in {0, 1}
      BY <2>1, <3>3, SymbolsAre
    <3>5. major # 2
      <4>1. major \in 0..14 /\ yy_find_shift_action(9, major) = 29
        BY <1>4, <2>3, <3>1 DEF AtRule
      <4>. QED
        BY <4>1, Decided
    <3>6. op = "AND"
      BY <2>3 DEF op
    <3>7. b.major = TOKEN_TEST_AND /\ major # TOKEN_TEST_OR
      BY <3>3, <3>5 DEF TOKEN_TEST_AND, TOKEN_TEST_OR
    <3>8. /\ Covered(heap, a, q, 1, text, i, k) /\ Covered(heap, b, a.state, 17, text, k + 1, m)
          /\ Covered(heap, c, 3, major, text, m + 1, Taken)
      BY <2>1, <3>2, <3>3
    <3>9. IsNew(heap, heap', e.node, "AND", a.node, c.node)
      BY <2>2, <3>6
    <3>10. e.major = 20 /\ c.node # 0 /\ Covered(heap, c, 3, major, text, m + 1, Taken)
      BY <1>8, <2>1, <3>8
    <3>11. /\ i \in 1..Len(text) /\ k \in 1..Len(text) /\ m \in 1..Len(text) /\ Taken \in 1..Len(text)
           /\ Len(text) \in Nat
      BY <1>4, <2>1
    <3>12. Memory(heap) /\ Memory(heap') /\ Keeps(heap, heap')
      BY <1>4, <1>11
    <3>13. a.major = 17 /\ c.major = 17
      BY <3>2, <3>4
    <3>. QED
      BY <3>4, <3>7, <3>8, <3>9, <3>10, <3>11, <3>12, <3>13, AndRead
  <2>4. CASE rule = 5
    <3>1. c.state = 22
      BY <1>4, <2>4, HandlesAre
    <3>2. c.major = 17 /\ b.state = 2
      BY <2>1, <3>1, SymbolsAre
    <3>3. b.major = 2 /\ a.state \in {7, 8, 9}
      BY <2>1, <3>2, SymbolsAre
    <3>4. a.major = 17 /\ q \in {0, 1, 3}
      BY <2>1, <3>3, SymbolsAre
    <3>6. op = "OR"
      <4>1. rule # 4
        BY <2>4
      <4>. QED
        BY <4>1 DEF op
    <3>7. b.major = TOKEN_TEST_OR
      BY <3>3 DEF TOKEN_TEST_OR
    <3>8. /\ Covered(heap, a, q, 2, text, i, k) /\ Covered(heap, b, a.state, 17, text, k + 1, m)
          /\ Covered(heap, c, 2, major, text, m + 1, Taken)
      BY <2>1, <3>2, <3>3
    <3>9. IsNew(heap, heap', e.node, "OR", a.node, c.node)
      BY <2>2, <3>6
    <3>10. e.major = 20 /\ c.node # 0 /\ Covered(heap, c, 2, major, text, m + 1, Taken)
      BY <1>8, <2>1, <3>8
    <3>11. /\ i \in 1..Len(text) /\ k \in 1..Len(text) /\ m \in 1..Len(text) /\ Taken \in 1..Len(text)
           /\ Len(text) \in Nat
      BY <1>4, <2>1
    <3>12. Memory(heap) /\ Memory(heap') /\ Keeps(heap, heap')
      BY <1>4, <1>11
    <3>13. a.major = 17 /\ c.major = 17
      BY <3>2, <3>4
    <3>. QED
      BY <3>4, <3>7, <3>8, <3>9, <3>10, <3>11, <3>12, <3>13, OrRead
  <2>. QED
    BY <2>3, <2>4
<1>. QED
  BY <1>0, <1>1, <1>4, <1>5, <1>6, <1>11, <1>12, ThreeReads

(* expr ::= LPAREN expr RPAREN                                              *)
LEMMA BracketsReads ==
    ASSUME Owned, Owned', Written, Clean, Reads, BracketsBy
    PROVE  Reads'
<1>. DEFINE n == Len(yystack)
            a == yystack[n - 2]
            b == yystack[n - 1]
            c == yystack[n]
            none == ""
            h == stnode_set_bracket(heap, b.node)
<1>0. 19 \in 2..19 /\ 17 \in 16..21 /\ 0..3 \in {0..3, 0..4}
  OBVIOUS
<1>1. none \in Ops
  BY DEF Ops
<1>2. Reducing(19)
  BY DEF BracketsBy
<1>3. PICK ends : RuleFound(19, ends)
  BY <1>0, <1>2, Found
<1>4. /\ AtRule(19, ends) /\ Memory(heap) /\ Memory(heap') /\ Viable(yystack) /\ yystack # << >> /\ n \in Nat
      /\ c.state = Handle[19 + 1] /\ Rhs(0) = c /\ Rhs(1) = b /\ Rhs(2) = a /\ Len(text) \in Nat
  BY <1>3 DEF RuleFound
<1>5. heap' = stnode_free(stnode_free(h, a.node), c.node) /\ Becomes(19, b.node, none)
  BY <1>4 DEF BracketsBy
<1>6. Fits(yystack, 19, 0..3, 17, 3) /\ b.node # 0
  BY <1>0, <1>4, Rules
<1>7. Three(yystack, 0..3)
  BY <1>6 DEF Fits
<1>8. /\ a.node \in Nat /\ b.node \in Nat /\ c.node \in Nat /\ a.node # c.node /\ a.node # b.node
      /\ a.node \in Roots /\ b.node \in Roots /\ c.node \in Roots
  <2>1. OnStack \subseteq Roots
    BY DEF Roots
  <2>2. /\ a.node \in Nat /\ b.node \in Nat /\ c.node \in Nat /\ a.node # 0 /\ c.node # 0
        /\ a.node # c.node /\ a.node # b.node
    BY <1>4, <1>7, TopThree DEF StackSound, Owned
  <2>3. n - 2 \in 1..n /\ n - 1 \in 1..n /\ n \in 1..n
    BY <1>4, <1>7 DEF Three
  <2>4. a.node \in OnStack /\ b.node \in OnStack /\ c.node \in OnStack
    BY <1>6, <2>2, <2>3 DEF OnStack, StackNodes
  <2>. QED
    BY <2>1, <2>2, <2>4
<1>. HIDE DEF a, b, c, none
<1>9. Keeps(heap, heap')
  <2>1. Held(heap, Roots)
    BY DEF Owned, NodesHeld
  <2>2. Keeps(heap, h)
    BY <1>4, BracketsKept
  <2>3. Held(h, Roots)
    BY <1>8, <2>1, SetBracket DEF Hands
  <2>. HIDE DEF h
  <2>4. Memory(h)
    BY <2>3 DEF Held
  <2>5. Keeps(heap, stnode_free(h, a.node))
    BY <1>4, <2>2, <2>4, KeepsFreed
  <2>6. Memory(stnode_free(h, a.node))
    <3>1. a.node \in Roots \cup {0}
      BY <1>8
    <3>2. Hands(h, Roots, stnode_free(h, a.node), Roots \ {a.node})
      BY <2>3, <3>1, FreeRoot
    <3>. QED
      BY <3>2 DEF Hands, Held
  <2>. QED
    BY <1>4, <1>5, <2>5, <2>6, KeepsFreed
<1>10. Joins(major, 17, b.node, none)
  <2>1. SUFFICES ASSUME NEW e, NEW q, NEW i, NEW k, NEW m, e.major = 17, e.node = b.node,
               i \in 1..Len(text), k \in 1..Len(text), m \in 1..Len(text), Taken \in 1..Len(text),
               Covered(heap, a, q, b.major, text, i, k),
               Covered(heap, b, a.state, c.major, text, k + 1, m),
               Covered(heap, c, b.state, major, text, m + 1, Taken),
               Enters(q, a.state, a.major), Enters(a.state, b.state, b.major), Enters(b.state, c.state, c.major)
             PROVE  Covered(heap', e, q, major, text, i, Taken)
    BY DEF Joins, a, b, c
  <2>2. c.state = 10
    BY <1>4, HandlesAre
  <2>3. c.major = 14 /\ b.state = 7
    BY <2>1, <2>2, SymbolsAre
  <2>4. b.major = 17 /\ a.state = 1
    BY <2>1, <2>3, SymbolsAre
  <2>5. a.major = 13
    BY <2>1, <2>4, SymbolsAre
  <2>6. a.major = TOKEN_LPAREN /\ c.major = TOKEN_RPAREN
    BY <2>3, <2>5 DEF TOKEN_LPAREN, TOKEN_RPAREN
  <2>7. Covered(heap, a, q, 17, text, i, k) /\ Covered(heap, b, a.state, 14, text, k + 1, m)
    BY <2>1, <2>3, <2>4
  <2>. QED
    BY <1>4, <1>9, <2>1, <2>4, <2>6, <2>7, BracketsRead
<1>. QED
  BY <1>0, <1>1, <1>4, <1>5, <1>6, <1>8, <1>9, <1>10, ThreeReads

(* relation_test ::= entity rel_op2 entity | entity rel_op2 relation_test   *)
LEMMA RelationReads ==
    ASSUME Owned, Owned', Written, Clean, Reads, RelationBy \/ ChainBy
    PROVE  Reads'
<1>. DEFINE n == Len(yystack)
            a == yystack[n - 2]
            b == yystack[n - 1]
            c == yystack[n]
            none == ""
            L == Fresh(heap)
            and == "AND"
<1>1. PICK rule \in {11, 12} : Reducing(rule) /\ (rule = 11 => RelationBy) /\ (rule = 12 => ChainBy)
  <2>1. (RelationBy => Reducing(11)) /\ (ChainBy => Reducing(12))
    BY DEF RelationBy, ChainBy
  <2>2. 11 \in {11, 12} /\ 12 \in {11, 12} /\ 11 # 12
    OBVIOUS
  <2>. QED
    BY <2>1, <2>2
<1>2. rule \in 2..19 /\ 19 \in 16..21 /\ 0..4 \in {0..3, 0..4}
  OBVIOUS
<1>3. none \in Ops
  BY DEF Ops
<1>4. PICK ends : RuleFound(rule, ends)
  BY <1>1, <1>2, Found
<1>5. /\ AtRule(rule, ends) /\ Memory(heap) /\ Memory(heap') /\ Viable(yystack) /\ yystack # << >> /\ n \in Nat
      /\ c.state = Handle[rule + 1] /\ Rhs(0) = c /\ Rhs(1) = b /\ Rhs(2) = a /\ Len(text) \in Nat
  BY <1>4 DEF RuleFound
<1>6. Fits(yystack, rule, 0..4, 19, 3)
  BY <1>2, <1>5, Rules
<1>7. Three(yystack, 0..4)
  BY <1>6 DEF Fits
<1>8. a.node \in Nat /\ c.node \in Nat /\ c.node # 0 /\ b.op \in Ops
  <2>1. n - 1 \in 1..n
    BY <1>7 DEF Three
  <2>2. b.op \in Ops
    BY <1>5, <2>1, EntryIs
  <2>3. a.node \in Nat /\ c.node \in Nat /\ c.node # 0
    BY <1>5, <1>7, TopThree DEF StackSound, Owned
  <2>. QED
    BY <2>2, <2>3
<1>9. NumbersIn(heap')
  BY <1>5, NumbersThere
<1>. HIDE DEF a, b, c, none, and
<1>10. CASE rule = 11
  <2>1. heap' = new_test(heap, b.op, a.node, c.node) /\ Becomes(rule, L, none)
    BY <1>1, <1>5, <1>10 DEF RelationBy, none
  <2>2. IsNew(heap, heap', L, b.op, a.node, c.node)
    BY <1>5, <1>8, <2>1, NewTestIs
  <2>3. Keeps(heap, heap') /\ L \in Nat
    BY <1>5, <2>2 DEF IsNew, Fresh, Memory
  <2>. HIDE DEF L
  <2>4. c.state = 5
    BY <1>5, <1>10, HandlesAre
  <2>5. major \notin 3..8
    <3>1. major \in 0..14 /\ yy_find_shift_action(5, major) = 36
      BY <1>5, <1>10, <2>4 DEF AtRule
    <3>. QED
      BY <3>1, Decided
  <2>6. Joins(major, 19, L, none)
    <3>1. SUFFICES ASSUME NEW e, NEW q, NEW i, NEW k, NEW m, e.major = 19, e.node = L,
                 i \in 1..Len(text), k \in 1..Len(text), m \in 1..Len(text), Taken \in 1..Len(text),
                 Covered(heap, a, q, b.major, text, i, k),
                 Covered(heap, b, a.state, c.major, text, k + 1, m),
                 Covered(heap, c, b.state, major, text, m + 1, Taken),
                 Enters(q, a.state, a.major), Enters(a.state, b.state, b.major), Enters(b.state, c.state, c.major)
               PROVE  Covered(heap', e, q, major, text, i, Taken)
      BY DEF Joins, a, b, c
    <3>2. c.major = 18 /\ b.state = 4
      BY <2>4, <3>1, SymbolsAre
    <3>3. b.major = 21 /\ a.state \in {5, 6}
      BY <3>1, <3>2, SymbolsAre
    <3>4. a.major = 18
      BY <3>1, <3>3, SymbolsAre
    <3>5. Covered(heap, a, q, 21, text, i, k) /\ Covered(heap, b, a.state, 18, text, k + 1, m)
      BY <3>1, <3>2, <3>3
    <3>6. IsNew(heap, heap', e.node, b.op, a.node, c.node)
      BY <2>2, <3>1
    <3>. QED
      BY <1>5, <1>8, <1>9, <2>5, <3>1, <3>2, <3>3, <3>4, <3>5, <3>6, RelationRead
  <2>. QED
    BY <1>2, <1>3, <1>5, <1>6, <2>1, <2>3, <2>6, ThreeReads
<1>11. CASE rule = 12
  <2>. DEFINE R == Len(heap'.node)
  <2>1. heap' = Chain(heap, b.op, a.node, c.node) /\ Becomes(rule, R, none)
    BY <1>1, <1>5, <1>11 DEF ChainBy, none
  <2>2. c.node \in 1..Size(heap)
    <3>1. n \in 1..n
      BY <1>5, <1>7 DEF Three
    <3>2. c.node \in OnStack
      BY <1>8, <3>1 DEF OnStack, StackNodes, c
    <3>3. c.node \in heap.live
      BY <3>2 DEF Owned, NodesHeld, Held, Roots
    <3>. QED
      BY <1>5, <3>3 DEF Memory
  <2>. DEFINE leaf == Leftmost(heap, c.node)
  <2>3. leaf \in 1..Size(heap)
    BY <1>5, <2>2, LeftmostKept, KeepsSelf
  <2>. HIDE DEF leaf
  <2>4. /\ Keeps(heap, heap') /\ L + 1 \in 1..Size(heap') /\ Alike(heap.node[leaf], heap'.node[L + 1])
        /\ IsNew(heap, heap', R, "AND", L, c.node) /\ IsNew(heap, heap', L, b.op, a.node, L + 1)
    BY <1>5, <1>8, <2>1, <2>2, <2>3, ChainNodes DEF leaf
  <2>5. R \in Nat
    BY <1>5 DEF Memory
  <2>. HIDE DEF L, R
  <2>6. c.state = 11
    BY <1>5, <1>11, HandlesAre
  <2>7. Joins(major, 19, R, none)
    <3>1. SUFFICES ASSUME NEW e, NEW q, NEW i, NEW k, NEW m, e.major = 19, e.node = R,
                 i \in 1..Len(text), k \in 1..Len(text), m \in 1..Len(text), Taken \in 1..Len(text),
                 Covered(heap, a, q, b.major, text, i, k),
                 Covered(heap, b, a.state, c.major, text, k + 1, m),
                 Covered(heap, c, b.state, major, text, m + 1, Taken),
                 Enters(q, a.state, a.major), Enters(a.state, b.state, b.major), Enters(b.state, c.state, c.major)
               PROVE  Covered(heap', e, q, major, text, i, Taken)
      BY DEF Joins, a, b, c
    <3>2. c.major = 19 /\ b.state = 4
      BY <2>6, <3>1, SymbolsAre
    <3>3. b.major = 21 /\ a.state \in {5, 6}
      BY <3>1, <3>2, SymbolsAre
    <3>4. a.major = 18
      BY <3>1, <3>3, SymbolsAre
    <3>5. Covered(heap, a, q, 21, text, i, k) /\ Covered(heap, b, a.state, 19, text, k + 1, m)
      BY <3>1, <3>2, <3>3
    <3>6. IsNew(heap, heap', e.node, "AND", L, c.node)
      BY <2>4, <3>1
    <3>7. Alike(heap.node[Leftmost(heap, c.node)], heap'.node[L + 1])
      BY <2>4 DEF leaf
    <3>. QED
      BY <1>5, <1>8, <1>9, <2>4, <3>1, <3>2, <3>3, <3>4, <3>5, <3>6, <3>7, ChainRead
  <2>. QED
    BY <1>2, <1>3, <1>5, <1>6, <2>1, <2>4, <2>5, <2>7, ThreeReads
<1>. QED
  BY <1>1, <1>10, <1>11

----------------------------------------------------------------------------
(***************************************************************************)
(* The other steps of the parser.  Freeing leaves what the nodes say.      *)
(***************************************************************************)
LEMMA FreedHeap ==
    ASSUME NEW h \in Heaps, NEW n
    PROVE  stnode_free(h, n) \in Heaps /\ stnode_free(h, n).node = h.node
<1>. DEFINE S == Subtree(h, n)
            b == h.ok /\ S \subseteq h.live
            l == h.live \ S
<1>1. b \in BOOLEAN /\ l \in SUBSET Nat
  BY DEF Heaps
<1>2. stnode_free(h, n) = [h EXCEPT !.live = l, !.ok = b]
  BY DEF stnode_free
<1>. HIDE DEF b, l
<1>. QED
  BY <1>1, <1>2 DEF Heaps

LEMMA PoppedNodes ==
    ASSUME NEW h, Memory(h), NEW s, NEW n \in Nat, DOMAIN s = 1..n
    PROVE  PopAll(h, s).node = h.node
<1>. DEFINE X == {g \in Heaps : g.node = h.node}
            f == CHOOSE f : Pops(f, h, s, n)
<1>1. PopAll(h, s) = f[1..n]
  BY PopAllIs
<1>2. Pops(f, h, s, n)
  BY PopsExist
<1>. HIDE DEF f
<1>3. f[{}] = h /\ \A I \in SUBSET (1..n) : I # {} => f[I] = Release(f[I \ {Max(I)}], s[Max(I)])
  BY <1>2 DEF Pops
<1>4. h \in X
  BY DEF Memory, Heaps
<1>5. ASSUME NEW g \in X, NEW e PROVE Release(g, e) \in X
  BY FreedHeap DEF Release
<1>. HIDE DEF X
<1>6. \A I \in SUBSET (1..n) : I # {} /\ f[I \ {Max(I)}] \in X => f[I] \in X
  BY <1>3, <1>5
<1>7. \A I \in SUBSET (1..n) : f[I] \in X
  BY <1>3, <1>4, <1>6, ByGreatest
<1>8. f[1..n] \in X
  BY <1>7
<1>. QED
  BY <1>1, <1>8 DEF X

LEMMA AppendedText ==
    ASSUME Written, NEW t \in Token
    PROVE  /\ Append(text, t) \in Seq(Token) /\ Extends(text, Append(text, t))
           /\ Len(Append(text, t)) = Len(text) + 1 /\ Append(text, t)[Len(text) + 1] = t
           /\ Append(text, t) # << >> /\ Len(text) \in Nat
<1>1. text \in Seq(Token) /\ Len(text) \in Nat
  BY DEF Written
<1>2. /\ Append(text, t) \in Seq(Token) /\ Len(Append(text, t)) = Len(text) + 1
      /\ Append(text, t)[Len(text) + 1] = t /\ \A k \in 1..Len(text) : Append(text, t)[k] = text[k]
  BY <1>1, AppendProperties
<1>3. Append(text, t) # << >>
  BY <1>1
<1>. HIDE DEF Token
<1>4. Extends(text, Append(text, t))
  BY <1>1, <1>2 DEF Extends
<1>. QED
  BY <1>1, <1>2, <1>3, <1>4

(* A token that is read gets a node that says what it is.                   *)
LEMMA NewKeeps ==
    ASSUME NEW h \in Heaps
    PROVE  /\ Keeps(h, stnode_new(h)) /\ stnode_new(h) \in Heaps /\ Fresh(h) \in 1..Size(stnode_new(h))
           /\ Size(h) \in Nat /\ Fresh(h) = Size(h) + 1 /\ Size(stnode_new(h)) = Size(h) + 1
<1>. DEFINE c == Leaf("UNINITIALIZED", "", 0)
<1>1. c \in stnode_t
  <2>1. "" \in Texts /\ 0 \in Values
    BY DEF Texts, Values
  <2>. QED
    BY <2>1 DEF Leaf, stnode_t, Types, Ops
<1>2. stnode_new(h) = Add(h, c)
  BY DEF stnode_new
<1>. HIDE DEF c
<1>3. /\ Add(h, c) \in Heaps /\ Size(Add(h, c)) = Size(h) + 1 /\ Fresh(h) = Size(h) + 1 /\ Size(h) \in Nat
      /\ \A n \in 1..Size(h) : Add(h, c).node[n] = h.node[n]
  BY <1>1, AddedHeap, AddedNodes
<1>4. Keeps(h, Add(h, c))
  BY <1>3 DEF Keeps, Alike
<1>. QED
  BY <1>2, <1>3, <1>4

LEMMA InitIs ==
    ASSUME NEW h \in Heaps, NEW type, NEW x, NEW v, NEW g, g = stnode_init(stnode_new(h), Fresh(h), type, x, v)
    PROVE  /\ Keeps(h, g) /\ Fresh(h) \in 1..Size(g)
           /\ g.node[Fresh(h)].type = type /\ g.node[Fresh(h)].text = x /\ g.node[Fresh(h)].value = v
<1>. DEFINE k == stnode_new(h)
            c == Leaf(type, x, v)
            F == Fresh(h)
            m == [k EXCEPT !.node[F] = c]
            N == Size(h)
<1>1. /\ Keeps(h, k) /\ k \in Heaps /\ F \in 1..Size(k) /\ N \in Nat /\ F = N + 1 /\ Size(k) = N + 1
  BY NewKeeps
<1>2. c.type = type /\ c.text = x /\ c.value = v
  BY DEF Leaf
<1>. HIDE DEF c, k, F
<1>3. g = Used(m, F)
  BY DEF stnode_init, c, k, F
<1>4. m.node = [k.node EXCEPT ![F] = c] /\ m = [k EXCEPT !.node = [k.node EXCEPT ![F] = c]]
  BY <1>1 DEF Heaps
<1>. HIDE DEF m
<1>5. g.node = m.node
  BY <1>1, <1>3, <1>4 DEF Used, Heaps
<1>6. Len(k.node) = N + 1 /\ DOMAIN k.node = 1..(N + 1) /\ k.node \in Seq(stnode_t)
  BY <1>1 DEF Heaps, Size
<1>. HIDE DEF N
<1>7. g.node[F] = c /\ \A i \in 1..(N + 1) : i # F => g.node[i] = k.node[i]
  BY <1>1, <1>4, <1>5, <1>6
<1>8. Size(g) = N + 1
  <2>1. DOMAIN g.node = 1..(N + 1)
    BY <1>4, <1>5, <1>6
  <2>2. Len(g.node) = N + 1
    <3>1. g.node = [i \in 1..(N + 1) |-> g.node[i]]
      BY <1>4, <1>5, <1>6
    <3>. QED
      BY <1>1, <3>1
  <2>. QED
    BY <2>2 DEF Size
<1>9. Keeps(h, g)
  <2>1. ASSUME NEW i \in 1..N PROVE Alike(h.node[i], g.node[i])
    <3>1. i \in 1..(N + 1) /\ i # F
      BY <1>1
    <3>2. Alike(h.node[i], k.node[i])
      BY <1>1 DEF Keeps, N
    <3>. QED
      BY <1>7, <3>1, <3>2
  <2>. QED
    BY <1>1, <1>8, <2>1 DEF Keeps, N
<1>. QED
  BY <1>1, <1>2, <1>7, <1>8, <1>9 DEF F

LEMMA TokenRead ==
    ASSUME Memory(heap), NEW t \in Token, NodeMade(t)
    PROVE  /\ Keeps(heap, heap')
           /\ t.major \in 10..12 /\ Memory(heap') => IsEntityNode(heap', Fresh(heap), t)
<1>1. heap \in Heaps
  BY DEF Memory, Heaps
<1>2. CASE t.major \in {TOKEN_UNPARSED, TOKEN_STRING, TOKEN_INTEGER}
  <2>1. heap' = stnode_init(stnode_new(heap), Fresh(heap), NodeType(t), t.text, t.value)
    BY <1>2 DEF NodeMade
  <2>2. /\ Keeps(heap, heap') /\ Fresh(heap) \in 1..Size(heap')
        /\ heap'.node[Fresh(heap)].type = NodeType(t) /\ heap'.node[Fresh(heap)].text = t.text
        /\ heap'.node[Fresh(heap)].value = t.value
    BY <1>1, <2>1, InitIs
  <2>3. <<NodeType(t), t.text, t.value>> = Reference!Entity(t) /\ NodeType(t) # "TEST"
    <3>1. IF t.major = TOKEN_INTEGER THEN t.text = "" ELSE t.value = 0
      BY GrammarAssumption
    <3>2. TOKEN_UNPARSED = 11 /\ TOKEN_STRING = 10 /\ TOKEN_INTEGER = 12
      BY DEF TOKEN_UNPARSED, TOKEN_STRING, TOKEN_INTEGER
    <3>3. CASE t.major = TOKEN_INTEGER
      <4>0. t.text = ""
        BY <3>1, <3>3
      <4>1. t.major # TOKEN_UNPARSED /\ t.major # TOKEN_STRING
        BY <3>2, <3>3
      <4>2. NodeType(t) = "INTEGER"
        BY <3>3, <4>1 DEF NodeType
      <4>3. Reference!Entity(t) = <<"INTEGER", "", t.value>>
        BY <3>3, <4>1 DEF Reference!Entity
      <4>. QED
        BY <4>0, <4>2, <4>3
    <3>4. CASE t.major = TOKEN_UNPARSED
      <4>1. t.major # TOKEN_INTEGER /\ t.major # TOKEN_STRING /\ t.value = 0
        BY <3>1, <3>2, <3>4
      <4>2. NodeType(t) = IF t.text \in Field THEN "FIELD" ELSE "STRING"
        BY <3>4, <4>1 DEF NodeType
      <4>3. Reference!Entity(t) = IF t.text \in Field THEN <<"FIELD", t.text, 0>> ELSE <<"STRING", t.text, 0>>
        BY <3>4, <4>1 DEF Reference!Entity
      <4>. QED
        BY <4>1, <4>2, <4>3
    <3>5. CASE t.major = TOKEN_STRING
      <4>1. t.major # TOKEN_INTEGER /\ t.major # TOKEN_UNPARSED /\ t.value = 0
        BY <3>1, <3>2, <3>5
      <4>2. NodeType(t) = "STRING"
        BY <3>5, <4>1 DEF NodeType
      <4>3. Reference!Entity(t) = <<"STRING", t.text, 0>>
        BY <3>5, <4>1 DEF Reference!Entity
      <4>. QED
        BY <4>1, <4>2, <4>3
    <3>. QED
      BY <1>2, <3>3, <3>4, <3>5
  <2>4. IsEntityNode(heap', Fresh(heap), t)
    BY <2>2, <2>3 DEF IsEntityNode, IsTest
  <2>. QED
    BY <2>2, <2>4
<1>3. CASE t.major \notin {TOKEN_UNPARSED, TOKEN_STRING, TOKEN_INTEGER}
  <2>1. heap' = stnode_new(heap)
    BY <1>3 DEF NodeMade
  <2>2. t.major \notin 10..12
    BY <1>3 DEF TOKEN_UNPARSED, TOKEN_STRING, TOKEN_INTEGER
  <2>. QED
    BY <1>1, <2>1, <2>2, NewKeeps
<1>. QED
  BY <1>2, <1>3

(* The stack, empty or not, when Tfilter is called with the next token.     *)
LEMMA BottomSpans ==
    ASSUME NEW h, NEW s, NEW next
    PROVE  \E ends : Spans(h, <<Bottom>>, s, next, 0, ends)
<1>. DEFINE ends == [p \in 1..1 |-> 0]
<1>1. Len(<<Bottom>>) = 1 /\ ends \in [1..1 -> 0..0] /\ ends[1] = 0
  OBVIOUS
<1>2. 2..1 = {}
  OBVIOUS
<1>. HIDE DEF ends
<1>3. Spans(h, <<Bottom>>, s, next, 0, ends)
  BY <1>1, <1>2 DEF Spans
<1>. QED
  BY <1>3

(* m is the code of the token that comes next, or 0.                        *)
Arrives(m, node) ==
    /\ Extends(text, text')
    /\ m = 0 => text' = text
    /\ m # 0 => /\ Len(text') = Len(text) + 1 /\ text' # << >> /\ text'[Len(text')].major = m
                /\ m \in 10..12 => IsEntityNode(heap', node, text'[Len(text')])

LEMMA NextToken ==
    ASSUME Owned, Owned', Written, Clean, Reads, pc = "lex", NEW m \in 0..14, NEW node, Tfilter(m, node),
           Keeps(heap, heap'), Arrives(m, node)
    PROVE  Reads'
<1>1. Memory(heap) /\ Memory(heap') /\ Viable(yystack)
  BY DEF Owned, NodesHeld, Held, StackSound
<1>2. /\ major' = m /\ minor' = node /\ pc' = "parse"
      /\ yystack' = IF yystack = << >> THEN <<Bottom>> ELSE yystack
      /\ yyerrcnt' = IF yystack = << >> THEN -1 ELSE yyerrcnt
  BY DEF Tfilter
<1>3. /\ yyerrcnt <= 0
      /\ yystack = << >> => text = << >>
      /\ yystack # << >> => (\E ends : Spans(heap, yystack, text, major, Taken, ends)) /\ Last(yystack).major \in 0..14
  BY DEF Reads
<1>4. Len(text) \in Nat /\ Extends(text, text')
  BY WrittenIs DEF Arrives
<1>5. Taken = Len(text)
  BY DEF Taken
<1>6. Taken' = Len(text)
  <2>1. m # 0 => Len(text') - 1 = Len(text)
    BY <1>4 DEF Arrives
  <2>2. m = 0 => Len(text') = Len(text)
    BY DEF Arrives
  <2>3. Taken' = IF m # 0 THEN Len(text') - 1 ELSE Len(text')
    BY <1>2 DEF Taken
  <2>. QED
    BY <2>1, <2>2, <2>3
<1>7. TokenAtHand'
  BY <1>2 DEF TokenAtHand, Arrives
<1>8. yystack' # << >> /\ \E ends : Spans(heap', yystack', text', major', Taken', ends)
  <2>1. CASE yystack = << >>
    <3>1. Len(text) = 0
      BY <1>3, <2>1
    <3>2. yystack' = <<Bottom>> /\ Taken' = 0
      BY <1>2, <1>6, <2>1, <3>1
    <3>3. <<Bottom>> # << >>
      OBVIOUS
    <3>. QED
      BY <3>2, <3>3, BottomSpans
  <2>2. CASE yystack # << >>
    <3>1. PICK ends : Spans(heap, yystack, text, major, Taken, ends)
      BY <1>3, <2>2
    <3>2. yystack[Len(yystack)].major \notin Expressions
      <4>1. Last(yystack).major \in 0..14
        BY <1>3, <2>2
      <4>2. Last(yystack) = yystack[Len(yystack)]
        BY DEF Last
      <4>3. \A x \in 0..14 : x \notin Expressions
        BY DEF Expressions
      <4>. QED
        BY <4>1, <4>2, <4>3
    <3>3. Len(yystack) \in Nat
      BY <1>1 DEF Viable
    <3>4. Taken \in 0..Len(text)
      BY <1>4, <1>5
    <3>5. Spans(heap', yystack, text', m, Taken, ends)
      BY <1>1, <1>4, <3>1, <3>2, <3>3, <3>4, SpansKept
    <3>. QED
      BY <1>2, <1>5, <1>6, <2>2, <3>5
  <2>. QED
    BY <2>1, <2>2
<1>9. yyerrcnt' <= 0
  BY <1>2, <1>3
<1>. QED
  BY <1>2, <1>7, <1>8, <1>9 DEF Reads

LEMMA EndReads ==
    ASSUME Owned, Owned', Written, Clean, Reads, pc = "lex", EndOfText, text' = text
    PROVE  Reads'
<1>1. Memory(heap) /\ Len(text) \in Nat
  BY WrittenIs DEF Owned, NodesHeld, Held
<1>2. Tfilter(0, 0) /\ heap' = stnode_free(stnode_new(heap), Fresh(heap))
  BY DEF EndOfText
<1>3. Keeps(heap, heap')
  <2>1. Keeps(heap, stnode_new(heap)) /\ stnode_new(heap) \in Heaps
    <3>1. heap \in Heaps
      BY <1>1 DEF Memory, Heaps
    <3>. QED
      BY <3>1, NewKeeps
  <2>2. heap'.node = stnode_new(heap).node
    BY <1>2, <2>1, FreedHeap
  <2>. QED
    BY <2>1, <2>2, KeepsNodes
<1>4. Arrives(0, 0)
  BY <1>1 DEF Arrives, Extends
<1>. QED
  BY <1>2, <1>3, <1>4, NextToken

LEMMA ScannedReads ==
    ASSUME Owned, Owned', Written, Clean, Reads, pc = "lex", NEW t \in Token, text' = Append(text, t), Scanned(t)
    PROVE  Reads'
<1>1. Memory(heap) /\ Memory(heap')
  BY DEF Owned, NodesHeld, Held
<1>2. NodeMade(t) /\ Tfilter(t.major, Fresh(heap)) /\ ~Fails(t)
  BY DEF Scanned, NodeMade
<1>3. t.major \in 1..14
  <2>1. t.major \in ({-1} \cup 1..14) \ {TOKEN_FIELD}
    BY GrammarAssumption
  <2>2. t.major # -1
    BY <1>2 DEF Fails
  <2>. QED
    BY <2>1, <2>2
<1>4. Keeps(heap, heap') /\ (t.major \in 10..12 => IsEntityNode(heap', Fresh(heap), t))
  BY <1>1, <1>2, TokenRead
<1>5. /\ Extends(text, text') /\ Len(text') = Len(text) + 1 /\ text'[Len(text) + 1] = t /\ text' # << >>
  BY AppendedText
<1>6. Arrives(t.major, Fresh(heap))
  BY <1>3, <1>4, <1>5 DEF Arrives
<1>7. t.major \in 0..14
  BY <1>3
<1>. QED
  BY <1>2, <1>4, <1>6, <1>7, NextToken

(* A token is pushed.                                                       *)
LEMMA ShiftReads ==
    ASSUME Owned, Owned', Flags, Clean, Reads, Shift, overflowed' = overflowed
    PROVE  Reads'
<1>. DEFINE none == ""
            lex == "lex"
            a == Act
            q == Last(yystack).state
            n == Len(yystack)
            e == [state |-> a, major |-> major, node |-> minor, op |-> none]
<1>0. Written /\ yyerrcnt \in Int
  BY DEF Flags, Written
<1>1. StackSound /\ PlaceSound /\ NodesHeld /\ Parsing /\ pc = "parse"
  BY DEF Shift, Owned, Parsing
<1>2. Last(yystack) = yystack[n] /\ yystack # << >> /\ q \in 0..24 /\ ActsWell(q, major)
  BY <1>1, AtWork
<1>3. a \in 1..24 /\ major \in 1..14
  <2>1. a = yy_find_shift_action(q, major) /\ a < 25
    BY DEF Shift, Act, YYNSTATE
  <2>2. YY_ERROR_ACTION = 45
    BY DEF YY_ERROR_ACTION, YYNSTATE, YYNRULE
  <2>. HIDE DEF a, q
  <2>3. a \notin 25..44 /\ a # 45
    BY <2>1
  <2>. QED
    BY <1>2, <2>1, <2>2, <2>3 DEF ActsWell
<1>4. /\ Viable(yystack) /\ yystack \in Seq(Entry) /\ n \in Nat /\ n \in 1..Len(yystack)
      /\ Memory(heap) /\ minor \in Nat
  BY <1>1, AtWork DEF StackSound, Viable, NodesHeld, Held
<1>5. ~Full
  <2>1. Full => overflowed' = TRUE
    BY DEF Shift
  <2>. QED
    BY <2>1 DEF Clean
<1>6. yystack' = Append(yystack, e) /\ heap' = heap
  BY <1>5 DEF Shift
<1>7. /\ yyerrcnt' = yyerrcnt - 1 /\ text' = text /\ major' = major /\ minor' = minor
      /\ pc' = IF major = 0 THEN "finish" ELSE lex
  BY DEF Shift, Return
<1>. HIDE DEF none, lex, a, q, e
<1>8. pc' = lex
  <2>1. major # 0
    BY <1>3
  <2>. QED
    BY <1>7, <2>1
<1>9. /\ yyerrcnt <= 0 /\ TokenAtHand /\ \E ends : Spans(heap, yystack, text, major, Taken, ends)
  BY <1>1, <1>2 DEF Reads
<1>10. e \in Entry /\ e.major = major /\ e.node = minor
  <2>1. none \in Ops
    BY DEF Ops, none
  <2>2. a \in 0..24 /\ major \in 0..21
    BY <1>3
  <2>. QED
    BY <1>4, <2>1, <2>2 DEF Entry, e
<1>. DEFINE all == Len(text)
<1>11. /\ all \in Nat /\ all >= 1 /\ Taken = all - 1 /\ Taken' = all /\ all \in 1..Len(text)
       /\ text[all].major = major
       /\ major \in 10..12 => IsEntityNode(heap, minor, text[all])
  <2>1. major # 0
    BY <1>3
  <2>2. /\ text # << >> /\ text[all].major = major
        /\ major \in 10..12 => IsEntityNode(heap, minor, text[all])
    BY <1>1, <1>9, <2>1 DEF TokenAtHand
  <2>3. all \in Nat
    BY <1>0, WrittenIs
  <2>4. all >= 1
    BY <1>0, <2>2, <2>3 DEF Written
  <2>5. Taken = all - 1
    BY <1>1, <2>1 DEF Taken
  <2>6. Taken' = all
    <3>1. lex # "parse"
      BY DEF lex
    <3>. QED
      BY <1>7, <1>8, <3>1 DEF Taken
  <2>7. all \in 1..Len(text)
    BY <2>3, <2>4
  <2>. QED
    BY <2>2, <2>3, <2>4, <2>5, <2>6, <2>7
<1>12. PICK ends : Spans(heap, yystack, text, major, Taken, ends)
  BY <1>9
<1>13. ends[n] = Taken
  BY <1>12 DEF Spans
<1>14. Covered(heap, e, yystack[n].state, major, text, ends[n] + 1, all)
  <2>1. ends[n] + 1 = all
    BY <1>11, <1>13
  <2>2. e.major \notin {17, 18, 19, 20, 21} /\ e.major = major
    BY <1>3, <1>10
  <2>3. e.node = minor
    BY <1>10
  <2>. HIDE DEF all
  <2>4. Stands(heap, e, text, all, all)
    BY <1>11, <2>2, <2>3 DEF Stands
  <2>5. e.major \notin {17, 19, 20} /\ all <= all
    BY <1>11, <2>2
  <2>. QED
    BY <2>1, <2>4, <2>5 DEF Covered
<1>15. \E fin : Spans(heap, yystack', text, major, all, fin)
  <2>1. SubSeq(yystack, 1, n) = yystack
    BY <1>4, WholeStack
  <2>2. yystack' = Append(SubSeq(yystack, 1, n), e)
    BY <1>6, <2>1
  <2>3. Taken \in 0..Len(text) /\ all \in Taken..Len(text) /\ Len(text) \in Nat
    BY <1>11
  <2>4. yystack[n].major \notin Expressions \/ (n = Len(yystack) /\ e.major = major)
    BY <1>10
  <2>5. yystack \in Seq(Entry) /\ n \in 1..Len(yystack) /\ e \in Entry
    BY <1>4, <1>10
  <2>. HIDE DEF n, all
  <2>. DEFINE pushed == yystack'
  <2>6. pushed = Append(SubSeq(yystack, 1, n), e)
    BY <2>2
  <2>. HIDE DEF pushed
  <2>7. \E fin : Spans(heap, pushed, text, major, all, fin)
    BY <1>12, <1>14, <2>3, <2>4, <2>5, <2>6, SpansPushed
  <2>. QED
    BY <2>7 DEF pushed
<1>16. Last(yystack').major \in 0..14 /\ yystack' # << >>
  <2>1. Len(Append(yystack, e)) = n + 1 /\ Append(yystack, e)[n + 1] = e
    BY <1>4, <1>10
  <2>2. Len(yystack') = n + 1 /\ Last(yystack') = e
    BY <1>6, <2>1 DEF Last
  <2>. HIDE DEF n
  <2>3. Len(yystack') # 0
    BY <1>4, <2>2
  <2>4. yystack' # << >>
    BY <2>3
  <2>5. e.major \in 0..14
    BY <1>3, <1>10
  <2>. QED
    BY <2>2, <2>4, <2>5
<1>17. TokenAtHand'
  BY <1>7, <1>8 DEF TokenAtHand, lex
<1>18. \E fin : Spans(heap', yystack', text', major', Taken', fin)
  BY <1>6, <1>7, <1>11, <1>15
<1>19. yyerrcnt' <= 0
  BY <1>0, <1>7, <1>9
<1>. QED
  BY <1>16, <1>17, <1>18, <1>19 DEF Reads

LEMMA BottomOnly ==
    ASSUME NEW s, Viable(s), NEW k \in 1..Len(s), s[k].state = 0
    PROVE  k = 1
<1>1. SUFFICES ASSUME k # 1 PROVE FALSE
  OBVIOUS
<1>2. k \in 2..Len(s)
  BY <1>1
<1>3. Enters(s[k - 1].state, s[k].state, s[k].major)
  BY <1>2 DEF Viable
<1>. QED
  BY <1>3 DEF Enters

LEMMA SentenceHasRead ==
    ASSUME Owned, Owned', Flags, Clean, Reads, NEW rule \in {0, 1}, SentenceBy(rule), text' = text
    PROVE  HasRead'
<1>. DEFINE n == Len(yystack)
<1>0. Written
  BY DEF Flags, Written
<1>1. Reducing(rule) /\ StackSound /\ PlaceSound /\ Memory(heap) /\ Memory(heap')
  BY DEF SentenceBy, Owned, NodesHeld, Held
<1>2. Parsing /\ yystack[n].state = Handle[rule + 1] /\ major = 0 /\ pc = "parse"
  BY <1>1, ReducingState DEF Parsing
<1>3. Viable(yystack) /\ yystack # << >> /\ n \in Nat /\ n \in 1..Len(yystack) /\ yystack \in Seq(Entry)
  BY <1>1, <1>2, AtWork DEF StackSound, Viable
<1>4. Len(text) \in Nat /\ Taken = Len(text)
  BY <1>0, <1>2, WrittenIs DEF Taken
<1>5. PICK ends : Spans(heap, yystack, text, 0, Len(text), ends)
  BY <1>2, <1>3, <1>4 DEF Reads
<1>6. ends[1] = 0 /\ ends[n] = Len(text)
  BY <1>5 DEF Spans
<1>7. CASE rule = 1
  <2>1. yystack[n].state = 0
    BY <1>2, <1>7 DEF Handle
  <2>2. n = 1
    BY <1>3, <2>1, BottomOnly
  <2>3. Len(text) = 0
    BY <1>6, <2>2
  <2>4. text = << >>
    BY <1>0, <2>3 DEF Written
  <2>5. stRoot' = 0
    BY <1>7 DEF SentenceBy
  <2>. QED
    BY <2>4, <2>5 DEF HasRead
<1>8. CASE rule = 0
  <2>1. yystack[n].state = 8
    BY <1>2, <1>8 DEF Handle
  <2>2. n \in 2..Len(yystack) /\ n - 1 \in 1..Len(yystack)
        /\ Enters(yystack[n - 1].state, yystack[n].state, yystack[n].major)
    BY <1>3, <2>1, Below
  <2>3. yystack[n].major = 17 /\ yystack[n - 1].state = 0
    BY <2>1, <2>2, SymbolsAre
  <2>4. n - 1 = 1
    BY <1>3, <2>2, <2>3, BottomOnly
  <2>5. Covered(heap, yystack[n], yystack[n - 1].state, After(yystack, 0, n), text, ends[n - 1] + 1, ends[n])
    BY <1>5, <2>2 DEF Spans
  <2>6. ends[n - 1] + 1 = 1
    <3>1. ends[n - 1] = 0
      BY <1>6, <2>4
    <3>. QED
      BY <3>1
  <2>7. 1 <= Len(text) /\ Stands(heap, yystack[n], text, 1, Len(text))
    BY <1>6, <2>5, <2>6 DEF Covered
  <2>8. Means(heap, yystack[n].node, text, 1, Len(text))
    BY <2>3, <2>7 DEF Stands
  <2>9. yystack[n].node \in 1..Size(heap) /\ stRoot' = yystack[n].node
    <3>1. yystack[n].node \in 1..Size(heap)
      BY <2>8 DEF Means
    <3>2. stRoot' = Rhs(0).node
      BY <1>8 DEF SentenceBy
    <3>3. Rhs(0) = yystack[n]
      BY <1>3 DEF Rhs
    <3>. QED
      BY <3>1, <3>2, <3>3
  <2>10. heap'.node = heap.node
    <3>. DEFINE s == SubSeq(yystack, 1, n - 1)
    <3>1. yyRuleInfo[rule + 1][2] = 1
      BY <1>8 DEF yyRuleInfo
    <3>2. heap' = PopAll(heap, s)
      BY <3>1 DEF SentenceBy
    <3>3. s \in Seq(Entry) /\ Len(s) = 1
      <4>1. SubSeq(yystack, 1, 1) \in Seq(Entry) /\ Len(SubSeq(yystack, 1, 1)) = 1
        BY <1>3
      <4>. QED
        BY <2>4, <4>1
    <3>. HIDE DEF s
    <3>4. DOMAIN s = 1..1
      BY <3>3
    <3>. QED
      BY <1>1, <3>2, <3>4, PoppedNodes
  <2>11. Keeps(heap, heap')
    BY <1>1, <2>10, KeepsSelf, KeepsNodes
  <2>12. Extends(text, text) /\ 1 \in 1..Len(text) /\ Len(text) \in 1..Len(text)
    BY <1>4, <2>7 DEF Extends
  <2>13. Means(heap', stRoot', text, 1, Len(text))
    BY <1>1, <2>8, <2>9, <2>11, <2>12, MeansKept
  <2>14. text # << >> /\ stRoot' # 0
    <3>1. Size(heap) \in Nat
      BY <1>1 DEF Memory, Size
    <3>2. text # << >>
      BY <1>4, <2>7
    <3>. QED
      BY <2>9, <3>1, <3>2
  <2>. QED
    BY <2>13, <2>14 DEF HasRead
<1>. QED
  BY <1>7, <1>8

(* The parser leaves the loop with the end of the string, so what it has    *)
(* read no longer matters.                                                  *)
LEMMA SentenceEnds ==
    ASSUME Owned, NEW rule \in {0, 1}, SentenceBy(rule)
    PROVE  pc' = "finish" /\ Reads'
<1>1. Reducing(rule) /\ StackSound /\ PlaceSound
  BY DEF SentenceBy, Owned
<1>2. major = 0
  BY <1>1, ReducingState
<1>3. pc' = "finish"
  BY <1>2 DEF SentenceBy, Return
<1>. QED
  BY <1>3 DEF Reads

----------------------------------------------------------------------------
(***************************************************************************)
(* An error of the parser: the string is no sentence.                      *)
(***************************************************************************)
LEMMA AtHandIs ==
    ASSUME Written, TokenAtHand, pc = "parse"
    PROVE  /\ Len(text) \in Nat /\ Taken \in 0..Len(text)
           /\ major = 0 => Taken = Len(text)
           /\ major # 0 => Len(text) = Taken + 1 /\ text[Taken + 1].major = major /\ text # << >>
<1>1. Len(text) \in Nat /\ Taken \in 0..Len(text)
  BY WrittenIs, TakenIs
<1>2. major = 0 => Taken = Len(text)
  BY DEF Taken
<1>3. major # 0 => Taken = Len(text) - 1 /\ text[Len(text)].major = major /\ text # << >>
  BY DEF Taken, TokenAtHand
<1>4. major # 0 => Len(text) = Taken + 1
  BY <1>1, <1>3
<1>. QED
  BY <1>1, <1>2, <1>3, <1>4

LEMMA BadNext ==
    ASSUME Written, TokenAtHand, pc = "parse", major # 0, Taken \in 1..Len(text),
           ~Follows(text[Taken], text[Taken + 1])
    PROVE  Doomed(text)
<1>1. Taken \in 1..(Len(text) - 1) /\ text # << >>
  BY AtHandIs
<1>. QED
  BY <1>1 DEF Doomed

LEMMA BadEnd ==
    ASSUME Written, TokenAtHand, pc = "parse", major = 0, Taken \in 1..Len(text), ~Ends(text[Taken])
    PROVE  DoomedAtEnd(text)
<1>1. Taken = Len(text) /\ Len(text) \in Nat
  BY AtHandIs
<1>2. text # << >>
  BY <1>1
<1>. QED
  BY <1>1, <1>2 DEF DoomedAtEnd

(* After a token that cannot end a string, and cannot come before the one   *)
(* at hand.                                                                 *)
LEMMA Waiting ==
    ASSUME Written, TokenAtHand, pc = "parse", Taken \in 1..Len(text), NEW m, m = text[Taken].major,
           \/ m \in {1, 2, 13} /\ major \notin {10, 11, 12, 13}
           \/ m \in 3..8 /\ major \notin {10, 11, 12}
    PROVE  Doomed(text) \/ (major = 0 /\ DoomedAtEnd(text))
<1>1. CASE major = 0
  <2>1. ~Ends(text[Taken])
    <3>1. m \notin {10, 11, 12, 14}
      OBVIOUS
    <3>. QED
      BY <3>1, Codes
  <2>. QED
    BY <1>1, <2>1, BadEnd
<1>2. CASE major # 0
  <2>1. text[Taken + 1].major = major
    BY <1>2, AtHandIs
  <2>2. ~Follows(text[Taken], text[Taken + 1])
    <3>1. m \notin {10, 11, 12, 14}
      OBVIOUS
    <3>2. CASE m \in {1, 2, 13}
      <4>1. m \notin 3..8
        BY <3>2
      <4>2. major \notin {10, 11, 12, 13}
        BY <3>2
      <4>. QED
        BY <2>1, <3>1, <4>1, <4>2, FollowIs
    <3>3. CASE m \in 3..8
      <4>1. major \notin {10, 11, 12}
        BY <3>3
      <4>. QED
        BY <2>1, <3>1, <3>3, <4>1, FollowIs
    <3>. QED
      BY <3>2, <3>3
  <2>. QED
    BY <1>2, <2>2, BadNext
<1>. QED
  BY <1>1, <1>2

(* After an expression that is complete.                                    *)
LEMMA AfterExpression ==
    ASSUME Written, TokenAtHand, pc = "parse", Taken \in 1..Len(text), major \notin {0, 1, 2, 14},
           Ends(text[Taken]), Operand(major, text, Taken)
    PROVE  Doomed(text)
<1>1. major # 0
  OBVIOUS
<1>2. text[Taken + 1].major = major
  BY <1>1, AtHandIs
<1>3. text[Taken].major \in {10, 11, 12} => major \notin 3..8
  BY Codes DEF Operand
<1>4. text[Taken].major \in {10, 11, 12, 14}
  BY Codes
<1>5. text[Taken].major \notin 3..8 /\ (text[Taken].major = 14 => text[Taken].major \notin {10, 11, 12})
  BY <1>4
<1>6. major \notin {1, 2, 14}
  OBVIOUS
<1>7. ~Follows(text[Taken], text[Taken + 1])
  BY <1>2, <1>3, <1>4, <1>5, <1>6, FollowIs
<1>. QED
  BY <1>1, <1>7, BadNext

(* An expression above an open bracket, at the end.                         *)
LEMMA OpenBracket ==
    ASSUME Written, NEW i \in 1..Len(text), i - 1 \in 1..Len(text), text[i - 1].major = TOKEN_LPAREN,
           Balanced(text, i, Len(text))
    PROVE  DoomedAtEnd(text)
<1>1. Len(text) \in Nat /\ text # << >>
  <2>1. Len(text) \in Nat
    BY WrittenIs
  <2>2. Len(text) # 0
    BY <2>1
  <2>. QED
    BY <2>1, <2>2
<1>2. Depth(text, i, Len(text)) = 0
  BY DEF Balanced
<1>3. Depth(text, i - 1, i - 1) = 1
  BY DepthIs
<1>4. Depth(text, i - 1, Len(text)) = Depth(text, i - 1, i - 1) + Depth(text, (i - 1) + 1, Len(text))
  BY <1>1, DepthSplit
<1>5. (i - 1) + 1 = i
  OBVIOUS
<1>6. Depth(text, i - 1, Len(text)) > 0
  BY <1>2, <1>3, <1>4, <1>5
<1>. QED
  BY <1>1, <1>6 DEF DoomedAtEnd

(* An expression at the bottom, and a bracket that closes nothing.          *)
LEMMA ClosedTooMuch ==
    ASSUME Written, TokenAtHand, pc = "parse", major = TOKEN_RPAREN, Balanced(text, 1, Taken)
    PROVE  Doomed(text)
<1>1. major # 0
  BY DEF TOKEN_RPAREN
<1>2. /\ Len(text) \in Nat /\ Taken \in 0..Len(text) /\ Len(text) = Taken + 1 /\ text[Taken + 1].major = major
      /\ text # << >>
  BY <1>1, AtHandIs
<1>. DEFINE k == Taken + 1
<1>3. k \in 1..Len(text) /\ k \in Int /\ Taken \in Int
  BY <1>2
<1>4. Depth(text, 1, Taken) = 0
  BY DEF Balanced
<1>5. Depth(text, k, k) = -1
  <2>1. TOKEN_LPAREN # TOKEN_RPAREN
    BY DEF TOKEN_LPAREN, TOKEN_RPAREN
  <2>. QED
    BY <1>2, <1>3, <2>1, DepthIs
<1>6. Depth(text, 1, k) = Depth(text, 1, Taken) + Depth(text, k, k)
  BY <1>2, <1>3, DepthSplit
<1>7. Depth(text, 1, k) < 0
  BY <1>4, <1>5, <1>6
<1>. QED
  BY <1>2, <1>3, <1>7 DEF Doomed

(* Where the parser stands when it finds an error.                          *)
AtError(ends) ==
    /\ Spans(heap, yystack, text, major, Taken, ends)
    /\ Viable(yystack) /\ Len(yystack) \in Nat /\ Len(yystack) \in 1..Len(yystack)
    /\ yystack[Len(yystack)].state \in 0..24 /\ major \in 0..14
    /\ RefusedIn(yystack[Len(yystack)].state, major)
    /\ Written /\ TokenAtHand /\ pc = "parse" /\ Len(text) \in Nat /\ Taken \in 0..Len(text)

LEMMA ErrorFound ==
    ASSUME Owned, Flags, Clean, Reads, pc = "parse", Act = YY_ERROR_ACTION
    PROVE  \E ends : AtError(ends)
<1>0. Written
  BY DEF Flags, Written
<1>1. StackSound /\ PlaceSound /\ Parsing
  BY DEF Owned, Parsing
<1>2. /\ Len(yystack) \in Nat /\ Len(yystack) \in 1..Len(yystack) /\ Last(yystack) = yystack[Len(yystack)]
      /\ yystack # << >> /\ Last(yystack).state \in 0..24
  BY <1>1, AtWork
<1>3. Viable(yystack) /\ major \in 0..14
  BY <1>1 DEF StackSound
<1>4. RefusedIn(Last(yystack).state, major)
  BY <1>2, <1>3, Refused DEF Act
<1>5. TokenAtHand /\ \E ends : Spans(heap, yystack, text, major, Taken, ends)
  BY <1>2 DEF Reads
<1>6. Len(text) \in Nat /\ Taken \in 0..Len(text)
  BY <1>0, <1>5, AtHandIs
<1>7. PICK ends : Spans(heap, yystack, text, major, Taken, ends)
  BY <1>5
<1>8. AtError(ends)
  BY <1>0, <1>2, <1>3, <1>4, <1>5, <1>6, <1>7 DEF AtError
<1>. QED
  BY <1>8

LEMMA ErrorFirst ==
    ASSUME NEW ends, AtError(ends), yystack[Len(yystack)].state = 0
    PROVE  Doomed(text)
<1>1. Len(yystack) = 1
  BY BottomOnly DEF AtError
<1>2. Taken = 0
  BY <1>1 DEF AtError, Spans
<1>3. major \notin {0, 9, 10, 11, 12, 13}
  BY DEF AtError, RefusedIn
<1>4. major # 0
  BY <1>3
<1>5. Len(text) = 1 /\ text[1].major = major /\ text # << >>
  BY <1>2, <1>4, AtHandIs DEF AtError
<1>6. ~Starts(text[1])
  BY <1>3, <1>5, Codes
<1>. QED
  BY <1>5, <1>6 DEF Doomed

(* The symbol on top.                                                       *)
LEMMA TopStands ==
    ASSUME NEW ends, AtError(ends), yystack[Len(yystack)].state # 0
    PROVE  LET n == Len(yystack)
               i == ends[n - 1] + 1
           IN /\ n - 1 \in 1..n /\ n \in 2..n
              /\ Enters(yystack[n - 1].state, yystack[n].state, yystack[n].major)
              /\ i \in 1..Len(text) /\ Taken \in 1..Len(text) /\ i <= Taken
              /\ Covered(heap, yystack[n], yystack[n - 1].state, major, text, i, Taken)
<1>. DEFINE n == Len(yystack)
            i == ends[n - 1] + 1
<1>1. n \in 2..n /\ n - 1 \in 1..n /\ Enters(yystack[n - 1].state, yystack[n].state, yystack[n].major)
  BY Below DEF AtError
<1>2. n \in Nat /\ Len(text) \in Nat /\ Taken \in 0..Len(text) /\ Spans(heap, yystack, text, major, Taken, ends)
  BY DEF AtError
<1>3. /\ ends[n] \in 1..Len(text) /\ i \in 1..Len(text) /\ ends[n - 1] < ends[n] /\ ends[n - 1] \in Nat
      /\ Covered(heap, yystack[n], yystack[n - 1].state, After(yystack, major, n), text, i, ends[n])
  BY <1>1, <1>2, SpansWithin
<1>4. After(yystack, major, n) = major /\ ends[n] = Taken
  BY <1>2 DEF After, Spans
<1>5. i <= Taken
  BY <1>3, <1>4 DEF Covered
<1>. QED
  BY <1>1, <1>3, <1>4, <1>5

LEMMA ErrorWaiting ==
    ASSUME NEW ends, AtError(ends), yystack[Len(yystack)].state \in 1..4
    PROVE  Doomed(text) \/ (major = 0 /\ DoomedAtEnd(text))
<1>. DEFINE n == Len(yystack)
            q == yystack[n].state
            i == ends[n - 1] + 1
<1>0. q # 0 /\ q \in 1..4
  OBVIOUS
<1>1. /\ Enters(yystack[n - 1].state, q, yystack[n].major)
      /\ Taken \in 1..Len(text)
      /\ Covered(heap, yystack[n], yystack[n - 1].state, major, text, i, Taken)
  BY <1>0, TopStands
<1>. HIDE DEF i
<1>2. Stands(heap, yystack[n], text, i, Taken)
  BY <1>1 DEF Covered
<1>3. RefusedIn(q, major) /\ Written /\ TokenAtHand /\ pc = "parse"
  BY DEF AtError
<1>. HIDE DEF q, n
<1>4. CASE q = 4
  <2>1. yystack[n].major = 21
    BY <1>1, <1>4, SymbolsAre
  <2>2. i = Taken /\ Reference!IsComparison(text[i])
    BY <1>2, <2>1 DEF Stands
  <2>3. text[Taken].major \in 3..8
    BY <2>2, Codes
  <2>4. major \notin {10, 11, 12}
    BY <1>3, <1>4 DEF RefusedIn
  <2>. QED
    BY <1>1, <1>3, <2>3, <2>4, Waiting
<1>5. CASE q \in {1, 2, 3}
  <2>1. yystack[n].major \in {1, 2, 13}
    BY <1>1, <1>5, SymbolsAre
  <2>2. i = Taken /\ text[i].major = yystack[n].major
    BY <1>2, <2>1 DEF Stands
  <2>3. text[Taken].major \in {1, 2, 13}
    BY <2>1, <2>2
  <2>4. major \notin {10, 11, 12, 13}
    BY <1>3, <1>5 DEF RefusedIn
  <2>. QED
    BY <1>1, <1>3, <2>3, <2>4, Waiting
<1>. QED
  BY <1>0, <1>4, <1>5

LEMMA ErrorAfterExpression ==
    ASSUME NEW ends, AtError(ends), yystack[Len(yystack)].state \in {7, 8}
    PROVE  Doomed(text) \/ (major = 0 /\ DoomedAtEnd(text))
<1>. DEFINE n == Len(yystack)
            q == yystack[n].state
            i == ends[n - 1] + 1
<1>0. q # 0 /\ q \in {7, 8}
  OBVIOUS
<1>1. /\ n - 1 \in 1..n /\ Enters(yystack[n - 1].state, q, yystack[n].major)
      /\ i \in 1..Len(text) /\ Taken \in 1..Len(text) /\ i <= Taken
      /\ Covered(heap, yystack[n], yystack[n - 1].state, major, text, i, Taken)
  BY <1>0, TopStands
<1>2. /\ RefusedIn(q, major) /\ Written /\ TokenAtHand /\ pc = "parse" /\ Viable(yystack) /\ n \in Nat
      /\ Spans(heap, yystack, text, major, Taken, ends) /\ Len(text) \in Nat /\ Taken \in 0..Len(text)
  BY DEF AtError
<1>3. yystack[n].major = 17
  BY <1>0, <1>1, SymbolsAre
<1>. HIDE DEF q
<1>4. Balanced(text, i, Taken) /\ Operand(major, text, Taken)
  BY <1>1, <1>3 DEF Covered, Stands
<1>5. Ends(text[Taken])
  BY <1>4 DEF Balanced
<1>6. CASE q = 7
  <2>1. yystack[n - 1].state = 1
    BY <1>1, <1>6, SymbolsAre
  <2>2. /\ n - 1 \in 2..n /\ n - 2 \in 1..n
        /\ Enters(yystack[n - 2].state, yystack[n - 1].state, yystack[n - 1].major)
    <3>1. yystack[n - 1].state # 0
      BY <2>1
    <3>2. /\ n - 1 \in 2..Len(yystack) /\ (n - 1) - 1 \in 1..Len(yystack)
          /\ Enters(yystack[(n - 1) - 1].state, yystack[n - 1].state, yystack[n - 1].major)
      BY <1>1, <1>2, <3>1, Below
    <3>3. (n - 1) - 1 = n - 2
      BY <1>2
    <3>. QED
      BY <3>2, <3>3
  <2>3. yystack[n - 1].major = 13
    BY <2>1, <2>2, SymbolsAre
  <2>4. /\ ends[n - 1] \in 1..Len(text)
        /\ Covered(heap, yystack[n - 1], yystack[(n - 1) - 1].state, After(yystack, major, n - 1),
                   text, ends[(n - 1) - 1] + 1, ends[n - 1])
    BY <1>2, <2>2, SpansWithin
  <2>5. text[ends[n - 1]].major = 13
    BY <2>3, <2>4 DEF Covered, Stands
  <2>6. i - 1 = ends[n - 1]
    BY <2>4
  <2>. HIDE DEF i
  <2>7. CASE major = 0
    <3>1. Taken = Len(text)
      BY <1>2, <2>7, AtHandIs
    <3>2. i - 1 \in 1..Len(text) /\ text[i - 1].major = TOKEN_LPAREN
      BY <2>4, <2>5, <2>6 DEF TOKEN_LPAREN
    <3>3. DoomedAtEnd(text)
      BY <1>1, <1>2, <1>4, <3>1, <3>2, OpenBracket
    <3>. QED
      BY <2>7, <3>3
  <2>8. CASE major # 0
    <3>1. major \notin {0, 1, 2, 14}
      BY <1>2, <1>6, <2>8 DEF RefusedIn
    <3>. QED
      BY <1>1, <1>2, <1>4, <1>5, <3>1, AfterExpression
  <2>. QED
    BY <2>7, <2>8
<1>7. CASE q = 8
  <2>1. yystack[n - 1].state = 0
    BY <1>1, <1>7, SymbolsAre
  <2>2. n - 1 = 1
    BY <1>1, <1>2, <2>1, BottomOnly
  <2>3. ends[1] = 0
    BY <1>2 DEF Spans
  <2>4. i = 1
    <3>1. ends[n - 1] = 0
      BY <2>2, <2>3
    <3>. QED
      BY <3>1
  <2>5. major \notin {0, 1, 2}
    BY <1>2, <1>7 DEF RefusedIn
  <2>. HIDE DEF i
  <2>6. CASE major = 14
    <3>1. major = TOKEN_RPAREN /\ Balanced(text, 1, Taken)
      BY <1>4, <2>4, <2>6 DEF TOKEN_RPAREN
    <3>. QED
      BY <1>2, <3>1, ClosedTooMuch
  <2>7. CASE major # 14
    <3>1. major \notin {0, 1, 2, 14}
      BY <2>5, <2>7
    <3>. QED
      BY <1>1, <1>2, <1>4, <1>5, <3>1, AfterExpression
  <2>. QED
    BY <2>6, <2>7
<1>. QED
  BY <1>0, <1>6, <1>7

LEMMA ErrorDoomed ==
    ASSUME Owned, Flags, Clean, Reads, pc = "parse", Act = YY_ERROR_ACTION
    PROVE  Doomed(text) \/ (major = 0 /\ DoomedAtEnd(text))
<1>1. PICK ends : AtError(ends)
  BY ErrorFound
<1>2. RefusedIn(yystack[Len(yystack)].state, major)
  BY <1>1 DEF AtError
<1>3. \/ yystack[Len(yystack)].state = 0 \/ yystack[Len(yystack)].state \in 1..4
      \/ yystack[Len(yystack)].state \in {7, 8}
  BY <1>2 DEF RefusedIn
<1>. QED
  BY <1>1, <1>3, ErrorFirst, ErrorWaiting, ErrorAfterExpression

----------------------------------------------------------------------------
(***************************************************************************)
(* The invariant, step by step.                                            *)
(***************************************************************************)
Starting == pc = "compile" => text = << >> /\ ~failure /\ ~syntaxError /\ yyerrcnt <= 0

TextRead == Starting /\ Reads /\ HasRead /\ Misread /\ Failed /\ Ended

(* A string that no sentence begins with does not become one.               *)
LEMMA DoomedGrows ==
    ASSUME NEW X, NEW s \in Seq(X), NEW t, Extends(s, t), t # << >>, Doomed(s)
    PROVE  Doomed(t)
<1>1. Len(s) \in Nat /\ Len(t) \in Nat /\ Len(s) <= Len(t) /\ \A k \in 1..Len(s) : s[k] = t[k]
  BY DEF Extends
<1>2. s # << >>
  BY DEF Doomed
<1>3. Len(s) >= 1
  BY <1>1, <1>2
<1>4. CASE ~Starts(s[1])
  <2>1. s[1] = t[1]
    BY <1>1, <1>3
  <2>. QED
    BY <1>4, <2>1 DEF Doomed
<1>5. ASSUME NEW k \in 1..(Len(s) - 1), ~Follows(s[k], s[k + 1]) PROVE Doomed(t)
  <2>1. k \in 1..Len(s) /\ k + 1 \in 1..Len(s) /\ k \in 1..(Len(t) - 1)
    BY <1>1
  <2>2. s[k] = t[k] /\ s[k + 1] = t[k + 1]
    BY <1>1, <2>1
  <2>. QED
    BY <1>5, <2>1, <2>2 DEF Doomed
<1>6. ASSUME NEW k \in 1..Len(s), Depth(s, 1, k) < 0 PROVE Doomed(t)
  <2>1. \A m \in 1..k : s[m] = t[m]
    BY <1>1
  <2>2. Depth(s, 1, k) = Depth(t, 1, k)
    BY <2>1, DepthSame
  <2>3. k \in 1..Len(t)
    BY <1>1
  <2>. QED
    BY <1>6, <2>2, <2>3 DEF Doomed
<1>. QED
  BY <1>4, <1>5, <1>6 DEF Doomed

(* Where the string stays and nothing goes wrong.                           *)
LEMMA FaultsKept ==
    ASSUME Misread, Failed, text' = text, syntaxError' = syntaxError, failure' = failure,
           ~overflowed' => ~overflowed, pc \in {"lex", "parse"} \/ pc' \notin {"lex", "parse"}
    PROVE  Misread' /\ Failed'
<1>1. Failed'
  BY DEF Failed
<1>2. Misread'
  BY DEF Misread
<1>. QED
  BY <1>1, <1>2

LEMMA CompileRead ==
    ASSUME Owned, TextRead, Compile \/ CompileAll
    PROVE  TextRead'
<1>1. /\ pc = "compile" /\ yystack = << >> /\ stRoot = 0
      /\ text = << >> /\ ~failure /\ ~syntaxError /\ yyerrcnt <= 0
  <2>1. pc = "compile"
    BY DEF Compile, CompileAll
  <2>. QED
    BY <2>1 DEF Owned, PlaceSound, TextRead, Starting
<1>2. UNCHANGED <<text, yystack, yyerrcnt, failure>> /\ pc' \in {"lex", "compiled"}
  BY DEF Compile, CompileAll
<1>3. syntaxError' = FALSE /\ stRoot' = 0
  <2>1. CASE Compile
    BY <1>1, <2>1 DEF Compile, tf
  <2>2. CASE CompileAll
    BY <1>1, <2>2 DEF CompileAll, tf
  <2>. QED
    BY <2>1, <2>2
<1>4. Starting' /\ Misread' /\ Failed' /\ Ended'
  BY <1>1, <1>2, <1>3 DEF Starting, Misread, Failed, Ended
<1>5. HasRead'
  BY <1>1, <1>2, <1>3 DEF HasRead
<1>6. Reads'
  <2>1. CASE pc' = "compiled"
    BY <2>1 DEF Reads
  <2>2. CASE pc' = "lex"
    <3>1. TokenAtHand'
      BY <2>2 DEF TokenAtHand
    <3>2. yystack' = << >> /\ text' = << >> /\ yyerrcnt' <= 0
      BY <1>1, <1>2
    <3>. QED
      BY <2>2, <3>1, <3>2 DEF Reads
  <2>. QED
    BY <1>2, <2>1, <2>2
<1>. QED
  BY <1>4, <1>5, <1>6 DEF TextRead

LEMMA LexRead ==
    ASSUME Owned, Owned', Flags, TextRead, Lex
    PROVE  TextRead'
<1>0. Written /\ pc = "lex" /\ UNCHANGED <<syntaxError, overflowed>>
  BY DEF Flags, Written, Lex
<1>1. Reads /\ Misread /\ Failed
  BY DEF TextRead
<1>2. pc' = "parse"
  BY DEF Lex, ScanFailed, Scanned, EndOfText, Tfilter
<1>3. Starting' /\ HasRead' /\ Ended'
  BY <1>2 DEF Starting, HasRead, Ended
<1>4. CASE EndOfText /\ UNCHANGED <<text, failure, errorMessage>>
  <2>1. Reads'
    <3>1. CASE Clean
      BY <1>0, <1>1, <1>4, <3>1, EndReads
    <3>2. CASE ~Clean
      BY <1>0, <1>4, <3>2 DEF Reads, Clean
    <3>. QED
      BY <3>1, <3>2
  <2>2. Misread' /\ Failed'
    BY <1>0, <1>1, <1>4, FaultsKept
  <2>. QED
    BY <1>3, <2>1, <2>2 DEF TextRead
<1>5. ASSUME NEW t \in Token, text' = Append(text, t), ScanFailed(t) PROVE TextRead'
  <2>1. failure' = TRUE /\ Fails(t)
    BY <1>5 DEF ScanFailed
  <2>2. Reads' /\ Misread'
    BY <2>1 DEF Reads, Misread, Clean
  <2>3. Failed'
    <3>1. Len(text') = Len(text) + 1 /\ text'[Len(text) + 1] = t /\ Len(text) \in Nat
      BY <1>0, <1>5, AppendedText
    <3>2. Len(text) + 1 \in 1..Len(text')
      BY <3>1
    <3>. QED
      BY <2>1, <3>1, <3>2 DEF Failed, Fails
  <2>. QED
    BY <1>3, <2>2, <2>3 DEF TextRead
<1>6. ASSUME NEW t \in Token, text' = Append(text, t), Scanned(t) PROVE TextRead'
  <2>1. failure' = failure
    BY <1>6 DEF Scanned
  <2>2. /\ Extends(text, text') /\ text' # << >> /\ Len(text) \in Nat /\ Len(text') = Len(text) + 1
        /\ \A k \in 1..Len(text) : text[k] = text'[k]
    <3>1. Extends(text, text') /\ text' # << >> /\ Len(text) \in Nat /\ Len(text') = Len(text) + 1
      BY <1>0, <1>6, AppendedText
    <3>. QED
      BY <3>1 DEF Extends
  <2>3. Reads'
    <3>1. CASE Clean
      BY <1>0, <1>1, <1>6, <3>1, ScannedReads
    <3>2. CASE ~Clean
      BY <1>0, <2>1, <3>2 DEF Reads, Clean
    <3>. QED
      BY <3>1, <3>2
  <2>4. Misread'
    <3>1. SUFFICES ASSUME syntaxError, ~failure, ~overflowed PROVE Doomed(text')
      BY <1>0, <2>1 DEF Misread
    <3>2. Doomed(text)
      BY <1>0, <1>1, <3>1 DEF Misread
    <3>. QED
      BY <1>0, <2>2, <3>2, DoomedGrows DEF Written
  <2>5. Failed'
    <3>1. SUFFICES ASSUME failure PROVE \E i \in 1..Len(text') : Fails(text'[i])
      BY <2>1 DEF Failed, Fails
    <3>2. PICK i \in 1..Len(text) : Fails(text[i])
      BY <1>1, <3>1 DEF Failed
    <3>3. i \in 1..Len(text') /\ text'[i] = text[i]
      BY <2>2
    <3>. QED
      BY <3>2, <3>3
  <2>. QED
    BY <1>3, <2>3, <2>4, <2>5 DEF TextRead
<1>. QED
  BY <1>4, <1>5, <1>6 DEF Lex

LEMMA ShiftGoes ==
    ASSUME Owned, Shift
    PROVE  pc' = "lex"
<1>. DEFINE a == Act
            q == Last(yystack).state
<1>1. StackSound /\ PlaceSound /\ Parsing
  BY DEF Shift, Owned, Parsing
<1>2. ActsWell(q, major)
  BY <1>1, AtWork
<1>3. a = yy_find_shift_action(q, major) /\ a < 25
  BY DEF Shift, Act, YYNSTATE
<1>4. YY_ERROR_ACTION = 45
  BY DEF YY_ERROR_ACTION, YYNSTATE, YYNRULE
<1>. HIDE DEF a, q
<1>5. a \notin 25..44 /\ a # 45
  BY <1>3
<1>6. major \in 1..14
  BY <1>2, <1>3, <1>4, <1>5 DEF ActsWell
<1>7. major # 0
  BY <1>6
<1>. QED
  BY <1>7 DEF Shift, Return

LEMMA ShiftRead ==
    ASSUME Owned, Owned', Flags, TextRead, Shift
    PROVE  TextRead'
<1>1. Reads /\ Misread /\ Failed /\ pc = "parse"
  BY DEF TextRead, Shift
<1>2. pc' = "lex"
  BY ShiftGoes
<1>3. Starting' /\ HasRead' /\ Ended'
  BY <1>2 DEF Starting, HasRead, Ended
<1>4. text' = text /\ syntaxError' = syntaxError /\ failure' = failure
  BY DEF Shift, tf
<1>5. overflowed' = overflowed \/ overflowed' = TRUE
  BY DEF Shift
<1>6. Misread' /\ Failed'
  BY <1>1, <1>4, <1>5, FaultsKept
<1>7. Reads'
  <2>1. CASE Clean /\ overflowed' = overflowed
    BY <1>1, <2>1, ShiftReads
  <2>2. CASE ~Clean \/ overflowed' = TRUE
    BY <1>4, <1>5, <2>2 DEF Reads, Clean
  <2>. QED
    BY <1>5, <2>1, <2>2
<1>. QED
  BY <1>3, <1>6, <1>7 DEF TextRead

LEMMA SyntaxErrorRead ==
    ASSUME Owned, Owned', Flags, TextRead, SyntaxError
    PROVE  TextRead'
<1>1. Reads /\ Misread /\ Failed /\ pc = "parse" /\ Act = YY_ERROR_ACTION
  BY DEF TextRead, SyntaxError
<1>2. /\ text' = text /\ failure' = failure /\ overflowed' = overflowed
      /\ pc' = IF major = 0 THEN "finish" ELSE "lex"
      /\ syntaxError' = (syntaxError \/ yyerrcnt <= 0 \/ major = 0)
  BY DEF SyntaxError, ThrownAway, Return, Reported
<1>3. ~Clean'
  <2>1. Clean => yyerrcnt <= 0
    BY <1>1 DEF Reads
  <2>. QED
    BY <1>2, <2>1 DEF Clean
<1>4. Reads' /\ HasRead'
  BY <1>3 DEF Reads, HasRead
<1>5. Starting' /\ Ended'
  BY <1>2 DEF Starting, Ended
<1>6. Failed'
  BY <1>1, <1>2 DEF Failed
<1>7. Misread'
  <2>1. SUFFICES ASSUME ~failure, ~overflowed
                 PROVE  Doomed(text) \/ (pc' \notin {"lex", "parse"} /\ DoomedAtEnd(text))
    BY <1>2 DEF Misread
  <2>2. CASE syntaxError
    BY <1>1, <2>1, <2>2 DEF Misread
  <2>3. CASE ~syntaxError
    <3>1. Doomed(text) \/ (major = 0 /\ DoomedAtEnd(text))
      BY <1>1, <2>1, <2>3, ErrorDoomed DEF Clean
    <3>2. major = 0 => pc' \notin {"lex", "parse"}
      BY <1>2
    <3>. QED
      BY <3>1, <3>2
  <2>. QED
    BY <2>2, <2>3
<1>. QED
  BY <1>4, <1>5, <1>6, <1>7 DEF TextRead

(* The reductions but those to a sentence.                                  *)
Reduces ==
    \/ \E rule \in {2, 3, 7, 8, 9, 10} : UnitBy(rule)
    \/ \E rule \in {4, 5} : LogicalBy(rule)
    \/ \E rule \in 13..18 : OpBy(rule)
    \/ ExistsBy \/ BracketsBy \/ RelationBy \/ ChainBy

LEMMA ReducesAre ==
    /\ Reduce => ReduceSentence \/ Reduces
    /\ ReduceSentence => \E rule \in {0, 1} : SentenceBy(rule)
<1>1. ReduceUnit => \E rule \in {2, 3, 7, 8, 9, 10} : UnitBy(rule)
  BY DEF ReduceUnit, UnitBy
<1>2. ReduceLogical => \E rule \in {4, 5} : LogicalBy(rule)
  BY DEF ReduceLogical, LogicalBy
<1>3. ReduceOp => \E rule \in 13..18 : OpBy(rule)
  BY DEF ReduceOp, OpBy
<1>4. /\ ReduceExists => ExistsBy
      /\ ReduceBrackets => BracketsBy
      /\ ReduceRelation => RelationBy
      /\ ReduceChain => ChainBy
  BY DEF ReduceExists, ExistsBy, ReduceBrackets, BracketsBy, ReduceRelation, RelationBy, ReduceChain, ChainBy
<1>5. ReduceSentence => \E rule \in {0, 1} : SentenceBy(rule)
  BY DEF ReduceSentence, SentenceBy
<1>. QED
  BY <1>1, <1>2, <1>3, <1>4, <1>5 DEF Reduce, Reduces

(* Whatever the rule, only the stack and the heap change.                   *)
LEMMA ReducesLeave ==
    ASSUME Reduces
    PROVE  pc = "parse" /\ UNCHANGED <<text, pc, syntaxError, failure, overflowed>>
<1>1. \A rule, node, op : Reducing(rule) /\ Becomes(rule, node, op)
         => pc = "parse" /\ UNCHANGED <<text, pc, syntaxError, failure, overflowed>>
  BY DEF Reducing, Becomes, tf
<1>2. \E rule, node, op : Reducing(rule) /\ Becomes(rule, node, op)
  BY DEF Reduces, UnitBy, LogicalBy, OpBy, ExistsBy, BracketsBy, RelationBy, ChainBy
<1>. QED
  BY <1>1, <1>2

LEMMA ReducesRead ==
    ASSUME Owned, Owned', Flags, TextRead, Reduces
    PROVE  TextRead'
<1>1. Reads /\ Misread /\ Failed /\ Written
  BY DEF TextRead, Flags, Written
<1>2. pc = "parse" /\ UNCHANGED <<text, pc, syntaxError, failure, overflowed>>
  BY ReducesLeave
<1>3. Starting' /\ HasRead' /\ Ended'
  BY <1>2 DEF Starting, HasRead, Ended
<1>4. Misread' /\ Failed'
  BY <1>1, <1>2, FaultsKept
<1>5. Reads'
  <2>1. CASE Clean
    BY <1>1, <2>1, UnitReads, LogicalReads, OpReads, ExistsReads, BracketsReads, RelationReads DEF Reduces
  <2>2. CASE ~Clean
    BY <1>2, <2>2 DEF Reads, Clean
  <2>. QED
    BY <2>1, <2>2
<1>. QED
  BY <1>3, <1>4, <1>5 DEF TextRead

LEMMA SentenceRead ==
    ASSUME Owned, Owned', Flags, TextRead, ReduceSentence
    PROVE  TextRead'
<1>1. Reads /\ Misread /\ Failed /\ pc = "parse"
  BY DEF TextRead, ReduceSentence, Reducing
<1>2. UNCHANGED <<text, syntaxError, failure, overflowed>>
  BY DEF ReduceSentence
<1>3. PICK rule \in {0, 1} : SentenceBy(rule)
  BY ReducesAre
<1>4. pc' = "finish" /\ Reads'
  BY <1>3, SentenceEnds
<1>5. Starting' /\ Ended'
  BY <1>4 DEF Starting, Ended
<1>6. Misread' /\ Failed'
  BY <1>1, <1>2, <1>4, FaultsKept
<1>7. HasRead'
  <2>1. CASE Clean
    BY <1>1, <1>2, <1>3, <2>1, SentenceHasRead
  <2>2. CASE ~Clean
    BY <1>2, <2>2 DEF HasRead, Clean
  <2>. QED
    BY <2>1, <2>2
<1>. QED
  BY <1>4, <1>5, <1>6, <1>7 DEF TextRead

(* What is known of a filter stays known when nodes are freed.              *)
LEMMA FilterKept ==
    ASSUME Owned, Owned', Flags, HasRead, Clean, pc \in {"finish", "compiled", "cleaned"},
           heap'.node = heap.node, stRoot' = stRoot, text' = text
    PROVE  HasRead'
<1>1. Memory(heap) /\ Memory(heap')
  BY DEF Owned, NodesHeld, Held
<1>2. CASE stRoot = 0
  BY <1>2 DEF HasRead
<1>3. CASE stRoot # 0
  <2>1. Means(heap, stRoot, text, 1, Len(text)) /\ text # << >>
    BY <1>3 DEF HasRead
  <2>2. Keeps(heap, heap')
    BY <1>1, KeepsSelf, KeepsNodes
  <2>3. Extends(text, text) /\ 1 \in 1..Len(text) /\ Len(text) \in 1..Len(text)
    <3>1. Len(text) \in Nat /\ Len(text) # 0
      BY <2>1 DEF Flags
    <3>. QED
      BY <3>1 DEF Extends
  <2>4. Means(heap', stRoot, text, 1, Len(text))
    BY <1>1, <2>1, <2>2, <2>3, MeansKept
  <2>. QED
    BY <1>3, <2>1, <2>4 DEF HasRead
<1>. QED
  BY <1>2, <1>3

LEMMA EndRead ==
    ASSUME Owned, Owned', Flags, TextRead, Accepted \/ Rejected \/ cleanFilter
    PROVE  TextRead'
<1>1. HasRead /\ Misread /\ Failed /\ Ended /\ pc \in {"finish", "compiled"}
  BY DEF TextRead, Accepted, Rejected, cleanFilter
<1>2. UNCHANGED <<text, stRoot, syntaxError, failure, overflowed>> /\ pc' \in {"compiled", "rejected", "cleaned"}
  BY DEF Accepted, Rejected, cleanFilter, tf
<1>3. Reads' /\ Starting'
  BY <1>2 DEF Reads, Starting
<1>4. Misread' /\ Failed'
  BY <1>1, <1>2, FaultsKept
<1>5. Ended'
  BY <1>1, <1>2 DEF Ended, Accepted, Rejected, cleanFilter
<1>6. HasRead'
  <2>1. CASE ~Clean
    BY <1>2, <2>1 DEF HasRead, Clean
  <2>2. CASE Clean
    <3>1. heap'.node = heap.node
      <4>1. Memory(heap) /\ StackSound /\ PlaceSound
        BY DEF Owned, NodesHeld, Held
      <4>2. heap' = heap \/ heap' = stnode_free(heap, stRoot) \/ heap' = PopAll(heap, yystack)
        BY DEF Accepted, Rejected, cleanFilter
      <4>3. stnode_free(heap, stRoot).node = heap.node
        BY <4>1, FreedNodes
      <4>4. PopAll(heap, yystack).node = heap.node
        <5>1. yystack = << >>
          BY <1>1, <4>1, AtRest
        <5>2. DOMAIN yystack = 1..0
          BY <5>1
        <5>. QED
          BY <4>1, <5>2, PoppedNodes
      <4>. QED
        BY <4>2, <4>3, <4>4
    <3>. QED
      BY <1>1, <1>2, <2>2, <3>1, FilterKept
  <2>. QED
    BY <2>1, <2>2
<1>. QED
  BY <1>3, <1>4, <1>5, <1>6 DEF TextRead

LEMMA TextReadInit == Init => TextRead
<1>1. SUFFICES ASSUME Init PROVE TextRead
  OBVIOUS
<1>2. pc = "compile" /\ text = << >> /\ ~failure /\ ~syntaxError /\ yyerrcnt = 0
  BY <1>1 DEF Init, GrammarInit
<1>3. Starting /\ Reads /\ HasRead /\ Misread /\ Failed /\ Ended
  BY <1>2 DEF Starting, Reads, HasRead, Misread, Failed, Ended
<1>. QED
  BY <1>3 DEF TextRead

LEMMA TextReadInvariance == Typed /\ Typed' /\ TextRead /\ [Next]_vars => TextRead'
<1>1. SUFFICES ASSUME Typed, Typed', TextRead, [Next]_vars PROVE TextRead'
  OBVIOUS
<1>2. Owned /\ Owned' /\ Flags
  BY <1>1 DEF Typed
<1>3. CASE Compile \/ CompileAll
  BY <1>1, <1>2, <1>3, CompileRead
<1>4. CASE Lex
  BY <1>1, <1>2, <1>4, LexRead
<1>5. CASE Shift
  BY <1>1, <1>2, <1>5, ShiftRead
<1>6. CASE Reduce
  BY <1>1, <1>2, <1>6, ReducesAre, ReducesRead, SentenceRead
<1>7. CASE SyntaxError
  BY <1>1, <1>2, <1>7, SyntaxErrorRead
<1>8. CASE Accepted \/ Rejected \/ cleanFilter
  BY <1>1, <1>2, <1>8, EndRead
<1>9. ASSUME UNCHANGED grammarVars PROVE TextRead'
  <2>1. UNCHANGED <<text, pc, major, minor, yystack, yyerrcnt, heap, stRoot, syntaxError, failure, overflowed>>
    BY <1>9 DEF grammarVars, tf
  <2>2. Clean' = Clean /\ Taken' = Taken /\ TokenAtHand' = TokenAtHand
    BY <2>1 DEF Clean, Taken, TokenAtHand
  <2>3. Starting' /\ Misread' /\ Failed' /\ Ended'
    BY <1>1, <2>1 DEF TextRead, Starting, Misread, Failed, Ended
  <2>4. HasRead' /\ Reads'
    BY <1>1, <2>1, <2>2 DEF TextRead, HasRead, Reads
  <2>. QED
    BY <2>3, <2>4 DEF TextRead
<1>10. ASSUME NEW l \in Line, Dispatch(l) PROVE TextRead'
  BY <1>9, <1>10 DEF Dispatch
<1>11. CASE UNCHANGED vars
  BY <1>9, <1>11 DEF vars
<1>. QED
  BY <1>1, <1>3, <1>4, <1>5, <1>6, <1>7, <1>8, <1>10, <1>11 DEF Next, GrammarNext

----------------------------------------------------------------------------
(***************************************************************************)
(* What the filter says of a line.                                         *)
(***************************************************************************)
Judged == verdict \in {"yes", "no"} =>
    pc \in {"compiled", "cleaned"} /\ verdict = doFilter(parseTable) /\ line \in Line

LEMMA JudgedInit == Init => Judged
BY DEF Init, Judged

LEMMA JudgedInvariance == Typed /\ Typed' /\ Judged /\ [Next]_vars => Judged'
<1>1. SUFFICES ASSUME Typed, Typed', Judged, [Next]_vars, verdict' \in {"yes", "no"} PROVE Judged'
  BY DEF Judged
<1>2. CASE GrammarNext /\ UNCHANGED lineVars
  <2>1. verdict' = verdict
    BY <1>2 DEF lineVars
  <2>2. pc \in {"compiled", "cleaned"}
    BY <1>1, <2>1 DEF Judged
  <2>3. pc \in {"compile", "lex", "parse", "finish"}
    BY <1>2, ReducesAre, ReducesLeave
       DEF GrammarNext, CompileAll, Compile, Lex, Shift, SyntaxError, Accepted, Rejected, ReduceSentence, Reducing
  <2>. QED
    BY <2>2, <2>3
<1>3. CASE cleanFilter
  <2>1. UNCHANGED <<verdict, parseTable, line, stRoot>> /\ pc' = "cleaned"
    BY <1>3 DEF cleanFilter, lineVars, tf
  <2>2. verdict = doFilter(parseTable) /\ line \in Line
    BY <1>1, <2>1 DEF Judged
  <2>3. Memory(heap) /\ Memory(heap') /\ stRoot \in 0..Size(heap)
    BY <1>1 DEF Typed, Owned, NodesHeld, Held, InHeap
  <2>4. Keeps(heap, heap')
    <3>1. heap' = heap \/ heap' = stnode_free(heap, stRoot)
      BY <1>3 DEF cleanFilter
    <3>2. heap'.node = heap.node
      BY <2>3, <3>1, FreedNodes
    <3>. QED
      BY <2>3, <3>2, KeepsSelf, KeepsNodes
  <2>5. stRoot # 0 => testNode(heap', stRoot, parseTable) = testNode(heap, stRoot, parseTable)
    <3>1. SUFFICES ASSUME stRoot # 0 PROVE testNode(heap', stRoot, parseTable) = testNode(heap, stRoot, parseTable)
      OBVIOUS
    <3>2. stRoot \in 1..Size(heap)
      BY <2>3, <3>1
    <3>. QED
      BY <2>3, <2>4, <3>2, JudgementKept
  <2>6. verdict' = doFilter(parseTable)'
    BY <2>1, <2>2, <2>5 DEF doFilter
  <2>. QED
    BY <2>1, <2>2, <2>6 DEF Judged
<1>4. ASSUME NEW l \in Line, Dispatch(l) PROVE Judged'
  <2>1. pc = "compiled" /\ line' = l /\ UNCHANGED <<pc, heap, stRoot>>
    BY <1>4 DEF Dispatch, grammarVars, tf
  <2>2. verdict' = doFilter(parseTable')
    BY <1>1, <1>4 DEF Dispatch
  <2>3. doFilter(parseTable)' = doFilter(parseTable')
    BY <2>1 DEF doFilter
  <2>. QED
    BY <2>1, <2>2, <2>3 DEF Judged
<1>5. CASE UNCHANGED vars
  <2>1. UNCHANGED <<pc, heap, stRoot, verdict, parseTable, line>>
    BY <1>5 DEF vars, grammarVars, lineVars, tf
  <2>2. doFilter(parseTable)' = doFilter(parseTable)
    BY <2>1 DEF doFilter
  <2>. QED
    BY <1>1, <2>1, <2>2 DEF Judged
<1>. QED
  BY <1>1, <1>2, <1>3, <1>4, <1>5 DEF Next

(* The fields of a line are a line to the grammar.                          *)
LEMMA FieldsAreLine ==
    ASSUME line \in Line, Complete
    PROVE  IsLine(FieldsThere)
<1>. DEFINE own == line.values
            k == Len(g_protoArray)
            at(f) == Max(Under(f, k))
<1>1. Len(own) \in Nat /\ DOMAIN own = 1..Len(own) /\ \A i \in 1..Len(own) : own[i].num \in Int
  <2>1. own \in Seq(Range(own)) /\ \A i \in DOMAIN own : own[i].num \in Int
    BY ProtoAssumption
  <2>. QED
    BY <2>1
<1>2. k \in Nat /\ k <= Len(own) /\ Field = Listed(g_protoArray)
  BY ProtoArray DEF Complete
<1>3. FieldsThere = FieldsOf(own)
  BY DEF FieldsThere, FieldsOf
<1>4. FieldsOf(own) = [f \in Field |-> newNode(f, own[at(f)])]
  BY <1>1, <1>2, OwnFields
<1>5. ASSUME NEW f \in Field PROVE own[at(f)].num \in Int
  <2>1. Under(f, k) \in SUBSET (1..k) /\ Under(f, k) # {}
    BY <1>2 DEF Under, Listed
  <2>2. at(f) \in 1..k
    BY <1>2, <2>1, MaxIn
  <2>. HIDE DEF at
  <2>3. at(f) \in 1..Len(own)
    BY <1>1, <1>2, <2>2
  <2>. QED
    BY <1>1, <2>3
<1>. HIDE DEF at, own
<1>6. ASSUME NEW f \in Field
      PROVE  /\ newNode(f, own[at(f)]).type \in {"STRING", "INTEGER"}
             /\ newNode(f, own[at(f)]).value \in Int
  BY <1>5 DEF newNode
<1>. QED
  BY <1>3, <1>4, <1>6 DEF IsLine

----------------------------------------------------------------------------
(***************************************************************************)
(* The theorems.                                                           *)
(***************************************************************************)
Understood == Typed /\ TextRead /\ NothingStale /\ Judged

LEMMA AcceptedClean ==
    ASSUME TextRead, ~overflowed, Compiled
    PROVE  IF stRoot = 0 THEN text = << >> ELSE Means(heap, stRoot, text, 1, Len(text)) /\ text # << >>
<1>1. HasRead /\ Ended
  BY DEF TextRead
<1>. QED
  BY <1>1 DEF HasRead, Ended, Clean, Compiled

LEMMA UnderstoodGoodTree == Understood => GoodTree
<1>1. SUFFICES ASSUME Understood, ~overflowed, Compiled, stRoot # 0 PROVE Shape(heap, stRoot) = Reference!Tree(text)
  BY AcceptedClean DEF GoodTree, Understood
<1>2. Means(heap, stRoot, text, 1, Len(text))
  BY <1>1, AcceptedClean DEF Understood
<1>3. Shape(heap, stRoot) = Meant(text, Reference!NoLine)[1][Len(text)].tree
  BY <1>2, NothingIsLine DEF Means
<1>. QED
  BY <1>3, ReadIs DEF Reference!Tree

LEMMA UnderstoodRejects == Understood => RejectsOnlyErrors
<1>1. SUFFICES ASSUME Understood, ~overflowed, pc = "rejected", ~\E i \in 1..Len(text) : Fails(text[i])
               PROVE  text # << >> /\ Reference!Tree(text) = Reference!NoTree
  BY DEF RejectsOnlyErrors
<1>2. ~failure
  BY <1>1 DEF Understood, TextRead, Failed
<1>3. syntaxError
  BY <1>1, <1>2 DEF Understood, TextRead, Ended
<1>4. Doomed(text) \/ DoomedAtEnd(text)
  BY <1>1, <1>2, <1>3 DEF Understood, TextRead, Misread
<1>5. text # << >> /\ Len(text) \in Nat /\ Len(text) # 0
  <2>1. text \in Seq(Token)
    BY <1>1 DEF Understood, Typed, Flags
  <2>2. text # << >>
    BY <1>4 DEF Doomed, DoomedAtEnd
  <2>. QED
    BY <2>1, <2>2
<1>. QED
  BY <1>4, <1>5, NoSentences

LEMMA UnderstoodJudged == Understood => JudgedByItself
<1>1. SUFFICES ASSUME Understood, verdict \in {"yes", "no"}, ~overflowed, text # << >>, Complete
               PROVE  verdict = "yes" <=> Reference!Satisfies(text, FieldsThere)
  BY DEF JudgedByItself
<1>2. Compiled /\ verdict = doFilter(parseTable) /\ line \in Line
  BY <1>1 DEF Understood, Judged, Compiled
<1>3. stRoot # 0 /\ Means(heap, stRoot, text, 1, Len(text))
  BY <1>1, <1>2, AcceptedClean DEF Understood
<1>4. verdict = testNode(heap, stRoot, FieldsThere)
  <2>1. parseTable = FieldsThere
    BY <1>1 DEF Understood, NothingStale
  <2>. QED
    BY <1>2, <1>3, <2>1 DEF doFilter
<1>5. IsLine(FieldsThere)
  BY <1>1, <1>2, FieldsAreLine
<1>6. testNode(heap, stRoot, FieldsThere) # "crash"
  BY <1>1, <1>4
<1>7. verdict = "yes" <=> Meant(text, FieldsThere)[1][Len(text)].holds
  BY <1>3, <1>4, <1>5, <1>6 DEF Means
<1>. QED
  BY <1>7, ReadIs DEF Reference!Satisfies

LEMMA TypedInvariance == Typed /\ [Next]_vars => Typed'
BY OwnedInvariance, FlagsInvariance, InHeapInvariance, LineTypedInvariance DEF Typed, Onward

LEMMA NothingStaleInit == Init => NothingStale
BY DEF Init, NothingStale

LEMMA UnderstoodInvariance == Understood /\ [Next]_vars => Understood'
<1>1. SUFFICES ASSUME Understood, [Next]_vars PROVE Understood'
  OBVIOUS
<1>2. Typed /\ TextRead /\ NothingStale /\ Judged
  BY <1>1 DEF Understood
<1>3. Typed'
  BY <1>1, <1>2, TypedInvariance
<1>4. NothingStale'
  BY <1>1, <1>2, NothingStaleInvariance DEF Typed
<1>. QED
  BY <1>1, <1>2, <1>3, <1>4, TextReadInvariance, JudgedInvariance DEF Understood

LEMMA AlwaysUnderstood == Spec => []Understood
<1>1. Init => Understood
  BY TypedInit, TextReadInit, NothingStaleInit, JudgedInit DEF Understood
<1>. QED
  BY <1>1, UnderstoodInvariance, PTL DEF Spec

(* compile1, the scanner and the parser: of whatever string, if the filter  *)
(* is accepted and the parser's stack did not overflow, its tree is the one *)
(* that the grammar gives that string: it groups as grammar.y says, has the *)
(* brackets where the string has them, and a == b == c is taken apart.      *)
THEOREM TreesGood == Spec => []GoodTree
BY AlwaysUnderstood, UnderstoodGoodTree, PTL

(* compile1 refuses no string that the grammar derives, as long as the      *)
(* parser's stack does not overflow: one that it refuses has a token that   *)
(* the scanner cannot read, or is no sentence.                              *)
THEOREM RejectionsDeserved == Spec => []RejectsOnlyErrors
BY AlwaysUnderstood, UnderstoodRejects, PTL

(* watchDispatchServer, parseString and doFilter: a line with all its       *)
(* fields is let through exactly if its own fields satisfy what the client  *)
(* wrote, however the filter is nested and whatever lines came before.      *)
THEOREM LinesJudgedByThemselves == Spec => []JudgedByItself
BY AlwaysUnderstood, UnderstoodJudged, PTL

============================================================================
