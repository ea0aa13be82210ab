-------------------------- MODULE LineFilterProofs --------------------------
(***************************************************************************)
(* Theorems about LineFilter, for any strings, fields, lines and depth of  *)
(* the parser's stack.                                                     *)
(***************************************************************************)
EXTENDS LineFilter, SequenceTheorems, FiniteSetTheorems, WellFoundedInduction, TLAPS

LEMMA DepthPositive == YYSTACKDEPTH \in Nat /\ 1 <= YYSTACKDEPTH
<1>1. YYSTACKDEPTH \in Nat \ {0}
  BY GrammarAssumption
<1>. QED
  BY <1>1

----------------------------------------------------------------------------
(***************************************************************************)
(* Messages.  The parser says nothing of an error that comes within three  *)
(* shifts of another one, and the one before was reported: so while        *)
(* yyerrcnt is positive there is a message.                                *)
(***************************************************************************)
Messages ==
    /\ yyerrcnt \in Int
    /\ yyerrcnt > 0 => errorMessage
    /\ failure \/ syntaxError => errorMessage
    /\ Explained

LEMMA MessagesInvariance == Messages /\ [Next]_vars => Messages'
<1>1. SUFFICES ASSUME Messages, [Next]_vars PROVE Messages'
  OBVIOUS
<1>2. CASE CompileAll \/ Compile
  BY <1>1, <1>2 DEF Messages, Explained, CompileAll, Compile, tf
<1>3. CASE Lex
  <2>1. yyerrcnt' \in {-1, yyerrcnt} /\ pc' = "parse" /\ syntaxError' = syntaxError
    BY <1>3 DEF Lex, ScanFailed, Scanned, EndOfText, Tfilter
  <2>2. \/ failure' = TRUE /\ errorMessage' = TRUE
        \/ failure' = failure /\ errorMessage' = errorMessage
    BY <1>3 DEF Lex, ScanFailed, Scanned, Explain
  <2>. QED
    BY <1>1, <2>1, <2>2 DEF Messages, Explained
<1>4. CASE Shift
  <2>1. yyerrcnt' = yyerrcnt - 1 /\ UNCHANGED <<syntaxError, errorMessage, failure>> /\ pc' # "rejected"
    BY <1>4 DEF Shift, Return, tf
  <2>2. yyerrcnt' \in Int /\ (yyerrcnt' > 0 => yyerrcnt > 0)
    BY <1>1, <2>1 DEF Messages
  <2>. QED
    BY <1>1, <2>1, <2>2 DEF Messages, Explained
<1>5. CASE Reduce
  <2>1. UNCHANGED <<yyerrcnt, syntaxError, errorMessage, failure>> /\ pc' # "rejected"
    <3>1. ASSUME NEW rule, NEW node, NEW op, Reducing(rule), Becomes(rule, node, op)
          PROVE  UNCHANGED <<yyerrcnt, syntaxError, errorMessage, failure>> /\ pc' # "rejected"
      BY <3>1 DEF Reducing, Becomes, tf
    <3>2. CASE ReduceSentence
      BY <3>2 DEF ReduceSentence, Return
    <3>. QED
      BY <1>5, <3>1, <3>2
         DEF Reduce, ReduceUnit, ReduceLogical, ReduceExists, ReduceRelation, ReduceChain, ReduceOp,
             ReduceBrackets
  <2>. QED
    BY <1>1, <2>1 DEF Messages, Explained
<1>6. CASE SyntaxError
  <2>1. yyerrcnt' = 3 /\ errorMessage' = (errorMessage \/ Reported)
    BY <1>6 DEF SyntaxError
  <2>2. Reported \/ yyerrcnt > 0
    BY <1>1 DEF Messages, Reported
  <2>3. errorMessage' = TRUE
    BY <1>1, <2>1, <2>2 DEF Messages
  <2>. QED
    BY <2>1, <2>3 DEF Messages, Explained
<1>7. CASE Accepted
  BY <1>1, <1>7 DEF Messages, Explained, Accepted, tf
<1>8. CASE Rejected
  BY <1>1, <1>8 DEF Messages, Explained, Rejected, tf
<1>9. CASE cleanFilter
  BY <1>1, <1>9 DEF Messages, Explained, cleanFilter, tf
<1>10. CASE (\E l \in Line : Dispatch(l)) \/ UNCHANGED vars
  <2>1. UNCHANGED grammarVars
    BY <1>10 DEF Dispatch, vars
  <2>. QED
    BY <1>1, <2>1 DEF Messages, Explained, grammarVars, tf
<1>. QED
  BY <1>1, <1>2, <1>3, <1>4, <1>5, <1>6, <1>7, <1>8, <1>9, <1>10 DEF Next, GrammarNext

(* compile1: whichever way a string fails, in the scanner, in the parser or *)
(* at its end, and whatever failed before, the message that watchserver and *)
(* logwatch print has been set when the filter is refused.                  *)
THEOREM RejectionsExplained == Spec => []Explained
<1>1. Init => Messages
  BY DEF Init, GrammarInit, Messages, Explained
<1>2. Messages => Explained
  BY DEF Messages
<1>. QED
  BY <1>1, <1>2, MessagesInvariance, PTL DEF Spec
----------------------------------------------------------------------------
(***************************************************************************)
(* What the parser's tables say.  Symbol is the symbol by which a state is *)
(* entered, Before the states below it on the stack, Handle the state in   *)
(* which a rule is reduced.                                                *)
(***************************************************************************)
Symbol == <<13, 2, 1, 21, 18, 18, 17, 17, 17, 14, 19, 6, 5, 8, 7, 4, 3, 12, 11, 10, 9, 17, 20, 19>>

Before == <<0..3, {7, 8, 9}, {7, 8}, {5, 6}, {4}, 0..3, {1}, {0}, {3}, {7}, {4},
            {5, 6}, {5, 6}, {5, 6}, {5, 6}, {5, 6}, {5, 6}, 0..4, 0..4, 0..4, 0..4, {2}, 0..3, 0..3>>

Handle == <<8, 0, 24, 23, 9, 22, 6, 21, 20, 19, 18, 5, 11, 17, 16, 15, 14, 13, 12, 10>>

(* A state that is entered from another, with its symbol.                   *)
Enters(below, state, symbol) ==
    state \in 1..24 /\ below \in Before[state] /\ Symbol[state] = symbol

ActsWell(state, m) ==
    LET a == yy_find_shift_action(state, m) IN
    \/ a \in 1..24 /\ m \in 1..14 /\ Enters(state, a, m)
    \/ a \in 25..44 /\ state = Handle[a - 24] /\ (a \in {25, 26} => m = 0)
    \/ a = YY_ERROR_ACTION

LEMMA Defaults ==
    ASSUME NEW state \in 10..24, NEW m
    PROVE  ActsWell(state, m)
<1>1. state >= Len(yy_shift_ofst)
  BY DEF yy_shift_ofst
<1>2. yy_find_shift_action(state, m) = yy_default[state + 1]
  BY <1>1 DEF yy_find_shift_action
<1>. DEFINE a == yy_default[state + 1]
<1>3. a \in 25..44 /\ state = Handle[a - 24] /\ a \notin {25, 26}
  BY DEF yy_default, Handle
<1>. HIDE DEF a
<1>. QED
  BY <1>2, <1>3 DEF ActsWell, a

LEMMA Actions ==
    ASSUME NEW state \in 0..24, NEW m \in 0..14
    PROVE  ActsWell(state, m)
<1>1. state \in 10..24 => ActsWell(state, m)
  BY Defaults
<1>2. \/ state = 0 \/ state = 1 \/ state = 2 \/ state = 3 \/ state = 4 \/ state = 5 \/ state = 6
       \/ state = 7 \/ state = 8 \/ state = 9 \/ state \in 10..24
  OBVIOUS
<1>. USE DEF ActsWell, Enters, Symbol, Before, Handle, YY_ERROR_ACTION, YYNSTATE, YYNRULE,
             yy_find_shift_action, yy_action, yy_lookahead, yy_shift_ofst, yy_default
<1>3. CASE state = 0
  BY <1>3
<1>4. CASE state = 1
  BY <1>4
<1>5. CASE state = 2
  BY <1>5
<1>6. CASE state = 3
  BY <1>6
<1>7. CASE state = 4
  BY <1>7
<1>8. CASE state = 5
  BY <1>8
<1>9. CASE state = 6
  BY <1>9
<1>10. CASE state = 7
  BY <1>10
<1>11. CASE state = 8
  BY <1>11
<1>12. CASE state = 9
  BY <1>12
<1>. QED
  BY <1>3, <1>4, <1>5, <1>6, <1>7, <1>8, <1>9, <1>10, <1>11, <1>12, <1>1, <1>2

Goto(state, lhs) == yy_find_reduce_action(state, lhs)

LEMMA Gotos ==
    /\ \A s \in 0..3 : /\ Enters(s, Goto(s, 17), 17) /\ Enters(s, Goto(s, 20), 20)
                       /\ Enters(s, Goto(s, 18), 18) /\ Enters(s, Goto(s, 19), 19)
    /\ Enters(4, Goto(4, 18), 18) /\ Enters(4, Goto(4, 19), 19)
    /\ \A s \in {5, 6} : Enters(s, Goto(s, 21), 21)
BY DEF Goto, Enters, yy_find_reduce_action, yy_reduce_ofst, yy_action, Symbol, Before

LEMMA EnteredFrom ==
    ASSUME NEW below, NEW state, NEW symbol, Enters(below, state, symbol)
    PROVE  /\ state \in {6, 23, 24} => below \in 0..3 /\ symbol # 21
           /\ state \in 18..21 => below \in 0..4 /\ symbol # 21
           /\ state \in 12..17 => below \in {5, 6} /\ symbol \in 3..8
           /\ state \in {9, 22} => below \in {2, 3} /\ symbol # 21
           /\ state \in {2, 3} => below \in {7, 8, 9} /\ symbol # 21
           /\ state \in {7, 8, 9} => below \in 0..3 /\ symbol # 21
           /\ state \in {5, 11} => below = 4 /\ symbol # 21
           /\ state = 4 => below \in {5, 6} /\ symbol = 21
           /\ state \in {5, 6} => below \in 0..4 /\ symbol # 21
           /\ state = 10 => below = 7 /\ symbol # 21
           /\ state = 7 => below = 1 /\ symbol # 21
           /\ state = 1 => below \in 0..3 /\ symbol # 21
<1>. USE DEF Enters, Before, Symbol
<1>1. state \in {6, 23, 24} => below \in 0..3 /\ symbol # 21
  OBVIOUS
<1>2. state \in 18..21 => below \in 0..4 /\ symbol # 21
  OBVIOUS
<1>3. state \in 12..17 => below \in {5, 6} /\ symbol \in 3..8
  OBVIOUS
<1>4. state \in {9, 22} => below \in {2, 3} /\ symbol # 21
  OBVIOUS
<1>5. state \in {2, 3} => below \in {7, 8, 9} /\ symbol # 21
  OBVIOUS
<1>6. state \in {7, 8, 9} => below \in 0..3 /\ symbol # 21
  OBVIOUS
<1>7. state \in {5, 11} => below = 4 /\ symbol # 21
  OBVIOUS
<1>8. state = 4 => below \in {5, 6} /\ symbol = 21
  OBVIOUS
<1>9. state \in {5, 6} => below \in 0..4 /\ symbol # 21
  OBVIOUS
<1>10. state = 10 => below = 7 /\ symbol # 21
  OBVIOUS
<1>11. state = 7 => below = 1 /\ symbol # 21
  OBVIOUS
<1>12. state = 1 => below \in 0..3 /\ symbol # 21
  OBVIOUS
<1>. QED
  BY <1>1, <1>2, <1>3, <1>4, <1>5, <1>6, <1>7, <1>8, <1>9, <1>10, <1>11, <1>12

LEMMA RuleTable ==
    ASSUME NEW rule \in 2..19
    PROVE  /\ rule \in {2, 3} => Handle[rule + 1] \in {6, 23, 24} /\ yyRuleInfo[rule + 1] = <<17, 1>>
           /\ rule \in 7..10 => Handle[rule + 1] \in 18..21 /\ yyRuleInfo[rule + 1] = <<18, 1>>
           /\ rule \in {4, 5} => Handle[rule + 1] \in {9, 22} /\ yyRuleInfo[rule + 1] = <<20, 3>>
           /\ rule = 6 => Handle[rule + 1] \in {6, 23, 24} /\ yyRuleInfo[rule + 1] = <<20, 1>>
           /\ rule \in {11, 12} => Handle[rule + 1] \in {5, 11} /\ yyRuleInfo[rule + 1] = <<19, 3>>
           /\ rule \in 13..18 => Handle[rule + 1] \in 12..17 /\ yyRuleInfo[rule + 1] = <<21, 1>>
           /\ rule = 19 => Handle[rule + 1] = 10 /\ yyRuleInfo[rule + 1] = <<17, 3>>
<1>1. rule \in {2, 3} => Handle[rule + 1] \in {6, 23, 24} /\ yyRuleInfo[rule + 1] = <<17, 1>>
  BY DEF Handle, yyRuleInfo
<1>2. rule \in 7..10 => Handle[rule + 1] \in 18..21 /\ yyRuleInfo[rule + 1] = <<18, 1>>
  BY DEF Handle, yyRuleInfo
<1>3. rule \in {4, 5} => Handle[rule + 1] \in {9, 22} /\ yyRuleInfo[rule + 1] = <<20, 3>>
  BY DEF Handle, yyRuleInfo
<1>4. rule = 6 => Handle[rule + 1] \in {6, 23, 24} /\ yyRuleInfo[rule + 1] = <<20, 1>>
  BY DEF Handle, yyRuleInfo
<1>5. rule \in {11, 12} => Handle[rule + 1] \in {5, 11} /\ yyRuleInfo[rule + 1] = <<19, 3>>
  BY DEF Handle, yyRuleInfo
<1>6. rule \in 13..18 => Handle[rule + 1] \in 12..17 /\ yyRuleInfo[rule + 1] = <<21, 1>>
  BY DEF Handle, yyRuleInfo
<1>7. rule = 19 => Handle[rule + 1] = 10 /\ yyRuleInfo[rule + 1] = <<17, 3>>
  BY DEF Handle, yyRuleInfo
<1>. QED
  BY <1>1, <1>2, <1>3, <1>4, <1>5, <1>6, <1>7

----------------------------------------------------------------------------
(***************************************************************************)
(* Nodes.  A test refers to nodes made before it, or to a leaf: so what    *)
(* stnode_free and the other walks over a tree come to is well defined.    *)
(***************************************************************************)
Types == {"UNINITIALIZED", "FIELD", "STRING", "INTEGER", "TEST"}
Texts == {t.text : t \in Token} \cup {""}
Values == {t.value : t \in Token} \cup {0}
Ops == {"", "EQ", "NE", "LT", "LE", "GT", "GE", "AND", "OR", "EXISTS"}

stnode_t == [type : Types, text : Texts, value : Values, op : Ops, val1 : Nat, val2 : Nat,
             brackets : BOOLEAN]

Size(h) == Len(h.node)
IsTest(h, n) == h.node[n].type = "TEST"
Val1(h, n) == h.node[n].val1
Val2(h, n) == h.node[n].val2
Kids(h, n) == {Val1(h, n), Val2(h, n)} \ {0}

Child(h, n, k) == k \in 1..Size(h) /\ (IsTest(h, k) => k < n)

(* Only a test has an operation, and only EXISTS does with one operand.    *)
Arity(c) == IF c.type = "TEST" THEN c.val2 = 0 => c.op = "EXISTS" ELSE c.op = ""

Memory(h) ==
    /\ h \in [node : Seq(stnode_t), live : SUBSET Nat, ok : BOOLEAN]
    /\ h.live \subseteq 1..Size(h)
    /\ \A n \in 1..Size(h) :
          IF IsTest(h, n) THEN Child(h, n, Val1(h, n)) /\ (Val2(h, n) = 0 \/ Child(h, n, Val2(h, n)))
          ELSE Val1(h, n) = 0 /\ Val2(h, n) = 0
    /\ \A n \in 1..Size(h) : Arity(h.node[n])

Rank(h, n) == IF IsTest(h, n) THEN n ELSE 0

LEMMA KidsBelow ==
    ASSUME NEW h, Memory(h), NEW n \in 1..Size(h)
    PROVE  /\ Size(h) \in Nat /\ Rank(h, n) \in Nat /\ Rank(h, n) <= Size(h)
           /\ \A k \in Kids(h, n) : k \in 1..Size(h) /\ Rank(h, k) < Rank(h, n)
           /\ Val1(h, n) \in 0..Size(h) /\ Val2(h, n) \in 0..Size(h)
           /\ IsTest(h, n) => Val1(h, n) \in Kids(h, n)
<1>1. Size(h) \in Nat
  BY DEF Memory, Size
<1>. HIDE DEF Size
<1>2. CASE IsTest(h, n)
  <2>1. Child(h, n, Val1(h, n)) /\ (Val2(h, n) = 0 \/ Child(h, n, Val2(h, n)))
    BY <1>2 DEF Memory
  <2>. QED
    BY <1>1, <1>2, <2>1 DEF Child, Rank, Kids
<1>3. CASE ~IsTest(h, n)
  <2>1. Val1(h, n) = 0 /\ Val2(h, n) = 0
    BY <1>3 DEF Memory
  <2>. QED
    BY <1>1, <1>3, <2>1 DEF Rank, Kids
<1>. QED
  BY <1>2, <1>3

(* A set of numbers has a least one, and what holds of 0 and of each        *)
(* successor holds of all.                                                  *)
LEMMA Smallest ==
    ASSUME NEW T \in SUBSET Nat, T # {}
    PROVE  \E m \in T : \A k \in T : m <= k
<1>1. PICK m \in T : \A k \in T : ~(<<k, m>> \in OpToRel(<, Nat))
  BY NatLessThanWellFounded, WFMin
<1>2. \A k \in T : ~(k < m)
  BY <1>1 DEF OpToRel
<1>. QED
  BY <1>2

LEMMA Successors ==
    ASSUME NEW T, 0 \in T, \A i \in Nat : i \in T => i + 1 \in T
    PROVE  Nat \subseteq T
<1>1. SUFFICES ASSUME NEW x \in Nat, x \notin T PROVE FALSE
  OBVIOUS
<1>2. PICK m \in Nat \ T : \A k \in Nat \ T : m <= k
  BY <1>1, Smallest
<1>3. m - 1 \in Nat /\ m - 1 \in T
  BY <1>2
<1>. QED
  BY <1>2, <1>3

(* What holds of a node if it holds of its children holds of every node.    *)
LEMMA ByRank ==
    ASSUME NEW h, Memory(h), NEW T, \A n \in 1..Size(h) : Kids(h, n) \subseteq T => n \in T
    PROVE  1..Size(h) \subseteq T
<1>1. SUFFICES ASSUME NEW x \in 1..Size(h), x \notin T PROVE FALSE
  OBVIOUS
<1>. DEFINE U == {Rank(h, n) : n \in (1..Size(h)) \ T}
<1>2. U \in SUBSET Nat /\ U # {}
  BY <1>1, KidsBelow
<1>3. PICK m \in U : \A k \in U : m <= k
  BY <1>2, Smallest
<1>4. PICK n \in (1..Size(h)) \ T : m = Rank(h, n)
  BY <1>3
<1>5. \A k \in Kids(h, n) : k \in T
  <2>1. SUFFICES ASSUME NEW k \in Kids(h, n), k \notin T PROVE FALSE
    OBVIOUS
  <2>2. k \in 1..Size(h) /\ Rank(h, k) < Rank(h, n) /\ Rank(h, k) \in Nat /\ Rank(h, n) \in Nat
    BY KidsBelow
  <2>3. Rank(h, k) \in U
    BY <2>1, <2>2
  <2>4. m <= Rank(h, k)
    BY <1>3, <2>3
  <2>. QED
    BY <1>4, <2>2, <2>4
<1>. QED
  BY <1>4, <1>5

(***************************************************************************)
(* The walk of stnode_free.                                                *)
(***************************************************************************)
Subtrees(h, f) ==
    f = [n \in 0..Size(h) |-> IF n = 0 THEN {} ELSE {n} \cup f[Val1(h, n)] \cup f[Val2(h, n)]]

SubtreesUpTo(h, f, r) ==
    /\ f = [n \in 0..Size(h) |-> f[n]] /\ f[0] = {}
    /\ \A n \in 1..Size(h) : Rank(h, n) < r => f[n] = {n} \cup f[Val1(h, n)] \cup f[Val2(h, n)]

LEMMA SubtreesExist ==
    ASSUME NEW h, Memory(h)
    PROVE  \E f : Subtrees(h, f)
<1>. DEFINE N == Size(h)
            T == {r \in Nat : \E f : SubtreesUpTo(h, f, r)}
<1>1. N \in Nat /\ \A n \in 1..N : Rank(h, n) \in Nat /\ Rank(h, n) < N + 1
         /\ Val1(h, n) \in 0..N /\ Val2(h, n) \in 0..N
  <2>1. N \in Nat
    BY DEF Memory, Size
  <2>2. ASSUME NEW n \in 1..N
        PROVE  Rank(h, n) \in Nat /\ Rank(h, n) <= N /\ Val1(h, n) \in 0..N /\ Val2(h, n) \in 0..N
    BY KidsBelow
  <2>. HIDE DEF N
  <2>. QED
    BY <2>1, <2>2
<1>2. \A n \in 1..N : \A k \in {Val1(h, n), Val2(h, n)} : k = 0 \/ (k \in 1..N /\ Rank(h, k) < Rank(h, n))
  <2>1. SUFFICES ASSUME NEW n \in 1..N, NEW k \in {Val1(h, n), Val2(h, n)}, k # 0
                 PROVE  k \in 1..N /\ Rank(h, k) < Rank(h, n)
    OBVIOUS
  <2>2. k \in Kids(h, n)
    BY <2>1 DEF Kids
  <2>. QED
    BY <2>2, KidsBelow
<1>. HIDE DEF N
<1>3. \A f, r : SubtreesUpTo(h, f, r) <=>
         /\ f = [n \in 0..N |-> f[n]] /\ f[0] = {}
         /\ \A n \in 1..N : Rank(h, n) < r => f[n] = {n} \cup f[Val1(h, n)] \cup f[Val2(h, n)]
  BY DEF SubtreesUpTo, N
<1>4. 0 \in T
  <2>. DEFINE f == [n \in 0..N |-> {}]
  <2>1. f[0] = {} /\ \A n \in 1..N : ~(Rank(h, n) < 0)
    BY <1>1
  <2>2. f = [n \in 0..N |-> f[n]]
    OBVIOUS
  <2>. HIDE DEF f
  <2>3. SubtreesUpTo(h, f, 0)
    BY <1>3, <2>1, <2>2
  <2>. QED
    BY <2>3
<1>5. ASSUME NEW r \in Nat, r \in T PROVE r + 1 \in T
  <2>1. PICK f : SubtreesUpTo(h, f, r)
    BY <1>5
  <2>. DEFINE g == [n \in 0..N |-> IF n = 0 THEN {} ELSE {n} \cup f[Val1(h, n)] \cup f[Val2(h, n)]]
  <2>2. g[0] = {} /\ f[0] = {}
    BY <1>1, <1>3, <2>1
  <2>3. ASSUME NEW k \in 1..N, Rank(h, k) < r PROVE g[k] = f[k]
    <3>1. f[k] = {k} \cup f[Val1(h, k)] \cup f[Val2(h, k)]
      BY <1>3, <2>1, <2>3
    <3>2. k \in 0..N /\ k # 0
      BY <1>1
    <3>. QED
      BY <3>1, <3>2
  <2>4. ASSUME NEW n \in 1..N, Rank(h, n) < r + 1
        PROVE  g[n] = {n} \cup g[Val1(h, n)] \cup g[Val2(h, n)]
    <3>1. ASSUME NEW k \in {Val1(h, n), Val2(h, n)} PROVE g[k] = f[k]
      <4>1. CASE k = 0
        BY <2>2, <4>1
      <4>2. CASE k # 0
        <5>1. k \in 1..N /\ Rank(h, k) < Rank(h, n)
          BY <1>2, <3>1, <4>2
        <5>2. Rank(h, k) < r
          BY <1>1, <2>4, <5>1
        <5>. QED
          BY <2>3, <5>1, <5>2
      <4>. QED
        BY <4>1, <4>2
    <3>2. g[n] = {n} \cup f[Val1(h, n)] \cup f[Val2(h, n)]
      OBVIOUS
    <3>. HIDE DEF g
    <3>. QED
      BY <3>1, <3>2
  <2>5. g = [n \in 0..N |-> g[n]]
    OBVIOUS
  <2>. HIDE DEF g
  <2>6. SubtreesUpTo(h, g, r + 1)
    BY <1>3, <2>2, <2>4, <2>5
  <2>. QED
    BY <2>6
<1>. HIDE DEF T
<1>6. N + 1 \in T
  BY <1>1, <1>4, <1>5, Successors
<1>7. PICK f : SubtreesUpTo(h, f, N + 1)
  BY <1>6 DEF T
<1>8. \A n \in 0..N : f[n] = IF n = 0 THEN {} ELSE {n} \cup f[Val1(h, n)] \cup f[Val2(h, n)]
  <2>1. f[0] = {} /\ \A n \in 1..N : f[n] = {n} \cup f[Val1(h, n)] \cup f[Val2(h, n)]
    BY <1>1, <1>7, <1>3
  <2>2. \A n \in 0..N : n = 0 \/ (n \in 1..N /\ n # 0)
    BY <1>1
  <2>. QED
    BY <2>1, <2>2
<1>9. f = [n \in 0..N |-> f[n]]
  BY <1>7, <1>3
<1>10. f = [n \in 0..N |-> IF n = 0 THEN {} ELSE {n} \cup f[Val1(h, n)] \cup f[Val2(h, n)]]
  BY <1>8, <1>9
<1>. QED
  BY <1>10 DEF Subtrees, N

LEMMA SubtreeIs ==
    ASSUME NEW h, Memory(h)
    PROVE  /\ Subtree(h, 0) = {}
           /\ \A n \in 1..Size(h) : Subtree(h, n) = {n} \cup Subtree(h, Val1(h, n)) \cup Subtree(h, Val2(h, n))
<1>. DEFINE f == CHOOSE f : Subtrees(h, f)
<1>1. \A n : Subtree(h, n) = f[n]
  BY DEF Subtree, Subtrees, Size, Val1, Val2
<1>2. Subtrees(h, f)
  BY SubtreesExist
<1>. HIDE DEF f
<1>3. f = [n \in 0..Size(h) |-> IF n = 0 THEN {} ELSE {n} \cup f[Val1(h, n)] \cup f[Val2(h, n)]]
  BY <1>2 DEF Subtrees
<1>4. Size(h) \in Nat
  BY DEF Memory, Size
<1>5. f[0] = {} /\ \A n \in 1..Size(h) : f[n] = {n} \cup f[Val1(h, n)] \cup f[Val2(h, n)]
  <2>1. ASSUME NEW n \in 0..Size(h) PROVE f[n] = IF n = 0 THEN {} ELSE {n} \cup f[Val1(h, n)] \cup f[Val2(h, n)]
    BY <1>3
  <2>2. 0 \in 0..Size(h) /\ \A n \in 1..Size(h) : n \in 0..Size(h) /\ n # 0
    BY <1>4
  <2>. QED
    BY <2>1, <2>2
<1>. QED
  BY <1>1, <1>5

(* It stays in any set of nodes that is closed under children ...           *)
LEMMA SubtreeLeast ==
    ASSUME NEW h, Memory(h), NEW S \in SUBSET (1..Size(h)), \A m \in S : Kids(h, m) \subseteq S,
           NEW n \in S \cup {0}
    PROVE  Subtree(h, n) \subseteq S
<1>. DEFINE T == {k \in 1..Size(h) : k \in S => Subtree(h, k) \subseteq S}
<1>1. ASSUME NEW k \in 1..Size(h), Kids(h, k) \subseteq T PROVE k \in T
  <2>1. SUFFICES ASSUME k \in S PROVE Subtree(h, k) \subseteq S
    OBVIOUS
  <2>2. ASSUME NEW v \in {Val1(h, k), Val2(h, k)} PROVE Subtree(h, v) \subseteq S
    <3>1. CASE v = 0
      BY <3>1, SubtreeIs
    <3>2. CASE v # 0
      <4>1. v \in Kids(h, k)
        BY <3>2 DEF Kids
      <4>. QED
        BY <1>1, <2>1, <4>1
    <3>. QED
      BY <3>1, <3>2
  <2>3. Subtree(h, k) = {k} \cup Subtree(h, Val1(h, k)) \cup Subtree(h, Val2(h, k))
    BY SubtreeIs
  <2>. QED
    BY <2>1, <2>2, <2>3
<1>. HIDE DEF T
<1>2. 1..Size(h) \subseteq T
  BY <1>1, ByRank
<1>3. CASE n = 0
  BY <1>3, SubtreeIs
<1>4. CASE n \in S
  BY <1>2, <1>4 DEF T
<1>. QED
  BY <1>3, <1>4

(* ... and is closed itself.                                                *)
LEMMA SubtreeClosed ==
    ASSUME NEW h, Memory(h), NEW n \in 0..Size(h)
    PROVE  /\ Subtree(h, n) \subseteq 1..Size(h) /\ (n # 0 => n \in Subtree(h, n))
           /\ \A k \in Subtree(h, n) : Kids(h, k) \subseteq Subtree(h, n)
<1>. DEFINE Good(k) == /\ Subtree(h, k) \subseteq 1..Size(h) /\ k \in Subtree(h, k)
                       /\ \A m \in Subtree(h, k) : Kids(h, m) \subseteq Subtree(h, k)
            T == {k \in 1..Size(h) : Good(k)}
<1>1. ASSUME NEW k \in 1..Size(h), Kids(h, k) \subseteq T PROVE k \in T
  <2>1. Subtree(h, k) = {k} \cup Subtree(h, Val1(h, k)) \cup Subtree(h, Val2(h, k))
    BY SubtreeIs
  <2>2. ASSUME NEW v \in {Val1(h, k), Val2(h, k)}
        PROVE  /\ Subtree(h, v) \subseteq 1..Size(h) /\ (v # 0 => v \in Subtree(h, v))
               /\ \A m \in Subtree(h, v) : Kids(h, m) \subseteq Subtree(h, v)
    <3>1. CASE v = 0
      BY <3>1, SubtreeIs
    <3>2. CASE v # 0
      <4>1. v \in Kids(h, k)
        BY <3>2 DEF Kids
      <4>. QED
        BY <1>1, <4>1
    <3>. QED
      BY <3>1, <3>2
  <2>3. Kids(h, k) \subseteq Subtree(h, k)
    BY <2>1, <2>2 DEF Kids
  <2>. QED
    BY <2>1, <2>2, <2>3
<1>. HIDE DEF T
<1>2. 1..Size(h) \subseteq T
  BY <1>1, ByRank
<1>3. CASE n = 0
  BY <1>3, SubtreeIs
<1>4. CASE n # 0
  <2>1. n \in 1..Size(h)
    <3>1. Size(h) \in Nat
      BY DEF Memory, Size
    <3>. QED
      BY <1>4, <3>1
  <2>. QED
    BY <1>2, <2>1 DEF T
<1>. QED
  BY <1>3, <1>4

(***************************************************************************)
(* The walk down the left side of a comparison.                            *)
(***************************************************************************)
Leftmosts(h, f) == f = [n \in 1..Size(h) |-> IF IsTest(h, n) THEN f[Val1(h, n)] ELSE n]

LeftmostsUpTo(h, f, r) ==
    /\ f = [n \in 1..Size(h) |-> f[n]]
    /\ \A n \in 1..Size(h) : Rank(h, n) < r => f[n] = IF IsTest(h, n) THEN f[Val1(h, n)] ELSE n

LEMMA LeftmostsExist ==
    ASSUME NEW h, Memory(h)
    PROVE  \E f : Leftmosts(h, f)
<1>. DEFINE N == Size(h)
            T == {r \in Nat : \E f : LeftmostsUpTo(h, f, r)}
<1>1. /\ N \in Nat
      /\ \A n \in 1..N : Rank(h, n) \in Nat /\ Rank(h, n) < N + 1
      /\ \A n \in 1..N : IsTest(h, n) => Val1(h, n) \in 1..N /\ Rank(h, Val1(h, n)) < Rank(h, n)
  <2>1. N \in Nat
    BY DEF Memory, Size
  <2>2. ASSUME NEW n \in 1..N
        PROVE  /\ Rank(h, n) \in Nat /\ Rank(h, n) <= N
               /\ IsTest(h, n) => Val1(h, n) \in 1..N /\ Rank(h, Val1(h, n)) < Rank(h, n)
    BY KidsBelow
  <2>. HIDE DEF N
  <2>. QED
    BY <2>1, <2>2
<1>. HIDE DEF N
<1>2. \A f, r : LeftmostsUpTo(h, f, r) <=>
         /\ f = [n \in 1..N |-> f[n]]
         /\ \A n \in 1..N : Rank(h, n) < r => f[n] = IF IsTest(h, n) THEN f[Val1(h, n)] ELSE n
  BY DEF LeftmostsUpTo, N
<1>3. 0 \in T
  <2>. DEFINE f == [n \in 1..N |-> n]
  <2>1. \A n \in 1..N : ~(Rank(h, n) < 0)
    BY <1>1
  <2>2. f = [n \in 1..N |-> f[n]]
    OBVIOUS
  <2>. HIDE DEF f
  <2>3. LeftmostsUpTo(h, f, 0)
    BY <1>2, <2>1, <2>2
  <2>. QED
    BY <2>3
<1>4. ASSUME NEW r \in Nat, r \in T PROVE r + 1 \in T
  <2>1. PICK f : LeftmostsUpTo(h, f, r)
    BY <1>4
  <2>. DEFINE g == [n \in 1..N |-> IF IsTest(h, n) THEN f[Val1(h, n)] ELSE n]
  <2>2. ASSUME NEW k \in 1..N, Rank(h, k) < r PROVE g[k] = f[k]
    BY <1>2, <2>1, <2>2
  <2>3. ASSUME NEW n \in 1..N, Rank(h, n) < r + 1
        PROVE  g[n] = IF IsTest(h, n) THEN g[Val1(h, n)] ELSE n
    <3>1. CASE IsTest(h, n)
      <4>1. Val1(h, n) \in 1..N /\ Rank(h, Val1(h, n)) < r
        <5>1. Val1(h, n) \in 1..N /\ Rank(h, Val1(h, n)) < Rank(h, n) /\ Rank(h, n) \in Nat
              /\ Rank(h, Val1(h, n)) \in Nat
          BY <1>1, <3>1
        <5>. QED
          BY <2>3, <5>1
      <4>2. g[Val1(h, n)] = f[Val1(h, n)]
        BY <2>2, <4>1
      <4>3. g[n] = f[Val1(h, n)]
        BY <3>1
      <4>. QED
        BY <3>1, <4>2, <4>3
    <3>2. CASE ~IsTest(h, n)
      BY <3>2
    <3>. QED
      BY <3>1, <3>2
  <2>4. g = [n \in 1..N |-> g[n]]
    OBVIOUS
  <2>. HIDE DEF g
  <2>5. LeftmostsUpTo(h, g, r + 1)
    BY <1>2, <2>3, <2>4
  <2>. QED
    BY <2>5
<1>. HIDE DEF T
<1>5. N + 1 \in T
  BY <1>1, <1>3, <1>4, Successors
<1>6. PICK f : LeftmostsUpTo(h, f, N + 1)
  BY <1>5 DEF T
<1>7. f = [n \in 1..N |-> f[n]] /\ \A n \in 1..N : f[n] = IF IsTest(h, n) THEN f[Val1(h, n)] ELSE n
  BY <1>1, <1>2, <1>6
<1>8. f = [n \in 1..N |-> IF IsTest(h, n) THEN f[Val1(h, n)] ELSE n]
  BY <1>7
<1>. QED
  BY <1>8 DEF Leftmosts, N

LEMMA LeftmostIs ==
    ASSUME NEW h, Memory(h), NEW n \in 1..Size(h)
    PROVE  Leftmost(h, n) = IF IsTest(h, n) THEN Leftmost(h, Val1(h, n)) ELSE n
<1>. DEFINE f == CHOOSE f : Leftmosts(h, f)
<1>1. \A m : Leftmost(h, m) = f[m]
  BY DEF Leftmost, Leftmosts, Size, Val1, IsTest
<1>2. Leftmosts(h, f)
  BY LeftmostsExist
<1>. HIDE DEF f
<1>3. f[n] = IF IsTest(h, n) THEN f[Val1(h, n)] ELSE n
  BY <1>2 DEF Leftmosts
<1>. QED
  BY <1>1, <1>3

(* It ends at a leaf, and stays in any set of nodes closed under children.  *)
LEMMA LeftmostLeaf ==
    ASSUME NEW h, Memory(h), NEW S \in SUBSET (1..Size(h)), \A m \in S : Kids(h, m) \subseteq S,
           NEW n \in S
    PROVE  Leftmost(h, n) \in S /\ ~IsTest(h, Leftmost(h, n))
<1>. DEFINE T == {k \in 1..Size(h) : k \in S => Leftmost(h, k) \in S /\ ~IsTest(h, Leftmost(h, k))}
<1>1. ASSUME NEW k \in 1..Size(h), Kids(h, k) \subseteq T PROVE k \in T
  <2>1. SUFFICES ASSUME k \in S PROVE Leftmost(h, k) \in S /\ ~IsTest(h, Leftmost(h, k))
    OBVIOUS
  <2>2. CASE IsTest(h, k)
    <3>1. Val1(h, k) \in Kids(h, k)
      BY <2>2, KidsBelow
    <3>2. Val1(h, k) \in T /\ Val1(h, k) \in S
      BY <1>1, <2>1, <3>1
    <3>3. Leftmost(h, k) = Leftmost(h, Val1(h, k))
      BY <2>2, LeftmostIs
    <3>. QED
      BY <3>2, <3>3
  <2>3. CASE ~IsTest(h, k)
    BY <2>1, <2>3, LeftmostIs
  <2>. QED
    BY <2>2, <2>3
<1>. HIDE DEF T
<1>2. 1..Size(h) \subseteq T
  BY <1>1, ByRank
<1>. QED
  BY <1>2 DEF T

(***************************************************************************)
(* Ownership.  R are the nodes that something outside the heap refers to.  *)
(* A live node is one of them, or the child of one live test, by one of    *)
(* its two pointers.                                                       *)
(***************************************************************************)
Held(h, R) ==
    /\ h.ok /\ Memory(h)
    /\ R \subseteq h.live
    /\ \A m \in h.live : Kids(h, m) \subseteq h.live \ R
    /\ \A m \in h.live : Val1(h, m) = Val2(h, m) => Val1(h, m) = 0
    /\ \A m, n \in h.live : m # n => Kids(h, m) \cap Kids(h, n) = {}

NoneLost(h, R) == \A n \in h.live : n \in R \/ \E m \in h.live : n \in Kids(h, m)

(* An operation that leaves R2 where R1 was.                                *)
Hands(h1, R1, h2, R2) ==
    /\ Held(h2, R2)
    /\ NoneLost(h1, R1) => NoneLost(h2, R2)
    /\ Size(h1) <= Size(h2)

(* stnode_free and test_free.                                               *)
LEMMA FreeRoot ==
    ASSUME NEW h, NEW R, Held(h, R), NEW n \in R \cup {0}
    PROVE  Hands(h, R, stnode_free(h, n), R \ {n})
<1>. DEFINE S == Subtree(h, n)
            g == stnode_free(h, n)
<1>1. /\ Memory(h) /\ h.live \subseteq 1..Size(h) /\ R \subseteq h.live /\ h.ok
      /\ Size(h) \in Nat /\ n \in 0..Size(h)
      /\ h \in [node : Seq(stnode_t), live : SUBSET Nat, ok : BOOLEAN]
  BY DEF Held, Memory, Size
<1>2. n # 0 => n \in S
  BY <1>1, SubtreeClosed
<1>3. \A k \in S : Kids(h, k) \subseteq S
  BY <1>1, SubtreeClosed
<1>4. S \subseteq h.live \ (R \ {n})
  <2>. DEFINE T == h.live \ (R \ {n})
  <2>1. T \in SUBSET (1..Size(h)) /\ n \in T \cup {0}
    BY <1>1
  <2>2. \A m \in T : Kids(h, m) \subseteq T
    BY DEF Held
  <2>. HIDE DEF T
  <2>3. Subtree(h, n) \subseteq T
    BY <1>1, <2>1, <2>2, SubtreeLeast
  <2>. QED
    BY <2>3 DEF T
<1>5. \A k \in S : k = n \/ \E m \in S : k \in Kids(h, m)
  <2>. DEFINE T == {k \in S : k = n \/ \E m \in S : k \in Kids(h, m)}
  <2>1. T \in SUBSET (1..Size(h)) /\ n \in T \cup {0}
    BY <1>1, <1>2, <1>4
  <2>2. \A m \in T : Kids(h, m) \subseteq T
    BY <1>3
  <2>. HIDE DEF T, S
  <2>3. Subtree(h, n) \subseteq T
    BY <1>1, <2>1, <2>2, SubtreeLeast
  <2>. QED
    BY <2>3 DEF T, S
<1>6. g = [h EXCEPT !.live = @ \ S, !.ok = @ /\ S \subseteq h.live]
  BY DEF stnode_free
<1>7. g.ok /\ g.live = h.live \ S /\ g.node = h.node
  <2>1. g.live = h.live \ S /\ g.node = h.node
    BY <1>1, <1>6
  <2>2. g.ok = (h.ok /\ S \subseteq h.live)
    BY <1>1, <1>6
  <2>. QED
    BY <1>1, <1>4, <2>1, <2>2
<1>8. /\ Size(g) = Size(h)
      /\ \A m : IsTest(g, m) = IsTest(h, m) /\ Val1(g, m) = Val1(h, m) /\ Val2(g, m) = Val2(h, m)
      /\ \A m : Kids(g, m) = Kids(h, m)
  BY <1>7 DEF Size, IsTest, Val1, Val2, Kids
<1>9. g \in [node : Seq(stnode_t), live : SUBSET Nat, ok : BOOLEAN]
  <2>1. h.live \ S \in SUBSET Nat /\ (h.ok /\ S \subseteq h.live) \in BOOLEAN
    BY <1>1
  <2>. QED
    BY <1>1, <1>6, <2>1
<1>. HIDE DEF g, S
<1>10. Memory(g)
  BY <1>1, <1>7, <1>8, <1>9 DEF Memory, Child
<1>11. \A m \in g.live : Kids(g, m) \subseteq g.live
  <2>1. SUFFICES ASSUME NEW m \in h.live, m \notin S, NEW k \in Kids(h, m), k \in S PROVE FALSE
    BY <1>7, <1>8 DEF Held
  <2>2. k # n
    <3>1. k \in h.live /\ k \notin R
      BY DEF Held
    <3>. QED
      BY <1>1, <3>1
  <2>3. PICK m2 \in S : k \in Kids(h, m2)
    BY <1>5, <2>1, <2>2
  <2>4. m2 \in h.live /\ m2 # m
    BY <1>4, <2>1
  <2>. QED
    BY <2>3, <2>4 DEF Held
<1>12. R \ {n} \subseteq g.live
  BY <1>1, <1>4, <1>7
<1>13. Held(g, R \ {n})
  <2>1. \A m \in g.live : Kids(g, m) \subseteq g.live \ (R \ {n})
    BY <1>7, <1>8, <1>11 DEF Held
  <2>. QED
    BY <1>7, <1>8, <1>10, <1>12, <2>1 DEF Held
<1>14. NoneLost(h, R) => NoneLost(g, R \ {n})
  <2>1. SUFFICES ASSUME NoneLost(h, R), NEW k \in h.live, k \notin S
                 PROVE  k \in R \ {n} \/ \E m \in g.live : k \in Kids(h, m)
    BY <1>7, <1>8 DEF NoneLost
  <2>2. CASE k \in R
    BY <1>1, <1>2, <2>1, <2>2
  <2>3. CASE k \notin R
    <3>1. PICK m \in h.live : k \in Kids(h, m)
      BY <2>1, <2>3 DEF NoneLost
    <3>2. m \notin S
      BY <1>3, <2>1, <3>1
    <3>. QED
      BY <1>7, <3>1, <3>2
  <2>. QED
    BY <2>2, <2>3
<1>. QED
  BY <1>1, <1>8, <1>13, <1>14 DEF Hands, g

(* A node is made, and takes over the nodes it refers to.                   *)
LEMMA AddNode ==
    ASSUME NEW h, NEW R, Held(h, R), NEW c \in stnode_t, NEW K, K = {c.val1, c.val2} \ {0}, K \subseteq R,
           c.val1 = c.val2 => c.val1 = 0, c.type = "TEST" <=> c.val1 # 0, c.type # "TEST" => c.val2 = 0,
           Arity(c)
    PROVE  Hands(h, R, Add(h, c), (R \ K) \cup {Fresh(h)}) /\ Fresh(h) \notin R /\ Fresh(h) # 0
           /\ Fresh(h) = Size(h) + 1 /\ Size(Add(h, c)) = Size(h) + 1
<1>. DEFINE N == Size(h)
            g == Add(h, c)
            F == N + 1
            Q == (R \ K) \cup {F}
<1>1. /\ Memory(h) /\ h.live \subseteq 1..N /\ R \subseteq h.live /\ h.ok /\ N \in Nat
      /\ h \in [node : Seq(stnode_t), live : SUBSET Nat, ok : BOOLEAN]
      /\ h.node \in Seq(stnode_t) /\ h.live \subseteq Nat
  BY DEF Held, Memory, Size
<1>2. Fresh(h) = F
  BY DEF Fresh, Size
<1>3. g = [h EXCEPT !.node = Append(@, c), !.live = @ \cup {F}]
  BY <1>2 DEF Add
<1>4. /\ Append(h.node, c) \in Seq(stnode_t) /\ Len(Append(h.node, c)) = N + 1
      /\ Append(h.node, c)[F] = c /\ \A m \in 1..N : Append(h.node, c)[m] = h.node[m]
  BY <1>1 DEF Size
<1>5. g.node = Append(h.node, c) /\ g.live = h.live \cup {F} /\ g.ok
  BY <1>1, <1>3
<1>. HIDE DEF g
<1>6. /\ Size(g) = N + 1
      /\ \A m \in 1..N : IsTest(g, m) = IsTest(h, m) /\ Val1(g, m) = Val1(h, m) /\ Val2(g, m) = Val2(h, m)
      /\ IsTest(g, F) = (c.type = "TEST") /\ Val1(g, F) = c.val1 /\ Val2(g, F) = c.val2
  BY <1>4, <1>5 DEF Size, IsTest, Val1, Val2
<1>7. /\ Kids(g, F) = K /\ \A m \in 1..N : Kids(g, m) = Kids(h, m)
  BY <1>6 DEF Kids
<1>8. g \in [node : Seq(stnode_t), live : SUBSET Nat, ok : BOOLEAN]
  <2>1. F \in Nat
    BY <1>1
  <2>. QED
    BY <1>1, <1>3, <1>4, <2>1
<1>. HIDE DEF N
<1>9. K \subseteq 1..N
  BY <1>1
<1>10. Memory(g)
  <2>1. g.live \subseteq 1..Size(g)
    BY <1>1, <1>5, <1>6
  <2>2. ASSUME NEW n \in 1..Size(g)
        PROVE  IF IsTest(g, n) THEN Child(g, n, Val1(g, n)) /\ (Val2(g, n) = 0 \/ Child(g, n, Val2(g, n)))
               ELSE Val1(g, n) = 0 /\ Val2(g, n) = 0
    <3>1. CASE n = F
      <4>1. IsTest(g, F) => c.val1 \in K /\ (c.val2 = 0 \/ c.val2 \in K)
        <5>1. ASSUME c.type = "TEST" PROVE c.val1 \in K /\ (c.val2 = 0 \/ c.val2 \in K)
          BY <5>1
        <5>. QED
          BY <1>6, <5>1
      <4>2. \A k \in K : Child(g, F, k)
        BY <1>1, <1>6, <1>9 DEF Child
      <4>3. ~IsTest(g, F) => c.val1 = 0 /\ c.val2 = 0
        BY <1>6
      <4>. QED
        BY <1>6, <3>1, <4>1, <4>2, <4>3
    <3>2. CASE n # F
      <4>1. n \in 1..N
        BY <1>1, <1>6, <3>2
      <4>2. IF IsTest(h, n) THEN Child(h, n, Val1(h, n)) /\ (Val2(h, n) = 0 \/ Child(h, n, Val2(h, n)))
            ELSE Val1(h, n) = 0 /\ Val2(h, n) = 0
        BY <1>1, <4>1 DEF Memory, N
      <4>3. \A k : Child(h, n, k) => Child(g, n, k)
        BY <1>1, <1>6 DEF Child, N
      <4>. QED
        BY <1>6, <4>1, <4>2, <4>3
    <3>. QED
      BY <3>1, <3>2
  <2>3. ASSUME NEW n \in 1..Size(g) PROVE Arity(g.node[n])
    <3>1. n = F \/ n \in 1..N
      BY <1>1, <1>6
    <3>2. \A m \in 1..N : Arity(h.node[m])
      BY <1>1 DEF Memory, N
    <3>. QED
      BY <1>4, <1>5, <3>1, <3>2
  <2>. QED
    BY <1>8, <2>1, <2>2, <2>3 DEF Memory
<1>11. F \notin 1..N /\ F # 0
  BY <1>1
<1>12. \A m \in h.live : m \in 1..N /\ Kids(h, m) \subseteq h.live \ R
  BY <1>1 DEF Held
<1>. HIDE DEF F
<1>13. Held(g, Q)
  <2>1. Q \subseteq g.live
    BY <1>1, <1>5
  <2>2. ASSUME NEW m \in g.live PROVE Kids(g, m) \subseteq g.live \ Q
    BY <1>1, <1>5, <1>7, <1>9, <1>11, <1>12
  <2>3. ASSUME NEW m \in g.live, Val1(g, m) = Val2(g, m) PROVE Val1(g, m) = 0
    BY <1>5, <1>6, <1>12, <2>3 DEF Held
  <2>4. ASSUME NEW m \in g.live, NEW n \in g.live, m # n PROVE Kids(g, m) \cap Kids(g, n) = {}
    <3>1. CASE m = F \/ n = F
      BY <1>5, <1>7, <1>12, <2>4, <3>1
    <3>2. CASE m # F /\ n # F
      <4>1. m \in h.live /\ n \in h.live
        BY <1>5, <3>2
      <4>2. Kids(h, m) \cap Kids(h, n) = {}
        BY <2>4, <4>1 DEF Held
      <4>. QED
        BY <1>7, <1>12, <4>1, <4>2
    <3>. QED
      BY <3>1, <3>2
  <2>. HIDE DEF Q
  <2>. QED
    BY <1>5, <1>10, <2>1, <2>2, <2>3, <2>4 DEF Held
<1>14. NoneLost(h, R) => NoneLost(g, Q)
  <2>1. SUFFICES ASSUME NoneLost(h, R), NEW n \in h.live, n \notin Q
                 PROVE  \E m \in g.live : n \in Kids(g, m)
    BY <1>5 DEF NoneLost
  <2>2. CASE n \in K
    BY <1>5, <1>7, <2>2
  <2>3. CASE n \notin K
    <3>1. PICK m \in h.live : n \in Kids(h, m)
      BY <2>1, <2>3 DEF NoneLost
    <3>. QED
      BY <1>5, <1>7, <1>12, <3>1
  <2>. QED
    BY <2>2, <2>3
<1>15. F \notin R
  BY <1>1, <1>11
<1>16. Size(h) <= Size(g)
  BY <1>1, <1>6 DEF N
<1>. QED
  BY <1>2, <1>6, <1>11, <1>13, <1>14, <1>15, <1>16 DEF Hands, g, F, N

(***************************************************************************)
(* The operations of the parser and the scanner.                           *)
(***************************************************************************)
LEMMA HandsOver ==
    ASSUME NEW h1, NEW R1, NEW h2, NEW R2, NEW h3, NEW R3, Held(h1, R1),
           Hands(h1, R1, h2, R2), Hands(h2, R2, h3, R3)
    PROVE  Hands(h1, R1, h3, R3)
<1>1. Size(h1) \in Nat /\ Size(h2) \in Nat /\ Size(h3) \in Nat
  BY DEF Hands, Held, Memory, Size
<1>. QED
  BY <1>1 DEF Hands

LEMMA LeafNode ==
    ASSUME NEW type \in Types \ {"TEST"}, NEW t \in Texts, NEW v \in Values
    PROVE  /\ Leaf(type, t, v) \in stnode_t /\ Leaf(type, t, v).type # "TEST"
           /\ Leaf(type, t, v).val1 = 0 /\ Leaf(type, t, v).val2 = 0
           /\ Arity(Leaf(type, t, v))
BY DEF Leaf, stnode_t, Types, Ops, Arity

LEMMA NewNode ==
    ASSUME NEW h, NEW R, Held(h, R)
    PROVE  /\ Hands(h, R, stnode_new(h), R \cup {Fresh(h)})
           /\ Fresh(h) \notin R /\ Fresh(h) # 0 /\ Fresh(h) \in Nat
<1>. DEFINE c == Leaf("UNINITIALIZED", "", 0)
            K == {c.val1, c.val2} \ {0}
<1>1. "" \in Texts /\ 0 \in Values /\ "UNINITIALIZED" \in Types \ {"TEST"}
  BY DEF Texts, Values, Types
<1>2. c \in stnode_t /\ c.type # "TEST" /\ c.val1 = 0 /\ c.val2 = 0 /\ Arity(c)
  BY <1>1, LeafNode
<1>3. stnode_new(h) = Add(h, c)
  BY DEF stnode_new
<1>. HIDE DEF c
<1>4. K = {}
  BY <1>2
<1>5. c.val1 = c.val2 => c.val1 = 0
  BY <1>2
<1>6. c.type = "TEST" <=> c.val1 # 0
  BY <1>2
<1>7. K \subseteq R
  BY <1>4
<1>. HIDE DEF K
<1>8. /\ Hands(h, R, Add(h, c), (R \ K) \cup {Fresh(h)}) /\ Fresh(h) \notin R /\ Fresh(h) # 0
      /\ Fresh(h) = Size(h) + 1
  BY <1>2, <1>5, <1>6, <1>7, AddNode DEF K
<1>9. Size(h) \in Nat
  BY DEF Held, Memory, Size
<1>. QED
  BY <1>3, <1>4, <1>8, <1>9

(* The scanner gives a node its contents before anybody refers to it.       *)
LEMMA InitNode ==
    ASSUME NEW h, NEW R, Held(h, R), NEW type \in Types \ {"TEST"}, NEW t \in Texts, NEW v \in Values
    PROVE  Hands(h, R, stnode_init(stnode_new(h), Fresh(h), type, t, v), R \cup {Fresh(h)})
<1>. DEFINE c == Leaf(type, t, v)
            u == Leaf("UNINITIALIZED", "", 0)
            F == Fresh(h)
            g == stnode_init(stnode_new(h), F, type, t, v)
            K == {c.val1, c.val2} \ {0}
<1>1. c \in stnode_t /\ c.type # "TEST" /\ c.val1 = 0 /\ c.val2 = 0 /\ Arity(c)
  BY LeafNode
<1>2. u \in stnode_t
  <2>1. "" \in Texts /\ 0 \in Values /\ "UNINITIALIZED" \in Types \ {"TEST"}
    BY DEF Texts, Values, Types
  <2>. QED
    BY <2>1, LeafNode
<1>3. stnode_new(h) = Add(h, u)
  BY DEF stnode_new
<1>4. g = [[Add(h, u) EXCEPT !.node[F] = c] EXCEPT !.ok = @ /\ F \in [Add(h, u) EXCEPT !.node[F] = c].live]
  BY <1>3 DEF stnode_init, Used
<1>. HIDE DEF c, u, g
<1>5. h \in [node : Seq(stnode_t), live : SUBSET Nat, ok : BOOLEAN] /\ h.ok /\ h.node \in Seq(stnode_t)
  BY DEF Held, Memory
<1>6. F \in Nat /\ F = Len(h.node) + 1
  BY <1>5 DEF Fresh
<1>. DEFINE a == Append(h.node, u)
            b == Append(h.node, c)
<1>7. a \in Seq(stnode_t) /\ b \in Seq(stnode_t) /\ [a EXCEPT ![F] = c] = b
  <2>1. a \in Seq(stnode_t) /\ b \in Seq(stnode_t) /\ Len(a) = F /\ Len(b) = F
        /\ b[F] = c /\ \A i \in 1..Len(h.node) : a[i] = b[i]
    BY <1>1, <1>2, <1>5, <1>6
  <2>. HIDE DEF a, b
  <2>2. [a EXCEPT ![F] = c] \in Seq(stnode_t) /\ Len([a EXCEPT ![F] = c]) = F
    <3>1. F \in 1..Len(a)
      BY <1>6, <2>1
    <3>. HIDE DEF F
    <3>. QED
      BY <1>1, <2>1, <3>1, ExceptSeq
  <2>3. \A i \in 1..F : [a EXCEPT ![F] = c][i] = b[i]
    <3>1. \A i \in 1..F : i = F \/ i \in 1..Len(h.node)
      BY <1>5, <1>6
    <3>2. F \in 1..Len(a) /\ DOMAIN a = 1..Len(a)
      BY <1>6, <2>1
    <3>. QED
      BY <2>1, <3>1, <3>2
  <2>. HIDE DEF F
  <2>. QED
    BY <2>1, <2>2, <2>3, SeqEqual
<1>8. Add(h, u) = [h EXCEPT !.node = a, !.live = @ \cup {F}] /\ Add(h, c) = [h EXCEPT !.node = b, !.live = @ \cup {F}]
  BY DEF Add
<1>. DEFINE x == Add(h, u)
            y == Add(h, c)
<1>. HIDE DEF a, b, F
<1>9. /\ x \in [node : Seq(stnode_t), live : SUBSET Nat, ok : BOOLEAN] /\ x.node = a /\ x.live = h.live \cup {F}
      /\ y \in [node : Seq(stnode_t), live : SUBSET Nat, ok : BOOLEAN] /\ y.node = b /\ y.live = h.live \cup {F}
  <2>1. h.live \cup {F} \in SUBSET Nat
    BY <1>5, <1>6
  <2>2. x \in [node : Seq(stnode_t), live : SUBSET Nat, ok : BOOLEAN] /\ x.node = a /\ x.live = h.live \cup {F}
    BY <1>5, <1>7, <1>8, <2>1
  <2>3. y \in [node : Seq(stnode_t), live : SUBSET Nat, ok : BOOLEAN] /\ y.node = b /\ y.live = h.live \cup {F}
    BY <1>5, <1>7, <1>8, <2>1
  <2>. QED
    BY <2>2, <2>3
<1>10. x.ok = h.ok /\ y.ok = h.ok
  BY <1>5, <1>8
<1>. HIDE DEF x, y
<1>. DEFINE z == [x EXCEPT !.node[F] = c]
<1>11. z.node = [a EXCEPT ![F] = c] /\ z.live = x.live /\ z \in [node : Seq(stnode_t), live : SUBSET Nat, ok : BOOLEAN]
  BY <1>7, <1>9
<1>12. z.ok = x.ok
  BY <1>9
<1>13. g = [z EXCEPT !.ok = @ /\ F \in z.live]
  BY <1>4 DEF x
<1>. HIDE DEF z
<1>14. (z.ok /\ F \in z.live) = y.ok
  BY <1>5, <1>9, <1>10, <1>11, <1>12
<1>15. g = [node |-> y.node, live |-> y.live, ok |-> y.ok]
  BY <1>7, <1>9, <1>11, <1>13, <1>14
<1>16. g = Add(h, c)
  BY <1>9, <1>15 DEF y
<1>17. K = {}
  BY <1>1
<1>18. c.val1 = c.val2 => c.val1 = 0
  BY <1>1
<1>19. c.type = "TEST" <=> c.val1 # 0
  BY <1>1
<1>20. K \subseteq R
  BY <1>17
<1>. HIDE DEF K
<1>21. Hands(h, R, Add(h, c), (R \ K) \cup {Fresh(h)})
  BY <1>1, <1>18, <1>19, <1>20, AddNode DEF K
<1>. QED
  BY <1>16, <1>17, <1>21 DEF g, F

Needs(op, b) == b = 0 => op = "EXISTS"

LEMMA NewTest ==
    ASSUME NEW h, NEW R, Held(h, R), NEW op \in Ops, NEW a \in R, NEW b \in R \cup {0}, a # b, a # 0,
           Needs(op, b)
    PROVE  /\ Hands(h, R, new_test(h, op, a, b), (R \ {a, b}) \cup {Fresh(h)})
           /\ Fresh(h) \notin R /\ Fresh(h) # 0 /\ Fresh(h) = Size(h) + 1
           /\ Size(new_test(h, op, a, b)) = Size(h) + 1
<1>. DEFINE c == [Leaf("TEST", "", 0) EXCEPT !.op = op, !.val1 = a, !.val2 = b]
            K == {c.val1, c.val2} \ {0}
<1>1. a \in Nat /\ b \in Nat /\ 0 \notin R
  BY DEF Held, Memory
<1>2. "" \in Texts /\ 0 \in Values
  BY DEF Texts, Values
<1>3. c \in stnode_t /\ c.type = "TEST" /\ c.val1 = a /\ c.val2 = b /\ c.op = op
  BY <1>1, <1>2 DEF Leaf, stnode_t, Types
<1>4. Arity(c)
  BY <1>3 DEF Arity, Needs
<1>5. new_test(h, op, a, b) = Add(h, c)
  BY DEF new_test
<1>. HIDE DEF c
<1>6. K = {a, b} \ {0}
  BY <1>3
<1>7. K \subseteq R
  BY <1>6
<1>8. c.val1 = c.val2 => c.val1 = 0
  BY <1>3
<1>9. c.type = "TEST" <=> c.val1 # 0
  BY <1>3
<1>10. R \ K = R \ {a, b}
  BY <1>1, <1>6
<1>. HIDE DEF K
<1>11. /\ Hands(h, R, Add(h, c), (R \ K) \cup {Fresh(h)})
       /\ Fresh(h) \notin R /\ Fresh(h) # 0 /\ Fresh(h) = Size(h) + 1 /\ Size(Add(h, c)) = Size(h) + 1
  BY <1>3, <1>7, <1>8, <1>9, <1>4, AddNode DEF K
<1>. QED
  BY <1>5, <1>10, <1>11

LEMMA SetBracket ==
    ASSUME NEW h, NEW R, Held(h, R), NEW n \in R
    PROVE  Hands(h, R, stnode_set_bracket(h, n), R)
<1>. DEFINE g == stnode_set_bracket(h, n)
            x == [h EXCEPT !.node[n].brackets = TRUE]
<1>1. /\ h \in [node : Seq(stnode_t), live : SUBSET Nat, ok : BOOLEAN] /\ h.ok /\ h.node \in Seq(stnode_t)
      /\ n \in h.live /\ n \in 1..Len(h.node) /\ Memory(h)
  BY DEF Held, Memory, Size
<1>2. h.node[n] \in stnode_t
  BY <1>1
<1>. DEFINE c == [h.node[n] EXCEPT !.brackets = TRUE]
<1>3. c \in stnode_t /\ c.type = h.node[n].type /\ c.val1 = h.node[n].val1 /\ c.val2 = h.node[n].val2
      /\ c.op = h.node[n].op
  BY <1>2 DEF stnode_t
<1>4. x = [h EXCEPT !.node = [@ EXCEPT ![n] = c]]
  BY <1>1
<1>. HIDE DEF c
<1>. DEFINE s == [h.node EXCEPT ![n] = c]
<1>5. /\ s \in Seq(stnode_t) /\ Len(s) = Len(h.node) /\ s[n] = c
      /\ \A i \in 1..Len(h.node) : i # n => s[i] = h.node[i]
  BY <1>1, <1>3
<1>6. x = [h EXCEPT !.node = s]
  BY <1>4
<1>7. g = [x EXCEPT !.ok = @ /\ n \in x.live]
  BY DEF stnode_set_bracket, Used
<1>. HIDE DEF s, x, g
<1>8. x.node = s /\ x.live = h.live /\ x \in [node : Seq(stnode_t), live : SUBSET Nat, ok : BOOLEAN]
  BY <1>1, <1>5, <1>6
<1>9. x.ok = h.ok
  BY <1>1, <1>6
<1>10. (x.ok /\ n \in x.live) = TRUE
  BY <1>1, <1>8, <1>9
<1>11. g = [node |-> s, live |-> h.live, ok |-> TRUE]
  BY <1>7, <1>8, <1>10
<1>12. g \in [node : Seq(stnode_t), live : SUBSET Nat, ok : BOOLEAN] /\ g.node = s /\ g.live = h.live /\ g.ok
  BY <1>1, <1>5, <1>11
<1>13. Size(g) = Size(h)
  BY <1>5, <1>12 DEF Size
<1>14. \A i \in 1..Size(h) : /\ IsTest(g, i) = IsTest(h, i) /\ Val1(g, i) = Val1(h, i) /\ Val2(g, i) = Val2(h, i)
                             /\ Kids(g, i) = Kids(h, i)
  BY <1>3, <1>5, <1>12 DEF IsTest, Val1, Val2, Kids, Size
<1>15. h.live \subseteq 1..Size(h)
  BY <1>1 DEF Memory
<1>16. Memory(g)
  <2>1. \A k : \A i \in 1..Size(h) : Child(h, i, k) => Child(g, i, k)
    BY <1>13, <1>14 DEF Child
  <2>2. ASSUME NEW i \in 1..Size(g) PROVE Arity(g.node[i])
    <3>1. Arity(h.node[i])
      BY <1>1, <1>13 DEF Memory
    <3>2. i \in 1..Len(h.node)
      BY <1>13 DEF Size
    <3>3. g.node[i] = IF i = n THEN c ELSE h.node[i]
      BY <1>5, <1>12, <3>2
    <3>. QED
      BY <1>3, <3>1, <3>3 DEF Arity
  <2>. QED
    BY <1>1, <1>12, <1>13, <1>14, <2>1, <2>2 DEF Memory
<1>17. Held(g, R)
  BY <1>12, <1>14, <1>15, <1>16 DEF Held
<1>18. NoneLost(h, R) => NoneLost(g, R)
  BY <1>12, <1>14, <1>15 DEF NoneLost
<1>19. Size(h) \in Nat
  BY <1>1 DEF Size
<1>. QED
  BY <1>13, <1>17, <1>18, <1>19 DEF Hands, g

(* The chain a < b < c: the test of a and b is made before b is copied, so  *)
(* it refers to the node that comes next.                                   *)
LEMMA ChainFirst ==
    ASSUME NEW h, NEW R, Held(h, R), NEW op \in Ops, NEW a \in R,
           NEW leaf \in h.live, ~IsTest(h, leaf)
    PROVE  LET L == Fresh(h)
               g == stnode_dup(new_test(h, op, a, L + 1), leaf)
           IN /\ Hands(h, R, g, (R \ {a}) \cup {L})
              /\ L \notin R /\ L # 0 /\ L = Size(h) + 1 /\ Size(g) = Size(h) + 2
<1>. DEFINE N == Size(h)
            L == N + 1
            M == N + 2
            t == [Leaf("TEST", "", 0) EXCEPT !.op = op, !.val1 = a, !.val2 = M]
            x == Add(h, t)
            c == h.node[leaf]
            y == Add(x, c)
            g == Used(y, leaf)
            Q == (R \ {a}) \cup {L}
<1>1. /\ Memory(h) /\ h.live \subseteq 1..N /\ R \subseteq h.live /\ h.ok /\ N \in Nat
      /\ h \in [node : Seq(stnode_t), live : SUBSET Nat, ok : BOOLEAN]
      /\ h.node \in Seq(stnode_t) /\ h.live \subseteq Nat /\ N = Len(h.node)
  BY DEF Held, Memory, Size
<1>2. L \in Nat /\ M \in Nat /\ M = L + 1 /\ a \in 1..N /\ leaf \in 1..N
  BY <1>1
<1>3. t \in stnode_t /\ t.type = "TEST" /\ t.val1 = a /\ t.val2 = M /\ Arity(t)
  <2>1. "" \in Texts /\ 0 \in Values
    BY DEF Texts, Values
  <2>2. t \in stnode_t /\ t.type = "TEST" /\ t.val1 = a /\ t.val2 = M
    BY <1>1, <1>2, <2>1 DEF Leaf, stnode_t, Types
  <2>3. M # 0
    BY <1>1
  <2>. QED
    BY <2>2, <2>3 DEF Arity
<1>4. c \in stnode_t /\ c.type # "TEST" /\ c.val1 = 0 /\ c.val2 = 0
  <2>1. c \in stnode_t
    BY <1>1, <1>2
  <2>2. Val1(h, leaf) = 0 /\ Val2(h, leaf) = 0
    BY <1>1, <1>2 DEF Memory
  <2>. QED
    BY <2>1, <2>2 DEF Val1, Val2, IsTest
<1>5. Fresh(h) = L /\ new_test(h, op, a, L + 1) = x
  BY <1>1, <1>2 DEF Fresh, new_test
<1>. HIDE DEF t
<1>6. x = [h EXCEPT !.node = Append(@, t), !.live = @ \cup {L}]
  BY <1>5 DEF Add
<1>. HIDE DEF N, x
<1>. DEFINE u == Append(h.node, t)
<1>7. /\ u \in Seq(stnode_t) /\ Len(u) = L /\ u[L] = t /\ \A i \in 1..N : u[i] = h.node[i]
  BY <1>1, <1>3
<1>8. x \in [node : Seq(stnode_t), live : SUBSET Nat, ok : BOOLEAN] /\ x.node = u /\ x.live = h.live \cup {L}
  <2>1. h.live \cup {L} \in SUBSET Nat
    BY <1>1, <1>2
  <2>. QED
    BY <1>1, <1>6, <1>7, <2>1
<1>9. x.ok = h.ok
  BY <1>1, <1>6
<1>. HIDE DEF u
<1>10. x.node[leaf] = c /\ Fresh(x) = M
  <2>1. x.node[leaf] = h.node[leaf]
    BY <1>2, <1>7, <1>8
  <2>2. Len(x.node) = L
    BY <1>7, <1>8
  <2>. QED
    BY <1>2, <2>1, <2>2 DEF Fresh
<1>11. stnode_dup(x, leaf) = g
  BY <1>10 DEF stnode_dup
<1>. HIDE DEF c
<1>. DEFINE w == Append(u, c)
<1>12. y = [x EXCEPT !.node = w, !.live = @ \cup {M}]
  BY <1>8, <1>10 DEF Add
<1>13. /\ w \in Seq(stnode_t) /\ Len(w) = M /\ w[M] = c /\ w[L] = t
       /\ \A i \in 1..N : w[i] = h.node[i]
  <2>1. w \in Seq(stnode_t) /\ Len(w) = M /\ w[M] = c /\ \A i \in 1..L : w[i] = u[i]
    BY <1>2, <1>4, <1>7
  <2>2. L \in 1..L /\ \A i \in 1..N : i \in 1..L
    BY <1>1
  <2>. HIDE DEF w, L, M
  <2>. QED
    BY <1>7, <2>1, <2>2
<1>. HIDE DEF y, w
<1>14. y \in [node : Seq(stnode_t), live : SUBSET Nat, ok : BOOLEAN] /\ y.node = w /\ y.live = h.live \cup {L, M}
  <2>1. x.live \cup {M} \in SUBSET Nat
    BY <1>2, <1>8
  <2>2. y \in [node : Seq(stnode_t), live : SUBSET Nat, ok : BOOLEAN] /\ y.node = w /\ y.live = x.live \cup {M}
    BY <1>8, <1>12, <1>13, <2>1
  <2>. QED
    BY <1>8, <2>2
<1>15. y.ok = x.ok
  BY <1>8, <1>12
<1>16. (y.ok /\ leaf \in y.live) = TRUE
  BY <1>1, <1>9, <1>14, <1>15
<1>17. g = [y EXCEPT !.ok = @ /\ leaf \in y.live]
  BY DEF Used
<1>. HIDE DEF g
<1>18. g = [node |-> w, live |-> h.live \cup {L, M}, ok |-> TRUE]
  BY <1>14, <1>16, <1>17
<1>19. g \in [node : Seq(stnode_t), live : SUBSET Nat, ok : BOOLEAN] /\ g.node = w /\ g.live = h.live \cup {L, M} /\ g.ok
  <2>1. h.live \cup {L, M} \in SUBSET Nat
    BY <1>1, <1>2
  <2>. QED
    BY <1>13, <1>18, <2>1
<1>20. /\ Size(g) = M
       /\ \A m \in 1..N : IsTest(g, m) = IsTest(h, m) /\ Val1(g, m) = Val1(h, m) /\ Val2(g, m) = Val2(h, m)
       /\ IsTest(g, L) /\ Val1(g, L) = a /\ Val2(g, L) = M
       /\ ~IsTest(g, M) /\ Val1(g, M) = 0 /\ Val2(g, M) = 0
  BY <1>3, <1>4, <1>13, <1>19 DEF Size, IsTest, Val1, Val2
<1>. HIDE DEF L, M
<1>21. L \notin 1..N /\ M \notin 1..N /\ L # M /\ L # 0 /\ M # 0 /\ a # 0 /\ a # L /\ a # M
       /\ \A i : i \in 1..M <=> i \in 1..N \/ i = L \/ i = M
  BY <1>1, <1>2 DEF L, M
<1>22. /\ Kids(g, L) = {a, M} /\ Kids(g, M) = {}
       /\ \A m \in 1..N : Kids(g, m) = Kids(h, m)
  BY <1>20, <1>21 DEF Kids
<1>23. Memory(g)
  <2>1. g.live \subseteq 1..Size(g)
    BY <1>1, <1>19, <1>20, <1>21
  <2>2. ASSUME NEW n \in 1..Size(g)
        PROVE  IF IsTest(g, n) THEN Child(g, n, Val1(g, n)) /\ (Val2(g, n) = 0 \/ Child(g, n, Val2(g, n)))
               ELSE Val1(g, n) = 0 /\ Val2(g, n) = 0
    <3>1. CASE n = L
      <4>1. a < L
        BY <1>1, <1>2 DEF L
      <4>2. Child(g, L, a) /\ Child(g, L, M)
        BY <1>2, <1>20, <1>21, <4>1 DEF Child
      <4>. QED
        BY <1>20, <3>1, <4>2
    <3>2. CASE n = M
      BY <1>20, <3>2
    <3>3. CASE n # L /\ n # M
      <4>1. n \in 1..N
        BY <1>20, <1>21, <3>3
      <4>2. IF IsTest(h, n) THEN Child(h, n, Val1(h, n)) /\ (Val2(h, n) = 0 \/ Child(h, n, Val2(h, n)))
            ELSE Val1(h, n) = 0 /\ Val2(h, n) = 0
        BY <1>1, <4>1 DEF Memory, N
      <4>3. \A k : Child(h, n, k) => Child(g, n, k)
        BY <1>20, <1>21 DEF Child, N
      <4>. QED
        BY <1>20, <4>1, <4>2, <4>3
    <3>. QED
      BY <3>1, <3>2, <3>3
  <2>3. ASSUME NEW n \in 1..Size(g) PROVE Arity(g.node[n])
    <3>1. Arity(c) /\ \A m \in 1..N : Arity(h.node[m])
      BY <1>1, <1>2 DEF Memory, N, c
    <3>2. n \in 1..N \/ n = L \/ n = M
      BY <1>20, <1>21
    <3>. QED
      BY <1>3, <1>13, <1>19, <3>1, <3>2
  <2>. QED
    BY <1>19, <2>1, <2>2, <2>3 DEF Memory
<1>24. \A m \in h.live : m \in 1..N /\ Kids(h, m) \subseteq h.live \ R
  BY <1>1 DEF Held
<1>25. Held(g, Q)
  <2>1. Q \subseteq g.live
    BY <1>1, <1>19
  <2>2. ASSUME NEW m \in g.live PROVE Kids(g, m) \subseteq g.live \ Q
    BY <1>1, <1>19, <1>21, <1>22, <1>24
  <2>3. ASSUME NEW m \in g.live, Val1(g, m) = Val2(g, m) PROVE Val1(g, m) = 0
    BY <1>19, <1>20, <1>21, <1>24, <2>3 DEF Held
  <2>4. ASSUME NEW m \in g.live, NEW n \in g.live, m # n PROVE Kids(g, m) \cap Kids(g, n) = {}
    <3>1. CASE m \in {L, M} \/ n \in {L, M}
      BY <1>1, <1>19, <1>21, <1>22, <1>24, <2>4, <3>1
    <3>2. CASE m \notin {L, M} /\ n \notin {L, M}
      <4>1. m \in h.live /\ n \in h.live
        BY <1>19, <3>2
      <4>2. Kids(h, m) \cap Kids(h, n) = {}
        BY <2>4, <4>1 DEF Held
      <4>. QED
        BY <1>22, <1>24, <4>1, <4>2
    <3>. QED
      BY <3>1, <3>2
  <2>. HIDE DEF Q
  <2>. QED
    BY <1>19, <1>23, <2>1, <2>2, <2>3, <2>4 DEF Held
<1>26. NoneLost(h, R) => NoneLost(g, Q)
  <2>1. SUFFICES ASSUME NoneLost(h, R), NEW n \in g.live, n \notin Q
                 PROVE  \E m \in g.live : n \in Kids(g, m)
    BY DEF NoneLost
  <2>2. CASE n \in {a, M}
    BY <1>19, <1>22, <2>2
  <2>3. CASE n \notin {a, M}
    <3>1. n \in h.live /\ n \notin R
      BY <1>19, <2>1, <2>3
    <3>2. PICK m \in h.live : n \in Kids(h, m)
      BY <2>1, <3>1 DEF NoneLost
    <3>. QED
      BY <1>19, <1>22, <1>24, <3>2
  <2>. QED
    BY <2>2, <2>3
<1>27. L \notin R /\ Size(h) <= Size(g) /\ L = Size(h) + 1 /\ Size(g) = Size(h) + 2
  BY <1>1, <1>2, <1>20, <1>21 DEF L, M, N
<1>28. Hands(h, R, g, Q)
  BY <1>25, <1>26, <1>27 DEF Hands
<1>29. stnode_dup(new_test(h, op, a, Fresh(h) + 1), leaf) = g
  BY <1>5, <1>11
<1>. HIDE DEF Q, g
<1>30. /\ Hands(h, R, stnode_dup(new_test(h, op, a, Fresh(h) + 1), leaf), (R \ {a}) \cup {Fresh(h)})
       /\ Fresh(h) \notin R /\ Fresh(h) # 0 /\ Fresh(h) = Size(h) + 1
       /\ Size(stnode_dup(new_test(h, op, a, Fresh(h) + 1), leaf)) = Size(h) + 2
  BY <1>5, <1>21, <1>27, <1>28, <1>29 DEF Q
<1>. QED
  BY <1>30

LEMMA ChainHolds ==
    ASSUME NEW h, NEW R, Held(h, R), NEW op \in Ops, NEW a \in R, NEW rest \in R, a # rest
    PROVE  LET g == Chain(h, op, a, rest)
           IN /\ Hands(h, R, g, (R \ {a, rest}) \cup {Len(g.node)})
              /\ Len(g.node) \notin R /\ Len(g.node) # 0
<1>. DEFINE leaf == Leftmost(h, rest)
            L == Fresh(h)
            x == stnode_dup(new_test(h, op, a, L + 1), leaf)
            g == new_test(x, "AND", L, rest)
            Q == (R \ {a}) \cup {L}
<1>1. Chain(h, op, a, rest) = g
  BY DEF Chain
<1>2. leaf \in h.live /\ ~IsTest(h, leaf)
  <2>1. /\ Memory(h) /\ h.live \in SUBSET (1..Size(h)) /\ rest \in h.live
        /\ \A m \in h.live : Kids(h, m) \subseteq h.live
    BY DEF Held, Memory
  <2>. QED
    BY <2>1, LeftmostLeaf
<1>. HIDE DEF leaf
<1>3. Hands(h, R, x, Q) /\ L \notin R /\ L # 0 /\ L = Size(h) + 1 /\ Size(x) = Size(h) + 2
  BY <1>2, ChainFirst
<1>. HIDE DEF x, L
<1>4. Held(x, Q) /\ L \in Q /\ rest \in Q /\ L # rest
  BY <1>3 DEF Hands
<1>5. "AND" \in Ops
  BY DEF Ops
<1>. HIDE DEF Q
<1>6. Needs("AND", rest)
  BY DEF Held, Memory, Needs
<1>7. /\ Hands(x, Q, g, (Q \ {L, rest}) \cup {Fresh(x)})
      /\ Fresh(x) = Size(x) + 1 /\ Size(g) = Size(x) + 1
  BY <1>3, <1>4, <1>5, <1>6, NewTest
<1>. HIDE DEF g
<1>8. Size(h) \in Nat /\ R \subseteq 1..Size(h)
  BY DEF Held, Memory, Size
<1>9. Size(g) \notin R /\ Size(g) # 0 /\ Fresh(x) = Size(g)
  BY <1>3, <1>7, <1>8
<1>10. (Q \ {L, rest}) \cup {Fresh(x)} = (R \ {a, rest}) \cup {Size(g)}
  BY <1>3, <1>9 DEF Q
<1>11. Hands(h, R, g, (R \ {a, rest}) \cup {Size(g)})
  BY <1>3, <1>7, <1>10, HandsOver
<1>. QED
  BY <1>1, <1>9, <1>11 DEF Size

(***************************************************************************)
(* PopAll, entry by entry.                                                 *)
(***************************************************************************)
Release(g, e) == IF e.node = 0 THEN g ELSE stnode_free(g, e.node)

(* The recursion that FoldLeft is made of, over sets of indices of s.       *)
Pops(f, h, s, n) ==
    f = [I \in SUBSET (1..n) |-> IF I = {} THEN h ELSE Release(f[I \ {Max(I)}], s[Max(I)])]

LEMMA MaxOfInterval ==
    ASSUME NEW n \in Nat, NEW I \in SUBSET (1..n), n \in I
    PROVE  Max(I) = n
<1>1. \A y \in I : n >= y
  OBVIOUS
<1>2. \E x \in I : \A y \in I : x >= y
  BY <1>1
<1>3. Max(I) \in I /\ \A y \in I : Max(I) >= y
  BY <1>2 DEF Max
<1>. DEFINE m == Max(I)
<1>. HIDE DEF m
<1>4. m \in 1..n /\ m >= n
  BY <1>3 DEF m
<1>. QED
  BY <1>4 DEF m

LEMMA MaxIn ==
    ASSUME NEW n \in Nat, NEW I \in SUBSET (1..n), I # {}
    PROVE  Max(I) \in I
<1>. DEFINE T == {k \in Nat : \A J \in SUBSET (1..k) : J # {} => Max(J) \in J}
<1>1. 0 \in T
  <2>1. 1..0 = {}
    OBVIOUS
  <2>. QED
    BY <2>1
<1>2. ASSUME NEW k \in Nat, k \in T PROVE k + 1 \in T
  <2>1. SUFFICES ASSUME NEW J \in SUBSET (1..(k + 1)), J # {} PROVE Max(J) \in J
    BY <1>2
  <2>2. CASE k + 1 \in J
    BY <2>2, MaxOfInterval
  <2>3. CASE k + 1 \notin J
    BY <1>2, <2>1, <2>3
  <2>. QED
    BY <2>2, <2>3
<1>. HIDE DEF T
<1>3. n \in T
  BY <1>1, <1>2, Successors
<1>. QED
  BY <1>3 DEF T

LEMMA PopsExist ==
    ASSUME NEW h, NEW s, NEW n \in Nat
    PROVE  \E f : Pops(f, h, s, n)
<1>. DEFINE T == {k \in Nat : \E f : Pops(f, h, s, k)}
<1>1. 0 \in T
  <2>. DEFINE f == [I \in SUBSET (1..0) |-> h]
  <2>1. \A I \in SUBSET (1..0) : I = {}
    OBVIOUS
  <2>2. f = [I \in SUBSET (1..0) |-> IF I = {} THEN h ELSE Release(f[I \ {Max(I)}], s[Max(I)])]
    BY <2>1
  <2>. QED
    BY <2>2 DEF Pops
<1>2. ASSUME NEW k \in Nat, k \in T PROVE k + 1 \in T
  <2>1. PICK f : Pops(f, h, s, k)
    BY <1>2
  <2>. DEFINE g == [I \in SUBSET (1..(k + 1)) |->
                      IF k + 1 \in I THEN Release(f[I \ {k + 1}], s[k + 1]) ELSE f[I]]
  <2>2. ASSUME NEW I \in SUBSET (1..(k + 1))
        PROVE  g[I] = IF I = {} THEN h ELSE Release(g[I \ {Max(I)}], s[Max(I)])
    <3>1. CASE k + 1 \in I
      <4>1. Max(I) = k + 1 /\ I # {}
        BY <3>1, MaxOfInterval
      <4>2. I \ {k + 1} \in SUBSET (1..k) /\ I \ {k + 1} \in SUBSET (1..(k + 1)) /\ k + 1 \notin I \ {k + 1}
        OBVIOUS
      <4>3. g[I \ {k + 1}] = f[I \ {k + 1}]
        BY <4>2
      <4>. QED
        BY <3>1, <4>1, <4>3
    <3>2. CASE k + 1 \notin I /\ I = {}
      <4>1. I \in SUBSET (1..k)
        BY <3>2
      <4>2. f[I] = h
        BY <2>1, <3>2, <4>1 DEF Pops
      <4>. QED
        BY <3>2, <4>2
    <3>3. CASE k + 1 \notin I /\ I # {}
      <4>1. I \in SUBSET (1..k)
        BY <3>3
      <4>2. Max(I) \in I
        BY <3>3, <4>1, MaxIn
      <4>. DEFINE J == I \ {Max(I)}
      <4>3. J \in SUBSET (1..(k + 1)) /\ k + 1 \notin J
        BY <3>3
      <4>. HIDE DEF J
      <4>4. g[J] = f[J] /\ g[I] = f[I]
        BY <3>3, <4>3
      <4>5. f[I] = Release(f[J], s[Max(I)])
        BY <2>1, <3>3, <4>1 DEF Pops, J
      <4>. QED
        BY <3>3, <4>4, <4>5 DEF J
    <3>. QED
      BY <3>1, <3>2, <3>3
  <2>3. DOMAIN g = SUBSET (1..(k + 1)) /\ g = [I \in SUBSET (1..(k + 1)) |-> g[I]]
    OBVIOUS
  <2>. HIDE DEF g
  <2>4. g = [I \in SUBSET (1..(k + 1)) |-> IF I = {} THEN h ELSE Release(g[I \ {Max(I)}], s[Max(I)])]
    BY <2>2, <2>3
  <2>5. Pops(g, h, s, k + 1)
    BY <2>4 DEF Pops
  <2>. QED
    BY <2>5
<1>. HIDE DEF T
<1>3. n \in T
  BY <1>1, <1>2, Successors
<1>. QED
  BY <1>3 DEF T

LEMMA PopAllIs ==
    ASSUME NEW h, NEW s, NEW n \in Nat, DOMAIN s = 1..n
    PROVE  PopAll(h, s) = (CHOOSE f : Pops(f, h, s, n))[1..n]
BY DEF PopAll, FoldLeft, MapThenFoldSet, Pops, Release

StackNodes(s, n) == {s[i].node : i \in 1..n} \ {0}

(* No two entries have the same node.                                       *)
Apart(s) == \A i, j \in 1..Len(s) : s[i].node = s[j].node /\ s[i].node # 0 => i = j

LEMMA PopsAll ==
    ASSUME NEW h, NEW R, Held(h, R), NEW X, NEW s \in Seq(X), Apart(s), StackNodes(s, Len(s)) \subseteq R
    PROVE  Hands(h, R, PopAll(h, s), R \ StackNodes(s, Len(s)))
<1>. DEFINE n == Len(s)
            f == CHOOSE f : Pops(f, h, s, n)
            T == {k \in Nat : k <= n => Hands(h, R, f[1..k], R \ StackNodes(s, k))}
<1>1. n \in Nat /\ DOMAIN s = 1..n /\ Size(h) \in Nat
  BY DEF Held, Memory, Size
<1>2. PopAll(h, s) = f[1..n]
  BY <1>1, PopAllIs
<1>3. Pops(f, h, s, n)
  BY <1>1, PopsExist
<1>4. \A i, j \in 1..n : s[i].node = s[j].node /\ s[i].node # 0 => i = j
  BY DEF Apart
<1>5. StackNodes(s, n) \subseteq R
  OBVIOUS
<1>. HIDE DEF f, n
<1>6. 0 \in T
  <2>1. 1..0 = {} /\ 1..0 \in SUBSET (1..n)
    OBVIOUS
  <2>2. f[1..0] = h
    BY <1>3, <2>1 DEF Pops
  <2>3. R \ StackNodes(s, 0) = R
    BY <2>1 DEF StackNodes
  <2>4. Hands(h, R, h, R)
    BY <1>1 DEF Hands
  <2>. QED
    BY <2>2, <2>3, <2>4
<1>7. ASSUME NEW k \in Nat, k \in T PROVE k + 1 \in T
  <2>1. SUFFICES ASSUME k + 1 <= n PROVE Hands(h, R, f[1..(k + 1)], R \ StackNodes(s, k + 1))
    OBVIOUS
  <2>2. Hands(h, R, f[1..k], R \ StackNodes(s, k))
    BY <1>1, <1>7, <2>1
  <2>. DEFINE K == 1..(k + 1)
              e == s[k + 1]
              Q == R \ StackNodes(s, k)
              g == f[1..k]
  <2>3. K # {} /\ K \in SUBSET (1..n) /\ k + 1 \in K /\ K \ {k + 1} = 1..k
    <3>1. K # {} /\ K \in SUBSET (1..n) /\ k + 1 \in K
      <4>1. k + 1 \in K
        OBVIOUS
      <4>2. n \in Nat
        BY <1>1
      <4>3. \A i \in K : i \in 1..n
        BY <2>1, <4>2
      <4>. QED
        BY <4>1, <4>3
    <3>2. K \ {k + 1} = 1..k
      <4>1. \A i \in K : i \in 1..k \/ i = k + 1
        OBVIOUS
      <4>2. k + 1 \notin 1..k /\ \A i \in 1..k : i \in K
        OBVIOUS
      <4>. QED
        BY <4>1, <4>2
    <3>. QED
      BY <3>1, <3>2
  <2>4. Max(K) = k + 1
    BY <2>3, MaxOfInterval
  <2>. HIDE DEF K
  <2>5. f[K] = Release(g, e)
    BY <1>3, <2>3, <2>4 DEF Pops
  <2>6. /\ k + 1 \in 1..n /\ 1..k \subseteq 1..n /\ \A i \in 1..k : i # k + 1
        /\ \A i : i \in 1..(k + 1) <=> i \in 1..k \/ i = k + 1
    BY <1>1, <2>1
  <2>7. StackNodes(s, k + 1) = StackNodes(s, k) \cup ({e.node} \ {0})
    BY <2>6 DEF StackNodes
  <2>8. e.node # 0 => e.node \in Q
    <3>1. ASSUME e.node # 0 PROVE e.node \in R
      BY <1>5, <2>6, <3>1 DEF StackNodes
    <3>2. ASSUME e.node # 0 PROVE e.node \notin StackNodes(s, k)
      BY <1>4, <2>6, <3>2 DEF StackNodes
    <3>. QED
      BY <3>1, <3>2
  <2>9. Held(g, Q)
    BY <2>2 DEF Hands
  <2>. HIDE DEF g, e
  <2>10. Hands(h, R, Release(g, e), R \ StackNodes(s, k + 1))
    <3>1. CASE e.node = 0
      <4>1. R \ StackNodes(s, k + 1) = Q
        BY <2>7, <3>1
      <4>. QED
        BY <2>2, <3>1, <4>1 DEF Release, g
    <3>2. CASE e.node # 0
      <4>1. R \ StackNodes(s, k + 1) = Q \ {e.node}
        BY <2>7, <3>2
      <4>2. e.node \in Q \cup {0}
        BY <2>8, <3>2
      <4>. HIDE DEF Q
      <4>3. Hands(g, Q, stnode_free(g, e.node), Q \ {e.node})
        BY <2>9, <4>2, FreeRoot
      <4>4. Hands(h, R, g, Q)
        BY <2>2 DEF g, Q
      <4>5. Hands(h, R, stnode_free(g, e.node), Q \ {e.node})
        BY <4>3, <4>4, HandsOver
      <4>. QED
        BY <3>2, <4>1, <4>5 DEF Release
    <3>. QED
      BY <3>1, <3>2
  <2>. QED
    BY <2>5, <2>10 DEF K
<1>. HIDE DEF T
<1>8. n \in T
  BY <1>1, <1>6, <1>7, Successors
<1>9. Hands(h, R, f[1..n], R \ StackNodes(s, n))
  BY <1>1, <1>8 DEF T
<1>. QED
  BY <1>2, <1>9 DEF n

----------------------------------------------------------------------------
(***************************************************************************)
(* The stack of the parser.  Each state was entered from the one below it; *)
(* only the bottom and a comparison have no node.                          *)
(***************************************************************************)
Entry == [state : 0..24, major : 0..21, node : Nat, op : Ops]

Viable(s) ==
    /\ s \in Seq(Entry)
    /\ s # << >> => s[1] = Bottom
    /\ \A i \in 2..Len(s) : /\ Enters(s[i - 1].state, s[i].state, s[i].major)
                            /\ s[i].node = 0 <=> s[i].major = 21

LEMMA EntryIs ==
    ASSUME NEW s, Viable(s), NEW i \in 1..Len(s)
    PROVE  /\ s[i] \in Entry /\ s[i].state \in 0..24 /\ s[i].node \in Nat /\ s[i].op \in Ops
           /\ s[i].major \in 0..21
<1>1. s[i] \in Entry
  BY DEF Viable
<1>. QED
  BY <1>1 DEF Entry

LEMMA Below ==
    ASSUME NEW s, Viable(s), NEW i \in 1..Len(s), s[i].state # 0
    PROVE  /\ i \in 2..Len(s) /\ i - 1 \in 1..Len(s)
           /\ Enters(s[i - 1].state, s[i].state, s[i].major)
           /\ s[i].node = 0 <=> s[i].major = 21
<1>1. Len(s) \in Nat
  BY DEF Viable
<1>2. i # 1
  <2>1. s # << >>
    BY <1>1
  <2>2. s[1] = Bottom
    BY <2>1 DEF Viable
  <2>3. Bottom.state = 0
    BY DEF Bottom
  <2>. QED
    BY <2>2, <2>3
<1>3. i \in 2..Len(s) /\ i - 1 \in 1..Len(s)
  BY <1>1, <1>2
<1>. QED
  BY <1>3 DEF Viable

(* What stands on the stack when a rule is reduced, from the top; below is  *)
(* the state that stays.                                                    *)
One(s, below) ==
    /\ Len(s) - 1 \in 1..Len(s) /\ s[Len(s) - 1].state \in below
    /\ s[Len(s)].node # 0

Three(s, below) ==
    /\ Len(s) - 1 \in 1..Len(s) /\ Len(s) - 2 \in 1..Len(s) /\ Len(s) - 3 \in 1..Len(s)
    /\ s[Len(s) - 3].state \in below
    /\ s[Len(s)].node # 0 /\ s[Len(s) - 2].node # 0

LEMMA Handles ==
    ASSUME NEW s, Viable(s), s # << >>
    PROVE  /\ s[Len(s)].state \in {6, 23, 24} => One(s, 0..3)
           /\ s[Len(s)].state \in 18..21 => One(s, 0..4)
           /\ s[Len(s)].state \in 12..17 => One(s, {5, 6}) /\ s[Len(s)].major \in 3..8
           /\ s[Len(s)].state \in {9, 22} => Three(s, 0..3) /\ s[Len(s) - 1].node # 0
           /\ s[Len(s)].state \in {5, 11} => Three(s, 0..4) /\ s[Len(s) - 1].node = 0
           /\ s[Len(s)].state = 10 => Three(s, 0..3) /\ s[Len(s) - 1].node # 0
<1>. DEFINE n == Len(s)
<1>1. n \in Nat /\ n \in 1..Len(s)
  BY DEF Viable
<1>2. ASSUME NEW i \in 1..n, s[i].state # 0
      PROVE  /\ i \in 2..n /\ i - 1 \in 1..n /\ Enters(s[i - 1].state, s[i].state, s[i].major)
             /\ s[i].node = 0 <=> s[i].major = 21
  BY <1>2, Below
<1>. HIDE DEF n
<1>. DEFINE Q0 == s[n].state
            Q1 == s[n - 1].state
            Q2 == s[n - 2].state
            Q3 == s[n - 3].state
            M0 == s[n].major
            M1 == s[n - 1].major
            M2 == s[n - 2].major
<1>3. Q0 # 0 => /\ n - 1 \in 1..n /\ Enters(Q1, Q0, M0) /\ (s[n].node = 0 <=> M0 = 21)
  BY <1>1, <1>2
<1>4. n - 1 \in 1..n /\ Q1 # 0 =>
        /\ n - 2 \in 1..n /\ Enters(Q2, Q1, M1) /\ (s[n - 1].node = 0 <=> M1 = 21)
  <2>1. (n - 1) - 1 = n - 2
    BY <1>1
  <2>. QED
    BY <1>2, <2>1
<1>5. n - 2 \in 1..n /\ Q2 # 0 =>
        /\ n - 3 \in 1..n /\ Enters(Q3, Q2, M2) /\ (s[n - 2].node = 0 <=> M2 = 21)
  <2>1. (n - 2) - 1 = n - 3
    BY <1>1
  <2>. QED
    BY <1>2, <2>1
<1>6. /\ Len(s) = n
      /\ \A B : One(s, B) <=> n - 1 \in 1..n /\ Q1 \in B /\ s[n].node # 0
      /\ \A B : Three(s, B) <=> /\ n - 1 \in 1..n /\ n - 2 \in 1..n /\ n - 3 \in 1..n /\ Q3 \in B
                                /\ s[n].node # 0 /\ s[n - 2].node # 0
  BY DEF n, One, Three
<1>. HIDE DEF Q0, Q1, Q2, Q3, M0, M1, M2
<1>7. Q0 \in {6, 23, 24} => One(s, 0..3)
  <2>1. SUFFICES ASSUME Q0 \in {6, 23, 24} PROVE One(s, 0..3)
    OBVIOUS
  <2>2. Q0 # 0
    BY <2>1
  <2>3. n - 1 \in 1..n /\ Enters(Q1, Q0, M0) /\ (s[n].node = 0 <=> M0 = 21)
    BY <1>3, <2>2
  <2>4. Q1 \in 0..3 /\ M0 # 21
    BY <2>1, <2>3, EnteredFrom
  <2>. QED
    BY <1>6, <2>3, <2>4
<1>8. Q0 \in 18..21 => One(s, 0..4)
  <2>1. SUFFICES ASSUME Q0 \in 18..21 PROVE One(s, 0..4)
    OBVIOUS
  <2>2. Q0 # 0
    BY <2>1
  <2>3. n - 1 \in 1..n /\ Enters(Q1, Q0, M0) /\ (s[n].node = 0 <=> M0 = 21)
    BY <1>3, <2>2
  <2>4. Q1 \in 0..4 /\ M0 # 21
    BY <2>1, <2>3, EnteredFrom
  <2>. QED
    BY <1>6, <2>3, <2>4
<1>9. Q0 \in 12..17 => One(s, {5, 6}) /\ M0 \in 3..8
  <2>1. SUFFICES ASSUME Q0 \in 12..17 PROVE One(s, {5, 6}) /\ M0 \in 3..8
    OBVIOUS
  <2>2. Q0 # 0
    BY <2>1
  <2>3. n - 1 \in 1..n /\ Enters(Q1, Q0, M0) /\ (s[n].node = 0 <=> M0 = 21)
    BY <1>3, <2>2
  <2>4. Q1 \in {5, 6} /\ M0 # 21 /\ M0 \in 3..8
    BY <2>1, <2>3, EnteredFrom
  <2>. QED
    BY <1>6, <2>3, <2>4
<1>10. Q0 \in {9, 22} => Three(s, 0..3) /\ s[n - 1].node # 0
  <2>1. SUFFICES ASSUME Q0 \in {9, 22} PROVE Three(s, 0..3) /\ s[n - 1].node # 0
    OBVIOUS
  <2>2. n - 1 \in 1..n /\ Q1 \in {2, 3} /\ s[n].node # 0
    BY <1>3, <2>1, EnteredFrom
  <2>3. n - 2 \in 1..n /\ Q2 \in {7, 8, 9} /\ s[n - 1].node # 0
    BY <1>4, <2>2, EnteredFrom
  <2>4. n - 3 \in 1..n /\ Q3 \in 0..3 /\ s[n - 2].node # 0
    BY <1>5, <2>3, EnteredFrom
  <2>. QED
    BY <1>6, <2>2, <2>3, <2>4
<1>11. Q0 \in {5, 11} => Three(s, 0..4) /\ s[n - 1].node = 0
  <2>1. SUFFICES ASSUME Q0 \in {5, 11} PROVE Three(s, 0..4) /\ s[n - 1].node = 0
    OBVIOUS
  <2>2. n - 1 \in 1..n /\ Q1 = 4 /\ s[n].node # 0
    BY <1>3, <2>1, EnteredFrom
  <2>3. n - 2 \in 1..n /\ Q2 \in {5, 6} /\ s[n - 1].node = 0
    BY <1>4, <2>2, EnteredFrom
  <2>4. n - 3 \in 1..n /\ Q3 \in 0..4 /\ s[n - 2].node # 0
    BY <1>5, <2>3, EnteredFrom
  <2>. QED
    BY <1>6, <2>2, <2>3, <2>4
<1>12. Q0 = 10 => Three(s, 0..3) /\ s[n - 1].node # 0
  <2>1. SUFFICES ASSUME Q0 = 10 PROVE Three(s, 0..3) /\ s[n - 1].node # 0
    OBVIOUS
  <2>2. n - 1 \in 1..n /\ Q1 = 7 /\ s[n].node # 0
    BY <1>3, <2>1, EnteredFrom
  <2>3. n - 2 \in 1..n /\ Q2 = 1 /\ s[n - 1].node # 0
    BY <1>4, <2>2, EnteredFrom
  <2>4. n - 3 \in 1..n /\ Q3 \in 0..3 /\ s[n - 2].node # 0
    BY <1>5, <2>3, EnteredFrom
  <2>. QED
    BY <1>6, <2>2, <2>3, <2>4
<1>. QED
  BY <1>6, <1>7, <1>8, <1>9, <1>10, <1>11, <1>12 DEF Q0, M0

LEMMA StackNodesSplit ==
    ASSUME NEW s, NEW k \in Nat
    PROVE  StackNodes(s, k + 1) = StackNodes(s, k) \cup ({s[k + 1].node} \ {0})
<1>1. \A i : i \in 1..(k + 1) <=> i \in 1..k \/ i = k + 1
  OBVIOUS
<1>. QED
  BY <1>1 DEF StackNodes

(* The nodes of a set and one more, if it is one.                          *)
With(S, n) == S \cup ({n} \ {0})

Stacked(s, k, t, n) ==
    /\ Viable(t) /\ Apart(t) /\ Len(t) = k + 1 /\ t # << >>
    /\ StackNodes(t, Len(t)) = With(StackNodes(s, k), n)

(* The symbols above k give way to the entry e.                             *)
LEMMA Pushed ==
    ASSUME NEW s, Viable(s), Apart(s), NEW k \in 1..Len(s), NEW e \in Entry,
           Enters(s[k].state, e.state, e.major), e.node = 0 <=> e.major = 21,
           e.node \notin StackNodes(s, k), NEW t, t = Append(SubSeq(s, 1, k), e)
    PROVE  Stacked(s, k, t, e.node)
<1>. DEFINE u == SubSeq(s, 1, k)
<1>1. Len(s) \in Nat /\ s \in Seq(Entry) /\ s[1] = Bottom
  <2>1. Len(s) \in Nat /\ s \in Seq(Entry)
    BY DEF Viable
  <2>2. s # << >>
    BY <2>1
  <2>. QED
    BY <2>1, <2>2 DEF Viable
<1>2. u \in Seq(Entry) /\ Len(u) = k /\ \A i \in 1..k : u[i] = s[i]
  BY <1>1
<1>3. t = Append(u, e)
  OBVIOUS
<1>. HIDE DEF u
<1>4. t \in Seq(Entry) /\ Len(t) = k + 1 /\ t[k + 1] = e
  BY <1>2, <1>3
<1>5. \A i \in 1..k : t[i] = s[i]
  <2>1. SUFFICES ASSUME NEW i \in 1..k PROVE t[i] = s[i]
    OBVIOUS
  <2>2. Append(u, e)[i] = u[i]
    BY <1>2
  <2>3. u[i] = s[i]
    BY <1>2
  <2>. QED
    BY <1>3, <2>2, <2>3, Zenon
<1>6. k \in Nat /\ 1 \in 1..k /\ t # << >>
  <2>1. k \in Nat /\ 1 \in 1..k
    BY <1>1
  <2>2. Len(t) # 0
    BY <1>4, <2>1
  <2>3. Len(<< >>) = 0
    OBVIOUS
  <2>. QED
    BY <2>1, <2>2, <2>3
<1>7. ASSUME NEW i \in 2..(k + 1)
      PROVE  Enters(t[i - 1].state, t[i].state, t[i].major) /\ (t[i].node = 0 <=> t[i].major = 21)
  <2>1. CASE i = k + 1
    <3>1. i - 1 = k /\ k \in 1..k
      BY <1>6, <2>1
    <3>2. t[i - 1] = s[k] /\ t[i] = e
      BY <1>4, <1>5, <2>1, <3>1
    <3>. QED
      BY <3>2
  <2>2. CASE i # k + 1
    <3>1. i \in 2..Len(s) /\ i \in 1..k /\ i - 1 \in 1..k
      BY <1>1, <1>6, <2>2
    <3>. QED
      BY <1>5, <3>1 DEF Viable
  <2>. QED
    BY <2>1, <2>2
<1>8. Viable(t)
  BY <1>1, <1>4, <1>5, <1>6, <1>7 DEF Viable
<1>9. StackNodes(t, k) = StackNodes(s, k)
  BY <1>5 DEF StackNodes
<1>10. StackNodes(t, Len(t)) = With(StackNodes(s, k), e.node)
  <2>1. StackNodes(t, k + 1) = StackNodes(t, k) \cup ({t[k + 1].node} \ {0})
    BY <1>6, StackNodesSplit
  <2>. QED
    BY <1>4, <1>9, <2>1 DEF With
<1>11. Apart(t)
  <2>1. SUFFICES ASSUME NEW i \in 1..(k + 1), NEW j \in 1..(k + 1), t[i].node = t[j].node, t[i].node # 0
                 PROVE  i = j
    BY <1>4 DEF Apart
  <2>2. \A l \in 1..(k + 1) : l = k + 1 \/ (l \in 1..k /\ l \in 1..Len(s))
    BY <1>1, <1>6
  <2>3. \A l \in 1..k : t[l].node # 0 => t[l].node # e.node
    BY <1>5 DEF StackNodes
  <2>4. CASE i = k + 1 \/ j = k + 1
    BY <1>4, <2>1, <2>2, <2>3, <2>4
  <2>5. CASE i # k + 1 /\ j # k + 1
    <3>1. i \in 1..k /\ j \in 1..k /\ i \in 1..Len(s) /\ j \in 1..Len(s)
      BY <2>2, <2>5
    <3>2. s[i].node = s[j].node /\ s[i].node # 0
      BY <1>5, <2>1, <3>1
    <3>. QED
      BY <3>1, <3>2 DEF Apart
  <2>. QED
    BY <2>4, <2>5
<1>. QED
  BY <1>4, <1>6, <1>8, <1>10, <1>11 DEF Stacked

LEMMA PushedSymbol ==
    ASSUME NEW s, Viable(s), Apart(s), NEW k \in 1..Len(s), NEW state, NEW symbol \in 0..21,
           NEW node \in Nat, NEW op \in Ops, Enters(s[k].state, state, symbol), node = 0 <=> symbol = 21,
           node \notin StackNodes(s, k), NEW t,
           t = Append(SubSeq(s, 1, k), [state |-> state, major |-> symbol, node |-> node, op |-> op])
    PROVE  Stacked(s, k, t, node)
<1>. DEFINE e == [state |-> state, major |-> symbol, node |-> node, op |-> op]
<1>1. e \in Entry /\ e.state = state /\ e.major = symbol /\ e.node = node
  <2>1. state \in 0..24
    BY DEF Enters
  <2>. QED
    BY <2>1 DEF Entry
<1>2. t = Append(SubSeq(s, 1, k), e)
  OBVIOUS
<1>. HIDE DEF e
<1>3. Enters(s[k].state, e.state, e.major) /\ (e.node = 0 <=> e.major = 21) /\ e.node \notin StackNodes(s, k)
  BY <1>1
<1>4. Stacked(s, k, t, e.node)
  BY <1>1, <1>2, <1>3, Pushed
<1>. QED
  BY <1>1, <1>4

----------------------------------------------------------------------------
(***************************************************************************)
(* The invariant.                                                          *)
(***************************************************************************)
Places == {"compile", "lex", "parse", "finish", "compiled", "rejected", "cleaned"}

Parsing == pc = "parse"

OnStack == StackNodes(yystack, Len(yystack))
AtHand == IF Parsing THEN {minor} \ {0} ELSE {}
InFilter == IF pc \in {"finish", "compiled"} THEN {stRoot} \ {0} ELSE {}

Roots == OnStack \cup AtHand \cup InFilter

StackSound ==
    /\ Viable(yystack) /\ Apart(yystack) /\ Len(yystack) <= YYSTACKDEPTH
    /\ major \in 0..14 /\ minor \in Nat
    /\ Parsing => yystack # << >> /\ (minor = 0 <=> major = 0) /\ minor \notin OnStack

PlaceSound ==
    /\ pc \in Places
    /\ pc \notin {"lex", "parse"} => yystack = << >>
    /\ pc \in {"compile", "lex", "parse"} => stRoot = 0

NodesHeld ==
    /\ overflowed \in BOOLEAN
    /\ Held(heap, Roots)
    /\ ~overflowed => NoneLost(heap, Roots)

Owned == StackSound /\ PlaceSound /\ NodesHeld

(* What a step leaves.  The heap of nodes never shrinks.                    *)
Grows == Size(heap) <= Size(heap')

Onward == Owned' /\ Grows

LEMMA Passed ==
    ASSUME NodesHeld, NEW Q, Hands(heap, Roots, heap', Q), Roots' = Q, overflowed' = overflowed
    PROVE  NodesHeld' /\ Grows
BY DEF NodesHeld, Hands, Grows

(* While the parser works.                                                  *)
LEMMA AtWork ==
    ASSUME StackSound, PlaceSound, Parsing
    PROVE  /\ Roots = OnStack \cup ({minor} \ {0}) /\ Len(yystack) \in Nat /\ Len(yystack) \in 1..Len(yystack)
           /\ Last(yystack) = yystack[Len(yystack)] /\ yystack # << >>
           /\ Last(yystack).state \in 0..24 /\ ActsWell(Last(yystack).state, major)
<1>1. yystack # << >> /\ yystack \in Seq(Entry)
  BY DEF StackSound, Viable
<1>2. Len(yystack) \in Nat /\ Len(yystack) \in 1..Len(yystack)
  BY <1>1
<1>3. Last(yystack) = yystack[Len(yystack)]
  BY DEF Last
<1>4. Last(yystack).state \in 0..24
  BY <1>2, <1>3, EntryIs DEF StackSound
<1>5. ActsWell(Last(yystack).state, major)
  BY <1>4, Actions DEF StackSound
<1>6. InFilter = {}
  BY DEF InFilter, Parsing
<1>. QED
  BY <1>1, <1>2, <1>3, <1>4, <1>5, <1>6 DEF Roots, AtHand

LEMMA TopOne ==
    ASSUME NEW s, Viable(s), Apart(s), NEW B, One(s, B)
    PROVE  LET S == StackNodes(s, Len(s) - 1)
               c == s[Len(s)].node
           IN /\ c \in Nat /\ c # 0 /\ c \notin S
              /\ StackNodes(s, Len(s)) = S \cup {c}
<1>. DEFINE n == Len(s)
            S == StackNodes(s, n - 1)
            c == s[n].node
<1>1. n \in Nat /\ n - 1 \in 1..n /\ c # 0
  BY DEF One, Viable
<1>2. n \in 1..n /\ n - 1 \in Nat /\ (n - 1) + 1 = n
  BY <1>1
<1>3. c \in Nat
  BY <1>2, EntryIs
<1>4. \A i, j \in 1..n : s[i].node = s[j].node /\ s[i].node # 0 => i = j
  BY DEF Apart
<1>. HIDE DEF n
<1>5. c \notin S
  <2>1. \A i \in 1..(n - 1) : i \in 1..n /\ i # n
    BY <1>1
  <2>. QED
    BY <1>1, <1>2, <1>4, <2>1 DEF StackNodes
<1>6. StackNodes(s, n) = S \cup {c}
  <2>1. StackNodes(s, (n - 1) + 1) = S \cup ({s[(n - 1) + 1].node} \ {0})
    BY <1>2, StackNodesSplit
  <2>. QED
    BY <1>1, <1>2, <2>1
<1>. QED
  BY <1>1, <1>3, <1>5, <1>6 DEF n

LEMMA TopThree ==
    ASSUME NEW s, Viable(s), Apart(s), NEW B, Three(s, B)
    PROVE  LET S == StackNodes(s, Len(s) - 3)
               a == s[Len(s) - 2].node
               b == s[Len(s) - 1].node
               c == s[Len(s)].node
           IN /\ a \in Nat /\ b \in Nat /\ c \in Nat /\ a # 0 /\ c # 0 /\ a # b /\ b # c /\ a # c
              /\ a \notin S /\ b \notin S /\ c \notin S
              /\ StackNodes(s, Len(s)) = S \cup ({a, b, c} \ {0})
<1>. DEFINE n == Len(s)
            S == StackNodes(s, n - 3)
            a == s[n - 2].node
            b == s[n - 1].node
            c == s[n].node
<1>1. n \in Nat /\ n - 3 \in 1..n /\ n - 2 \in 1..n /\ n - 1 \in 1..n /\ a # 0 /\ c # 0
  BY DEF Three, Viable
<1>2. n \in 1..n /\ n - 3 \in Nat /\ n - 2 \in Nat /\ n - 1 \in Nat
      /\ (n - 1) + 1 = n /\ (n - 2) + 1 = n - 1 /\ (n - 3) + 1 = n - 2
      /\ n - 2 # n - 1 /\ n - 1 # n /\ n - 2 # n
  BY <1>1
<1>3. a \in Nat /\ b \in Nat /\ c \in Nat
  BY <1>1, <1>2, EntryIs
<1>4. \A i, j \in 1..n : s[i].node = s[j].node /\ s[i].node # 0 => i = j
  BY DEF Apart
<1>. HIDE DEF n
<1>5. a # b /\ b # c /\ a # c
  BY <1>1, <1>2, <1>4
<1>6. a \notin S /\ b \notin S /\ c \notin S
  <2>1. \A i \in 1..(n - 3) : i \in 1..n /\ i # n /\ i # n - 1 /\ i # n - 2
    BY <1>1
  <2>2. 0 \notin S
    BY DEF StackNodes
  <2>3. \A i \in 1..n : s[i].node \in S => \E j \in 1..(n - 3) : s[j].node = s[i].node /\ s[i].node # 0
    BY DEF StackNodes
  <2>. HIDE DEF S
  <2>. QED
    BY <1>1, <1>2, <1>4, <2>1, <2>2, <2>3
<1>7. StackNodes(s, n) = S \cup ({a, b, c} \ {0})
  <2>1. StackNodes(s, (n - 3) + 1) = S \cup ({s[(n - 3) + 1].node} \ {0})
    BY <1>2, StackNodesSplit
  <2>2. StackNodes(s, (n - 2) + 1) = StackNodes(s, n - 2) \cup ({s[(n - 2) + 1].node} \ {0})
    BY <1>2, StackNodesSplit
  <2>3. StackNodes(s, (n - 1) + 1) = StackNodes(s, n - 1) \cup ({s[(n - 1) + 1].node} \ {0})
    BY <1>2, StackNodesSplit
  <2>4. /\ StackNodes(s, n - 2) = S \cup ({a} \ {0}) /\ StackNodes(s, n - 1) = StackNodes(s, n - 2) \cup ({b} \ {0})
        /\ StackNodes(s, n) = StackNodes(s, n - 1) \cup ({c} \ {0})
    BY <1>2, <2>1, <2>2, <2>3
  <2>. HIDE DEF S, a, b, c
  <2>. QED
    BY <2>4
<1>. QED
  BY <1>1, <1>3, <1>5, <1>6, <1>7 DEF n

(* A reduction, on the stack.                                               *)
LEMMA Becoming ==
    ASSUME StackSound, PlaceSound, Parsing,
           NEW rule \in 2..19, NEW lhs \in 16..21, NEW size \in {1, 3}, yyRuleInfo[rule + 1] = <<lhs, size>>,
           NEW node \in Nat, NEW op \in Ops, Becomes(rule, node, op),
           NEW k, k = Len(yystack) - size, k \in 1..Len(yystack),
           Enters(yystack[k].state, Goto(yystack[k].state, lhs), lhs), node = 0 <=> lhs = 21,
           node \notin StackNodes(yystack, k), node = 0 \/ node # minor,
           StackNodes(yystack, k) \subseteq OnStack
    PROVE  /\ StackSound' /\ PlaceSound' /\ overflowed' = overflowed
           /\ Roots' = StackNodes(yystack, k) \cup ({node} \ {0}) \cup ({minor} \ {0})
<1>. DEFINE e == [state |-> Goto(yystack[k].state, lhs), major |-> lhs, node |-> node, op |-> op]
            s == SubSeq(yystack, 1, k)
            t == Append(s, e)
<1>1. Viable(yystack) /\ Apart(yystack) /\ yystack \in Seq(Entry) /\ Len(yystack) \in Nat
  BY DEF StackSound, Viable
<1>2. /\ Last(s) = yystack[k] /\ Len(s) = k /\ k <= Len(yystack) - 1
  <2>1. Len(s) = k /\ s[k] = yystack[k]
    BY <1>1
  <2>2. k <= Len(yystack) - 1
    BY <1>1
  <2>. QED
    BY <2>1, <2>2 DEF Last
<1>3. /\ yystack' = Append(SubSeq(yystack, 1, Len(yystack) - size),
                          [state |-> yy_find_reduce_action(Last(SubSeq(yystack, 1, Len(yystack) - size)).state, lhs),
                           major |-> lhs, node |-> node, op |-> op])
      /\ UNCHANGED <<pc, major, minor, stRoot, overflowed>>
  BY DEF Becomes, tf
<1>4. yystack' = t
  BY <1>2, <1>3 DEF Goto
<1>5. lhs \in 0..21
  OBVIOUS
<1>6. /\ Viable(t) /\ Apart(t) /\ Len(t) = k + 1 /\ t # << >>
      /\ StackNodes(t, Len(t)) = With(StackNodes(yystack, k), node)
  <2>1. Stacked(yystack, k, t, node)
    BY <1>1, <1>5, PushedSymbol
  <2>. QED
    BY <2>1 DEF Stacked
<1>. HIDE DEF t
<1>7. Len(t) <= YYSTACKDEPTH
  <2>1. Len(yystack) <= YYSTACKDEPTH /\ YYSTACKDEPTH \in Nat
    BY DepthPositive DEF StackSound
  <2>. QED
    BY <1>1, <1>2, <1>6, <2>1
<1>8. OnStack' = StackNodes(yystack, k) \cup ({node} \ {0})
  BY <1>4, <1>6 DEF OnStack, With
<1>9. Parsing' = Parsing /\ AtHand' = {minor} \ {0} /\ InFilter' = {}
  BY <1>3 DEF Parsing, AtHand, InFilter
<1>10. minor \notin OnStack'
  <2>1. minor \notin OnStack
    BY DEF StackSound
  <2>2. minor # node \/ node = 0
    OBVIOUS
  <2>. QED
    BY <1>8, <2>1, <2>2
<1>11. StackSound'
  BY <1>3, <1>4, <1>6, <1>7, <1>9, <1>10 DEF StackSound
<1>12. PlaceSound'
  BY <1>3 DEF PlaceSound, Parsing
<1>. QED
  BY <1>3, <1>8, <1>9, <1>11, <1>12 DEF Roots

LEMMA ReducingState ==
    ASSUME StackSound, PlaceSound, NEW rule \in 0..19, Reducing(rule)
    PROVE  Parsing /\ yystack[Len(yystack)].state = Handle[rule + 1] /\ (rule \in {0, 1} => major = 0)
<1>1. Parsing /\ Act = 25 + rule
  BY DEF Reducing, Parsing, YYNSTATE
<1>2. ActsWell(Last(yystack).state, major) /\ Last(yystack) = yystack[Len(yystack)]
  BY <1>1, AtWork
<1>. DEFINE a == yy_find_shift_action(Last(yystack).state, major)
            q == Last(yystack).state
<1>3. \/ a \in 1..24
      \/ a \in 25..44 /\ q = Handle[a - 24] /\ (a \in {25, 26} => major = 0)
      \/ a = 45
  BY <1>2 DEF ActsWell, YY_ERROR_ACTION, YYNSTATE, YYNRULE
<1>4. a = 25 + rule
  BY <1>1 DEF Act
<1>. HIDE DEF a, q
<1>5. q = Handle[rule + 1] /\ (rule \in {0, 1} => major = 0)
  <2>1. a - 24 = rule + 1 /\ a \notin 1..24 /\ a # 45
    BY <1>4
  <2>. QED
    BY <1>3, <1>4, <2>1
<1>. QED
  BY <1>1, <1>2, <1>5 DEF q

(* The rules, with what stands below them and what they become.             *)
Fits(s, rule, B, lhs, size) ==
    /\ IF size = 1 THEN One(s, B) ELSE Three(s, B)
    /\ yyRuleInfo[rule + 1] = <<lhs, size>>
    /\ \A q \in B : Enters(q, Goto(q, lhs), lhs)

LEMMA Rules ==
    ASSUME NEW s, Viable(s), s # << >>, NEW rule \in 2..19, s[Len(s)].state = Handle[rule + 1]
    PROVE  /\ rule \in {2, 3} => Fits(s, rule, 0..3, 17, 1)
           /\ rule \in 7..10 => Fits(s, rule, 0..4, 18, 1)
           /\ rule \in {4, 5} => Fits(s, rule, 0..3, 20, 3) /\ s[Len(s) - 1].node # 0
           /\ rule = 6 => Fits(s, rule, 0..3, 20, 1)
           /\ rule \in {11, 12} => Fits(s, rule, 0..4, 19, 3) /\ s[Len(s) - 1].node = 0
           /\ rule \in 13..18 => Fits(s, rule, {5, 6}, 21, 1) /\ s[Len(s)].major \in 3..8
           /\ rule = 19 => Fits(s, rule, 0..3, 17, 3) /\ s[Len(s) - 1].node # 0
<1>1. /\ \A q \in 0..3 : Enters(q, Goto(q, 17), 17) /\ Enters(q, Goto(q, 20), 20)
      /\ \A q \in 0..4 : Enters(q, Goto(q, 18), 18) /\ Enters(q, Goto(q, 19), 19)
      /\ \A q \in {5, 6} : Enters(q, Goto(q, 21), 21)
  <2>1. \A q \in 0..4 : q \in 0..3 \/ q = 4
    OBVIOUS
  <2>. QED
    BY <2>1, Gotos
<1>2. ASSUME rule \in {2, 3} PROVE Fits(s, rule, 0..3, 17, 1)
  <2>1. Handle[rule + 1] \in {6, 23, 24} /\ yyRuleInfo[rule + 1] = <<17, 1>>
    BY <1>2, RuleTable
  <2>. QED
    BY <1>1, <2>1, Handles DEF Fits
<1>3. ASSUME rule \in 7..10 PROVE Fits(s, rule, 0..4, 18, 1)
  <2>1. Handle[rule + 1] \in 18..21 /\ yyRuleInfo[rule + 1] = <<18, 1>>
    BY <1>3, RuleTable
  <2>. QED
    BY <1>1, <2>1, Handles DEF Fits
<1>4. ASSUME rule \in {4, 5} PROVE Fits(s, rule, 0..3, 20, 3) /\ s[Len(s) - 1].node # 0
  <2>1. Handle[rule + 1] \in {9, 22} /\ yyRuleInfo[rule + 1] = <<20, 3>>
    BY <1>4, RuleTable
  <2>. QED
    BY <1>1, <2>1, Handles DEF Fits
<1>5. ASSUME rule = 6 PROVE Fits(s, rule, 0..3, 20, 1)
  <2>1. Handle[rule + 1] \in {6, 23, 24} /\ yyRuleInfo[rule + 1] = <<20, 1>>
    BY <1>5, RuleTable
  <2>. QED
    BY <1>1, <2>1, Handles DEF Fits
<1>6. ASSUME rule \in {11, 12} PROVE Fits(s, rule, 0..4, 19, 3) /\ s[Len(s) - 1].node = 0
  <2>1. Handle[rule + 1] \in {5, 11} /\ yyRuleInfo[rule + 1] = <<19, 3>>
    BY <1>6, RuleTable
  <2>. QED
    BY <1>1, <2>1, Handles DEF Fits
<1>7. ASSUME rule \in 13..18 PROVE Fits(s, rule, {5, 6}, 21, 1) /\ s[Len(s)].major \in 3..8
  <2>1. Handle[rule + 1] \in 12..17 /\ yyRuleInfo[rule + 1] = <<21, 1>>
    BY <1>7, RuleTable
  <2>. QED
    BY <1>1, <2>1, Handles DEF Fits
<1>8. ASSUME rule = 19 PROVE Fits(s, rule, 0..3, 17, 3) /\ s[Len(s) - 1].node # 0
  <2>1. Handle[rule + 1] = 10 /\ yyRuleInfo[rule + 1] = <<17, 3>>
    BY <1>8, RuleTable
  <2>. QED
    BY <1>1, <2>1, Handles DEF Fits
<1>. QED
  BY <1>2, <1>3, <1>4, <1>5, <1>6, <1>7, <1>8

Reduced(S, node) ==
    /\ StackSound' /\ PlaceSound' /\ overflowed' = overflowed
    /\ Roots' = S \cup ({node} \ {0}) \cup ({minor} \ {0})

LEMMA AfterOne ==
    ASSUME StackSound, PlaceSound, Parsing, NEW B, NEW rule \in 2..19, NEW lhs \in 16..21,
           Fits(yystack, rule, B, lhs, 1),
           NEW node \in Nat, NEW op \in Ops, Becomes(rule, node, op), node = 0 <=> lhs = 21,
           node \notin Roots \/ node = yystack[Len(yystack)].node
    PROVE  Reduced(StackNodes(yystack, Len(yystack) - 1), node)
<1>. DEFINE k == Len(yystack) - 1
            c == yystack[Len(yystack)].node
            S == StackNodes(yystack, k)
<1>1. /\ One(yystack, B) /\ yyRuleInfo[rule + 1] = <<lhs, 1>>
      /\ \A q \in B : Enters(q, Goto(q, lhs), lhs)
  BY DEF Fits
<1>2. Viable(yystack) /\ Apart(yystack) /\ minor \notin OnStack
  BY DEF StackSound
<1>3. c # 0 /\ c \notin S /\ OnStack = S \cup {c}
  BY <1>2, <1>1, TopOne DEF OnStack
<1>4. k \in 1..Len(yystack) /\ yystack[k].state \in B
  BY <1>1 DEF One
<1>5. Roots = OnStack \cup ({minor} \ {0})
  BY AtWork
<1>6. node \notin S /\ (node = 0 \/ node # minor) /\ S \subseteq OnStack
  BY <1>2, <1>3, <1>5
<1>7. Enters(yystack[k].state, Goto(yystack[k].state, lhs), lhs)
  BY <1>4, <1>1
<1>8. k = Len(yystack) - 1 /\ 1 \in {1, 3}
  OBVIOUS
<1>. HIDE DEF k
<1>9. /\ StackSound' /\ PlaceSound' /\ overflowed' = overflowed
      /\ Roots' = StackNodes(yystack, k) \cup ({node} \ {0}) \cup ({minor} \ {0})
  BY <1>4, <1>6, <1>7, <1>8, <1>1, Becoming
<1>. QED
  BY <1>9 DEF Reduced, k

LEMMA AfterThree ==
    ASSUME StackSound, PlaceSound, Parsing, NEW B, NEW rule \in 2..19, NEW lhs \in 16..21,
           Fits(yystack, rule, B, lhs, 3),
           NEW node \in Nat, NEW op \in Ops, Becomes(rule, node, op), node = 0 <=> lhs = 21,
           node \notin Roots \/ node = yystack[Len(yystack) - 1].node
    PROVE  Reduced(StackNodes(yystack, Len(yystack) - 3), node)
<1>. DEFINE k == Len(yystack) - 3
            b == yystack[Len(yystack) - 1].node
            S == StackNodes(yystack, k)
<1>1. /\ Three(yystack, B) /\ yyRuleInfo[rule + 1] = <<lhs, 3>>
      /\ \A q \in B : Enters(q, Goto(q, lhs), lhs)
  BY DEF Fits
<1>2. Viable(yystack) /\ Apart(yystack) /\ minor \notin OnStack
  BY DEF StackSound
<1>3. b \notin S /\ (b # 0 => b \in OnStack) /\ S \subseteq OnStack
  <2>. DEFINE a == yystack[Len(yystack) - 2].node
              c == yystack[Len(yystack)].node
  <2>1. b \notin S /\ OnStack = S \cup ({a, b, c} \ {0})
    BY <1>2, <1>1, TopThree DEF OnStack
  <2>. HIDE DEF a, b, c, S
  <2>. QED
    BY <2>1
<1>4. k \in 1..Len(yystack) /\ yystack[k].state \in B
  BY <1>1 DEF Three
<1>5. Roots = OnStack \cup ({minor} \ {0})
  BY AtWork
<1>6. node \notin S /\ (node = 0 \/ node # minor) /\ S \subseteq OnStack
  BY <1>2, <1>3, <1>5
<1>7. Enters(yystack[k].state, Goto(yystack[k].state, lhs), lhs)
  BY <1>4, <1>1
<1>8. k = Len(yystack) - 3 /\ 3 \in {1, 3}
  OBVIOUS
<1>. HIDE DEF k
<1>9. /\ StackSound' /\ PlaceSound' /\ overflowed' = overflowed
      /\ Roots' = StackNodes(yystack, k) \cup ({node} \ {0}) \cup ({minor} \ {0})
  BY <1>4, <1>6, <1>7, <1>8, <1>1, Becoming
<1>. QED
  BY <1>9 DEF Reduced, k

LEMMA Working ==
    ASSUME StackSound, PlaceSound, NEW rule \in 2..19, Reducing(rule)
    PROVE  /\ Parsing /\ Viable(yystack) /\ Apart(yystack) /\ yystack # << >> /\ Len(yystack) \in Nat
           /\ Roots = OnStack \cup ({minor} \ {0}) /\ minor \notin OnStack
           /\ yystack[Len(yystack)].state = Handle[rule + 1]
<1>1. rule \in 0..19
  OBVIOUS
<1>2. Parsing /\ yystack[Len(yystack)].state = Handle[rule + 1]
  BY <1>1, ReducingState
<1>. QED
  BY <1>2, AtWork DEF StackSound

(* What a reduction does to the heap, and then it is done.                  *)
LEMMA Finished ==
    ASSUME NodesHeld, NEW S, NEW node, Reduced(S, node), NEW Q, Hands(heap, Roots, heap', Q),
           Q = S \cup ({node} \ {0}) \cup ({minor} \ {0})
    PROVE  Onward
<1>1. StackSound' /\ PlaceSound' /\ overflowed' = overflowed /\ Roots' = Q
  BY DEF Reduced
<1>. QED
  BY <1>1, Passed DEF Onward, Owned

LEMMA Same == ASSUME NodesHeld, heap' = heap PROVE Hands(heap, Roots, heap', Roots)
<1>1. Held(heap, Roots) /\ Size(heap) \in Nat
  BY DEF NodesHeld, Held, Memory, Size
<1>. QED
  BY <1>1 DEF Hands

UnitBy(rule) == Reducing(rule) /\ Becomes(rule, Rhs(0).node, "") /\ UNCHANGED heap

LEMMA ReduceUnitKeeps ==
    ASSUME StackSound, PlaceSound, NodesHeld, NEW rule \in {2, 3, 7, 8, 9, 10}, UnitBy(rule)
    PROVE  Onward
<1>. DEFINE n == Len(yystack)
            c == yystack[n].node
            S == StackNodes(yystack, n - 1)
<1>1. rule \in 2..19 /\ (rule \in {2, 3} \/ rule \in 7..10)
  OBVIOUS
<1>2. Reducing(rule) /\ Becomes(rule, Rhs(0).node, "") /\ heap' = heap
  BY DEF UnitBy
<1>3. /\ Parsing /\ Viable(yystack) /\ Apart(yystack) /\ yystack # << >> /\ n \in Nat
      /\ Roots = OnStack \cup ({minor} \ {0}) /\ yystack[n].state = Handle[rule + 1]
  BY <1>1, <1>2, Working
<1>4. Rhs(0).node = c /\ "" \in Ops
  BY <1>3 DEF Rhs, Ops
<1>5. PICK lhs \in {17, 18} : \E B : Fits(yystack, rule, B, lhs, 1)
  <2>1. Fits(yystack, rule, 0..3, 17, 1) \/ Fits(yystack, rule, 0..4, 18, 1)
    BY <1>1, <1>3, Rules
  <2>2. 17 \in {17, 18} /\ 18 \in {17, 18}
    OBVIOUS
  <2>. QED
    BY <2>1, <2>2, Zenon
<1>6. PICK B : Fits(yystack, rule, B, lhs, 1)
  BY <1>5
<1>7. One(yystack, B)
  BY <1>6 DEF Fits
<1>8. c \in Nat /\ c # 0 /\ OnStack = S \cup {c}
  BY <1>3, <1>7, TopOne DEF OnStack
<1>9. lhs \in 16..21 /\ (c = 0 <=> lhs = 21)
  BY <1>5, <1>8
<1>10. Becomes(rule, c, "")
  BY <1>2, <1>4
<1>11. c = yystack[Len(yystack)].node
  OBVIOUS
<1>. HIDE DEF c
<1>12. Reduced(S, c)
  BY <1>1, <1>3, <1>4, <1>8, <1>9, <1>10, <1>11, <1>6, AfterOne
<1>13. Roots = S \cup ({c} \ {0}) \cup ({minor} \ {0})
  BY <1>3, <1>8
<1>. HIDE DEF S
<1>. QED
  BY <1>2, <1>12, <1>13, Same, Finished

LogicalBy(rule) ==
    /\ Reducing(rule)
    /\ heap' = stnode_free(new_test(heap, IF rule = 4 THEN "AND" ELSE "OR", Rhs(2).node, Rhs(0).node),
                           Rhs(1).node)
    /\ Becomes(rule, Fresh(heap), "")

LEMMA ReduceLogicalKeeps ==
    ASSUME StackSound, PlaceSound, NodesHeld, NEW rule \in {4, 5}, LogicalBy(rule)
    PROVE  Onward
<1>. DEFINE n == Len(yystack)
            a == yystack[n - 2].node
            b == yystack[n - 1].node
            c == yystack[n].node
            S == StackNodes(yystack, n - 3)
            op == IF rule = 4 THEN "AND" ELSE "OR"
            F == Fresh(heap)
            h == new_test(heap, op, a, c)
            none == ""
<1>1. rule \in 2..19
  OBVIOUS
<1>2. op \in Ops /\ none \in Ops
  BY DEF Ops
<1>3. Reducing(rule)
  BY DEF LogicalBy
<1>4. /\ Parsing /\ Viable(yystack) /\ Apart(yystack) /\ yystack # << >> /\ n \in Nat
      /\ Roots = OnStack \cup ({minor} \ {0}) /\ minor \notin OnStack /\ yystack[n].state = Handle[rule + 1]
  BY <1>1, <1>3, Working
<1>5. Rhs(0).node = c /\ Rhs(1).node = b /\ Rhs(2).node = a
  BY <1>4 DEF Rhs
<1>6. heap' = stnode_free(h, b) /\ Becomes(rule, F, none)
  BY <1>5 DEF LogicalBy
<1>. HIDE DEF op, none
<1>7. Fits(yystack, rule, 0..3, 20, 3) /\ b # 0
  BY <1>1, <1>4, Rules
<1>8. Three(yystack, 0..3)
  BY <1>7 DEF Fits
<1>9. /\ a \in Nat /\ b \in Nat /\ c \in Nat /\ a # 0 /\ c # 0 /\ a # b /\ b # c /\ a # c
      /\ a \notin S /\ b \notin S /\ c \notin S
      /\ OnStack = S \cup ({a, b, c} \ {0})
  BY <1>4, <1>8, TopThree DEF OnStack
<1>. HIDE DEF a, b, c, S, F, h
<1>10. Held(heap, Roots)
  BY DEF NodesHeld
<1>11. a \in Roots /\ b \in Roots /\ c \in Roots /\ c \in Roots \cup {0}
  BY <1>4, <1>7, <1>9
<1>12. Needs(op, c)
  BY <1>9 DEF Needs
<1>13. /\ Hands(heap, Roots, h, (Roots \ {a, c}) \cup {F})
       /\ F \notin Roots /\ F # 0 /\ F = Size(heap) + 1
  BY <1>2, <1>9, <1>10, <1>11, <1>12, NewTest DEF F, h
<1>. DEFINE Q == (Roots \ {a, c}) \cup {F}
<1>14. b \in Q \cup {0}
  BY <1>9, <1>11
<1>15. Held(h, Q)
  BY <1>13 DEF Hands
<1>16. Hands(h, Q, stnode_free(h, b), Q \ {b})
  <2>. HIDE DEF Q
  <2>. QED
    BY <1>14, <1>15, FreeRoot
<1>17. Hands(heap, Roots, heap', Q \ {b})
  BY <1>6, <1>10, <1>13, <1>16, HandsOver
<1>18. Q \ {b} = S \cup ({F} \ {0}) \cup ({minor} \ {0})
  BY <1>4, <1>9, <1>11, <1>13
<1>19. Size(heap) \in Nat
  BY <1>10 DEF Held, Memory, Size
<1>20. F \in Nat /\ 20 \in 16..21 /\ (F = 0 <=> 20 = 21)
  BY <1>13, <1>19
<1>21. Reduced(S, F)
  BY <1>1, <1>2, <1>4, <1>6, <1>7, <1>13, <1>20, AfterThree DEF S
<1>. HIDE DEF Q
<1>. QED
  BY <1>17, <1>18, <1>21, Finished

ExistsBy ==
    /\ Reducing(6)
    /\ heap' = new_test(heap, "EXISTS", Rhs(0).node, 0)
    /\ Becomes(6, Fresh(heap), "")

LEMMA ReduceExistsKeeps ==
    ASSUME StackSound, PlaceSound, NodesHeld, ExistsBy
    PROVE  Onward
<1>. DEFINE n == Len(yystack)
            c == yystack[n].node
            S == StackNodes(yystack, n - 1)
            op == "EXISTS"
            F == Fresh(heap)
            none == ""
<1>1. 6 \in 2..19
  OBVIOUS
<1>2. op \in Ops /\ none \in Ops /\ Needs(op, 0)
  BY DEF Ops, Needs
<1>3. Reducing(6)
  BY DEF ExistsBy
<1>4. /\ Parsing /\ Viable(yystack) /\ Apart(yystack) /\ yystack # << >> /\ n \in Nat
      /\ Roots = OnStack \cup ({minor} \ {0}) /\ minor \notin OnStack /\ yystack[n].state = Handle[6 + 1]
  BY <1>1, <1>3, Working
<1>5. Rhs(0).node = c
  BY <1>4 DEF Rhs
<1>6. heap' = new_test(heap, op, c, 0) /\ Becomes(6, F, none)
  BY <1>5 DEF ExistsBy
<1>. HIDE DEF op, none
<1>7. Fits(yystack, 6, 0..3, 20, 1)
  BY <1>1, <1>4, Rules
<1>8. One(yystack, 0..3)
  BY <1>7 DEF Fits
<1>9. c \in Nat /\ c # 0 /\ c \notin S /\ OnStack = S \cup {c}
  BY <1>4, <1>8, TopOne DEF OnStack
<1>. HIDE DEF c, S, F
<1>10. Held(heap, Roots)
  BY DEF NodesHeld
<1>11. c \in Roots /\ 0 \in Roots \cup {0}
  BY <1>4, <1>9
<1>12. /\ Hands(heap, Roots, heap', (Roots \ {c, 0}) \cup {F})
       /\ F \notin Roots /\ F # 0 /\ F = Size(heap) + 1
  BY <1>2, <1>6, <1>9, <1>10, <1>11, NewTest DEF F
<1>13. (Roots \ {c, 0}) \cup {F} = S \cup ({F} \ {0}) \cup ({minor} \ {0})
  <2>1. 0 \notin OnStack
    BY DEF OnStack, StackNodes
  <2>. QED
    BY <1>4, <1>9, <1>11, <1>12, <2>1
<1>14. Size(heap) \in Nat
  BY <1>10 DEF Held, Memory, Size
<1>15. F \in Nat /\ 20 \in 16..21 /\ (F = 0 <=> 20 = 21)
  BY <1>12, <1>14
<1>16. Reduced(S, F)
  BY <1>1, <1>2, <1>4, <1>6, <1>7, <1>12, <1>15, AfterOne DEF S
<1>. QED
  BY <1>12, <1>13, <1>16, Finished

RelationBy ==
    /\ Reducing(11)
    /\ heap' = new_test(heap, Rhs(1).op, Rhs(2).node, Rhs(0).node)
    /\ Becomes(11, Fresh(heap), "")

ChainBy ==
    /\ Reducing(12)
    /\ heap' = Chain(heap, Rhs(1).op, Rhs(2).node, Rhs(0).node)
    /\ Becomes(12, Len(heap'.node), "")

LEMMA ReduceRelationKeeps ==
    ASSUME StackSound, PlaceSound, NodesHeld, RelationBy \/ ChainBy
    PROVE  Onward
<1>. DEFINE n == Len(yystack)
            a == yystack[n - 2].node
            b == yystack[n - 1].node
            c == yystack[n].node
            S == StackNodes(yystack, n - 3)
            op == yystack[n - 1].op
            none == ""
            Result(h, x) == Hands(heap, Roots, h, (Roots \ {a, c}) \cup {x}) /\ x \notin Roots /\ x # 0
<1>1. PICK rule \in {11, 12} : Reducing(rule) /\ (rule = 11 => RelationBy) /\ (rule = 12 => ChainBy)
  <2>1. (RelationBy => Reducing(11)) /\ (ChainBy => Reducing(12))
    BY DEF RelationBy, ChainBy
  <2>2. 11 \in {11, 12} /\ 12 \in {11, 12} /\ 11 # 12
    OBVIOUS
  <2>. QED
    BY <2>1, <2>2
<1>2. rule \in 2..19 /\ none \in Ops
  BY DEF Ops
<1>3. /\ Parsing /\ Viable(yystack) /\ Apart(yystack) /\ yystack # << >> /\ n \in Nat
      /\ Roots = OnStack \cup ({minor} \ {0}) /\ minor \notin OnStack /\ yystack[n].state = Handle[rule + 1]
  BY <1>1, <1>2, Working
<1>4. Rhs(0).node = c /\ Rhs(1).op = op /\ Rhs(2).node = a
  BY <1>3 DEF Rhs
<1>5. Fits(yystack, rule, 0..4, 19, 3) /\ b = 0
  BY <1>2, <1>3, Rules
<1>6. Three(yystack, 0..4)
  BY <1>5 DEF Fits
<1>7. /\ a \in Nat /\ c \in Nat /\ a # 0 /\ c # 0 /\ a # c /\ a \notin S /\ c \notin S
      /\ OnStack = S \cup {a, c}
  <2>1. /\ a \in Nat /\ c \in Nat /\ a # 0 /\ c # 0 /\ a # c /\ a \notin S /\ c \notin S
        /\ OnStack = S \cup ({a, b, c} \ {0})
    BY <1>3, <1>6, TopThree DEF OnStack
  <2>. QED
    BY <1>5, <2>1
<1>8. op \in Ops
  <2>1. n - 1 \in 1..Len(yystack)
    BY <1>6 DEF Three
  <2>. QED
    BY <1>3, <2>1, EntryIs
<1>9. Needs(op, c)
  BY <1>7 DEF Needs
<1>. HIDE DEF none
<1>10. Held(heap, Roots) /\ Size(heap) \in Nat
  BY DEF NodesHeld, Held, Memory, Size
<1>11. a \in Roots /\ c \in Roots /\ c \in Roots \cup {0}
  BY <1>3, <1>7
<1>12. PICK x : Becomes(rule, x, none) /\ x \in Nat /\ Result(heap', x)
  <2>1. CASE rule = 11
    <3>1. heap' = new_test(heap, op, a, c) /\ Becomes(rule, Fresh(heap), none)
      BY <1>1, <1>4, <2>1 DEF RelationBy, none
    <3>. HIDE DEF a, c, op
    <3>2. Hands(heap, Roots, new_test(heap, op, a, c), (Roots \ {a, c}) \cup {Fresh(heap)})
          /\ Fresh(heap) \notin Roots /\ Fresh(heap) # 0 /\ Fresh(heap) = Size(heap) + 1
      BY <1>7, <1>8, <1>10, <1>11, <1>9, NewTest
    <3>. QED
      BY <1>10, <3>1, <3>2
  <2>2. CASE rule = 12
    <3>1. heap' = Chain(heap, op, a, c) /\ Becomes(rule, Len(heap'.node), none)
      BY <1>1, <1>4, <2>2 DEF ChainBy, none
    <3>. HIDE DEF a, c, op
    <3>. DEFINE g == Chain(heap, op, a, c)
    <3>2. /\ Hands(heap, Roots, g, (Roots \ {a, c}) \cup {Len(g.node)})
          /\ Len(g.node) \notin Roots /\ Len(g.node) # 0
      BY <1>7, <1>8, <1>10, <1>11, ChainHolds
    <3>. HIDE DEF g
    <3>3. Len(g.node) \in Nat
      BY <3>2 DEF Hands, Held, Memory
    <3>. QED
      BY <3>1, <3>2, <3>3 DEF g
  <2>. QED
    BY <1>1, <2>1, <2>2
<1>. HIDE DEF a, c, S
<1>13. (Roots \ {a, c}) \cup {x} = S \cup ({x} \ {0}) \cup ({minor} \ {0})
  BY <1>3, <1>7, <1>12
<1>14. 19 \in 16..21 /\ (x = 0 <=> 19 = 21) /\ x \notin Roots
  BY <1>12
<1>15. Reduced(S, x)
  BY <1>2, <1>3, <1>5, <1>12, <1>14, AfterThree DEF S
<1>. QED
  BY <1>12, <1>13, <1>15, Finished

OpBy(rule) ==
    /\ Reducing(rule)
    /\ heap' = stnode_free(heap, Rhs(0).node)
    /\ Becomes(rule, 0, RelOp[Rhs(0).major])

LEMMA ReduceOpKeeps ==
    ASSUME StackSound, PlaceSound, NodesHeld, NEW rule \in 13..18, OpBy(rule)
    PROVE  Onward
<1>. DEFINE n == Len(yystack)
            c == yystack[n].node
            S == StackNodes(yystack, n - 1)
            op == RelOp[Rhs(0).major]
<1>1. rule \in 2..19
  OBVIOUS
<1>2. Reducing(rule) /\ Becomes(rule, 0, op)
  BY DEF OpBy
<1>3. /\ Parsing /\ Viable(yystack) /\ Apart(yystack) /\ yystack # << >> /\ n \in Nat
      /\ Roots = OnStack \cup ({minor} \ {0}) /\ minor \notin OnStack /\ yystack[n].state = Handle[rule + 1]
  BY <1>1, <1>2, Working
<1>4. Rhs(0) = yystack[n]
  BY <1>3 DEF Rhs
<1>5. heap' = stnode_free(heap, c)
  BY <1>4 DEF OpBy
<1>6. Fits(yystack, rule, {5, 6}, 21, 1) /\ yystack[n].major \in 3..8
  BY <1>1, <1>3, Rules
<1>7. op \in Ops
  <2>1. {RelOp[3], RelOp[4], RelOp[5], RelOp[6], RelOp[7], RelOp[8]} \subseteq Ops
    BY DEF RelOp, Ops
  <2>2. \A m \in 3..8 : RelOp[m] \in {RelOp[3], RelOp[4], RelOp[5], RelOp[6], RelOp[7], RelOp[8]}
    OBVIOUS
  <2>. QED
    BY <1>4, <1>6, <2>1, <2>2
<1>8. One(yystack, {5, 6})
  BY <1>6 DEF Fits
<1>9. c \in Nat /\ c # 0 /\ c \notin S /\ OnStack = S \cup {c}
  BY <1>3, <1>8, TopOne DEF OnStack
<1>. HIDE DEF c, S, op
<1>10. Held(heap, Roots)
  BY DEF NodesHeld
<1>11. c \in Roots \cup {0} /\ 0 \notin Roots
  <2>1. 0 \notin OnStack
    BY DEF OnStack, StackNodes
  <2>. QED
    BY <1>3, <1>9, <2>1
<1>12. Hands(heap, Roots, heap', Roots \ {c})
  BY <1>5, <1>10, <1>11, FreeRoot
<1>13. Roots \ {c} = S \cup ({0} \ {0}) \cup ({minor} \ {0})
  BY <1>3, <1>9
<1>14. 0 \in Nat /\ 21 \in 16..21 /\ (0 = 0 <=> 21 = 21)
  OBVIOUS
<1>15. Reduced(S, 0)
  BY <1>1, <1>2, <1>3, <1>6, <1>7, <1>11, <1>14, AfterOne DEF S
<1>. QED
  BY <1>12, <1>13, <1>15, Finished

BracketsBy ==
    /\ Reducing(19)
    /\ heap' = stnode_free(stnode_free(stnode_set_bracket(heap, Rhs(1).node), Rhs(2).node), Rhs(0).node)
    /\ Becomes(19, Rhs(1).node, "")

LEMMA ReduceBracketsKeeps ==
    ASSUME StackSound, PlaceSound, NodesHeld, BracketsBy
    PROVE  Onward
<1>. DEFINE n == Len(yystack)
            a == yystack[n - 2].node
            b == yystack[n - 1].node
            c == yystack[n].node
            S == StackNodes(yystack, n - 3)
            none == ""
            h == stnode_set_bracket(heap, b)
            g == stnode_free(h, a)
<1>1. 19 \in 2..19
  OBVIOUS
<1>2. none \in Ops
  BY DEF Ops
<1>3. Reducing(19)
  BY DEF BracketsBy
<1>4. /\ Parsing /\ Viable(yystack) /\ Apart(yystack) /\ yystack # << >> /\ n \in Nat
      /\ Roots = OnStack \cup ({minor} \ {0}) /\ minor \notin OnStack /\ yystack[n].state = Handle[19 + 1]
  BY <1>1, <1>3, Working
<1>5. Rhs(0).node = c /\ Rhs(1).node = b /\ Rhs(2).node = a
  BY <1>4 DEF Rhs
<1>6. heap' = stnode_free(g, c) /\ Becomes(19, b, none)
  BY <1>5 DEF BracketsBy
<1>. HIDE DEF none
<1>7. Fits(yystack, 19, 0..3, 17, 3) /\ b # 0
  BY <1>1, <1>4, Rules
<1>8. Three(yystack, 0..3)
  BY <1>7 DEF Fits
<1>9. /\ a \in Nat /\ b \in Nat /\ c \in Nat /\ a # 0 /\ c # 0 /\ a # b /\ b # c /\ a # c
      /\ a \notin S /\ b \notin S /\ c \notin S
      /\ OnStack = S \cup ({a, b, c} \ {0})
  BY <1>4, <1>8, TopThree DEF OnStack
<1>10. b = yystack[Len(yystack) - 1].node
  OBVIOUS
<1>. HIDE DEF a, b, c, S, h, g
<1>11. Held(heap, Roots)
  BY DEF NodesHeld
<1>12. a \in Roots /\ b \in Roots /\ c \in Roots
  BY <1>4, <1>7, <1>9
<1>13. Hands(heap, Roots, h, Roots)
  BY <1>11, <1>12, SetBracket DEF h
<1>14. Hands(h, Roots, g, Roots \ {a})
  <2>1. Held(h, Roots) /\ a \in Roots \cup {0}
    BY <1>12, <1>13 DEF Hands
  <2>. QED
    BY <2>1, FreeRoot DEF g
<1>. DEFINE Q == Roots \ {a}
<1>15. Held(g, Q) /\ c \in Q \cup {0}
  BY <1>9, <1>12, <1>14 DEF Hands
<1>16. Hands(heap, Roots, g, Q)
  BY <1>11, <1>13, <1>14, HandsOver
<1>17. Q \ {c} = S \cup ({b} \ {0}) \cup ({minor} \ {0})
  BY <1>4, <1>7, <1>9
<1>. HIDE DEF Q
<1>18. Hands(g, Q, heap', Q \ {c})
  BY <1>6, <1>15, FreeRoot
<1>19. Hands(heap, Roots, heap', Q \ {c})
  BY <1>11, <1>16, <1>18, HandsOver
<1>20. 17 \in 16..21 /\ (b = 0 <=> 17 = 21)
  BY <1>7
<1>21. Reduced(S, b)
  BY <1>1, <1>2, <1>4, <1>6, <1>7, <1>9, <1>10, <1>20, AfterThree DEF S
<1>. QED
  BY <1>17, <1>19, <1>21, Finished

LEMMA ReduceKeeps == Owned /\ Reduce => ReduceSentence \/ Onward
<1>1. SUFFICES ASSUME StackSound, PlaceSound, NodesHeld, Reduce PROVE ReduceSentence \/ Onward
  BY DEF Owned
<1>2. CASE ReduceUnit
  <2>1. PICK rule \in {2, 3, 7, 8, 9, 10} : UnitBy(rule)
    BY <1>2 DEF ReduceUnit, UnitBy
  <2>. QED
    BY <1>1, <2>1, ReduceUnitKeeps
<1>3. CASE ReduceLogical
  <2>1. PICK rule \in {4, 5} : LogicalBy(rule)
    BY <1>3 DEF ReduceLogical, LogicalBy
  <2>. QED
    BY <1>1, <2>1, ReduceLogicalKeeps
<1>4. CASE ReduceExists
  <2>1. ExistsBy
    BY <1>4 DEF ReduceExists, ExistsBy
  <2>. QED
    BY <1>1, <2>1, ReduceExistsKeeps
<1>5. CASE ReduceRelation \/ ReduceChain
  <2>1. RelationBy \/ ChainBy
    BY <1>5 DEF ReduceRelation, ReduceChain, RelationBy, ChainBy
  <2>. QED
    BY <1>1, <2>1, ReduceRelationKeeps
<1>6. CASE ReduceOp
  <2>1. PICK rule \in 13..18 : OpBy(rule)
    BY <1>6 DEF ReduceOp, OpBy
  <2>. QED
    BY <1>1, <2>1, ReduceOpKeeps
<1>7. CASE ReduceBrackets
  <2>1. BracketsBy
    BY <1>7 DEF ReduceBrackets, BracketsBy
  <2>. QED
    BY <1>1, <2>1, ReduceBracketsKeeps
<1>. QED
  BY <1>1, <1>2, <1>3, <1>4, <1>5, <1>6, <1>7 DEF Reduce

(* An empty stack, and one that holds but the bottom.                       *)
LEMMA EmptyStack ==
    /\ Viable(<< >>) /\ Apart(<< >>) /\ StackNodes(<< >>, Len(<< >>)) = {}
    /\ Viable(<<Bottom>>) /\ Apart(<<Bottom>>) /\ StackNodes(<<Bottom>>, Len(<<Bottom>>)) = {}
    /\ Len(<<Bottom>>) = 1 /\ Len(<< >>) = 0 /\ <<Bottom>> # << >>
<1>1. Len(<< >>) = 0 /\ << >> \in Seq(Entry) /\ 1..0 = {} /\ 2..0 = {}
  OBVIOUS
<1>2. Bottom \in Entry /\ Bottom.node = 0
  <2>. DEFINE none == ""
  <2>1. none \in Ops
    BY DEF Ops
  <2>2. Bottom = [state |-> 0, major |-> 0, node |-> 0, op |-> none]
    BY DEF Bottom
  <2>. HIDE DEF none
  <2>. QED
    BY <2>1, <2>2 DEF Entry
<1>. DEFINE s == <<Bottom>>
<1>3. s \in Seq(Entry) /\ Len(s) = 1 /\ s[1] = Bottom /\ 2..1 = {} /\ \A i \in 1..1 : i = 1
  BY <1>2
<1>4. s # << >>
  BY <1>1, <1>3
<1>. HIDE DEF s
<1>5. Viable(s) /\ Apart(s) /\ StackNodes(s, Len(s)) = {}
  BY <1>2, <1>3 DEF Viable, Apart, StackNodes
<1>6. Viable(<< >>) /\ Apart(<< >>) /\ StackNodes(<< >>, Len(<< >>)) = {}
  BY <1>1 DEF Viable, Apart, StackNodes
<1>. QED
  BY <1>1, <1>3, <1>4, <1>5, <1>6 DEF s

(* Where the parser does not stand on a token, only the stack matters.      *)
LEMMA Idle ==
    ASSUME major' \in 0..14, minor' \in Nat, Viable(yystack'), Apart(yystack'), Len(yystack') <= YYSTACKDEPTH,
           ~Parsing'
    PROVE  StackSound' /\ Roots' = OnStack' \cup InFilter'
BY DEF StackSound, Roots, AtHand

(* sentence ::= expr and sentence ::= ; the parser is done.                 *)
SentenceBy(rule) ==
    /\ Reducing(rule)
    /\ stRoot' = IF rule = 0 THEN Rhs(0).node ELSE 0
    /\ heap' = PopAll(heap, SubSeq(yystack, 1, Len(yystack) - yyRuleInfo[rule + 1][2]))
    /\ yystack' = << >>
    /\ Return
    /\ UNCHANGED <<major, minor, overflowed>>

Emptied == yystack' = << >> /\ UNCHANGED <<major, minor>>

LEMMA Empties ==
    ASSUME StackSound, Emptied, ~Parsing'
    PROVE  StackSound' /\ Roots' = InFilter'
<1>1. yystack' = << >> /\ major' = major /\ minor' = minor
  BY DEF Emptied
<1>2. YYSTACKDEPTH \in Nat
  BY DepthPositive
<1>3. Viable(yystack') /\ Apart(yystack') /\ Len(yystack') <= YYSTACKDEPTH /\ OnStack' = {}
  BY <1>1, <1>2, EmptyStack DEF OnStack
<1>4. major' \in 0..14 /\ minor' \in Nat
  BY <1>1 DEF StackSound
<1>5. AtHand' = {}
  BY DEF AtHand
<1>. QED
  BY <1>3, <1>4, <1>5 DEF StackSound, Roots

LEMMA SentenceKeeps ==
    ASSUME StackSound, PlaceSound, NodesHeld, NEW rule \in {0, 1}, SentenceBy(rule)
    PROVE  Onward
<1>. DEFINE n == Len(yystack)
            k == n - yyRuleInfo[rule + 1][2]
            s == SubSeq(yystack, 1, k)
            S == StackNodes(yystack, k)
<1>1. Reducing(rule) /\ rule \in 0..19
  BY DEF SentenceBy
<1>2. Parsing /\ major = 0
  BY <1>1, ReducingState
<1>3. /\ Roots = OnStack \cup ({minor} \ {0}) /\ n \in Nat /\ n \in 1..n
      /\ Viable(yystack) /\ Apart(yystack) /\ yystack \in Seq(Entry)
  BY <1>2, AtWork DEF StackSound, Viable
<1>4. minor = 0 /\ Roots = OnStack
  <2>1. minor = 0
    BY <1>2 DEF StackSound
  <2>. QED
    BY <1>3, <2>1
<1>5. \/ rule = 0 /\ k = n - 1
      \/ rule = 1 /\ k = n
  <2>1. yyRuleInfo[0 + 1][2] = 1 /\ yyRuleInfo[1 + 1][2] = 0
    BY DEF yyRuleInfo
  <2>. QED
    BY <1>3, <2>1
<1>6. heap' = PopAll(heap, s)
  BY DEF SentenceBy
<1>. HIDE DEF k
<1>7. k \in 0..n /\ k \in Nat
  BY <1>3, <1>5
<1>8. s \in Seq(Entry) /\ Len(s) = k /\ \A i \in 1..k : s[i] = yystack[i] /\ i \in 1..n
  BY <1>3, <1>7
<1>. HIDE DEF s
<1>9. StackNodes(s, k) = S
  BY <1>8 DEF StackNodes
<1>10. Apart(s)
  BY <1>3, <1>8 DEF Apart
<1>11. S \subseteq Roots
  BY <1>4, <1>8 DEF OnStack, StackNodes
<1>12. Held(heap, Roots)
  BY DEF NodesHeld
<1>13. Hands(heap, Roots, heap', Roots \ S)
  BY <1>6, <1>8, <1>9, <1>10, <1>11, <1>12, PopsAll
<1>14. Parsing' = FALSE /\ pc' = "finish" /\ Emptied /\ overflowed' = overflowed
  BY <1>2 DEF SentenceBy, Return, Parsing, Emptied
<1>15. StackSound' /\ Roots' = InFilter'
  BY <1>14, Empties
<1>16. PlaceSound'
  BY <1>14 DEF PlaceSound, Places, Emptied
<1>17. InFilter' = {stRoot'} \ {0}
  BY <1>14 DEF InFilter
<1>18. {stRoot'} \ {0} = Roots \ S
  <2>1. CASE rule = 0
    <3>. DEFINE c == yystack[n].node
    <3>1. stRoot' = c
      BY <1>3, <2>1 DEF SentenceBy, Rhs
    <3>2. OnStack = S \cup ({c} \ {0})
      <4>1. k + 1 = n /\ k \in Nat
        BY <1>3, <1>5, <1>7, <2>1
      <4>. QED
        BY <4>1, StackNodesSplit DEF OnStack
    <3>3. c # 0 => c \notin S
      <4>1. \A i \in 1..k : i \in 1..n /\ i # n
        BY <1>3, <1>5, <2>1
      <4>2. \A i \in 1..n : yystack[i].node = c /\ c # 0 => i = n
        BY <1>3 DEF Apart
      <4>. QED
        BY <1>3, <4>1, <4>2 DEF StackNodes
    <3>4. 0 \notin S
      BY DEF StackNodes
    <3>. HIDE DEF c, S
    <3>. QED
      BY <1>4, <3>1, <3>2, <3>3, <3>4
  <2>2. CASE rule = 1
    <3>1. stRoot' = 0
      BY <2>2 DEF SentenceBy
    <3>2. S = Roots
      BY <1>4, <1>5, <2>2 DEF OnStack
    <3>. QED
      BY <3>1, <3>2
  <2>. QED
    BY <2>1, <2>2
<1>. HIDE DEF S
<1>19. NodesHeld' /\ Grows
  BY <1>13, <1>14, <1>15, <1>17, <1>18, Passed
<1>. QED
  BY <1>15, <1>16, <1>19 DEF Onward, Owned

(* Fewer roots: the other nodes are lost, not misused.                      *)
LEMMA HeldLess ==
    ASSUME NEW h, NEW R, Held(h, R), NEW Q, Q \subseteq R
    PROVE  Held(h, Q)
<1>1. \A m \in h.live : Kids(h, m) \subseteq h.live \ Q
  BY DEF Held
<1>. QED
  BY <1>1 DEF Held

LEMMA WholeStack == ASSUME NEW X, NEW s \in Seq(X) PROVE SubSeq(s, 1, Len(s)) = s
<1>1. Len(s) \in Nat /\ SubSeq(s, 1, Len(s)) \in Seq(X) /\ Len(SubSeq(s, 1, Len(s))) = Len(s)
  OBVIOUS
<1>2. \A i \in 1..Len(s) : SubSeq(s, 1, Len(s))[i] = s[i]
  OBVIOUS
<1>. QED
  BY <1>1, <1>2, SeqEqual

(* The stack gives up all its nodes, and no other one.                      *)
LEMMA PopStack ==
    ASSUME StackSound, NodesHeld
    PROVE  Hands(heap, Roots, PopAll(heap, yystack), Roots \ OnStack)
<1>1. yystack \in Seq(Entry) /\ Apart(yystack) /\ Held(heap, Roots)
  BY DEF StackSound, NodesHeld, Viable
<1>2. OnStack \subseteq Roots
  BY DEF Roots
<1>. QED
  BY <1>1, <1>2, PopsAll DEF OnStack

(* A shift that finds the stack full, and one that does not.                *)
ShiftFull ==
    /\ yystack' = << >> /\ heap' = PopAll(heap, yystack) /\ overflowed' = TRUE
    /\ Return /\ UNCHANGED <<major, minor, stRoot>>

LEMMA ShiftFullKeeps ==
    ASSUME StackSound, PlaceSound, NodesHeld, Parsing, major # 0, ShiftFull
    PROVE  Onward
<1>1. Emptied /\ ~Parsing' /\ pc' = "lex" /\ stRoot' = stRoot /\ InFilter' = {}
  BY DEF ShiftFull, Emptied, Return, Parsing, InFilter
<1>2. StackSound' /\ Roots' = {}
  BY <1>1, Empties
<1>3. PlaceSound'
  BY <1>1 DEF PlaceSound, Places, Parsing
<1>4. Hands(heap, Roots, heap', Roots \ OnStack)
  BY PopStack DEF ShiftFull
<1>5. Held(heap', {})
  BY <1>4, HeldLess DEF Hands
<1>6. NodesHeld' /\ Grows
  BY <1>2, <1>4, <1>5 DEF NodesHeld, ShiftFull, Hands, Grows
<1>. QED
  BY <1>2, <1>3, <1>6 DEF Onward, Owned

ShiftOn(state, op) ==
    /\ yystack' = Append(yystack, [state |-> state, major |-> major, node |-> minor, op |-> op])
    /\ Return /\ UNCHANGED <<heap, major, minor, stRoot, overflowed>>

LEMMA ShiftOnKeeps ==
    ASSUME StackSound, PlaceSound, NodesHeld, Parsing, Len(yystack) # YYSTACKDEPTH, NEW state, NEW op \in Ops,
           major # 0, Enters(yystack[Len(yystack)].state, state, major), ShiftOn(state, op)
    PROVE  Onward
<1>. DEFINE n == Len(yystack)
<1>1. /\ Roots = OnStack \cup ({minor} \ {0}) /\ n \in Nat /\ n \in 1..n
      /\ Viable(yystack) /\ Apart(yystack) /\ yystack \in Seq(Entry)
  BY AtWork DEF StackSound, Viable
<1>2. major \in 0..21 /\ minor \in Nat /\ (minor = 0 <=> major = 21) /\ minor \notin StackNodes(yystack, n)
  BY DEF StackSound, OnStack
<1>3. SubSeq(yystack, 1, n) = yystack
  BY <1>1, WholeStack
<1>4. yystack' = Append(SubSeq(yystack, 1, n), [state |-> state, major |-> major, node |-> minor, op |-> op])
  BY <1>3 DEF ShiftOn
<1>5. Stacked(yystack, n, yystack', minor)
  BY <1>1, <1>2, <1>4, PushedSymbol
<1>6. /\ Viable(yystack') /\ Apart(yystack') /\ Len(yystack') = n + 1
      /\ OnStack' = OnStack \cup ({minor} \ {0})
  BY <1>5 DEF Stacked, With, OnStack
<1>7. Len(yystack') <= YYSTACKDEPTH
  <2>1. n <= YYSTACKDEPTH /\ YYSTACKDEPTH \in Nat
    BY DepthPositive DEF StackSound
  <2>. QED
    BY <1>1, <1>6, <2>1
<1>8. /\ major' = major /\ minor' = minor /\ stRoot' = stRoot /\ pc' = "lex" /\ ~Parsing' /\ InFilter' = {}
      /\ heap' = heap /\ overflowed' = overflowed
  BY DEF ShiftOn, Return, Parsing, InFilter
<1>9. major' \in 0..14 /\ minor' \in Nat
  BY <1>8 DEF StackSound
<1>10. StackSound' /\ Roots' = OnStack' \cup InFilter'
  BY <1>6, <1>7, <1>8, <1>9, Idle
<1>11. Roots' = Roots
  BY <1>1, <1>6, <1>8, <1>10
<1>12. PlaceSound'
  BY <1>8 DEF PlaceSound, Places, Parsing
<1>13. NodesHeld' /\ Grows
  BY <1>8, <1>11, Same, Passed
<1>. QED
  BY <1>10, <1>12, <1>13 DEF Onward, Owned

LEMMA ShiftKeeps == Owned /\ Shift => Onward
<1>1. SUFFICES ASSUME StackSound, PlaceSound, NodesHeld, Shift PROVE Onward
  BY DEF Owned
<1>. DEFINE q == yystack[Len(yystack)].state
            none == ""
<1>2. Parsing /\ Act < 25 /\ UNCHANGED <<major, minor, stRoot>> /\ Return
  BY <1>1 DEF Shift, Parsing, YYNSTATE, tf
<1>3. ActsWell(Last(yystack).state, major) /\ Last(yystack) = yystack[Len(yystack)]
  BY <1>1, <1>2, AtWork
<1>. DEFINE a == yy_find_shift_action(Last(yystack).state, major)
<1>4. \/ a \in 1..24 /\ major \in 1..14 /\ Enters(Last(yystack).state, a, major)
      \/ a \in 25..44
      \/ a = 45
  BY <1>3 DEF ActsWell, YY_ERROR_ACTION, YYNSTATE, YYNRULE
<1>5. a = Act
  BY DEF Act
<1>. HIDE DEF a
<1>6. major # 0 /\ Enters(q, Act, major)
  BY <1>2, <1>3, <1>4, <1>5
<1>7. CASE Full
  <2>1. ShiftFull
    BY <1>1, <1>2, <1>7 DEF Shift, ShiftFull
  <2>. QED
    BY <1>1, <1>2, <1>6, <2>1, ShiftFullKeeps
<1>8. CASE ~Full
  <2>1. ShiftOn(Act, none) /\ Len(yystack) # YYSTACKDEPTH
    BY <1>1, <1>2, <1>8 DEF Shift, ShiftOn, Full
  <2>2. none \in Ops
    BY DEF Ops
  <2>. HIDE DEF none
  <2>. QED
    BY <1>1, <1>2, <1>6, <2>1, <2>2, ShiftOnKeeps
<1>. QED
  BY <1>7, <1>8

(* Tfilter sets up an empty stack.                                          *)
LEMMA TfilterKeeps ==
    ASSUME StackSound, PlaceSound, pc = "lex", NEW m \in 0..14, NEW node \in Nat, node = 0 <=> m = 0,
           node \notin OnStack, Tfilter(m, node), stRoot' = stRoot
    PROVE  StackSound' /\ PlaceSound' /\ Roots' = OnStack \cup ({node} \ {0})
<1>1. major' = m /\ minor' = node /\ Parsing' /\ pc' = "parse"
  BY DEF Tfilter, Parsing
<1>2. \/ yystack' = <<Bottom>> /\ yystack = << >>
      \/ yystack' = yystack /\ yystack # << >>
  BY DEF Tfilter
<1>3. Viable(yystack') /\ Apart(yystack') /\ Len(yystack') <= YYSTACKDEPTH /\ yystack' # << >> /\ OnStack' = OnStack
  <2>1. CASE yystack' = <<Bottom>> /\ yystack = << >>
    BY <2>1, DepthPositive, EmptyStack DEF OnStack
  <2>2. CASE yystack' = yystack /\ yystack # << >>
    BY <2>2 DEF StackSound, OnStack
  <2>. QED
    BY <1>2, <2>1, <2>2
<1>4. StackSound'
  BY <1>1, <1>3 DEF StackSound
<1>5. PlaceSound'
  BY <1>1 DEF PlaceSound, Places
<1>6. AtHand' = {node} \ {0} /\ InFilter' = {}
  BY <1>1 DEF AtHand, InFilter
<1>. QED
  BY <1>3, <1>4, <1>5, <1>6 DEF Roots

LEMMA AtLex == ASSUME pc = "lex" PROVE Roots = OnStack
BY DEF Roots, AtHand, InFilter, Parsing

LEMMA EndOfTextKeeps ==
    ASSUME StackSound, PlaceSound, NodesHeld, pc = "lex", EndOfText, stRoot' = stRoot, overflowed' = overflowed
    PROVE  Onward
<1>. DEFINE F == Fresh(heap)
            h == stnode_new(heap)
<1>1. heap' = stnode_free(h, F) /\ Tfilter(0, 0)
  BY DEF EndOfText
<1>. HIDE DEF F, h
<1>2. Held(heap, Roots)
  BY DEF NodesHeld
<1>3. Hands(heap, Roots, h, Roots \cup {F}) /\ F \notin Roots
  BY <1>2, NewNode DEF F, h
<1>. DEFINE Q == Roots \cup {F}
<1>4. F \in Q \cup {0} /\ Held(h, Q) /\ Q \ {F} = Roots
  BY <1>3 DEF Hands
<1>5. Hands(heap, Roots, h, Q)
  BY <1>3
<1>. HIDE DEF Q
<1>6. Hands(h, Q, heap', Roots)
  BY <1>1, <1>4, FreeRoot
<1>7. Hands(heap, Roots, heap', Roots)
  BY <1>2, <1>5, <1>6, HandsOver
<1>8. 0 \notin OnStack
  BY DEF OnStack, StackNodes
<1>9. StackSound' /\ PlaceSound' /\ Roots' = OnStack \cup ({0} \ {0})
  BY <1>1, <1>8, TfilterKeeps
<1>10. Roots' = Roots
  BY <1>9, AtLex
<1>11. NodesHeld' /\ Grows
  BY <1>7, <1>10, Passed
<1>. QED
  BY <1>9, <1>11 DEF Onward, Owned

(* The node that a token gets.                                              *)
NodeMade(t) ==
    heap' = IF t.major \in {TOKEN_UNPARSED, TOKEN_STRING, TOKEN_INTEGER}
            THEN stnode_init(stnode_new(heap), Fresh(heap), NodeType(t), t.text, t.value)
            ELSE stnode_new(heap)

LEMMA TokenNode ==
    ASSUME NEW R, Held(heap, R), NEW t \in Token, NodeMade(t)
    PROVE  /\ Hands(heap, R, heap', R \cup {Fresh(heap)})
           /\ Fresh(heap) \notin R /\ Fresh(heap) # 0 /\ Fresh(heap) \in Nat
<1>1. /\ Hands(heap, R, stnode_new(heap), R \cup {Fresh(heap)})
      /\ Fresh(heap) \notin R /\ Fresh(heap) # 0 /\ Fresh(heap) \in Nat
  BY NewNode
<1>2. CASE t.major \in {TOKEN_UNPARSED, TOKEN_STRING, TOKEN_INTEGER}
  <2>1. heap' = stnode_init(stnode_new(heap), Fresh(heap), NodeType(t), t.text, t.value)
    BY <1>2 DEF NodeMade
  <2>2. NodeType(t) \in {"FIELD", "STRING", "INTEGER"}
    BY <1>2 DEF NodeType, TOKEN_UNPARSED, TOKEN_STRING, TOKEN_INTEGER
  <2>3. NodeType(t) \in Types \ {"TEST"}
    BY <2>2 DEF Types
  <2>4. t.text \in Texts /\ t.value \in Values
    BY DEF Texts, Values
  <2>. QED
    BY <1>1, <2>1, <2>3, <2>4, InitNode
<1>3. CASE t.major \notin {TOKEN_UNPARSED, TOKEN_STRING, TOKEN_INTEGER}
  <2>1. heap' = stnode_new(heap)
    BY <1>3 DEF NodeMade
  <2>. QED
    BY <1>1, <2>1
<1>. QED
  BY <1>2, <1>3

LEMMA ScannedKeeps ==
    ASSUME StackSound, PlaceSound, NodesHeld, pc = "lex", NEW t \in Token, Scanned(t), stRoot' = stRoot,
           overflowed' = overflowed
    PROVE  Onward
<1>. DEFINE F == Fresh(heap)
<1>1. NodeMade(t) /\ Tfilter(t.major, F) /\ ~Fails(t)
  BY DEF Scanned, NodeMade
<1>2. t.major \in 0..14 /\ t.major # 0
  <2>1. t.major \in {-1} \cup 1..14 /\ t.major # -1
    BY <1>1, GrammarAssumption DEF Fails
  <2>. QED
    BY <2>1
<1>3. Held(heap, Roots)
  BY DEF NodesHeld
<1>4. Hands(heap, Roots, heap', Roots \cup {F}) /\ F \notin Roots /\ F # 0 /\ F \in Nat
  BY <1>1, <1>3, TokenNode
<1>. HIDE DEF F
<1>5. Roots = OnStack
  BY AtLex
<1>6. StackSound' /\ PlaceSound' /\ Roots' = OnStack \cup ({F} \ {0})
  BY <1>1, <1>2, <1>4, <1>5, TfilterKeeps
<1>7. Roots' = Roots \cup {F}
  BY <1>4, <1>5, <1>6
<1>8. NodesHeld' /\ Grows
  BY <1>4, <1>7, Passed
<1>. QED
  BY <1>6, <1>8 DEF Onward, Owned

LEMMA LexKeeps == Owned /\ Lex => Onward
<1>1. SUFFICES ASSUME StackSound, PlaceSound, NodesHeld, Lex PROVE Onward
  BY DEF Owned
<1>2. pc = "lex" /\ stRoot' = stRoot /\ overflowed' = overflowed
  BY <1>1 DEF Lex
<1>3. EndOfText \/ \E t \in Token : Scanned(t)
  BY <1>1 DEF Lex, ScanFailed
<1>. QED
  BY <1>1, <1>2, <1>3, EndOfTextKeeps, ScannedKeeps

LEMMA SyntaxErrorKeeps == Owned /\ SyntaxError => Onward
<1>1. SUFFICES ASSUME StackSound, PlaceSound, NodesHeld, SyntaxError PROVE Onward
  BY DEF Owned
<1>2. Parsing /\ UNCHANGED <<major, minor, stRoot, overflowed>>
  BY <1>1 DEF SyntaxError, Parsing
<1>3. Held(heap, Roots) /\ Roots = OnStack \cup ({minor} \ {0}) /\ minor \notin OnStack /\ stRoot = 0
  BY <1>1, <1>2, AtWork DEF NodesHeld, StackSound, PlaceSound, Parsing
<1>4. CASE major = 0
  <2>1. yystack' = << >> /\ heap' = PopAll(heap, yystack) /\ pc' = "finish"
    BY <1>1, <1>4 DEF SyntaxError, ThrownAway, Return
  <2>2. Emptied /\ ~Parsing' /\ stRoot' = 0 /\ InFilter' = {}
    BY <1>2, <1>3, <2>1 DEF Emptied, Parsing, InFilter
  <2>3. StackSound' /\ Roots' = {}
    BY <1>1, <2>2, Empties
  <2>4. PlaceSound'
    BY <2>1, <2>2 DEF PlaceSound, Places, Parsing
  <2>5. minor = 0
    BY <1>1, <1>2, <1>4 DEF StackSound
  <2>6. Roots \ OnStack = {}
    BY <1>3, <2>5
  <2>7. Hands(heap, Roots, heap', {})
    BY <1>1, <2>1, <2>6, PopStack
  <2>8. NodesHeld' /\ Grows
    BY <1>1, <1>2, <2>3, <2>7, Passed
  <2>. QED
    BY <2>3, <2>4, <2>8 DEF Onward, Owned
<1>5. CASE major # 0
  <2>1. yystack' = yystack /\ heap' = stnode_free(heap, minor) /\ pc' = "lex"
    BY <1>1, <1>5 DEF SyntaxError, ThrownAway, Return
  <2>2. ~Parsing' /\ InFilter' = {} /\ OnStack' = OnStack
    BY <2>1 DEF Parsing, InFilter, OnStack
  <2>3. StackSound' /\ Roots' = OnStack' \cup InFilter'
    <3>1. /\ major' \in 0..14 /\ minor' \in Nat /\ Viable(yystack') /\ Apart(yystack')
          /\ Len(yystack') <= YYSTACKDEPTH
      BY <1>1, <1>2, <2>1 DEF StackSound
    <3>. QED
      BY <2>2, <3>1, Idle
  <2>4. PlaceSound'
    BY <1>2, <1>3, <2>1 DEF PlaceSound, Places
  <2>5. minor \in Roots \cup {0} /\ Roots \ {minor} = OnStack
    <3>1. 0 \notin OnStack
      BY DEF OnStack, StackNodes
    <3>. QED
      BY <1>3, <3>1
  <2>6. Hands(heap, Roots, heap', OnStack)
    BY <1>3, <2>1, <2>5, FreeRoot
  <2>7. Roots' = OnStack
    BY <2>2, <2>3
  <2>8. NodesHeld' /\ Grows
    BY <1>1, <1>2, <2>6, <2>7, Passed
  <2>. QED
    BY <2>3, <2>4, <2>8 DEF Onward, Owned
<1>. QED
  BY <1>4, <1>5

(* Where the stack is empty, the parser has no node.                        *)
LEMMA AtRest ==
    ASSUME StackSound, PlaceSound, pc \notin {"lex", "parse"}
    PROVE  yystack = << >> /\ OnStack = {} /\ Roots = InFilter
<1>1. yystack = << >>
  BY DEF PlaceSound
<1>2. OnStack = {}
  BY <1>1, EmptyStack DEF OnStack
<1>. QED
  BY <1>1, <1>2 DEF Roots, AtHand, Parsing

LEMMA StaysAtRest ==
    ASSUME StackSound, PlaceSound, pc \notin {"lex", "parse"}, yystack' = << >>, UNCHANGED <<major, minor>>,
           pc' \in Places \ {"parse"}, pc' \in {"compile", "lex"} => stRoot' = 0
    PROVE  StackSound' /\ PlaceSound' /\ Roots' = InFilter'
<1>1. Emptied /\ ~Parsing'
  BY DEF Emptied, Parsing
<1>2. PlaceSound'
  BY DEF PlaceSound, Places
<1>. QED
  BY <1>1, <1>2, Empties

(* compile1 and cleanFilter free the filter.                                *)
FilterFreed ==
    /\ heap' = IF stRoot = 0 THEN heap ELSE stnode_free(heap, stRoot)
    /\ pc' \in {"rejected", "cleaned"}
    /\ UNCHANGED <<major, minor, yystack, overflowed>>

LEMMA FilterFreedKeeps ==
    ASSUME StackSound, PlaceSound, NodesHeld, pc \in {"finish", "compiled"}, FilterFreed
    PROVE  Onward
<1>1. yystack = << >> /\ Roots = InFilter /\ InFilter = {stRoot} \ {0}
  BY AtRest DEF InFilter
<1>2. Held(heap, Roots)
  BY DEF NodesHeld
<1>3. Hands(heap, Roots, heap', {})
  <2>1. CASE stRoot = 0
    <3>1. heap' = heap /\ Roots = {}
      BY <1>1, <2>1 DEF FilterFreed
    <3>. QED
      BY <3>1, Same
  <2>2. CASE stRoot # 0
    <3>1. heap' = stnode_free(heap, stRoot) /\ Roots \ {stRoot} = {} /\ stRoot \in Roots \cup {0}
      BY <1>1, <2>2 DEF FilterFreed
    <3>. QED
      BY <1>2, <3>1, FreeRoot
  <2>. QED
    BY <2>1, <2>2
<1>4. StackSound' /\ PlaceSound' /\ Roots' = InFilter'
  <2>1. pc' \in Places \ {"parse"} /\ pc' \notin {"compile", "lex"}
    BY DEF FilterFreed, Places
  <2>. QED
    BY <1>1, <2>1, StaysAtRest DEF FilterFreed
<1>5. InFilter' = {}
  BY DEF FilterFreed, InFilter
<1>6. NodesHeld' /\ Grows
  BY <1>3, <1>4, <1>5, Passed DEF FilterFreed
<1>. QED
  BY <1>4, <1>6 DEF Onward, Owned

(* compile1 is left with a filter.                                          *)
LEMMA AcceptedKeeps == Owned /\ Accepted => Onward
<1>1. SUFFICES ASSUME StackSound, PlaceSound, NodesHeld, Accepted PROVE Onward
  BY DEF Owned
<1>2. pc = "finish" /\ pc' = "compiled" /\ heap' = PopAll(heap, yystack) /\ yystack' = << >>
      /\ UNCHANGED <<major, minor, stRoot, overflowed>>
  BY <1>1 DEF Accepted, tf
<1>3. Roots = InFilter /\ OnStack = {}
  BY <1>1, <1>2, AtRest
<1>4. Hands(heap, Roots, heap', Roots)
  <2>1. Roots \ OnStack = Roots
    BY <1>3
  <2>. QED
    BY <1>1, <1>2, <2>1, PopStack
<1>5. StackSound' /\ PlaceSound' /\ Roots' = InFilter'
  <2>1. pc' \in Places \ {"parse"} /\ pc' \notin {"compile", "lex"}
    BY <1>2 DEF Places
  <2>. QED
    BY <1>1, <1>2, <2>1, StaysAtRest
<1>6. InFilter' = InFilter
  BY <1>2 DEF InFilter
<1>7. NodesHeld' /\ Grows
  BY <1>1, <1>2, <1>3, <1>4, <1>5, <1>6, Passed
<1>. QED
  BY <1>5, <1>7 DEF Onward, Owned

LEMMA CompileKeeps == Owned /\ (Compile \/ CompileAll) => Onward
<1>1. SUFFICES ASSUME StackSound, PlaceSound, NodesHeld, Compile \/ CompileAll PROVE Onward
  BY DEF Owned
<1>2. pc = "compile" /\ pc' \in {"lex", "compiled"} /\ UNCHANGED <<major, minor, stRoot, overflowed, yystack, heap>>
  BY <1>1 DEF Compile, CompileAll, tf
<1>3. Roots = InFilter /\ yystack = << >> /\ InFilter = {} /\ stRoot = 0
  BY <1>1, <1>2, AtRest DEF InFilter, PlaceSound
<1>4. StackSound' /\ PlaceSound' /\ Roots' = InFilter'
  <2>1. pc' \in Places \ {"parse"}
    BY <1>2 DEF Places
  <2>. QED
    BY <1>1, <1>2, <1>3, <2>1, StaysAtRest
<1>5. InFilter' = {}
  BY <1>2, <1>3 DEF InFilter
<1>6. NodesHeld' /\ Grows
  BY <1>1, <1>2, <1>3, <1>4, <1>5, Same, Passed
<1>. QED
  BY <1>4, <1>6 DEF Onward, Owned

LEMMA OwnedInit == Init => Owned
<1>1. SUFFICES ASSUME Init PROVE Owned
  OBVIOUS
<1>2. /\ pc = "compile" /\ major = 0 /\ minor = 0 /\ yystack = << >> /\ heap = NoMemory /\ stRoot = 0
      /\ overflowed = FALSE
  BY <1>1 DEF Init, GrammarInit
<1>3. ~Parsing /\ InFilter = {} /\ OnStack = {} /\ AtHand = {} /\ Roots = {}
  BY <1>2, EmptyStack DEF Parsing, InFilter, OnStack, AtHand, Roots
<1>4. StackSound
  <2>1. Len(yystack) <= YYSTACKDEPTH
    BY <1>2, DepthPositive, EmptyStack
  <2>2. Viable(yystack) /\ Apart(yystack)
    BY <1>2, EmptyStack
  <2>. QED
    BY <1>2, <1>3, <2>1, <2>2 DEF StackSound
<1>5. PlaceSound
  BY <1>2 DEF PlaceSound, Places
<1>6. heap.node = << >> /\ heap.live = {} /\ heap.ok = TRUE /\ << >> \in Seq(stnode_t)
  BY <1>2 DEF NoMemory
<1>7. Memory(heap)
  <2>1. heap \in [node : Seq(stnode_t), live : SUBSET Nat, ok : BOOLEAN]
    BY <1>2, <1>6 DEF NoMemory
  <2>2. Size(heap) = 0
    BY <1>6 DEF Size
  <2>. QED
    BY <1>6, <2>1, <2>2 DEF Memory
<1>8. Held(heap, Roots)
  BY <1>3, <1>6, <1>7 DEF Held
<1>9. NoneLost(heap, Roots)
  BY <1>6 DEF NoneLost
<1>. QED
  BY <1>2, <1>4, <1>5, <1>8, <1>9 DEF Owned, NodesHeld

LEMMA OwnedInvariance == Owned /\ [Next]_vars => Onward
<1>1. SUFFICES ASSUME Owned, [Next]_vars PROVE Onward
  OBVIOUS
<1>2. CASE CompileAll \/ Compile
  BY <1>1, <1>2, CompileKeeps
<1>3. CASE Lex
  BY <1>1, <1>3, LexKeeps
<1>4. CASE Shift
  BY <1>1, <1>4, ShiftKeeps
<1>5. CASE Reduce
  <2>1. CASE ReduceSentence
    <3>1. PICK rule \in {0, 1} : SentenceBy(rule)
      BY <2>1 DEF ReduceSentence, SentenceBy
    <3>. QED
      BY <1>1, <3>1, SentenceKeeps DEF Owned
  <2>. QED
    BY <1>1, <1>5, <2>1, ReduceKeeps
<1>6. CASE SyntaxError
  BY <1>1, <1>6, SyntaxErrorKeeps
<1>7. CASE Accepted
  BY <1>1, <1>7, AcceptedKeeps
<1>8. CASE Rejected \/ cleanFilter
  <2>1. pc \in {"finish", "compiled"} /\ FilterFreed
    BY <1>8 DEF Rejected, cleanFilter, FilterFreed, tf
  <2>. QED
    BY <1>1, <2>1, FilterFreedKeeps DEF Owned
<1>9. CASE (\E l \in Line : Dispatch(l)) \/ UNCHANGED vars
  <2>1. UNCHANGED <<pc, major, minor, yystack, heap, stRoot, overflowed>>
    BY <1>9 DEF Dispatch, vars, grammarVars, tf
  <2>2. OnStack' = OnStack /\ AtHand' = AtHand /\ InFilter' = InFilter /\ Parsing' = Parsing
    BY <2>1 DEF OnStack, AtHand, InFilter, Parsing
  <2>3. StackSound' /\ PlaceSound' /\ Roots' = Roots
    BY <1>1, <2>1, <2>2 DEF Owned, StackSound, PlaceSound, Roots, Parsing
  <2>4. NodesHeld'
    BY <1>1, <2>1, <2>3 DEF Owned, NodesHeld
  <2>5. Size(heap) \in Nat
    BY <1>1 DEF Owned, NodesHeld, Held, Memory, Size
  <2>. QED
    BY <2>1, <2>3, <2>4, <2>5 DEF Onward, Owned, Grows
<1>. QED
  BY <1>1, <1>2, <1>3, <1>4, <1>5, <1>6, <1>7, <1>8, <1>9 DEF Next, GrammarNext
----------------------------------------------------------------------------
(***************************************************************************)
(* From the invariant to the count of a node's owners.                     *)
(***************************************************************************)
LEMMA Empty == ASSUME NEW S, \A x \in S : FALSE PROVE Cardinality(S) = 0
<1>1. S = {}
  OBVIOUS
<1>. QED
  BY <1>1, FS_EmptySet

LEMMA Single == ASSUME NEW S, NEW x \in S, \A y \in S : y = x PROVE Cardinality(S) = 1
<1>1. S = {x}
  OBVIOUS
<1>. QED
  BY <1>1, FS_Singleton

(* How often the stack refers to a node.                                    *)
LEMMA OnStackOnce ==
    ASSUME StackSound, NEW n, n # 0
    PROVE  Cardinality({i \in 1..Len(yystack) : yystack[i].node = n}) = IF n \in OnStack THEN 1 ELSE 0
<1>. DEFINE I == {i \in 1..Len(yystack) : yystack[i].node = n}
<1>1. n \in OnStack <=> \E i \in 1..Len(yystack) : yystack[i].node = n
  BY DEF OnStack, StackNodes
<1>2. \A i, j \in I : i = j
  BY DEF StackSound, Apart
<1>3. CASE n \in OnStack
  <2>1. PICK i \in I : TRUE
    BY <1>1, <1>3
  <2>2. \A j \in I : j = i
    BY <1>2, <2>1
  <2>. HIDE DEF I
  <2>3. Cardinality(I) = 1
    BY <2>1, <2>2, Single
  <2>. QED
    BY <1>3, <2>3 DEF I
<1>4. CASE n \notin OnStack
  <2>1. \A i \in I : FALSE
    BY <1>1, <1>4
  <2>. HIDE DEF I
  <2>2. Cardinality(I) = 0
    BY <2>1, Empty
  <2>. QED
    BY <1>4, <2>2 DEF I
<1>. QED
  BY <1>3, <1>4

(* How often the live tests refer to it.                                    *)
Parents1(n) == {m \in heap.live : heap.node[m].val1 = n}
Parents2(n) == {m \in heap.live : heap.node[m].val2 = n}

LEMMA ParentsOnce ==
    ASSUME NEW R, Held(heap, R), NEW n, n # 0
    PROVE  /\ (\A m \in heap.live : n \notin Kids(heap, m))
                => Cardinality(Parents1(n)) = 0 /\ Cardinality(Parents2(n)) = 0
           /\ (\E m \in heap.live : n \in Kids(heap, m))
                => \/ Cardinality(Parents1(n)) = 1 /\ Cardinality(Parents2(n)) = 0
                   \/ Cardinality(Parents1(n)) = 0 /\ Cardinality(Parents2(n)) = 1
<1>1. \A m \in heap.live : n \in Kids(heap, m) <=> m \in Parents1(n) \/ m \in Parents2(n)
  BY DEF Kids, Val1, Val2, Parents1, Parents2
<1>2. Parents1(n) \subseteq heap.live /\ Parents2(n) \subseteq heap.live
  BY DEF Parents1, Parents2
<1>3. \A m \in heap.live : ~(m \in Parents1(n) /\ m \in Parents2(n))
  BY DEF Held, Parents1, Parents2, Val1, Val2
<1>4. ASSUME \A m \in heap.live : n \notin Kids(heap, m)
      PROVE  Cardinality(Parents1(n)) = 0 /\ Cardinality(Parents2(n)) = 0
  <2>1. (\A m \in Parents1(n) : FALSE) /\ (\A m \in Parents2(n) : FALSE)
    BY <1>1, <1>2, <1>4
  <2>. QED
    BY <2>1, Empty
<1>5. ASSUME NEW m \in heap.live, n \in Kids(heap, m)
      PROVE  \/ Cardinality(Parents1(n)) = 1 /\ Cardinality(Parents2(n)) = 0
             \/ Cardinality(Parents1(n)) = 0 /\ Cardinality(Parents2(n)) = 1
  <2>1. \A k \in heap.live : n \in Kids(heap, k) => k = m
    <3>1. SUFFICES ASSUME NEW k \in heap.live, n \in Kids(heap, k), k # m PROVE FALSE
      OBVIOUS
    <3>2. Kids(heap, k) \cap Kids(heap, m) = {}
      BY <3>1 DEF Held
    <3>. QED
      BY <1>5, <3>1, <3>2
  <2>2. (\A k \in Parents1(n) : k = m) /\ (\A k \in Parents2(n) : k = m)
    BY <1>1, <1>2, <2>1
  <2>3. CASE m \in Parents1(n)
    <3>1. \A k \in Parents2(n) : FALSE
      BY <1>3, <2>2, <2>3
    <3>2. Cardinality(Parents1(n)) = 1
      BY <2>2, <2>3, Single
    <3>3. Cardinality(Parents2(n)) = 0
      BY <3>1, Empty
    <3>. QED
      BY <3>2, <3>3
  <2>4. CASE m \in Parents2(n)
    <3>1. \A k \in Parents1(n) : FALSE
      BY <1>3, <2>2, <2>4
    <3>2. Cardinality(Parents2(n)) = 1
      BY <2>2, <2>4, Single
    <3>3. Cardinality(Parents1(n)) = 0
      BY <3>1, Empty
    <3>. QED
      BY <3>2, <3>3
  <2>. QED
    BY <1>1, <1>5, <2>3, <2>4
<1>. QED
  BY <1>4, <1>5

(* A heap without roots from which nothing is lost is empty: a live node of *)
(* the highest rank would have no parent.                                   *)
LEMMA NoRoots ==
    ASSUME NEW h, Held(h, {}), NoneLost(h, {})
    PROVE  h.live = {}
<1>1. SUFFICES ASSUME h.live # {} PROVE FALSE
  OBVIOUS
<1>2. Memory(h) /\ h.live \subseteq 1..Size(h)
  BY DEF Held, Memory
<1>. DEFINE U == {Size(h) - Rank(h, n) : n \in h.live}
<1>3. U \in SUBSET Nat /\ U # {}
  <2>1. \A n \in h.live : Size(h) \in Nat /\ Rank(h, n) \in Nat /\ Rank(h, n) <= Size(h)
    BY <1>2, KidsBelow
  <2>2. \A n \in h.live : Size(h) - Rank(h, n) \in Nat
    BY <2>1
  <2>. QED
    BY <1>1, <2>2
<1>4. PICK u \in U : \A k \in U : u <= k
  BY <1>3, Smallest
<1>5. PICK n \in h.live : u = Size(h) - Rank(h, n)
  BY <1>4
<1>6. PICK m \in h.live : n \in Kids(h, m)
  BY <1>5 DEF NoneLost
<1>7. /\ Size(h) \in Nat /\ Rank(h, n) \in Nat /\ Rank(h, m) \in Nat /\ Rank(h, n) < Rank(h, m)
  BY <1>2, <1>5, <1>6, KidsBelow
<1>8. u <= Size(h) - Rank(h, m)
  BY <1>4, <1>6
<1>. QED
  BY <1>5, <1>7, <1>8

LEMMA OneOwner ==
    ASSUME Owned, ~overflowed, NEW n \in heap.live
    PROVE  Owners(n) = 1
<1>. DEFINE A == Cardinality({i \in 1..Len(yystack) : yystack[i].node = n})
            B == IF pc = "parse" /\ minor = n THEN 1 ELSE 0
            C == IF pc \in {"finish", "compiled"} /\ stRoot = n THEN 1 ELSE 0
            D == Cardinality(Parents1(n))
            E == Cardinality(Parents2(n))
<1>1. Owners(n) = A + B + C + D + E
  BY DEF Owners, Parents1, Parents2
<1>2. StackSound /\ PlaceSound /\ Held(heap, Roots) /\ NoneLost(heap, Roots)
  BY DEF Owned, NodesHeld
<1>3. n # 0 /\ n \in Nat
  BY <1>2 DEF Held, Memory
<1>4. A = IF n \in OnStack THEN 1 ELSE 0
  BY <1>2, <1>3, OnStackOnce
<1>5. B = IF n \in AtHand THEN 1 ELSE 0
  BY <1>3 DEF AtHand, Parsing
<1>6. C = IF n \in InFilter THEN 1 ELSE 0
  BY <1>3 DEF InFilter
<1>7. ~(n \in OnStack /\ n \in AtHand) /\ ~(n \in AtHand /\ n \in InFilter) /\ ~(n \in OnStack /\ n \in InFilter)
  <2>1. ~(n \in OnStack /\ n \in AtHand)
    BY <1>2 DEF StackSound, AtHand
  <2>2. ~(n \in AtHand /\ n \in InFilter)
    BY DEF AtHand, InFilter, Parsing
  <2>3. ~(n \in OnStack /\ n \in InFilter)
    <3>1. n \in InFilter => pc \notin {"lex", "parse"}
      BY DEF InFilter
    <3>. QED
      BY <1>2, <3>1, AtRest
  <2>. QED
    BY <2>1, <2>2, <2>3
<1>8. n \in Roots <=> n \in OnStack \/ n \in AtHand \/ n \in InFilter
  BY DEF Roots
<1>9. n \in Roots => \A m \in heap.live : n \notin Kids(heap, m)
  BY <1>2 DEF Held
<1>10. n \notin Roots => \E m \in heap.live : n \in Kids(heap, m)
  BY <1>2 DEF NoneLost
<1>11. /\ (\A m \in heap.live : n \notin Kids(heap, m)) => D = 0 /\ E = 0
       /\ (\E m \in heap.live : n \in Kids(heap, m)) => (D = 1 /\ E = 0) \/ (D = 0 /\ E = 1)
  BY <1>2, <1>3, ParentsOnce
<1>. HIDE DEF A, B, C, D, E
<1>12. CASE n \in Roots
  <2>1. D = 0 /\ E = 0
    BY <1>9, <1>11, <1>12
  <2>. QED
    BY <1>1, <1>4, <1>5, <1>6, <1>7, <1>8, <1>12, <2>1
<1>13. CASE n \notin Roots
  <2>1. (D = 1 /\ E = 0) \/ (D = 0 /\ E = 1)
    BY <1>10, <1>11, <1>13
  <2>. QED
    BY <1>1, <1>4, <1>5, <1>6, <1>8, <1>13, <2>1
<1>. QED
  BY <1>12, <1>13

LEMMA OwnedNodesOwned == Owned => NodesOwned
<1>1. SUFFICES ASSUME Owned PROVE NodesOwned
  OBVIOUS
<1>2. heap.ok
  BY <1>1 DEF Owned, NodesHeld, Held
<1>3. ~overflowed => \A n \in heap.live : Owners(n) = 1
  BY <1>1, OneOwner
<1>4. ASSUME ~overflowed, pc \in {"rejected", "cleaned"} PROVE heap.live = {}
  <2>1. StackSound /\ PlaceSound /\ Held(heap, Roots) /\ NoneLost(heap, Roots)
    BY <1>1, <1>4 DEF Owned, NodesHeld
  <2>2. Roots = {}
    BY <1>4, <2>1, AtRest DEF InFilter
  <2>. QED
    BY <2>1, <2>2, NoRoots
<1>. QED
  BY <1>2, <1>3, <1>4 DEF NodesOwned

(* compile1, the parser's actions and cleanFilter: of whatever string, no   *)
(* node is used after it was freed or freed twice; as long as the stack did *)
(* not overflow, each node that lives is referred to exactly once, by the   *)
(* stack, the token at hand, the filter or one pointer of one test, and     *)
(* when the filter is refused or dropped none is left.                      *)
THEOREM EveryNodeOwned == Spec => []NodesOwned
<1>1. Init => Owned
  BY OwnedInit
<1>2. Owned => NodesOwned
  BY OwnedNodesOwned
<1>3. Owned /\ [Next]_vars => Owned'
  BY OwnedInvariance DEF Onward
<1>. QED
  BY <1>1, <1>2, <1>3, PTL DEF Spec

----------------------------------------------------------------------------
(***************************************************************************)
(* Types.  doFilter's walk over the tree: a recursive function, and what   *)
(* it returns.                                                             *)
(***************************************************************************)
Verdicts == {"yes", "no", "crash"}

Votes(h, table, f) == f = [n \in 1..Size(h) |-> testTree(h, table, f, n)]

VotesUpTo(h, table, f, r) ==
    /\ f = [n \in 1..Size(h) |-> f[n]]
    /\ \A n \in 1..Size(h) : Rank(h, n) < r => f[n] = testTree(h, table, f, n)

(* AND and OR have two operands.                                            *)
LEMMA BothThere ==
    ASSUME NEW h, Memory(h), NEW n \in 1..Size(h), h.node[n].type = "TEST", h.node[n].op \in {"AND", "OR"}
    PROVE  h.node[n].val1 \in Kids(h, n) /\ h.node[n].val2 \in Kids(h, n)
<1>1. Arity(h.node[n])
  BY DEF Memory
<1>2. Val2(h, n) # 0
  BY <1>1 DEF Arity, Val2
<1>3. IsTest(h, n)
  BY DEF IsTest
<1>4. Val1(h, n) \in Kids(h, n)
  BY <1>3, KidsBelow
<1>. QED
  BY <1>2, <1>4 DEF Kids, Val1, Val2

LEMMA VoteAgrees ==
    ASSUME NEW h, Memory(h), NEW table, NEW n \in 1..Size(h), NEW f, NEW g, \A k \in Kids(h, n) : f[k] = g[k]
    PROVE  testTree(h, table, f, n) = testTree(h, table, g, n)
<1>1. CASE h.node[n].type = "TEST" /\ h.node[n].op \in {"AND", "OR"}
  <2>1. f[h.node[n].val1] = g[h.node[n].val1] /\ f[h.node[n].val2] = g[h.node[n].val2]
    BY <1>1, BothThere
  <2>. QED
    BY <2>1 DEF testTree
<1>2. CASE ~(h.node[n].type = "TEST" /\ h.node[n].op \in {"AND", "OR"})
  BY <1>2 DEF testTree
<1>. QED
  BY <1>1, <1>2

LEMMA CompareIs ==
    ASSUME NEW key, NEW value, NEW op, NEW table
    PROVE  cmpPattern(key, value, op, table) \in Verdicts
BY DEF cmpPattern, Verdicts

LEMMA VoteIs ==
    ASSUME NEW h, Memory(h), NEW table, NEW n \in 1..Size(h), NEW f, \A k \in Kids(h, n) : f[k] \in Verdicts
    PROVE  testTree(h, table, f, n) \in Verdicts
<1>1. CASE h.node[n].type = "TEST" /\ h.node[n].op \in {"AND", "OR"}
  <2>1. f[h.node[n].val1] \in Verdicts /\ f[h.node[n].val2] \in Verdicts
    BY <1>1, BothThere
  <2>. QED
    BY <1>1, <2>1 DEF testTree
<1>2. CASE ~(h.node[n].type = "TEST" /\ h.node[n].op \in {"AND", "OR"})
  <2>1. cmpPattern(h.node[h.node[n].val1], h.node[h.node[n].val2], h.node[n].op, table) \in Verdicts
    BY CompareIs
  <2>2. "yes" \in Verdicts /\ "no" \in Verdicts
    BY DEF Verdicts
  <2>3. CASE h.node[n].type # "TEST"
    <3>1. h.node[n].op = ""
      BY <2>3 DEF Memory, Arity
    <3>2. testTree(h, table, f, n) = "yes"
      BY <2>3, <3>1 DEF testTree
    <3>. QED
      BY <2>2, <3>2
  <2>4. CASE h.node[n].type = "TEST" /\ h.node[n].op = "EXISTS"
    BY <2>2, <2>4 DEF testTree
  <2>5. CASE h.node[n].type = "TEST" /\ h.node[n].op # "EXISTS"
    <3>1. testTree(h, table, f, n) = cmpPattern(h.node[h.node[n].val1], h.node[h.node[n].val2], h.node[n].op, table)
      BY <1>2, <2>5 DEF testTree
    <3>. QED
      BY <2>1, <3>1
  <2>. QED
    BY <2>3, <2>4, <2>5
<1>. QED
  BY <1>1, <1>2

LEMMA VotesExist ==
    ASSUME NEW h, Memory(h), NEW table
    PROVE  \E f : Votes(h, table, f)
<1>. DEFINE N == Size(h)
            T == {r \in Nat : \E f : VotesUpTo(h, table, f, r)}
<1>1. /\ N \in Nat
      /\ \A n \in 1..N : Rank(h, n) \in Nat /\ Rank(h, n) < N + 1
      /\ \A n \in 1..N : \A k \in Kids(h, n) : k \in 1..N /\ Rank(h, k) < Rank(h, n)
  <2>1. N \in Nat
    BY DEF Memory, Size
  <2>2. ASSUME NEW n \in 1..N
        PROVE  /\ Rank(h, n) \in Nat /\ Rank(h, n) <= N
               /\ \A k \in Kids(h, n) : k \in 1..N /\ Rank(h, k) < Rank(h, n)
    BY KidsBelow
  <2>. HIDE DEF N
  <2>. QED
    BY <2>1, <2>2
<1>2. \A n \in 1..N : \A f, g : (\A k \in Kids(h, n) : f[k] = g[k]) => testTree(h, table, f, n) = testTree(h, table, g, n)
  BY VoteAgrees
<1>. HIDE DEF N
<1>3. \A f, r : VotesUpTo(h, table, f, r) <=>
         /\ f = [n \in 1..N |-> f[n]]
         /\ \A n \in 1..N : Rank(h, n) < r => f[n] = testTree(h, table, f, n)
  BY DEF VotesUpTo, N
<1>4. 0 \in T
  <2>. DEFINE f == [n \in 1..N |-> n]
  <2>1. \A n \in 1..N : ~(Rank(h, n) < 0)
    BY <1>1
  <2>2. f = [n \in 1..N |-> f[n]]
    OBVIOUS
  <2>. HIDE DEF f
  <2>3. VotesUpTo(h, table, f, 0)
    BY <1>3, <2>1, <2>2
  <2>. QED
    BY <2>3
<1>5. ASSUME NEW r \in Nat, r \in T PROVE r + 1 \in T
  <2>1. PICK f : VotesUpTo(h, table, f, r)
    BY <1>5
  <2>. DEFINE g == [n \in 1..N |-> testTree(h, table, f, n)]
  <2>2. ASSUME NEW k \in 1..N, Rank(h, k) < r PROVE g[k] = f[k]
    BY <1>3, <2>1, <2>2
  <2>3. ASSUME NEW n \in 1..N, Rank(h, n) < r + 1
        PROVE  g[n] = testTree(h, table, g, n)
    <3>1. ASSUME NEW k \in Kids(h, n) PROVE g[k] = f[k]
      <4>1. k \in 1..N /\ Rank(h, k) < Rank(h, n) /\ Rank(h, k) \in Nat /\ Rank(h, n) \in Nat
        BY <1>1
      <4>2. Rank(h, k) < r
        BY <2>3, <4>1
      <4>. QED
        BY <2>2, <4>1, <4>2
    <3>2. g[n] = testTree(h, table, f, n)
      OBVIOUS
    <3>. HIDE DEF g
    <3>3. testTree(h, table, g, n) = testTree(h, table, f, n)
      BY <1>2, <3>1
    <3>. QED
      BY <3>2, <3>3
  <2>4. g = [n \in 1..N |-> g[n]]
    OBVIOUS
  <2>. HIDE DEF g
  <2>5. VotesUpTo(h, table, g, r + 1)
    BY <1>3, <2>3, <2>4
  <2>. QED
    BY <2>5
<1>. HIDE DEF T
<1>6. N + 1 \in T
  BY <1>1, <1>4, <1>5, Successors
<1>7. PICK f : VotesUpTo(h, table, f, N + 1)
  BY <1>6 DEF T
<1>8. f = [n \in 1..N |-> f[n]] /\ \A n \in 1..N : f[n] = testTree(h, table, f, n)
  BY <1>1, <1>3, <1>7
<1>9. f = [n \in 1..N |-> testTree(h, table, f, n)]
  BY <1>8
<1>. QED
  BY <1>9 DEF Votes, N

LEMMA Judgement ==
    ASSUME NEW h, Memory(h), NEW table, NEW root \in 1..Size(h)
    PROVE  testNode(h, root, table) \in Verdicts
<1>1. ASSUME NEW f, Votes(h, table, f) PROVE f[root] \in Verdicts
  <2>. DEFINE T == {n \in 1..Size(h) : f[n] \in Verdicts}
  <2>1. ASSUME NEW n \in 1..Size(h), Kids(h, n) \subseteq T PROVE n \in T
    <3>1. f[n] = testTree(h, table, f, n)
      BY <1>1 DEF Votes
    <3>2. \A k \in Kids(h, n) : f[k] \in Verdicts
      BY <2>1
    <3>3. testTree(h, table, f, n) \in Verdicts
      BY <3>2, VoteIs
    <3>. QED
      BY <3>1, <3>3
  <2>. HIDE DEF T
  <2>2. 1..Size(h) \subseteq T
    BY <2>1, ByRank
  <2>. QED
    BY <2>2 DEF T
<1>2. \E f : f = [n \in 1..Len(h.node) |-> testTree(h, table, f, n)]
  BY VotesExist DEF Votes, Size
<1>3. \A f : f = [n \in 1..Len(h.node) |-> testTree(h, table, f, n)] => f[root] \in Verdicts
  BY <1>1 DEF Votes, Size
<1>4. testNode(h, root, table) = (CHOOSE f : f = [n \in 1..Len(h.node) |-> testTree(h, table, f, n)])[root]
  BY DEF testNode
<1>. QED
  BY <1>2, <1>3, <1>4

(***************************************************************************)
(* Folds whose values stay in a set.  FoldLeft recurs over sets of         *)
(* indices, and takes the greatest first.                                  *)
(***************************************************************************)
Folds2(f, base, G, n) ==
    f = [I \in SUBSET (1..n) |-> IF I = {} THEN base ELSE G[f[I \ {Max(I)}]][Max(I)]]

LEMMA FoldExists ==
    ASSUME NEW base, NEW G, NEW n \in Nat
    PROVE  \E f : Folds2(f, base, G, n)
<1>. DEFINE T == {k \in Nat : \E f : Folds2(f, base, G, k)}
<1>1. 0 \in T
  <2>1. \A I \in SUBSET (1..0) : I = {}
    OBVIOUS
  <2>. DEFINE f == [I \in SUBSET (1..0) |-> base]
  <2>2. f = [I \in SUBSET (1..0) |-> IF I = {} THEN base ELSE G[f[I \ {Max(I)}]][Max(I)]]
    BY <2>1
  <2>. QED
    BY <2>2 DEF Folds2
<1>2. ASSUME NEW k \in Nat, k \in T PROVE k + 1 \in T
  <2>1. PICK f : Folds2(f, base, G, k)
    BY <1>2
  <2>. DEFINE g == [I \in SUBSET (1..(k + 1)) |->
                      IF k + 1 \in I THEN G[f[I \ {k + 1}]][k + 1] ELSE f[I]]
  <2>2. ASSUME NEW I \in SUBSET (1..(k + 1))
        PROVE  g[I] = IF I = {} THEN base ELSE G[g[I \ {Max(I)}]][Max(I)]
    <3>1. CASE k + 1 \in I
      <4>1. Max(I) = k + 1 /\ I # {}
        BY <3>1, MaxOfInterval
      <4>2. I \ {k + 1} \in SUBSET (1..k) /\ I \ {k + 1} \in SUBSET (1..(k + 1)) /\ k + 1 \notin I \ {k + 1}
        OBVIOUS
      <4>3. g[I \ {k + 1}] = f[I \ {k + 1}]
        BY <4>2
      <4>. QED
        BY <3>1, <4>1, <4>3
    <3>2. CASE k + 1 \notin I /\ I = {}
      <4>1. I \in SUBSET (1..k)
        BY <3>2
      <4>2. f[I] = base
        BY <2>1, <3>2, <4>1 DEF Folds2
      <4>. QED
        BY <3>2, <4>2
    <3>3. CASE k + 1 \notin I /\ I # {}
      <4>1. I \in SUBSET (1..k)
        BY <3>3
      <4>2. Max(I) \in I
        BY <3>3, <4>1, MaxIn
      <4>. DEFINE J == I \ {Max(I)}
      <4>3. J \in SUBSET (1..(k + 1)) /\ k + 1 \notin J
        BY <3>3
      <4>. HIDE DEF J
      <4>4. g[J] = f[J] /\ g[I] = f[I]
        BY <3>3, <4>3
      <4>5. f[I] = G[f[J]][Max(I)]
        BY <2>1, <3>3, <4>1 DEF Folds2, J
      <4>. QED
        BY <3>3, <4>4, <4>5 DEF J
    <3>. QED
      BY <3>1, <3>2, <3>3
  <2>3. g = [I \in SUBSET (1..(k + 1)) |-> g[I]]
    OBVIOUS
  <2>. HIDE DEF g
  <2>4. g = [I \in SUBSET (1..(k + 1)) |-> IF I = {} THEN base ELSE G[g[I \ {Max(I)}]][Max(I)]]
    BY <2>2, <2>3
  <2>5. Folds2(g, base, G, k + 1)
    BY <2>4 DEF Folds2
  <2>. QED
    BY <2>5
<1>. HIDE DEF T
<1>3. n \in T
  BY <1>1, <1>2, Successors
<1>. QED
  BY <1>3 DEF T

LEMMA ByGreatest ==
    ASSUME NEW n \in Nat, NEW f, NEW X, f[{}] \in X,
           \A I \in SUBSET (1..n) : I # {} /\ f[I \ {Max(I)}] \in X => f[I] \in X
    PROVE  \A I \in SUBSET (1..n) : f[I] \in X
<1>. DEFINE T == {k \in Nat : k <= n => \A I \in SUBSET (1..k) : f[I] \in X}
<1>1. 0 \in T
  <2>1. \A I \in SUBSET (1..0) : I = {}
    OBVIOUS
  <2>. QED
    BY <2>1
<1>2. ASSUME NEW k \in Nat, k \in T PROVE k + 1 \in T
  <2>1. SUFFICES ASSUME k + 1 <= n, NEW I \in SUBSET (1..(k + 1)) PROVE f[I] \in X
    OBVIOUS
  <2>2. \A J \in SUBSET (1..k) : f[J] \in X
    BY <1>2, <2>1
  <2>3. CASE k + 1 \in I
    <3>1. Max(I) = k + 1 /\ I # {}
      BY <2>3, MaxOfInterval
    <3>2. I \ {k + 1} \in SUBSET (1..k) /\ I \in SUBSET (1..n)
      BY <2>1
    <3>. QED
      BY <2>2, <3>1, <3>2
  <2>4. CASE k + 1 \notin I
    <3>1. I \in SUBSET (1..k)
      BY <2>4
    <3>. QED
      BY <2>2, <3>1
  <2>. QED
    BY <2>3, <2>4
<1>. HIDE DEF T
<1>3. n \in T
  BY <1>1, <1>2, Successors
<1>. QED
  BY <1>3 DEF T

(* A fold by a function G from X to X stays in X.                           *)
LEMMA FoldInto ==
    ASSUME NEW n \in Nat, NEW X, NEW base \in X, NEW G, \A x \in X, i \in 1..n : G[x][i] \in X
    PROVE  \E f : Folds2(f, base, G, n) /\ \A I \in SUBSET (1..n) : f[I] \in X
<1>1. PICK f : Folds2(f, base, G, n)
  BY FoldExists
<1>2. \A I \in SUBSET (1..n) : f[I] = IF I = {} THEN base ELSE G[f[I \ {Max(I)}]][Max(I)]
  BY <1>1 DEF Folds2
<1>3. f[{}] \in X
  BY <1>2
<1>4. ASSUME NEW I \in SUBSET (1..n), I # {}, f[I \ {Max(I)}] \in X PROVE f[I] \in X
  <2>1. Max(I) \in 1..n
    BY <1>4, MaxIn
  <2>. QED
    BY <1>2, <1>4, <2>1
<1>. QED
  BY <1>1, <1>3, <1>4, ByGreatest

(***************************************************************************)
(* The names of the fields, and the table of a line's fields.              *)
(***************************************************************************)
Entries == <<[name |-> "pri", type |-> "integer"], [name |-> "from", type |-> "string"]>> \o Conf
Names == {Entries[i].name : i \in DOMAIN Entries}
FieldTypes == {"STRING", "INTEGER"}
NoProto == [array |-> << >>, map |-> [f \in {} |-> ""]]

Tables(A, V) == UNION {[S -> V] : S \in SUBSET A}
Maps == Tables(Names, FieldTypes)
Listed(a) == {a[i] : i \in 1..Len(a)}
Protos == {p \in [array : Seq(Names), map : Maps] : DOMAIN p.map = Listed(p.array)}

LEMMA EntriesAre == DOMAIN Entries = 1..Len(Entries) /\ Len(Entries) \in Nat
<1>. DEFINE two == <<[name |-> "pri", type |-> "integer"], [name |-> "from", type |-> "string"]>>
            X == Range(Conf) \cup Range(two)
<1>1. two \in Seq(Range(two))
  <2>1. DOMAIN two = 1..2 /\ \A i \in 1..2 : two[i] \in Range(two)
    BY DEF Range
  <2>. HIDE DEF X
  <2>2. two = [i \in 1..2 |-> two[i]]
    OBVIOUS
  <2>. HIDE DEF two
  <2>3. two \in [1..2 -> Range(two)]
    BY <2>1, <2>2
  <2>. QED
    BY <2>3, SeqDef
<1>2. Conf \in Seq(Range(Conf))
  BY ProtoAssumption
<1>3. Entries = two \o Conf
  BY DEF Entries
<1>. HIDE DEF two
<1>4. two \in Seq(X) /\ Conf \in Seq(X)
  <2>1. Range(two) \subseteq X /\ Range(Conf) \subseteq X
    OBVIOUS
  <2>. HIDE DEF X
  <2>. QED
    BY <1>1, <1>2, <2>1
<1>. HIDE DEF X
<1>5. Entries \in Seq(X)
  BY <1>3, <1>4
<1>. QED
  BY <1>5

(* A table on a set of names, and one name more.                            *)
LEMMA OneMore ==
    ASSUME NEW A, NEW V, NEW t \in Tables(A, V), NEW name \in A, NEW v \in V
    PROVE  g_hash_table_insert(t, name, v) \in Tables(A, V)
<1>1. PICK S \in SUBSET A : t \in [S -> V]
  BY DEF Tables
<1>. DEFINE u == g_hash_table_insert(t, name, v)
<1>2. u = [x \in S \cup {name} |-> IF x = name THEN v ELSE t[x]]
  BY <1>1 DEF g_hash_table_insert
<1>. HIDE DEF u
<1>3. u \in [S \cup {name} -> V] /\ S \cup {name} \in SUBSET A
  BY <1>1, <1>2
<1>. QED
  BY <1>1, <1>3 DEF u, Tables

LEMMA Registered ==
    ASSUME NEW p \in Protos, NEW i \in 1..Len(Entries)
    PROVE  protoRegister(p, Entries[i]) \in Protos
<1>. DEFINE e == Entries[i]
            T == IF e.type = "string" THEN "STRING" ELSE "INTEGER"
            a == Append(p.array, e.name)
            m == g_hash_table_insert(p.map, e.name, T)
<1>1. e.name \in Names
  BY EntriesAre DEF Names
<1>2. T \in FieldTypes
  BY DEF FieldTypes
<1>3. protoRegister(p, e) = p \/ protoRegister(p, e) = [array |-> a, map |-> m]
  BY DEF protoRegister
<1>. HIDE DEF e, T
<1>4. p.array \in Seq(Names) /\ p.map \in Maps /\ DOMAIN p.map = Listed(p.array)
  BY DEF Protos
<1>5. m \in Maps /\ DOMAIN m = DOMAIN p.map \cup {e.name}
  <2>. DEFINE q == p.map
              k == e.name
  <2>1. q \in Tables(Names, FieldTypes) /\ k \in Names
    BY <1>1, <1>4 DEF Maps
  <2>. HIDE DEF q, k
  <2>2. g_hash_table_insert(q, k, T) \in Tables(Names, FieldTypes)
    BY <1>2, <2>1, OneMore
  <2>3. DOMAIN g_hash_table_insert(q, k, T) = DOMAIN q \cup {k}
    BY DEF g_hash_table_insert
  <2>. QED
    BY <2>2, <2>3 DEF q, k, Maps
<1>6. a \in Seq(Names) /\ Len(a) = Len(p.array) + 1 /\ Len(p.array) \in Nat /\ a[Len(p.array) + 1] = e.name
      /\ \A k \in 1..Len(p.array) : a[k] = p.array[k]
  BY <1>1, <1>4
<1>. HIDE DEF a, m
<1>7. \A k : k \in 1..Len(a) <=> k = Len(p.array) + 1 \/ k \in 1..Len(p.array)
  BY <1>6
<1>8. DOMAIN m = Listed(a)
  BY <1>4, <1>5, <1>6, <1>7 DEF Listed
<1>9. [array |-> a, map |-> m] \in Protos
  BY <1>5, <1>6, <1>8 DEF Protos
<1>. QED
  BY <1>3, <1>9 DEF e

Registrations(f, n) ==
    f = [I \in SUBSET (1..n) |-> IF I = {} THEN NoProto ELSE protoRegister(f[I \ {Max(I)}], Entries[Max(I)])]

LEMMA ProtosExplored == protoExplore \in Protos
<1>. DEFINE n == Len(Entries)
            G == [x \in Protos |-> [i \in 1..n |-> protoRegister(x, Entries[i])]]
            c == CHOOSE f : Registrations(f, n)
<1>1. n \in Nat /\ DOMAIN Entries = 1..n
  BY EntriesAre
<1>2. protoExplore = c[1..n]
  BY <1>1 DEF protoExplore, FoldLeft, MapThenFoldSet, Registrations, NoProto, Entries
<1>3. NoProto \in Protos
  <2>1. NoProto.map \in [{} -> FieldTypes] /\ NoProto.array = << >> /\ NoProto = [array |-> << >>, map |-> NoProto.map]
    BY DEF NoProto
  <2>2. << >> \in Seq(Names) /\ {} \in SUBSET Names /\ Len(<< >>) = 0
    OBVIOUS
  <2>3. NoProto.map \in Maps
    BY <2>1, <2>2 DEF Maps, Tables
  <2>4. NoProto \in [array : Seq(Names), map : Maps]
    BY <2>1, <2>2, <2>3
  <2>5. DOMAIN NoProto.map = Listed(NoProto.array)
    BY <2>1, <2>2 DEF Listed
  <2>. QED
    BY <2>4, <2>5 DEF Protos
<1>4. \A x \in Protos, i \in 1..n : G[x][i] = protoRegister(x, Entries[i]) /\ G[x][i] \in Protos
  BY Registered
<1>. HIDE DEF n, G
<1>5. PICK f : Folds2(f, NoProto, G, n) /\ \A I \in SUBSET (1..n) : f[I] \in Protos
  BY <1>1, <1>3, <1>4, FoldInto
<1>6. ASSUME NEW I \in SUBSET (1..n), I # {} PROVE Max(I) \in 1..n /\ I \ {Max(I)} \in SUBSET (1..n)
  <2>1. Max(I) \in I
    BY <1>1, <1>6, MaxIn
  <2>. QED
    BY <2>1
<1>7. Registrations(f, n)
  <2>1. f = [I \in SUBSET (1..n) |-> f[I]]
    BY <1>5 DEF Folds2
  <2>2. ASSUME NEW I \in SUBSET (1..n)
        PROVE  f[I] = IF I = {} THEN NoProto ELSE protoRegister(f[I \ {Max(I)}], Entries[Max(I)])
    <3>1. f[I] = IF I = {} THEN NoProto ELSE G[f[I \ {Max(I)}]][Max(I)]
      BY <1>5 DEF Folds2
    <3>. QED
      BY <1>4, <1>5, <1>6, <3>1
  <2>. QED
    BY <2>1, <2>2 DEF Registrations
<1>8. Registrations(c, n)
  BY <1>7
<1>. HIDE DEF c
<1>9. c[{}] \in Protos
  BY <1>3, <1>8 DEF Registrations
<1>10. ASSUME NEW I \in SUBSET (1..n), I # {}, c[I \ {Max(I)}] \in Protos PROVE c[I] \in Protos
  <2>1. c[I] = protoRegister(c[I \ {Max(I)}], Entries[Max(I)])
    BY <1>8, <1>10 DEF Registrations
  <2>2. Max(I) \in 1..Len(Entries)
    BY <1>6, <1>10 DEF n
  <2>. QED
    BY <1>10, <2>1, <2>2, Registered
<1>11. \A I \in SUBSET (1..n) : c[I] \in Protos
  BY <1>1, <1>9, <1>10, ByGreatest
<1>. QED
  BY <1>2, <1>11

LEMMA ProtoArray ==
    /\ Len(g_protoArray) \in Nat /\ Field = Listed(g_protoArray)
    /\ \A i \in 1..Len(g_protoArray) : g_protoArray[i] \in Field
<1>1. Len(g_protoArray) \in Nat /\ Field = Listed(g_protoArray)
  BY ProtosExplored, ProtoAssumption DEF Protos, g_protoArray, g_protoNameMap
<1>. QED
  BY <1>1 DEF Listed

IsTable(t) == t = [f \in DOMAIN t |-> t[f]] /\ DOMAIN t \subseteq Field

Fillings(f, table, values, id) ==
    f = [I \in SUBSET DOMAIN id |->
           IF I = {} THEN table
           ELSE g_hash_table_insert(f[I \ {Max(I)}], g_protoArray[id[Max(I)]],
                                    newNode(g_protoArray[id[Max(I)]], values[id[Max(I)]]))]

LEMMA SmallerOne ==
    ASSUME NEW a \in Nat, NEW b \in Nat
    PROVE  /\ Min({a, b}) \in Nat /\ Min({a, b}) <= a /\ Min({a, b}) <= b
           /\ b <= a => Min({a, b}) = b
<1>1. \E x \in {a, b} : \A y \in {a, b} : x <= y
  OBVIOUS
<1>2. Min({a, b}) \in {a, b} /\ \A y \in {a, b} : Min({a, b}) <= y
  BY <1>1 DEF Min
<1>. QED
  BY <1>2

Named(values) == Min({Len(values), Len(g_protoArray)})

(* The fields of a line go into the table one after the other.              *)
Entering(c, table, values) ==
    /\ c[{}] = table
    /\ \A I \in SUBSET (1..Named(values)) : I # {} =>
          c[I] = g_hash_table_insert(c[I \ {Max(I)}], g_protoArray[Max(I)],
                                     newNode(g_protoArray[Max(I)], values[Max(I)]))
    /\ \A I \in SUBSET (1..Named(values)) : IsTable(c[I])

LEMMA FilledBy ==
    ASSUME NEW table, IsTable(table), NEW values, Len(values) \in Nat
    PROVE  \E c : Entering(c, table, values) /\ Filled(table, values) = c[1..Named(values)]
<1>. DEFINE n == Named(values)
            Node(i) == newNode(g_protoArray[i], values[i])
            V == {table[f] : f \in DOMAIN table} \cup {Node(i) : i \in 1..n}
            X == Tables(Field, V)
            Step(t, i) == g_hash_table_insert(t, g_protoArray[i], Node(i))
            G == [t \in X |-> [i \in 1..n |-> Step(t, i)]]
            id == [i \in 1..n |-> i]
            c == CHOOSE f : Fillings(f, table, values, id)
<1>1. n \in Nat /\ \A i \in 1..n : g_protoArray[i] \in Field
  <2>1. n \in Nat /\ n <= Len(g_protoArray)
    BY ProtoArray, SmallerOne DEF Named
  <2>. HIDE DEF n
  <2>. QED
    BY <2>1, ProtoArray
<1>2. Filled(table, values) = c[1..n]
  <2>1. DOMAIN id = 1..n
    OBVIOUS
  <2>2. Filled(table, values) =
          FoldLeft(LAMBDA t, i : g_hash_table_insert(t, g_protoArray[i], newNode(g_protoArray[i], values[i])),
                   table, id)
    BY DEF Filled, Named
  <2>. HIDE DEF id
  <2>3. Filled(table, values) = (CHOOSE f : Fillings(f, table, values, id))[DOMAIN id]
    BY <2>2 DEF FoldLeft, MapThenFoldSet, Fillings
  <2>. QED
    BY <2>1, <2>3
<1>. HIDE DEF n
<1>3. table \in X
  <2>1. DOMAIN table \in SUBSET Field /\ table \in [DOMAIN table -> V]
    BY DEF IsTable
  <2>. QED
    BY <2>1 DEF Tables
<1>4. ASSUME NEW t \in X, NEW i \in 1..n PROVE G[t][i] = Step(t, i) /\ Step(t, i) \in X
  <2>1. Node(i) \in V
    OBVIOUS
  <2>2. G[t][i] = Step(t, i)
    OBVIOUS
  <2>. HIDE DEF Node, V, G
  <2>3. Step(t, i) \in X
    BY <1>1, <2>1, OneMore
  <2>. QED
    BY <2>2, <2>3
<1>. HIDE DEF G, X
<1>5. \A t \in X, i \in 1..n : G[t][i] \in X
  BY <1>4
<1>. HIDE DEF Step, c
<1>6. PICK f : Folds2(f, table, G, n) /\ \A I \in SUBSET (1..n) : f[I] \in X
  BY <1>1, <1>3, <1>5, FoldInto
<1>7. ASSUME NEW I \in SUBSET (1..n), I # {} PROVE Max(I) \in 1..n /\ I \ {Max(I)} \in SUBSET (1..n)
  <2>1. Max(I) \in I
    BY <1>1, <1>7, MaxIn
  <2>. QED
    BY <2>1
<1>8. \A g : Fillings(g, table, values, id) <=>
         g = [I \in SUBSET (1..n) |-> IF I = {} THEN table ELSE Step(g[I \ {Max(I)}], Max(I))]
  <2>. SUFFICES ASSUME NEW g
                PROVE  Fillings(g, table, values, id) <=>
                         g = [I \in SUBSET (1..n) |-> IF I = {} THEN table ELSE Step(g[I \ {Max(I)}], Max(I))]
    OBVIOUS
  <2>1. DOMAIN id = 1..n /\ \A I \in SUBSET (1..n) : I # {} => id[Max(I)] = Max(I)
    BY <1>7
  <2>. DEFINE A(I) == IF I = {} THEN table
                      ELSE g_hash_table_insert(g[I \ {Max(I)}], g_protoArray[id[Max(I)]],
                                               newNode(g_protoArray[id[Max(I)]], values[id[Max(I)]]))
              B(I) == IF I = {} THEN table ELSE Step(g[I \ {Max(I)}], Max(I))
  <2>2. \A I \in SUBSET (1..n) : A(I) = B(I)
    BY <2>1 DEF Step
  <2>3. Fillings(g, table, values, id) <=> g = [I \in SUBSET (1..n) |-> A(I)]
    <3>. HIDE DEF id
    <3>. QED
      BY <2>1 DEF Fillings
  <2>. HIDE DEF A, B
  <2>4. [I \in SUBSET (1..n) |-> A(I)] = [I \in SUBSET (1..n) |-> B(I)]
    BY <2>2
  <2>. QED
    BY <2>3, <2>4 DEF B
<1>. HIDE DEF id
<1>9. Fillings(f, table, values, id)
  <2>1. f = [I \in SUBSET (1..n) |-> f[I]]
    BY <1>6 DEF Folds2
  <2>2. ASSUME NEW I \in SUBSET (1..n)
        PROVE  f[I] = IF I = {} THEN table ELSE Step(f[I \ {Max(I)}], Max(I))
    <3>1. f[I] = IF I = {} THEN table ELSE G[f[I \ {Max(I)}]][Max(I)]
      BY <1>6 DEF Folds2
    <3>. QED
      BY <1>4, <1>6, <1>7, <3>1
  <2>. QED
    BY <1>8, <2>1, <2>2
<1>10. Fillings(c, table, values, id)
  BY <1>9 DEF c
<1>. HIDE DEF c
<1>11. c[{}] \in X
  BY <1>3, <1>8, <1>10
<1>12. ASSUME NEW I \in SUBSET (1..n), I # {} PROVE c[I] = Step(c[I \ {Max(I)}], Max(I))
  BY <1>8, <1>10, <1>12
<1>13. ASSUME NEW I \in SUBSET (1..n), I # {}, c[I \ {Max(I)}] \in X PROVE c[I] \in X
  <2>1. c[I] = Step(c[I \ {Max(I)}], Max(I))
    BY <1>12, <1>13
  <2>. QED
    BY <1>4, <1>7, <1>13, <2>1
<1>14. \A I \in SUBSET (1..n) : c[I] \in X
  BY <1>1, <1>11, <1>13, ByGreatest
<1>15. ASSUME NEW t \in X PROVE IsTable(t)
  BY <1>15 DEF X, IsTable, Tables
<1>16. c[{}] = table
  BY <1>8, <1>10
<1>17. \A I \in SUBSET (1..n) : I # {} =>
          c[I] = g_hash_table_insert(c[I \ {Max(I)}], g_protoArray[Max(I)],
                                     newNode(g_protoArray[Max(I)], values[Max(I)]))
  BY <1>12 DEF Step, Node
<1>18. Entering(c, table, values)
  BY <1>15, <1>14, <1>16, <1>17 DEF Entering, n
<1>. QED
  BY <1>2, <1>18 DEF n

LEMMA FilledTable ==
    ASSUME NEW table, IsTable(table), NEW values, Len(values) \in Nat
    PROVE  IsTable(Filled(table, values))
<1>1. PICK c : Entering(c, table, values) /\ Filled(table, values) = c[1..Named(values)]
  BY FilledBy
<1>. QED
  BY <1>1 DEF Entering

(* What is in the table then: each field that the line names has the value  *)
(* that comes last under its name, and the others are as before.            *)
Under(f, k) == {i \in 1..k : g_protoArray[i] = f}

Entered(table, values, k) ==
    [f \in DOMAIN table \cup {g_protoArray[i] : i \in 1..k} |->
        IF Under(f, k) # {} THEN newNode(f, values[Max(Under(f, k))]) ELSE table[f]]

LEMMA OneEntered ==
    ASSUME NEW table, NEW values, NEW k \in Nat
    PROVE  g_hash_table_insert(Entered(table, values, k), g_protoArray[k + 1],
                               newNode(g_protoArray[k + 1], values[k + 1]))
             = Entered(table, values, k + 1)
<1>. DEFINE a == g_protoArray[k + 1]
            v == newNode(a, values[k + 1])
            D == DOMAIN table \cup {g_protoArray[i] : i \in 1..k}
            E(f) == IF Under(f, k) # {} THEN newNode(f, values[Max(Under(f, k))]) ELSE table[f]
            F(f) == IF Under(f, k + 1) # {} THEN newNode(f, values[Max(Under(f, k + 1))]) ELSE table[f]
<1>1. \A i : i \in 1..(k + 1) <=> i \in 1..k \/ i = k + 1
  OBVIOUS
<1>2. DOMAIN table \cup {g_protoArray[i] : i \in 1..(k + 1)} = D \cup {a}
  BY <1>1
<1>3. F(a) = v
  <2>1. Under(a, k + 1) \in SUBSET (1..(k + 1)) /\ k + 1 \in Under(a, k + 1)
    BY DEF Under
  <2>2. Max(Under(a, k + 1)) = k + 1
    BY <2>1, MaxOfInterval
  <2>. QED
    BY <2>1, <2>2
<1>4. ASSUME NEW f, f # a PROVE F(f) = E(f)
  <2>1. Under(f, k + 1) = Under(f, k)
    BY <1>1, <1>4 DEF Under
  <2>. QED
    BY <2>1
<1>5. Entered(table, values, k) = [f \in D |-> E(f)]
  BY DEF Entered
<1>6. Entered(table, values, k + 1) = [f \in D \cup {a} |-> F(f)]
  BY <1>2 DEF Entered
<1>. HIDE DEF a, v, D, E, F
<1>7. g_hash_table_insert([f \in D |-> E(f)], a, v) = [f \in D \cup {a} |-> IF f = a THEN v ELSE E(f)]
  BY DEF g_hash_table_insert
<1>8. [f \in D \cup {a} |-> IF f = a THEN v ELSE E(f)] = [f \in D \cup {a} |-> F(f)]
  BY <1>3, <1>4
<1>. QED
  BY <1>5, <1>6, <1>7, <1>8 DEF a, v

LEMMA EnteredUpTo ==
    ASSUME NEW table, IsTable(table), NEW values, NEW c, Entering(c, table, values), Named(values) \in Nat
    PROVE  c[1..Named(values)] = Entered(table, values, Named(values))
<1>. DEFINE N == Named(values)
            T == {k \in Nat : k <= N => c[1..k] = Entered(table, values, k)}
<1>1. 0 \in T
  <2>1. 1..0 = {}
    OBVIOUS
  <2>2. c[1..0] = table
    BY <2>1 DEF Entering
  <2>3. \A f : Under(f, 0) = {}
    BY <2>1 DEF Under
  <2>4. DOMAIN table \cup {g_protoArray[i] : i \in 1..0} = DOMAIN table
    BY <2>1
  <2>5. Entered(table, values, 0) = [f \in DOMAIN table |-> table[f]]
    BY <2>3, <2>4 DEF Entered
  <2>. QED
    BY <2>2, <2>5 DEF IsTable
<1>2. ASSUME NEW k \in Nat, k \in T PROVE k + 1 \in T
  <2>1. SUFFICES ASSUME k + 1 <= N PROVE c[1..(k + 1)] = Entered(table, values, k + 1)
    OBVIOUS
  <2>2. c[1..k] = Entered(table, values, k)
    BY <1>2, <2>1
  <2>. DEFINE I == 1..(k + 1)
  <2>3. I \in SUBSET (1..N) /\ I # {} /\ k + 1 \in I /\ I \ {k + 1} = 1..k
    BY <2>1
  <2>4. Max(I) = k + 1
    BY MaxOfInterval
  <2>. HIDE DEF I, N
  <2>5. c[I] = g_hash_table_insert(c[I \ {Max(I)}], g_protoArray[Max(I)],
                                   newNode(g_protoArray[Max(I)], values[Max(I)]))
    BY <2>3 DEF Entering, N
  <2>6. c[I] = g_hash_table_insert(c[1..k], g_protoArray[k + 1], newNode(g_protoArray[k + 1], values[k + 1]))
    BY <2>3, <2>4, <2>5
  <2>. QED
    BY <2>2, <2>6, OneEntered DEF I
<1>. HIDE DEF T
<1>3. N \in T
  BY <1>1, <1>2, Successors
<1>. QED
  BY <1>3 DEF T

(* A line with all its fields: the table is made of them alone.             *)
LEMMA AllEntered ==
    ASSUME NEW table, IsTable(table), NEW own, NEW values, Len(own) \in Nat, Len(values) \in Nat,
           Len(g_protoArray) <= Len(own), Len(own) <= Len(values),
           \A i \in 1..Len(own) : values[i] = own[i]
    PROVE  Filled(table, values) =
             [f \in Field |-> newNode(f, own[Max(Under(f, Len(g_protoArray)))])]
<1>. DEFINE N == Len(g_protoArray)
<1>1. N \in Nat /\ Field = {g_protoArray[i] : i \in 1..N}
  BY ProtoArray DEF Listed
<1>. HIDE DEF N
<1>2. N <= Len(own) /\ N <= Len(values)
  BY <1>1 DEF N
<1>3. Named(values) = N
  BY <1>1, <1>2, SmallerOne DEF Named, N
<1>4. Filled(table, values) = Entered(table, values, N)
  <2>1. PICK c : Entering(c, table, values) /\ Filled(table, values) = c[1..Named(values)]
    BY FilledBy
  <2>. QED
    BY <1>1, <1>3, <2>1, EnteredUpTo
<1>5. DOMAIN table \cup {g_protoArray[i] : i \in 1..N} = Field
  BY <1>1 DEF IsTable
<1>6. ASSUME NEW f \in Field
      PROVE  Under(f, N) # {} /\ values[Max(Under(f, N))] = own[Max(Under(f, N))]
  <2>1. Under(f, N) # {}
    BY <1>1 DEF Under
  <2>2. Under(f, N) \in SUBSET (1..N)
    BY DEF Under
  <2>3. Max(Under(f, N)) \in 1..N
    BY <1>1, <2>1, <2>2, MaxIn
  <2>4. 1..N \subseteq 1..Len(own)
    BY <1>1, <1>2
  <2>. QED
    BY <2>1, <2>3, <2>4
<1>7. Entered(table, values, N) =
        [f \in Field |-> IF Under(f, N) # {} THEN newNode(f, values[Max(Under(f, N))]) ELSE table[f]]
  BY <1>5 DEF Entered
<1>. QED
  BY <1>4, <1>6, <1>7 DEF N

----------------------------------------------------------------------------
(***************************************************************************)
(* Type correctness.                                                       *)
(***************************************************************************)
Flags ==
    /\ text \in Seq(Token) /\ yyerrcnt \in Int
    /\ syntaxError \in BOOLEAN /\ errorMessage \in BOOLEAN /\ failure \in BOOLEAN
    /\ parser \in {"none", "live", "freed"}

InHeap == minor \in 0..Size(heap) /\ stRoot \in 0..Size(heap)

LineTyped == IsTable(parseTable) /\ verdict \in {"none", "ignored"} \cup Verdicts

Typed == Owned /\ Flags /\ InHeap /\ LineTyped

LEMMA LexFlags ==
    ASSUME Flags, Lex
    PROVE  Flags'
<1>1. parser' = parser /\ syntaxError' = syntaxError
  BY DEF Lex
<1>2. ASSUME NEW yymajor, NEW node, Tfilter(yymajor, node) PROVE yyerrcnt' \in Int
  BY <1>2 DEF Tfilter, Flags
<1>3. CASE EndOfText /\ UNCHANGED <<text, failure, errorMessage>>
  <2>1. yyerrcnt' \in Int
    BY <1>2, <1>3 DEF EndOfText
  <2>. QED
    BY <1>1, <1>3, <2>1 DEF Flags
<1>4. ASSUME NEW t \in Token, text' = Append(text, t), ScanFailed(t) \/ Scanned(t) PROVE Flags'
  <2>1. yyerrcnt' \in Int
    BY <1>2, <1>4 DEF ScanFailed, Scanned, EndOfText
  <2>2. text' \in Seq(Token)
    BY <1>4 DEF Flags
  <2>3. failure' \in BOOLEAN /\ errorMessage' \in BOOLEAN
    BY <1>4 DEF ScanFailed, Scanned, Explain, Flags
  <2>. QED
    BY <1>1, <2>1, <2>2, <2>3 DEF Flags
<1>. QED
  BY <1>3, <1>4 DEF Lex

LEMMA FlagsInvariance == Flags /\ [Next]_vars => Flags'
<1>1. SUFFICES ASSUME Flags, [Next]_vars PROVE Flags'
  OBVIOUS
<1>2. CASE CompileAll \/ Compile
  BY <1>1, <1>2 DEF CompileAll, Compile, tf, Flags
<1>3. CASE Lex
  BY <1>1, <1>3, LexFlags
<1>4. CASE Shift
  <2>1. UNCHANGED <<text, syntaxError, errorMessage, failure, parser>> /\ yyerrcnt' = yyerrcnt - 1
    BY <1>4 DEF Shift, tf
  <2>2. yyerrcnt' \in Int
    BY <1>1, <2>1 DEF Flags
  <2>. QED
    BY <1>1, <2>1, <2>2 DEF Flags
<1>5. CASE Reduce
  <2>1. UNCHANGED <<text, yyerrcnt, syntaxError, errorMessage, failure, parser>>
    <3>1. ASSUME NEW rule, NEW node, NEW op, Becomes(rule, node, op)
          PROVE  UNCHANGED <<text, yyerrcnt, syntaxError, errorMessage, failure, parser>>
      BY <3>1 DEF Becomes, tf
    <3>2. CASE ReduceSentence
      BY <3>2 DEF ReduceSentence
    <3>3. CASE ReduceUnit \/ ReduceLogical \/ ReduceExists
      BY <3>1, <3>3 DEF ReduceUnit, ReduceLogical, ReduceExists
    <3>4. CASE ReduceRelation \/ ReduceChain \/ ReduceOp \/ ReduceBrackets
      BY <3>1, <3>4 DEF ReduceRelation, ReduceChain, ReduceOp, ReduceBrackets
    <3>. QED
      BY <1>5, <3>2, <3>3, <3>4 DEF Reduce
  <2>. QED
    BY <1>1, <2>1 DEF Flags
<1>6. CASE SyntaxError
  <2>1. UNCHANGED <<text, failure, parser>> /\ yyerrcnt' = 3
        /\ errorMessage' = (errorMessage \/ Reported)
        /\ syntaxError' = (syntaxError \/ Reported \/ major = 0)
    BY <1>6 DEF SyntaxError
  <2>2. errorMessage' \in BOOLEAN /\ syntaxError' \in BOOLEAN
    BY <2>1
  <2>3. yyerrcnt' \in Int
    BY <2>1
  <2>. QED
    BY <1>1, <2>1, <2>2, <2>3 DEF Flags
<1>7. CASE Accepted
  BY <1>1, <1>7 DEF Accepted, tf, Flags
<1>8. CASE Rejected \/ cleanFilter
  BY <1>1, <1>8 DEF Rejected, cleanFilter, tf, Flags
<1>9. CASE (\E l \in Line : Dispatch(l)) \/ UNCHANGED vars
  BY <1>1, <1>9 DEF Dispatch, vars, grammarVars, tf, Flags
<1>. QED
  BY <1>1, <1>2, <1>3, <1>4, <1>5, <1>6, <1>7, <1>8, <1>9 DEF Next, GrammarNext

(* minor changes when a token comes, stRoot when a sentence is there.       *)
LEMMA Moves == [Next]_vars => /\ minor' = minor \/ pc' = "parse"
                              /\ stRoot' = stRoot \/ pc' \in {"finish", "lex"}
<1>1. SUFFICES ASSUME [Next]_vars
               PROVE  /\ minor' = minor \/ pc' = "parse"
                      /\ stRoot' = stRoot \/ pc' \in {"finish", "lex"}
  OBVIOUS
<1>2. CASE CompileAll \/ Compile \/ Shift \/ SyntaxError \/ Accepted \/ Rejected \/ cleanFilter
  BY <1>2 DEF CompileAll, Compile, Shift, SyntaxError, Accepted, Rejected, cleanFilter, tf
<1>3. CASE Lex
  <2>1. stRoot' = stRoot
    BY <1>3 DEF Lex
  <2>2. ASSUME NEW yymajor, NEW node, Tfilter(yymajor, node) PROVE pc' = "parse"
    BY <2>2 DEF Tfilter
  <2>3. EndOfText => pc' = "parse"
    BY <2>2 DEF EndOfText
  <2>4. \A t : ScanFailed(t) \/ Scanned(t) => pc' = "parse"
    BY <2>2, <2>3 DEF ScanFailed, Scanned
  <2>. QED
    BY <1>3, <2>1, <2>3, <2>4 DEF Lex
<1>4. CASE Reduce
  <2>1. ASSUME NEW rule, NEW node, NEW op, Becomes(rule, node, op)
        PROVE  minor' = minor /\ stRoot' = stRoot
    BY <2>1 DEF Becomes, tf
  <2>2. CASE ReduceSentence
    BY <2>2 DEF ReduceSentence, Return
  <2>3. CASE ReduceUnit \/ ReduceLogical \/ ReduceExists
    BY <2>1, <2>3 DEF ReduceUnit, ReduceLogical, ReduceExists
  <2>4. CASE ReduceRelation \/ ReduceChain \/ ReduceOp \/ ReduceBrackets
    BY <2>1, <2>4 DEF ReduceRelation, ReduceChain, ReduceOp, ReduceBrackets
  <2>. QED
    BY <1>4, <2>2, <2>3, <2>4 DEF Reduce
<1>5. CASE (\E l \in Line : Dispatch(l)) \/ UNCHANGED vars
  BY <1>5 DEF Dispatch, vars, grammarVars, tf
<1>. QED
  BY <1>1, <1>2, <1>3, <1>4, <1>5 DEF Next, GrammarNext

LEMMA RootsInHeap ==
    ASSUME NEW h, NEW R, Held(h, R), NEW n \in R
    PROVE  n \in 1..Size(h)
BY DEF Held, Memory

LEMMA InHeapInvariance == Owned /\ InHeap /\ [Next]_vars => InHeap'
<1>1. SUFFICES ASSUME Owned, InHeap, [Next]_vars PROVE InHeap'
  OBVIOUS
<1>2. Owned' /\ Grows
  BY <1>1, OwnedInvariance DEF Onward
<1>3. Held(heap', Roots') /\ Size(heap) \in Nat /\ Size(heap') \in Nat
  BY <1>1, <1>2 DEF Owned, NodesHeld, Held, Memory, Size
<1>4. 0..Size(heap) \subseteq 0..Size(heap')
  BY <1>2, <1>3 DEF Grows
<1>5. Roots' \subseteq 1..Size(heap')
  BY <1>3, RootsInHeap
<1>6. \A n : {n} \ {0} \subseteq Roots' => n \in 0..Size(heap')
  <2>1. 0 \in 0..Size(heap') /\ 1..Size(heap') \subseteq 0..Size(heap')
    BY <1>3
  <2>. QED
    BY <1>5, <2>1
<1>7. minor' \in 0..Size(heap')
  <2>1. CASE minor' = minor
    BY <1>1, <1>4, <2>1 DEF InHeap
  <2>2. CASE pc' = "parse"
    <3>1. {minor'} \ {0} \subseteq Roots'
      BY <2>2 DEF Roots, AtHand, Parsing
    <3>. QED
      BY <1>6, <3>1
  <2>. QED
    BY <1>1, <2>1, <2>2, Moves
<1>8. stRoot' \in 0..Size(heap')
  <2>1. CASE stRoot' = stRoot
    BY <1>1, <1>4, <2>1 DEF InHeap
  <2>2. CASE pc' = "finish"
    <3>1. {stRoot'} \ {0} \subseteq Roots'
      BY <2>2 DEF Roots, InFilter
    <3>. QED
      BY <1>6, <3>1
  <2>3. CASE pc' = "lex"
    <3>1. stRoot' = 0
      BY <1>2, <2>3 DEF Owned, PlaceSound
    <3>. QED
      BY <1>3, <3>1
  <2>. QED
    BY <1>1, <2>1, <2>2, <2>3, Moves
<1>. QED
  BY <1>7, <1>8 DEF InHeap

(* doFilter returns.                                                        *)
LEMMA FilterJudges ==
    ASSUME Owned, pc = "compiled", NEW table
    PROVE  doFilter(table) \in Verdicts
<1>1. CASE stRoot = 0
  BY <1>1 DEF doFilter, Verdicts
<1>2. CASE stRoot # 0
  <2>1. Held(heap, Roots) /\ stRoot \in Roots
    BY <1>2 DEF Owned, NodesHeld, Roots, InFilter
  <2>2. Memory(heap) /\ stRoot \in 1..Size(heap)
    BY <2>1, RootsInHeap DEF Held
  <2>3. testNode(heap, stRoot, table) \in Verdicts
    BY <2>2, Judgement
  <2>. QED
    BY <1>2, <2>3 DEF doFilter
<1>. QED
  BY <1>1, <1>2

LEMMA SeenIs ==
    ASSUME NEW values, values \in Seq(Range(values)), NEW v \in Seen(values)
    PROVE  Len(v) \in Nat /\ Len(values) <= Len(v) /\ \A i \in 1..Len(values) : v[i] = values[i]
<1>. DEFINE N == Len(g_protoArray) + 1 - Len(values)
<1>1. PICK tail \in UNION {[1..n -> Leftover] : n \in {0} \cup 0..N} : v = values \o tail
  BY DEF Seen
<1>. HIDE DEF N
<1>2. tail \in Seq(Leftover)
  <2>1. PICK n \in {0} \cup 0..N : tail \in [1..n -> Leftover]
    OBVIOUS
  <2>2. n \in Nat
    OBVIOUS
  <2>. QED
    BY <2>1, <2>2, SeqDef
<1>. DEFINE X == Range(values) \cup Leftover
<1>3. values \in Seq(X) /\ tail \in Seq(X)
  <2>1. Range(values) \subseteq X /\ Leftover \subseteq X
    OBVIOUS
  <2>. HIDE DEF X
  <2>. QED
    BY <1>2, <2>1
<1>. HIDE DEF X
<1>. QED
  BY <1>1, <1>3

LEMMA LineTypedInvariance == Owned /\ LineTyped /\ [Next]_vars => LineTyped'
<1>1. SUFFICES ASSUME Owned, LineTyped, [Next]_vars PROVE LineTyped'
  OBVIOUS
<1>2. CASE UNCHANGED <<parseTable, verdict>>
  BY <1>1, <1>2 DEF LineTyped, IsTable
<1>3. ASSUME NEW l \in Line, Dispatch(l) PROVE LineTyped'
  <2>1. CASE ~l.proto
    <3>1. verdict' = "ignored" /\ parseTable' = parseTable
      BY <1>3, <2>1 DEF Dispatch
    <3>. QED
      BY <1>1, <3>1 DEF LineTyped, IsTable
  <2>2. CASE l.proto
    <3>1. PICK values \in Seen(l.values) :
             /\ parseTable' = Filled(parseTable, values)
             /\ verdict' = IF ParseError(values) THEN "ignored" ELSE doFilter(parseTable')
      BY <1>3, <2>2 DEF Dispatch
    <3>2. l.values \in Seq(Range(l.values))
      BY ProtoAssumption
    <3>3. Len(values) \in Nat
      BY <3>2, SeenIs
    <3>4. IsTable(Filled(parseTable, values))
      BY <1>1, <3>3, FilledTable DEF LineTyped
    <3>5. IsTable(parseTable')
      BY <3>1, <3>4
    <3>6. doFilter(parseTable') \in Verdicts
      BY <1>1, <1>3, FilterJudges DEF Dispatch
    <3>7. verdict' \in {"none", "ignored"} \cup Verdicts
      BY <3>1, <3>6
    <3>. QED
      BY <3>5, <3>7 DEF LineTyped, IsTable
  <2>. QED
    BY <2>1, <2>2
<1>. QED
  BY <1>1, <1>2, <1>3 DEF Next, cleanFilter, vars, lineVars

LEMMA TypedInit == Init => Typed
<1>1. SUFFICES ASSUME Init PROVE Typed
  OBVIOUS
<1>2. /\ text = << >> /\ yyerrcnt = 0 /\ minor = 0 /\ stRoot = 0 /\ heap = NoMemory
      /\ syntaxError = FALSE /\ errorMessage = FALSE /\ failure = FALSE /\ parser = "none"
      /\ parseTable = [f \in {} |-> 0] /\ verdict = "none"
  BY <1>1 DEF Init, GrammarInit
<1>3. Flags
  <2>1. text \in Seq(Token)
    BY <1>2, EmptySeq
  <2>2. yyerrcnt \in Int
    BY <1>2
  <2>. QED
    BY <1>2, <2>1, <2>2 DEF Flags
<1>4. InHeap
  <2>1. heap.node = << >>
    BY <1>2 DEF NoMemory
  <2>2. Size(heap) = 0
    BY <2>1 DEF Size
  <2>. QED
    BY <1>2, <2>2 DEF InHeap
<1>5. LineTyped
  <2>1. DOMAIN parseTable = {} /\ parseTable = [f \in DOMAIN parseTable |-> parseTable[f]]
    BY <1>2
  <2>. QED
    BY <1>2, <2>1 DEF LineTyped, IsTable
<1>. QED
  BY <1>1, <1>3, <1>4, <1>5, OwnedInit DEF Typed

LEMMA TypedTypeOK == Typed => TypeOK
<1>1. SUFFICES ASSUME Typed PROVE TypeOK
  OBVIOUS
<1>2. Owned /\ Flags /\ InHeap /\ LineTyped
  BY <1>1 DEF Typed
<1>3. /\ Viable(yystack) /\ Len(yystack) <= YYSTACKDEPTH /\ major \in 0..14
      /\ pc \in Places /\ overflowed \in BOOLEAN /\ Held(heap, Roots)
  BY <1>2 DEF Owned, StackSound, PlaceSound, NodesHeld
<1>4. Size(heap) \in Nat /\ heap.live \subseteq 1..Size(heap)
  BY <1>3 DEF Held, Memory, Size
<1>5. NodeSet = 0..Size(heap)
  BY DEF NodeSet, Size
<1>6. ASSUME NEW i \in 1..Len(yystack)
      PROVE  yystack[i].state \in 0..(YYNSTATE - 1) /\ yystack[i].node \in NodeSet
  <2>1. yystack[i].state \in 0..24 /\ yystack[i].node \in Nat
    BY <1>3, EntryIs
  <2>2. yystack[i].node # 0 => yystack[i].node \in Roots
    BY DEF Roots, OnStack, StackNodes
  <2>3. yystack[i].node # 0 => yystack[i].node \in 1..Size(heap)
    BY <1>3, <2>2, RootsInHeap
  <2>. QED
    BY <1>4, <1>5, <2>1, <2>3 DEF YYNSTATE
<1>7. major \in 0..TOKEN_RPAREN /\ {minor, stRoot} \subseteq NodeSet /\ heap.live \subseteq NodeSet \ {0}
  BY <1>2, <1>3, <1>4, <1>5 DEF InHeap, TOKEN_RPAREN
<1>8. text \in Seq(Token) /\ yyerrcnt \in Int /\ parser \in {"none", "live", "freed"}
      /\ {syntaxError, errorMessage, failure, overflowed} \subseteq BOOLEAN
  BY <1>2, <1>3 DEF Flags
<1>9. DOMAIN parseTable \subseteq Field /\ verdict \in {"none", "ignored", "yes", "no", "crash"}
  BY <1>2 DEF LineTyped, IsTable, Verdicts
<1>10. pc \in {"compile", "lex", "parse", "finish", "compiled", "rejected", "cleaned"}
  BY <1>3 DEF Places
<1>. QED
  BY <1>3, <1>6, <1>7, <1>8, <1>9, <1>10 DEF TypeOK

(* The scanner, the parser, parseString and doFilter: whatever a client     *)
(* asks for and whatever lines come, what the stack, the filter and the     *)
(* token at hand refer to are nodes that were made, the parser is in one of *)
(* its states, the table of fields has only names that proto.conf gives,    *)
(* and doFilter comes to an answer.                                         *)
THEOREM FiltersTyped == Spec => []TypeOK
<1>1. Init => Typed
  BY TypedInit
<1>2. Typed /\ [Next]_vars => Typed'
  BY OwnedInvariance, FlagsInvariance, InHeapInvariance, LineTypedInvariance DEF Typed, Onward
<1>3. Typed => TypeOK
  BY TypedTypeOK
<1>. QED
  BY <1>1, <1>2, <1>3, PTL DEF Spec

----------------------------------------------------------------------------
(***************************************************************************)
(* Fields.                                                                 *)
(***************************************************************************)
FieldsOf(own) ==
    LET At(f) == {i \in 1..Min({Len(own), Len(g_protoArray)}) : g_protoArray[i] = f}
    IN [f \in {g \in Field : At(g) # {}} |-> newNode(f, own[Max(At(f))])]

LEMMA OwnFields ==
    ASSUME NEW own, Len(own) \in Nat, Len(g_protoArray) <= Len(own)
    PROVE  FieldsOf(own) = [f \in Field |-> newNode(f, own[Max(Under(f, Len(g_protoArray)))])]
<1>. DEFINE N == Len(g_protoArray)
<1>1. N \in Nat /\ Field = {g_protoArray[i] : i \in 1..N}
  BY ProtoArray DEF Listed
<1>2. Min({Len(own), Len(g_protoArray)}) = N
  BY <1>1, SmallerOne
<1>. HIDE DEF N
<1>3. {g \in Field : Under(g, N) # {}} = Field
  BY <1>1 DEF Under
<1>4. FieldsOf(own) = [f \in {g \in Field : Under(g, N) # {}} |-> newNode(f, own[Max(Under(f, N))])]
  BY <1>2 DEF FieldsOf, Under
<1>. QED
  BY <1>3, <1>4 DEF N

LEMMA NothingStaleInvariance == Owned /\ LineTyped /\ NothingStale /\ [Next]_vars => NothingStale'
<1>1. SUFFICES ASSUME Owned, LineTyped, NothingStale, [Next]_vars PROVE NothingStale'
  OBVIOUS
<1>2. CASE UNCHANGED <<parseTable, verdict, line>>
  BY <1>1, <1>2 DEF NothingStale, Complete, FieldsThere
<1>3. ASSUME NEW l \in Line, Dispatch(l) PROVE NothingStale'
  <2>1. line' = l
    BY <1>3 DEF Dispatch
  <2>2. CASE ~l.proto
    <3>1. verdict' = "ignored"
      BY <1>3, <2>2 DEF Dispatch
    <3>. QED
      BY <3>1 DEF NothingStale
  <2>3. CASE l.proto
    <3>1. PICK values \in Seen(l.values) : parseTable' = Filled(parseTable, values)
      BY <1>3, <2>3 DEF Dispatch
    <3>. DEFINE own == l.values
    <3>2. own \in Seq(Range(own))
      BY ProtoAssumption
    <3>3. /\ Len(own) \in Nat /\ Len(values) \in Nat /\ Len(own) <= Len(values)
          /\ \A i \in 1..Len(own) : values[i] = own[i]
      BY <3>2, SeenIs
    <3>4. Complete' => Len(g_protoArray) <= Len(own)
      BY <2>1, <3>3, ProtoArray DEF Complete
    <3>5. FieldsThere' = FieldsOf(own)
      BY <2>1 DEF FieldsThere, FieldsOf
    <3>. HIDE DEF own
    <3>6. ASSUME Complete' PROVE parseTable' = FieldsThere'
      <4>1. Len(g_protoArray) <= Len(own)
        BY <3>4, <3>6
      <4>2. FieldsOf(own) = [f \in Field |-> newNode(f, own[Max(Under(f, Len(g_protoArray)))])]
        BY <3>3, <4>1, OwnFields
      <4>3. Filled(parseTable, values) = [f \in Field |-> newNode(f, own[Max(Under(f, Len(g_protoArray)))])]
        BY <1>1, <3>3, <4>1, AllEntered DEF LineTyped
      <4>. QED
        BY <3>1, <3>5, <4>2, <4>3
    <3>. QED
      BY <3>6 DEF NothingStale
  <2>. QED
    BY <2>2, <2>3
<1>. QED
  BY <1>1, <1>2, <1>3 DEF Next, cleanFilter, vars, lineVars

(* parseString and doFilter: when a line that has all its fields has been   *)
(* judged, the table that doFilter looked at was that line's fields and     *)
(* nothing else, however many lines came before it, of whatever kind, and   *)
(* whatever parseString found behind its last value: for every proto.conf,  *)
(* every set of lines and every filter.                                     *)
THEOREM LinesFresh == Spec => []NothingStale
<1>1. Init => NothingStale
  BY DEF Init, NothingStale
<1>2. Init => Typed
  BY TypedInit
<1>3. Typed /\ [Next]_vars => Typed'
  BY OwnedInvariance, FlagsInvariance, InHeapInvariance, LineTypedInvariance DEF Typed, Onward
<1>4. Typed /\ NothingStale /\ [Next]_vars => NothingStale'
  BY NothingStaleInvariance DEF Typed
<1>. QED
  BY <1>1, <1>2, <1>3, <1>4, PTL DEF Spec
============================================================================
