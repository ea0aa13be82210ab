----------------------------- MODULE SyntaxTree -----------------------------
(***************************************************************************)
(* The nodes a filter is made of (syntax-tree.c, sttype-test.c).  A heap h *)
(* is a record: h.node[n] is the contents of the node n, h.live the nodes  *)
(* that are allocated, h.ok is FALSE once a node that is not allocated was *)
(* used.  Numbers are not used again, and 0 is the null pointer.           *)
(***************************************************************************)
EXTENDS Integers, Sequences

NoMemory == [node |-> << >>, live |-> {}, ok |-> TRUE]

(* A string and a number that a node has no use for are "" and 0.           *)
Leaf(type, text, value) ==
    [type |-> type, text |-> text, value |-> value, op |-> "", val1 |-> 0, val2 |-> 0,
     brackets |-> FALSE]

Fresh(h) == Len(h.node) + 1

Add(h, contents) ==
    [h EXCEPT !.node = Append(@, contents), !.live = @ \cup {Fresh(h)}]

stnode_new(h) == Add(h, Leaf("UNINITIALIZED", "", 0))

Used(h, n) == [h EXCEPT !.ok = @ /\ n \in h.live]

stnode_init(h, n, type, text, value) ==
    Used([h EXCEPT !.node[n] = Leaf(type, text, value)], n)

(* stnode_new(STTYPE_TEST) and sttype_test_set2 or sttype_test_set1.        *)
new_test(h, op, val1, val2) ==
    Add(h, [Leaf("TEST", "", 0) EXCEPT !.op = op, !.val1 = val1, !.val2 = val2])

(* Only leaves are ever copied.                                             *)
stnode_dup(h, n) == Used(Add(h, h.node[n]), n)

stnode_set_bracket(h, n) == Used([h EXCEPT !.node[n].brackets = TRUE], n)

(* The nodes that stnode_free, or test_free, comes to from n.               *)
Subtree(h, root) ==
    LET Below[n \in 0..Len(h.node)] ==
            IF n = 0 THEN {}
            ELSE {n} \cup Below[h.node[n].val1] \cup Below[h.node[n].val2]
    IN Below[root]

stnode_free(h, n) ==
    [h EXCEPT !.live = @ \ Subtree(h, n), !.ok = @ /\ Subtree(h, n) \subseteq h.live]

(* What the tree at n looks like from outside, as a nested tuple, given what *)
(* its children look like.                                                  *)
shapeOf(h, F, n) ==
    LET c == h.node[n] IN
    IF c.type # "TEST" THEN <<c.type, c.text, c.value>>
    ELSE IF c.val2 = 0 THEN <<c.op, F[c.val1]>>
    ELSE <<c.op, F[c.val1], F[c.val2]>>

Shape(h, root) ==
    LET F[n \in 1..Len(h.node)] == shapeOf(h, F, n) IN F[root]
============================================================================
