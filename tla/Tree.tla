-------------------------------- MODULE Tree --------------------------------
(***************************************************************************)
(* libavutil/tree.c: an AVL tree of elements in the order of a comparison. *)
(* A node keeps no height but state, -1, 0 or 1: the height of its right   *)
(* child less that of its left one.  A tree is Nil or a node with two      *)
(* children.                                                               *)
(***************************************************************************)
EXTENDS Integers, FiniteSets, SequencesExt

CONSTANTS MaxElem,   \* the elements are the numbers up to it
          Nil, NoElem

VARIABLES root, members

Elems == 1 .. MaxElem

treeVars == <<root, members>>

TreeInit == root = Nil /\ members = {}

Node(e) == [elem |-> e, state |-> 0, child |-> [i \in {0, 1} |-> Nil]]

\* av_tree_find: whether key is there, and its neighbours, the last elements on
\* its left and on its right that the search has met.
RECURSIVE Find(_, _, _)
Find(t, key, next) ==
    IF t = Nil THEN [found |-> FALSE, next |-> next]
    ELSE IF key = t.elem
    THEN [found |-> TRUE,
          next |-> Find(t.child[1], key, Find(t.child[0], key, next).next).next]
    ELSE LET side == IF key < t.elem THEN 1 ELSE 0
         IN  Find(t.child[1 - side], key, [next EXCEPT ![side] = t.elem])

NoNext == [i \in {0, 1} |-> NoElem]

\* The double rotation of lines 109 to 118; the child's inner child comes up.
DoubleRotation(t, i) ==
    LET c == t.child[i]
        g == c.child[1 - i]
        sides == [t |-> [t EXCEPT !.child[i] = g.child[1 - i]],
                  c |-> [c EXCEPT !.child[1 - i] = g.child[i]]]
        left  == IF i = 1 THEN sides.t ELSE sides.c
        right == IF i = 1 THEN sides.c ELSE sides.t
    IN  [g EXCEPT !.state = 0,
                  !.child = [j \in {0, 1} |->
                     IF j = 0 THEN [left EXCEPT !.state = IF g.state > 0 THEN -1 ELSE 0]
                     ELSE [right EXCEPT !.state = IF g.state < 0 THEN 1 ELSE 0]]]

\* The single rotation of lines 120 to 127; the child comes up.
SingleRotation(t, i) ==
    LET c == t.child[i]
        s == IF c.state # 0 THEN 0 ELSE t.state \div 2
    IN  [c EXCEPT !.child[1 - i] = [t EXCEPT !.child[i] = c.child[1 - i], !.state = s],
                  !.state = -s]

\* Variant for mutation: a child that leans the other way is not turned first.
RebalancedOnce(t, i) ==
    LET s == t.state + 2 * i - 1
        u == [t EXCEPT !.state = s]
    IN  IF s \in {-1, 0, 1} THEN u ELSE SingleRotation(u, i)

\* The node t, whose child i has become the deeper by one, or the other one the
\* shallower.
Rebalanced(t, i) ==
    LET s == t.state + 2 * i - 1
        u == [t EXCEPT !.state = s]
    IN  IF s \in {-1, 0, 1} THEN u
        ELSE IF u.child[i].state * 2 = -s THEN DoubleRotation(u, i)
        ELSE SingleRotation(u, i)

\* av_tree_insert.  node says whether *next holds a node, to be used, or is NULL,
\* to receive the one that is removed; done stands for what is returned being
\* not NULL: the height of t has not changed.
RECURSIVE Insert(_, _, _)
Insert(t, key, node) ==
    IF t = Nil
    THEN IF node THEN [t |-> Node(key), node |-> FALSE, done |-> FALSE]
         ELSE [t |-> Nil, node |-> FALSE, done |-> TRUE]
    ELSE IF t.elem = key /\ node THEN [t |-> t, node |-> TRUE, done |-> TRUE]
    ELSE IF t.elem = key /\ t.child[0] = Nil /\ t.child[1] = Nil
    THEN [t |-> Nil, node |-> TRUE, done |-> FALSE]
    ELSE LET same == t.elem = key
             side == IF same THEN (IF t.child[0] = Nil THEN 1 ELSE 0)
                     ELSE IF t.elem < key THEN 1 ELSE 0
             e    == IF same THEN Find(t.child[side], key, NoNext).next[side] ELSE t.elem
             r    == Insert(t.child[side], IF same THEN e ELSE key, node)
             t1   == [t EXCEPT !.elem = e, !.child[side] = r.t]
             t2   == Rebalanced(t1, IF r.node THEN 1 - side ELSE side)
         IN  IF r.done THEN [t |-> t1, node |-> r.node, done |-> TRUE]
             ELSE [t |-> t2, node |-> r.node, done |-> (t2.state = 0) # r.node]

\* av_tree_enumerate of the elements from lo to hi, in the order of the calls.
RECURSIVE Enumerate(_, _, _)
Enumerate(t, lo, hi) ==
    IF t = Nil THEN <<>>
    ELSE (IF t.elem >= lo THEN Enumerate(t.child[0], lo, hi) ELSE <<>>)
         \o (IF t.elem \in lo .. hi THEN <<t.elem>> ELSE <<>>)
         \o (IF t.elem <= hi THEN Enumerate(t.child[1], lo, hi) ELSE <<>>)
-----------------------------------------------------------------------------
\* The caller gives a node to insert with, and takes the one that is removed.
InsertElem(e) ==
    /\ root' = Insert(root, e, TRUE).t
    /\ members' = members \union {e}

RemoveElem(e) ==
    /\ root' = Insert(root, e, FALSE).t
    /\ members' = members \ {e}

Destroy == root' = Nil /\ members' = {}

TreeNext == (\E e \in Elems : InsertElem(e) \/ RemoveElem(e)) \/ Destroy
-----------------------------------------------------------------------------
(***************************************************************************)
(* Properties                                                              *)
(***************************************************************************)
RECURSIVE Height(_)
Height(t) == IF t = Nil THEN 0
             ELSE LET h(i) == Height(t.child[i])
                  IN  1 + IF h(0) > h(1) THEN h(0) ELSE h(1)

\* Every node knows the heights of its children, which differ by one at most.
RECURSIVE Balanced(_)
Balanced(t) ==
    t # Nil => /\ t.state \in {-1, 0, 1}
               /\ t.state = Height(t.child[1]) - Height(t.child[0])
               /\ \A i \in {0, 1} : Balanced(t.child[i])

Sorted(S) == SelectSeq([e \in Elems |-> e], LAMBDA e : e \in S)

\* Through insertions and removals in any order the tree is a balanced search
\* tree of the elements that were put in and not removed: any range of them is
\* enumerated in order, and a search finds those, and of any key the neighbours
\* if there is no such element.
TreeIsTheSet ==
    /\ Balanced(root)
    /\ \A lo, hi \in Elems : Enumerate(root, lo, hi) = Sorted(members \intersect lo .. hi)
    /\ \A e \in Elems :
          LET r == Find(root, e, NoNext)
              below == {x \in members : x < e}
              above == {x \in members : x > e}
          IN  /\ r.found = (e \in members)
              /\ r.next[0] = IF below = {} THEN NoElem ELSE Max(below)
              /\ r.next[1] = IF above = {} THEN NoElem ELSE Min(above)
=============================================================================
