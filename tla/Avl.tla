-------------------------------- MODULE Avl --------------------------------
(***************************************************************************)
(* The balanced tree of avl.c.  Nodes with equal keys form a chain: its    *)
(* head is in the tree, the others hang on it by "next".  A tree is NULL   *)
(* or a record with the chain of its root, so that moving a node means     *)
(* building a record; what a removal does to a chain is spelled out.       *)
(*                                                                         *)
(* The tree is used in two ways: the variables, item descriptions and ID   *)
(* maps insert only, also equal keys; the memory regions insert and remove *)
(* nodes whose keys, hashes of their names, differ.                        *)
(***************************************************************************)
EXTENDS Integers, SequencesExt

CONSTANTS
  Key,          \* the keys, numbers
  MaxNodes,     \* bound on the nodes in the tree at a time
  MaxEqual,     \* bound on those with the same key
  MaxHeight     \* bound on the tree's height

ASSUME AvlAssumption == Key \subseteq Nat /\ {MaxNodes, MaxEqual, MaxHeight} \subseteq Nat

Null == <<>>

\* struct pw_avl_node, with the nodes that its chain and its branches lead to, which are
\* trees no higher than h: the functions below are recursive over those.
Node(S) == [key : Key, chain : Seq(Nat) \ {<<>>}, left : S, right : S, height : Nat]

Trees[h \in 0 .. MaxHeight] == IF h = 0 THEN {Null} ELSE {Null} \cup Node(Trees[h - 1])

Tree == Trees[MaxHeight]

height(t) == IF t = Null THEN 0 ELSE t.height

calc_height(t) == [t EXCEPT !.height = 1 + Max({height(t.left), height(t.right)})]

rotate_right(t) ==
  LET new == t.left IN
  calc_height([new EXCEPT !.right = calc_height([t EXCEPT !.left = new.right])])

rotate_left(t) ==
  LET new == t.right IN
  calc_height([new EXCEPT !.left = calc_height([t EXCEPT !.right = new.left])])

balance(t) == height(t.left) - height(t.right)

\* insert rebalances by the new node's key, ...
InsertBalance(t, key) ==
  IF balance(t) > 1
  THEN rotate_right(IF key > t.left.key THEN [t EXCEPT !.left = rotate_left(@)] ELSE t)
  ELSE IF balance(t) < -1
  THEN rotate_left(IF key < t.right.key THEN [t EXCEPT !.right = rotate_right(@)] ELSE t)
  ELSE t

\* Seeded faults: each replaces the definition of the same stem when the properties are
\* tested for being able to fail.
RemoveBalance_single(t) ==
  IF balance(t) > 1 THEN rotate_right(t)
  ELSE IF balance(t) < -1 THEN rotate_left(t) ELSE t

\* ... remove_node by the heavier side's own balance.
RemoveBalance(t) ==
  IF balance(t) > 1
  THEN rotate_right(IF balance(t.left) < 0 THEN [t EXCEPT !.left = rotate_left(@)] ELSE t)
  ELSE IF balance(t) < -1
  THEN rotate_left(IF balance(t.right) > 0 THEN [t EXCEPT !.right = rotate_right(@)] ELSE t)
  ELSE t

Chained_first(chain, n) == <<n>> \o chain

\* A node with a key that the tree has goes behind the chain's head.
Chained(chain, n) == <<Head(chain), n>> \o Tail(chain)

\* pw_avl_alloc
Leaf(key, n) == [key |-> key, chain |-> <<n>>, left |-> Null, right |-> Null, height |-> 1]

insert(tree, key, n) ==
  LET ins[t \in Tree] ==
        IF t = Null THEN Leaf(key, n)
        ELSE IF key < t.key
        THEN InsertBalance(calc_height([t EXCEPT !.left = ins[t.left]]), key)
        ELSE IF key > t.key
        THEN InsertBalance(calc_height([t EXCEPT !.right = ins[t.right]]), key)
        ELSE [t EXCEPT !.chain = Chained(@, n)]
  IN  ins[tree]

Least(tree) ==
  LET least[t \in Tree \ {Null}] == IF t.left = Null THEN t ELSE least[t.left] IN least[tree]

Refit(t) == RemoveBalance(calc_height(t))

Unchained(chain, n) == SelectSeq(chain, LAMBDA m : m # n)

\* remove_node, for a node that is in the tree.  A node that takes another's place
\* arrives with its own node only: the rest of its chain stays where it was.
remove_node(tree, node) ==
  LET rem[t \in Tree] == [d \in [key : Key, n : Nat] |->
        IF t = Null THEN Leaf(d.key, d.n)
        ELSE IF d.key < t.key THEN Refit([t EXCEPT !.left = rem[t.left][d]])
        ELSE IF d.key > t.key THEN Refit([t EXCEPT !.right = rem[t.right][d]])
        ELSE IF Len(t.chain) > 1 THEN [t EXCEPT !.chain = Unchained(@, d.n)]
        ELSE IF t.chain # <<d.n>> THEN t
        ELSE IF t.left = Null /\ t.right = Null THEN Null
        ELSE IF t.left = Null \/ t.right = Null
        THEN Refit(IF t.left = Null THEN t.right ELSE t.left)
        ELSE IF t.right.left = Null THEN Refit([t.right EXCEPT !.left = t.left])
        ELSE LET s == Least(t.right)
                 m == Head(s.chain)
             IN  Refit([t EXCEPT !.key = s.key, !.chain = <<m>>,
                                 !.right = rem[t.right][[key |-> s.key, n |-> m]]])]
  IN  rem[tree][node]

\* pw_avl_get, and the nodes that pw_avl_get_next goes on to.
Found(tree, key) ==
  LET found[t \in Tree] ==
        IF t = Null THEN <<>>
        ELSE IF t.key = key THEN t.chain
        ELSE found[IF key > t.key THEN t.right ELSE t.left]
  IN  found[tree]
-----------------------------------------------------------------------------
VARIABLES
  root,         \* avl->root
  count,        \* avl->el_count
  nodes,        \* history: the nodes that should be in the tree, for each key
  removes       \* the use: nodes are removed, and keys differ

avlVars == <<root, count, nodes, removes>>

AvlInit ==
  /\ root = Null /\ count = 0
  /\ nodes = [k \in Key |-> <<>>] /\ removes \in BOOLEAN

\* pw_avl_insert
Insert(k) ==
  /\ count < MaxNodes /\ height(root) < MaxHeight /\ Len(nodes[k]) < (IF removes THEN 1 ELSE MaxEqual)
  /\ LET n == Len(nodes[k]) + 1 IN
     /\ root' = insert(root, k, n)
     /\ nodes' = [nodes EXCEPT ![k] = Append(@, n)]
  /\ count' = count + 1
  /\ UNCHANGED removes

\* pw_avl_remove
RemoveNode(k) ==
  /\ removes /\ nodes[k] # <<>>
  /\ root' = remove_node(root, [key |-> k, n |-> Head(nodes[k])])
  /\ nodes' = [nodes EXCEPT ![k] = <<>>]
  /\ count' = count - 1
  /\ UNCHANGED removes

AvlNext == \E k \in Key : Insert(k) \/ RemoveNode(k)

AvlSpec == AvlInit /\ [][AvlNext]_avlVars
-----------------------------------------------------------------------------
(* Properties *)

Subtrees(tree) ==
  LET sub[t \in Tree] == IF t = Null THEN {} ELSE {t} \cup sub[t.left] \cup sub[t.right]
  IN  sub[tree]

\* The tree is balanced, its stored heights are right, and smaller keys are on the left,
\* after any series of insertions and removals; a search takes as many steps as the
\* tree is high, and the rotations look at nodes that exist.
Balanced ==
  \A t \in Subtrees(root) :
    /\ t.height = 1 + Max({height(t.left), height(t.right)})
    /\ balance(t) \in {-1, 0, 1}
    /\ \A u \in Subtrees(t.left) : u.key < t.key
    /\ \A u \in Subtrees(t.right) : u.key > t.key

\* Nodes with one key, given in the order of their insertion, as a search has them: the
\* first, then the others, the latest first.
ChainOrder(s) == IF Len(s) <= 1 THEN s ELSE <<Head(s)>> \o Reverse(Tail(s))

\* A search finds the nodes of its key and only those, in that order.
FindsAll == \A k \in Key : Found(root, k) = ChainOrder(nodes[k])
=============================================================================
