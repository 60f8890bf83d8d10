----------------------------- MODULE TreeMiner -----------------------------
(***************************************************************************)
(* The pattern-growth miners: IHUP, HUP-Tree and HUI-Trie, which differ in *)
(* names and in what they tell the memory guard, and UP-Growth and         *)
(* UP-Growth+.  The database becomes a tree of transactions with an upper  *)
(* bound of utility in each node; mining goes from item to item and builds *)
(* a conditional tree for each prefix; the candidates are measured in a    *)
(* last pass.                                                              *)
(*                                                                         *)
(* Nodes live in an arena of pages and are named by their slot.  The slots *)
(* of a conditional tree are taken again once it is mined, by setting the  *)
(* arena's next slot back to what it was before.                           *)
(***************************************************************************)
EXTENDS MiningContext, Functions

TreeAlgorithms == {"ihup", "hup-tree", "hui-trie", "up-growth", "up-growth-plus"}

\* UP-Growth has bounds and orders of its own; the others ask nothing of the memory
\* guard, but that IHUP counts its candidates.
Grows == mode.algorithm \in {"up-growth", "up-growth-plus"}
Counts == mode.algorithm = "ihup"

VARIABLES
  arena,      \* nodes: slot to node; next: the slot to be taken; pages: how many there are
  trees,      \* a frame for each call of mine_tree, the innermost first
  unread,     \* transactions not in the tree yet
  candidates  \* itemsets to be measured, in the order they were found

treeVars == <<arena, trees, unread, candidates>>
treeMinerVars == <<contextVars, treeVars>>

Null == -1

GrowsTrees == mode.algorithm \in TreeAlgorithms

NoTree ==
  /\ arena = [nodes |-> [p \in {} |-> Null], next |-> 0, pages |-> 0]
  /\ trees = <<>> /\ unread = Tids /\ candidates = <<>>

TreeInit == Start(TreeAlgorithms) /\ NoTree

-----------------------------------------------------------------------------
(* The arena *)

\* The children of a node are a list in the code, searched for the one of an item.
Node(item, value, parent) ==
  [item |-> item, value |-> value, parent |-> parent, children |-> {}]

Put(nodes, p, node) ==
  [q \in DOMAIN nodes \cup {p} |-> IF q = p THEN node ELSE nodes[q]]

\* Mutant of Allocate: the page of a slot is made when the page before it is full.
AllocateLate(a, node) ==
  [nodes |-> Put(a.nodes, a.next, node),
   next |-> a.next + 1,
   pages |-> IF a.next = 0 THEN 1
             ELSE IF (a.next - 1) \div PageNodes >= a.pages
               THEN (a.next - 1) \div PageNodes + 1 ELSE a.pages]

\* allocate_node: pages are made until the slot has one.
Allocate(a, node) ==
  [nodes |-> Put(a.nodes, a.next, node),
   next |-> a.next + 1,
   pages |-> IF a.next \div PageNodes >= a.pages THEN a.next \div PageNodes + 1 ELSE a.pages]

\* The items from below the root down to a node, following the parents up.
ItemsTo(nodes, root, p) ==
  LET to[q \in root..p] == IF q = root THEN {} ELSE {nodes[q].item} \cup to[nodes[q].parent]
  IN  to[p]

-----------------------------------------------------------------------------
(* Trees *)

\* Descending weight, ties by item.
Ahead(weight, x, y) == weight[x] > weight[y] \/ (weight[x] = weight[y] /\ x < y)

Sorted(S, weight) ==
  [i \in 1..Cardinality(S) |->
     CHOOSE x \in S : Cardinality({y \in S : Ahead(weight, y, x)}) = i - 1]

\* A tree: its root, the items in order, and for each item the list of its nodes.
NewTree(a, order) ==
  [arena |-> Allocate(a, Node(0, 0, Null)),
   tree |-> [root |-> a.next, order |-> order, header |-> [x \in Range(order) |-> <<>>]]]

\* A new node joins the list of its item: at its end in UP-Growth, else at its front.
Linked(list, new) == IF Grows THEN Append(list, new) ELSE <<new>> \o list

\* One item of a path: the child that has it takes the value, or a new one is made.
Grow(s, x, value) ==
  LET nodes == s.arena.nodes
      same == {p \in nodes[s.at].children : nodes[p].item = x}
      child == CHOOSE p \in same : TRUE
      new == s.arena.next
      a == Allocate(s.arena, Node(x, value, s.at))
  IN  IF same # {}
        THEN [s EXCEPT !.arena.nodes[child].value = @ + value, !.at = child]
        ELSE [arena |-> [a EXCEPT !.nodes[s.at].children = @ \cup {new}],
              tree |-> [s.tree EXCEPT !.header[x] = Linked(@, new)],
              at |-> new]

\* A path, given as its items, with the value each of its nodes takes.
Insert(a, tree, items, value) ==
  LET order == tree.order
      grown[i \in 0..Len(order)] ==
        IF i = 0 THEN [arena |-> a, tree |-> tree, at |-> tree.root]
        ELSE IF order[i] \in items THEN Grow(grown[i - 1], order[i], value[order[i]])
        ELSE grown[i - 1]
  IN  grown[Len(order)]

-----------------------------------------------------------------------------
(* The tree of the database *)

HeaderBytes == 32
BaseBytes == 16
CandidateItemBytes == 8

TreeFrame(tree, itemset, saved, bytes) ==
  [tree |-> tree, itemset |-> itemset, at |-> Len(tree.order), saved |-> saved, bytes |-> bytes]

\* The first pass, and an empty tree.
TreeFilter ==
  /\ FilterTo("build")
  /\ LET order == Sorted(DOMAIN twu', twu')
         made == NewTree(arena, order)
         bytes == IF Grows THEN HeaderBytes * Len(order) ELSE 0
     IN  /\ arena' = made.arena
         /\ trees' = <<TreeFrame(made.tree, <<>>, 0, bytes)>>
         /\ used' = used + bytes
  /\ UNCHANGED <<db, mode, todo, refused, failed, found, unread, candidates>>

\* What a transaction adds to each node of its path: its utility, or in UP-Growth that
\* of the items up to the node.
PathOf(t, order) == {x \in Range(order) : db[t][x] > 0}

\* Mutant of Values: the utility of what comes after the node.
ValuesAfter(t, path) ==
  [x \in path |->
     IF Grows THEN ItemSum({y \in path : y = x \/ Ahead(twu, x, y)}, db[t])
     ELSE TransactionUtility(db, t)]

Values(t, path) ==
  [x \in path |->
     IF Grows THEN ItemSum({y \in path : y = x \/ Ahead(twu, y, x)}, db[t])
     ELSE TransactionUtility(db, t)]

ReadTransaction(t) ==
  /\ phase = "build"
  /\ t \in unread /\ \A u \in unread : t <= u
  /\ LET path == PathOf(t, trees[1].tree.order)
         grown == Insert(arena, trees[1].tree, path, Values(t, path))
     IN  arena' = grown.arena /\ trees' = [trees EXCEPT ![1].tree = grown.tree]
  /\ unread' = unread \ {t}
  /\ UNCHANGED <<contextVars, candidates>>

StartMining ==
  /\ phase = "build" /\ unread = {}
  /\ phase' = "mine"
  /\ UNCHANGED <<db, mode, twu, todo, used, refused, failed, found, treeVars>>

-----------------------------------------------------------------------------
(* Mining a tree *)

\* Sums of what nodes are worth.
NodeSum(P, value) ==
  Footprint(P, value, 2 * MaxUtility * Cardinality(Items) * Cardinality(Tids))

\* Mutant of ItemsAbove: the path begins with the node itself.
ItemsFrom(nodes, root, p) == ItemsTo(nodes, root, p)

ItemsAbove(nodes, root, p) == ItemsTo(nodes, root, nodes[p].parent)

\* The conditional pattern base of an item: the paths to its nodes, each with the value of
\* the node.  The code drops the empty ones, which add nothing.
Base(tree, x) ==
  LET nodes == arena.nodes
      list == tree.header[x]
  IN  [i \in DOMAIN list |->
         [items |-> ItemsAbove(nodes, tree.root, list[i]), value |-> nodes[list[i]].value]]

Weight(tree, x) ==
  NodeSum(Range(tree.header[x]), [p \in Range(tree.header[x]) |-> arena.nodes[p].value])

\* The weight of the items of a base.  UP-Growth+ would lower it by what its unpromising
\* items add at least; that deduction is set to 0 in the code.
LocalTwu(base) ==
  [y \in UNION {base[i].items : i \in DOMAIN base} |->
     NodeSum({i \in DOMAIN base : y \in base[i].items}, [i \in DOMAIN base |-> base[i].value])]

\* The order of a conditional tree: that of the tree of the database, or in UP-Growth one
\* of its own.
LocalOrder(local) ==
  Sorted({y \in DOMAIN local : local[y] >= mode.minUtility}, IF Grows THEN local ELSE twu)

\* The conditional tree of a base: the paths, without the items that are not worth it.
Conditional(base, order) ==
  LET built[j \in 0..Len(base)] ==
        IF j = 0 THEN NewTree(arena, order)
        ELSE Insert(built[j - 1].arena, built[j - 1].tree, base[j].items,
                    [y \in base[j].items |-> base[j].value])
  IN  built[Len(base)]

BaseLength(base) == Cardinality({i \in DOMAIN base : base[i].items # {}})

\* Items are mined from the last in the order to the first.  The weight of one decides
\* whether it is a candidate and has a conditional tree, to be mined next.
MineItem ==
  /\ phase = "mine" /\ trees[1].at > 0
  /\ LET tree == trees[1].tree
         x == tree.order[trees[1].at]
         itemset == Append(trees[1].itemset, x)
         base == Base(tree, x)
         order == LocalOrder(LocalTwu(base))
         made == Conditional(base, order)
         bytes == IF Grows THEN BaseBytes * BaseLength(base) + HeaderBytes * Len(order) ELSE 0
         rest == [trees EXCEPT ![1].at = @ - 1]
     IN  IF Weight(tree, x) < mode.minUtility
           THEN /\ trees' = rest
                /\ UNCHANGED <<used, arena, candidates>>
           ELSE /\ candidates' = Append(candidates, itemset)
                /\ used' = used + bytes + (IF Counts
                                             THEN CandidateItemBytes * Len(itemset) ELSE 0)
                /\ IF order = <<>> /\ ~Grows
                     THEN trees' = rest /\ UNCHANGED arena
                     ELSE /\ arena' = made.arena
                          /\ trees' = <<TreeFrame(made.tree, itemset, arena.next, bytes)>> \o rest
  /\ UNCHANGED <<db, mode, phase, twu, todo, refused, failed, found, unread>>

\* A conditional tree is mined: its slots are free.
TreeReturn ==
  /\ phase = "mine" /\ trees[1].at = 0 /\ Len(trees) > 1
  /\ trees' = Tail(trees)
  /\ arena' = [arena EXCEPT !.next = trees[1].saved]
  /\ used' = Without(trees[1].bytes)
  /\ UNCHANGED <<db, mode, phase, twu, todo, refused, failed, found, unread, candidates>>

CandidateBytes ==
  CandidateItemBytes
    * Footprint(DOMAIN candidates, [i \in DOMAIN candidates |-> Len(candidates[i])],
                Cardinality(Items))

\* The last pass measures the candidates, and those that reach the threshold are written
\* by execute_tasks.
Measure ==
  /\ phase = "mine" /\ Len(trees) = 1 /\ trees[1].at = 0
  /\ found' = {e \in {[itemset |-> Range(candidates[i]),
                       utility |-> Utility(db, Range(candidates[i]))] : i \in DOMAIN candidates} :
                 e.utility >= mode.minUtility}
  /\ used' = IF Grows THEN Without(trees[1].bytes) ELSE Without(CandidateBytes)
  /\ phase' = "done"
  /\ UNCHANGED <<db, mode, twu, todo, refused, failed, treeVars>>

\* A page cannot be made or pinned: the run ends before anything is written.
ArenaFails ==
  /\ PoolFails
  /\ \/ phase = "filter"
     \/ phase = "build" /\ unread # {}
     \/ phase = "mine" /\ trees[1].at > 0
  /\ failed' = TRUE /\ phase' = "done"
  /\ UNCHANGED <<db, mode, twu, todo, used, refused, found, treeVars>>

TreeNext ==
  \/ TreeFilter \/ (\E t \in Tids : ReadTransaction(t)) \/ StartMining
  \/ MineItem \/ TreeReturn \/ Measure \/ ArenaFails

TreeSpec == TreeInit /\ [][TreeNext]_treeMinerVars

-----------------------------------------------------------------------------
(* Properties *)

\* The root from which a node hangs, and the nodes of a tree.
RootOf(nodes, p) ==
  LET root[q \in 0..p] == IF nodes[q].parent = Null THEN q ELSE root[nodes[q].parent]
  IN  root[p]

NodesOf(tree) == {p \in 0..arena.next - 1 : RootOf(arena.nodes, p) = tree.root}

\* What a tree holds: for each node but the root, the items on the way to it and its value.
Held(tree) ==
  [p \in NodesOf(tree) \ {tree.root} |->
     [items |-> ItemsTo(arena.nodes, tree.root, p), value |-> arena.nodes[p].value]]

\* What the tree of a prefix has to hold.  A transaction that has the prefix gives a node
\* to every initial part of its path; what it adds is its utility, or in UP-Growth that of
\* its items up to the first item of the prefix, which was the last of them in the order of
\* the tree of the database, or up to the node if there is no prefix.
Initial(t, order, i) == {order[j] : j \in {k \in 1..i : db[t][order[k]] > 0}}

Share(t, frame, part) ==
  IF ~Grows THEN TransactionUtility(db, t)
  ELSE IF frame.itemset = <<>> THEN ItemSum(part, db[t])
  ELSE ItemSum({y \in DOMAIN twu : y = frame.itemset[1] \/ Ahead(twu, y, frame.itemset[1])}, db[t])

Projection(frame) ==
  LET order == frame.tree.order
      from == Supporting(db, Range(frame.itemset)) \ (IF frame.itemset = <<>> THEN unread ELSE {})
      parts(t) == {Initial(t, order, i) : i \in {k \in DOMAIN order : db[t][order[k]] > 0}}
  IN  {[items |-> part,
        value |-> TidSum({t \in from : part \in parts(t)}, [t \in Tids |-> Share(t, frame, part)])] :
         part \in UNION {parts(t) : t \in from}}

\* Every tree that is being mined, read from the arena, is the projection of the database
\* on its prefix: no tree is overwritten by the conditional trees built and dropped behind
\* it, no path is lost or counted twice.  The children of its nodes are the nodes they are
\* the parents of, and each item's list has just the item's nodes.
TreesExact ==
  GrowsTrees /\ phase \in {"build", "mine"} =>
    \A i \in DOMAIN trees :
      LET tree == trees[i].tree
          nodes == arena.nodes
      IN
      /\ Range(Held(tree)) = Projection(trees[i])
      /\ \A p, q \in DOMAIN Held(tree) : Held(tree)[p].items = Held(tree)[q].items => p = q
      /\ \A p \in NodesOf(tree) : nodes[p].children = {q \in NodesOf(tree) : nodes[q].parent = p}
      /\ \A x \in DOMAIN tree.header :
           /\ IsInjective(tree.header[x])
           /\ Range(tree.header[x]) = {p \in NodesOf(tree) : p # tree.root /\ nodes[p].item = x}

\* The trees being mined fill the arena up to its next slot without a gap, one behind the
\* other, and every slot has a page.
ArenaTight ==
  GrowsTrees /\ phase \in {"build", "mine"} =>
    /\ \A i \in DOMAIN trees :
         NodesOf(trees[i].tree) =
           trees[i].tree.root .. (IF i = 1 THEN arena.next ELSE trees[i - 1].tree.root) - 1
    /\ \A p \in 0..arena.next - 1 : p \div PageNodes < arena.pages

\* No itemset is measured and written twice.
CandidatesOnce ==
  GrowsTrees =>
    \A i, j \in DOMAIN candidates : i # j => Range(candidates[i]) # Range(candidates[j])
=============================================================================
