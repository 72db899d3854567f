------------------------------ MODULE RadixTree ------------------------------
(***************************************************************************)
(* The radix tree in which the object mapper keeps its prepared            *)
(* statements (lib/mapping/tree.js).  A node has the part of the key that  *)
(* leads to it from its parent, a value, 0 for null, and its edges in      *)
(* order of creation.  A key is a sequence of strings.                     *)
(***************************************************************************)
EXTENDS Naturals, Sequences, FiniteSets

Null == 0

Node(key, value, edges) == [key |-> key, value |-> value, edges |-> edges]

EmptyTree == Node(<< >>, Null, << >>)

From(s, i) == SubSeq(s, i, Len(s))

\* How many items the two sequences have in common at their beginning.
Matched(s, t) ==
    CHOOSE n \in 0..Len(s) :
        /\ n <= Len(t) /\ SubSeq(s, 1, n) = SubSeq(t, 1, n)
        /\ n < Len(s) /\ n < Len(t) => s[n + 1] # t[n + 1]

\* What a visit to a node returns: the node as it is afterwards, the value found or
\* made, and whether "add" was emitted.
Visited(node, value, added) == [node |-> node, value |-> value, added |-> added]

\* Faulty: the edges stay with the first half of the node.
CreateBranch_KeepEdges(node, index, rest, new) ==
    LET branch == Node(From(node.key, index + 1), node.value, << >>)
        stem == SubSeq(node.key, 1, index)
    IN  IF rest = << >>
        THEN Visited(Node(stem, new, Append(node.edges, branch)), new, TRUE)
        ELSE Visited(Node(stem, Null, node.edges \o <<branch, Node(rest, new, << >>)>>),
                     new, TRUE)

\* The key of the node is split at index: the rest of it goes to a branch with all the
\* node had, the node gets the new value when the key looked for ends here, and else
\* an edge of its own for what remains of that key.
CreateBranch(node, index, rest, new) ==
    LET branch == Node(From(node.key, index + 1), node.value, node.edges)
        stem == SubSeq(node.key, 1, index)
    IN  IF rest = << >>
        THEN Visited(Node(stem, new, <<branch>>), new, TRUE)
        ELSE Visited(Node(stem, Null, <<branch, Node(rest, new, << >>)>>), new, TRUE)

\* The first item of the node's key was matched on the way to it. The edges of a node
\* differ in their first item, so at most one can be followed.
RECURSIVE Visit(_, _, _)
Visit(node, key, new) ==
    LET tail == From(node.key, 2)
        n == Matched(tail, key)
        rest == From(key, n + 1)
        next == {i \in DOMAIN node.edges : rest # << >> /\ node.edges[i].key[1] = rest[1]}
    IN  CASE n < Len(tail) -> CreateBranch(node, n + 1, rest, new)
          [] n = Len(tail) /\ rest = << >> ->
                IF node.value = Null /\ node.edges # << >>
                THEN Visited([node EXCEPT !.value = new], new, FALSE)
                ELSE Visited(node, node.value, FALSE)
          [] n = Len(tail) /\ rest # << >> /\ next = {} ->
                Visited([node EXCEPT !.edges = Append(@, Node(rest, new, << >>))], new, TRUE)
          [] OTHER ->
                LET i == CHOOSE j \in next : TRUE
                    v == Visit(node.edges[i], Tail(rest), new)
                IN  Visited([node EXCEPT !.edges[i] = v.node], v.value, v.added)

GetOrCreate(tree, key, new) == Visit(tree, key, new)

-----------------------------------------------------------------------------
\* The items of the tree: every key with a value.
RECURSIVE Paths(_, _)
Paths(node, prefix) ==
    LET path == prefix \o node.key
    IN  (IF node.value = Null THEN {} ELSE {<<path, node.value>>})
            \union UNION {Paths(node.edges[i], path) : i \in DOMAIN node.edges}

TreeItems(tree) ==
    LET paths == Paths(tree, << >>)
    IN  [k \in {p[1] : p \in paths} |-> (CHOOSE p \in paths : p[1] = k)[2]]
=============================================================================
