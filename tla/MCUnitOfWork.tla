---------------------------- MODULE MCUnitOfWork ----------------------------
(***************************************************************************)
(* Three instances, of a self-referencing type or of three types in a row, *)
(* and the object graphs the application builds of them.                   *)
(***************************************************************************)
EXTENDS UnitOfWork

CONSTANTS a, b, c

Each(x, y, z) == (a :> x) @@ (b :> y) @@ (c :> z)

Nodes == Each("Node", "Node", "Node")

Relation(kind, target) == [kind |-> kind, target |-> target]

\* A customer holds orders, whose foreign key has no navigation; a line refers to its order and to tags.
MCRelationships ==
    [Node |-> {Relation("ManyToOne", "Node"), Relation("OneToMany", "Node")},
     Customer |-> {Relation("OneToMany", "Order")}, Order |-> {},
     Line |-> {Relation("ManyToOne", "Order"), Relation("ManyToMany", "Tag")}, Tag |-> {}]

\* a holds b and b holds c, each with its back reference.
Chain == [type |-> Nodes, parent |-> Each(NoPtr, a, b), children |-> Each(<<b>>, <<c>>, <<>>)]

\* a holds b and c; only c has a back reference.
FanOut == [type |-> Nodes, parent |-> Each(NoPtr, NoPtr, a), children |-> Each(<<b, c>>, <<>>, <<>>)]

\* c is in the collections of a and of b and refers to b.
Shared == [type |-> Nodes, parent |-> Each(NoPtr, NoPtr, b), children |-> Each(<<c>>, <<c>>, <<>>)]

\* c refers to b and b to a, their collections never loaded.
Unloaded == [type |-> Nodes, parent |-> Each(NoPtr, a, b), children |-> Each(NotLoaded, NotLoaded, NotLoaded)]

\* a and b refer to each other.
Circular == [type |-> Nodes, parent |-> Each(b, a, NoPtr), children |-> Each(<<>>, <<>>, <<>>)]

MCNodes == {Chain, FanOut, Shared, Unloaded, Circular}

\* The line c refers to the order b, which is in the collection of the customer a; and the same without
\* the navigations, as after a query for each.
Ordered == [type |-> Each("Customer", "Order", "Line"), parent |-> Each(NoPtr, NoPtr, b), children |-> Each(<<b>>, <<>>, <<>>)]
Apart == [Ordered EXCEPT !.parent = Each(NoPtr, NoPtr, NoPtr), !.children = Each(<<>>, <<>>, <<>>)]

MCGraphs == MCNodes \cup {Ordered, Apart}

Fresh(g) == [graph |-> g, read |-> <<>>, refers |-> Each(NoPtr, NoPtr, NoPtr)]

\* A session that has written nothing yet, and one that has read a customer, its order and the order's line.
MCStarts == {Fresh(g) : g \in MCGraphs} \cup {[graph |-> Apart, read |-> <<a, b, c>>, refers |-> Each(NoPtr, a, b)]}

MCChain == {Chain}

MCChainStarts == {Fresh(Chain)}

\* One-to-many persists and removes, many-to-one persists.
MCCascade == [parent |-> {"persist"}, children |-> {"persist", "remove"}]

=============================================================================
