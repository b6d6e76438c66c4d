-------------------------------- MODULE BaseList --------------------------------
(***************************************************************************)
(* CBaseList: doubly linked lists of pointers with a count and a cache of  *)
(* nodes of their own.  Nodes move between lists, and from a cache to its  *)
(* list and back.  No operation takes a lock.                              *)
(***************************************************************************)
EXTENDS Naturals, SequencesExt, FiniteSets

CONSTANTS
    Lists, Objects,
    Memory,         \* nodes there is memory for
    CacheSize       \* of each list

BaseListAssumption == Memory \in Nat /\ CacheSize \in Nat

Nodes == 1..Memory
Null == 0
Unset == "unset"    \* what a new node holds

VARIABLE h          \* the nodes and the list objects

Init ==
    h = [next |-> [n \in Nodes |-> Null], prev |-> [n \in Nodes |-> Null], obj |-> [n \in Nodes |-> Unset],
         first |-> [l \in Lists |-> Null], last |-> [l \in Lists |-> Null], count |-> [l \in Lists |-> 0],
         cache |-> [l \in Lists |-> Null], used |-> [l \in Lists |-> 0], free |-> Nodes]

-----------------------------------------------------------------------------
\* GetHeadPosition and GetNext, GetTailPosition and Prev: the nodes met, as far as memory goes.
Chain(link, n) ==
    LET follow == [m \in Nodes \cup {Null} |-> IF m = Null THEN Null ELSE link[m]]
        at[i \in 0..Memory + 1] == IF i = 0 THEN n ELSE follow[at[i - 1]]
        length == Cardinality({i \in 0..Memory + 1 : at[i] # Null})
    IN  [i \in 1..length |-> at[i - 1]]
Forward(x, l) == Chain(x.next, x.first[l])
Backward(x, l) == Chain(x.prev, x.last[l])
Contents(x, l) == LET f == Forward(x, l) IN [i \in 1..Len(f) |-> x.obj[f[i]]]
Positions(l) == {Null} \cup Range(Forward(h, l))

\* CNodeCache.
Deleted(x, nodes) ==
    [x EXCEPT !.free = @ \cup nodes, !.next = [n \in Nodes |-> IF n \in nodes THEN Null ELSE @[n]],
              !.prev = [n \in Nodes |-> IF n \in nodes THEN Null ELSE @[n]],
              !.obj = [n \in Nodes |-> IF n \in nodes THEN Unset ELSE @[n]]]
AddToCache(x, l, n) ==
    IF x.used[l] < CacheSize
    THEN [x EXCEPT !.next[n] = x.cache[l], !.cache[l] = n, !.used[l] = @ + 1]
    ELSE Deleted(x, {n})

\* A node from the cache or from memory; Null when there is none.
NewNode(x, l) == IF x.cache[l] # Null THEN x.cache[l] ELSE IF x.free = {} THEN Null ELSE CHOOSE n \in x.free : \A k \in x.free : n <= k
Taken(x, l) ==
    IF x.cache[l] # Null THEN [x EXCEPT !.cache[l] = x.next[@], !.used[l] = @ - 1]
    ELSE [x EXCEPT !.free = @ \ {NewNode(x, l)}]

-----------------------------------------------------------------------------
\* AddTail, AddHead, AddAfter and AddBefore of one object; the node is New(x, l).
AddTailI(x, l, o) ==
    LET n == NewNode(x, l)  y == Taken(x, l) IN
    IF n = Null THEN x
    ELSE LET z == [y EXCEPT !.obj[n] = o, !.next[n] = Null, !.prev[n] = y.last[l], !.last[l] = n, !.count[l] = @ + 1]
         IN  IF y.last[l] = Null THEN [z EXCEPT !.first[l] = n] ELSE [z EXCEPT !.next[y.last[l]] = n]

\* A slip in AddHeadI: a node from the cache keeps its old previous node.
AddHeadI_KeepsPrev(x, l, o) ==
    LET n == NewNode(x, l)  y == Taken(x, l) IN
    IF n = Null THEN x
    ELSE LET z == [y EXCEPT !.obj[n] = o, !.next[n] = y.first[l], !.first[l] = n, !.count[l] = @ + 1]
         IN  IF y.first[l] = Null THEN [z EXCEPT !.last[l] = n] ELSE [z EXCEPT !.prev[y.first[l]] = n]

AddHeadI(x, l, o) ==
    LET n == NewNode(x, l)  y == Taken(x, l) IN
    IF n = Null THEN x
    ELSE LET z == [y EXCEPT !.obj[n] = o, !.prev[n] = Null, !.next[n] = y.first[l], !.first[l] = n, !.count[l] = @ + 1]
         IN  IF y.first[l] = Null THEN [z EXCEPT !.last[l] = n] ELSE [z EXCEPT !.prev[y.first[l]] = n]
\* Chained in after a and before b, of four pointers.
Between(x, l, o, a, b) ==
    LET n == NewNode(x, l)  y == Taken(x, l) IN
    IF n = Null THEN x
    ELSE [y EXCEPT !.obj[n] = o, !.prev = [@ EXCEPT ![n] = a, ![b] = n], !.next = [@ EXCEPT ![n] = b, ![a] = n],
                   !.count[l] = @ + 1]
AddAfterI(x, l, p, o) ==
    IF p = Null THEN AddHeadI(x, l, o) ELSE IF p = x.last[l] THEN AddTailI(x, l, o) ELSE Between(x, l, o, p, x.next[p])
AddBeforeI(x, l, p, o) ==
    IF p = Null THEN AddTailI(x, l, o) ELSE IF p = x.first[l] THEN AddHeadI(x, l, o) ELSE Between(x, l, o, x.prev[p], p)

\* The elements of another list, one by one; p follows along.  Without memory the rest is left.
AddedAll(l, p, objects, Add(_, _, _, _)) ==
    FoldLeft(LAMBDA acc, o : IF acc.ok THEN [x |-> Add(acc.x, l, acc.p, o), p |-> NewNode(acc.x, l),
                                             ok |-> NewNode(acc.x, l) # Null] ELSE acc,
             [x |-> h, p |-> p, ok |-> TRUE], objects).x

AddTails == \E l \in Lists, o \in Objects : h' = AddTailI(h, l, o)
AddHeads == \E l \in Lists, o \in Objects : h' = AddHeadI(h, l, o)
AddAfters == \E l \in Lists, o \in Objects : \E p \in Positions(l) : h' = AddAfterI(h, l, p, o)
AddBefores == \E l \in Lists, o \in Objects : \E p \in Positions(l) : h' = AddBeforeI(h, l, p, o)
AddedBefore(l, p, k) == AddedAll(l, p, Reverse(Contents(h, k)), AddBeforeI)
AddedAfter(l, p, k) == AddedAll(l, p, Contents(h, k), AddAfterI)
AddListTail == \E l, k \in Lists : l # k /\
    h' = AddedAll(l, Null, Contents(h, k), LAMBDA x, m, p, o : AddTailI(x, m, o))
AddListHead == \E l, k \in Lists : l # k /\
    h' = AddedAll(l, Null, Reverse(Contents(h, k)), LAMBDA x, m, p, o : AddHeadI(x, m, o))
AddListAfter == \E l, k \in Lists : l # k /\ \E p \in Positions(l) : h' = AddedAfter(l, p, k)
AddListBefore == \E l, k \in Lists : l # k /\ \E p \in Positions(l) : h' = AddedBefore(l, p, k)

-----------------------------------------------------------------------------
\* Remove, RemoveHead and RemoveTail; RemoveAll, which deletes the nodes and leaves the cache.
RemoveI(x, l, p) ==
    IF p = Null THEN x
    ELSE LET y == IF x.prev[p] = Null THEN [x EXCEPT !.first[l] = x.next[p]] ELSE [x EXCEPT !.next[x.prev[p]] = x.next[p]]
             z == IF x.next[p] = Null THEN [y EXCEPT !.last[l] = x.prev[p]] ELSE [y EXCEPT !.prev[x.next[p]] = x.prev[p]]
         IN  [AddToCache(z, l, p) EXCEPT !.count[l] = @ - 1]
Removes == \E l \in Lists : \E p \in Positions(l) : h' = RemoveI(h, l, p)
RemoveAll == \E l \in Lists :
    h' = [Deleted(h, Range(Forward(h, l))) EXCEPT !.count[l] = 0, !.first[l] = Null, !.last[l] = Null]

\* MoveToTail: the head of l up to p is joined to the tail of k; the pointers are set in the
\* order of the code, on one long chain.
MoveToTail(l, p, k) ==
    LET joined == [h EXCEPT !.next = IF h.last[k] # Null THEN [@ EXCEPT ![h.last[k]] = h.first[l]] ELSE @,
                            !.prev = IF h.first[l] # Null THEN [@ EXCEPT ![h.first[l]] = h.last[k]] ELSE @]
        rest == joined.next[p]
        moved == Len(Chain(h.prev, p))
    IN  [joined EXCEPT !.first = [@ EXCEPT ![k] = IF @ = Null THEN h.first[l] ELSE @, ![l] = rest],
                       !.last = [@ EXCEPT ![l] = IF rest = Null THEN Null ELSE @, ![k] = p],
                       !.prev = IF rest # Null THEN [@ EXCEPT ![rest] = Null] ELSE @,
                       !.next = [@ EXCEPT ![p] = Null],
                       !.count = [@ EXCEPT ![l] = @ - moved, ![k] = @ + moved]]
MoveToHead(l, p, k) ==
    LET joined == [h EXCEPT !.prev = IF h.first[k] # Null THEN [@ EXCEPT ![h.first[k]] = h.last[l]] ELSE @,
                            !.next = IF h.last[l] # Null THEN [@ EXCEPT ![h.last[l]] = h.first[k]] ELSE @]
        rest == joined.prev[p]
        moved == Len(Chain(h.next, p))
    IN  [joined EXCEPT !.last = [@ EXCEPT ![k] = IF @ = Null THEN h.last[l] ELSE @, ![l] = rest],
                       !.first = [@ EXCEPT ![l] = IF rest = Null THEN Null ELSE @, ![k] = p],
                       !.next = IF rest # Null THEN [@ EXCEPT ![rest] = Null] ELSE @,
                       !.prev = [@ EXCEPT ![p] = Null],
                       !.count = [@ EXCEPT ![l] = @ - moved, ![k] = @ + moved]]
Moves == \E l, k \in Lists : l # k /\ \E p \in Positions(l) \ {Null} : h' = MoveToTail(l, p, k)
MovesHead == \E l, k \in Lists : l # k /\ \E p \in Positions(l) \ {Null} : h' = MoveToHead(l, p, k)

\* Reverse: each node's pointers are swapped, then the ends.
Reverses == \E l \in Lists :
    LET nodes == Range(Forward(h, l)) IN
    h' = [h EXCEPT !.next = [n \in Nodes |-> IF n \in nodes THEN h.prev[n] ELSE @[n]],
                   !.prev = [n \in Nodes |-> IF n \in nodes THEN h.next[n] ELSE @[n]],
                   !.first[l] = h.last[l], !.last[l] = h.first[l]]

Next ==
    \/ AddTails \/ AddHeads \/ AddAfters \/ AddBefores
    \/ AddListTail \/ AddListHead \/ AddListAfter \/ AddListBefore
    \/ Removes \/ RemoveAll \/ Moves \/ MovesHead \/ Reverses
Spec == Init /\ [][Next]_h

-----------------------------------------------------------------------------
\* The pointers are nodes or NULL, and no cache has more nodes than it may.
TypeOK ==
    /\ h.next \in [Nodes -> Nodes \cup {Null}] /\ h.prev \in [Nodes -> Nodes \cup {Null}]
    /\ h.used \in [Lists -> 0..CacheSize] /\ h.free \subseteq Nodes

\* The two ways along a list meet the same nodes, and as many as are counted.
ListsAreWhole ==
    \A l \in Lists : /\ Backward(h, l) = Reverse(Forward(h, l))
                     /\ Len(Forward(h, l)) = h.count[l]

Cached(l) == Chain(h.next, h.cache[l])
\* Every node is in one list, in one cache or free: none is lost, none is used twice.
NodesAccounted ==
    /\ \A l \in Lists : Len(Cached(l)) = h.used[l]
    /\ LET parts == {Range(Forward(h, l)) : l \in Lists} \cup {Range(Cached(l)) : l \in Lists} \cup {h.free} IN
       /\ UNION parts = Nodes
       /\ \A a, b \in parts : a = b \/ a \cap b = {}
    /\ \A l \in Lists : IsInjective(Forward(h, l)) /\ IsInjective(Cached(l))

\* What the comments promise of each operation, in terms of the contents.  The position of p in a
\* list is its index, 0 for Null.
Index(l, p) == IF p = Null THEN 0 ELSE CHOOSE i \in 1..Len(Forward(h, l)) : Forward(h, l)[i] = p
Spliced(t, i, s) == SubSeq(t, 1, i) \o s \o SubSeq(t, i + 1, Len(t))
Enough(l, n) == n <= Cardinality(h.free) + h.used[l]
FirstPart(l, i) == SubSeq(Contents(h, l), 1, i)
LastPart(l, i) == SubSeq(Contents(h, l), i + 1, h.count[l])

\* An object goes after the position, or before it; after Null is the head, before Null the tail.
ObjectsGoWhereAsked ==
    \A l \in Lists, o \in Objects : Enough(l, 1) => \A p \in Positions(l) :
        LET i == Index(l, p) IN
        /\ Contents(AddAfterI(h, l, p, o), l) = Spliced(Contents(h, l), i, <<o>>)
        /\ Contents(AddBeforeI(h, l, p, o), l) = Spliced(Contents(h, l), IF p = Null THEN h.count[l] ELSE i - 1, <<o>>)

\* A list is added in its order, wherever it goes, and the list it came from is as it was.
ListsKeepTheirOrder ==
    \A l, k \in Lists : l # k /\ Enough(l, h.count[k]) => \A p \in Positions(l) :
        LET after == AddedAfter(l, p, k)  before == AddedBefore(l, p, k)  i == Index(l, p) IN
        /\ Contents(after, l) = Spliced(Contents(h, l), i, Contents(h, k))
        /\ Contents(before, l) = Spliced(Contents(h, l), IF p = Null THEN h.count[l] ELSE i - 1, Contents(h, k))
        /\ Contents(after, k) = Contents(h, k) /\ Contents(before, k) = Contents(h, k)

\* MoveToTail and MoveToHead cut one list at the position and join the part to the other.
PartsAreJoined ==
    \A l, k \in Lists : l # k => \A p \in Positions(l) \ {Null} :
        LET i == Index(l, p)  t == MoveToTail(l, p, k)  u == MoveToHead(l, p, k) IN
        /\ Contents(t, l) = LastPart(l, i) /\ Contents(t, k) = Contents(h, k) \o FirstPart(l, i)
        /\ Contents(u, l) = FirstPart(l, i - 1) /\ Contents(u, k) = LastPart(l, i - 1) \o Contents(h, k)
================================================================================
