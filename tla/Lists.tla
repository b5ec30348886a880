------------------------------- MODULE Lists -------------------------------
(***************************************************************************)
(* The doubly linked lists of kernel/utils/lists.c as operators on a       *)
(* record: the pointers of list_t, and of the nodes the heap holds.  Every *)
(* function here runs under list->lock as a whole; ListUsers has the one   *)
(* that does not.                                                          *)
(***************************************************************************)
EXTENDS Integers, Sequences

CONSTANTS Nodes, Values, NULL

ListConstants == NULL \notin Nodes /\ NULL \notin Values

(* list_create *)
list_create ==
    [root |-> NULL, tail |-> NULL, length |-> 0,
     next |-> [n \in Nodes |-> NULL], previous |-> [n \in Nodes |-> NULL],
     value |-> [n \in Nodes |-> NULL]]

(* foreach: the nodes met from one end, along one kind of pointer.  A walk *)
(* longer than the number of nodes has met one of them twice.              *)
Walk(first, step, max) ==
    LET at[i \in 1 .. max + 1] ==
            IF i = 1 THEN first
            ELSE LET last == at[i - 1] IN IF last = NULL THEN NULL ELSE step[last]
    IN  SelectSeq(at, LAMBDA n : n # NULL)
Forward(l, max) == Walk(l.root, l.next, max)
Backward(l, max) == Walk(l.tail, l.previous, max)

(* A pointer is written through only if it is not NULL. *)
Set(f, n, x) == [m \in DOMAIN f |-> IF m = n THEN x ELSE f[m]]

list_push_before(l, lastNode, n, v) ==
    LET first == l.tail = lastNode IN
    [l EXCEPT !.value = Set(@, n, v),
              !.next = Set(@, n, lastNode),
              !.previous = Set(Set(@, n, IF first THEN NULL ELSE l.tail), lastNode, n),
              !.tail = IF first THEN n ELSE @,
              !.length = @ + 1]

list_push_back(l, n, v) ==
    [l EXCEPT !.value = Set(@, n, v),
              !.previous = Set(@, n, l.tail),
              !.next = Set(Set(@, n, NULL), l.tail, n),
              !.tail = n,
              !.root = IF @ = NULL THEN n ELSE @,
              !.length = @ + 1]

list_push_front(l, n, v) ==
    [l EXCEPT !.value = Set(@, n, v),
              !.previous = Set(Set(@, n, NULL), l.root, n),
              !.next = Set(@, n, l.root),
              !.tail = IF l.root = NULL THEN n ELSE @,
              !.root = n,
              !.length = @ + 1]

(* A freed node's fields are cleared: nothing reads them before the node   *)
(* is allocated again.                                                     *)
Freed(l, n) == [l EXCEPT !.value = Set(@, n, NULL), !.next = Set(@, n, NULL),
                         !.previous = Set(@, n, NULL)]

(* Mutant: the new last node keeps its next pointer. *)
UnlinkBackDangling(l) ==
    [l EXCEPT !.tail = l.previous[l.tail],
              !.root = IF l.previous[l.tail] = NULL THEN NULL ELSE @,
              !.length = @ - 1]

UnlinkBack(l) ==
    LET before == l.previous[l.tail] IN
    [l EXCEPT !.tail = before,
              !.next = Set(@, before, NULL),
              !.root = IF before = NULL THEN NULL ELSE @,
              !.length = @ - 1]

(* list_remove_back, and list_pop, which leaves the node to its caller *)
list_remove_back(l) == IF l.tail = NULL THEN l ELSE Freed(UnlinkBack(l), l.tail)
list_pop(l) == IF l.tail = NULL THEN l ELSE Freed(UnlinkBack(l), l.tail)

list_remove_front(l) ==
    IF l.root = NULL THEN l
    ELSE LET after == l.next[l.root] IN
         Freed([l EXCEPT !.root = after,
                         !.previous = Set(@, after, NULL),
                         !.tail = IF after = NULL THEN NULL ELSE @,
                         !.length = @ - 1],
               l.root)

(* The last branch of list_remove *)
UnlinkInside(l, n) ==
    Freed([l EXCEPT !.next = Set(@, l.previous[n], l.next[n]),
                    !.previous = Set(@, l.next[n], l.previous[n]),
                    !.length = @ - 1],
          n)

(* list_remove, when nobody else uses the list *)
list_remove(l, n) ==
    IF n = l.root THEN list_remove_front(l)
    ELSE IF n = l.tail THEN list_remove_back(l)
    ELSE UnlinkInside(l, n)

list_get_back(l) == IF l.tail = NULL THEN NULL ELSE l.value[l.tail]
list_get_front(l) == IF l.root = NULL THEN NULL ELSE l.value[l.root]

ValuesOf(l, max) == [i \in DOMAIN Forward(l, max) |-> l.value[Forward(l, max)[i]]]

list_get_indexed(l, i, max) ==
    LET ns == Forward(l, max) IN IF i + 1 \in DOMAIN ns THEN ns[i + 1] ELSE NULL
=============================================================================
