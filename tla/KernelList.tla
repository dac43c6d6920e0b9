---------------------------- MODULE KernelList ----------------------------
(***************************************************************************)
(* The intrusive circular doubly linked lists of core/lib/list.c.  A heap  *)
(* h holds the two pointers of every struct list_head: h.nx is the field   *)
(* next, h.pv is the field prev.  Every C function becomes an operator     *)
(* from heap to heap that performs the same pointer assignments in the     *)
(* same order, so that a misuse (a node that is linked twice, a node that  *)
(* is linked into two lists) has the effect it has in C.                   *)
(***************************************************************************)
EXTENDS Naturals, Sequences, FiniteSets

CONSTANTS Node,     \* every struct list_head: embedded tags and list heads
          NULL      \* the null pointer

ASSUME NullIsNoNode == NULL \notin Node

INIT_LIST_HEAD(h, n) == [h EXCEPT !.nx[n] = n, !.pv[n] = n]

list_is_empty(h, head) == h.nx[head] = head

list_add(h, node, head) ==
  LET first == h.nx[head]
  IN  [h EXCEPT !.pv[first] = node, !.nx[node] = first,
                !.pv[node] = head, !.nx[head] = node]

list_add_tail(h, node, head) ==
  LET last == h.pv[head]
  IN  [h EXCEPT !.nx[last] = node, !.nx[node] = head,
                !.pv[node] = last, !.pv[head] = node]

list_del(h, node) ==
  LET next == h.nx[node]
      prev == h.pv[node]
  IN  [h EXCEPT !.pv[next] = prev, !.nx[prev] = next,
                !.nx[node] = NULL, !.pv[node] = NULL]

list_del_init(h, node) == INIT_LIST_HEAD(list_del(h, node), node)

\* list_pop returns head->next; the popped node is list_first of the old heap.
list_first(h, head) == h.nx[head]

\* Fault: pops the other end.
list_pop_last(h, head) == list_del_init(h, h.pv[head])

list_pop(h, head) == list_del_init(h, list_first(h, head))

list_move(h, node, head) == list_add(list_del(h, node), node, head)
list_move_tail(h, node, head) == list_add_tail(list_del(h, node), node, head)

list_append(h, list, head) ==
  LET hnext == h.nx[head]
      lnext == h.nx[list]
      lprev == h.pv[list]
  IN  IF list_is_empty(h, list) THEN h
      ELSE [h EXCEPT !.nx[head] = lnext, !.pv[hnext] = lprev,
                     !.pv[lnext] = head, !.nx[lprev] = hnext]

list_append_tail(h, list, head) ==
  LET hprev == h.pv[head]
      lnext == h.nx[list]
      lprev == h.pv[list]
  IN  IF list_is_empty(h, list) THEN h
      ELSE [h EXCEPT !.pv[head] = lprev, !.nx[hprev] = lnext,
                     !.pv[lnext] = hprev, !.nx[lprev] = head]

list_append_init(h, list, head) == INIT_LIST_HEAD(list_append(h, list, head), list)
list_append_tail_init(h, list, head) ==
  INIT_LIST_HEAD(list_append_tail(h, list, head), list)

-----------------------------------------------------------------------------
(* Traversals.  next^i(head) for i = 1, 2, ... is what every loop of the   *)
(* file visits; the loops differ only in where they stop.                  *)

Steps == 0 .. Cardinality(Node)

Chain(h, head) ==
  LET visit[i \in Steps] ==
        IF i = 0 THEN h.nx[head]
        ELSE IF visit[i - 1] = NULL THEN NULL ELSE h.nx[visit[i - 1]]
  IN  visit

\* The index at which a loop over c that stops at a member of stop ends.
\* Defined only when the loop ends.
StopIndex(c, stop) ==
  CHOOSE i \in Steps : c[i] \in stop /\ \A j \in 0 .. i - 1 : c[j] \notin stop

Ends(c, stop) == \E i \in Steps : c[i] \in stop

\* The loop walks from the first node and stops at the node or at the last
\* element; it reports "found" only if it has not reached the last element.
\* The nodes the walk meets are the least set that contains the first node
\* and is closed under next up to the last one: this form, unlike Chain,
\* can be reasoned about by choosing a closed set.
list_find_element(h, node, head) ==
  LET last == h.pv[head]
      ClosedUnderTheWalk(S) ==
        /\ h.nx[head] \in S \cup {NULL}
        /\ \A m \in S : m # last => h.nx[m] \in S \cup {NULL}
  IN  /\ node # last
      /\ \A S \in SUBSET Node : ClosedUnderTheWalk(S) => node \in S

\* Fault: the last element is not counted.
list_length_short(h, head) == StopIndex(Chain(h, head), {h.pv[head]})

list_length(h, head) ==
  IF h.nx[head] = h.pv[head] /\ h.nx[head] = head THEN 0
  ELSE StopIndex(Chain(h, head), {h.pv[head]}) + 1

\* The nodes list_walker and list_for_each hand to their callback, in order.
Elements(h, head) ==
  LET c == Chain(h, head)
  IN  [i \in 1 .. StopIndex(c, {head}) |-> c[i - 1]]

\* list_walker: the first node the predicate accepts, or NULL.
list_walker(h, head, accept) ==
  LET s    == Elements(h, head)
      hits == {i \in DOMAIN s : s[i] \in accept}
  IN  IF hits = {} THEN NULL
      ELSE s[CHOOSE i \in hits : \A j \in hits : i <= j]

Members(h, head) == {Elements(h, head)[i] : i \in DOMAIN Elements(h, head)}
=============================================================================
