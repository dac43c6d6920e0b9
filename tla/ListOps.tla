------------------------------ MODULE ListOps ------------------------------
(***************************************************************************)
(* Any sequence of calls of the functions of core/lib/list.c that respects *)
(* their preconditions: a tag is added only while it is on no list,        *)
(* list_pop is called on a list that is not empty, list_del on a tag that  *)
(* is linked.                                                              *)
(***************************************************************************)
EXTENDS KernelList

CONSTANTS Tag, ListHead

ASSUME TagsAndHeads == Node = Tag \cup ListHead /\ Tag \cap ListHead = {}

VARIABLES h,
          call   \* the last call and its arguments (history)

Init ==
  /\ h = [nx |-> [n \in Node |-> IF n \in ListHead THEN n ELSE NULL],
          pv |-> [n \in Node |-> IF n \in ListHead THEN n ELSE NULL]]
  /\ call = << >>

OnSomeList(t) == \E hd \in ListHead : t \in Members(h, hd)

Call(c, after) == call' = c /\ h' = after

add(t, hd) == ~OnSomeList(t) /\ Call(<<"add", t, hd>>, list_add(h, t, hd))
add_tail(t, hd) == ~OnSomeList(t) /\ Call(<<"add_tail", t, hd>>, list_add_tail(h, t, hd))
pop(hd) == ~list_is_empty(h, hd) /\ Call(<<"pop", hd>>, list_pop(h, hd))
del(t) == OnSomeList(t) /\ Call(<<"del", t>>, list_del(h, t))

\* list_del_init is also allowed on a tag that is initialised and unlinked.
del_init(t) ==
  (OnSomeList(t) \/ h.nx[t] = t) /\ Call(<<"del", t>>, list_del_init(h, t))

move(t, hd) == OnSomeList(t) /\ Call(<<"move", t, hd>>, list_move(h, t, hd))
move_tail(t, hd) == OnSomeList(t) /\ Call(<<"move_tail", t, hd>>, list_move_tail(h, t, hd))

append_init(from, to) ==
  from # to /\ Call(<<"append", from, to>>, list_append_init(h, from, to))
append_tail_init(from, to) ==
  from # to /\ Call(<<"append_tail", from, to>>, list_append_tail_init(h, from, to))

Next ==
  \/ \E hd \in ListHead : pop(hd)
  \/ \E t \in Tag : del(t) \/ del_init(t)
  \/ \E t \in Tag, hd \in ListHead : add(t, hd) \/ add_tail(t, hd) \/ move(t, hd) \/ move_tail(t, hd)
  \/ \E from, to \in ListHead : append_init(from, to) \/ append_tail_init(from, to)

Spec == Init /\ [][Next]_<<h, call>>

-----------------------------------------------------------------------------
(* Properties.                                                             *)

\* Each pointer operation implements the operation on sequences that its
\* callers take it for.
Abstract == INSTANCE SeqLists WITH lists <- [hd \in ListHead |-> Elements(h, hd)]
ImplementsSeqLists == Abstract!Spec

\* The loop of list_find_element, statement by statement.
FindLoop(node, head) ==
  LET c == Chain(h, head)
  IN  c[StopIndex(c, {node, h.pv[head]})] # h.pv[head]

\* What the queries answer: list_length counts the tags, list_walker finds a
\* tag exactly if it is there, and list_find_element, which gives the same
\* answer as its loop, overlooks the tag at the end of the list and no other.
QueriesExact ==
  \A hd \in ListHead :
    /\ list_length(h, hd) = Len(Elements(h, hd))
    /\ \A t \in Tag :
         /\ list_walker(h, hd, {t}) = IF t \in Members(h, hd) THEN t ELSE NULL
         /\ list_find_element(h, t, hd) <=> FindLoop(t, hd)
         /\ list_find_element(h, t, hd) <=> t \in Members(h, hd) /\ t # h.pv[hd]
=============================================================================
