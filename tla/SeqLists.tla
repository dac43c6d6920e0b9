----------------------------- MODULE SeqLists ------------------------------
(***************************************************************************)
(* What the users of list.c take its lists for: finite sequences of tags,  *)
(* a tag on at most one of them at a time.                                 *)
(***************************************************************************)
EXTENDS Naturals, Sequences

CONSTANTS Tag, ListHead

VARIABLES lists,  \* lists[hd] is the sequence of the tags on the list at hd
          call    \* the call that led here, with its arguments

On(hd) == {lists[hd][i] : i \in DOMAIN lists[hd]}
IsLinked(t) == \E hd \in ListHead : t \in On(hd)
Without(s, t) == SelectSeq(s, LAMBDA x : x # t)
Removed(t) == [hd \in ListHead |-> Without(lists[hd], t)]

Init == lists = [hd \in ListHead |-> << >>] /\ call = << >>

Push(t, hd) ==
  /\ ~IsLinked(t) /\ call' = <<"add", t, hd>>
  /\ lists' = [lists EXCEPT ![hd] = <<t>> \o @]
Enqueue(t, hd) ==
  /\ ~IsLinked(t) /\ call' = <<"add_tail", t, hd>>
  /\ lists' = [lists EXCEPT ![hd] = Append(@, t)]
Pop(hd) ==
  /\ lists[hd] # << >> /\ call' = <<"pop", hd>>
  /\ lists' = [lists EXCEPT ![hd] = Tail(@)]

\* Removing a tag that is on no list does nothing.
Remove(t) == call' = <<"del", t>> /\ lists' = Removed(t)

MoveFirst(t, hd) ==
  /\ IsLinked(t) /\ call' = <<"move", t, hd>>
  /\ lists' = [Removed(t) EXCEPT ![hd] = <<t>> \o @]
MoveLast(t, hd) ==
  /\ IsLinked(t) /\ call' = <<"move_tail", t, hd>>
  /\ lists' = [Removed(t) EXCEPT ![hd] = Append(@, t)]

SpliceFirst(from, to) ==
  /\ from # to /\ call' = <<"append", from, to>>
  /\ lists' = [lists EXCEPT ![to] = lists[from] \o @, ![from] = << >>]
SpliceLast(from, to) ==
  /\ from # to /\ call' = <<"append_tail", from, to>>
  /\ lists' = [lists EXCEPT ![to] = @ \o lists[from], ![from] = << >>]

Next ==
  \/ \E hd \in ListHead : Pop(hd)
  \/ \E t \in Tag : Remove(t)
  \/ \E t \in Tag, hd \in ListHead :
       Push(t, hd) \/ Enqueue(t, hd) \/ MoveFirst(t, hd) \/ MoveLast(t, hd)
  \/ \E from, to \in ListHead : SpliceFirst(from, to) \/ SpliceLast(from, to)

Spec == Init /\ [][Next]_<<lists, call>>
=============================================================================
