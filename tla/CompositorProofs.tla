-------------------------- MODULE CompositorProofs --------------------------
(***************************************************************************)
(* Proofs about the compositor: what every operation on the globals does,  *)
(* that the lists of windows, the stack and the screen stay in order, and  *)
(* the conversation between the compositor and its clients.                *)
(***************************************************************************)
EXTENDS Compositor, DataProofs, FiniteSetTheorems

LEMMA Sizes ==
  /\ Height \in Nat \ {0} /\ MapSize \in Nat \ {0} /\ MouseHeight \in Nat \ {0}
  /\ MouseOffset \in Nat
  /\ Moves \subseteq Int /\ Shapes \subseteq Nat \X Nat /\ Targets \subseteq Int
  /\ ServerRoom \in Nat \ {0} /\ ClientRoom \in Nat \ {0} /\ Everybody \notin Client
BY CompositorBounds, PackagesBounds

LEMMA RowsOnScreen ==
  ASSUME NEW y, NEW height
  PROVE  Rows(y, height) \subseteq Row
BY DEF Rows

-----------------------------------------------------------------------------
(* wids_to_windows.                                                        *)

LEMMA HashRange == \A w \in Nat : hash_function(w) \in 0 .. MapSize - 1
<1> SUFFICES ASSUME NEW w \in Nat PROVE w % MapSize \in 0 .. MapSize - 1
  BY DEF hash_function
<1>1. MapSize \in Nat \ {0}
  BY Sizes
<1> QED BY <1>1

\* A window is in the bucket of its number, if it is open.
LEMMA Bucket ==
  ASSUME NEW h \in GlobalsType, Mapped(h), NEW w \in Nat
  PROVE  /\ h.map[hash_function(w)] \in Seq(Nat)
         /\ w \in Range(h.map[hash_function(w)]) <=> w \in Range(h.windows)
<1>1. hash_function(w) \in 0 .. MapSize - 1
  BY HashRange
<1>2. DOMAIN h.map = 0 .. MapSize - 1 /\ h.map[hash_function(w)] \in Seq(Nat)
  BY <1>1 DEF GlobalsType
<1>3. Range(h.map[hash_function(w)])
        = {v \in Range(h.windows) : hash_function(v) = hash_function(w)}
  BY <1>1, <1>2 DEF Mapped
<1> QED BY <1>2, <1>3

LEMMA HasIsOpen ==
  ASSUME NEW h \in GlobalsType, Mapped(h), NEW w \in Nat
  PROVE  hashmap_has(h.map, w) <=> w \in Range(h.windows)
BY Bucket, ContainsIs DEF hashmap_has

\* An open window is found under its number.
LEMMA GetOpen ==
  ASSUME NEW h \in GlobalsType, Mapped(h), NEW w \in Nat, w \in Range(h.windows)
  PROVE  hashmap_get(h.map, w) = w
<1> DEFINE b == h.map[hash_function(w)]
<1>1. b \in Seq(Nat) /\ w \in Range(b)
  BY Bucket
<1>2. Contains(b, w)
  BY <1>1, ContainsIs
<1>3. ASSUME Len(b) = 1 PROVE Head(b) = w
  <2>1. PICK i \in DOMAIN b : b[i] = w
    BY <1>1, InRange
  <2> HIDE DEF b
  <2>2. i = 1 /\ Head(b) = b[1]
    BY <1>1, <1>3, <2>1
  <2> QED BY <2>1, <2>2
<1> QED BY <1>2, <1>3 DEF hashmap_get

-----------------------------------------------------------------------------
(* The operations on the globals.                                          *)

LEMMA WindowFields ==
  ASSUME NEW h \in GlobalsType
  PROVE  /\ h.windows \in Seq(Nat) /\ h.mid_zs \in Seq(Nat) /\ h.win \in Seq(Window)
         /\ h.map \in [0 .. MapSize - 1 -> Seq(Nat)] /\ h.wid \in Nat
         /\ h.damage \in SUBSET Row /\ h.mouse \in Int /\ h.last_mouse \in Int
         /\ h.focused \in Nat /\ h.top_z \in Nat /\ h.bottom_z \in Nat
         /\ h.mouse_window \in Nat /\ h.win_offset \in Int /\ h.fault \in BOOLEAN
         /\ h.mouse_state \in {"normal", "moving", "dragging"}
BY DEF GlobalsType

\* What stays when only the pointer and the mode of the mouse change.
SameWindows(h, n) ==
  /\ n.wid = h.wid /\ n.windows = h.windows /\ n.mid_zs = h.mid_zs /\ n.map = h.map
  /\ n.win = h.win /\ n.bottom_z = h.bottom_z /\ n.top_z = h.top_z /\ n.focused = h.focused
  /\ n.damage = h.damage /\ n.last_mouse = h.last_mouse

\* What stays when windows change.
SameMouse(h, n) ==
  /\ n.mouse = h.mouse /\ n.last_mouse = h.last_mouse /\ n.mouse_state = h.mouse_state
  /\ n.mouse_window = h.mouse_window /\ n.win_offset = h.win_offset /\ n.fault = h.fault

Created(h, n, v) ==
  /\ n.wid = h.wid + 1 /\ n.windows = Append(h.windows, h.wid)
  /\ n.mid_zs = Append(h.mid_zs, h.wid) /\ n.map = hashmap_set(h.map, h.wid)
  /\ n.win = Append(h.win, v) /\ n.top_z = h.top_z /\ n.focused = h.focused
  /\ n.damage = h.damage \cup Rows(v.y, v.height)

LEMMA MapTypes ==
  ASSUME NEW m \in [0 .. MapSize - 1 -> Seq(Nat)], NEW w \in Nat
  PROVE  hashmap_set(m, w) \in [0 .. MapSize - 1 -> Seq(Nat)]
<1>1. hash_function(w) \in 0 .. MapSize - 1
  BY HashRange
<1>2. m[hash_function(w)] \in Seq(Nat)
  BY <1>1
<1>3. Append(m[hash_function(w)], w) \in Seq(Nat)
  BY <1>2, AppendFields
<1> QED BY <1>1, <1>3 DEF hashmap_set

\* server_window_create and mark_window, for a client or the background.
LEMMA CreateEffect ==
  ASSUME NEW h \in GlobalsType, h.wid = Len(h.win) + 1,
         NEW y \in Int, NEW height \in Nat, NEW owner \in Client \cup {Everybody},
         NEW n, n = mark_window(server_window_create(h, y, height, owner), next_wid(h))
  PROVE  /\ n \in GlobalsType /\ SameMouse(h, n) /\ n.bottom_z = h.bottom_z
         /\ Created(h, n, [y |-> y, height |-> height, owner |-> owner])
<1> DEFINE v == [y |-> y, height |-> height, owner |-> owner]
           m == server_window_create(h, y, height, owner)
<1>1. v \in Window
  BY DEF Window
<1>2. /\ m.wid = h.wid + 1 /\ m.windows = Append(h.windows, h.wid)
      /\ m.mid_zs = Append(h.mid_zs, h.wid) /\ m.map = hashmap_set(h.map, h.wid)
      /\ m.win = Append(h.win, v) /\ m.top_z = h.top_z /\ m.focused = h.focused
      /\ m.damage = h.damage /\ m.bottom_z = h.bottom_z /\ SameMouse(h, m)
  BY DEF server_window_create, next_wid, GlobalsType, SameMouse
<1>3. m \in GlobalsType
  <2>1. Append(h.windows, h.wid) \in Seq(Nat) /\ Append(h.mid_zs, h.wid) \in Seq(Nat)
    BY WindowFields, AppendFields
  <2>2. hashmap_set(h.map, h.wid) \in [0 .. MapSize - 1 -> Seq(Nat)]
    BY WindowFields, MapTypes
  <2>3. Append(h.win, v) \in Seq(Window)
    BY <1>1, WindowFields, AppendFields
  <2> HIDE DEF v
  <2>4. m = [h EXCEPT !.wid = @ + 1, !.windows = Append(@, h.wid),
                      !.mid_zs = Append(@, h.wid), !.map = hashmap_set(@, h.wid),
                      !.win = Append(@, v)]
    BY DEF server_window_create, next_wid, v
  <2>5. h.wid + 1 \in Nat
    BY WindowFields
  <2> HIDE DEF m
  <2> QED BY <2>1, <2>2, <2>3, <2>4, <2>5 DEF GlobalsType
<1>4. RowsOf(m, h.wid) = Rows(y, height)
  <2>1. Append(h.win, v)[Len(h.win) + 1] = v
    BY <1>1, WindowFields, AppendFields
  <2>2. m.win[h.wid] = v
    BY <1>2, <2>1
  <2> QED BY <2>2 DEF RowsOf
<1>5. n = [m EXCEPT !.damage = @ \cup Rows(y, height)]
  BY <1>4 DEF mark_window, next_wid
<1> HIDE DEF m
<1>6. n \in GlobalsType
  BY <1>3, <1>5, RowsOnScreen DEF GlobalsType
<1>7. /\ n.wid = m.wid /\ n.windows = m.windows /\ n.mid_zs = m.mid_zs /\ n.map = m.map
      /\ n.win = m.win /\ n.top_z = m.top_z /\ n.focused = m.focused
      /\ n.bottom_z = m.bottom_z /\ SameMouse(m, n)
      /\ n.damage = m.damage \cup Rows(y, height)
  BY <1>3, <1>5 DEF GlobalsType, SameMouse
<1>8. Created(h, n, v)
  BY <1>2, <1>7 DEF Created
<1> QED BY <1>2, <1>6, <1>7, <1>8 DEF SameMouse

Closed(h, n, w) ==
  /\ n.wid = h.wid /\ n.windows = RemoveFirst(h.windows, w)
  /\ n.mid_zs = RemoveFirst(h.mid_zs, w) /\ n.map = hashmap_remove(h.map, w)
  /\ n.win = [h.win EXCEPT ![w] = NoWindow]
  /\ n.bottom_z = h.bottom_z /\ n.top_z = h.top_z
  /\ n.focused = IF h.focused = w THEN 0 ELSE h.focused
  /\ n.damage = h.damage \cup RowsOf(h, w)

LEMMA OpenNumber ==
  ASSUME NEW h \in GlobalsType, Listed(h), NEW w \in Range(h.windows)
  PROVE  /\ w \in Nat /\ w \in DOMAIN h.win /\ h.win[w] \in Window
         /\ w \in Range(h.mid_zs) /\ w # 0 /\ w < h.wid
<1>1. DOMAIN h.win = 1 .. Len(h.win) /\ Len(h.win) \in Nat
  BY WindowFields
<1>2. w \in 1 .. Len(h.win) /\ w \in Range(h.mid_zs) /\ h.wid = Len(h.win) + 1
  BY <1>1 DEF Listed
<1>3. h.win[w] \in Window
  BY <1>1, <1>2, WindowFields
<1> QED BY <1>1, <1>2, <1>3

LEMMA CloseEffect ==
  ASSUME NEW h \in GlobalsType, Listed(h), Mapped(h), NEW w \in Range(h.windows),
         NEW n, n = server_window_close(h, w)
  PROVE  n \in GlobalsType /\ SameMouse(h, n) /\ Closed(h, n, w)
<1> DEFINE m == mark_window(h, w)
<1>1. w \in Nat /\ w \in DOMAIN h.win /\ w \in Range(h.mid_zs)
  BY OpenNumber
<1>2. hashmap_get(h.map, w) = w
  BY <1>1, GetOpen
<1>3. m = [h EXCEPT !.damage = @ \cup RowsOf(h, w)]
  BY DEF mark_window
<1>4. n = [m EXCEPT !.focused = IF @ = w THEN 0 ELSE @,
                    !.windows = RemoveFirst(@, w), !.mid_zs = RemoveFirst(@, w),
                    !.map = hashmap_remove(@, w), !.win[w] = NoWindow]
  BY <1>2 DEF server_window_close
<1> HIDE DEF m
<1>5. m \in GlobalsType
  BY <1>3, RowsOnScreen DEF GlobalsType, RowsOf
<1>6. /\ m.wid = h.wid /\ m.windows = h.windows /\ m.mid_zs = h.mid_zs /\ m.map = h.map
      /\ m.win = h.win /\ m.top_z = h.top_z /\ m.focused = h.focused
      /\ m.bottom_z = h.bottom_z /\ SameMouse(h, m) /\ m.damage = h.damage \cup RowsOf(h, w)
  BY <1>3 DEF GlobalsType, SameMouse
<1>7. /\ n.wid = m.wid /\ n.windows = RemoveFirst(m.windows, w)
      /\ n.mid_zs = RemoveFirst(m.mid_zs, w) /\ n.map = hashmap_remove(m.map, w)
      /\ n.win = [m.win EXCEPT ![w] = NoWindow] /\ n.bottom_z = m.bottom_z
      /\ n.top_z = m.top_z /\ n.focused = IF m.focused = w THEN 0 ELSE m.focused
      /\ n.damage = m.damage /\ SameMouse(m, n)
  BY <1>4, <1>5 DEF GlobalsType, SameMouse
<1>8. Closed(h, n, w)
  BY <1>6, <1>7 DEF Closed
<1>9. SameMouse(h, n)
  BY <1>6, <1>7 DEF SameMouse
<1>10. n \in GlobalsType
  <2>1. RemoveFirst(h.windows, w) \in Seq(Nat) /\ RemoveFirst(h.mid_zs, w) \in Seq(Nat)
    BY <1>1, WindowFields, RemoveRange DEF Listed
  <2>2. [h.win EXCEPT ![w] = NoWindow] \in Seq(Window)
    <3>1. NoWindow \in Window
      BY DEF NoWindow, Window
    <3> QED BY <1>1, <3>1, WindowFields
  <2>3. hashmap_remove(h.map, w) \in [0 .. MapSize - 1 -> Seq(Nat)]
    <3> DEFINE i == hash_function(w)
    <3>1. i \in 0 .. MapSize - 1
      BY <1>1, HashRange
    <3>2. h.map[i] \in Seq(Nat) /\ w \in Range(h.map[i])
      BY <1>1, Bucket
    <3>3. IsInjective(h.map[i])
      BY <3>1, WindowFields DEF Mapped
    <3> HIDE DEF i
    <3>4. RemoveFirst(h.map[i], w) \in Seq(Nat)
      BY <3>2, <3>3, RemoveRange
    <3> QED BY <3>1, <3>4, WindowFields DEF hashmap_remove, i
  <2>4. (IF m.focused = w THEN 0 ELSE m.focused) \in Nat
    BY <1>5 DEF GlobalsType
  <2>5. /\ RemoveFirst(m.windows, w) \in Seq(Nat) /\ RemoveFirst(m.mid_zs, w) \in Seq(Nat)
        /\ [m.win EXCEPT ![w] = NoWindow] \in Seq(Window)
        /\ hashmap_remove(m.map, w) \in [0 .. MapSize - 1 -> Seq(Nat)]
    BY <1>6, <2>1, <2>2, <2>3
  <2> QED BY <1>4, <1>5, <2>4, <2>5 DEF GlobalsType
<1> QED BY <1>8, <1>9, <1>10

Moved(h, n, w, y) ==
  /\ n.wid = h.wid /\ n.windows = h.windows /\ n.mid_zs = h.mid_zs /\ n.map = h.map
  /\ n.win = [h.win EXCEPT ![w].y = y] /\ n.bottom_z = h.bottom_z /\ n.top_z = h.top_z
  /\ n.focused = h.focused /\ n.damage = h.damage \cup RowsOf(h, w) \cup RowsOf(n, w)

LEMMA MoveEffect ==
  ASSUME NEW h \in GlobalsType, NEW w \in DOMAIN h.win, NEW y \in Int,
         NEW n, n = window_move(h, w, y)
  PROVE  n \in GlobalsType /\ SameMouse(h, n) /\ Moved(h, n, w, y)
<1> DEFINE m == mark_window(h, w)
           a == [m EXCEPT !.win[w].y = y]
<1>1. m = [h EXCEPT !.damage = @ \cup RowsOf(h, w)]
  BY DEF mark_window
<1>2. n = [a EXCEPT !.damage = @ \cup RowsOf(a, w)]
  BY DEF mark_window, window_move
<1> HIDE DEF m
<1>3. m \in GlobalsType
  BY <1>1, RowsOnScreen DEF GlobalsType, RowsOf
<1>4. /\ m.wid = h.wid /\ m.windows = h.windows /\ m.mid_zs = h.mid_zs /\ m.map = h.map
      /\ m.win = h.win /\ m.top_z = h.top_z /\ m.focused = h.focused
      /\ m.bottom_z = h.bottom_z /\ SameMouse(h, m) /\ m.damage = h.damage \cup RowsOf(h, w)
  BY <1>1 DEF GlobalsType, SameMouse
<1>5. /\ a.wid = m.wid /\ a.windows = m.windows /\ a.mid_zs = m.mid_zs /\ a.map = m.map
      /\ a.win = [m.win EXCEPT ![w].y = y] /\ a.top_z = m.top_z /\ a.focused = m.focused
      /\ a.bottom_z = m.bottom_z /\ SameMouse(m, a) /\ a.damage = m.damage
  BY <1>3 DEF GlobalsType, SameMouse
<1>6. a \in GlobalsType
  <2>1. [h.win EXCEPT ![w].y = y] \in Seq(Window)
    <3> DEFINE v == [h.win[w] EXCEPT !.y = y]
    <3>1. h.win[w] \in Window
      BY WindowFields
    <3>2. v \in Window
      BY <3>1 DEF Window
    <3>3. [h.win EXCEPT ![w].y = y] = [h.win EXCEPT ![w] = v]
      OBVIOUS
    <3> HIDE DEF v
    <3>4. [h.win EXCEPT ![w] = v] \in Seq(Window)
      BY <3>2, WindowFields
    <3> QED BY <3>3, <3>4, Zenon
  <2>2. a = [m EXCEPT !.win = [h.win EXCEPT ![w].y = y]]
    BY <1>3, <1>4 DEF GlobalsType
  <2> HIDE DEF a
  <2> QED BY <1>3, <2>1, <2>2 DEF GlobalsType
<1> HIDE DEF a
<1>7. n \in GlobalsType
  BY <1>2, <1>6, RowsOnScreen DEF GlobalsType, RowsOf
<1>8. /\ n.wid = a.wid /\ n.windows = a.windows /\ n.mid_zs = a.mid_zs /\ n.map = a.map
      /\ n.win = a.win /\ n.top_z = a.top_z /\ n.focused = a.focused
      /\ n.bottom_z = a.bottom_z /\ SameMouse(a, n) /\ n.damage = a.damage \cup RowsOf(a, w)
  BY <1>2, <1>6 DEF GlobalsType, SameMouse
<1>9. RowsOf(n, w) = RowsOf(a, w)
  BY <1>8 DEF RowsOf
<1>10. Moved(h, n, w, y)
  BY <1>4, <1>5, <1>8, <1>9 DEF Moved
<1> QED BY <1>4, <1>5, <1>7, <1>8, <1>10 DEF SameMouse

Raised(h, n, w) ==
  /\ n.wid = h.wid /\ n.windows = h.windows /\ n.map = h.map /\ n.win = h.win
  /\ n.mid_zs = Append(RemoveFirst(h.mid_zs, w), w)
  /\ n.bottom_z = h.bottom_z /\ n.top_z = w /\ n.focused = w
  /\ n.damage = h.damage \cup RowsOf(h, w)

LEMMA FocusEffect ==
  ASSUME NEW h \in GlobalsType, Listed(h), NEW w \in Range(h.windows),
         NEW n, n = set_focus_window(h, w)
  PROVE  /\ n \in GlobalsType /\ SameMouse(h, n)
         /\ IF w <= Background THEN n = h ELSE Raised(h, n, w)
<1>1. CASE w <= Background
  BY <1>1 DEF set_focus_window, SameMouse
<1>2. CASE ~(w <= Background)
  <2> DEFINE mids == Append(RemoveFirst(h.mid_zs, w), w)
             a == [h EXCEPT !.focused = w, !.top_z = w, !.mid_zs = mids]
  <2>1. w \in Nat /\ w \in Range(h.mid_zs)
    BY OpenNumber
  <2>2. mids \in Seq(Nat)
    <3>1. RemoveFirst(h.mid_zs, w) \in Seq(Nat)
      BY <2>1, WindowFields, RemoveRange DEF Listed
    <3> QED BY <2>1, <3>1, AppendFields
  <2>3. n = [a EXCEPT !.damage = @ \cup RowsOf(a, w)]
    BY <1>2 DEF set_focus_window, mark_window
  <2> HIDE DEF mids
  <2>4. a \in GlobalsType
    BY <2>1, <2>2 DEF GlobalsType
  <2>5. /\ a.wid = h.wid /\ a.windows = h.windows /\ a.mid_zs = mids /\ a.map = h.map
        /\ a.win = h.win /\ a.top_z = w /\ a.focused = w
        /\ a.bottom_z = h.bottom_z /\ SameMouse(h, a) /\ a.damage = h.damage
    BY DEF GlobalsType, SameMouse
  <2> HIDE DEF a
  <2>6. n \in GlobalsType
    BY <2>3, <2>4, RowsOnScreen DEF GlobalsType, RowsOf
  <2>7. /\ n.wid = a.wid /\ n.windows = a.windows /\ n.mid_zs = a.mid_zs /\ n.map = a.map
        /\ n.win = a.win /\ n.top_z = a.top_z /\ n.focused = a.focused
        /\ n.bottom_z = a.bottom_z /\ SameMouse(a, n) /\ n.damage = a.damage \cup RowsOf(a, w)
    BY <2>3, <2>4 DEF GlobalsType, SameMouse
  <2>8. RowsOf(a, w) = RowsOf(h, w)
    BY <2>5 DEF RowsOf
  <2>9. Raised(h, n, w)
    BY <2>5, <2>7, <2>8 DEF Raised, mids
  <2> QED BY <1>2, <2>5, <2>6, <2>7, <2>9 DEF SameMouse
<1> QED BY <1>1, <1>2

-----------------------------------------------------------------------------
(* The lists and the stack stay in order.                                  *)

Ordered(h) == h \in GlobalsType /\ Listed(h) /\ Mapped(h) /\ Stacked(h)

\* The windows but one stay as they are, for their owners.
KeepsBut(h, n, S) ==
  \A w \in Range(h.windows) \ S : w \in Range(n.windows) /\ n.win[w].owner = h.win[w].owner

\* Only the windows of S change.
ChangesOnly(h, n, S) == \A w \in Range(h.windows) \ S : n.win[w] = h.win[w]

LEMMA ListedFields ==
  ASSUME NEW h \in GlobalsType, Listed(h)
  PROVE  /\ Len(h.win) \in Nat /\ DOMAIN h.win = 1 .. Len(h.win) /\ h.wid = Len(h.win) + 1
         /\ h.wid \in Nat /\ h.wid \notin Range(h.windows) /\ h.wid > Background
         /\ Range(h.windows) \subseteq 1 .. Len(h.win)
         /\ Range(h.windows) = Range(h.mid_zs)
         /\ IsInjective(h.windows) /\ IsInjective(h.mid_zs)
         /\ Background \in Range(h.windows)
<1>1. Len(h.win) \in Nat /\ DOMAIN h.win = 1 .. Len(h.win)
  BY WindowFields
<1>2. Range(h.windows) \subseteq 1 .. Len(h.win) /\ h.wid = Len(h.win) + 1
  BY <1>1 DEF Listed
<1>3. h.wid \notin Range(h.windows)
  BY <1>1, <1>2
<1>4. Background \in 1 .. Len(h.win)
  BY <1>2 DEF Listed
<1> QED BY <1>1, <1>2, <1>3, <1>4 DEF Listed, Background

LEMMA CreateKeepsOrder ==
  ASSUME NEW h, Ordered(h), NEW n \in GlobalsType, NEW v \in Window, v.owner \in Client,
         Created(h, n, v), n.bottom_z = h.wid
  PROVE  Ordered(n) /\ KeepsBut(h, n, {}) /\ ChangesOnly(h, n, {})
<1> DEFINE w == h.wid
           N == Len(h.win)
<1>1. /\ N \in Nat /\ DOMAIN h.win = 1 .. N /\ w = N + 1 /\ w \in Nat
      /\ w \notin Range(h.windows) /\ w > Background /\ Range(h.windows) \subseteq 1 .. N
      /\ Range(h.windows) = Range(h.mid_zs)
      /\ IsInjective(h.windows) /\ IsInjective(h.mid_zs) /\ Background \in Range(h.windows)
  BY ListedFields DEF Ordered
<1>2. /\ h.windows \in Seq(Nat) /\ h.mid_zs \in Seq(Nat) /\ h.win \in Seq(Window)
      /\ h.map \in [0 .. MapSize - 1 -> Seq(Nat)]
  BY WindowFields DEF Ordered
<1> HIDE DEF w, N
<1>3. /\ n.windows = Append(h.windows, w) /\ n.mid_zs = Append(h.mid_zs, w)
      /\ n.win = Append(h.win, v) /\ n.wid = w + 1 /\ n.map = hashmap_set(h.map, w)
      /\ n.top_z = h.top_z /\ n.focused = h.focused /\ n.bottom_z = w
  BY DEF Created, w
<1>4. Range(n.windows) = Range(h.windows) \cup {w} /\ IsInjective(n.windows)
  <2>1. Range(Append(h.windows, w)) = Range(h.windows) \cup {w} /\ IsInjective(Append(h.windows, w))
    BY <1>1, <1>2, AppendRange
  <2> QED BY <1>3, <2>1, Zenon
<1>5. Range(n.mid_zs) = Range(h.mid_zs) \cup {w} /\ IsInjective(n.mid_zs)
  <2>1. Range(Append(h.mid_zs, w)) = Range(h.mid_zs) \cup {w} /\ IsInjective(Append(h.mid_zs, w))
    BY <1>1, <1>2, AppendRange
  <2> QED BY <1>3, <2>1, Zenon
<1>6. /\ DOMAIN n.win = 1 .. N + 1 /\ Len(n.win) = N + 1
      /\ n.win[w] = v /\ \A i \in 1 .. N : n.win[i] = h.win[i]
  BY <1>1, <1>2, <1>3, AppendFields DEF N
<1>7. Listed(n)
  <2>1. n.wid = Len(n.win) + 1
    BY <1>1, <1>3, <1>6
  <2>2. Range(n.windows) \subseteq DOMAIN n.win
    BY <1>1, <1>4, <1>6
  <2>3. n.win[Background] = [y |-> 0, height |-> Height, owner |-> Everybody]
    BY <1>1, <1>6 DEF Ordered, Listed
  <2>4. ASSUME NEW i \in DOMAIN n.win
        PROVE  IF i \in Range(n.windows) THEN i = Background \/ n.win[i].owner \in Client
               ELSE n.win[i] = NoWindow
    <3>1. CASE i = w
      BY <1>4, <1>6, <3>1
    <3>2. CASE i # w
      <4>1. i \in 1 .. N
        BY <1>1, <1>6, <3>2
      <4>2. n.win[i] = h.win[i] /\ (i \in Range(n.windows) <=> i \in Range(h.windows))
        BY <1>4, <1>6, <3>2, <4>1
      <4>3. IF i \in Range(h.windows) THEN i = Background \/ h.win[i].owner \in Client
               ELSE h.win[i] = NoWindow
        BY <1>1, <4>1 DEF Ordered, Listed
      <4> QED BY <4>2, <4>3
    <3> QED BY <3>1, <3>2
  <2> QED BY <1>1, <1>4, <1>5, <2>1, <2>2, <2>3, <2>4 DEF Listed
<1>8. Mapped(n)
  <2> SUFFICES ASSUME NEW i \in DOMAIN n.map
               PROVE  /\ IsInjective(n.map[i])
                      /\ Range(n.map[i]) = {x \in Range(n.windows) : hash_function(x) = i}
    BY DEF Mapped
  <2>1. i \in 0 .. MapSize - 1 /\ i \in DOMAIN h.map /\ h.map[i] \in Seq(Nat)
    BY <1>2, WindowFields
  <2>2. IsInjective(h.map[i]) /\ Range(h.map[i]) = {x \in Range(h.windows) : hash_function(x) = i}
    BY <2>1 DEF Ordered, Mapped
  <2>3. CASE i = hash_function(w)
    <3>1. n.map[i] = Append(h.map[i], w)
      BY <1>2, <1>3, <2>1, <2>3 DEF hashmap_set
    <3>2. w \notin Range(h.map[i])
      BY <1>1, <2>2
    <3>3. Range(n.map[i]) = Range(h.map[i]) \cup {w} /\ IsInjective(n.map[i])
      <4>1. Range(Append(h.map[i], w)) = Range(h.map[i]) \cup {w} /\ IsInjective(Append(h.map[i], w))
        BY <1>1, <2>1, <2>2, <3>2, AppendRange
      <4> QED BY <3>1, <4>1, Zenon
    <3> QED BY <1>4, <2>2, <2>3, <3>3
  <2>4. CASE i # hash_function(w)
    <3>1. n.map[i] = h.map[i]
      BY <1>2, <1>3, <2>1, <2>4 DEF hashmap_set
    <3> QED BY <1>4, <2>2, <2>4, <3>1
  <2> QED BY <2>3, <2>4
<1>9. Stacked(n)
  <2>1. w \in DOMAIN n.win
    BY <1>1, <1>6
  <2>2. h.top_z \in DOMAIN h.win \cup {0}
    BY DEF Ordered, Stacked
  <2>3. h.top_z \in DOMAIN n.win \cup {0}
    BY <1>1, <1>6, <2>2
  <2>4. h.top_z # w
    BY <1>1, <2>2
  <2> QED BY <1>3, <1>4, <2>1, <2>3, <2>4 DEF Ordered, Stacked
<1>10. KeepsBut(h, n, {}) /\ ChangesOnly(h, n, {})
  BY <1>1, <1>4, <1>6 DEF KeepsBut, ChangesOnly
<1> QED BY <1>7, <1>8, <1>9, <1>10 DEF Ordered

LEMMA CloseKeepsOrder ==
  ASSUME NEW h, Ordered(h), NEW w \in Range(h.windows), w # Background,
         NEW n \in GlobalsType, Closed(h, n, w)
  PROVE  Ordered(n) /\ KeepsBut(h, n, {w}) /\ ChangesOnly(h, n, {w})
<1> DEFINE N == Len(h.win)
<1>1. /\ N \in Nat /\ DOMAIN h.win = 1 .. N /\ h.wid = N + 1
      /\ Range(h.windows) \subseteq 1 .. N /\ Range(h.windows) = Range(h.mid_zs)
      /\ IsInjective(h.windows) /\ IsInjective(h.mid_zs) /\ Background \in Range(h.windows)
  BY ListedFields DEF Ordered
<1>2. /\ h.windows \in Seq(Nat) /\ h.mid_zs \in Seq(Nat) /\ h.win \in Seq(Window)
      /\ h.map \in [0 .. MapSize - 1 -> Seq(Nat)] /\ w \in 1 .. N /\ w \in Nat /\ w # 0
  BY <1>1, WindowFields, OpenNumber DEF Ordered
<1> HIDE DEF N
<1>3. /\ n.windows = RemoveFirst(h.windows, w) /\ n.mid_zs = RemoveFirst(h.mid_zs, w)
      /\ n.win = [h.win EXCEPT ![w] = NoWindow] /\ n.wid = h.wid
      /\ n.map = hashmap_remove(h.map, w)
      /\ n.top_z = h.top_z /\ n.bottom_z = h.bottom_z
      /\ n.focused = IF h.focused = w THEN 0 ELSE h.focused
  BY DEF Closed
<1>4. Range(n.windows) = Range(h.windows) \ {w} /\ IsInjective(n.windows)
  BY <1>1, <1>2, <1>3, RemoveRange
<1>5. Range(n.mid_zs) = Range(h.mid_zs) \ {w} /\ IsInjective(n.mid_zs)
  BY <1>1, <1>2, <1>3, RemoveRange
<1>6. /\ DOMAIN n.win = 1 .. N /\ Len(n.win) = N
      /\ n.win[w] = NoWindow /\ \A i \in 1 .. N : i # w => n.win[i] = h.win[i]
  <2>1. DOMAIN n.win = 1 .. N
    BY <1>1, <1>2, <1>3
  <2>2. Len(n.win) = N
    BY <1>1, <2>1, WindowFields
  <2> QED BY <1>1, <1>2, <1>3, <2>1, <2>2
<1>7. Listed(n)
  <2>1. n.win[Background] = [y |-> 0, height |-> Height, owner |-> Everybody]
    BY <1>1, <1>6 DEF Ordered, Listed
  <2>2. ASSUME NEW i \in DOMAIN n.win
        PROVE  IF i \in Range(n.windows) THEN i = Background \/ n.win[i].owner \in Client
               ELSE n.win[i] = NoWindow
    <3>1. CASE i = w
      BY <1>4, <1>6, <3>1
    <3>2. CASE i # w
      <4>1. i \in DOMAIN h.win /\ n.win[i] = h.win[i]
        BY <1>1, <1>6, <3>2
      <4>2. IF i \in Range(h.windows) THEN i = Background \/ h.win[i].owner \in Client
               ELSE h.win[i] = NoWindow
        BY <4>1 DEF Ordered, Listed
      <4> QED BY <1>4, <3>2, <4>1, <4>2
    <3> QED BY <3>1, <3>2
  <2>3. n.wid = Len(n.win) + 1
    BY <1>1, <1>3, <1>6
  <2> QED BY <1>1, <1>4, <1>5, <1>6, <2>1, <2>2, <2>3 DEF Listed
<1>8. Mapped(n)
  <2> SUFFICES ASSUME NEW i \in DOMAIN n.map
               PROVE  /\ IsInjective(n.map[i])
                      /\ Range(n.map[i]) = {x \in Range(n.windows) : hash_function(x) = i}
    BY DEF Mapped
  <2>1. i \in 0 .. MapSize - 1 /\ i \in DOMAIN h.map /\ h.map[i] \in Seq(Nat)
    BY <1>2, WindowFields
  <2>2. IsInjective(h.map[i]) /\ Range(h.map[i]) = {x \in Range(h.windows) : hash_function(x) = i}
    BY <2>1 DEF Ordered, Mapped
  <2>3. CASE i = hash_function(w)
    <3>1. n.map[i] = RemoveFirst(h.map[i], w)
      BY <1>2, <1>3, <2>1, <2>3 DEF hashmap_remove
    <3>2. w \in Range(h.map[i])
      BY <1>1, <2>2, <2>3
    <3>3. Range(n.map[i]) = Range(h.map[i]) \ {w} /\ IsInjective(n.map[i])
      BY <2>1, <2>2, <3>1, <3>2, RemoveRange
    <3> QED BY <1>4, <2>2, <2>3, <3>3
  <2>4. CASE i # hash_function(w)
    <3>1. n.map[i] = h.map[i]
      BY <1>2, <1>3, <2>1, <2>4 DEF hashmap_remove
    <3> QED BY <1>4, <2>2, <2>4, <3>1
  <2> QED BY <2>3, <2>4
<1>9. Stacked(n)
  <2>1. {h.bottom_z, h.top_z} \subseteq 1 .. N \cup {0}
    BY <1>1 DEF Ordered, Stacked
  <2>2. IF n.focused = 0 THEN n.top_z = 0 \/ n.top_z \notin Range(n.windows)
        ELSE n.top_z = n.focused /\ n.focused \in Range(n.windows)
    BY <1>2, <1>3, <1>4 DEF Ordered, Stacked
  <2> QED BY <1>3, <1>6, <2>1, <2>2 DEF Stacked
<1>10. KeepsBut(h, n, {w}) /\ ChangesOnly(h, n, {w})
  BY <1>1, <1>4, <1>6 DEF KeepsBut, ChangesOnly
<1> QED BY <1>7, <1>8, <1>9, <1>10 DEF Ordered

LEMMA MoveKeepsOrder ==
  ASSUME NEW h, Ordered(h), NEW w \in Range(h.windows), w # Background,
         NEW n \in GlobalsType, NEW y \in Int, Moved(h, n, w, y)
  PROVE  Ordered(n) /\ KeepsBut(h, n, {}) /\ ChangesOnly(h, n, {w})
<1>1. /\ n.wid = h.wid /\ n.windows = h.windows /\ n.mid_zs = h.mid_zs /\ n.map = h.map
      /\ n.win = [h.win EXCEPT ![w].y = y] /\ n.bottom_z = h.bottom_z /\ n.top_z = h.top_z
      /\ n.focused = h.focused
  BY DEF Moved
<1>2. /\ Len(h.win) \in Nat /\ DOMAIN h.win = 1 .. Len(h.win)
      /\ Range(h.windows) \subseteq 1 .. Len(h.win) /\ Background \in Range(h.windows)
  BY ListedFields DEF Ordered
<1>3. DOMAIN n.win = DOMAIN h.win /\ Len(n.win) = Len(h.win)
  <2>1. DOMAIN n.win = DOMAIN h.win
    BY <1>1
  <2> QED BY <1>2, <2>1, WindowFields
<1>4. \A i \in DOMAIN h.win : i # w => n.win[i] = h.win[i]
  BY <1>1
<1>5. n.win[w].owner = h.win[w].owner
  <2>1. h.win[w] \in Window /\ w \in DOMAIN h.win
    BY OpenNumber DEF Ordered
  <2>2. n.win[w] = [h.win[w] EXCEPT !.y = y]
    BY <1>1, <2>1
  <2> QED BY <2>1, <2>2 DEF Window
<1>6. Listed(n)
  <2>1. ASSUME NEW i \in DOMAIN n.win
        PROVE  IF i \in Range(n.windows) THEN i = Background \/ n.win[i].owner \in Client
               ELSE n.win[i] = NoWindow
    <3>1. IF i \in Range(h.windows) THEN i = Background \/ h.win[i].owner \in Client
          ELSE h.win[i] = NoWindow
      BY <1>3 DEF Ordered, Listed
    <3> QED BY <1>1, <1>3, <1>4, <1>5, <3>1
  <2>2. n.win[Background] = h.win[Background]
    BY <1>2, <1>4
  <2> QED BY <1>1, <1>3, <2>1, <2>2 DEF Ordered, Listed
<1>7. Mapped(n) /\ Stacked(n)
  BY <1>1, <1>3 DEF Ordered, Mapped, Stacked
<1>8. KeepsBut(h, n, {}) /\ ChangesOnly(h, n, {w})
  BY <1>1, <1>2, <1>4, <1>5 DEF KeepsBut, ChangesOnly
<1> QED BY <1>6, <1>7, <1>8 DEF Ordered

LEMMA RaiseKeepsOrder ==
  ASSUME NEW h, Ordered(h), NEW w \in Range(h.windows),
         NEW n \in GlobalsType, Raised(h, n, w)
  PROVE  Ordered(n) /\ KeepsBut(h, n, {}) /\ ChangesOnly(h, n, {})
<1> DEFINE r == RemoveFirst(h.mid_zs, w)
<1>1. /\ n.wid = h.wid /\ n.windows = h.windows /\ n.mid_zs = Append(r, w) /\ n.map = h.map
      /\ n.win = h.win /\ n.bottom_z = h.bottom_z /\ n.top_z = w /\ n.focused = w
  BY DEF Raised
<1>2. /\ h.mid_zs \in Seq(Nat) /\ IsInjective(h.mid_zs) /\ w \in Range(h.mid_zs)
      /\ w \in Nat /\ w # 0 /\ w \in DOMAIN h.win /\ Range(h.windows) = Range(h.mid_zs)
  BY WindowFields, OpenNumber, ListedFields DEF Ordered
<1>3. r \in Seq(Nat) /\ IsInjective(r) /\ Range(r) = Range(h.mid_zs) \ {w}
  BY <1>2, RemoveRange
<1> HIDE DEF r
<1>4. Range(Append(r, w)) = Range(r) \cup {w} /\ IsInjective(Append(r, w))
  BY <1>2, <1>3, AppendRange
<1>5. IsInjective(n.mid_zs) /\ Range(n.mid_zs) = Range(h.windows)
  <2>1. Range(Append(r, w)) = Range(h.windows)
    BY <1>2, <1>3, <1>4
  <2> QED BY <1>1, <1>4, <2>1, Zenon
<1>6. Listed(n)
  BY <1>1, <1>5 DEF Ordered, Listed
<1>7. Mapped(n) /\ Stacked(n)
  BY <1>1, <1>2 DEF Ordered, Mapped, Stacked
<1>8. KeepsBut(h, n, {}) /\ ChangesOnly(h, n, {})
  BY <1>1 DEF KeepsBut, ChangesOnly
<1> QED BY <1>6, <1>7, <1>8 DEF Ordered

LEMMA SameKeepsOrder ==
  ASSUME NEW h, Ordered(h), NEW n \in GlobalsType,
         n.wid = h.wid, n.windows = h.windows, n.mid_zs = h.mid_zs, n.map = h.map,
         n.win = h.win, n.bottom_z = h.bottom_z, n.top_z = h.top_z, n.focused = h.focused
  PROVE  Ordered(n) /\ KeepsBut(h, n, {}) /\ ChangesOnly(h, n, {})
BY DEF Ordered, Listed, Mapped, Stacked, KeepsBut, ChangesOnly

-----------------------------------------------------------------------------
(* The order in which windows are drawn.                                   *)

\* x is the last member of C in a list of windows, or NULL if there is none.
LastIn(s, C, x) ==
  \/ x \in C /\ \E k \in DOMAIN s : x = s[k] /\ \A j \in DOMAIN s : j > k => s[j] \notin C
  \/ x = 0 /\ \A k \in DOMAIN s : s[k] \notin C

\* x is the last window of C that is drawn.
TopIs(h, C, x) ==
  IF h.top_z # 0 /\ h.top_z \in C THEN x = h.top_z ELSE LastIn(h.mid_zs, C, x)

\* A window that is drawn first is in mid_zs too, or has been closed.
BottomToo(h, C) == h.bottom_z # 0 /\ h.bottom_z \in C => h.bottom_z \in Range(h.mid_zs)

\* Three sequences in a row.
LEMMA ThreeInARow ==
  ASSUME NEW B \in Seq(Nat), NEW M \in Seq(Nat), NEW T \in Seq(Nat)
  PROVE  LET r == (B \o M) \o T IN
         /\ r \in Seq(Nat) /\ Len(r) = Len(B) + Len(M) + Len(T)
         /\ \A i \in 1 .. Len(B) : r[i] = B[i]
         /\ \A i \in 1 .. Len(M) : r[Len(B) + i] = M[i]
         /\ \A i \in 1 .. Len(T) : r[Len(B) + Len(M) + i] = T[i]
<1> DEFINE q == B \o M
           r == q \o T
           b == Len(B)
           m == Len(M)
           t == Len(T)
<1>1. b \in Nat /\ m \in Nat /\ t \in Nat
  OBVIOUS
<1>2. /\ q \in Seq(Nat) /\ Len(q) = b + m
      /\ \A i \in 1 .. b + m : q[i] = IF i <= b THEN B[i] ELSE M[i - b]
  BY ConcatFields
<1>q. q \in Seq(Nat)
  BY <1>2
<1> HIDE DEF q
<1>3. /\ r \in Seq(Nat) /\ Len(r) = Len(q) + t
      /\ \A i \in 1 .. Len(q) + t : r[i] = IF i <= Len(q) THEN q[i] ELSE T[i - Len(q)]
  BY <1>q, ConcatFields
<1> HIDE DEF r, b, m, t
<1>4. /\ Len(r) = b + m + t
      /\ \A i \in 1 .. b + m + t : r[i] = IF i <= b + m THEN q[i] ELSE T[i - (b + m)]
  BY <1>2, <1>3
<1>5. ASSUME NEW i \in 1 .. b PROVE r[i] = B[i]
  BY <1>1, <1>2, <1>4
<1>6. ASSUME NEW i \in 1 .. m PROVE r[b + i] = M[i]
  <2>1. b + i \in 1 .. b + m + t /\ b + i <= b + m /\ b + i \in 1 .. b + m /\ ~(b + i <= b)
        /\ (b + i) - b = i
    BY <1>1
  <2>2. r[b + i] = q[b + i] /\ q[b + i] = M[(b + i) - b]
    BY <1>2, <1>4, <2>1
  <2> QED BY <2>1, <2>2
<1>7. ASSUME NEW i \in 1 .. t PROVE r[b + m + i] = T[i]
  <2>1. b + m + i \in 1 .. b + m + t /\ ~(b + m + i <= b + m) /\ (b + m + i) - (b + m) = i
    BY <1>1
  <2>2. r[b + m + i] = T[(b + m + i) - (b + m)]
    BY <1>4, <2>1
  <2> QED BY <2>1, <2>2
<1> QED BY <1>3, <1>4, <1>5, <1>6, <1>7 DEF r, q, b, m, t

\* The place of mid_zs in the order.
Below(h) == IF h.bottom_z = 0 THEN 0 ELSE 1
AtTop(h) == IF h.top_z = 0 THEN 0 ELSE 1

LEMMA OrderFields ==
  ASSUME NEW h \in GlobalsType
  PROVE  LET order == poudland_blit_windows(h)
             m == Len(h.mid_zs)
         IN  /\ order \in Seq(Nat) /\ m \in Nat
             /\ Len(order) = Below(h) + m + AtTop(h)
             /\ Below(h) \in {0, 1} /\ (Below(h) = 1 <=> h.bottom_z # 0)
             /\ AtTop(h) \in {0, 1} /\ (AtTop(h) = 1 <=> h.top_z # 0)
             /\ Below(h) = 1 => order[1] = h.bottom_z
             /\ \A i \in 1 .. m : order[Below(h) + i] = h.mid_zs[i]
             /\ AtTop(h) = 1 => order[Below(h) + m + 1] = h.top_z
<1> DEFINE B == IF h.bottom_z = 0 THEN <<>> ELSE <<h.bottom_z>>
           T == IF h.top_z = 0 THEN <<>> ELSE <<h.top_z>>
           M == h.mid_zs
           b == Below(h)
           t == AtTop(h)
           order == poudland_blit_windows(h)
<1>1. M \in Seq(Nat) /\ Len(M) \in Nat /\ h.bottom_z \in Nat /\ h.top_z \in Nat
  BY WindowFields
<1>2. /\ B \in Seq(Nat) /\ Len(B) = b /\ (b = 1 => B[1] = h.bottom_z) /\ b \in {0, 1}
      /\ (b = 1 <=> h.bottom_z # 0)
  BY <1>1 DEF Below
<1>3. /\ T \in Seq(Nat) /\ Len(T) = t /\ (t = 1 => T[1] = h.top_z) /\ t \in {0, 1}
      /\ (t = 1 <=> h.top_z # 0)
  BY <1>1 DEF AtTop
<1>4. order = (B \o M) \o T
  BY DEF poudland_blit_windows
<1> HIDE DEF B, T, M, b, t, order
<1>5. /\ order \in Seq(Nat) /\ Len(order) = Len(B) + Len(M) + Len(T)
      /\ \A i \in 1 .. Len(B) : order[i] = B[i]
      /\ \A i \in 1 .. Len(M) : order[Len(B) + i] = M[i]
      /\ \A i \in 1 .. Len(T) : order[Len(B) + Len(M) + i] = T[i]
  <2>1. LET r == (B \o M) \o T IN
        /\ r \in Seq(Nat) /\ Len(r) = Len(B) + Len(M) + Len(T)
        /\ \A i \in 1 .. Len(B) : r[i] = B[i]
        /\ \A i \in 1 .. Len(M) : r[Len(B) + i] = M[i]
        /\ \A i \in 1 .. Len(T) : r[Len(B) + Len(M) + i] = T[i]
    BY <1>1, <1>2, <1>3, ThreeInARow
  <2> QED BY <1>4, <2>1, Zenon
<1>6. b = 1 => order[1] = h.bottom_z
  BY <1>2, <1>5
<1>7. t = 1 => order[b + Len(M) + 1] = h.top_z
  BY <1>2, <1>3, <1>5
<1>8. \A i \in 1 .. Len(M) : order[b + i] = M[i]
  BY <1>2, <1>5
<1> QED BY <1>1, <1>2, <1>3, <1>5, <1>6, <1>7, <1>8 DEF M, b, t, order

LEMMA LastDrawn ==
  ASSUME NEW h \in GlobalsType, NEW C, NEW order, order = poudland_blit_windows(h),
         BottomToo(h, C), NEW I, I = {i \in 1 .. Len(order) : order[i] \in C},
         NEW x, x = IF I # {} THEN order[Max(I)] ELSE 0
  PROVE  TopIs(h, C, x)
<1> DEFINE b == Below(h)
           t == AtTop(h)
           M == Len(h.mid_zs)
<1>1. /\ order \in Seq(Nat) /\ M \in Nat /\ b \in {0, 1} /\ t \in {0, 1}
      /\ Len(order) = b + M + t /\ (b = 1 => order[1] = h.bottom_z)
      /\ \A i \in 1 .. M : order[b + i] = h.mid_zs[i]
      /\ (t = 1 => order[b + M + 1] = h.top_z)
      /\ (t = 1 <=> h.top_z # 0) /\ (b = 1 <=> h.bottom_z # 0)
  BY OrderFields
<1>2. DOMAIN h.mid_zs = 1 .. M
  BY WindowFields
<1> HIDE DEF b, t, M
<1>3. Len(order) \in Nat /\ I \in SUBSET (1 .. Len(order))
  BY <1>1
<1> DEFINE max == Max(I)
<1>4. I # {} => max \in I /\ \A i \in I : i <= max
  BY <1>3, MaxIsGreatest
<1>m. x = IF I # {} THEN order[max] ELSE 0
  OBVIOUS
<1> HIDE DEF max
<1>5. \A i \in 1 .. b + M + t : order[i] \in C <=> i \in I
  BY <1>1
<1>6. CASE h.top_z # 0 /\ h.top_z \in C
  <2>1. b + M + 1 \in I
    BY <1>1, <1>5, <1>6
  <2>2. b + M + 1 <= max /\ max \in 1 .. b + M + 1
    BY <1>1, <1>3, <1>4, <1>6, <2>1
  <2>3. max = b + M + 1
    BY <1>1, <2>2
  <2> QED BY <1>1, <1>m, <1>6, <2>1, <2>3 DEF TopIs
<1>7. CASE ~(h.top_z # 0 /\ h.top_z \in C)
  <2>1. \A i \in I : i \in 1 .. b + M
    BY <1>1, <1>3, <1>5, <1>7
  <2>2. CASE \E k \in 1 .. M : h.mid_zs[k] \in C
    <3>1. PICK k \in 1 .. M : h.mid_zs[k] \in C
      BY <2>2
    <3>2. b + k \in I
      BY <1>1, <3>1
    <3>3. max \in I /\ max >= b + k /\ max \in 1 .. b + M /\ x = order[max]
      BY <1>4, <1>m, <2>1, <3>2
    <3> DEFINE m == max - b
    <3>4. m \in 1 .. M /\ b + m = max
      BY <1>1, <3>1, <3>3
    <3> HIDE DEF m
    <3>5. x = h.mid_zs[m] /\ x \in C
      <4>1. order[b + m] = h.mid_zs[m]
        BY <1>1, <3>4
      <4> QED BY <3>3, <3>4, <4>1
    <3>6. ASSUME NEW j \in 1 .. M, j > m PROVE h.mid_zs[j] \notin C
      <4> SUFFICES ASSUME h.mid_zs[j] \in C PROVE FALSE
        OBVIOUS
      <4>1. b + j \in I
        BY <1>1
      <4>2. b + j <= max
        BY <1>4, <4>1
      <4> QED BY <1>1, <3>4, <3>6, <4>2
    <3> QED BY <1>2, <1>7, <3>4, <3>5, <3>6 DEF TopIs, LastIn
  <2>3. CASE \A k \in 1 .. M : h.mid_zs[k] \notin C
    <3>1. I = {}
      <4> SUFFICES ASSUME NEW i \in I PROVE FALSE
        OBVIOUS
      <4>1. i \in 1 .. b + M /\ order[i] \in C
        BY <2>1
      <4>2. CASE i <= b
        <5>1. i = 1 /\ b = 1
          BY <1>1, <4>1, <4>2
        <5>2. h.bottom_z # 0 /\ h.bottom_z \in C
          BY <1>1, <1>5, <4>1, <5>1
        <5>3. h.bottom_z \in Range(h.mid_zs)
          BY <5>2 DEF BottomToo
        <5>4. PICK k \in DOMAIN h.mid_zs : h.mid_zs[k] = h.bottom_z
          BY <5>3, InRange
        <5> QED BY <1>2, <2>3, <5>2, <5>4
      <4>3. CASE ~(i <= b)
        <5>1. i - b \in 1 .. M /\ b + (i - b) = i
          BY <1>1, <4>1, <4>3
        <5>2. order[b + (i - b)] = h.mid_zs[i - b]
          BY <1>1, <5>1
        <5> QED BY <2>3, <4>1, <5>1, <5>2
      <4> QED BY <4>2, <4>3
    <3> QED BY <1>2, <1>m, <1>7, <2>3, <3>1 DEF TopIs, LastIn
  <2> QED BY <2>2, <2>3
<1> QED BY <1>6, <1>7

LEMMA LastUnique ==
  ASSUME NEW s \in Seq(Nat), NEW C, NEW x, NEW y, LastIn(s, C, x), LastIn(s, C, y)
  PROVE  x = y
<1>1. DOMAIN s = 1 .. Len(s) /\ Len(s) \in Nat
  OBVIOUS
<1>2. \A i, j \in DOMAIN s : i > j \/ j > i \/ i = j
  BY <1>1
<1> QED BY <1>2 DEF LastIn

LEMMA TopUnique ==
  ASSUME NEW h \in GlobalsType, NEW C, NEW x, NEW y, TopIs(h, C, x), TopIs(h, C, y)
  PROVE  x = y
BY WindowFields, LastUnique DEF TopIs

-----------------------------------------------------------------------------
(* What is not marked is on the screen.                                    *)

\* The windows that have row r.
Cover(h, r) == {w \in Nat : r \in RowsOf(h, w)}

LEMMA ClosedHasNoRows ==
  ASSUME NEW h \in GlobalsType, Listed(h), NEW w \in DOMAIN h.win, w \notin Range(h.windows)
  PROVE  RowsOf(h, w) = {}
<1>1. h.win[w] = NoWindow
  BY DEF Listed
<1>2. h.win[w].y = 0 /\ h.win[w].height = 0
  BY <1>1 DEF NoWindow
<1> QED BY <1>2 DEF RowsOf, Rows

LEMMA BottomCovered ==
  ASSUME NEW h, Ordered(h), NEW r
  PROVE  BottomToo(h, Cover(h, r))
<1> SUFFICES ASSUME h.bottom_z # 0, h.bottom_z \in Cover(h, r)
             PROVE  h.bottom_z \in Range(h.mid_zs)
  BY DEF BottomToo
<1>1. h.bottom_z \in DOMAIN h.win /\ r \in RowsOf(h, h.bottom_z)
  BY DEF Ordered, Stacked, Cover
<1>2. h.bottom_z \in Range(h.windows)
  BY <1>1, ClosedHasNoRows DEF Ordered
<1> QED BY <1>2 DEF Ordered, Listed

LEMMA ShownIs ==
  ASSUME NEW h, Ordered(h), NEW r
  PROVE  TopIs(h, Cover(h, r), Shown(h, r))
<1> DEFINE order == poudland_blit_windows(h)
           C == Cover(h, r)
           I == {i \in 1 .. Len(order) : order[i] \in C}
           J == {i \in 1 .. Len(order) : r \in RowsOf(h, order[i])}
           x == IF I # {} THEN order[Max(I)] ELSE 0
<1>1. h \in GlobalsType
  BY DEF Ordered
<1>2. order \in Seq(Nat) /\ Len(order) \in Nat
  BY <1>1, OrderFields
<1> HIDE DEF order
<1>3. \A i \in 1 .. Len(order) : order[i] \in Nat
  BY <1>2
<1>4. I = J
  BY <1>3 DEF Cover
<1>5. Shown(h, r) = IF (IF J # {} THEN Max(J) ELSE 0) = 0 THEN 0
                    ELSE order[IF J # {} THEN Max(J) ELSE 0]
  BY DEF Shown, SelectLastInSeq, order
<1>6. J # {} => Max(J) # 0
  <2>1. J \in SUBSET (1 .. Len(order))
    OBVIOUS
  <2>2. J # {} => Max(J) \in J
    BY <1>2, <2>1, MaxIsGreatest
  <2>3. 0 \notin J
    OBVIOUS
  <2> QED BY <2>2, <2>3
<1>7. Shown(h, r) = x
  BY <1>4, <1>5, <1>6
<1>8. BottomToo(h, C)
  BY BottomCovered
<1> HIDE DEF I, J, C, x
<1>9. TopIs(h, C, x)
  BY <1>1, <1>8, LastDrawn DEF I, x, order
<1> QED BY <1>7, <1>9 DEF C

LEMMA ShownSame ==
  ASSUME NEW h, Ordered(h), NEW n, Ordered(n), NEW r,
         TopIs(n, Cover(n, r), Shown(h, r))
  PROVE  Shown(n, r) = Shown(h, r)
<1>1. TopIs(n, Cover(n, r), Shown(n, r)) /\ n \in GlobalsType
  BY ShownIs DEF Ordered
<1> QED BY <1>1, TopUnique

\* A row that window w does not cover, now or then, shows the same if the other
\* windows stay, and the order of the stack does.
LEMMA PaintedFrom ==
  ASSUME NEW h, Ordered(h), NEW n, Ordered(n), NEW scr, Painted(h, scr),
         n.last_mouse = h.last_mouse, h.damage \subseteq n.damage,
         \A r \in Row \ n.damage : TopIs(n, Cover(n, r), Shown(h, r))
  PROVE  Painted(n, scr)
<1> SUFFICES ASSUME NEW r \in Row \ n.damage
             PROVE  scr[r] = [win |-> Shown(n, r), mouse |-> r \in Rows(n.last_mouse, MouseHeight)]
  BY DEF Painted
<1>1. Shown(n, r) = Shown(h, r)
  BY ShownSame
<1>2. scr[r] = [win |-> Shown(h, r), mouse |-> r \in Rows(h.last_mouse, MouseHeight)]
  BY DEF Painted
<1> QED BY <1>1, <1>2

LEMMA PaintedSame ==
  ASSUME NEW h, NEW n, NEW scr, Painted(h, scr), SameWindows(h, n)
  PROVE  Painted(n, scr)
<1>1. \A r, w : RowsOf(n, w) = RowsOf(h, w)
  BY DEF SameWindows, RowsOf
<1>2. \A r : Shown(n, r) = Shown(h, r)
  BY DEF SameWindows, RowsOf, Shown, poudland_blit_windows
<1> QED BY <1>2 DEF Painted, SameWindows

\* A window that is not in C is added at the end, or taken away.
LEMMA LastAppend ==
  ASSUME NEW s \in Seq(Nat), NEW w \in Nat, NEW C, NEW D, w \notin D,
         \A v \in Range(s) : v \in C <=> v \in D, NEW x, LastIn(s, C, x)
  PROVE  LastIn(Append(s, w), D, x)
<1> DEFINE r == Append(s, w)
<1>0. r = Append(s, w)
  OBVIOUS
<1> HIDE DEF r
<1>1. /\ Len(s) \in Nat /\ DOMAIN s = 1 .. Len(s) /\ DOMAIN r = 1 .. Len(s) + 1
      /\ r[Len(s) + 1] = w /\ \A i \in 1 .. Len(s) : r[i] = s[i]
  BY <1>0, AppendFields
<1>2. \A i \in DOMAIN s : s[i] \in C <=> s[i] \in D
  BY InRange
<1>3. \A i \in DOMAIN r : i = Len(s) + 1 \/ i \in DOMAIN s
  BY <1>1, OneMore
<1>4. LastIn(r, D, x)
  <2>1. CASE x \in C /\ \E k \in DOMAIN s : x = s[k] /\ \A j \in DOMAIN s : j > k => s[j] \notin C
    <3>1. PICK k \in DOMAIN s : x = s[k] /\ \A j \in DOMAIN s : j > k => s[j] \notin C
      BY <2>1
    <3>2. k \in DOMAIN r /\ x = r[k] /\ x \in D
      BY <1>1, <1>2, <2>1, <3>1
    <3>3. \A j \in DOMAIN r : j > k => r[j] \notin D
      BY <1>1, <1>2, <1>3, <3>1
    <3> QED BY <3>2, <3>3 DEF LastIn
  <2>2. CASE x = 0 /\ \A k \in DOMAIN s : s[k] \notin C
    <3>1. \A k \in DOMAIN r : r[k] \notin D
      BY <1>1, <1>2, <1>3, <2>2
    <3> QED BY <2>2, <3>1 DEF LastIn
  <2> QED BY <2>1, <2>2 DEF LastIn
<1> QED BY <1>0, <1>4, Zenon

LEMMA LastRemove ==
  ASSUME NEW s \in Seq(Nat), NEW w \in Range(s), NEW C, NEW D, w \notin C,
         \A v \in Range(s) \ {w} : v \in C <=> v \in D, NEW x, LastIn(s, C, x), IsInjective(s)
  PROVE  LastIn(RemoveFirst(s, w), D, x)
<1> DEFINE r == RemoveFirst(s, w)
<1>1. \E i \in DOMAIN s : s[i] = w
  BY InRange
<1>2. r \in Seq(Nat) /\ \E p \in 1 .. Len(s) : s[p] = w /\ WithoutAt(s, p, r)
  BY <1>1, RemovedAt
<1> HIDE DEF r
<1>3. PICK p \in 1 .. Len(s) : s[p] = w /\ WithoutAt(s, p, r)
  BY <1>2
<1>4. /\ Len(s) \in Nat /\ DOMAIN s = 1 .. Len(s) /\ DOMAIN r = 1 .. Len(s) - 1
      /\ \A i \in 1 .. Len(s) - 1 : r[i] = IF i < p THEN s[i] ELSE s[i + 1]
  BY <1>2, <1>3 DEF WithoutAt
<1>5. \A i \in DOMAIN s : i # p => (s[i] \in C <=> s[i] \in D)
  <2> SUFFICES ASSUME NEW i \in DOMAIN s, i # p PROVE s[i] \in C <=> s[i] \in D
    OBVIOUS
  <2>1. s[i] \in Range(s) /\ s[i] # w
    BY <1>3, <1>4, InRange DEF IsInjective
  <2> QED BY <2>1
<1>6. LastIn(r, D, x)
  <2>1. CASE x \in C /\ \E k \in DOMAIN s : x = s[k] /\ \A j \in DOMAIN s : j > k => s[j] \notin C
    <3>1. PICK k \in DOMAIN s : x = s[k] /\ \A j \in DOMAIN s : j > k => s[j] \notin C
      BY <2>1
    <3>2. k # p /\ x \in D
      BY <1>3, <1>5, <2>1, <3>1
    <3> DEFINE m == IF k < p THEN k ELSE k - 1
    <3>3. m \in DOMAIN r /\ x = r[m]
      BY <1>4, <3>1, <3>2
    <3>4. ASSUME NEW j \in DOMAIN r, j > m PROVE r[j] \notin D
      <4> DEFINE i == IF j < p THEN j ELSE j + 1
      <4>1. i \in DOMAIN s /\ i # p /\ i > k /\ r[j] = s[i]
        BY <1>4, <3>1, <3>2, <3>4
      <4> HIDE DEF i
      <4> QED BY <1>5, <3>1, <4>1
    <3> HIDE DEF m
    <3> QED BY <3>2, <3>3, <3>4 DEF LastIn
  <2>2. CASE x = 0 /\ \A k \in DOMAIN s : s[k] \notin C
    <3>1. ASSUME NEW j \in DOMAIN r PROVE r[j] \notin D
      <4> DEFINE i == IF j < p THEN j ELSE j + 1
      <4>1. i \in DOMAIN s /\ i # p /\ r[j] = s[i]
        BY <1>4
      <4> HIDE DEF i
      <4> QED BY <1>5, <2>2, <4>1
    <3> QED BY <2>2, <3>1 DEF LastIn
  <2> QED BY <2>1, <2>2 DEF LastIn
<1> QED BY <1>6 DEF r

LEMMA DrawnNumbers ==
  ASSUME NEW h, Ordered(h)
  PROVE  /\ h \in GlobalsType /\ h.mid_zs \in Seq(Nat) /\ Range(h.mid_zs) = Range(h.windows)
         /\ Range(h.mid_zs) \subseteq DOMAIN h.win /\ DOMAIN h.win \subseteq Nat \ {0}
         /\ h.top_z \in DOMAIN h.win \cup {0} /\ IsInjective(h.mid_zs)
<1>1. h \in GlobalsType
  BY DEF Ordered
<1>2. DOMAIN h.win = 1 .. Len(h.win) /\ h.mid_zs \in Seq(Nat)
  BY <1>1, WindowFields
<1> QED BY <1>1, <1>2 DEF Ordered, Listed, Stacked

\* Windows whose rows stay are covered alike.
LEMMA CoverSame ==
  ASSUME NEW h, NEW n, NEW v \in Nat, n.win[v] = h.win[v], NEW r
  PROVE  v \in Cover(n, r) <=> v \in Cover(h, r)
BY DEF Cover, RowsOf

LEMMA PaintedMove ==
  ASSUME NEW h, Ordered(h), NEW n, Ordered(n), NEW scr, Painted(h, scr),
         NEW w \in DOMAIN h.win, NEW y \in Int, Moved(h, n, w, y), SameMouse(h, n)
  PROVE  Painted(n, scr)
<1>1. /\ n.mid_zs = h.mid_zs /\ n.top_z = h.top_z /\ n.win = [h.win EXCEPT ![w].y = y]
      /\ n.damage = h.damage \cup RowsOf(h, w) \cup RowsOf(n, w) /\ n.last_mouse = h.last_mouse
  BY DEF Moved, SameMouse
<1>2. ASSUME NEW r \in Row \ n.damage PROVE TopIs(n, Cover(n, r), Shown(h, r))
  <2>1. TopIs(h, Cover(h, r), Shown(h, r))
    BY ShownIs
  <2>2. ASSUME NEW v \in DOMAIN h.win PROVE v \in Cover(n, r) <=> v \in Cover(h, r)
    <3>1. CASE v = w
      BY <1>1, <1>2, <3>1 DEF Cover
    <3>2. CASE v # w
      <4>1. n.win[v] = h.win[v] /\ v \in Nat
        BY <1>1, <3>2, DrawnNumbers
      <4> QED BY <4>1, CoverSame
    <3> QED BY <3>1, <3>2
  <2>3. \A k \in DOMAIN h.mid_zs : h.mid_zs[k] \in DOMAIN h.win
    BY DrawnNumbers, InRange
  <2>4. h.top_z # 0 => h.top_z \in DOMAIN h.win
    BY DrawnNumbers
  <2>5. h.top_z # 0 => (h.top_z \in Cover(n, r) <=> h.top_z \in Cover(h, r))
    BY <2>2, <2>4
  <2>6. \A k \in DOMAIN h.mid_zs : h.mid_zs[k] \in Cover(n, r) <=> h.mid_zs[k] \in Cover(h, r)
    BY <2>2, <2>3
  <2>7. ASSUME LastIn(h.mid_zs, Cover(h, r), Shown(h, r))
        PROVE  LastIn(n.mid_zs, Cover(n, r), Shown(h, r))
    BY <1>1, <2>6, <2>7 DEF LastIn
  <2> QED BY <1>1, <2>1, <2>5, <2>7 DEF TopIs
<1> QED BY <1>1, <1>2, PaintedFrom

LEMMA PaintedCreate ==
  ASSUME NEW h, Ordered(h), NEW n, Ordered(n), NEW scr, Painted(h, scr),
         NEW v \in Window, Created(h, n, v), SameMouse(h, n)
  PROVE  Painted(n, scr)
<1> DEFINE w == h.wid
<1>1. /\ n.mid_zs = Append(h.mid_zs, w) /\ n.top_z = h.top_z /\ n.win = Append(h.win, v)
      /\ n.damage = h.damage \cup Rows(v.y, v.height) /\ n.last_mouse = h.last_mouse
  BY DEF Created, SameMouse
<1>2. /\ Len(h.win) \in Nat /\ DOMAIN h.win = 1 .. Len(h.win) /\ w = Len(h.win) + 1
      /\ w \in Nat /\ h.win \in Seq(Window)
  BY ListedFields, WindowFields DEF Ordered
<1> HIDE DEF w
<1>3. n.win[w] = v /\ \A i \in DOMAIN h.win : n.win[i] = h.win[i]
  <2>1. Append(h.win, v)[w] = v /\ \A i \in DOMAIN h.win : Append(h.win, v)[i] = h.win[i]
    BY <1>2, AppendFields
  <2> QED BY <1>1, <2>1, Zenon
<1>4. ASSUME NEW r \in Row \ n.damage PROVE TopIs(n, Cover(n, r), Shown(h, r))
  <2>1. TopIs(h, Cover(h, r), Shown(h, r))
    BY ShownIs
  <2>2. w \notin Cover(n, r)
    BY <1>1, <1>3, <1>4 DEF Cover, RowsOf
  <2>3. ASSUME NEW u \in DOMAIN h.win PROVE u \in Cover(n, r) <=> u \in Cover(h, r)
    <3>1. n.win[u] = h.win[u] /\ u \in Nat
      BY <1>3, DrawnNumbers
    <3> QED BY <3>1, CoverSame
  <2>4. h.mid_zs \in Seq(Nat) /\ \A u \in Range(h.mid_zs) : u \in Cover(h, r) <=> u \in Cover(n, r)
    BY <2>3, DrawnNumbers
  <2>5. h.top_z # 0 => (h.top_z \in Cover(n, r) <=> h.top_z \in Cover(h, r))
    BY <2>3, DrawnNumbers
  <2>6. ASSUME LastIn(h.mid_zs, Cover(h, r), Shown(h, r))
        PROVE  LastIn(n.mid_zs, Cover(n, r), Shown(h, r))
    <3>1. LastIn(Append(h.mid_zs, w), Cover(n, r), Shown(h, r))
      BY <1>2, <2>2, <2>4, <2>6, LastAppend
    <3> QED BY <1>1, <3>1, Zenon
  <2> QED BY <1>1, <2>1, <2>5, <2>6 DEF TopIs
<1> QED BY <1>1, <1>4, PaintedFrom

LEMMA PaintedClose ==
  ASSUME NEW h, Ordered(h), NEW n, Ordered(n), NEW scr, Painted(h, scr),
         NEW w \in Range(h.windows), Closed(h, n, w), SameMouse(h, n)
  PROVE  Painted(n, scr)
<1>1. /\ n.mid_zs = RemoveFirst(h.mid_zs, w) /\ n.top_z = h.top_z
      /\ n.win = [h.win EXCEPT ![w] = NoWindow]
      /\ n.damage = h.damage \cup RowsOf(h, w) /\ n.last_mouse = h.last_mouse
  BY DEF Closed, SameMouse
<1>2. ASSUME NEW r \in Row \ n.damage PROVE TopIs(n, Cover(n, r), Shown(h, r))
  <2>1. TopIs(h, Cover(h, r), Shown(h, r))
    BY ShownIs
  <2>2. w \notin Cover(h, r) /\ w \in DOMAIN h.win
    BY <1>1, <1>2, DrawnNumbers DEF Cover
  <2>3. w \notin Cover(n, r)
    <3>1. n.win[w].y = 0 /\ n.win[w].height = 0
      BY <1>1, <2>2 DEF NoWindow
    <3> QED BY <3>1 DEF Cover, RowsOf, Rows
  <2>4. ASSUME NEW u \in DOMAIN h.win PROVE u \in Cover(n, r) <=> u \in Cover(h, r)
    <3>1. CASE u = w
      BY <2>2, <2>3, <3>1
    <3>2. CASE u # w
      <4>1. n.win[u] = h.win[u] /\ u \in Nat
        BY <1>1, <3>2, DrawnNumbers
      <4> QED BY <4>1, CoverSame
    <3> QED BY <3>1, <3>2
  <2>5. /\ h.mid_zs \in Seq(Nat) /\ w \in Range(h.mid_zs) /\ IsInjective(h.mid_zs)
        /\ \A u \in Range(h.mid_zs) \ {w} : u \in Cover(h, r) <=> u \in Cover(n, r)
    BY <2>4, DrawnNumbers
  <2>6. h.top_z # 0 => (h.top_z \in Cover(n, r) <=> h.top_z \in Cover(h, r))
    BY <2>4, DrawnNumbers
  <2>7. ASSUME LastIn(h.mid_zs, Cover(h, r), Shown(h, r))
        PROVE  LastIn(n.mid_zs, Cover(n, r), Shown(h, r))
    BY <1>1, <2>2, <2>5, <2>7, LastRemove
  <2> QED BY <1>1, <2>1, <2>6, <2>7 DEF TopIs
<1> QED BY <1>1, <1>2, PaintedFrom

\* A window is raised while the one on top is the last of mid_zs.
LEMMA PaintedRaise ==
  ASSUME NEW h, Ordered(h), NEW n, Ordered(n), NEW scr, Painted(h, scr),
         NEW w \in Range(h.windows), Raised(h, n, w), SameMouse(h, n),
         h.top_z \in {0, w, Last(h.mid_zs)}
  PROVE  Painted(n, scr)
<1> DEFINE s == RemoveFirst(h.mid_zs, w)
<1>1. /\ n.mid_zs = Append(s, w) /\ n.top_z = w /\ n.win = h.win
      /\ n.damage = h.damage \cup RowsOf(h, w) /\ n.last_mouse = h.last_mouse
  BY DEF Raised, SameMouse
<1>2. ASSUME NEW r \in Row \ n.damage PROVE TopIs(n, Cover(n, r), Shown(h, r))
  <2> DEFINE x == Shown(h, r)
             C == Cover(h, r)
  <2>1. TopIs(h, C, x)
    BY ShownIs
  <2>2. w \notin C /\ w \in Nat
    BY <1>1, <1>2, DrawnNumbers DEF Cover
  <2>3. Cover(n, r) = C
    BY <1>1 DEF Cover, RowsOf
  <2>4. /\ h.mid_zs \in Seq(Nat) /\ w \in Range(h.mid_zs) /\ IsInjective(h.mid_zs)
    BY DrawnNumbers
  <2> HIDE DEF x, C
  <2>5. LastIn(h.mid_zs, C, x)
    <3>1. CASE h.top_z # 0 /\ h.top_z \in C
      <4>1. x = h.top_z /\ x = Last(h.mid_zs) /\ x \in C
        BY <2>1, <2>2, <3>1 DEF TopIs
      <4>2. DOMAIN h.mid_zs = 1 .. Len(h.mid_zs) /\ Len(h.mid_zs) \in Nat /\ Len(h.mid_zs) # 0
        <5>1. PICK i \in DOMAIN h.mid_zs : h.mid_zs[i] = w
          BY <2>4, InRange
        <5> QED BY <2>4, <5>1
      <4>3. Len(h.mid_zs) \in DOMAIN h.mid_zs /\ x = h.mid_zs[Len(h.mid_zs)]
        BY <4>1, <4>2 DEF Last
      <4>4. \A j \in DOMAIN h.mid_zs : ~(j > Len(h.mid_zs))
        BY <4>2
      <4> QED BY <4>1, <4>3, <4>4 DEF LastIn
    <3>2. CASE ~(h.top_z # 0 /\ h.top_z \in C)
      BY <2>1, <3>2 DEF TopIs
    <3> QED BY <3>1, <3>2
  <2>6. s \in Seq(Nat)
    BY <2>4, RemoveRange
  <2>7. LastIn(s, C, x)
    BY <2>2, <2>4, <2>5, LastRemove
  <2> HIDE DEF s
  <2>8. LastIn(Append(s, w), C, x)
    BY <2>2, <2>6, <2>7, LastAppend
  <2>9. LastIn(n.mid_zs, C, x)
    BY <1>1, <2>8, Zenon
  <2> QED BY <1>1, <2>2, <2>3, <2>9 DEF TopIs, x
<1> QED BY <1>1, <1>2, PaintedFrom

\* A redraw paints what is marked, and where the pointer was and is.
LEMMA ShownAlike ==
  ASSUME NEW h, NEW n, n.win = h.win, n.mid_zs = h.mid_zs, n.bottom_z = h.bottom_z,
         n.top_z = h.top_z
  PROVE  \A r : Shown(n, r) = Shown(h, r)
<1>1. \A r, w : RowsOf(n, w) = RowsOf(h, w)
  BY DEF RowsOf
<1> QED BY DEF RowsOf, Shown, poudland_blit_windows

LEMMA PaintedRedraw ==
  ASSUME NEW h \in GlobalsType, NEW scr \in [Row -> [win : Nat, mouse : BOOLEAN]],
         Painted(h, scr)
  PROVE  Painted([h EXCEPT !.damage = {}, !.last_mouse = h.mouse],
                 [r \in Row |-> IF r \in h.damage \cup PointerDamage(h)
                                THEN Drawn(h, r) ELSE scr[r]])
<1> DEFINE n == [h EXCEPT !.damage = {}, !.last_mouse = h.mouse]
           new == [r \in Row |-> IF r \in h.damage \cup PointerDamage(h)
                                 THEN Drawn(h, r) ELSE scr[r]]
<1>1. /\ n.win = h.win /\ n.mid_zs = h.mid_zs /\ n.bottom_z = h.bottom_z /\ n.top_z = h.top_z
      /\ n.last_mouse = h.mouse
  BY DEF GlobalsType
<1>2. \A r \in Row : new[r] = IF r \in h.damage \cup PointerDamage(h)
                              THEN Drawn(h, r) ELSE scr[r]
  OBVIOUS
<1> HIDE DEF n, new
<1>3. \A r : Shown(n, r) = Shown(h, r)
  BY <1>1, ShownAlike
<1> SUFFICES ASSUME NEW r \in Row
             PROVE  new[r] = [win |-> Shown(n, r), mouse |-> r \in Rows(n.last_mouse, MouseHeight)]
  BY DEF Painted, n, new
<1>4. CASE r \in h.damage \cup PointerDamage(h)
  <2>1. new[r] = Drawn(h, r)
    BY <1>2, <1>4
  <2> QED BY <1>1, <1>3, <2>1 DEF Drawn, draw_mouse
<1>5. CASE r \notin h.damage \cup PointerDamage(h)
  <2>1. new[r] = [win |-> Shown(h, r), mouse |-> r \in Rows(h.last_mouse, MouseHeight)]
    BY <1>2, <1>5 DEF Painted
  <2>2. r \in Rows(h.last_mouse, MouseHeight) <=> r \in Rows(h.mouse, MouseHeight)
    BY <1>5 DEF PointerDamage, draw_mouse
  <2>3. (r \in Rows(h.last_mouse, MouseHeight)) = (r \in Rows(h.mouse, MouseHeight))
    BY <2>2
  <2> QED BY <1>1, <1>3, <2>1, <2>3
<1> QED BY <1>4, <1>5

-----------------------------------------------------------------------------
(* Which window an event goes to.                                          *)

\* The windows that contain y.
At(h, y) == {w \in Nat : in_window(h, w, y)}

LEMMA LastSelected ==
  ASSUME NEW s \in Seq(Nat), NEW C, NEW I, I = {i \in 1 .. Len(s) : s[i] \in C},
         NEW x, x = IF I # {} THEN s[Max(I)] ELSE 0
  PROVE  LastIn(s, C, x)
<1> DEFINE max == Max(I)
<1>1. Len(s) \in Nat /\ DOMAIN s = 1 .. Len(s) /\ I \in SUBSET (1 .. Len(s))
  OBVIOUS
<1>2. I # {} => max \in I /\ \A i \in I : i <= max
  BY <1>1, MaxIsGreatest
<1>3. x = IF I # {} THEN s[max] ELSE 0
  OBVIOUS
<1> HIDE DEF max
<1>4. CASE I # {}
  <2>1. max \in DOMAIN s /\ x = s[max] /\ x \in C
    BY <1>1, <1>2, <1>3, <1>4
  <2>2. ASSUME NEW j \in DOMAIN s, j > max PROVE s[j] \notin C
    <3> SUFFICES ASSUME s[j] \in C PROVE FALSE
      OBVIOUS
    <3>1. j \in I
      BY <1>1
    <3>2. j <= max
      BY <1>2, <3>1
    <3> QED BY <1>1, <2>1, <2>2, <3>2
  <2> QED BY <2>1, <2>2 DEF LastIn
<1>5. CASE I = {}
  <2>1. x = 0
    BY <1>3, <1>5
  <2>2. \A k \in DOMAIN s : s[k] \notin C
    BY <1>1, <1>5
  <2> QED BY <2>1, <2>2 DEF LastIn
<1> QED BY <1>4, <1>5

\* The focused window, or the last of mid_zs; the background contains every row.
LEMMA TopOf ==
  ASSUME NEW h, Ordered(h), NEW y \in Row
  PROVE  /\ window_top_of(h, y) \in Range(h.windows)
         /\ IF h.focused # 0 /\ h.focused \in At(h, y) THEN window_top_of(h, y) = h.focused
            ELSE LastIn(h.mid_zs, At(h, y), window_top_of(h, y))
<1> DEFINE C == At(h, y)
           I == {i \in 1 .. Len(h.mid_zs) : h.mid_zs[i] \in C}
           J == {i \in 1 .. Len(h.mid_zs) : in_window(h, h.mid_zs[i], y)}
           x == IF I # {} THEN h.mid_zs[Max(I)] ELSE 0
<1>1. /\ h \in GlobalsType /\ h.mid_zs \in Seq(Nat) /\ Len(h.mid_zs) \in Nat
      /\ DOMAIN h.mid_zs = 1 .. Len(h.mid_zs) /\ Range(h.mid_zs) = Range(h.windows)
  BY DrawnNumbers
<1>2. \A i \in 1 .. Len(h.mid_zs) : h.mid_zs[i] \in Nat
  BY <1>1
<1>3. I = J
  BY <1>2 DEF At
<1>4. Background \in C
  <2>1. h.win[Background].y = 0 /\ h.win[Background].height = Height
    BY DEF Ordered, Listed
  <2>2. y \in 0 .. Height - 1 /\ Height \in Nat
    BY Sizes DEF Row
  <2> QED BY <2>1, <2>2 DEF At, in_window, Background
<1>5. Background \in Range(h.mid_zs) /\ Background # 0
  BY <1>1 DEF Ordered, Listed, Background
<1>6. PICK b \in DOMAIN h.mid_zs : h.mid_zs[b] = Background
  BY <1>5, InRange
<1>7. b \in I
  BY <1>1, <1>4, <1>6
<1>8. Max(I) \in I
  <2>1. I \in SUBSET (1 .. Len(h.mid_zs)) /\ I # {}
    BY <1>7
  <2> HIDE DEF I
  <2> QED BY <1>1, <2>1, MaxIsGreatest
<1>9. window_top_of(h, y) =
        IF h.focused # 0 /\ in_window(h, h.focused, y) THEN h.focused
        ELSE IF (IF J # {} THEN Max(J) ELSE 0) = 0 THEN 0
             ELSE h.mid_zs[IF J # {} THEN Max(J) ELSE 0]
  BY DEF window_top_of, SelectLastInSeq
<1>10. h.focused \in Nat /\ (in_window(h, h.focused, y) <=> h.focused \in C)
  BY <1>1, WindowFields DEF At
<1>11. x = h.mid_zs[Max(I)] /\ I # {} /\ Max(I) # 0 /\ Max(I) \in DOMAIN h.mid_zs
  BY <1>1, <1>7, <1>8
<1> HIDE DEF I, J, C, x
<1>12. window_top_of(h, y) = IF h.focused # 0 /\ h.focused \in C THEN h.focused ELSE x
  BY <1>3, <1>9, <1>10, <1>11
<1>13. LastIn(h.mid_zs, C, x)
  BY <1>1, LastSelected DEF I, x
<1>14. x \in Range(h.windows)
  BY <1>1, <1>11, InRange
<1>15. h.focused # 0 => h.focused \in Range(h.windows)
  BY DEF Ordered, Stacked
<1> QED BY <1>12, <1>13, <1>14, <1>15 DEF C

\* The window under the pointer is the last one drawn there.
LEMMA TopmostFrom ==
  ASSUME Ordered(g)
  PROVE  TopmostGetsEvents
<1> SUFFICES ASSUME Drawable, NEW y \in Row
             PROVE  LET order == poudland_blit_windows(g)
                    IN  window_top_of(g, y) =
                          order[SelectLastInSeq(order, LAMBDA w : in_window(g, w, y))]
  BY DEF TopmostGetsEvents
<1> DEFINE order == poudland_blit_windows(g)
           C == At(g, y)
           I == {i \in 1 .. Len(order) : order[i] \in C}
           J == {i \in 1 .. Len(order) : in_window(g, order[i], y)}
           top == window_top_of(g, y)
<1>1. g \in GlobalsType /\ order \in Seq(Nat) /\ Len(order) \in Nat /\ g.top_z \in Nat
  BY OrderFields, WindowFields DEF Ordered
<1>2. /\ top \in Range(g.windows)
      /\ IF g.focused # 0 /\ g.focused \in C THEN top = g.focused ELSE LastIn(g.mid_zs, C, top)
  BY TopOf
<1>3. Range(order) \subseteq Range(g.windows)
  BY DEF Drawable
<1>4. /\ g.bottom_z # 0 => g.bottom_z \in Range(order)
      /\ g.top_z # 0 => g.top_z \in Range(order)
  <2> DEFINE m == Len(g.mid_zs)
             b == Below(g)
             t == AtTop(g)
  <2>1. /\ m \in Nat /\ Len(order) = b + m + t /\ b \in {0, 1} /\ t \in {0, 1}
        /\ (b = 1 <=> g.bottom_z # 0) /\ (t = 1 <=> g.top_z # 0)
        /\ (b = 1 => order[1] = g.bottom_z) /\ (t = 1 => order[b + m + 1] = g.top_z)
    BY <1>1, OrderFields
  <2>2. DOMAIN order = 1 .. Len(order)
    BY <1>1
  <2> HIDE DEF m, b, t, order
  <2>3. ASSUME g.bottom_z # 0 PROVE 1 \in DOMAIN order /\ order[1] = g.bottom_z
    BY <2>1, <2>2, <2>3
  <2>4. ASSUME g.top_z # 0 PROVE b + m + 1 \in DOMAIN order /\ order[b + m + 1] = g.top_z
    BY <2>1, <2>2, <2>4
  <2> QED BY <2>3, <2>4, InRange
<1> HIDE DEF order
<1>5. TopIs(g, C, top)
  BY <1>2, <1>3, <1>4 DEF TopIs, Ordered, Stacked
<1>6. BottomToo(g, C)
  BY <1>3, <1>4 DEF BottomToo, Ordered, Listed
<1>7. I = J
  <2>1. \A i \in 1 .. Len(order) : order[i] \in Nat
    BY <1>1
  <2> QED BY <2>1 DEF At
<1> DEFINE x == IF I # {} THEN order[Max(I)] ELSE 0
<1>8. TopIs(g, C, x)
  <2> HIDE DEF I, C, x
  <2> QED BY <1>1, <1>6, LastDrawn DEF I, x, order
<1>9. top = x
  <2> HIDE DEF C, x, top
  <2> QED BY <1>1, <1>5, <1>8, TopUnique
<1>10. top # 0
  <2> HIDE DEF top
  <2> QED BY <1>1, <1>2, OpenNumber DEF Ordered
<1>11. I # {}
  BY <1>9, <1>10
<1>12. SelectLastInSeq(order, LAMBDA w : in_window(g, w, y)) = IF J # {} THEN Max(J) ELSE 0
  BY DEF SelectLastInSeq
<1> HIDE DEF I, J, top
<1> QED BY <1>7, <1>9, <1>11, <1>12 DEF order, top

-----------------------------------------------------------------------------
(* The mouse.                                                              *)

\* A step that keeps everything in order, and changes the rows of the windows of S only.
Keeps(h, n, S) ==
  /\ Ordered(n) /\ KeepsBut(h, n, {}) /\ ChangesOnly(h, n, S)
  /\ "restack" \in Avoid => Painted(n, screen)

LEMMA KeepsSame ==
  ASSUME NEW h, Ordered(h), "restack" \in Avoid => Painted(h, screen),
         NEW n \in GlobalsType, SameWindows(h, n), NEW S
  PROVE  Keeps(h, n, S)
<1>1. Ordered(n) /\ KeepsBut(h, n, {}) /\ ChangesOnly(h, n, {})
  BY SameKeepsOrder DEF SameWindows
<1>2. "restack" \in Avoid => Painted(n, screen)
  BY PaintedSame
<1> QED BY <1>1, <1>2 DEF Keeps, ChangesOnly

LEMMA KeepsThen ==
  ASSUME NEW h, Ordered(h), NEW m, NEW S, Keeps(h, m, S), NEW n, Keeps(m, n, S)
  PROVE  Keeps(h, n, S)
BY DEF Keeps, KeepsBut, ChangesOnly

\* The pointer moves, and stays on the screen.
LEMMA PointerMoved ==
  ASSUME NEW h \in GlobalsType, NEW dy \in Int
  PROVE  LET n == MovePointer(h, dy)
         IN  /\ n \in GlobalsType /\ SameWindows(h, n) /\ Real(n) \in Row
             /\ n.mouse_state = h.mouse_state /\ n.mouse_window = h.mouse_window
<1> DEFINE y == Clamp(h.mouse - dy)
           n == MovePointer(h, dy)
<1>1. h.mouse - dy \in Int
  BY WindowFields
<1>2. y \in Int /\ y + MouseOffset \in Row
  <2> DEFINE p == h.mouse - dy
  <2> HIDE DEF p
  <2>1. Clamp(p) \in Int /\ Clamp(p) + MouseOffset \in 0 .. Height - 1
    BY <1>1, Sizes DEF p, Clamp
  <2> QED BY <2>1 DEF Row, p
<1>3. n = [h EXCEPT !.mouse = y]
  BY DEF MovePointer
<1> HIDE DEF n, y
<1>4. n \in GlobalsType
  BY <1>2, <1>3 DEF GlobalsType
<1>5. SameWindows(h, n) /\ n.mouse = y /\ n.mouse_state = h.mouse_state
      /\ n.mouse_window = h.mouse_window
  BY <1>3 DEF SameWindows, GlobalsType
<1>6. Real(n) \in Row
  BY <1>2, <1>5 DEF Real
<1> QED BY <1>4, <1>5, <1>6 DEF n

\* Focusing the window under the pointer.
LEMMA Focused ==
  ASSUME NEW h, Ordered(h), "restack" \in Avoid => Painted(h, screen),
         NEW w \in Range(h.windows),
         "restack" \in Avoid /\ w > Background => h.top_z \in {0, w, Last(h.mid_zs)},
         NEW n, n = set_focus_window(h, w)
  PROVE  /\ Keeps(h, n, {}) /\ n \in GlobalsType /\ n.win = h.win /\ n.windows = h.windows
         /\ n.mouse_state = h.mouse_state /\ n.mouse_window = h.mouse_window
<1>1. /\ h \in GlobalsType /\ Listed(h) /\ w \in Nat
  BY OpenNumber DEF Ordered
<1>2. /\ n \in GlobalsType /\ SameMouse(h, n)
      /\ IF w <= Background THEN n = h ELSE Raised(h, n, w)
  BY <1>1, FocusEffect
<1>3. CASE w <= Background
  <2>1. n = h
    BY <1>2, <1>3
  <2>2. SameWindows(h, n)
    BY <2>1 DEF SameWindows
  <2>3. Keeps(h, n, {})
    BY <1>2, <2>2, KeepsSame
  <2> QED BY <1>2, <2>1, <2>3
<1>4. CASE ~(w <= Background)
  <2>1. Raised(h, n, w) /\ w > Background
    BY <1>1, <1>2, <1>4 DEF Background
  <2>2. Ordered(n) /\ KeepsBut(h, n, {}) /\ ChangesOnly(h, n, {})
    BY <1>2, <2>1, RaiseKeepsOrder
  <2>3. "restack" \in Avoid => Painted(n, screen)
    BY <1>2, <2>1, <2>2, PaintedRaise
  <2> QED BY <1>2, <2>1, <2>2, <2>3 DEF Keeps, Raised, SameMouse
<1> QED BY <1>3, <1>4

\* The mode of the mouse, and what it drags, do not concern the windows.
LEMMA ModeChanges ==
  ASSUME NEW h \in GlobalsType, NEW state \in {"normal", "moving", "dragging"},
         NEW w \in Nat, NEW d \in Int
  PROVE  /\ LET n == [h EXCEPT !.mouse_state = state]
            IN  n \in GlobalsType /\ SameWindows(h, n)
         /\ LET n == [h EXCEPT !.mouse_state = state, !.mouse_window = w, !.win_offset = d]
            IN  n \in GlobalsType /\ SameWindows(h, n)
         /\ LET n == [h EXCEPT !.fault = TRUE]
            IN  n \in GlobalsType /\ SameWindows(h, n)
<1>1. LET n == [h EXCEPT !.mouse_state = state]
      IN  n \in GlobalsType /\ SameWindows(h, n)
  BY DEF GlobalsType, SameWindows
<1>2. LET n == [h EXCEPT !.mouse_state = state, !.mouse_window = w, !.win_offset = d]
      IN  n \in GlobalsType /\ SameWindows(h, n)
  BY DEF GlobalsType, SameWindows
<1>3. LET n == [h EXCEPT !.fault = TRUE]
      IN  n \in GlobalsType /\ SameWindows(h, n)
  BY DEF GlobalsType, SameWindows
<1> QED BY <1>1, <1>2, <1>3

\* What the compositor writes about an event.
EventFor(h, w) ==
  \E type \in Events :
    server' = <<write_server(h.win[w].owner, [type |-> type, wid |-> w])>>

LEMMA FocusedIf ==
  ASSUME NEW h, Ordered(h), "restack" \in Avoid => Painted(h, screen),
         NEW w \in Range(h.windows), NEW button,
         "restack" \in Avoid /\ button = "left" /\ w > Background
           => h.top_z \in {0, w, Last(h.mid_zs)}
  PROVE  LET n == FocusIf(h, w, button)
         IN  n \in GlobalsType /\ Keeps(h, n, {})
<1> DEFINE n == FocusIf(h, w, button)
<1>1. CASE button = "left"
  <2>1. n = set_focus_window(h, w)
    BY <1>1 DEF FocusIf
  <2> HIDE DEF n
  <2>2. n \in GlobalsType /\ Keeps(h, n, {})
    BY <1>1, <2>1, Focused
  <2> QED BY <2>2 DEF n
<1>2. CASE button # "left"
  <2>1. n = h /\ h \in GlobalsType
    BY <1>2 DEF FocusIf, Ordered
  <2>2. SameWindows(h, h)
    BY DEF SameWindows
  <2>3. Keeps(h, h, {})
    BY <2>1, <2>2, KeepsSame
  <2> HIDE DEF n
  <2>4. n \in GlobalsType /\ Keeps(h, n, {})
    BY <2>1, <2>3
  <2> QED BY <2>4 DEF n
<1> QED BY <1>1, <1>2

LEMMA HandlerKeeps ==
  ASSUME NEW h, Ordered(h), "restack" \in Avoid => Painted(h, screen), Real(h) \in Int,
         NEW w \in Range(h.windows), NEW button,
         "restack" \in Avoid /\ button = "left" /\ w > Background
           => h.top_z \in {0, w, Last(h.mid_zs)},
         mouse_handler(h, w, button)
  PROVE  /\ Keeps(h, g', IF h.mouse_state = "dragging" THEN {h.mouse_window} ELSE {})
         /\ UNCHANGED server \/ EventFor(h, w)
<1> DEFINE S == IF h.mouse_state = "dragging" THEN {h.mouse_window} ELSE {}
<1>1. /\ h \in GlobalsType /\ w \in Nat /\ w \in DOMAIN h.win
  BY OpenNumber DEF Ordered
<1>2. \A n : Keeps(h, n, {}) => Keeps(h, n, S)
  BY DEF Keeps, ChangesOnly
<1>3. \A n \in GlobalsType : SameWindows(h, n) => Keeps(h, n, S)
  BY KeepsSame
<1>4. \A m, n : Keeps(h, m, {}) /\ n \in GlobalsType /\ SameWindows(m, n) => Keeps(h, n, S)
  <2> SUFFICES ASSUME NEW m, NEW n \in GlobalsType, Keeps(h, m, {}), SameWindows(m, n)
               PROVE  Keeps(h, n, S)
    OBVIOUS
  <2>1. Keeps(m, n, {})
    BY KeepsSame DEF Keeps
  <2>2. Keeps(h, n, {})
    BY <2>1, KeepsThen
  <2> QED BY <1>2, <2>2
<1> HIDE DEF S
<1>5. SameWindows(h, h)
  BY DEF SameWindows
<1> DEFINE f == FocusIf(h, w, button)
<1>6. f \in GlobalsType /\ Keeps(h, f, {})
  BY FocusedIf
<1> HIDE DEF f
<1>7. CASE h.mouse_state = "normal" /\ MouseNormal(h, w, button)
  <2>1. CASE /\ button = "none" /\ is_move(h)
             /\ g' = [h EXCEPT !.mouse_state = "moving"] /\ UNCHANGED server
    <3>1. g' \in GlobalsType /\ SameWindows(h, g')
      BY <1>1, <2>1, ModeChanges
    <3> QED BY <1>3, <2>1, <3>1 DEF S
  <2>2. CASE /\ button = "left" /\ is_move(h)
             /\ g' = [set_focus_window(h, w) EXCEPT
                        !.mouse_state = "dragging", !.mouse_window = w,
                        !.win_offset = Real(h) - h.win[w].y]
             /\ UNCHANGED server
    <3>1. f = set_focus_window(h, w)
      BY <2>2 DEF f, FocusIf
    <3> DEFINE d == Real(h) - h.win[w].y
    <3>2. d \in Int
      <4>1. h.win[w].y \in Int
        BY OpenNumber DEF Ordered, Window
      <4> QED BY <4>1
    <3> HIDE DEF d
    <3>3. g' = [f EXCEPT !.mouse_state = "dragging", !.mouse_window = w, !.win_offset = d]
      BY <2>2, <3>1 DEF d
    <3>4. g' \in GlobalsType /\ SameWindows(f, g')
      BY <1>1, <1>6, <3>2, <3>3, ModeChanges
    <3> QED BY <1>4, <1>6, <2>2, <3>4 DEF S
  <2>3. CASE /\ g' = FocusIf(h, w, button)
             /\ send_mouse_event_massage(h, w, "CLICK")
    <3>1. EventFor(h, w)
      BY <2>3 DEF EventFor, Events, send_mouse_event_massage
    <3> QED BY <1>2, <1>6, <2>3, <3>1 DEF S, f
  <2> QED BY <1>7, <2>1, <2>2, <2>3 DEF MouseNormal
<1>8. CASE h.mouse_state = "moving" /\ MouseMoving(h, w, button)
  <2>1. CASE /\ g' = [FocusIf(h, w, button) EXCEPT !.mouse_state = "normal"]
             /\ send_mouse_event_massage(h, w, "CLICK")
    <3>1. EventFor(h, w)
      BY <2>1 DEF EventFor, Events, send_mouse_event_massage
    <3>2. g' = [f EXCEPT !.mouse_state = "normal"]
      BY <2>1 DEF f
    <3>3. g' \in GlobalsType /\ SameWindows(f, g')
      BY <1>6, <3>2, ModeChanges
    <3> QED BY <1>4, <1>6, <3>1, <3>3 DEF S
  <2>2. CASE g' = h /\ send_mouse_event_massage(h, w, "MOVE")
    <3>1. EventFor(h, w)
      BY <2>2 DEF EventFor, Events, send_mouse_event_massage
    <3> QED BY <1>1, <1>3, <1>5, <2>2, <3>1 DEF S
  <2> QED BY <1>8, <2>1, <2>2 DEF MouseMoving
<1>9. CASE h.mouse_state = "dragging" /\ MouseDragging(h, w, button)
  <2>1. CASE g' = [h EXCEPT !.fault = TRUE] /\ UNCHANGED server
    <3>1. g' \in GlobalsType /\ SameWindows(h, g')
      BY <1>1, <2>1, ModeChanges
    <3> QED BY <1>3, <2>1, <3>1 DEF S
  <2>2. CASE /\ Contains(h.windows, h.mouse_window) /\ h.mouse_window > Background
             /\ g' = window_move(h, h.mouse_window, Real(h) - h.win_offset)
             /\ send_mouse_event_massage(h, w, "DRAG")
    <3> DEFINE u == h.mouse_window
               y == Real(h) - h.win_offset
    <3>1. h.windows \in Seq(Nat) /\ y \in Int /\ u \in Nat
      BY <1>1, WindowFields
    <3>2. u \in Range(h.windows) /\ u # Background
      BY <2>2, <3>1, ContainsIs DEF Background
    <3>3. u \in DOMAIN h.win
      BY <3>2, OpenNumber DEF Ordered
    <3> HIDE DEF u, y
    <3>4. g' \in GlobalsType /\ SameMouse(h, g') /\ Moved(h, g', u, y)
      <4>1. g' = window_move(h, u, y)
        BY <2>2 DEF u, y
      <4> QED BY <1>1, <3>1, <3>3, <4>1, MoveEffect
    <3>5. Ordered(g') /\ KeepsBut(h, g', {}) /\ ChangesOnly(h, g', {u})
      BY <3>1, <3>2, <3>4, MoveKeepsOrder
    <3>6. "restack" \in Avoid => Painted(g', screen)
      BY <3>1, <3>3, <3>4, <3>5, PaintedMove
    <3>7. EventFor(h, w)
      BY <2>2 DEF EventFor, Events, send_mouse_event_massage
    <3> QED BY <1>9, <3>5, <3>6, <3>7 DEF Keeps, S, u
  <2>3. CASE g' = h /\ UNCHANGED server
    BY <1>1, <1>3, <1>5, <2>3 DEF S
  <2>4. CASE g' = [h EXCEPT !.mouse_state = "normal"] /\ send_mouse_event_massage(h, w, "RAISE")
    <3>1. EventFor(h, w)
      BY <2>4 DEF EventFor, Events, send_mouse_event_massage
    <3>2. g' \in GlobalsType /\ SameWindows(h, g')
      BY <1>1, <2>4, ModeChanges
    <3> QED BY <1>3, <3>1, <3>2 DEF S
  <2> QED BY <1>9, <2>1, <2>2, <2>3, <2>4 DEF MouseDragging
<1> QED BY <1>7, <1>8, <1>9 DEF mouse_handler

\* An event moves nothing but the window that is dragged, and goes to a window.
LEMMA MouseEffect ==
  ASSUME Ordered(g), "restack" \in Avoid => Painted(g, screen), ServerMouse
  PROVE  /\ Keeps(g, g', IF g.mouse_state = "dragging" THEN {g.mouse_window} ELSE {})
         /\ \/ UNCHANGED server
            \/ \E w \in Range(g.windows) :
                 EventFor(g, w) /\ ("busy_client" \in Avoid => Listening(w))
<1> DEFINE S == IF g.mouse_state = "dragging" THEN {g.mouse_window} ELSE {}
<1>1. PICK dy \in Moves, button \in Button :
        \E h \in {MovePointer(g, dy)} : \E w \in {window_top_of(h, Real(h))} :
          ~ Avoided(h, w, button) /\ mouse_handler(h, w, button)
  BY DEF ServerMouse
<1>2. PICK h, w : /\ h = MovePointer(g, dy) /\ w = window_top_of(h, Real(h))
                  /\ ~ Avoided(h, w, button) /\ mouse_handler(h, w, button)
  BY <1>1
<1>3. g \in GlobalsType /\ dy \in Int
  BY Sizes DEF Ordered
<1>4. /\ h \in GlobalsType /\ SameWindows(g, h) /\ Real(h) \in Row
      /\ h.mouse_state = g.mouse_state /\ h.mouse_window = g.mouse_window
  BY <1>2, <1>3, PointerMoved
<1>5. Keeps(g, h, S) /\ Keeps(g, h, {})
  BY <1>4, KeepsSame
<1>6. Ordered(h) /\ ("restack" \in Avoid => Painted(h, screen))
  BY <1>5 DEF Keeps
<1>7. h.win = g.win /\ h.windows = g.windows
  BY <1>4 DEF SameWindows
<1>8. w \in Range(h.windows)
  <2>1. window_top_of(h, Real(h)) \in Range(h.windows)
    BY <1>4, <1>6, TopOf
  <2> QED BY <1>2, <2>1
<1>9. "restack" \in Avoid /\ button = "left" /\ w > Background
        => h.top_z \in {0, w, Last(h.mid_zs)}
  BY <1>2 DEF Avoided
<1>10. Real(h) \in Int
  BY <1>4 DEF Row
<1>11. /\ Keeps(h, g', IF h.mouse_state = "dragging" THEN {h.mouse_window} ELSE {})
       /\ UNCHANGED server \/ EventFor(h, w)
  BY <1>2, <1>6, <1>8, <1>9, <1>10, HandlerKeeps
<1>12. Keeps(h, g', S)
  BY <1>4, <1>11
<1>13. Keeps(g, g', S)
  BY <1>5, <1>12, KeepsThen
<1>14. "busy_client" \in Avoid => Listening(w)
  BY <1>2 DEF Avoided
<1>15. EventFor(h, w) => EventFor(g, w)
  BY <1>7 DEF EventFor
<1> QED BY <1>7, <1>8, <1>11, <1>13, <1>14, <1>15

-----------------------------------------------------------------------------
(* A package from a client.                                                *)

\* The server's write is an answer to c.
Answer(c, type, wid) == server' = <<write_server(c, [type |-> type, wid |-> wid])>>

\* Creating a window for a client.
LEMMA NewKeeps ==
  ASSUME Ordered(g), "restack" \in Avoid => Painted(g, screen),
         NEW c \in Client, NEW y \in Int, NEW height \in Nat,
         NEW n, n = quick_create_window(g, y, height, c)
  PROVE  /\ Keeps(g, n, {}) /\ g.wid \notin Range(g.windows)
         /\ g.wid \in Range(n.windows) /\ n.win[g.wid].owner = c
<1> DEFINE v == [y |-> y, height |-> height, owner |-> c]
           a == mark_window(server_window_create(g, y, height, c), next_wid(g))
<1>1. /\ g \in GlobalsType /\ Listed(g) /\ v \in Window /\ g.wid = Len(g.win) + 1
      /\ g.wid \in Nat /\ g.wid \notin Range(g.windows) /\ v.owner = c
  BY ListedFields DEF Ordered, Window
<1>2. a \in GlobalsType /\ SameMouse(g, a) /\ Created(g, a, v)
  <2> HIDE DEF a
  <2> QED BY <1>1, CreateEffect DEF a
<1>3. n = [a EXCEPT !.bottom_z = g.wid]
  BY DEF quick_create_window, next_wid
<1> HIDE DEF a
<1>4. n \in GlobalsType
  BY <1>1, <1>2, <1>3 DEF GlobalsType
<1>5. /\ n.wid = a.wid /\ n.windows = a.windows /\ n.mid_zs = a.mid_zs /\ n.map = a.map
      /\ n.win = a.win /\ n.top_z = a.top_z /\ n.focused = a.focused /\ n.damage = a.damage
      /\ n.bottom_z = g.wid /\ SameMouse(a, n)
  BY <1>2, <1>3 DEF GlobalsType, SameMouse
<1> HIDE DEF v
<1>6. Created(g, n, v) /\ SameMouse(g, n)
  BY <1>2, <1>5 DEF Created, SameMouse
<1>7. Ordered(n) /\ KeepsBut(g, n, {}) /\ ChangesOnly(g, n, {})
  BY <1>1, <1>4, <1>5, <1>6, CreateKeepsOrder
<1>8. "restack" \in Avoid => Painted(n, screen)
  BY <1>1, <1>6, <1>7, PaintedCreate
<1>9. g.wid \in Range(n.windows) /\ n.win[g.wid] = v
  <2>1. n.windows = Append(g.windows, g.wid) /\ n.win = Append(g.win, v)
    BY <1>6 DEF Created
  <2>2. Range(Append(g.windows, g.wid)) = Range(g.windows) \cup {g.wid}
    <3>1. g.windows \in Seq(Nat)
      BY <1>1, WindowFields
    <3> QED BY <1>1, <3>1, AppendRange
  <2>3. Append(g.win, v)[Len(g.win) + 1] = v
    BY <1>1, WindowFields, AppendFields
  <2>4. g.wid \in Range(n.windows)
    <3>1. Range(n.windows) = Range(g.windows) \cup {g.wid}
      BY <2>1, <2>2, Zenon
    <3> QED BY <3>1
  <2>5. n.win[g.wid] = v
    BY <1>1, <2>1, <2>3, Zenon
  <2> QED BY <2>4, <2>5
<1> QED BY <1>1, <1>7, <1>8, <1>9 DEF Keeps

\* A window of a client moves, or stays where it is.
LEMMA MoveKeeps ==
  ASSUME Ordered(g), "restack" \in Avoid => Painted(g, screen),
         NEW m, NEW w \in Range(g.windows), w # Background, m.wid = w, m.y \in Int,
         WindowMove(m)
  PROVE  Keeps(g, g', {w}) /\ KeepsBut(g, g', {}) /\ UNCHANGED server
<1>1. g \in GlobalsType /\ Mapped(g) /\ w \in Nat /\ w \in DOMAIN g.win
  BY OpenNumber DEF Ordered
<1>2. hashmap_get(g.map, m.wid) = w
  BY <1>1, GetOpen
<1>3. /\ g' = IF m.y > Height \/ m.y < 0 \/ w = 0 THEN g ELSE window_move(g, w, m.y)
      /\ UNCHANGED server
  BY <1>2 DEF WindowMove
<1>4. CASE g' = g
  <2>1. g' \in GlobalsType /\ SameWindows(g, g')
    BY <1>1, <1>4 DEF SameWindows
  <2> QED BY <1>3, <2>1, KeepsSame DEF Keeps
<1>5. CASE g' = window_move(g, w, m.y)
  <2>1. g' \in GlobalsType /\ SameMouse(g, g') /\ Moved(g, g', w, m.y)
    BY <1>1, <1>5, MoveEffect
  <2>2. Ordered(g') /\ KeepsBut(g, g', {}) /\ ChangesOnly(g, g', {w})
    BY <2>1, MoveKeepsOrder
  <2>3. "restack" \in Avoid => Painted(g', screen)
    BY <1>1, <2>1, <2>2, PaintedMove
  <2> QED BY <1>3, <2>2, <2>3 DEF Keeps
<1> QED BY <1>3, <1>4, <1>5

\* A window of a client is closed.
LEMMA CloseKeeps ==
  ASSUME Ordered(g), "restack" \in Avoid => Painted(g, screen),
         NEW m, NEW w \in Range(g.windows), w # Background, m.wid = w, WindowClose(m)
  PROVE  /\ Ordered(g') /\ KeepsBut(g, g', {w}) /\ ChangesOnly(g, g', {w})
         /\ "restack" \in Avoid => Painted(g', screen)
         /\ UNCHANGED server
<1>1. g \in GlobalsType /\ Listed(g) /\ Mapped(g) /\ w \in Nat
  BY OpenNumber DEF Ordered
<1>2. hashmap_has(g.map, w)
  BY <1>1, HasIsOpen
<1>3. g' = server_window_close(g, w) /\ UNCHANGED server
  BY <1>2 DEF WindowClose
<1>4. g' \in GlobalsType /\ SameMouse(g, g') /\ Closed(g, g', w)
  BY <1>1, <1>3, CloseEffect
<1>5. Ordered(g') /\ KeepsBut(g, g', {w}) /\ ChangesOnly(g, g', {w})
  BY <1>4, CloseKeepsOrder
<1>6. "restack" \in Avoid => Painted(g', screen)
  BY <1>4, <1>5, PaintedClose
<1> QED BY <1>3, <1>5, <1>6

\* The head of the queue: a window is made, moved or closed for its owner, and
\* questions are answered.
Replied(m) ==
  \/ m.data.type \notin Questions /\ UNCHANGED server
  \/ m.data.type = "HELLO" /\ Answer(m.source, "WELCOME", 0)
  \/ /\ m.data.type = "NEW" /\ Answer(m.source, "INIT", g.wid)
     /\ g.wid \in Range(g'.windows) /\ g'.win[g.wid].owner = m.source

LEMMA PackageEffect ==
  ASSUME pkg \in PkgType, Ordered(g), "restack" \in Avoid => Painted(g, screen), Claims,
         ServerPackage
  PROVE  LET m == pkg.msg_list[1] IN
         /\ pkg.msg_list # <<>> /\ m \in [source : Client, data : Request]
         /\ m = Head(pkg.msg_list) /\ server = <<>>
         /\ Ordered(g') /\ ("restack" \in Avoid => Painted(g', screen))
         /\ KeepsBut(g, g', IF m.data.type = "CLOSE" THEN {m.data.wid} ELSE {})
         /\ ChangesOnly(g, g', IF m.data.type \in {"MOVE", "CLOSE"} THEN {m.data.wid} ELSE {})
         /\ m.data.type \in {"MOVE", "CLOSE"} => Owns(m.source, m.data.wid)
         /\ Replied(m)
<1> DEFINE m == pkg.msg_list[1]
           d == m.data
           w == d.wid
<1>1. pkg.msg_list \in Seq([source : Client, data : Request]) /\ pkg.msg_list # <<>>
  BY DEF PkgType, ServerPackage, ioctl_server
<1>2. /\ m \in [source : Client, data : Request] /\ m = Head(pkg.msg_list)
      /\ 1 \in DOMAIN pkg.msg_list
  <2> DEFINE X == [source : Client, data : Request]
             s == pkg.msg_list
  <2>1. s \in Seq(X) /\ s # <<>>
    BY <1>1
  <2> HIDE DEF X, s
  <2>2. Head(s) = s[1] /\ Head(s) \in X /\ 1 \in DOMAIN s
    BY <2>1, TailFields
  <2> QED BY <2>2 DEF X, s
<1>3. m.source \in Client /\ d \in Request /\ w \in Nat /\ d.y \in Int /\ d.height \in Nat
  BY <1>2 DEF Request
<1>4. Handle(m.source, d) /\ server = <<>>
  BY <1>2 DEF ServerPackage, Loop
<1>5. d.type \in {"MOVE", "CLOSE"} => Owns(m.source, w)
  BY <1>2 DEF Claims
<1>6. Owns(m.source, w) => w \in Range(g.windows) /\ w # Background
  <2>1. g.win[Background].owner = Everybody
    BY DEF Ordered, Listed
  <2> QED BY <1>3, <2>1, Sizes DEF Owns
<1> HIDE DEF m
<1> SUFFICES /\ Ordered(g') /\ ("restack" \in Avoid => Painted(g', screen))
             /\ KeepsBut(g, g', IF d.type = "CLOSE" THEN {w} ELSE {})
             /\ ChangesOnly(g, g', IF d.type \in {"MOVE", "CLOSE"} THEN {w} ELSE {})
             /\ Replied(m)
  BY <1>1, <1>2, <1>4, <1>5 DEF m
<1>7. CASE d.type = "HELLO" /\ server' = <<write_server(m.source, [type |-> "WELCOME", wid |-> 0])>>
           /\ UNCHANGED g
  <2>1. g' \in GlobalsType /\ SameWindows(g, g')
    BY <1>7 DEF Ordered, SameWindows
  <2>2. Keeps(g, g', {})
    BY <2>1, KeepsSame
  <2>3. Replied(m)
    BY <1>7 DEF Replied, Answer
  <2> QED BY <1>7, <2>2, <2>3 DEF Keeps
<1>8. CASE d.type = "NEW" /\ WindowNew(m.source, d)
  <2>1. g' = quick_create_window(g, d.y, d.height, m.source)
    BY <1>8 DEF WindowNew
  <2>2. Keeps(g, g', {}) /\ g.wid \in Range(g'.windows) /\ g'.win[g.wid].owner = m.source
    BY <1>3, <2>1, NewKeeps
  <2>3. Replied(m)
    BY <1>8, <2>2 DEF Replied, Answer, WindowNew, next_wid
  <2> QED BY <1>8, <2>2, <2>3 DEF Keeps
<1>9. CASE d.type = "MOVE" /\ WindowMove(d)
  <2>1. Keeps(g, g', {w}) /\ KeepsBut(g, g', {}) /\ UNCHANGED server
    BY <1>3, <1>5, <1>6, <1>9, MoveKeeps
  <2>2. Replied(m)
    BY <1>9, <2>1 DEF Replied, Questions
  <2> QED BY <1>9, <2>1, <2>2 DEF Keeps
<1>10. CASE d.type = "CLOSE" /\ WindowClose(d)
  <2>1. /\ Ordered(g') /\ KeepsBut(g, g', {w}) /\ ChangesOnly(g, g', {w})
        /\ "restack" \in Avoid => Painted(g', screen)
        /\ UNCHANGED server
    BY <1>3, <1>5, <1>6, <1>10, CloseKeeps
  <2>2. Replied(m)
    BY <1>10, <2>1 DEF Replied, Questions
  <2> QED BY <1>10, <2>1, <2>2
<1> QED BY <1>4, <1>7, <1>8, <1>9, <1>10 DEF Handle

-----------------------------------------------------------------------------
(* The redraw.                                                             *)

LEMMA ShownNumber ==
  ASSUME NEW h, Ordered(h), NEW r
  PROVE  Shown(h, r) \in Nat
<1> DEFINE x == Shown(h, r)
<1>1. TopIs(h, Cover(h, r), x)
  BY ShownIs
<1>2. h.top_z \in Nat /\ h.mid_zs \in Seq(Nat)
  BY WindowFields DEF Ordered
<1> HIDE DEF x
<1>3. x \in Nat
  BY <1>1, <1>2 DEF TopIs, LastIn
<1> QED BY <1>3 DEF x

LEMMA RedrawEffect ==
  ASSUME Ordered(g), screen \in [Row -> [win : Nat, mouse : BOOLEAN]], redraw_windows
  PROVE  /\ Ordered(g') /\ g'.windows = g.windows /\ g'.win = g.win
         /\ screen' \in [Row -> [win : Nat, mouse : BOOLEAN]]
         /\ Painted(g, screen) => Painted(g', screen')
<1>1. g \in GlobalsType
  BY DEF Ordered
<1>2. CASE /\ screen' = [r \in Row |->
                        IF r \in g.damage \cup PointerDamage(g) THEN Drawn(g, r) ELSE screen[r]]
           /\ g' = [g EXCEPT !.damage = {}, !.last_mouse = g.mouse]
  <2>1. /\ g' \in GlobalsType
        /\ g'.wid = g.wid /\ g'.windows = g.windows /\ g'.mid_zs = g.mid_zs /\ g'.map = g.map
        /\ g'.win = g.win /\ g'.bottom_z = g.bottom_z /\ g'.top_z = g.top_z
        /\ g'.focused = g.focused
    BY <1>1, <1>2 DEF GlobalsType
  <2>2. Ordered(g')
    BY <2>1, SameKeepsOrder
  <2>3. ASSUME NEW r \in Row PROVE screen'[r] \in [win : Nat, mouse : BOOLEAN]
    <3>1. Shown(g, r) \in Nat
      BY ShownNumber
    <3>2. Drawn(g, r) \in [win : Nat, mouse : BOOLEAN]
      BY <3>1 DEF Drawn
    <3> HIDE DEF Drawn
    <3> QED BY <1>2, <3>2
  <2>4. screen' \in [Row -> [win : Nat, mouse : BOOLEAN]]
    BY <1>2, <2>3
  <2>5. ASSUME Painted(g, screen) PROVE Painted(g', screen')
    <3>1. Painted([g EXCEPT !.damage = {}, !.last_mouse = g.mouse],
                  [r \in Row |-> IF r \in g.damage \cup PointerDamage(g)
                                 THEN Drawn(g, r) ELSE screen[r]])
      BY <1>1, <2>5, PaintedRedraw
    <3> QED BY <1>2, <3>1, Zenon
  <2> QED BY <2>1, <2>2, <2>4, <2>5
<1>3. CASE g' = [g EXCEPT !.fault = TRUE] /\ UNCHANGED screen
  <2>1. g' \in GlobalsType /\ SameWindows(g, g')
    BY <1>1, <1>3 DEF GlobalsType, SameWindows
  <2>2. Ordered(g')
    BY <2>1, SameKeepsOrder DEF SameWindows
  <2>3. ASSUME Painted(g, screen) PROVE Painted(g', screen')
    <3>1. Painted(g', screen)
      BY <2>1, <2>3, PaintedSame
    <3> QED BY <1>3, <3>1
  <2> QED BY <1>3, <2>1, <2>2, <2>3 DEF SameWindows
<1> QED BY <1>2, <1>3 DEF redraw_windows

-----------------------------------------------------------------------------
(* The queues.                                                             *)

Package == [source : Client, data : Request]

LEMMA PkgFields ==
  ASSUME NEW s \in PkgType
  PROVE  /\ s.msg_list \in Seq(Package) /\ s.clients \in Seq(Client)
         /\ s.inbox \in [Client -> Seq(Reply)]
BY DEF PkgType, Package

LEMMA ToServer ==
  ASSUME NEW s \in PkgType, NEW c \in Client, NEW d \in Request
  PROVE  LET n == send_to_server(s, c, d)
         IN  /\ n \in PkgType /\ n.clients = s.clients /\ n.inbox = s.inbox
             /\ n.msg_list = Append(s.msg_list, [source |-> c, data |-> d])
<1> DEFINE e == [source |-> c, data |-> d]
           l == Append(s.msg_list, e)
<1>1. e \in Package
  BY DEF Package
<1>2. l \in Seq(Package)
  BY <1>1, PkgFields, AppendFields
<1> HIDE DEF l
<1>3. send_to_server(s, c, d) = [s EXCEPT !.msg_list = l]
  BY DEF send_to_server, l, PkgType
<1>4. LET n == [s EXCEPT !.msg_list = l]
      IN  n \in PkgType /\ n.clients = s.clients /\ n.inbox = s.inbox /\ n.msg_list = l
  BY <1>2 DEF PkgType, Package
<1> QED BY <1>3, <1>4 DEF l

LEMMA ByServer ==
  ASSUME NEW s \in PkgType, s.msg_list # <<>>
  PROVE  LET n == read_server(s)
         IN  /\ n \in PkgType /\ n.clients = s.clients /\ n.inbox = s.inbox
             /\ n.msg_list = Tail(s.msg_list)
<1> DEFINE l == Tail(s.msg_list)
<1>1. l \in Seq(Package)
  BY PkgFields, TailFields
<1> HIDE DEF l
<1>2. read_server(s) = [s EXCEPT !.msg_list = l]
  BY DEF read_server, l, PkgType
<1>3. LET n == [s EXCEPT !.msg_list = l]
      IN  n \in PkgType /\ n.clients = s.clients /\ n.inbox = s.inbox /\ n.msg_list = l
  BY <1>1 DEF PkgType, Package
<1> QED BY <1>2, <1>3 DEF l

\* A queue of a client changes.
LEMMA InboxChanges ==
  ASSUME NEW s \in PkgType, NEW c \in Client, NEW q \in Seq(Reply)
  PROVE  LET n == [s EXCEPT !.inbox[c] = q]
         IN  /\ n \in PkgType /\ n.clients = s.clients /\ n.msg_list = s.msg_list
             /\ n.inbox = [s.inbox EXCEPT ![c] = q]
<1> DEFINE f == [s.inbox EXCEPT ![c] = q]
<1>1. f \in [Client -> Seq(Reply)]
  BY PkgFields
<1>2. [s EXCEPT !.inbox[c] = q] = [s EXCEPT !.inbox = f]
  BY DEF PkgType
<1> HIDE DEF f
<1>3. LET n == [s EXCEPT !.inbox = f]
      IN  n \in PkgType /\ n.clients = s.clients /\ n.msg_list = s.msg_list /\ n.inbox = f
  BY <1>1 DEF PkgType
<1> QED BY <1>2, <1>3 DEF f

LEMMA ToClient ==
  ASSUME NEW s \in PkgType, NEW c \in Client, NEW d \in Reply
  PROVE  LET n == send_to_client(s, c, d)
         IN  /\ n \in PkgType /\ n.clients = s.clients /\ n.msg_list = s.msg_list
             /\ n.inbox = [s.inbox EXCEPT ![c] = Append(s.inbox[c], d)]
<1> DEFINE q == Append(s.inbox[c], d)
<1>1. s.inbox[c] \in Seq(Reply)
  BY PkgFields
<1>2. q \in Seq(Reply)
  BY <1>1, AppendFields
<1>3. send_to_client(s, c, d) = [s EXCEPT !.inbox[c] = q]
  BY DEF send_to_client
<1> HIDE DEF q
<1>4. LET n == [s EXCEPT !.inbox[c] = q]
      IN  /\ n \in PkgType /\ n.clients = s.clients /\ n.msg_list = s.msg_list
          /\ n.inbox = [s.inbox EXCEPT ![c] = q]
  BY <1>2, InboxChanges
<1> QED BY <1>3, <1>4 DEF q

LEMMA ByClient ==
  ASSUME NEW s \in PkgType, NEW c \in Client, s.inbox[c] # <<>>
  PROVE  LET n == read_client(s, c)
         IN  /\ n \in PkgType /\ n.clients = s.clients /\ n.msg_list = s.msg_list
             /\ n.inbox = [s.inbox EXCEPT ![c] = Tail(s.inbox[c])]
<1> DEFINE q == Tail(s.inbox[c])
<1>1. s.inbox[c] \in Seq(Reply)
  BY PkgFields
<1>2. q \in Seq(Reply)
  BY <1>1, TailFields
<1>3. read_client(s, c) = [s EXCEPT !.inbox[c] = q]
  BY DEF read_client
<1> HIDE DEF q
<1>4. LET n == [s EXCEPT !.inbox[c] = q]
      IN  /\ n \in PkgType /\ n.clients = s.clients /\ n.msg_list = s.msg_list
          /\ n.inbox = [s.inbox EXCEPT ![c] = q]
  BY <1>2, InboxChanges
<1> QED BY <1>3, <1>4 DEF q

LEMMA Connected ==
  ASSUME NEW s \in PkgType, NEW c \in Client
  PROVE  LET n == create_client(s, c)
         IN  /\ n \in PkgType /\ n.inbox = s.inbox /\ n.msg_list = s.msg_list
             /\ n.clients = Append(s.clients, c)
<1> DEFINE l == Append(s.clients, c)
<1>1. l \in Seq(Client)
  BY PkgFields, AppendFields
<1>2. create_client(s, c) = [s EXCEPT !.clients = l]
  BY DEF create_client
<1> HIDE DEF l
<1>3. LET n == [s EXCEPT !.clients = l]
      IN  n \in PkgType /\ n.inbox = s.inbox /\ n.msg_list = s.msg_list /\ n.clients = l
  BY <1>1 DEF PkgType
<1> QED BY <1>2, <1>3 DEF l

-----------------------------------------------------------------------------
(* What a client does.                                                     *)

Becomes(c, pc, msg, want, windows) ==
  client' = [client EXCEPT ![c] = [pc |-> pc, msg |-> msg, want |-> want, windows |-> windows]]

LEMMA ClientFields ==
  ASSUME client \in [Client -> ClientType], NEW c \in Client
  PROVE  /\ client[c].pc \in {"none", "idle", "send", "wait", "lost"} /\ client[c].msg \in Request
         /\ client[c].want \in Answers \cup {"nothing"} /\ client[c].windows \in SUBSET Nat
         /\ client[c] \in ClientType
<1>1. client[c] \in ClientType
  OBVIOUS
<1> QED BY <1>1 DEF ClientType

LEMMA BecomesFields ==
  ASSUME client \in [Client -> ClientType], NEW c \in Client,
         NEW pc \in {"none", "idle", "send", "wait", "lost"}, NEW msg \in Request,
         NEW want \in Answers \cup {"nothing"}, NEW windows \in SUBSET Nat,
         Becomes(c, pc, msg, want, windows)
  PROVE  /\ client' \in [Client -> ClientType]
         /\ client'[c].pc = pc /\ client'[c].msg = msg /\ client'[c].want = want
         /\ client'[c].windows = windows
         /\ \A d \in Client : d # c => client'[d] = client[d]
<1> DEFINE v == [pc |-> pc, msg |-> msg, want |-> want, windows |-> windows]
<1>1. v \in ClientType
  BY DEF ClientType
<1>2. v.pc = pc /\ v.msg = msg /\ v.want = want /\ v.windows = windows
  OBVIOUS
<1>3. client' = [client EXCEPT ![c] = v]
  BY DEF Becomes
<1> HIDE DEF v
<1>4. client' \in [Client -> ClientType]
  BY <1>1, <1>3
<1>5. client'[c] = v /\ \A d \in Client : d # c => client'[d] = client[d]
  BY <1>3
<1> QED BY <1>2, <1>4, <1>5

\* What a client is doing, after a change.
LEMMA RecordIs ==
  ASSUME NEW pc, NEW msg, NEW want, NEW ws,
         NEW r \in [pc : {pc}, msg : {msg}, want : {want}, windows : {ws}]
  PROVE  r = [pc |-> pc, msg |-> msg, want |-> want, windows |-> ws]
OBVIOUS

LEMMA SendBecomes ==
  ASSUME client \in [Client -> ClientType], NEW c \in Client, NEW m, NEW want, Send(c, m, want)
  PROVE  Becomes(c, "send", m, want, client[c].windows)
<1>1. client[c] \in ClientType
  OBVIOUS
<1>2. client' = [client EXCEPT ![c] = [client[c] EXCEPT !.pc = "send", !.msg = m, !.want = want]]
  BY DEF Send
<1>3. [client[c] EXCEPT !.pc = "send", !.msg = m, !.want = want]
       = [pc |-> "send", msg |-> m, want |-> want, windows |-> client[c].windows]
  <2> DEFINE r == client[c]
             e == [r EXCEPT !.pc = "send", !.msg = m, !.want = want]
             p == "send"
             b == m
             k == want
             v == r.windows
  <2>1. e \in [pc : {p}, msg : {b}, want : {k}, windows : {v}]
    <3>1. r \in ClientType
      BY <1>1
    <3> HIDE DEF r
    <3> QED BY <3>1 DEF ClientType
  <2> HIDE DEF e, p, b, k, v, r
  <2>2. e = [pc |-> p, msg |-> b, want |-> k, windows |-> v]
    BY <2>1, RecordIs
  <2> QED BY <2>2 DEF e, p, b, k, v, r
<1> QED BY <1>2, <1>3, Zenon DEF Becomes

LEMMA NothingTyped == Nothing \in Request
BY DEF Nothing, Message, Request

LEMMA Connects ==
  ASSUME client \in [Client -> ClientType], NEW c \in Client, poudland_init_context(c)
  PROVE  /\ client[c].pc = "none" /\ pkg' = create_client(pkg, c)
         /\ \E m \in Request : m.type = "HELLO"
                               /\ Becomes(c, "send", m, "WELCOME", client[c].windows)
         /\ "busy_client" \in Avoid => server = <<>>
         /\ UNCHANGED <<g, screen, server>>
<1>1. Becomes(c, "send", Message("HELLO", 0, 0, 0), "WELCOME", client[c].windows)
  BY SendBecomes DEF poudland_init_context
<1>2. Message("HELLO", 0, 0, 0) \in Request /\ Message("HELLO", 0, 0, 0).type = "HELLO"
  BY DEF Message, Request, Questions
<1> QED BY <1>1, <1>2 DEF poudland_init_context

LEMMA Sends ==
  ASSUME client \in [Client -> ClientType], NEW c \in Client, ClientSend(c)
  PROVE  /\ client[c].pc = "send" /\ pkg' = send_to_server(pkg, c, client[c].msg)
         /\ Becomes(c, IF client[c].want = "nothing" THEN "idle" ELSE "wait", Nothing,
                    client[c].want, client[c].windows)
         /\ UNCHANGED <<g, screen, server>>
<1> DEFINE pc == IF client[c].want = "nothing" THEN "idle" ELSE "wait"
<1>1. client[c] \in ClientType
  OBVIOUS
<1>2. client' = [client EXCEPT ![c] = [client[c] EXCEPT !.pc = pc, !.msg = Nothing]]
  BY DEF ClientSend
<1> HIDE DEF pc
<1>3. [client[c] EXCEPT !.pc = pc, !.msg = Nothing]
       = [pc |-> pc, msg |-> Nothing, want |-> client[c].want, windows |-> client[c].windows]
  <2> DEFINE r == client[c]
             e == [r EXCEPT !.pc = pc, !.msg = Nothing]
             p == pc
             b == Nothing
             k == r.want
             v == r.windows
  <2>1. e \in [pc : {p}, msg : {b}, want : {k}, windows : {v}]
    <3>1. r \in ClientType
      BY <1>1
    <3> HIDE DEF r
    <3> QED BY <3>1 DEF ClientType
  <2> HIDE DEF e, p, b, k, v, r
  <2>2. e = [pc |-> p, msg |-> b, want |-> k, windows |-> v]
    BY <2>1, RecordIs
  <2> QED BY <2>2 DEF e, p, b, k, v, r
<1>4. Becomes(c, pc, Nothing, client[c].want, client[c].windows)
  BY <1>2, <1>3, Zenon DEF Becomes
<1> QED BY <1>4 DEF ClientSend, pc

\* A call leaves the rest alone.
Calls(c) ==
  /\ client[c].pc = "idle" /\ ("busy_client" \in Avoid => server = <<>>)
  /\ UNCHANGED <<pkg, g, screen, server>>

LEMMA AsksToMake ==
  ASSUME client \in [Client -> ClientType], NEW c \in Client, poudland_create_window(c)
  PROVE  /\ Calls(c) /\ ("busy_client" \in Avoid => pkg.inbox[c] = <<>>)
         /\ \E m \in Request : m.type = "NEW" /\ Becomes(c, "send", m, "INIT", client[c].windows)
<1>1. PICK s \in Shapes : /\ "busy_client" \in Avoid => pkg.inbox[c] = <<>>
                          /\ Call(c) /\ Send(c, Message("NEW", 0, s[1], s[2]), "INIT")
  BY DEF poudland_create_window
<1> DEFINE y == s[1]
           height == s[2]
<1>2. y \in Nat /\ height \in Nat
  BY Sizes
<1> DEFINE m == Message("NEW", 0, y, height)
<1>3. Becomes(c, "send", m, "INIT", client[c].windows)
  BY <1>1, SendBecomes
<1> HIDE DEF y, height
<1>4. m \in Request /\ m.type = "NEW"
  BY <1>2 DEF Message, Request, Questions
<1> HIDE DEF m
<1> QED BY <1>1, <1>3, <1>4 DEF Call, Calls

LEMMA AsksToMove ==
  ASSUME client \in [Client -> ClientType], NEW c \in Client, poudland_move_window(c)
  PROVE  /\ Calls(c)
         /\ \E m \in Request : /\ m.type = "MOVE" /\ m.wid \in client[c].windows
                               /\ Becomes(c, "send", m, "nothing", client[c].windows)
<1>1. PICK w \in client[c].windows, y \in Targets :
        Call(c) /\ Send(c, Message("MOVE", w, y, 0), "nothing")
  BY DEF poudland_move_window
<1> DEFINE m == Message("MOVE", w, y, 0)
<1>2. w \in Nat /\ y \in Int
  BY ClientFields, Sizes
<1>3. Becomes(c, "send", m, "nothing", client[c].windows)
  BY <1>1, SendBecomes
<1>4. m \in Request /\ m.type = "MOVE" /\ m.wid = w
  BY <1>2 DEF Message, Request
<1> HIDE DEF m
<1> QED BY <1>1, <1>3, <1>4 DEF Call, Calls

LEMMA AsksToClose ==
  ASSUME client \in [Client -> ClientType], NEW c \in Client, poudland_remove_window(c),
         "unknown_wid" \in Avoid
  PROVE  /\ Calls(c)
         /\ \E m \in Request : /\ m.type = "CLOSE" /\ m.wid \in client[c].windows
                               /\ Becomes(c, "send", m, client[c].want, client[c].windows \ {m.wid})
<1>1. PICK w \in client[c].windows :
        /\ Call(c)
        /\ client' = [client EXCEPT ![c].pc = "send", ![c].msg = Message("CLOSE", w, 0, 0),
                                    ![c].windows = IF "unknown_wid" \in Avoid THEN @ \ {w} ELSE @]
  BY DEF poudland_remove_window
<1> DEFINE m == Message("CLOSE", w, 0, 0)
           ws == client[c].windows \ {w}
<1>2. w \in Nat /\ client[c] \in ClientType
  BY ClientFields
<1>3. m \in Request /\ m.type = "CLOSE" /\ m.wid = w
  BY <1>2 DEF Message, Request
<1>4. client' = [client EXCEPT ![c] = [client[c] EXCEPT !.pc = "send", !.msg = m, !.windows = ws]]
  BY <1>1
<1> HIDE DEF m, ws
<1>5. [client[c] EXCEPT !.pc = "send", !.msg = m, !.windows = ws]
       = [pc |-> "send", msg |-> m, want |-> client[c].want, windows |-> ws]
  <2> DEFINE r == client[c]
             e == [r EXCEPT !.pc = "send", !.msg = m, !.windows = ws]
             p == "send"
             b == m
             k == r.want
             v == ws
  <2>1. e \in [pc : {p}, msg : {b}, want : {k}, windows : {v}]
    <3>1. r \in ClientType
      BY <1>2
    <3> HIDE DEF r
    <3> QED BY <3>1 DEF ClientType
  <2> HIDE DEF e, p, b, k, v, r
  <2>2. e = [pc |-> p, msg |-> b, want |-> k, windows |-> v]
    BY <2>1, RecordIs
  <2> QED BY <2>2 DEF e, p, b, k, v, r
<1>6. Becomes(c, "send", m, client[c].want, ws)
  BY <1>4, <1>5, Zenon DEF Becomes
<1> QED BY <1>1, <1>3, <1>6 DEF Call, Calls, ws

LEMMA Hears ==
  ASSUME client \in [Client -> ClientType], pkg \in PkgType, NEW c \in Client, ClientWait(c)
  PROVE  LET m == pkg.inbox[c][1] IN
         /\ client[c].pc = "wait" /\ pkg.inbox[c] # <<>> /\ m \in Reply
         /\ pkg' = read_client(pkg, c)
         /\ Becomes(c, IF m.type = client[c].want THEN "idle" ELSE "lost", client[c].msg, "nothing",
                    IF m.type = "INIT" THEN client[c].windows \cup {m.wid} ELSE client[c].windows)
         /\ UNCHANGED <<g, screen, server>>
<1> DEFINE m == pkg.inbox[c][1]
           pc == IF m.type = client[c].want THEN "idle" ELSE "lost"
           ws == IF m.type = "INIT" THEN client[c].windows \cup {m.wid} ELSE client[c].windows
<1>1. pkg.inbox[c] \in Seq(Reply) /\ pkg.inbox[c] # <<>>
  BY PkgFields DEF ClientWait, ioctl_client
<1>2. m \in Reply /\ Head(pkg.inbox[c]) = m
  BY <1>1, TailFields
<1>3. client[c] \in ClientType
  OBVIOUS
<1>4. client' = [client EXCEPT ![c].pc = pc, ![c].want = "nothing", ![c].windows = ws]
  BY <1>2 DEF ClientWait
<1> HIDE DEF pc, ws
<1>5. client' = [client EXCEPT ![c] = [client[c] EXCEPT !.pc = pc, !.want = "nothing", !.windows = ws]]
  BY <1>4
<1>6. [client[c] EXCEPT !.pc = pc, !.want = "nothing", !.windows = ws]
       = [pc |-> pc, msg |-> client[c].msg, want |-> "nothing", windows |-> ws]
  <2> DEFINE r == client[c]
             e == [r EXCEPT !.pc = pc, !.want = "nothing", !.windows = ws]
             p == pc
             b == r.msg
             k == "nothing"
             v == ws
  <2>1. e \in [pc : {p}, msg : {b}, want : {k}, windows : {v}]
    <3>1. r \in ClientType
      BY <1>3
    <3> HIDE DEF r
    <3> QED BY <3>1 DEF ClientType
  <2> HIDE DEF e, p, b, k, v, r
  <2>2. e = [pc |-> p, msg |-> b, want |-> k, windows |-> v]
    BY <2>1, RecordIs
  <2> QED BY <2>2 DEF e, p, b, k, v, r
<1>7. Becomes(c, pc, client[c].msg, "nothing", ws)
  BY <1>5, <1>6, Zenon DEF Becomes
<1> HIDE DEF m
<1>8. client[c].pc = "wait" /\ pkg' = read_client(pkg, c) /\ UNCHANGED <<g, screen, server>>
  BY DEF ClientWait
<1> QED BY <1>1, <1>2, <1>7, <1>8 DEF pc, ws, m

-----------------------------------------------------------------------------
(* What is asked, written and answered.                                    *)

LEMMA AskedSame ==
  ASSUME pkg'.msg_list = pkg.msg_list
  PROVE  \A d, type : Asked(d, type)' = Asked(d, type)
BY DEF Asked

LEMMA AskedMore ==
  ASSUME pkg \in PkgType, NEW e \in Package, pkg'.msg_list = Append(pkg.msg_list, e)
  PROVE  \A d, type :
           Asked(d, type)' = Asked(d, type)
             \cup IF e.source = d /\ e.data.type = type THEN {Len(pkg.msg_list) + 1} ELSE {}
<1> DEFINE s == pkg.msg_list
           n == pkg'.msg_list
<1>1. s \in Seq(Package)
  BY PkgFields
<1>2. n = Append(s, e)
  OBVIOUS
<1> HIDE DEF s, n
<1>3. /\ Len(s) \in Nat /\ DOMAIN s = 1 .. Len(s) /\ DOMAIN n = 1 .. Len(s) + 1
      /\ n[Len(s) + 1] = e /\ \A i \in 1 .. Len(s) : n[i] = s[i]
  BY <1>1, <1>2, AppendFields
<1>4. ASSUME NEW d, NEW type
      PROVE  {i \in DOMAIN n : n[i].source = d /\ n[i].data.type = type}
               = {i \in DOMAIN s : s[i].source = d /\ s[i].data.type = type}
                   \cup IF e.source = d /\ e.data.type = type THEN {Len(s) + 1} ELSE {}
  <2> DEFINE I == {i \in DOMAIN n : n[i].source = d /\ n[i].data.type = type}
             J == {i \in DOMAIN s : s[i].source = d /\ s[i].data.type = type}
             K == IF e.source = d /\ e.data.type = type THEN {Len(s) + 1} ELSE {}
  <2>1. ASSUME NEW i \in 1 .. Len(s) PROVE i \in I <=> i \in J /\ i \notin K
    BY <1>3
  <2>2. Len(s) + 1 \in I <=> Len(s) + 1 \in K
    BY <1>3
  <2>3. I \subseteq 1 .. Len(s) + 1 /\ J \subseteq 1 .. Len(s) /\ K \subseteq {Len(s) + 1}
    BY <1>3
  <2>4. \A i \in 1 .. Len(s) + 1 : i = Len(s) + 1 \/ i \in 1 .. Len(s)
    BY <1>3, OneMore
  <2>5. \A i \in 1 .. Len(s) : i # Len(s) + 1
    BY <1>3
  <2> HIDE DEF I, J, K
  <2>6. I = J \cup K
    BY <2>1, <2>2, <2>3, <2>4, <2>5
  <2> QED BY <2>6 DEF I, J, K
<1> QED BY <1>4 DEF Asked, s, n

LEMMA AskedFewer ==
  ASSUME pkg \in PkgType, pkg.msg_list # <<>>, pkg'.msg_list = Tail(pkg.msg_list)
  PROVE  \A d, type : \A i :
           i \in Asked(d, type)' <=> i \in Nat \ {0} /\ i + 1 \in Asked(d, type)
<1> DEFINE s == pkg.msg_list
           n == pkg'.msg_list
<1>1. s \in Seq(Package) /\ s # <<>> /\ n = Tail(s)
  BY PkgFields
<1> HIDE DEF s, n
<1>2. /\ Len(s) \in Nat \ {0} /\ DOMAIN s = 1 .. Len(s) /\ DOMAIN n = 1 .. Len(s) - 1
      /\ \A i \in 1 .. Len(s) - 1 : n[i] = s[i + 1]
  BY <1>1, TailFields
<1>3. \A i : i \in DOMAIN n <=> i \in Nat \ {0} /\ i + 1 \in DOMAIN s
  BY <1>2
<1>4. ASSUME NEW d, NEW type, NEW i
      PROVE  i \in {k \in DOMAIN n : n[k].source = d /\ n[k].data.type = type}
               <=> /\ i \in Nat \ {0}
                   /\ i + 1 \in {k \in DOMAIN s : s[k].source = d /\ s[k].data.type = type}
  BY <1>2, <1>3
<1> QED BY <1>4 DEF Asked, s, n

LEMMA AnsweredSame ==
  ASSUME NEW d, pkg'.inbox[d] = pkg.inbox[d]
  PROVE  \A type : Answered(d, type)' = Answered(d, type)
BY DEF Answered

LEMMA AnsweredMore ==
  ASSUME pkg \in PkgType, NEW d \in Client, NEW e \in Reply,
         pkg'.inbox[d] = Append(pkg.inbox[d], e)
  PROVE  \A type : Answered(d, type)' = Answered(d, type)
                     \cup IF e.type = type THEN {Len(pkg.inbox[d]) + 1} ELSE {}
<1> DEFINE s == pkg.inbox[d]
           n == pkg'.inbox[d]
<1>1. s \in Seq(Reply)
  BY PkgFields
<1>2. n = Append(s, e)
  OBVIOUS
<1> HIDE DEF s, n
<1>3. /\ Len(s) \in Nat /\ DOMAIN s = 1 .. Len(s) /\ DOMAIN n = 1 .. Len(s) + 1
      /\ n[Len(s) + 1] = e /\ \A i \in 1 .. Len(s) : n[i] = s[i]
  BY <1>1, <1>2, AppendFields
<1>4. ASSUME NEW type
      PROVE  {i \in DOMAIN n : n[i].type = type}
               = {i \in DOMAIN s : s[i].type = type}
                   \cup IF e.type = type THEN {Len(s) + 1} ELSE {}
  <2> DEFINE I == {i \in DOMAIN n : n[i].type = type}
             J == {i \in DOMAIN s : s[i].type = type}
             K == IF e.type = type THEN {Len(s) + 1} ELSE {}
  <2>1. ASSUME NEW i \in 1 .. Len(s) PROVE i \in I <=> i \in J /\ i \notin K
    BY <1>3
  <2>2. Len(s) + 1 \in I <=> Len(s) + 1 \in K
    BY <1>3
  <2>3. I \subseteq 1 .. Len(s) + 1 /\ J \subseteq 1 .. Len(s) /\ K \subseteq {Len(s) + 1}
    BY <1>3
  <2>4. \A i \in 1 .. Len(s) + 1 : i = Len(s) + 1 \/ i \in 1 .. Len(s)
    BY <1>3, OneMore
  <2>5. \A i \in 1 .. Len(s) : i # Len(s) + 1
    BY <1>3
  <2> HIDE DEF I, J, K
  <2>6. I = J \cup K
    BY <2>1, <2>2, <2>3, <2>4, <2>5
  <2> QED BY <2>6 DEF I, J, K
<1> QED BY <1>4 DEF Answered, s, n

LEMMA AnsweredFewer ==
  ASSUME pkg \in PkgType, NEW d \in Client, pkg.inbox[d] # <<>>,
         pkg'.inbox[d] = Tail(pkg.inbox[d])
  PROVE  \A type : \A i :
           i \in Answered(d, type)' <=> i \in Nat \ {0} /\ i + 1 \in Answered(d, type)
<1> DEFINE s == pkg.inbox[d]
           n == pkg'.inbox[d]
<1>1. s \in Seq(Reply) /\ s # <<>> /\ n = Tail(s)
  BY PkgFields
<1> HIDE DEF s, n
<1>2. /\ Len(s) \in Nat \ {0} /\ DOMAIN s = 1 .. Len(s) /\ DOMAIN n = 1 .. Len(s) - 1
      /\ \A i \in 1 .. Len(s) - 1 : n[i] = s[i + 1]
  BY <1>1, TailFields
<1>3. \A i : i \in DOMAIN n <=> i \in Nat \ {0} /\ i + 1 \in DOMAIN s
  BY <1>2
<1>4. ASSUME NEW type, NEW i
      PROVE  i \in {k \in DOMAIN n : n[k].type = type}
               <=> i \in Nat \ {0} /\ i + 1 \in {k \in DOMAIN s : s[k].type = type}
  BY <1>2, <1>3
<1> QED BY <1>4 DEF Answered, s, n

LEMMA WritingSame ==
  ASSUME server' = server
  PROVE  \A d, type : Writing(d, type)' = Writing(d, type)
BY DEF Writing

\* The compositor writes one package at a time, or none.
LEMMA WritingNone ==
  /\ server = <<>> => \A d, type : Writing(d, type) = {}
  /\ server' = <<>> => \A d, type : Writing(d, type)' = {}
<1>1. DOMAIN <<>> = {}
  OBVIOUS
<1> QED BY <1>1 DEF Writing

LEMMA WritingOne ==
  ASSUME NEW x
  PROVE  /\ server = <<x>> =>
              \A d, type : Writing(d, type) = IF x.target = d /\ x.data.type = type THEN {1} ELSE {}
         /\ server' = <<x>> =>
              \A d, type : Writing(d, type)' = IF x.target = d /\ x.data.type = type THEN {1} ELSE {}
<1>1. DOMAIN <<x>> = {1} /\ <<x>>[1] = x
  OBVIOUS
<1>2. server = <<x>> => DOMAIN server = {1} /\ server[1] = x
  BY <1>1
<1>3. server' = <<x>> => DOMAIN server' = {1} /\ server'[1] = x
  BY <1>1
<1> QED BY <1>2, <1>3 DEF Writing

LEMMA OnlyOne ==
  ASSUME NEW X, NEW s \in Seq(X), Len(s) <= 1, s # << >>
  PROVE  s = <<s[1]>> /\ s[1] \in X /\ Head(s) = s[1] /\ DOMAIN s = {1}
<1>1. Len(s) \in Nat \ {0} /\ DOMAIN s = 1 .. Len(s) /\ Head(s) = s[1] /\ Head(s) \in X
  BY TailFields
<1>2. Len(s) = 1
  BY <1>1
<1>3. s = <<s[1]>>
  BY <1>1, <1>2
<1> QED BY <1>1, <1>2, <1>3

LEMMA ServerIs ==
  ASSUME server \in Seq(Write), Len(server) <= 1, server # <<>>
  PROVE  /\ server = <<server[1]>> /\ server[1] \in Write
         /\ Head(server) = server[1] /\ DOMAIN server = {1}
BY OnlyOne

-----------------------------------------------------------------------------
(* The conversation: who waits, and for what.                              *)

\* One package of a write: it is done, or goes to a client that is told.
LEMMA SendEffect ==
  ASSUME TypeOK, Waits, ServerSend
  PROVE  /\ server # <<>> /\ UNCHANGED <<g, screen, client>>
         /\ \/ pkg' = pkg /\ server' = <<>> /\ server[1].data.type \notin Answers
            \/ \E t \in Client :
                 /\ pkg' = send_to_client(pkg, t, server[1].data) /\ Told(server[1], t)
                 /\ \/ server' = <<>>
                    \/ /\ server[1].data.type \notin Answers
                       /\ server' = <<[server[1] EXCEPT !.at = @ + 1]>>
                 /\ server[1].data.type \in Answers => t = server[1].target
<1> DEFINE w == server[1]
           more == [w EXCEPT !.at = @ + 1]
<1>1. server # <<>> /\ UNCHANGED <<g, screen, client>>
  BY DEF ServerSend
<1>2. w \in Write /\ Head(server) = w /\ DOMAIN server = {1}
  BY <1>1, ServerIs DEF TypeOK
<1>3. w.data.type \in Answers => w.target \in Client /\ w.at = 1
  BY <1>2 DEF Waits
<1>4. /\ w.target \in Client \cup {Everybody} /\ w.at \in Nat \ {0}
      /\ more.target = w.target /\ more.at = w.at + 1
  BY <1>2 DEF Write
<1>5. pkg.clients \in Seq(Client) /\ Everybody \notin Client
  BY PkgFields, Sizes DEF TypeOK
<1>6. IF WriteDone(pkg, w) THEN server' = <<>> /\ UNCHANGED pkg
      ELSE /\ pkg' = send_to_client(pkg, Target(pkg, w), w.data)
           /\ server' = IF WriteDone(pkg, more) THEN <<>> ELSE <<more>>
  BY <1>2 DEF ServerSend
<1>7. w.data.type \in Answers => /\ ~WriteDone(pkg, w) /\ WriteDone(pkg, more)
                                 /\ Target(pkg, w) = w.target
  BY <1>3, <1>4, <1>5 DEF WriteDone, Target
<1>8. ASSUME ~WriteDone(pkg, w) PROVE Target(pkg, w) \in Client /\ Told(w, Target(pkg, w))
  <2>1. CASE w.target = Everybody
    <3>1. w.at \in 1 .. Len(pkg.clients) /\ DOMAIN pkg.clients = 1 .. Len(pkg.clients)
      BY <1>4, <1>5, <1>8, <2>1 DEF WriteDone
    <3>2. pkg.clients[w.at] \in Client /\ pkg.clients[w.at] \in Range(pkg.clients)
      BY <1>5, <3>1, InRange
    <3> QED BY <2>1, <3>2 DEF Target, Told
  <2>2. CASE w.target # Everybody
    BY <1>4, <2>2 DEF Target, Told
  <2> QED BY <2>1, <2>2
<1> HIDE DEF w, more
<1>9. CASE WriteDone(pkg, w)
  BY <1>1, <1>6, <1>7, <1>9 DEF w
<1>10. CASE ~WriteDone(pkg, w)
  <2> DEFINE t == Target(pkg, w)
  <2>1. t \in Client /\ pkg' = send_to_client(pkg, t, w.data) /\ Told(w, t)
    BY <1>6, <1>8, <1>10
  <2>2. server' = <<>> \/ (w.data.type \notin Answers /\ server' = <<more>>)
    BY <1>6, <1>7, <1>10
  <2>3. w.data.type \in Answers => t = w.target
    BY <1>7
  <2> QED BY <1>1, <2>1, <2>2, <2>3 DEF w, more
<1> QED BY <1>9, <1>10

\* The questions and answers of a client stay as they are.
SameTalk(c) ==
  /\ \A type \in Questions : Asked(c, type)' = Asked(c, type)
  /\ \A type \in Answers : Writing(c, type)' = Writing(c, type)
  /\ \A type \in Answers : Answered(c, type)' = Answered(c, type)

LEMMA SameTalkAll ==
  ASSUME NEW c, SameTalk(c)
  PROVE  /\ AllAsked(c)' = AllAsked(c) /\ AllWriting(c)' = AllWriting(c)
         /\ AllAnswered(c)' = AllAnswered(c)
BY DEF SameTalk, AllAsked, AllWriting, AllAnswered, Questions, Answers

LEMMA QuietStays ==
  ASSUME NEW c, Quiet(c), SameTalk(c)
  PROVE  Quiet(c)'
BY SameTalkAll DEF Quiet

LEMMA AsksIs ==
  /\ \A want \in Answers : Asks[want] \in Questions
  /\ Asks["WELCOME"] = "HELLO" /\ Asks["INIT"] = "NEW"
BY DEF Asks, Answers, Questions

LEMMA WaitsUnaffected ==
  ASSUME NEW c, ClientWaits(c), client'[c] = client[c], SameTalk(c)
  PROVE  ClientWaits(c)'
<1>1. /\ AllAsked(c)' = AllAsked(c) /\ AllWriting(c)' = AllWriting(c)
      /\ AllAnswered(c)' = AllAnswered(c)
  BY SameTalkAll
<1>2. Quiet(c) => Quiet(c)'
  BY <1>1 DEF Quiet
<1>3. ASSUME NEW want \in Answers, Once(c, want) PROVE Once(c, want)'
  <2>1. /\ Asked(c, Asks[want])' = Asked(c, Asks[want]) /\ Writing(c, want)' = Writing(c, want)
        /\ Answered(c, want)' = Answered(c, want)
    BY AsksIs DEF SameTalk
  <2> QED BY <1>1, <1>3, <2>1 DEF Once
<1>4. client[c].pc = "wait" => Once(c, client[c].want)' /\ client[c].want \in Answers
  BY <1>3 DEF ClientWaits
<1> QED BY <1>2, <1>4 DEF ClientWaits

LEMMA RestWaits ==
  ASSUME Waits, UNCHANGED <<pkg, server, client>>
  PROVE  Waits'
<1>1. \A c \in Client : SameTalk(c)
  BY AskedSame, WritingSame, AnsweredSame DEF SameTalk
<1>2. \A c \in Client : ClientWaits(c)'
  BY <1>1, WaitsUnaffected DEF Waits
<1> QED BY <1>2 DEF Waits

LEMMA MouseWaits ==
  ASSUME TypeOK, Ordered(g), Waits, server = <<>>, UNCHANGED <<pkg, client>>,
         NEW w, EventFor(g, w)
  PROVE  Waits'
<1>1. PICK type \in Events :
        server' = <<write_server(g.win[w].owner, [type |-> type, wid |-> w])>>
  BY DEF EventFor
<1> DEFINE x == write_server(g.win[w].owner, [type |-> type, wid |-> w])
<1>2. server' = <<x>> /\ x.data.type \notin Answers
  BY <1>1 DEF write_server, Events, Answers
<1> HIDE DEF x
<1>3. \A c \in Client : SameTalk(c)
  BY <1>2, AskedSame, WritingOne, WritingNone, AnsweredSame DEF SameTalk
<1>4. \A c \in Client : ClientWaits(c)'
  BY <1>3, WaitsUnaffected DEF Waits
<1>5. \A i \in DOMAIN server' : server'[i].data.type \notin Answers
  <2>1. DOMAIN <<x>> = {1} /\ <<x>>[1] = x
    OBVIOUS
  <2> QED BY <1>2, <2>1
<1> QED BY <1>4, <1>5 DEF Waits

LEMMA SendWaits ==
  ASSUME TypeOK, Waits, ServerSend
  PROVE  Waits'
<1> DEFINE x == server[1]
<1>1. /\ server # <<>> /\ UNCHANGED <<g, screen, client>>
      /\ \/ pkg' = pkg /\ server' = <<>> /\ x.data.type \notin Answers
         \/ \E t \in Client :
              /\ pkg' = send_to_client(pkg, t, x.data)
              /\ \/ server' = <<>>
                 \/ x.data.type \notin Answers /\ server' = <<[x EXCEPT !.at = @ + 1]>>
              /\ x.data.type \in Answers => t = x.target
  BY SendEffect
<1>2. pkg \in PkgType /\ x \in Write /\ server = <<x>> /\ client \in [Client -> ClientType]
  BY <1>1, ServerIs DEF TypeOK
<1>3. x.data \in Reply
  BY <1>2 DEF Write
<1> DEFINE y == [x EXCEPT !.at = @ + 1]
<1>4. y.data = x.data /\ y.target = x.target
  BY <1>2 DEF Write
<1> HIDE DEF x, y
<1>5. server' = <<>> \/ (server' = <<y>> /\ x.data.type \notin Answers)
  BY <1>1 DEF x, y
<1>6. pkg'.msg_list = pkg.msg_list
  <2>1. ASSUME NEW t \in Client, pkg' = send_to_client(pkg, t, x.data)
        PROVE  pkg'.msg_list = pkg.msg_list
    BY <1>2, <1>3, <2>1, ToClient
  <2> QED BY <1>1, <2>1 DEF x
<1>7. \A c, type : Asked(c, type)' = Asked(c, type)
  BY <1>6, AskedSame
<1>8. ASSUME NEW c \in Client PROVE ClientWaits(c)'
  <2>1. CASE pkg' = pkg /\ server' = <<>> /\ x.data.type \notin Answers
    <3>1. SameTalk(c)
      BY <1>2, <1>7, <2>1, WritingOne, WritingNone, AnsweredSame DEF SameTalk
    <3> QED BY <1>1, <3>1, WaitsUnaffected DEF Waits
  <2>2. CASE \E t \in Client :
              /\ pkg' = send_to_client(pkg, t, x.data)
              /\ x.data.type \in Answers => t = x.target
    <3>1. PICK t \in Client : pkg' = send_to_client(pkg, t, x.data)
                              /\ (x.data.type \in Answers => t = x.target)
      BY <2>2
    <3>2. pkg'.inbox = [pkg.inbox EXCEPT ![t] = Append(pkg.inbox[t], x.data)]
      BY <1>2, <1>3, <3>1, ToClient
    <3>3. pkg'.inbox[t] = Append(pkg.inbox[t], x.data) /\ (c # t => pkg'.inbox[c] = pkg.inbox[c])
      BY <1>2, <3>2, PkgFields
    <3> DEFINE k == Len(pkg.inbox[t]) + 1
    <3>4. \A type : Answered(t, type)' = Answered(t, type)
                      \cup IF x.data.type = type THEN {k} ELSE {}
      BY <1>2, <1>3, <3>3, AnsweredMore
    <3> HIDE DEF k
    <3>5. CASE x.data.type \notin Answers
      <4>1. \A type \in Answers : Answered(c, type)' = Answered(c, type)
        <5>1. CASE c = t
          BY <3>4, <3>5, <5>1
        <5>2. CASE c # t
          BY <3>3, <5>2, AnsweredSame
        <5> QED BY <5>1, <5>2
      <4>2. \A type \in Answers : Writing(c, type) = {} /\ Writing(c, type)' = {}
        BY <1>2, <1>4, <1>5, <3>5, WritingOne, WritingNone
      <4>3. SameTalk(c)
        BY <1>7, <4>1, <4>2 DEF SameTalk
      <4> QED BY <1>1, <4>3, WaitsUnaffected DEF Waits
    <3>6. CASE x.data.type \in Answers
      <4>1. t = x.target /\ server' = <<>>
        BY <1>5, <3>1, <3>6
      <4>2. CASE c # t
        <5>1. \A type \in Answers : Writing(c, type) = {} /\ Writing(c, type)' = {}
          BY <1>2, <4>1, <4>2, WritingOne, WritingNone
        <5>2. SameTalk(c)
          BY <1>7, <3>3, <4>2, <5>1, AnsweredSame DEF SameTalk
        <5> QED BY <1>1, <5>2, WaitsUnaffected DEF Waits
      <4>3. CASE c = t
        <5>1. \A type : Writing(c, type) = IF x.data.type = type THEN {1} ELSE {}
          BY <1>2, <4>1, <4>3, WritingOne
        <5>2. AllWriting(c) # {}
          BY <3>6, <5>1 DEF AllWriting, Answers
        <5>3. ClientWaits(c) /\ client[c].pc \in {"none", "idle", "send", "wait", "lost"}
          BY <1>2, ClientFields DEF Waits
        <5>4. client'[c] = client[c] /\ client[c].pc \in {"wait", "lost"}
          BY <1>1, <5>2, <5>3 DEF ClientWaits, Quiet
        <5>5. CASE client[c].pc = "lost"
          BY <5>4, <5>5 DEF ClientWaits
        <5>6. CASE client[c].pc = "wait"
          <6>0. PICK want : want = client[c].want
            OBVIOUS
          <6>1. /\ want \in Answers /\ AllAsked(c) = {} /\ AllAnswered(c) = {}
                /\ 1 \in Writing(c, want)
            BY <5>2, <5>3, <5>6, <6>0 DEF ClientWaits, Once
          <6>2. x.data.type = want
            BY <5>1, <6>1
          <6>3. AllAsked(c)' = {} /\ AllWriting(c)' = {}
            BY <1>7, <4>1, <6>1, WritingNone DEF AllAsked, AllWriting
          <6>4. Answered(c, want)' = {k} /\ AllAnswered(c)' = {k}
            <7>1. Answered(c, "WELCOME") = {} /\ Answered(c, "INIT") = {}
              BY <6>1 DEF AllAnswered
            <7>2. \A type \in Answers :
                    Answered(c, type)' = IF want = type THEN {k} ELSE {}
              BY <3>4, <4>3, <6>2, <7>1 DEF Answers
            <7>3. "WELCOME" \in Answers /\ "INIT" \in Answers /\ want \in {"WELCOME", "INIT"}
              BY <6>1 DEF Answers
            <7>4. /\ Answered(c, want)' = {k}
                  /\ Answered(c, "WELCOME")' = IF want = "WELCOME" THEN {k} ELSE {}
                  /\ Answered(c, "INIT")' = IF want = "INIT" THEN {k} ELSE {}
              <8>1. Answered(c, want)' = {k}
                BY <6>1, <7>2
              <8>2. Answered(c, "WELCOME")' = IF want = "WELCOME" THEN {k} ELSE {}
                BY <7>2, <7>3
              <8>3. Answered(c, "INIT")' = IF want = "INIT" THEN {k} ELSE {}
                BY <7>2, <7>3
              <8> QED BY <8>1, <8>2, <8>3
            <7> QED BY <7>3, <7>4 DEF AllAnswered
          <6>5. Once(c, want)'
            BY <6>3, <6>4 DEF Once
          <6> QED BY <5>4, <5>6, <6>0, <6>1, <6>5 DEF ClientWaits
        <5> QED BY <5>4, <5>5, <5>6
      <4> QED BY <4>2, <4>3
    <3> QED BY <3>5, <3>6
  <2> QED BY <1>1, <2>1, <2>2 DEF x
<1>9. \A i \in DOMAIN server' : server'[i].data.type \notin Answers
  <2>1. DOMAIN <<y>> = {1} /\ <<y>>[1] = y /\ DOMAIN <<>> = {}
    OBVIOUS
  <2> QED BY <1>4, <1>5, <2>1
<1> QED BY <1>6, <1>8, <1>9 DEF Waits

\* The head of a queue has been read.
LEMMA AskedAt ==
  ASSUME pkg \in PkgType, pkg.msg_list # <<>>, pkg'.msg_list = Tail(pkg.msg_list), NEW c
  PROVE  /\ AllAsked(c) \subseteq Nat \ {0}
         /\ \A i : i \in AllAsked(c)' <=> i \in Nat \ {0} /\ i + 1 \in AllAsked(c)
         /\ 1 \in AllAsked(c) <=>
              pkg.msg_list[1].source = c /\ pkg.msg_list[1].data.type \in Questions
         /\ \A type : 1 \in Asked(c, type) <=>
              pkg.msg_list[1].source = c /\ pkg.msg_list[1].data.type = type
<1>1. pkg.msg_list \in Seq(Package)
  BY PkgFields
<1>2. DOMAIN pkg.msg_list \subseteq Nat \ {0} /\ 1 \in DOMAIN pkg.msg_list
  <2>1. DOMAIN pkg.msg_list = 1 .. Len(pkg.msg_list) /\ Len(pkg.msg_list) \in Nat \ {0}
    BY <1>1, TailFields
  <2> QED BY <2>1
<1>3. \A i : /\ i \in Asked(c, "HELLO")' <=> i \in Nat \ {0} /\ i + 1 \in Asked(c, "HELLO")
             /\ i \in Asked(c, "NEW")' <=> i \in Nat \ {0} /\ i + 1 \in Asked(c, "NEW")
  BY AskedFewer
<1>4. \A i : i \in AllAsked(c)' <=> i \in Nat \ {0} /\ i + 1 \in AllAsked(c)
  BY <1>3 DEF AllAsked
<1>5. \A type : 1 \in Asked(c, type) <=>
        pkg.msg_list[1].source = c /\ pkg.msg_list[1].data.type = type
  BY <1>2 DEF Asked
<1>6. AllAsked(c) \subseteq Nat \ {0}
  BY <1>2 DEF AllAsked, Asked
<1>7. 1 \in AllAsked(c) <=>
        pkg.msg_list[1].source = c /\ pkg.msg_list[1].data.type \in Questions
  BY <1>5 DEF AllAsked, Questions
<1> QED BY <1>4, <1>5, <1>6, <1>7

\* A message of somebody else, or one that is no question, has been read.
LEMMA OthersWait ==
  ASSUME pkg \in PkgType, pkg.msg_list # <<>>, pkg'.msg_list = Tail(pkg.msg_list),
         pkg'.inbox = pkg.inbox, NEW c, 1 \notin AllAsked(c),
         \A type \in Answers : Writing(c, type) = {} /\ Writing(c, type)' = {},
         client'[c] = client[c], ClientWaits(c)
  PROVE  ClientWaits(c)'
<1>1. /\ AllAsked(c) \subseteq Nat \ {0}
      /\ \A i : i \in AllAsked(c)' <=> i \in Nat \ {0} /\ i + 1 \in AllAsked(c)
  BY AskedAt
<1>2. \A type : Answered(c, type)' = Answered(c, type)
  BY AnsweredSame
<1>3. AllAnswered(c)' = AllAnswered(c)
  BY <1>2 DEF AllAnswered
<1>4. AllWriting(c) = {} /\ AllWriting(c)' = {}
  BY DEF AllWriting, Answers
<1>5. AllAsked(c) = {} => AllAsked(c)' = {}
  BY <1>1
<1>6. Quiet(c) => Quiet(c)'
  BY <1>3, <1>4, <1>5 DEF Quiet
<1>7. ASSUME NEW want \in Answers, Once(c, want) PROVE Once(c, want)'
  <2>1. CASE \E i \in Asked(c, Asks[want]) : AllAsked(c) = {i} /\ AllAnswered(c) = {}
    <3>1. PICK i \in Asked(c, Asks[want]) : AllAsked(c) = {i} /\ AllAnswered(c) = {}
      BY <2>1
    <3> DEFINE k == i - 1
    <3>2. i \in Nat \ {0} /\ i # 1
      BY <1>1, <3>1
    <3>3. k \in Nat \ {0} /\ k + 1 = i
      BY <3>2
    <3> HIDE DEF k
    <3>4. k \in Asked(c, Asks[want])'
      BY <3>3, AskedFewer
    <3>5. AllAsked(c)' = {k}
      <4>1. ASSUME NEW j PROVE j \in AllAsked(c)' <=> j = k
        <5>1. j \in AllAsked(c)' <=> j \in Nat \ {0} /\ j + 1 = i
          BY <1>1, <3>1
        <5> QED BY <3>3, <5>1
      <4> QED BY <4>1
    <3> QED BY <1>3, <1>4, <3>1, <3>4, <3>5 DEF Once
  <2>2. CASE AllAsked(c) = {} /\ \E i \in Answered(c, want) : AllAnswered(c) = {i}
    <3>1. \E i \in Answered(c, want)' : AllAnswered(c)' = {i}
      BY <1>2, <1>3, <2>2
    <3> QED BY <1>4, <1>5, <2>2, <3>1 DEF Once
  <2> QED BY <1>7, <2>1, <2>2 DEF Once
<1>8. client[c].pc = "wait" => client[c].want \in Answers /\ Once(c, client[c].want)'
  BY <1>7 DEF ClientWaits
<1> QED BY <1>6, <1>8 DEF ClientWaits

LEMMA PackageWaits ==
  ASSUME TypeOK, Waits, pkg.msg_list # <<>>, server = <<>>, Replied(pkg.msg_list[1]),
         pkg' = read_server(pkg), UNCHANGED client
  PROVE  Waits'
<1> DEFINE m == pkg.msg_list[1]
<1>1. pkg \in PkgType /\ client \in [Client -> ClientType]
  BY DEF TypeOK
<1>2. pkg'.msg_list = Tail(pkg.msg_list) /\ pkg'.inbox = pkg.inbox
  BY <1>1, ByServer
<1>3. \A c, type : Writing(c, type) = {}
  BY WritingNone
<1>4. m \in Package
  <2>1. pkg.msg_list \in Seq(Package)
    BY <1>1, PkgFields
  <2> QED BY <2>1, TailFields
<1>5. m.source \in Client /\ Everybody \notin Client
  BY <1>4, Sizes DEF Package
<1> HIDE DEF m
<1>6. PICK x : /\ m.data.type \notin Questions => server' = <<>>
               /\ m.data.type \in Questions =>
                    /\ server' = <<x>> /\ x.target = m.source /\ x.at = 1
                    /\ x.data.type = IF m.data.type = "HELLO" THEN "WELCOME" ELSE "INIT"
  <2>1. CASE m.data.type \notin Questions /\ UNCHANGED server
    BY <2>1
  <2>2. CASE m.data.type = "HELLO" /\ Answer(m.source, "WELCOME", 0)
    <3> DEFINE x == write_server(m.source, [type |-> "WELCOME", wid |-> 0])
    <3>1. server' = <<x>> /\ x.target = m.source /\ x.at = 1 /\ x.data.type = "WELCOME"
      BY <2>2 DEF Answer, write_server
    <3> HIDE DEF x
    <3> QED BY <2>2, <3>1 DEF Questions
  <2>3. CASE m.data.type = "NEW" /\ Answer(m.source, "INIT", g.wid)
    <3> DEFINE x == write_server(m.source, [type |-> "INIT", wid |-> g.wid])
    <3>1. server' = <<x>> /\ x.target = m.source /\ x.at = 1 /\ x.data.type = "INIT"
      BY <2>3 DEF Answer, write_server
    <3> HIDE DEF x
    <3> QED BY <2>3, <3>1 DEF Questions
  <2> QED BY <2>1, <2>2, <2>3 DEF Replied, m
<1>7. ASSUME NEW c \in Client PROVE ClientWaits(c)'
  <2>1. /\ 1 \in AllAsked(c) <=> m.source = c /\ m.data.type \in Questions
        /\ \A type : 1 \in Asked(c, type) <=> m.source = c /\ m.data.type = type
        /\ \A i : i \in AllAsked(c)' <=> i \in Nat \ {0} /\ i + 1 \in AllAsked(c)
    BY <1>1, <1>2, AskedAt DEF m
  <2>2. ClientWaits(c) /\ client'[c] = client[c]
    BY DEF Waits
  <2>3. CASE 1 \notin AllAsked(c)
    <3>1. \A type \in Answers : Writing(c, type)' = {}
      BY <1>6, <2>1, <2>3, WritingNone, WritingOne
    <3> QED BY <1>1, <1>2, <1>3, <2>2, <2>3, <3>1, OthersWait
  <2>4. CASE 1 \in AllAsked(c)
    <3>1. m.source = c /\ m.data.type \in Questions
      BY <2>1, <2>4
    <3>2. client[c].pc \in {"wait", "lost"}
      BY <1>1, <2>2, <2>4, ClientFields DEF ClientWaits, Quiet
    <3>3. CASE client[c].pc = "lost"
      BY <2>2, <3>3 DEF ClientWaits
    <3>4. CASE client[c].pc = "wait"
      <4>0. PICK want : want = client[c].want
        OBVIOUS
      <4>1. want \in Answers /\ Once(c, want)
        BY <2>2, <3>4, <4>0 DEF ClientWaits
      <4>2. PICK i \in Asked(c, Asks[want]) : AllAsked(c) = {i} /\ AllAnswered(c) = {}
        BY <2>4, <4>1 DEF Once
      <4>3. i = 1 /\ m.data.type = Asks[want]
        BY <2>1, <2>4, <4>2
      <4>4. x.data.type = want
        BY <1>6, <3>1, <4>1, <4>3, AsksIs DEF Answers
      <4>5. 1 \in Writing(c, want)'
        <5>1. server' = <<x>> /\ x.target = c
          BY <1>6, <3>1
        <5>2. \A d, type : Writing(d, type)' = IF x.target = d /\ x.data.type = type THEN {1} ELSE {}
          BY <5>1, WritingOne
        <5> QED BY <4>4, <5>1, <5>2
      <4>6. AllAsked(c)' = {}
        <5> SUFFICES ASSUME NEW j \in AllAsked(c)' PROVE FALSE
          OBVIOUS
        <5>1. j \in Nat \ {0} /\ j + 1 = 1
          BY <2>1, <4>2, <4>3
        <5> QED BY <5>1
      <4>7. AllAnswered(c)' = {}
        <5>1. \A type : Answered(c, type)' = Answered(c, type)
          BY <1>2, AnsweredSame
        <5> QED BY <4>2, <5>1 DEF AllAnswered
      <4>8. Once(c, want)'
        BY <4>5, <4>6, <4>7 DEF Once
      <4> QED BY <2>2, <3>4, <4>0, <4>1, <4>8 DEF ClientWaits
    <3> QED BY <3>2, <3>3, <3>4
  <2> QED BY <2>3, <2>4
<1>8. \A i \in DOMAIN server' : server'[i].data.type \in Answers =>
        server'[i].target \in Client /\ server'[i].at = 1
  <2>1. DOMAIN <<x>> = {1} /\ <<x>>[1] = x /\ DOMAIN <<>> = {}
    OBVIOUS
  <2> QED BY <1>5, <1>6, <2>1
<1>9. \A i \in DOMAIN pkg'.msg_list : pkg'.msg_list[i].data.type # "none"
  <2>1. pkg.msg_list \in Seq(Package)
    BY <1>1, PkgFields
  <2>2. /\ DOMAIN pkg'.msg_list = 1 .. Len(pkg.msg_list) - 1 /\ Len(pkg.msg_list) \in Nat \ {0}
        /\ DOMAIN pkg.msg_list = 1 .. Len(pkg.msg_list)
        /\ \A i \in 1 .. Len(pkg.msg_list) - 1 : pkg'.msg_list[i] = pkg.msg_list[i + 1]
    BY <1>2, <2>1, TailFields
  <2>3. \A i \in DOMAIN pkg'.msg_list : i + 1 \in DOMAIN pkg.msg_list
                                        /\ pkg'.msg_list[i] = pkg.msg_list[i + 1]
    BY <2>2
  <2> QED BY <2>3 DEF Waits
<1> QED BY <1>7, <1>8, <1>9 DEF Waits

\* A client that was quiet sends a message, or starts to.
LEMMA StartsWaits ==
  ASSUME TypeOK, Waits, NEW c \in Client, client[c].pc \in {"none", "idle"},
         NEW m \in Request, NEW want \in Answers \cup {"nothing"}, NEW ws \in SUBSET Nat,
         Becomes(c, "send", m, want, ws),
         IF m.type \in Questions THEN want \in Answers /\ m.type = Asks[want]
         ELSE want = "nothing" /\ m.type # "none",
         pkg'.msg_list = pkg.msg_list, pkg'.inbox = pkg.inbox, server' = server
  PROVE  Waits'
<1>1. /\ client'[c].pc = "send" /\ client'[c].msg = m /\ client'[c].want = want
      /\ \A d \in Client : d # c => client'[d] = client[d]
  BY BecomesFields DEF TypeOK
<1>2. \A d \in Client : SameTalk(d)
  BY AskedSame, WritingSame, AnsweredSame DEF SameTalk
<1>3. ASSUME NEW d \in Client PROVE ClientWaits(d)'
  <2>1. CASE d # c
    BY <1>1, <1>2, <2>1, WaitsUnaffected DEF Waits
  <2>2. CASE d = c
    <3>1. Quiet(c)
      BY DEF Waits, ClientWaits
    <3>2. Quiet(c)'
      BY <1>2, <3>1, QuietStays
    <3> QED BY <1>1, <2>2, <3>2 DEF ClientWaits
  <2> QED BY <2>1, <2>2
<1> QED BY <1>3 DEF Waits

\* A message of the client has been put in the queue.
LEMMA PutWaits ==
  ASSUME TypeOK, Waits, NEW c \in Client, ClientSend(c)
  PROVE  Waits'
<1>0. PICK m, want : m = client[c].msg /\ want = client[c].want
  OBVIOUS
<1> DEFINE pc == IF want = "nothing" THEN "idle" ELSE "wait"
           e == [source |-> c, data |-> m]
           k == Len(pkg.msg_list) + 1
<1>1. pkg \in PkgType /\ client \in [Client -> ClientType]
  BY DEF TypeOK
<1>2. /\ client[c].pc = "send" /\ pkg' = send_to_server(pkg, c, m)
      /\ Becomes(c, pc, Nothing, want, client[c].windows)
      /\ UNCHANGED <<g, screen, server>>
  BY <1>0, <1>1, Sends
<1>3. /\ m \in Request /\ want \in Answers \cup {"nothing"}
      /\ client[c].windows \in SUBSET Nat
  BY <1>0, <1>1, ClientFields
<1>4. /\ client'[c].pc = pc /\ client'[c].want = want
      /\ \A d \in Client : d # c => client'[d] = client[d]
  BY <1>1, <1>2, <1>3, NothingTyped, BecomesFields
<1>5. /\ pkg'.inbox = pkg.inbox /\ pkg'.msg_list = Append(pkg.msg_list, e)
      /\ e \in Package /\ e.source = c /\ e.data = m
  BY <1>1, <1>2, <1>3, ToServer DEF Package
<1>6. IF m.type \in Questions THEN want \in Answers /\ m.type = Asks[want]
      ELSE want = "nothing" /\ m.type # "none"
  BY <1>0, <1>2 DEF Waits, ClientWaits
<1>7. Quiet(c)
  BY <1>2 DEF Waits, ClientWaits
<1> HIDE DEF e
<1>8. \A d, type : Asked(d, type)' = Asked(d, type)
                     \cup IF e.source = d /\ e.data.type = type THEN {k} ELSE {}
  BY <1>1, <1>5, AskedMore
<1>9. PICK j : j = k
  OBVIOUS
<1> HIDE DEF k
<1>10. ASSUME NEW d \in Client PROVE ClientWaits(d)'
  <2>1. /\ \A type : Writing(d, type)' = Writing(d, type)
        /\ \A type : Answered(d, type)' = Answered(d, type)
    BY <1>2, <1>5, WritingSame, AnsweredSame
  <2>2. CASE d # c
    <3>1. SameTalk(d)
      BY <1>5, <1>8, <2>1, <2>2 DEF SameTalk
    <3> QED BY <1>4, <2>2, <3>1, WaitsUnaffected DEF Waits
  <2>3. CASE d = c /\ m.type \in Questions
    <3>1. want \in Answers /\ m.type = Asks[want] /\ client'[c].pc = "wait"
      BY <1>4, <1>6, <2>3 DEF Answers
    <3>2. AllWriting(c)' = {} /\ AllAnswered(c)' = {}
      BY <1>7, <2>1, <2>3 DEF Quiet, AllWriting, AllAnswered
    <3>3. Asked(c, "HELLO") = {} /\ Asked(c, "NEW") = {}
      BY <1>7 DEF Quiet, AllAsked
    <3>4. \A type \in Questions : Asked(c, type)' = IF m.type = type THEN {j} ELSE {}
      BY <1>5, <1>8, <1>9, <3>3 DEF Questions
    <3>5. Asked(c, Asks[want])' = {j} /\ AllAsked(c)' = {j}
      <4>1. Asked(c, Asks[want])' = {j}
        BY <2>3, <3>1, <3>4
      <4>2. /\ "HELLO" \in Questions /\ "NEW" \in Questions /\ m.type \in {"HELLO", "NEW"}
        BY <2>3 DEF Questions
      <4>3. Asked(c, "HELLO")' = IF m.type = "HELLO" THEN {j} ELSE {}
        BY <3>4, <4>2
      <4>4. Asked(c, "NEW")' = IF m.type = "NEW" THEN {j} ELSE {}
        BY <3>4, <4>2
      <4> QED BY <4>1, <4>2, <4>3, <4>4 DEF AllAsked
    <3>6. Once(c, want)'
      BY <3>2, <3>5 DEF Once
    <3> QED BY <1>4, <2>3, <3>1, <3>6 DEF ClientWaits
  <2>4. CASE d = c /\ m.type \notin Questions
    <3>1. want = "nothing" /\ client'[c].pc = "idle"
      BY <1>4, <1>6, <2>4
    <3>2. SameTalk(c)
      BY <1>5, <1>8, <2>1, <2>4 DEF SameTalk
    <3>3. Quiet(c)'
      BY <1>7, <3>2, QuietStays
    <3> QED BY <1>4, <2>4, <3>1, <3>3 DEF ClientWaits
  <2> QED BY <2>2, <2>3, <2>4
<1>11. \A i \in DOMAIN pkg'.msg_list : pkg'.msg_list[i].data.type # "none"
  <2>1. m.type # "none"
    BY <1>6 DEF Questions
  <2>2. pkg.msg_list \in Seq(Package)
    BY <1>1, PkgFields
  <2>3. /\ Len(pkg.msg_list) \in Nat /\ DOMAIN pkg.msg_list = 1 .. Len(pkg.msg_list)
        /\ DOMAIN pkg'.msg_list = 1 .. Len(pkg.msg_list) + 1
        /\ pkg'.msg_list[Len(pkg.msg_list) + 1] = e
        /\ \A i \in 1 .. Len(pkg.msg_list) : pkg'.msg_list[i] = pkg.msg_list[i]
    BY <1>5, <2>2, AppendFields
  <2>4. \A i \in DOMAIN pkg'.msg_list : i = Len(pkg.msg_list) + 1 \/ i \in DOMAIN pkg.msg_list
    BY <2>3, OneMore
  <2> QED BY <1>5, <2>1, <2>3, <2>4 DEF Waits
<1> QED BY <1>2, <1>10, <1>11 DEF Waits

\* A client has taken a package from its queue.
LEMMA AnsweredAt ==
  ASSUME pkg \in PkgType, NEW c \in Client, pkg.inbox[c] # <<>>,
         pkg'.inbox[c] = Tail(pkg.inbox[c])
  PROVE  /\ \A type : 1 \in Answered(c, type) <=> pkg.inbox[c][1].type = type
         /\ AllAnswered(c) \in {{}, {1}} => AllAnswered(c)' = {}
<1>1. pkg.inbox[c] \in Seq(Reply)
  BY PkgFields
<1>2. 1 \in DOMAIN pkg.inbox[c]
  <2>1. DOMAIN pkg.inbox[c] = 1 .. Len(pkg.inbox[c]) /\ Len(pkg.inbox[c]) \in Nat \ {0}
    BY <1>1, TailFields
  <2> QED BY <2>1
<1>3. \A type : 1 \in Answered(c, type) <=> pkg.inbox[c][1].type = type
  BY <1>2 DEF Answered
<1>4. \A i : /\ i \in Answered(c, "WELCOME")' <=> i \in Nat \ {0} /\ i + 1 \in Answered(c, "WELCOME")
             /\ i \in Answered(c, "INIT")' <=> i \in Nat \ {0} /\ i + 1 \in Answered(c, "INIT")
  BY AnsweredFewer
<1>5. \A i : i \in AllAnswered(c)' <=> i \in Nat \ {0} /\ i + 1 \in AllAnswered(c)
  BY <1>4 DEF AllAnswered
<1>6. ASSUME AllAnswered(c) \in {{}, {1}} PROVE AllAnswered(c)' = {}
  <2> SUFFICES ASSUME NEW i \in AllAnswered(c)' PROVE FALSE
    OBVIOUS
  <2>1. i \in Nat \ {0} /\ i + 1 = 1
    BY <1>5, <1>6
  <2> QED BY <2>1
<1> QED BY <1>3, <1>6

LEMMA TakesWaits ==
  ASSUME TypeOK, Waits, NEW c \in Client, pkg.inbox[c] # <<>>, pkg' = read_client(pkg, c),
         server' = server, \A d \in Client : d # c => client'[d] = client[d],
         \/ client[c].pc = "idle" /\ client'[c] = client[c]
         \/ /\ client[c].pc = "wait" /\ client'[c].want = "nothing"
            /\ client'[c].pc = IF pkg.inbox[c][1].type = client[c].want THEN "idle" ELSE "lost"
  PROVE  Waits'
<1>1. pkg \in PkgType
  BY DEF TypeOK
<1>2. /\ pkg'.msg_list = pkg.msg_list
      /\ pkg'.inbox = [pkg.inbox EXCEPT ![c] = Tail(pkg.inbox[c])]
  BY <1>1, ByClient
<1>3. /\ pkg'.inbox[c] = Tail(pkg.inbox[c])
      /\ \A d \in Client : d # c => pkg'.inbox[d] = pkg.inbox[d]
  BY <1>1, <1>2, PkgFields
<1>4. /\ \A d, type : Asked(d, type)' = Asked(d, type)
      /\ \A d, type : Writing(d, type)' = Writing(d, type)
  BY <1>2, AskedSame, WritingSame
<1>5. ASSUME NEW d \in Client PROVE ClientWaits(d)'
  <2>1. CASE d # c
    <3>1. SameTalk(d)
      BY <1>3, <1>4, <2>1, AnsweredSame DEF SameTalk
    <3> QED BY <2>1, <3>1, WaitsUnaffected DEF Waits
  <2>2. CASE d = c
    <3>1. AllAsked(c)' = AllAsked(c) /\ AllWriting(c)' = AllWriting(c)
      BY <1>4 DEF AllAsked, AllWriting
    <3>2. /\ \A type : 1 \in Answered(c, type) <=> pkg.inbox[c][1].type = type
          /\ AllAnswered(c) \in {{}, {1}} => AllAnswered(c)' = {}
      BY <1>1, <1>3, AnsweredAt
    <3>3. ClientWaits(c)
      BY DEF Waits
    <3>4. CASE client[c].pc = "idle" /\ client'[c] = client[c]
      <4>1. Quiet(c)'
        BY <3>1, <3>2, <3>3, <3>4 DEF ClientWaits, Quiet
      <4> QED BY <2>2, <3>3, <3>4, <4>1 DEF ClientWaits
    <3>5. CASE /\ client[c].pc = "wait" /\ client'[c].want = "nothing"
               /\ client'[c].pc = IF pkg.inbox[c][1].type = client[c].want THEN "idle" ELSE "lost"
      <4>1. CASE pkg.inbox[c][1].type = client[c].want
        <5>1. 1 \in Answered(c, client[c].want) /\ client[c].want \in Answers
              /\ Once(c, client[c].want)
          BY <3>2, <3>3, <3>5, <4>1 DEF ClientWaits
        <5>2. 1 \in AllAnswered(c)
          BY <5>1 DEF AllAnswered, Answers
        <5>3. AllAsked(c) = {} /\ AllWriting(c) = {} /\ AllAnswered(c) = {1}
          BY <5>1, <5>2 DEF Once
        <5>4. Quiet(c)'
          BY <3>1, <3>2, <5>3 DEF Quiet
        <5> QED BY <2>2, <3>5, <4>1, <5>4 DEF ClientWaits
      <4>2. CASE pkg.inbox[c][1].type # client[c].want
        BY <2>2, <3>5, <4>2 DEF ClientWaits
      <4> QED BY <4>1, <4>2
    <3> QED BY <3>4, <3>5
  <2> QED BY <2>1, <2>2
<1> QED BY <1>2, <1>5 DEF Waits

-----------------------------------------------------------------------------
(* What the clients refer to.                                              *)

LEMMA OwnsStay ==
  ASSUME NEW S, KeepsBut(g, g', S), NEW c, NEW w, w \notin S, Owns(c, w)
  PROVE  Owns(c, w)'
BY DEF KeepsBut, Owns

LEMMA FreeStay ==
  ASSUME KeepsBut(g, g', {}), pkg'.msg_list = pkg.msg_list, NEW c, NEW w, Free(c, w)
  PROVE  Free(c, w)'
<1>1. Owns(c, w)'
  BY OwnsStay DEF Free
<1> QED BY <1>1 DEF Free, Unclosed

\* The claims after a step, one by one.
LEMMA ClaimsFrom ==
  ASSUME \A c \in Client : \A w \in client'[c].windows :
           Free(c, w)' /\ ~(client'[c].pc = "send" /\ IsClose(client'[c].msg, w)),
         \A c \in Client : \A w :
           client'[c].pc = "send" /\ client'[c].msg.type \in {"MOVE", "CLOSE"}
             /\ w = client'[c].msg.wid => Free(c, w)',
         \A i \in DOMAIN pkg'.msg_list : \A c, w :
           /\ pkg'.msg_list[i].data.type \in {"MOVE", "CLOSE"}
           /\ c = pkg'.msg_list[i].source /\ w = pkg'.msg_list[i].data.wid
           => Owns(c, w)' /\ Unclosed(w, i - 1)',
         \A c \in Client : \A i, w :
           client'[c].pc = "wait" /\ i \in Writing(c, "INIT")' /\ w = server'[i].data.wid
             => Free(c, w)',
         \A c \in Client : \A i, w :
           client'[c].pc = "wait" /\ i \in Answered(c, "INIT")' /\ w = pkg'.inbox[c][i].wid
             => Free(c, w)'
  PROVE  Claims'
<1>1. (\A c \in Client : \A w \in client[c].windows :
         Free(c, w) /\ ~(client[c].pc = "send" /\ IsClose(client[c].msg, w)))'
  BY DEF IsClose
<1>2. (\A c \in Client : client[c].pc = "send" /\ client[c].msg.type \in {"MOVE", "CLOSE"}
                          => Free(c, client[c].msg.wid))'
  <2> SUFFICES ASSUME NEW c \in Client, client'[c].pc = "send",
                      client'[c].msg.type \in {"MOVE", "CLOSE"}
               PROVE  Free(c, client[c].msg.wid)'
    OBVIOUS
  <2>1. PICK w : w = client'[c].msg.wid
    OBVIOUS
  <2>2. Free(c, w)'
    BY <2>1
  <2> QED BY <2>1, <2>2
<1>3. (\A i \in DOMAIN pkg.msg_list :
         LET m == pkg.msg_list[i]
         IN  m.data.type \in {"MOVE", "CLOSE"}
               => Owns(m.source, m.data.wid) /\ Unclosed(m.data.wid, i - 1))'
  <2> SUFFICES ASSUME NEW i \in DOMAIN pkg'.msg_list,
                      pkg'.msg_list[i].data.type \in {"MOVE", "CLOSE"}
               PROVE  (LET m == pkg.msg_list[i]
                       IN  Owns(m.source, m.data.wid) /\ Unclosed(m.data.wid, i - 1))'
    OBVIOUS
  <2>1. PICK c, w : c = pkg'.msg_list[i].source /\ w = pkg'.msg_list[i].data.wid
    OBVIOUS
  <2>2. Owns(c, w)' /\ Unclosed(w, i - 1)'
    BY <2>1
  <2> QED BY <2>1, <2>2
<1>4. (\A c \in Client : client[c].pc = "wait" =>
         /\ \A i \in Writing(c, "INIT") : Free(c, server[i].data.wid)
         /\ \A i \in Answered(c, "INIT") : Free(c, pkg.inbox[c][i].wid))'
  <2> SUFFICES ASSUME NEW c \in Client, client'[c].pc = "wait"
               PROVE  /\ \A i \in Writing(c, "INIT")' : Free(c, server[i].data.wid)'
                      /\ \A i \in Answered(c, "INIT")' : Free(c, pkg.inbox[c][i].wid)'
    OBVIOUS
  <2>1. ASSUME NEW i \in Writing(c, "INIT")' PROVE Free(c, server[i].data.wid)'
    <3>1. PICK w : w = server'[i].data.wid
      OBVIOUS
    <3>2. Free(c, w)'
      BY <2>1, <3>1
    <3> QED BY <3>1, <3>2
  <2>2. ASSUME NEW i \in Answered(c, "INIT")' PROVE Free(c, pkg.inbox[c][i].wid)'
    <3>1. PICK w : w = pkg'.inbox[c][i].wid
      OBVIOUS
    <3>2. Free(c, w)'
      BY <2>2, <3>1
    <3> QED BY <3>1, <3>2
  <2> QED BY <2>1, <2>2
<1> QED BY <1>1, <1>2, <1>3, <1>4 DEF Claims

\* The windows of clients stay open, and nothing is put in the queue of the server.
LEMMA ClaimsStay ==
  ASSUME Claims, KeepsBut(g, g', {}), client' = client, pkg'.msg_list = pkg.msg_list,
         \A c \in Client : client[c].pc = "wait" =>
           /\ \A i \in Writing(c, "INIT")' : Free(c, server'[i].data.wid)
           /\ \A i \in Answered(c, "INIT")' : Free(c, pkg'.inbox[c][i].wid)
  PROVE  Claims'
<1>1. \A c, w : Free(c, w) => Free(c, w)'
  BY FreeStay
<1>2. \A c, w : Owns(c, w) => Owns(c, w)'
  BY OwnsStay
<1>3. \A w, n : Unclosed(w, n) => Unclosed(w, n)'
  BY DEF Unclosed
<1>4. \A c \in Client : \A w \in client'[c].windows :
        Free(c, w)' /\ ~(client'[c].pc = "send" /\ IsClose(client'[c].msg, w))
  BY <1>1 DEF Claims
<1>5. \A c \in Client : \A w :
        client'[c].pc = "send" /\ client'[c].msg.type \in {"MOVE", "CLOSE"}
          /\ w = client'[c].msg.wid => Free(c, w)'
  BY <1>1 DEF Claims
<1>6. \A i \in DOMAIN pkg'.msg_list : \A c, w :
        /\ pkg'.msg_list[i].data.type \in {"MOVE", "CLOSE"}
        /\ c = pkg'.msg_list[i].source /\ w = pkg'.msg_list[i].data.wid
        => Owns(c, w)' /\ Unclosed(w, i - 1)'
  BY <1>2, <1>3 DEF Claims
<1>7. \A c \in Client : \A i, w :
        client'[c].pc = "wait" /\ i \in Writing(c, "INIT")' /\ w = server'[i].data.wid
          => Free(c, w)'
  BY <1>1
<1>8. \A c \in Client : \A i, w :
        client'[c].pc = "wait" /\ i \in Answered(c, "INIT")' /\ w = pkg'.inbox[c][i].wid
          => Free(c, w)'
  BY <1>1
<1> QED BY <1>4, <1>5, <1>6, <1>7, <1>8, ClaimsFrom

\* The globals change, or an event is written.
LEMMA QuietClaims ==
  ASSUME Claims, KeepsBut(g, g', {}), UNCHANGED <<client, pkg>>,
         server' = server \/ \E w : EventFor(g, w)
  PROVE  Claims'
<1>1. \A c : Answered(c, "INIT")' = Answered(c, "INIT")
  BY AnsweredSame
<1>2. CASE server' = server
  <2>1. \A c : Writing(c, "INIT")' = Writing(c, "INIT")
    BY <1>2, WritingSame
  <2> QED BY <1>1, <1>2, <2>1, ClaimsStay DEF Claims
<1>3. CASE \E w : EventFor(g, w)
  <2>0. PICK w : EventFor(g, w)
    BY <1>3
  <2>1. PICK type \in Events :
          server' = <<write_server(g.win[w].owner, [type |-> type, wid |-> w])>>
    BY <2>0 DEF EventFor
  <2> DEFINE x == write_server(g.win[w].owner, [type |-> type, wid |-> w])
  <2>2. server' = <<x>> /\ x.data.type # "INIT"
    BY <2>1 DEF write_server, Events
  <2> HIDE DEF x
  <2>3. \A c : Writing(c, "INIT")' = {}
    BY <2>2, WritingOne
  <2> QED BY <1>1, <2>3, ClaimsStay DEF Claims
<1> QED BY <1>2, <1>3

LEMMA SendClaims ==
  ASSUME TypeOK, Waits, Claims, ServerSend
  PROVE  Claims'
<1> DEFINE x == server[1]
           y == [x EXCEPT !.at = @ + 1]
<1>1. /\ server # <<>> /\ UNCHANGED <<g, screen, client>>
      /\ \/ pkg' = pkg /\ server' = <<>>
         \/ \E t \in Client :
              /\ pkg' = send_to_client(pkg, t, x.data)
              /\ \/ server' = <<>>
                 \/ x.data.type \notin Answers /\ server' = <<y>>
              /\ x.data.type \in Answers => t = x.target
  BY SendEffect
<1>2. pkg \in PkgType /\ x \in Write /\ server = <<x>> /\ DOMAIN server = {1}
  BY <1>1, ServerIs DEF TypeOK
<1>3. x.data \in Reply /\ y.data = x.data
  BY <1>2 DEF Write
<1>4. KeepsBut(g, g', {})
  BY <1>1 DEF KeepsBut
<1>5. CASE pkg' = pkg /\ server' = <<>>
  <2>1. \A c : Writing(c, "INIT")' = {} /\ Answered(c, "INIT")' = Answered(c, "INIT")
    BY <1>5, WritingNone, AnsweredSame
  <2> HIDE DEF x, y
  <2> QED BY <1>1, <1>4, <1>5, <2>1, ClaimsStay DEF Claims
<1>6. ASSUME NEW t \in Client, pkg' = send_to_client(pkg, t, x.data),
             server' = <<>> \/ (x.data.type \notin Answers /\ server' = <<y>>),
             x.data.type \in Answers => t = x.target
      PROVE  Claims'
  <2> HIDE DEF x, y
  <2>1. \A c : Writing(c, "INIT")' = {}
    <3>1. x.data.type \notin Answers => x.data.type # "INIT"
      BY DEF Answers
    <3>2. server' = <<y>> => \A c : Writing(c, "INIT")' = IF y.target = c /\ y.data.type = "INIT" THEN {1} ELSE {}
      BY WritingOne
    <3> QED BY <1>3, <1>6, <3>1, <3>2, WritingNone
  <2>2. /\ pkg'.msg_list = pkg.msg_list
        /\ pkg'.inbox = [pkg.inbox EXCEPT ![t] = Append(pkg.inbox[t], x.data)]
    BY <1>2, <1>3, <1>6, ToClient
  <2>3. /\ pkg'.inbox[t] = Append(pkg.inbox[t], x.data)
        /\ \A c \in Client : c # t => pkg'.inbox[c] = pkg.inbox[c]
    BY <1>2, <2>2, PkgFields
  <2>4. ASSUME NEW c \in Client, client[c].pc = "wait", NEW i \in Answered(c, "INIT")'
        PROVE  Free(c, pkg'.inbox[c][i].wid)
    <3>1. CASE c # t
      <4>1. i \in Answered(c, "INIT") /\ pkg'.inbox[c] = pkg.inbox[c]
        BY <2>3, <2>4, <3>1, AnsweredSame
      <4> QED BY <2>4, <4>1 DEF Claims
    <3>2. CASE c = t
      <4> DEFINE k == Len(pkg.inbox[t]) + 1
      <4>1. pkg.inbox[t] \in Seq(Reply)
        BY <1>2, PkgFields
      <4>2. /\ pkg'.inbox[t][k] = x.data /\ DOMAIN pkg.inbox[t] = 1 .. Len(pkg.inbox[t])
            /\ \A j \in 1 .. Len(pkg.inbox[t]) : pkg'.inbox[t][j] = pkg.inbox[t][j]
        BY <1>3, <2>3, <4>1, AppendFields
      <4>3. Answered(t, "INIT")' = Answered(t, "INIT") \cup IF x.data.type = "INIT" THEN {k} ELSE {}
        BY <1>2, <1>3, <2>3, AnsweredMore
      <4> HIDE DEF k
      <4>4. CASE i \in Answered(t, "INIT")
        <5>1. pkg'.inbox[c][i] = pkg.inbox[c][i]
          BY <3>2, <4>2, <4>4 DEF Answered
        <5> QED BY <2>4, <3>2, <4>4, <5>1 DEF Claims
      <4>5. CASE i = k /\ x.data.type = "INIT"
        <5>1. t = x.target
          BY <1>6, <4>5 DEF Answers
        <5>2. 1 \in Writing(t, "INIT")
          <6>1. \A d, type : Writing(d, type) = IF x.target = d /\ x.data.type = type THEN {1} ELSE {}
            BY <1>2, WritingOne
          <6> QED BY <4>5, <5>1, <6>1
        <5>3. Free(c, server[1].data.wid)
          BY <2>4, <3>2, <5>2 DEF Claims
        <5> QED BY <3>2, <4>2, <4>5, <5>3 DEF x
      <4> QED BY <2>4, <3>2, <4>3, <4>4, <4>5
    <3> QED BY <3>1, <3>2
  <2> QED BY <1>1, <1>4, <2>1, <2>2, <2>4, ClaimsStay
<1> QED BY <1>1, <1>5, <1>6

\* The head of the queue has been handled.
LEMMA PackageClaims ==
  ASSUME TypeOK, Ordered(g), Claims, pkg.msg_list # <<>>, server = <<>>,
         pkg.msg_list[1] \in Package, Replied(pkg.msg_list[1]),
         KeepsBut(g, g', IF pkg.msg_list[1].data.type = "CLOSE"
                         THEN {pkg.msg_list[1].data.wid} ELSE {}),
         pkg' = read_server(pkg), UNCHANGED client
  PROVE  Claims'
<1> DEFINE m == pkg.msg_list[1]
           n == Len(pkg.msg_list)
           S == IF m.data.type = "CLOSE" THEN {m.data.wid} ELSE {}
<1>1. pkg \in PkgType /\ pkg.msg_list \in Seq(Package)
  BY PkgFields DEF TypeOK
<1>2. pkg'.msg_list = Tail(pkg.msg_list) /\ pkg'.inbox = pkg.inbox
  BY <1>1, ByServer
<1>3. /\ n \in Nat \ {0} /\ DOMAIN pkg.msg_list = 1 .. n /\ DOMAIN pkg'.msg_list = 1 .. n - 1
      /\ Len(pkg'.msg_list) = n - 1
      /\ \A i \in 1 .. n - 1 : pkg'.msg_list[i] = pkg.msg_list[i + 1]
  BY <1>1, <1>2, TailFields
<1>4. KeepsBut(g, g', S) /\ m.source \in Client
  BY DEF Package
<1>5. ASSUME NEW w, NEW k \in 0 .. n - 1, Unclosed(w, k + 1)
      PROVE  w \notin S /\ Unclosed(w, k)'
  <2>1. \A j \in 1 .. k + 1 : ~IsClose(pkg.msg_list[j].data, w)
    BY <1>5 DEF Unclosed
  <2>2. 1 \in 1 .. k + 1
    BY <1>5
  <2>3. w \notin S
    BY <2>1, <2>2 DEF IsClose
  <2>4. ASSUME NEW j \in 1 .. k PROVE ~IsClose(pkg'.msg_list[j].data, w)
    <3>1. j \in 1 .. n - 1 /\ j + 1 \in 1 .. k + 1
      BY <1>3, <1>5, <2>4
    <3> QED BY <1>3, <2>1, <3>1
  <2> QED BY <2>3, <2>4 DEF Unclosed, IsClose
<1> HIDE DEF S
<1>6. ASSUME NEW c, NEW w, Free(c, w) PROVE Free(c, w)'
  <2>1. Owns(c, w) /\ Unclosed(w, n)
    BY <1>6 DEF Free
  <2>2. n - 1 \in 0 .. n - 1 /\ (n - 1) + 1 = n
    BY <1>3
  <2>3. PICK k : k = n - 1
    OBVIOUS
  <2>4. w \notin S /\ Unclosed(w, k)'
    BY <1>5, <2>1, <2>2, <2>3
  <2>5. Owns(c, w)'
    BY <1>4, <2>1, <2>4, OwnsStay
  <2>6. Unclosed(w, Len(pkg.msg_list))'
    BY <1>3, <2>3, <2>4
  <2> QED BY <2>5, <2>6 DEF Free
<1>7. \A c \in Client : \A w \in client'[c].windows :
        Free(c, w)' /\ ~(client'[c].pc = "send" /\ IsClose(client'[c].msg, w))
  BY <1>6 DEF Claims
<1>8. \A c \in Client : \A w :
        client'[c].pc = "send" /\ client'[c].msg.type \in {"MOVE", "CLOSE"}
          /\ w = client'[c].msg.wid => Free(c, w)'
  BY <1>6 DEF Claims
<1>9. ASSUME NEW i \in DOMAIN pkg'.msg_list, NEW c, NEW w,
             pkg'.msg_list[i].data.type \in {"MOVE", "CLOSE"},
             c = pkg'.msg_list[i].source, w = pkg'.msg_list[i].data.wid
      PROVE  Owns(c, w)' /\ Unclosed(w, i - 1)'
  <2>1. i \in 1 .. n - 1 /\ i + 1 \in 1 .. n /\ pkg'.msg_list[i] = pkg.msg_list[i + 1]
    BY <1>3
  <2>2. Owns(c, w) /\ Unclosed(w, (i + 1) - 1)
    BY <1>3, <1>9, <2>1 DEF Claims
  <2>3. PICK k : k = i - 1
    OBVIOUS
  <2>4. k \in 0 .. n - 1 /\ (i + 1) - 1 = k + 1
    <3>1. PICK l : l = n
      OBVIOUS
    <3>2. l \in Nat /\ i \in 1 .. l - 1 /\ k = i - 1
      BY <1>3, <2>1, <2>3, <3>1
    <3>3. k \in 0 .. l - 1 /\ (i + 1) - 1 = k + 1
      BY <3>2
    <3> QED BY <3>1, <3>3
  <2>5. w \notin S /\ Unclosed(w, k)'
    BY <1>5, <2>2, <2>4
  <2>6. Owns(c, w)'
    BY <1>4, <2>2, <2>5, OwnsStay
  <2> QED BY <2>3, <2>5, <2>6
<1>10. ASSUME NEW c \in Client, NEW i, NEW w, i \in Writing(c, "INIT")', w = server'[i].data.wid
       PROVE  Free(c, w)'
  <2>1. CASE m.data.type \notin Questions /\ UNCHANGED server
    BY <1>10, <2>1, WritingNone
  <2>2. CASE m.data.type = "HELLO" /\ Answer(m.source, "WELCOME", 0)
    <3> DEFINE x == write_server(m.source, [type |-> "WELCOME", wid |-> 0])
    <3>1. server' = <<x>> /\ x.data.type # "INIT"
      BY <2>2 DEF Answer, write_server
    <3> HIDE DEF x
    <3> QED BY <1>10, <3>1, WritingOne
  <2>3. CASE /\ Answer(m.source, "INIT", g.wid)
             /\ g.wid \in Range(g'.windows) /\ g'.win[g.wid].owner = m.source
    <3> DEFINE x == write_server(m.source, [type |-> "INIT", wid |-> g.wid])
    <3>1. server' = <<x>> /\ x.target = m.source /\ x.data.wid = g.wid
      BY <2>3 DEF Answer, write_server
    <3> HIDE DEF x, m
    <3>2. \A d, type : Writing(d, type)' = IF x.target = d /\ x.data.type = type THEN {1} ELSE {}
      BY <3>1, WritingOne
    <3>3. i = 1 /\ c = m.source
      BY <1>10, <3>1, <3>2
    <3>4. w = g.wid
      BY <1>10, <3>1, <3>3
    <3>5. Owns(c, w)'
      BY <2>3, <3>3, <3>4 DEF Owns
    <3>6. g.wid \notin Range(g.windows)
      BY ListedFields DEF Ordered
    <3>7. ASSUME NEW j \in 1 .. n - 1 PROVE ~IsClose(pkg'.msg_list[j].data, w)
      <4>1. j + 1 \in 1 .. n /\ pkg'.msg_list[j] = pkg.msg_list[j + 1]
        BY <1>3
      <4>2. pkg.msg_list[j + 1].data.type \in {"MOVE", "CLOSE"}
              => pkg.msg_list[j + 1].data.wid \in Range(g.windows)
        BY <1>3, <4>1 DEF Claims, Owns
      <4> QED BY <3>4, <3>6, <4>1, <4>2 DEF IsClose
    <3>8. Unclosed(w, Len(pkg.msg_list))'
      BY <1>3, <3>7 DEF Unclosed, IsClose
    <3> QED BY <3>5, <3>8 DEF Free
  <2> QED BY <2>1, <2>2, <2>3 DEF Replied
<1>11. \A c \in Client : \A i, w :
         client'[c].pc = "wait" /\ i \in Answered(c, "INIT")' /\ w = pkg'.inbox[c][i].wid
           => Free(c, w)'
  <2>1. \A c : Answered(c, "INIT")' = Answered(c, "INIT")
    BY <1>2, AnsweredSame
  <2> QED BY <1>2, <1>6, <2>1 DEF Claims
<1> HIDE DEF n, m
<1> QED BY <1>7, <1>8, <1>9, <1>10, <1>11, ClaimsFrom

\* A client that does not wait starts to send, a package about a window of its own.
LEMMA StartsClaims ==
  ASSUME TypeOK, Claims, NEW c \in Client, NEW m \in Request,
         NEW want \in Answers \cup {"nothing"}, NEW ws \in SUBSET client[c].windows,
         Becomes(c, "send", m, want, ws),
         m.type \in {"MOVE", "CLOSE"} => m.wid \in client[c].windows,
         m.type = "CLOSE" => m.wid \notin ws,
         pkg'.msg_list = pkg.msg_list, pkg'.inbox = pkg.inbox, g' = g, server' = server
  PROVE  Claims'
<1>1. ws \in SUBSET Nat
  BY ClientFields DEF TypeOK
<1>2. /\ client'[c].pc = "send" /\ client'[c].msg = m /\ client'[c].windows = ws
      /\ \A d \in Client : d # c => client'[d] = client[d]
  BY <1>1, BecomesFields DEF TypeOK
<1>3. \A d, w : Free(d, w) => Free(d, w)'
  BY FreeStay DEF KeepsBut
<1>4. \A d \in Client : \A w \in client'[d].windows :
        Free(d, w)' /\ ~(client'[d].pc = "send" /\ IsClose(client'[d].msg, w))
  BY <1>2, <1>3 DEF Claims, IsClose
<1>5. \A d \in Client : \A w :
        client'[d].pc = "send" /\ client'[d].msg.type \in {"MOVE", "CLOSE"}
          /\ w = client'[d].msg.wid => Free(d, w)'
  BY <1>2, <1>3 DEF Claims
<1>6. \A i \in DOMAIN pkg'.msg_list : \A d, w :
        /\ pkg'.msg_list[i].data.type \in {"MOVE", "CLOSE"}
        /\ d = pkg'.msg_list[i].source /\ w = pkg'.msg_list[i].data.wid
        => Owns(d, w)' /\ Unclosed(w, i - 1)'
  BY DEF Claims, Owns, Unclosed
<1>7. \A d, type : Writing(d, type)' = Writing(d, type) /\ Answered(d, type)' = Answered(d, type)
  BY WritingSame, AnsweredSame
<1>8. \A d \in Client : \A i, w :
        client'[d].pc = "wait" /\ i \in Writing(d, "INIT")' /\ w = server'[i].data.wid
          => Free(d, w)'
  BY <1>2, <1>3, <1>7 DEF Claims
<1>9. \A d \in Client : \A i, w :
        client'[d].pc = "wait" /\ i \in Answered(d, "INIT")' /\ w = pkg'.inbox[d][i].wid
          => Free(d, w)'
  BY <1>2, <1>3, <1>7 DEF Claims
<1> QED BY <1>4, <1>5, <1>6, <1>8, <1>9, ClaimsFrom

\* A client has put its package in the queue: nobody else refers to its windows.
LEMMA PutClaims ==
  ASSUME TypeOK, Waits, Claims, NEW c \in Client, ClientSend(c)
  PROVE  Claims'
<1>0. PICK m, n, want : m = client[c].msg /\ n = Len(pkg.msg_list) /\ want = client[c].want
  OBVIOUS
<1> DEFINE e == [source |-> c, data |-> m]
           pc == IF want = "nothing" THEN "idle" ELSE "wait"
<1>1. pkg \in PkgType /\ client \in [Client -> ClientType] /\ pkg.msg_list \in Seq(Package)
  BY PkgFields DEF TypeOK
<1>2. /\ client[c].pc = "send" /\ pkg' = send_to_server(pkg, c, m)
      /\ Becomes(c, pc, Nothing, want, client[c].windows)
      /\ UNCHANGED <<g, screen, server>>
  BY <1>0, <1>1, Sends
<1>3. m \in Request
  BY <1>0, <1>1, ClientFields
<1>4. /\ client'[c].pc = pc /\ client'[c].msg = Nothing /\ client'[c].windows = client[c].windows
      /\ \A d \in Client : d # c => client'[d] = client[d]
  <2>1. /\ want \in Answers \cup {"nothing"} /\ client[c].windows \in SUBSET Nat
        /\ pc \in {"none", "idle", "send", "wait", "lost"}
    BY <1>0, <1>1, ClientFields
  <2> HIDE DEF pc
  <2> QED BY <1>1, <1>2, <2>1, NothingTyped, BecomesFields
<1>5. /\ pkg'.inbox = pkg.inbox /\ pkg'.msg_list = Append(pkg.msg_list, e) /\ e \in Package
  BY <1>1, <1>2, <1>3, ToServer DEF Package
<1>6. /\ n \in Nat /\ DOMAIN pkg.msg_list = 1 .. n /\ DOMAIN pkg'.msg_list = 1 .. n + 1
      /\ Len(pkg'.msg_list) = n + 1 /\ pkg'.msg_list[n + 1] = e
      /\ \A i \in 1 .. n : pkg'.msg_list[i] = pkg.msg_list[i]
  BY <1>0, <1>1, <1>5, AppendFields
<1>7. e.source = c /\ e.data = m
  OBVIOUS
<1> HIDE DEF e
<1>8. \A d, w : Owns(d, w)' <=> Owns(d, w)
  BY <1>2 DEF Owns
<1>9. ASSUME NEW w, NEW k \in 0 .. n PROVE Unclosed(w, k)' <=> Unclosed(w, k)
  <2>1. \A j \in 1 .. k : pkg'.msg_list[j] = pkg.msg_list[j]
    BY <1>6, <1>9
  <2> QED BY <2>1 DEF Unclosed, IsClose
<1>10. ASSUME NEW d, NEW w, Free(d, w), ~IsClose(m, w) PROVE Free(d, w)'
  <2>1. Owns(d, w)' /\ Unclosed(w, n)'
    BY <1>0, <1>6, <1>8, <1>9, <1>10 DEF Free
  <2>2. \A j \in 1 .. n + 1 : j = n + 1 \/ j \in 1 .. n
    BY <1>6, OneMore
  <2>3. \A j \in 1 .. n + 1 : ~IsClose(pkg'.msg_list[j].data, w)
    BY <1>6, <1>7, <1>10, <2>1, <2>2 DEF Unclosed, IsClose
  <2>4. Unclosed(w, Len(pkg.msg_list))'
    BY <1>6, <2>3 DEF Unclosed, IsClose
  <2> QED BY <2>1, <2>4 DEF Free
<1>11. m.type \in {"MOVE", "CLOSE"} => Free(c, m.wid)
  BY <1>0, <1>2 DEF Claims
<1>12. ASSUME NEW d, NEW w, Free(d, w), d # c PROVE Free(d, w)'
  <2>1. ~IsClose(m, w)
    BY <1>11, <1>12 DEF IsClose, Free, Owns
  <2> QED BY <1>10, <1>12, <2>1
<1>13. \A d \in Client : \A w \in client'[d].windows :
         Free(d, w)' /\ ~(client'[d].pc = "send" /\ IsClose(client'[d].msg, w))
  <2> SUFFICES ASSUME NEW d \in Client, NEW w \in client'[d].windows
               PROVE  Free(d, w)' /\ ~(client'[d].pc = "send" /\ IsClose(client'[d].msg, w))
    OBVIOUS
  <2>1. CASE d # c
    BY <1>4, <1>12, <2>1 DEF Claims
  <2>2. CASE d = c
    <3>1. Free(c, w) /\ ~IsClose(m, w)
      BY <1>0, <1>2, <1>4, <2>2 DEF Claims
    <3> QED BY <1>4, <1>10, <2>2, <3>1
  <2> QED BY <2>1, <2>2
<1>14. \A d \in Client : \A w :
         client'[d].pc = "send" /\ client'[d].msg.type \in {"MOVE", "CLOSE"}
           /\ w = client'[d].msg.wid => Free(d, w)'
  <2> SUFFICES ASSUME NEW d \in Client, client'[d].pc = "send",
                      client'[d].msg.type \in {"MOVE", "CLOSE"}, NEW w, w = client'[d].msg.wid
               PROVE  Free(d, w)'
    OBVIOUS
  <2>1. d # c
    BY <1>4
  <2>2. Free(d, w)
    BY <1>4, <2>1 DEF Claims
  <2> QED BY <1>12, <2>1, <2>2
<1>15. \A i \in DOMAIN pkg'.msg_list : \A d, w :
         /\ pkg'.msg_list[i].data.type \in {"MOVE", "CLOSE"}
         /\ d = pkg'.msg_list[i].source /\ w = pkg'.msg_list[i].data.wid
         => Owns(d, w)' /\ Unclosed(w, i - 1)'
  <2> SUFFICES ASSUME NEW i \in DOMAIN pkg'.msg_list, NEW d, NEW w,
                      pkg'.msg_list[i].data.type \in {"MOVE", "CLOSE"},
                      d = pkg'.msg_list[i].source, w = pkg'.msg_list[i].data.wid
               PROVE  Owns(d, w)' /\ Unclosed(w, i - 1)'
    OBVIOUS
  <2>0. PICK k : k = i - 1
    OBVIOUS
  <2>1. CASE i \in 1 .. n
    <3>1. Owns(d, w) /\ Unclosed(w, k)
      BY <1>6, <2>0, <2>1 DEF Claims
    <3>2. k \in 0 .. n
      BY <1>6, <2>0, <2>1
    <3>3. Owns(d, w)' /\ Unclosed(w, k)'
      BY <1>8, <1>9, <3>1, <3>2
    <3> QED BY <2>0, <3>3
  <2>2. CASE i = n + 1
    <3>1. Owns(d, w) /\ Unclosed(w, n)
      BY <1>0, <1>6, <1>7, <1>11, <2>2 DEF Free
    <3>2. n \in 0 .. n /\ k = n
      BY <1>6, <2>0, <2>2
    <3>3. Owns(d, w)' /\ Unclosed(w, n)'
      BY <1>8, <1>9, <3>1, <3>2
    <3>4. i - 1 = n
      BY <2>0, <3>2
    <3> QED BY <3>3, <3>4
  <2> QED BY <1>6, <2>1, <2>2, OneMore
<1>16. \A d, type : Writing(d, type)' = Writing(d, type) /\ Answered(d, type)' = Answered(d, type)
  BY <1>2, <1>5, WritingSame, AnsweredSame
<1>17. Writing(c, "INIT") = {} /\ Answered(c, "INIT") = {}
  BY <1>2 DEF Waits, ClientWaits, Quiet, AllWriting, AllAnswered
<1>18. \A d \in Client : \A i, w :
         client'[d].pc = "wait" /\ i \in Writing(d, "INIT")' /\ w = server'[i].data.wid
           => Free(d, w)'
  BY <1>2, <1>4, <1>12, <1>16, <1>17 DEF Claims
<1>19. \A d \in Client : \A i, w :
         client'[d].pc = "wait" /\ i \in Answered(d, "INIT")' /\ w = pkg'.inbox[d][i].wid
           => Free(d, w)'
  BY <1>4, <1>5, <1>12, <1>16, <1>17 DEF Claims
<1> QED BY <1>13, <1>14, <1>15, <1>18, <1>19, ClaimsFrom

\* A client has taken a package from its queue, and learns the window it asked for.
LEMMA TakesClaims ==
  ASSUME TypeOK, Claims, NEW c \in Client, pkg.inbox[c] # <<>>, pkg' = read_client(pkg, c),
         server' = server, g' = g, \A d \in Client : d # c => client'[d] = client[d],
         \/ client[c].pc = "idle" /\ client'[c] = client[c]
         \/ /\ client[c].pc = "wait" /\ client'[c].pc \in {"idle", "lost"}
            /\ client'[c].windows = IF pkg.inbox[c][1].type = "INIT"
                                    THEN client[c].windows \cup {pkg.inbox[c][1].wid}
                                    ELSE client[c].windows
  PROVE  Claims'
<1>1. pkg \in PkgType
  BY DEF TypeOK
<1>2. /\ pkg'.msg_list = pkg.msg_list
      /\ pkg'.inbox = [pkg.inbox EXCEPT ![c] = Tail(pkg.inbox[c])]
  BY <1>1, ByClient
<1>3. /\ pkg'.inbox[c] = Tail(pkg.inbox[c])
      /\ \A d \in Client : d # c => pkg'.inbox[d] = pkg.inbox[d]
  BY <1>1, <1>2, PkgFields
<1>4. \A d, w : Free(d, w) => Free(d, w)'
  BY <1>2, FreeStay DEF KeepsBut
<1>5. client[c].pc = "wait" /\ pkg.inbox[c][1].type = "INIT" => Free(c, pkg.inbox[c][1].wid)
  <2>1. \A type : 1 \in Answered(c, type) <=> pkg.inbox[c][1].type = type
    BY <1>1, <1>3, AnsweredAt
  <2> QED BY <2>1 DEF Claims
<1>6. client'[c].pc # "send" /\ client'[c].pc # "wait"
  OBVIOUS
<1>7. \A d \in Client : \A w \in client'[d].windows :
        Free(d, w)' /\ ~(client'[d].pc = "send" /\ IsClose(client'[d].msg, w))
  <2> SUFFICES ASSUME NEW d \in Client, NEW w \in client'[d].windows
               PROVE  Free(d, w)' /\ ~(client'[d].pc = "send" /\ IsClose(client'[d].msg, w))
    OBVIOUS
  <2>1. CASE d # c
    BY <1>4, <2>1 DEF Claims
  <2>2. CASE d = c
    <3>1. Free(c, w)
      BY <1>5, <2>2 DEF Claims
    <3> QED BY <1>4, <1>6, <2>2, <3>1
  <2> QED BY <2>1, <2>2
<1>8. \A d \in Client : \A w :
        client'[d].pc = "send" /\ client'[d].msg.type \in {"MOVE", "CLOSE"}
          /\ w = client'[d].msg.wid => Free(d, w)'
  BY <1>4, <1>6 DEF Claims
<1>9. \A i \in DOMAIN pkg'.msg_list : \A d, w :
        /\ pkg'.msg_list[i].data.type \in {"MOVE", "CLOSE"}
        /\ d = pkg'.msg_list[i].source /\ w = pkg'.msg_list[i].data.wid
        => Owns(d, w)' /\ Unclosed(w, i - 1)'
  BY <1>2 DEF Claims, Owns, Unclosed
<1>10. \A d \in Client : \A i, w :
         client'[d].pc = "wait" /\ i \in Writing(d, "INIT")' /\ w = server'[i].data.wid
           => Free(d, w)'
  <2>1. \A d, type : Writing(d, type)' = Writing(d, type)
    BY WritingSame
  <2> QED BY <1>4, <1>6, <2>1 DEF Claims
<1>11. \A d \in Client : \A i, w :
         client'[d].pc = "wait" /\ i \in Answered(d, "INIT")' /\ w = pkg'.inbox[d][i].wid
           => Free(d, w)'
  <2>1. \A d \in Client : d # c => Answered(d, "INIT")' = Answered(d, "INIT")
    BY <1>3, AnsweredSame
  <2> QED BY <1>3, <1>4, <1>6, <2>1 DEF Claims
<1> QED BY <1>7, <1>8, <1>9, <1>10, <1>11, ClaimsFrom

-----------------------------------------------------------------------------
(* Who listens to what is written.                                         *)

LEMMA MouseListened ==
  ASSUME TypeOK, Listened, UNCHANGED <<pkg, client>>,
         server' = server \/ \E w : EventFor(g, w) /\ Listening(w)
  PROVE  Listened'
<1>1. CASE server' = server
  BY <1>1 DEF Listened, Told, Asking
<1>2. CASE \E w : EventFor(g, w) /\ Listening(w)
  <2>1. PICK w : EventFor(g, w) /\ Listening(w)
    BY <1>2
  <2>2. PICK type \in Events :
          server' = <<write_server(g.win[w].owner, [type |-> type, wid |-> w])>>
    BY <2>1 DEF EventFor
  <2> DEFINE x == write_server(g.win[w].owner, [type |-> type, wid |-> w])
  <2>3. x.target = g.win[w].owner /\ server' = <<x>>
    BY <2>2 DEF write_server
  <2> HIDE DEF x
  <2>4. DOMAIN server' = {1} /\ server'[1] = x
    BY <2>3
  <2>5. \A c \in Client : c \in Range(pkg.clients) <=> Contains(pkg.clients, c)
    <3>1. pkg.clients \in Seq(Client)
      BY PkgFields DEF TypeOK
    <3> QED BY <3>1, ContainsIs
  <2>6. ASSUME NEW c \in Client, x.target = c \/ (x.target = Everybody /\ c \in Range(pkg.clients))
        PROVE  client[c].pc = "idle"
    BY <2>1, <2>3, <2>5, <2>6 DEF Listening
  <2>7. \A i \in DOMAIN server' : \A c \in Client : Told(server[i], c)' => client[c].pc = "idle"
    BY <2>4, <2>6 DEF Told
  <2> QED BY <2>7 DEF Listened, Asking
<1> QED BY <1>1, <1>2

LEMMA PackageListened ==
  ASSUME TypeOK, Listened, pkg.msg_list # <<>>, server = <<>>, Replied(pkg.msg_list[1]),
         pkg' = read_server(pkg), UNCHANGED client
  PROVE  Listened'
<1>1. pkg'.clients = pkg.clients /\ pkg'.inbox = pkg.inbox
  BY ByServer DEF TypeOK
<1>2. server' = <<>> \/ \E c, type, wid : type \in Answers /\ Answer(c, type, wid)
  BY DEF Replied, Answers
<1>3. \A i \in DOMAIN server' : server'[i].data.type \notin Events
  <2>1. CASE server' = <<>>
    <3>1. DOMAIN <<>> = {}
      OBVIOUS
    <3> QED BY <2>1, <3>1
  <2>2. ASSUME NEW c, NEW type \in Answers, NEW wid, Answer(c, type, wid)
        PROVE  \A i \in DOMAIN server' : server'[i].data.type \notin Events
    <3> DEFINE x == write_server(c, [type |-> type, wid |-> wid])
    <3>1. x.data.type \notin Events /\ server' = <<x>>
      BY <2>2 DEF write_server, Answer, Answers, Events
    <3> HIDE DEF x
    <3>2. DOMAIN <<x>> = {1} /\ <<x>>[1] = x
      OBVIOUS
    <3> QED BY <3>1, <3>2
  <2> QED BY <1>2, <2>1, <2>2
<1> QED BY <1>1, <1>3 DEF Listened, Asking

LEMMA SendListened ==
  ASSUME TypeOK, Waits, Listened, ServerSend
  PROVE  Listened'
<1> DEFINE x == server[1]
           y == [x EXCEPT !.at = @ + 1]
<1>1. /\ server # <<>> /\ UNCHANGED <<g, screen, client>>
      /\ \/ pkg' = pkg /\ server' = <<>>
         \/ \E t \in Client :
              /\ pkg' = send_to_client(pkg, t, x.data) /\ Told(x, t)
              /\ server' = <<>> \/ server' = <<y>>
              /\ x.data.type \in Answers => t = x.target
  BY SendEffect
<1>2. pkg \in PkgType /\ x \in Write /\ server = <<x>> /\ DOMAIN server = {1}
      /\ client \in [Client -> ClientType]
  BY <1>1, ServerIs DEF TypeOK
<1>3. x.data \in Reply /\ y.data = x.data /\ y.target = x.target /\ x.data.type \in Answers \cup Events
  BY <1>2 DEF Write, Reply
<1>4. x.data.type \in Events => \A c \in Client : Told(x, c) => client[c].pc = "idle"
  BY <1>2 DEF Listened
<1>5. DOMAIN <<>> = {} /\ DOMAIN <<y>> = {1} /\ <<y>>[1] = y
  OBVIOUS
<1> HIDE DEF x, y
<1>6. CASE pkg' = pkg /\ server' = <<>>
  BY <1>1, <1>5, <1>6 DEF Listened, Asking
<1>7. ASSUME NEW t \in Client, pkg' = send_to_client(pkg, t, x.data), Told(x, t),
             server' = <<>> \/ server' = <<y>>,
             x.data.type \in Answers => t = x.target
      PROVE  Listened'
  <2>1. /\ pkg'.clients = pkg.clients
        /\ pkg'.inbox = [pkg.inbox EXCEPT ![t] = Append(pkg.inbox[t], x.data)]
    BY <1>2, <1>3, <1>7, ToClient
  <2>2. /\ pkg'.inbox[t] = Append(pkg.inbox[t], x.data)
        /\ \A c \in Client : c # t => pkg'.inbox[c] = pkg.inbox[c]
    BY <1>2, <2>1, PkgFields
  <2>3. client[t].pc # "none"
    <3>1. CASE x.data.type \in Events
      BY <1>4, <1>7, <3>1
    <3>2. CASE x.data.type \in Answers
      <4>1. \A d, type : Writing(d, type) = IF x.target = d /\ x.data.type = type THEN {1} ELSE {}
        BY <1>2, WritingOne
      <4>2. AllWriting(t) # {}
        BY <1>7, <3>2, <4>1 DEF AllWriting, Answers
      <4> QED BY <4>2 DEF Waits, ClientWaits, Quiet
    <3> QED BY <1>3, <3>1, <3>2
  <2>4. ASSUME NEW c \in Client, Asking(c), NEW i \in DOMAIN pkg'.inbox[c]
        PROVE  pkg'.inbox[c][i].type \in Answers
    <3>1. CASE c # t
      BY <2>2, <2>4, <3>1 DEF Listened
    <3>2. CASE c = t
      <4>1. x.data.type \in Answers
        BY <1>3, <1>4, <1>7, <2>4, <3>2 DEF Asking
      <4>2. pkg.inbox[t] \in Seq(Reply)
        BY <1>2, PkgFields
      <4>3. /\ DOMAIN pkg.inbox[t] = 1 .. Len(pkg.inbox[t]) /\ Len(pkg.inbox[t]) \in Nat
            /\ DOMAIN pkg'.inbox[t] = 1 .. Len(pkg.inbox[t]) + 1
            /\ pkg'.inbox[t][Len(pkg.inbox[t]) + 1] = x.data
            /\ \A j \in 1 .. Len(pkg.inbox[t]) : pkg'.inbox[t][j] = pkg.inbox[t][j]
        BY <1>3, <2>2, <4>2, AppendFields
      <4>4. i = Len(pkg.inbox[t]) + 1 \/ i \in DOMAIN pkg.inbox[t]
        BY <2>4, <3>2, <4>3, OneMore
      <4> QED BY <2>4, <3>2, <4>1, <4>3, <4>4 DEF Listened
    <3> QED BY <3>1, <3>2
  <2>5. \A i \in DOMAIN server' : server'[i].data.type \in Events =>
          \A c \in Client : Told(server[i], c)' => client[c].pc = "idle"
    <3>1. \A i \in DOMAIN server' : server'[i] = y
      BY <1>5, <1>7
    <3> QED BY <1>3, <1>4, <2>1, <3>1 DEF Told
  <2>6. /\ \A c \in Client : client[c].pc # "lost"
        /\ \A c \in Client : client[c].pc = "none" => c \notin Range(pkg'.clients) /\ pkg'.inbox[c] = <<>>
    BY <2>1, <2>2, <2>3 DEF Listened
  <2>7. \A c \in Client : Asking(c)' => \A i \in DOMAIN pkg'.inbox[c] : pkg'.inbox[c][i].type \in Answers
    BY <1>1, <2>4 DEF Asking
  <2> QED BY <1>1, <2>5, <2>6, <2>7 DEF Listened
<1> QED BY <1>1, <1>6, <1>7

\* A client connects, or makes a call, while nothing is written.
LEMMA StartsListened ==
  ASSUME TypeOK, Listened, NEW c \in Client, NEW m \in Request,
         NEW want \in Answers \cup {"nothing"}, NEW ws \in SUBSET Nat,
         Becomes(c, "send", m, want, ws), want # "nothing" => pkg.inbox[c] = <<>>,
         server = <<>>, server' = server, pkg'.inbox = pkg.inbox,
         \A d \in Client : d # c /\ d \in Range(pkg'.clients) => d \in Range(pkg.clients)
  PROVE  Listened'
<1>1. /\ client'[c].pc = "send" /\ client'[c].want = want
      /\ \A d \in Client : d # c => client'[d] = client[d]
  <2>1. client \in [Client -> ClientType]
    BY DEF TypeOK
  <2>2. /\ client' \in [Client -> ClientType]
        /\ client'[c].pc = "send" /\ client'[c].msg = m /\ client'[c].want = want
        /\ client'[c].windows = ws
        /\ \A d \in Client : d # c => client'[d] = client[d]
    BY <2>1, BecomesFields
  <2> QED BY <2>2
<1>2. DOMAIN server' = {} /\ DOMAIN <<>> = {}
  OBVIOUS
<1>3. ASSUME NEW d \in Client
      PROVE  /\ client'[d].pc # "lost"
             /\ client'[d].pc = "none" => d \notin Range(pkg'.clients) /\ pkg'.inbox[d] = <<>>
             /\ Asking(d)' => \A i \in DOMAIN pkg'.inbox[d] : pkg'.inbox[d][i].type \in Answers
  <2>1. CASE d = c
    BY <1>1, <1>2, <2>1 DEF Asking
  <2>2. CASE d # c
    BY <1>1, <2>2 DEF Listened, Asking
  <2> QED BY <2>1, <2>2
<1> QED BY <1>2, <1>3 DEF Listened

\* What a client asks, it goes on asking.
LEMMA PutListened ==
  ASSUME TypeOK, Listened, NEW c \in Client, ClientSend(c)
  PROVE  Listened'
<1>0. PICK m, want : m = client[c].msg /\ want = client[c].want
  OBVIOUS
<1> DEFINE pc == IF want = "nothing" THEN "idle" ELSE "wait"
<1>1. pkg \in PkgType /\ client \in [Client -> ClientType]
  BY DEF TypeOK
<1>2. /\ client[c].pc = "send" /\ pkg' = send_to_server(pkg, c, m)
      /\ Becomes(c, pc, Nothing, want, client[c].windows)
      /\ UNCHANGED <<g, screen, server>>
  BY <1>0, <1>1, Sends
<1>3. m \in Request /\ want \in Answers \cup {"nothing"} /\ client[c].windows \in SUBSET Nat
  BY <1>0, <1>1, ClientFields
<1>4. /\ client'[c].pc = pc /\ client'[c].want = want
      /\ \A d \in Client : d # c => client'[d] = client[d]
  BY <1>1, <1>2, <1>3, NothingTyped, BecomesFields
<1>5. pkg'.inbox = pkg.inbox /\ pkg'.clients = pkg.clients
  BY <1>1, <1>2, <1>3, ToServer
<1>6. ASSUME NEW d \in Client
      PROVE  /\ client'[d].pc # "lost"
             /\ client'[d].pc = "none" => d \notin Range(pkg'.clients) /\ pkg'.inbox[d] = <<>>
             /\ Asking(d)' => \A i \in DOMAIN pkg'.inbox[d] : pkg'.inbox[d][i].type \in Answers
  <2>1. CASE d = c
    <3>1. Asking(c)' => Asking(c)
      BY <1>0, <1>2, <1>4 DEF Asking
    <3> QED BY <1>4, <1>5, <2>1, <3>1 DEF Listened
  <2>2. CASE d # c
    BY <1>4, <1>5, <2>2 DEF Listened, Asking
  <2> QED BY <2>1, <2>2
<1>7. \A i \in DOMAIN server' : server'[i].data.type \in Events =>
        \A d \in Client : Told(server[i], d)' => client'[d].pc = "idle"
  <2>1. \A i \in DOMAIN server' : \A d : Told(server[i], d)' <=> Told(server[i], d)
    BY <1>2, <1>5 DEF Told
  <2> QED BY <1>2, <1>4, <2>1 DEF Listened
<1> QED BY <1>6, <1>7 DEF Listened

\* A client takes what it waits for, or throws an event away.
LEMMA TakesListened ==
  ASSUME TypeOK, Waits, Listened, NEW c \in Client, pkg.inbox[c] # <<>>,
         pkg' = read_client(pkg, c), server' = server,
         \A d \in Client : d # c => client'[d] = client[d],
         \/ client[c].pc = "idle" /\ client'[c] = client[c]
         \/ /\ client[c].pc = "wait"
            /\ client'[c].pc = IF pkg.inbox[c][1].type = client[c].want THEN "idle" ELSE "lost"
  PROVE  Listened'
<1>1. pkg \in PkgType /\ pkg.inbox[c] \in Seq(Reply)
  BY PkgFields DEF TypeOK
<1>2. /\ pkg'.clients = pkg.clients
      /\ pkg'.inbox = [pkg.inbox EXCEPT ![c] = Tail(pkg.inbox[c])]
  BY <1>1, ByClient
<1>3. /\ pkg'.inbox[c] = Tail(pkg.inbox[c])
      /\ \A d \in Client : d # c => pkg'.inbox[d] = pkg.inbox[d]
  BY <1>1, <1>2, PkgFields
<1>4. client'[c].pc = "idle"
  <2>1. CASE client[c].pc = "wait"
    <3>0. PICK want : want = client[c].want
      OBVIOUS
    <3>1. want \in Answers /\ Once(c, want)
      BY <2>1, <3>0 DEF Waits, ClientWaits
    <3>2. Asking(c)
      BY <2>1, <3>0, <3>1 DEF Asking, Answers
    <3>3. 1 \in DOMAIN pkg.inbox[c]
      <4>1. DOMAIN pkg.inbox[c] = 1 .. Len(pkg.inbox[c]) /\ Len(pkg.inbox[c]) \in Nat \ {0}
        BY <1>1, TailFields
      <4> QED BY <4>1
    <3>4. pkg.inbox[c][1].type \in Answers
      BY <3>2, <3>3 DEF Listened
    <3>5. \A type : 1 \in Answered(c, type) <=> pkg.inbox[c][1].type = type
      BY <1>1, <1>3, AnsweredAt
    <3>6. 1 \in AllAnswered(c)
      BY <3>4, <3>5 DEF AllAnswered, Answers
    <3>7. 1 \in Answered(c, want)
      BY <3>1, <3>6 DEF Once
    <3> QED BY <2>1, <3>0, <3>5, <3>7
  <2>2. CASE client[c].pc = "idle" /\ client'[c] = client[c]
    BY <2>2
  <2> QED BY <2>1, <2>2
<1>5. ASSUME NEW d \in Client
      PROVE  /\ client'[d].pc # "lost"
             /\ client'[d].pc = "none" => d \notin Range(pkg'.clients) /\ pkg'.inbox[d] = <<>>
             /\ Asking(d)' => \A i \in DOMAIN pkg'.inbox[d] : pkg'.inbox[d][i].type \in Answers
  <2>1. CASE d = c
    BY <1>4, <2>1 DEF Asking
  <2>2. CASE d # c
    BY <1>2, <1>3, <2>2 DEF Listened, Asking
  <2> QED BY <2>1, <2>2
<1>6. \A i \in DOMAIN server' : server'[i].data.type \in Events =>
        \A d \in Client : Told(server[i], d)' => client'[d].pc = "idle"
  <2>1. \A i \in DOMAIN server' : \A d : Told(server[i], d)' <=> Told(server[i], d)
    BY <1>2 DEF Told
  <2> QED BY <1>4, <2>1 DEF Listened
<1> QED BY <1>5, <1>6 DEF Listened

-----------------------------------------------------------------------------
(* The steps, of the compositor and of its clients.                        *)

\* What the compositor writes has its type.
LEMMA WriteTyped ==
  ASSUME NEW target \in Client \cup {Everybody}, NEW type \in Answers \cup Events, NEW wid \in Nat,
         server' = <<write_server(target, [type |-> type, wid |-> wid])>>
  PROVE  server' \in Seq(Write) /\ Len(server') <= 1
<1> DEFINE x == write_server(target, [type |-> type, wid |-> wid])
<1>1. x \in Write
  BY DEF write_server, Write, Reply
<1> HIDE DEF x
<1>2. <<x>> \in Seq(Write) /\ Len(<<x>>) <= 1
  BY <1>1
<1>3. server' = <<x>>
  BY DEF x
<1> QED BY <1>2, <1>3

LEMMA NothingWritten ==
  ASSUME server' = <<>>
  PROVE  server' \in Seq(Write) /\ Len(server') <= 1
OBVIOUS

\* The redraw.
LEMMA RedrawStep ==
  ASSUME CompositorInv, redraw_windows
  PROVE  CompositorInv'
<1>1. TypeOK /\ Ordered(g) /\ screen \in [Row -> [win : Nat, mouse : BOOLEAN]]
  BY DEF CompositorInv, TypeOK, Ordered
<1>2. UNCHANGED <<pkg, server, client>>
  BY DEF redraw_windows
<1>3. /\ Ordered(g') /\ g'.windows = g.windows /\ g'.win = g.win
      /\ screen' \in [Row -> [win : Nat, mouse : BOOLEAN]]
      /\ Painted(g, screen) => Painted(g', screen')
  BY <1>1, RedrawEffect
<1>4. TypeOK'
  BY <1>1, <1>2, <1>3 DEF TypeOK, Ordered
<1>5. Claims'
  BY <1>2, <1>3, QuietClaims DEF CompositorInv, KeepsBut
<1>6. Waits'
  BY <1>2, RestWaits DEF CompositorInv
<1>7. Listened => Listened'
  BY <1>1, <1>2, MouseListened
<1> QED BY <1>3, <1>4, <1>5, <1>6, <1>7 DEF CompositorInv, Ordered

\* An event of the mouse.
LEMMA MouseStep ==
  ASSUME CompositorInv, ServerMouse
  PROVE  CompositorInv'
<1>1. TypeOK /\ Ordered(g) /\ Claims /\ Waits /\ ("restack" \in Avoid => Painted(g, screen))
  BY DEF CompositorInv, TypeOK, Ordered
<1>2. UNCHANGED <<pkg, screen, client>> /\ server = <<>>
  BY DEF ServerMouse, Loop
<1>3. /\ Ordered(g') /\ KeepsBut(g, g', {}) /\ ("restack" \in Avoid => Painted(g', screen))
      /\ \/ UNCHANGED server
         \/ \E w \in Range(g.windows) :
              EventFor(g, w) /\ ("busy_client" \in Avoid => Listening(w))
  BY <1>1, MouseEffect DEF Keeps
<1>4. CASE UNCHANGED server
  <2>1. TypeOK'
    BY <1>1, <1>2, <1>3, <1>4 DEF TypeOK, Ordered
  <2>2. Claims' /\ Waits'
    BY <1>1, <1>2, <1>3, <1>4, QuietClaims, RestWaits
  <2>3. Listened => Listened'
    BY <1>1, <1>2, <1>4, MouseListened
  <2> QED BY <1>2, <1>3, <2>1, <2>2, <2>3 DEF CompositorInv, Ordered
<1>5. CASE \E w \in Range(g.windows) :
             EventFor(g, w) /\ ("busy_client" \in Avoid => Listening(w))
  <2>1. PICK w \in Range(g.windows) :
               EventFor(g, w) /\ ("busy_client" \in Avoid => Listening(w))
    BY <1>5
  <2>2. w \in Nat /\ g.win[w].owner \in Client \cup {Everybody}
    <3>1. w \in Nat /\ w \in DOMAIN g.win
      BY <1>1, OpenNumber DEF Ordered
    <3>2. g.win \in Seq(Window)
      BY <1>1, WindowFields DEF Ordered
    <3>3. g.win[w] \in Window
      BY <3>1, <3>2
    <3> QED BY <3>1, <3>3 DEF Window
  <2>3. server' \in Seq(Write) /\ Len(server') <= 1
    BY <2>1, <2>2, WriteTyped DEF EventFor
  <2>4. TypeOK'
    BY <1>1, <1>2, <1>3, <2>3 DEF TypeOK, Ordered
  <2>5. Claims'
    BY <1>1, <1>2, <1>3, <2>1, QuietClaims
  <2>6. Waits'
    BY <1>1, <1>2, <2>1, MouseWaits
  <2>7. "busy_client" \in Avoid /\ Listened => Listened'
    BY <1>1, <1>2, <2>1, MouseListened
  <2> QED BY <1>2, <1>3, <2>4, <2>5, <2>6, <2>7 DEF CompositorInv, Ordered
<1> QED BY <1>3, <1>4, <1>5

\* The head of the queue.
LEMMA PackageStep ==
  ASSUME CompositorInv, ServerPackage
  PROVE  CompositorInv'
<1>1. TypeOK /\ Ordered(g) /\ Claims /\ Waits /\ ("restack" \in Avoid => Painted(g, screen))
  BY DEF CompositorInv, TypeOK, Ordered
<1>2. UNCHANGED <<screen, client>> /\ pkg' = read_server(pkg)
  BY DEF ServerPackage
<1> DEFINE m == pkg.msg_list[1]
<1>3. /\ pkg.msg_list # <<>> /\ m \in Package /\ server = <<>>
      /\ Ordered(g') /\ ("restack" \in Avoid => Painted(g', screen))
      /\ KeepsBut(g, g', IF m.data.type = "CLOSE" THEN {m.data.wid} ELSE {})
      /\ Replied(m)
  BY <1>1, PackageEffect DEF TypeOK, Package
<1>4. pkg' \in PkgType
  BY <1>1, <1>2, <1>3, ByServer DEF TypeOK
<1>5. server' \in Seq(Write) /\ Len(server') <= 1
  <2>1. m.source \in Client /\ g.wid \in Nat
    BY <1>1, <1>3, WindowFields DEF Ordered, Package
  <2> HIDE DEF m
  <2>2. CASE UNCHANGED server
    BY <1>3, <2>2, NothingWritten
  <2>3. CASE Answer(m.source, "WELCOME", 0)
    BY <2>1, <2>3, WriteTyped DEF Answer, Answers
  <2>4. CASE Answer(m.source, "INIT", g.wid)
    BY <2>1, <2>4, WriteTyped DEF Answer, Answers
  <2> QED BY <1>3, <2>2, <2>3, <2>4 DEF Replied
<1>6. TypeOK'
  BY <1>1, <1>2, <1>3, <1>4, <1>5 DEF TypeOK, Ordered
<1>7. Claims' /\ Waits'
  BY <1>1, <1>2, <1>3, PackageClaims, PackageWaits
<1>8. Listened => Listened'
  BY <1>1, <1>2, <1>3, PackageListened
<1> QED BY <1>2, <1>3, <1>6, <1>7, <1>8 DEF CompositorInv, Ordered

\* One package of a write.
LEMMA SendStep ==
  ASSUME CompositorInv, ServerSend
  PROVE  CompositorInv'
<1>1. TypeOK /\ Ordered(g) /\ Claims /\ Waits /\ ("restack" \in Avoid => Painted(g, screen))
  BY DEF CompositorInv, TypeOK, Ordered
<1> DEFINE x == server[1]
           y == [x EXCEPT !.at = @ + 1]
<1>2. /\ server # <<>> /\ UNCHANGED <<g, screen, client>>
      /\ \/ pkg' = pkg /\ server' = <<>>
         \/ \E t \in Client :
              pkg' = send_to_client(pkg, t, x.data) /\ (server' = <<>> \/ server' = <<y>>)
  BY <1>1, SendEffect
<1>3. x \in Write
  BY <1>1, <1>2, ServerIs DEF TypeOK
<1>4. x.data \in Reply /\ y \in Write
  BY <1>3 DEF Write
<1> HIDE DEF x, y
<1>5. pkg' \in PkgType
  <2>1. CASE pkg' = pkg
    BY <1>1, <2>1 DEF TypeOK
  <2>2. ASSUME NEW t \in Client, pkg' = send_to_client(pkg, t, x.data) PROVE pkg' \in PkgType
    <3>1. send_to_client(pkg, t, x.data) \in PkgType
      BY <1>1, <1>4, ToClient DEF TypeOK
    <3> QED BY <2>2, <3>1
  <2> QED BY <1>2, <2>1, <2>2
<1>6. server' \in Seq(Write) /\ Len(server') <= 1
  <2>1. <<y>> \in Seq(Write) /\ Len(<<y>>) <= 1
    BY <1>4
  <2> QED BY <1>2, <2>1, NothingWritten
<1>7. TypeOK'
  BY <1>1, <1>2, <1>5, <1>6 DEF TypeOK
<1>8. Claims' /\ Waits'
  BY <1>1, SendClaims, SendWaits
<1>9. Listened => Listened'
  BY <1>1, SendListened
<1> QED BY <1>2, <1>7, <1>8, <1>9 DEF CompositorInv

\* A client that does not wait connects, or makes a call.
LEMMA StartStep ==
  ASSUME CompositorInv, NEW c \in Client, client[c].pc \in {"none", "idle"},
         NEW m \in Request, NEW want \in Answers \cup {"nothing"}, NEW ws \in SUBSET client[c].windows,
         Becomes(c, "send", m, want, ws),
         IF m.type \in Questions THEN want \in Answers /\ m.type = Asks[want]
         ELSE want = "nothing" /\ m.type # "none",
         m.type \in {"MOVE", "CLOSE"} => m.wid \in client[c].windows,
         m.type = "CLOSE" => m.wid \notin ws,
         "busy_client" \in Avoid => server = <<>> /\ (want # "nothing" => pkg.inbox[c] = <<>>),
         pkg' \in PkgType, pkg'.msg_list = pkg.msg_list, pkg'.inbox = pkg.inbox,
         \A d \in Client : d # c /\ d \in Range(pkg'.clients) => d \in Range(pkg.clients),
         UNCHANGED <<g, screen, server>>
  PROVE  CompositorInv'
<1>1. TypeOK /\ Claims /\ Waits /\ ws \in SUBSET Nat /\ client \in [Client -> ClientType]
  BY ClientFields DEF CompositorInv, TypeOK
<1>2. client' \in [Client -> ClientType]
  BY <1>1, BecomesFields
<1>3. TypeOK'
  BY <1>1, <1>2 DEF TypeOK
<1>4. Claims'
  BY <1>1, StartsClaims
<1>5. Waits'
  BY <1>1, StartsWaits
<1>6. "busy_client" \in Avoid /\ Listened => Listened'
  BY <1>1, StartsListened
<1> QED BY <1>3, <1>4, <1>5, <1>6 DEF CompositorInv

LEMMA ConnectStep ==
  ASSUME CompositorInv, NEW c \in Client, poudland_init_context(c)
  PROVE  CompositorInv'
<1>1. pkg \in PkgType /\ client \in [Client -> ClientType]
  BY DEF CompositorInv, TypeOK
<1>2. PICK m \in Request : m.type = "HELLO" /\ Becomes(c, "send", m, "WELCOME", client[c].windows)
  BY <1>1, Connects
<1>3. /\ client[c].pc = "none" /\ pkg' = create_client(pkg, c)
      /\ "busy_client" \in Avoid => server = <<>>
      /\ UNCHANGED <<g, screen, server>>
  BY <1>1, Connects
<1>4. /\ pkg' \in PkgType /\ pkg'.inbox = pkg.inbox /\ pkg'.msg_list = pkg.msg_list
      /\ pkg'.clients = Append(pkg.clients, c)
  BY <1>1, <1>3, Connected
<1>5. Range(pkg'.clients) = Range(pkg.clients) \cup {c}
  <2>1. pkg.clients \in Seq(Client)
    BY <1>1, PkgFields
  <2>2. Range(Append(pkg.clients, c)) = Range(pkg.clients) \cup {c}
    BY <2>1, AppendRange
  <2> QED BY <1>4, <2>2
<1>6. "busy_client" \in Avoid => pkg.inbox[c] = <<>>
  BY <1>3 DEF CompositorInv, Listened
<1>7. m.type \in Questions /\ m.type = Asks["WELCOME"] /\ "WELCOME" \in Answers
      /\ m.type \notin {"MOVE", "CLOSE"}
  BY <1>2, AsksIs DEF Questions, Answers
<1> QED BY <1>2, <1>3, <1>4, <1>5, <1>6, <1>7, StartStep

\* The calls: to make a window, to move one, to close one.
LEMMA CallStep ==
  ASSUME CompositorInv, "unknown_wid" \in Avoid, NEW c \in Client,
         poudland_create_window(c) \/ poudland_move_window(c) \/ poudland_remove_window(c)
  PROVE  CompositorInv'
<1>1. pkg \in PkgType /\ client \in [Client -> ClientType]
  BY DEF CompositorInv, TypeOK
<1>2. ASSUME Calls(c)
      PROVE  /\ client[c].pc = "idle" /\ ("busy_client" \in Avoid => server = <<>>)
             /\ UNCHANGED <<g, screen, server>> /\ pkg' \in PkgType /\ pkg' = pkg
             /\ client[c].want = "nothing"
  BY <1>1, <1>2 DEF Calls, CompositorInv, Waits, ClientWaits
<1>3. CASE poudland_create_window(c)
  <2>1. Calls(c) /\ ("busy_client" \in Avoid => pkg.inbox[c] = <<>>)
    BY <1>1, <1>3, AsksToMake
  <2>2. PICK m \in Request : m.type = "NEW" /\ Becomes(c, "send", m, "INIT", client[c].windows)
    BY <1>1, <1>3, AsksToMake
  <2>3. m.type \in Questions /\ m.type = Asks["INIT"] /\ "INIT" \in Answers
        /\ m.type \notin {"MOVE", "CLOSE"}
    BY <2>2, AsksIs DEF Questions, Answers
  <2> QED BY <1>2, <2>1, <2>2, <2>3, StartStep
<1>4. CASE poudland_move_window(c)
  <2>1. Calls(c)
    BY <1>1, <1>4, AsksToMove
  <2>2. PICK m \in Request : /\ m.type = "MOVE" /\ m.wid \in client[c].windows
                             /\ Becomes(c, "send", m, "nothing", client[c].windows)
    BY <1>1, <1>4, AsksToMove
  <2>3. m.type \notin Questions /\ m.type \notin {"none", "CLOSE"}
    BY <2>2 DEF Questions
  <2> QED BY <1>2, <2>1, <2>2, <2>3, StartStep
<1>5. CASE poudland_remove_window(c)
  <2>1. Calls(c)
    BY <1>1, <1>5, AsksToClose
  <2>2. PICK m \in Request :
          /\ m.type = "CLOSE" /\ m.wid \in client[c].windows
          /\ Becomes(c, "send", m, client[c].want, client[c].windows \ {m.wid})
    BY <1>1, <1>5, AsksToClose
  <2>3. m.type \notin Questions /\ m.type # "none"
    BY <2>2 DEF Questions
  <2>4. Becomes(c, "send", m, "nothing", client[c].windows \ {m.wid})
    BY <1>2, <2>1, <2>2
  <2> QED BY <1>2, <2>1, <2>2, <2>3, <2>4, StartStep
<1> QED BY <1>3, <1>4, <1>5

LEMMA PutStep ==
  ASSUME CompositorInv, NEW c \in Client, ClientSend(c)
  PROVE  CompositorInv'
<1>0. PICK m, want, ws : m = client[c].msg /\ want = client[c].want /\ ws = client[c].windows
  OBVIOUS
<1>1. TypeOK /\ Claims /\ Waits /\ pkg \in PkgType /\ client \in [Client -> ClientType]
  BY DEF CompositorInv, TypeOK
<1>2. /\ pkg' = send_to_server(pkg, c, m) /\ UNCHANGED <<g, screen, server>>
      /\ Becomes(c, IF want = "nothing" THEN "idle" ELSE "wait", Nothing, want, ws)
  BY <1>0, <1>1, Sends
<1>3. m \in Request /\ want \in Answers \cup {"nothing"} /\ ws \in SUBSET Nat
  BY <1>0, <1>1, ClientFields
<1>4. pkg' \in PkgType
  <2>1. send_to_server(pkg, c, m) \in PkgType
    BY <1>1, <1>3, ToServer
  <2> QED BY <1>2, <2>1
<1>5. client' \in [Client -> ClientType]
  BY <1>1, <1>2, <1>3, BecomesFields, NothingTyped
<1>6. TypeOK'
  BY <1>1, <1>2, <1>4, <1>5 DEF TypeOK
<1>7. Claims' /\ Waits'
  BY <1>1, PutClaims, PutWaits
<1>8. Listened => Listened'
  BY <1>1, PutListened
<1> QED BY <1>2, <1>6, <1>7, <1>8 DEF CompositorInv

\* A client takes what it waits for, or throws an event away.
LEMMA TakeStep ==
  ASSUME CompositorInv, NEW c \in Client, ClientWait(c) \/ ClientLoop(c)
  PROVE  CompositorInv'
<1>1. TypeOK /\ Claims /\ Waits /\ pkg \in PkgType /\ client \in [Client -> ClientType]
  BY DEF CompositorInv, TypeOK
<1> DEFINE r == pkg.inbox[c][1]
<1>2. pkg.inbox[c] # <<>> /\ pkg' = read_client(pkg, c) /\ UNCHANGED <<g, screen, server>>
  BY DEF ClientWait, ClientLoop, ioctl_client
<1>3. pkg' \in PkgType
  <2>1. read_client(pkg, c) \in PkgType
    BY <1>1, <1>2, ByClient
  <2> QED BY <1>2, <2>1
<1>4. /\ client' \in [Client -> ClientType] /\ \A d \in Client : d # c => client'[d] = client[d]
      /\ \/ client[c].pc = "idle" /\ client'[c] = client[c]
         \/ /\ client[c].pc = "wait" /\ client'[c].want = "nothing"
            /\ client'[c].pc = IF r.type = client[c].want THEN "idle" ELSE "lost"
            /\ client'[c].windows = IF r.type = "INIT" THEN client[c].windows \cup {r.wid}
                                    ELSE client[c].windows
  <2>1. CASE ClientLoop(c)
    BY <1>1, <2>1 DEF ClientLoop
  <2>2. CASE ClientWait(c)
    <3>0. PICK p, b, ws : /\ p = IF r.type = client[c].want THEN "idle" ELSE "lost"
                          /\ b = client[c].msg
                          /\ ws = IF r.type = "INIT" THEN client[c].windows \cup {r.wid}
                                  ELSE client[c].windows
      OBVIOUS
    <3>1. client[c].pc = "wait" /\ r \in Reply /\ Becomes(c, p, b, "nothing", ws)
      BY <1>1, <2>2, <3>0, Hears
    <3>2. p \in {"none", "idle", "send", "wait", "lost"} /\ b \in Request /\ ws \in SUBSET Nat
      <4>1. r.wid \in Nat
        BY <3>1 DEF Reply
      <4>2. client[c].windows \in SUBSET Nat /\ client[c].msg \in Request
        BY <1>1, ClientFields
      <4> HIDE DEF r
      <4> QED BY <3>0, <4>1, <4>2
    <3>3. /\ client' \in [Client -> ClientType] /\ \A d \in Client : d # c => client'[d] = client[d]
          /\ client'[c].pc = p /\ client'[c].want = "nothing" /\ client'[c].windows = ws
      BY <1>1, <3>1, <3>2, BecomesFields
    <3> HIDE DEF r
    <3> QED BY <3>0, <3>1, <3>3
  <2> QED BY <2>1, <2>2
<1>5. TypeOK'
  BY <1>1, <1>2, <1>3, <1>4 DEF TypeOK
<1>6. Claims'
  BY <1>1, <1>2, <1>4, TakesClaims
<1>7. Waits'
  BY <1>1, <1>2, <1>4, TakesWaits
<1>8. Listened => Listened'
  BY <1>1, <1>2, <1>4, TakesListened
<1> QED BY <1>2, <1>5, <1>6, <1>7, <1>8 DEF CompositorInv

\* Every step.
LEMMA CompositorStep ==
  ASSUME "unknown_wid" \in Avoid
  PROVE  CompositorInv /\ [Next]_vars => CompositorInv'
<1> SUFFICES ASSUME CompositorInv, [Next]_vars PROVE CompositorInv'
  OBVIOUS
<1>1. CASE redraw_windows
  BY <1>1, RedrawStep
<1>2. CASE ServerPackage
  BY <1>2, PackageStep
<1>3. CASE ServerSend
  BY <1>3, SendStep
<1>4. CASE ServerMouse
  BY <1>4, MouseStep
<1>5. ASSUME NEW c \in Client, poudland_init_context(c) PROVE CompositorInv'
  BY <1>5, ConnectStep
<1>6. ASSUME NEW c \in Client, ClientSend(c) PROVE CompositorInv'
  BY <1>6, PutStep
<1>7. ASSUME NEW c \in Client, ClientWait(c) \/ ClientLoop(c) PROVE CompositorInv'
  BY <1>7, TakeStep
<1>8. ASSUME NEW c \in Client,
             poudland_create_window(c) \/ poudland_move_window(c) \/ poudland_remove_window(c)
      PROVE  CompositorInv'
  BY <1>8, CallStep
<1>9. CASE UNCHANGED vars
  <2>1. UNCHANGED <<pkg, g, screen, server, client>>
    BY <1>9 DEF vars
  <2>2. Waits'
    BY <2>1, RestWaits DEF CompositorInv
  <2>3. Claims'
    BY <2>1, QuietClaims DEF CompositorInv, KeepsBut
  <2>4. Listened => Listened'
    BY <2>1, MouseListened DEF CompositorInv
  <2>5. TypeOK'
    BY <2>1 DEF CompositorInv, TypeOK
  <2> QED BY <2>1, <2>2, <2>3, <2>4, <2>5 DEF CompositorInv
<1> QED BY <1>1, <1>2, <1>3, <1>4, <1>5, <1>6, <1>7, <1>8, <1>9 DEF Next

-----------------------------------------------------------------------------
(* The start.                                                              *)

\* The state at the start: the background alone, nothing drawn, nobody connected.
LEMMA StartOrdered ==
  ASSUME Init
  PROVE  Ordered(g) /\ Painted(g, screen)
<1> DEFINE h == Globals
           v == [y |-> 0, height |-> Height, owner |-> Everybody]
<1>1. h \in GlobalsType
  <2>1. hashmap_init(MapSize) \in [0 .. MapSize - 1 -> Seq(Nat)]
    <3>1. <<>> \in Seq(Nat)
      OBVIOUS
    <3> QED BY <3>1 DEF hashmap_init
  <2>2. /\ h.map = hashmap_init(MapSize) /\ DOMAIN h.map = 0 .. MapSize - 1
        /\ <<>> \in Seq(Nat) /\ <<>> \in Seq(Window)
    BY DEF Globals, hashmap_init
  <2> QED BY <2>1, <2>2 DEF Globals, GlobalsType
<1>2. /\ h.wid = 1 /\ h.wid = Len(h.win) + 1 /\ h.windows = <<>> /\ h.mid_zs = <<>> /\ h.win = <<>>
      /\ h.map = hashmap_init(MapSize) /\ h.bottom_z = 0 /\ h.top_z = 0 /\ h.focused = 0
      /\ h.damage = {}
  BY DEF Globals
<1>3. Height \in Nat /\ 0 \in Int /\ Everybody \in Client \cup {Everybody}
  BY Sizes
<1> HIDE DEF h
<1>4. g = mark_window(server_window_create(h, 0, Height, Everybody), next_wid(h))
  BY <1>2 DEF Init, h, next_wid, Background
<1>5. /\ g \in GlobalsType /\ g.bottom_z = h.bottom_z /\ Created(h, g, v)
  <2>1. h.wid = Len(h.win) + 1
    BY <1>2
  <2> HIDE DEF v
  <2>2. v = [y |-> 0, height |-> Height, owner |-> Everybody]
    BY DEF v
  <2>3. g \in GlobalsType /\ g.bottom_z = h.bottom_z
        /\ Created(h, g, [y |-> 0, height |-> Height, owner |-> Everybody])
    BY <1>1, <1>3, <1>4, <2>1, CreateEffect
  <2> QED BY <2>2, <2>3
<1> HIDE DEF v
<1>6. /\ g.wid = 2 /\ g.windows = <<1>> /\ g.mid_zs = <<1>> /\ g.win = <<v>>
      /\ g.map = hashmap_set(hashmap_init(MapSize), 1) /\ g.bottom_z = 0 /\ g.top_z = 0
      /\ g.focused = 0 /\ g.damage = Rows(v.y, v.height)
  BY <1>2, <1>5 DEF Created
<1>7. Range(<<1>>) = {1} /\ IsInjective(<<1>>) /\ DOMAIN <<1>> = {1}
  BY DEF Range, IsInjective
<1>8. Listed(g)
  <2>1. DOMAIN <<v>> = {1} /\ <<v>>[1] = v /\ Len(<<v>>) = 1
    OBVIOUS
  <2> QED BY <1>6, <1>7, <2>1 DEF Listed, Background, v
<1>9. Mapped(g)
  <2> DEFINE k == hash_function(1)
             M == hashmap_init(MapSize)
  <2>1. k \in 0 .. MapSize - 1
    BY HashRange
  <2>2. \A i \in 0 .. MapSize - 1 : M[i] = <<>>
    BY DEF hashmap_init
  <2>3. DOMAIN M = 0 .. MapSize - 1
    BY DEF hashmap_init
  <2>4. hashmap_set(M, 1) = [M EXCEPT ![k] = Append(M[k], 1)]
    BY DEF hashmap_set
  <2> HIDE DEF M, k
  <2>5. Append(M[k], 1) = <<1>>
    <3>1. M[k] = <<>>
      BY <2>1, <2>2
    <3>2. Append(<<>>, 1) = <<1>>
      OBVIOUS
    <3> QED BY <3>1, <3>2, Zenon
  <2>6. DOMAIN g.map = 0 .. MapSize - 1
        /\ \A i \in 0 .. MapSize - 1 : g.map[i] = IF i = k THEN <<1>> ELSE <<>>
    BY <1>6, <2>1, <2>2, <2>3, <2>4, <2>5 DEF M
  <2>7. Range(<<>>) = {} /\ IsInjective(<<>>)
    BY DEF Range, IsInjective
  <2>8. ASSUME NEW i \in DOMAIN g.map
        PROVE  /\ IsInjective(g.map[i])
               /\ Range(g.map[i]) = {w \in Range(g.windows) : hash_function(w) = i}
    <3>1. CASE i = k
      BY <1>6, <1>7, <2>6, <3>1 DEF k
    <3>2. CASE i # k
      BY <1>6, <1>7, <2>6, <2>7, <3>2 DEF k
    <3> QED BY <3>1, <3>2
  <2> QED BY <2>8 DEF Mapped
<1>10. Stacked(g)
  BY <1>6 DEF Stacked
<1>11. Painted(g, screen)
  <2>1. v.y = 0 /\ v.height = Height
    BY DEF v
  <2>2. Rows(0, Height) = Row
    BY <1>3 DEF Rows, Row
  <2> QED BY <1>6, <2>1, <2>2 DEF Painted
<1> QED BY <1>5, <1>8, <1>9, <1>10, <1>11 DEF Ordered

LEMMA CompositorInitially == Init => CompositorInv
<1> SUFFICES ASSUME Init PROVE CompositorInv
  OBVIOUS
<1>1. Ordered(g) /\ Painted(g, screen)
  BY StartOrdered
<1>2. /\ pkg.msg_list = <<>> /\ pkg.clients = <<>> /\ \A c \in Client : pkg.inbox[c] = <<>>
      /\ server = <<>>
  BY DEF Init, create_server
<1>3. pkg \in PkgType
  <2>1. /\ <<>> \in Seq([source : Client, data : Request]) /\ <<>> \in Seq(Client)
        /\ <<>> \in Seq(Reply)
    OBVIOUS
  <2> QED BY <2>1 DEF Init, create_server, PkgType
<1>4. NewClient \in ClientType
  BY NothingTyped DEF NewClient, ClientType
<1>5. client = [c \in Client |-> NewClient]
  BY DEF Init
<1>6. \A c \in Client : /\ client[c].pc = "none" /\ client[c].want = "nothing"
                        /\ client[c].windows = {}
  BY <1>5 DEF NewClient
<1>7. screen \in [Row -> [win : Nat, mouse : BOOLEAN]]
  BY DEF Init
<1>8. TypeOK
  <2>1. server \in Seq(Write) /\ Len(server) <= 1
    BY <1>2
  <2>2. client \in [Client -> ClientType]
    BY <1>4, <1>5
  <2> QED BY <1>1, <1>3, <1>7, <2>1, <2>2 DEF TypeOK, Ordered
<1>9. DOMAIN <<>> = {} /\ Range(<<>>) = {}
  BY DEF Range
<1>10. \A c \in Client : Quiet(c)
  BY <1>2, <1>9 DEF Quiet, AllAsked, AllWriting, AllAnswered, Asked, Writing, Answered
<1>11. Waits
  BY <1>2, <1>6, <1>9, <1>10 DEF Waits, ClientWaits
<1>12. Claims
  BY <1>2, <1>6, <1>9 DEF Claims
<1>13. Listened
  BY <1>2, <1>6, <1>9 DEF Listened, Asking
<1> QED BY <1>1, <1>8, <1>11, <1>12, <1>13 DEF CompositorInv, Ordered

\* Spec keeps the invariant, for a run that leaves out the moves of closed windows.
THEOREM CompositorInvariance ==
  ASSUME "unknown_wid" \in Avoid
  PROVE  Spec => []CompositorInv
<1>1. Init => CompositorInv
  BY CompositorInitially
<1>2. CompositorInv /\ [Next]_vars => CompositorInv'
  BY CompositorStep
<1> QED BY <1>1, <1>2, PTL DEF Spec

-----------------------------------------------------------------------------
(* What follows from the invariant.                                        *)

LEMMA WindowsAgreeFrom == CompositorInv => WindowsAgree
<1> SUFFICES ASSUME CompositorInv PROVE WindowsAgree
  OBVIOUS
<1>1. g \in GlobalsType /\ Listed(g) /\ Mapped(g) /\ Stacked(g) /\ g.windows \in Seq(Nat)
      /\ g.win \in Seq(Window)
  BY WindowFields DEF CompositorInv, TypeOK
<1>2. \A w : Contains(g.windows, w) <=> w \in Range(g.windows)
  BY <1>1, ContainsIs
<1>3. \A w \in DOMAIN g.win : w \in Nat
  BY <1>1
<1>4. \A w \in DOMAIN g.win : Contains(g.windows, w) <=> hashmap_has(g.map, w)
  BY <1>1, <1>2, <1>3, HasIsOpen
<1>5. \A w \in Range(g.windows) : hashmap_get(g.map, w) = w
  BY <1>1, OpenNumber, GetOpen
<1>6. \A c \in Client : \A w \in client[c].windows :
        Contains(g.windows, w) /\ g.win[w].owner = c
  BY <1>2 DEF CompositorInv, Claims, Free, Owns
<1>7. g.focused \in Range(g.windows) \cup {0}
  BY <1>1 DEF Stacked
<1> QED BY <1>1, <1>4, <1>5, <1>6, <1>7 DEF WindowsAgree, Listed

LEMMA ScreenUpToDateFrom ==
  ASSUME "restack" \in Avoid, CompositorInv
  PROVE  ScreenUpToDate
<1>1. Painted(g, screen)
  BY DEF CompositorInv
<1> SUFFICES ASSUME NEW r \in Row \ (g.damage \cup PointerDamage(g)) PROVE screen[r] = Drawn(g, r)
  BY DEF ScreenUpToDate
<1>2. screen[r] = [win |-> Shown(g, r), mouse |-> r \in Rows(g.last_mouse, MouseHeight)]
  BY <1>1 DEF Painted
<1>3. (r \in Rows(g.last_mouse, MouseHeight)) = (r \in draw_mouse(g))
  <2>1. CASE g.last_mouse = g.mouse
    BY <2>1 DEF draw_mouse
  <2>2. CASE g.last_mouse # g.mouse
    BY <2>2 DEF PointerDamage
  <2> QED BY <2>1, <2>2
<1> QED BY <1>2, <1>3 DEF Drawn

\* One question, one package being written, or one answer.
LEMMA OneOnItsWay ==
  ASSUME CompositorInv, NEW c \in Client, client[c].pc = "wait"
  PROVE  Cardinality(Asked(c, Asks[client[c].want])) + Cardinality(Writing(c, client[c].want))
           + Cardinality(Answered(c, client[c].want)) = 1
<1> DEFINE want == client[c].want
           A == Asked(c, Asks[want])
           W == Writing(c, want)
           R == Answered(c, want)
<1>1. want \in Answers /\ Once(c, want)
  BY DEF CompositorInv, Waits, ClientWaits
<1>2. A \subseteq AllAsked(c) /\ W \subseteq AllWriting(c) /\ R \subseteq AllAnswered(c)
  BY <1>1 DEF AllAsked, AllWriting, AllAnswered, Answers, Asks
<1>3. Cardinality({}) = 0 /\ \A i : Cardinality({i}) = 1
  BY FS_EmptySet, FS_Singleton
<1>4. W \subseteq {1}
  <2>1. server \in Seq(Write) /\ Len(server) <= 1
    BY DEF CompositorInv, TypeOK
  <2>2. DOMAIN server \subseteq {1}
    BY <2>1
  <2> QED BY <2>2 DEF Writing
<1> HIDE DEF want, A, W, R
<1>5. \/ (\E i : A = {i}) /\ W = {} /\ R = {}
      \/ A = {} /\ W = {1} /\ R = {}
      \/ A = {} /\ W = {} /\ \E i : R = {i}
  <2>1. CASE /\ AllWriting(c) = {} /\ AllAnswered(c) = {}
             /\ \E i \in A : AllAsked(c) = {i}
    BY <1>2, <2>1
  <2>2. CASE AllAsked(c) = {} /\ AllAnswered(c) = {} /\ 1 \in W
    BY <1>2, <1>4, <2>2
  <2>3. CASE /\ AllAsked(c) = {} /\ AllWriting(c) = {}
             /\ \E i \in R : AllAnswered(c) = {i}
    BY <1>2, <2>3
  <2> QED BY <1>1, <2>1, <2>2, <2>3 DEF Once, A, W, R
<1>6. \/ Cardinality(A) = 1 /\ Cardinality(W) = 0 /\ Cardinality(R) = 0
      \/ Cardinality(A) = 0 /\ Cardinality(W) = 1 /\ Cardinality(R) = 0
      \/ Cardinality(A) = 0 /\ Cardinality(W) = 0 /\ Cardinality(R) = 1
  BY <1>3, <1>5
<1>7. Cardinality(A) + Cardinality(W) + Cardinality(R) = 1
  BY <1>6
<1> QED BY <1>7 DEF want, A, W, R

\* A client that is written to is there to read.
LEMMA ReaderReads ==
  ASSUME CompositorInv, "busy_client" \in Avoid, NEW c \in Client, server # <<>>,
         ~WriteDone(pkg, Head(server)), c = Target(pkg, Head(server))
  PROVE  client[c].pc \in {"idle", "wait"}
<1> DEFINE x == server[1]
<1>1. /\ x \in Write /\ Head(server) = x /\ DOMAIN server = {1}
      /\ pkg \in PkgType /\ client \in [Client -> ClientType]
  BY ServerIs DEF CompositorInv, TypeOK
<1>2. /\ x.data.type \in Answers \cup Events /\ x.target \in Client \cup {Everybody}
      /\ x.at \in Nat \ {0}
  BY <1>1 DEF Write, Reply
<1>3. client[c].pc \in {"none", "idle", "send", "wait", "lost"} /\ client[c].pc # "lost"
  BY <1>1, ClientFields DEF CompositorInv, Listened
<1>4. CASE x.data.type \in Answers
  <2>1. x.target \in Client
    BY <1>1, <1>4 DEF CompositorInv, Waits
  <2>2. x.target = c
    BY <1>1, <2>1, Sizes DEF Target
  <2>3. 1 \in AllWriting(c)
    BY <1>1, <1>4, <2>2 DEF AllWriting, Writing, Answers
  <2>4. ~Quiet(c)
    BY <2>3 DEF Quiet
  <2> QED BY <1>3, <2>4 DEF CompositorInv, Waits, ClientWaits
<1>5. CASE x.data.type \in Events
  <2>1. Told(x, c)
    <3>1. CASE x.target = Everybody
      <4>1. pkg.clients \in Seq(Client) /\ DOMAIN pkg.clients = 1 .. Len(pkg.clients)
            /\ Len(pkg.clients) \in Nat
        BY <1>1, PkgFields
      <4>2. x.at \in DOMAIN pkg.clients /\ c = pkg.clients[x.at]
        BY <1>1, <1>2, <3>1, <4>1 DEF WriteDone, Target
      <4> QED BY <3>1, <4>2, InRange DEF Told
    <3>2. CASE x.target # Everybody
      BY <1>1, <3>2 DEF Target, Told
    <3> QED BY <3>1, <3>2
  <2> QED BY <1>1, <1>5, <2>1 DEF CompositorInv, Listened
<1> QED BY <1>2, <1>4, <1>5

LEMMA AnswerUnderWayFrom ==
  ASSUME "busy_client" \in Avoid, CompositorInv
  PROVE  AnswerUnderWay
BY OneOnItsWay, ReaderReads DEF AnswerUnderWay

\* Who a step that changes a window is from.
OwnStep ==
  \A w \in Range(g.windows) :
    g'.win[w] # g.win[w] =>
      \/ g.mouse_state = "dragging" /\ g.mouse_window = w
      \/ pkg' # pkg /\ Head(pkg.msg_list).source = g.win[w].owner
         /\ Head(pkg.msg_list).data.wid = w

LEMMA OnlyOwnersStep ==
  CompositorInv /\ [Next]_vars => [OwnStep]_vars
<1> SUFFICES ASSUME CompositorInv, Next, NEW w \in Range(g.windows), g'.win[w] # g.win[w]
             PROVE  \/ g.mouse_state = "dragging" /\ g.mouse_window = w
                    \/ pkg' # pkg /\ Head(pkg.msg_list).source = g.win[w].owner
                       /\ Head(pkg.msg_list).data.wid = w
  BY DEF OwnStep
<1>1. TypeOK /\ Ordered(g) /\ Claims /\ ("restack" \in Avoid => Painted(g, screen))
      /\ pkg \in PkgType /\ screen \in [Row -> [win : Nat, mouse : BOOLEAN]]
  BY DEF CompositorInv, TypeOK, Ordered
<1>2. CASE redraw_windows
  BY <1>1, <1>2, RedrawEffect
<1>3. CASE ServerMouse
  <2>1. ChangesOnly(g, g', IF g.mouse_state = "dragging" THEN {g.mouse_window} ELSE {})
    BY <1>1, <1>3, MouseEffect DEF Keeps
  <2> QED BY <2>1 DEF ChangesOnly
<1>4. CASE ServerPackage
  <2> DEFINE m == pkg.msg_list[1]
  <2>1. /\ pkg.msg_list # <<>> /\ m = Head(pkg.msg_list)
        /\ ChangesOnly(g, g', IF m.data.type \in {"MOVE", "CLOSE"} THEN {m.data.wid} ELSE {})
        /\ m.data.type \in {"MOVE", "CLOSE"} => Owns(m.source, m.data.wid)
    BY <1>1, <1>4, PackageEffect
  <2>2. pkg' # pkg
    <3>1. pkg' = read_server(pkg)
      BY <1>4 DEF ServerPackage
    <3>2. pkg'.msg_list = Tail(pkg.msg_list)
      BY <1>1, <2>1, <3>1, ByServer
    <3>3. Tail(pkg.msg_list) # pkg.msg_list
      <4>1. pkg.msg_list \in Seq(Package)
        BY <1>1, PkgFields
      <4> QED BY <2>1, <4>1, TailFields
    <3> QED BY <3>2, <3>3
  <2> HIDE DEF m
  <2>3. m.data.type \in {"MOVE", "CLOSE"} /\ m.data.wid = w
    BY <2>1 DEF ChangesOnly
  <2> QED BY <2>1, <2>2, <2>3 DEF Owns
<1>5. ASSUME g' = g PROVE FALSE
  BY <1>5
<1>6. CASE ServerSend
  BY <1>5, <1>6 DEF ServerSend
<1>7. ASSUME NEW c \in Client, 
             \/ poudland_init_context(c) \/ ClientSend(c) \/ ClientWait(c) \/ ClientLoop(c)
      PROVE  FALSE
  BY <1>5, <1>7 DEF poudland_init_context, ClientSend, ClientWait, ClientLoop
<1>8. ASSUME NEW c \in Client,
             poudland_create_window(c) \/ poudland_move_window(c) \/ poudland_remove_window(c)
      PROVE  FALSE
  BY <1>5, <1>8 DEF poudland_create_window, poudland_move_window, poudland_remove_window, Call
<1> QED BY <1>2, <1>3, <1>4, <1>6, <1>7, <1>8 DEF Next

-----------------------------------------------------------------------------
(* The theorems.                                                           *)

\* The list of windows, the stack and the hash map always hold the same windows,
\* each is found under its number, the focused one is open, and what a client
\* knows is its own (server_window_create, server_window_close, hashmap_get).
THEOREM WindowsAlwaysAgree ==
  ASSUME "unknown_wid" \in Avoid
  PROVE  Spec => []WindowsAgree
<1>1. Spec => []CompositorInv
  BY CompositorInvariance
<1>2. CompositorInv => WindowsAgree
  BY WindowsAgreeFrom
<1> QED BY <1>1, <1>2, PTL

\* Events go to the window that is drawn last where the pointer is
\* (window_top_of, poudland_blit_windows), whatever else is avoided.
THEOREM EventsGoToTheTop ==
  ASSUME "unknown_wid" \in Avoid
  PROVE  Spec => []TopmostGetsEvents
<1>1. Spec => []CompositorInv
  BY CompositorInvariance
<1>2. CompositorInv => TopmostGetsEvents
  BY TopmostFrom DEF CompositorInv, TypeOK, Ordered
<1> QED BY <1>1, <1>2, PTL

\* What is not marked as damage shows the windows as they lie and the pointer where
\* it is (mark_window, redraw_windows), when no focus restacks what is under
\* another window.
THEOREM ScreenAlwaysUpToDate ==
  ASSUME "unknown_wid" \in Avoid, "restack" \in Avoid
  PROVE  Spec => []ScreenUpToDate
<1>1. Spec => []CompositorInv
  BY CompositorInvariance
<1>2. CompositorInv => ScreenUpToDate
  BY ScreenUpToDateFrom
<1> QED BY <1>1, <1>2, PTL

\* A client that waits has its question or its answer under way, once, and the
\* compositor never waits for a client that does not read (poudland_wait_for,
\* write_server), when no event goes to a client that is busy.
THEOREM AnswersUnderWay ==
  ASSUME "unknown_wid" \in Avoid, "busy_client" \in Avoid
  PROVE  Spec => []AnswerUnderWay
<1>1. Spec => []CompositorInv
  BY CompositorInvariance
<1>2. CompositorInv => AnswerUnderWay
  BY AnswerUnderWayFrom
<1> QED BY <1>1, <1>2, PTL

\* No window is moved or closed but by its owner's package or by the drag it is
\* under (WindowMove, WindowClose, mouse_handler).
THEOREM OwnersOnly ==
  ASSUME "unknown_wid" \in Avoid
  PROVE  Spec => OnlyOwners
<1>1. Spec => []CompositorInv
  BY CompositorInvariance
<1>2. CompositorInv /\ [Next]_vars => [OwnStep]_vars
  BY OnlyOwnersStep
<1>3. Spec => [][OwnStep]_vars
  BY <1>1, <1>2, PTL DEF Spec
<1> QED BY <1>3 DEF OnlyOwners, OwnStep
=============================================================================
