----------------------------- MODULE Compositor -----------------------------
(***************************************************************************)
(* The compositor (apps/compositor.c), its clients (lib/poudland.c and     *)
(* apps/desktop.c) and the package server between them.                    *)
(*                                                                         *)
(* The compositor runs one loop: it redraws what has changed, then takes a *)
(* mouse event or, if there is none, a package from a client.  A window is *)
(* given by its rows, as damage is: gfx_add_clip has no columns.  Tests of *)
(* x are like those of y.  A window is its number, 0 is NULL, 1 the        *)
(* background, which has no owner, so that its events go to everybody.     *)
(*                                                                         *)
(* A window that is closed is freed, but bottom_z, top_z and mouse_window  *)
(* keep pointing to it: fault says that the compositor has touched it,     *)
(* after which anything may happen and the model stops.                    *)
(*                                                                         *)
(* Avoid names what else the code gets wrong, for a run to leave out:      *)
(* "restack", focusing a window while the one on top is not the last of    *)
(* mid_zs: what it uncovers is not marked; "busy_client", an event for a   *)
(* client that does not listen: one that waits for an answer hangs it on a *)
(* list that is no list (poudland_wait_for swaps the arguments of          *)
(* list_add_tail), and one whose queue is full stops the compositor while  *)
(* it waits for the compositor itself; "unknown_wid", moving a window that *)
(* has been closed, for which hashmap_get may return another one.          *)
(***************************************************************************)
EXTENDS Packages, FiniteSetsExt

CONSTANTS Height,        \* rows of the screen
          MouseHeight, MouseOffset,
          MapSize,       \* buckets of wids_to_windows: 20
          Moves,         \* how far a mouse event moves the pointer
          Shapes,        \* rows that clients ask for: pairs of y and height
          Targets,       \* rows that clients move a window to
          Avoid,
          MaxCalls,      \* bounds: calls of each client, and events of the mouse
          MaxEvents

ASSUME CompositorBounds ==
  /\ {Height, MouseHeight, MapSize} \subseteq Nat \ {0}
  /\ {MouseOffset, MaxEvents} \subseteq Nat /\ MaxCalls \in [Client -> Nat]
  /\ Moves \subseteq Int /\ Shapes \subseteq Nat \X Nat /\ Targets \subseteq Int
  /\ Avoid \subseteq {"restack", "busy_client", "unknown_wid"}

VARIABLES pkg,     \* the queues
          g,       \* poudland_globals
          screen,  \* the frame buffer: what each row shows
          server,  \* what the compositor is writing to clients
          client,  \* what each client is doing
          calls, events

vars == <<pkg, g, screen, server, client, calls, events>>

Row == 0 .. Height - 1
Background == 1
NoWindow == [y |-> 0, height |-> 0, owner |-> Everybody]

\* The rows of a rectangle that are on the screen.
Rows(y, height) == (y .. y + height - 1) \cap Row

-----------------------------------------------------------------------------
(* wids_to_windows: a list of window numbers in every bucket.              *)

hash_function(wid) == wid % MapSize
hashmap_init(size) == [i \in 0 .. size - 1 |-> <<>>]
hashmap_set(map, wid) == [map EXCEPT ![hash_function(wid)] = Append(@, wid)]
hashmap_has(map, wid) == Contains(map[hash_function(wid)], wid)
\* Fault: keys are never compared.
hashmap_get_first(map, wid) ==
  LET b == map[hash_function(wid)] IN IF b = <<>> THEN 0 ELSE Head(b)

\* The only entry of a bucket is returned whatever its key.
hashmap_get(map, wid) ==
  LET b == map[hash_function(wid)]
  IN  IF Len(b) = 1 THEN Head(b) ELSE IF Contains(b, wid) THEN wid ELSE 0
hashmap_remove(map, wid) == [map EXCEPT ![hash_function(wid)] = RemoveFirst(@, wid)]

-----------------------------------------------------------------------------
(* Windows.                                                                *)

RowsOf(h, w) == Rows(h.win[w].y, h.win[w].height)
mark_window(h, w) == [h EXCEPT !.damage = @ \cup RowsOf(h, w)]

next_wid(h) == h.wid
server_window_create(h, y, height, owner) ==
  LET w == next_wid(h)
  IN  [h EXCEPT !.wid = @ + 1, !.windows = Append(@, w), !.mid_zs = Append(@, w),
                !.map = hashmap_set(@, w),
                !.win = Append(@, [y |-> y, height |-> height, owner |-> owner])]

\* The new window becomes bottom_z.
quick_create_window(h, y, height, owner) ==
  LET w == next_wid(h)
  IN  [mark_window(server_window_create(h, y, height, owner), w) EXCEPT !.bottom_z = w]

\* Fault: the focus stays.
server_window_close_focus(h, wid) ==
  LET w == hashmap_get(h.map, wid)
  IN  [mark_window(h, w) EXCEPT !.windows = RemoveFirst(@, w), !.mid_zs = RemoveFirst(@, w),
                                !.map = hashmap_remove(@, w), !.win[w] = NoWindow]

server_window_close(h, wid) ==
  LET w == hashmap_get(h.map, wid)
  IN  [mark_window(h, w) EXCEPT
         !.focused = IF @ = w THEN 0 ELSE @,
         !.windows = RemoveFirst(@, w), !.mid_zs = RemoveFirst(@, w),
         !.map = hashmap_remove(@, w), !.win[w] = NoWindow]

\* Fault: where the window was is not marked.
window_move_once(h, w, y) == mark_window([h EXCEPT !.win[w].y = y], w)

window_move(h, w, y) == mark_window([mark_window(h, w) EXCEPT !.win[w].y = y], w)

\* Fault: top_z stays.
set_focus_window_stack(h, w) ==
  IF w <= Background THEN h
  ELSE mark_window([h EXCEPT !.focused = w, !.mid_zs = Append(RemoveFirst(@, w), w)], w)

\* The background stays where it is.
set_focus_window(h, w) ==
  IF w <= Background THEN h
  ELSE mark_window([h EXCEPT !.focused = w, !.top_z = w, !.mid_zs = Append(RemoveFirst(@, w), w)], w)

\* Both ends count.
in_window(h, w, y) == y >= h.win[w].y /\ y <= h.win[w].y + h.win[w].height

window_top_of(h, y) ==
  LET at == SelectLastInSeq(h.mid_zs, LAMBDA w : in_window(h, w, y))
  IN  IF h.focused # 0 /\ in_window(h, h.focused, y) THEN h.focused
      ELSE IF at = 0 THEN 0 ELSE h.mid_zs[at]

-----------------------------------------------------------------------------
(* Drawing.                                                                *)

\* poudland_blit_windows draws bottom_z, then mid_zs in order, then top_z.
poudland_blit_windows(h) ==
  (IF h.bottom_z = 0 THEN <<>> ELSE <<h.bottom_z>>) \o h.mid_zs
    \o (IF h.top_z = 0 THEN <<>> ELSE <<h.top_z>>)
Shown(h, r) ==
  LET order == poudland_blit_windows(h)
      at    == SelectLastInSeq(order, LAMBDA w : r \in RowsOf(h, w))
  IN  IF at = 0 THEN 0 ELSE order[at]
draw_mouse(h) == Rows(h.mouse, MouseHeight)

\* The rows that the clip lets through: the damage, and where the pointer was and
\* is if it has moved.
PointerDamage(h) ==
  IF h.last_mouse = h.mouse THEN {} ELSE Rows(h.last_mouse, MouseHeight) \cup draw_mouse(h)
Drawn(h, r) == [win |-> Shown(h, r), mouse |-> r \in draw_mouse(h)]

\* The head of the loop.
Loop == server = <<>> /\ ~g.fault

redraw_windows ==
  /\ Loop /\ g.damage \cup PointerDamage(g) # {}
  /\ \/ /\ Range(poudland_blit_windows(g)) \subseteq Range(g.windows)
        /\ screen' = [r \in Row |->
                        IF r \in g.damage \cup PointerDamage(g) THEN Drawn(g, r) ELSE screen[r]]
        /\ g' = [g EXCEPT !.damage = {}, !.last_mouse = g.mouse]
     \/ /\ ~ Range(poudland_blit_windows(g)) \subseteq Range(g.windows)
        /\ g' = [g EXCEPT !.fault = TRUE] /\ UNCHANGED screen
  /\ UNCHANGED <<pkg, server, client, calls, events>>

-----------------------------------------------------------------------------
(* Packages from clients.                                                  *)

\* Fault: everybody is told.
WindowNew_all(c, m) ==
  /\ g' = quick_create_window(g, m.y, m.height, c)
  /\ server' = <<write_server(Everybody, [type |-> "INIT", wid |-> next_wid(g)])>>

\* The owner of a window learns its number.
WindowNew(c, m) ==
  /\ g' = quick_create_window(g, m.y, m.height, c)
  /\ server' = <<write_server(c, [type |-> "INIT", wid |-> next_wid(g)])>>

\* A window may move below the screen, but not above it.
WindowMove(m) ==
  LET w == hashmap_get(g.map, m.wid)
  IN  /\ g' = IF m.y > Height \/ m.y < 0 \/ w = 0 THEN g ELSE window_move(g, w, m.y)
      /\ UNCHANGED server

WindowClose(m) ==
  /\ g' = IF hashmap_has(g.map, m.wid) THEN server_window_close(g, m.wid) ELSE g
  /\ UNCHANGED server

Handle(c, m) ==
  \/ m.type = "HELLO" /\ server' = <<write_server(c, [type |-> "WELCOME", wid |-> 0])>>
     /\ UNCHANGED g
  \/ m.type = "NEW" /\ WindowNew(c, m)
  \/ m.type = "MOVE" /\ WindowMove(m)
  \/ m.type = "CLOSE" /\ WindowClose(m)

\* wait2 has timed out, and there is a package.
ServerPackage ==
  /\ Loop /\ ioctl_server(pkg)
  /\ Handle(Head(pkg.msg_list).source, Head(pkg.msg_list).data)
  /\ pkg' = read_server(pkg)
  /\ UNCHANGED <<screen, client, calls, events>>

\* One package of a write to clients.
ServerSend ==
  /\ server # <<>>
  /\ LET w    == Head(server)
         more == [w EXCEPT !.at = @ + 1]
     IN  IF WriteDone(pkg, w) THEN server' = <<>> /\ UNCHANGED pkg
         ELSE /\ ClientHasRoom(pkg, Target(pkg, w))
              /\ pkg' = send_to_client(pkg, Target(pkg, w), w.data)
              /\ server' = IF WriteDone(pkg, more) THEN <<>> ELSE <<more>>
  /\ UNCHANGED <<g, screen, client, calls, events>>

-----------------------------------------------------------------------------
(* The mouse.                                                              *)

Button == {"none", "left", "right"}

\* The pointer stays on the screen: it points MouseOffset rows below its top.
Clamp(y) == IF y < -MouseOffset THEN -MouseOffset
            ELSE IF y + MouseOffset >= Height THEN Height - MouseOffset - 1 ELSE y
MovePointer(h, dy) == [h EXCEPT !.mouse = Clamp(@ - dy)]
Real(h) == h.mouse + MouseOffset
is_move(h) == h.mouse # h.last_mouse

send_mouse_event_massage(h, w, type) ==
  server' = <<write_server(h.win[w].owner, [type |-> type, wid |-> w])>>

FocusIf(h, w, button) == IF button = "left" THEN set_focus_window(h, w) ELSE h

\* h has the new position of the pointer, w is the window under it.
MouseNormal(h, w, button) ==
  \/ /\ button = "none" /\ is_move(h)
     /\ g' = [h EXCEPT !.mouse_state = "moving"] /\ UNCHANGED server
  \/ /\ button = "left" /\ is_move(h)
     /\ g' = [set_focus_window(h, w) EXCEPT
                !.mouse_state = "dragging", !.mouse_window = w,
                !.win_offset = Real(h) - h.win[w].y]
     /\ UNCHANGED server
  \/ /\ ~ (button \in {"none", "left"} /\ is_move(h))
     /\ g' = FocusIf(h, w, button)
     /\ send_mouse_event_massage(h, w, "CLICK")

MouseMoving(h, w, button) ==
  \/ /\ button # "none"
     /\ g' = [FocusIf(h, w, button) EXCEPT !.mouse_state = "normal"]
     /\ send_mouse_event_massage(h, w, "CLICK")
  \/ button = "none" /\ g' = h /\ send_mouse_event_massage(h, w, "MOVE")

\* The event of a drag goes to the window that was under the pointer before it.
MouseDragging(h, w, button) ==
  \/ /\ button = "left" /\ ~ Contains(h.windows, h.mouse_window)
     /\ g' = [h EXCEPT !.fault = TRUE] /\ UNCHANGED server
  \/ /\ button = "left" /\ Contains(h.windows, h.mouse_window) /\ h.mouse_window > Background
     /\ g' = window_move(h, h.mouse_window, Real(h) - h.win_offset)
     /\ send_mouse_event_massage(h, w, "DRAG")
  \/ button = "left" /\ h.mouse_window = Background /\ g' = h /\ UNCHANGED server
  \/ /\ button # "left" /\ g' = [h EXCEPT !.mouse_state = "normal"]
     /\ send_mouse_event_massage(h, w, "RAISE")

\* The clients that an event for w goes to listen.
Listening(w) ==
  \A c \in Client :
    (g.win[w].owner = c \/ (g.win[w].owner = Everybody /\ Contains(pkg.clients, c)))
      => client[c].pc = "idle"
Avoided(h, w, button) ==
  \/ "busy_client" \in Avoid /\ ~ Listening(w)
  \/ "restack" \in Avoid /\ button = "left" /\ w > Background
     /\ h.top_z \notin {0, w, Last(h.mid_zs)}

mouse_handler(h, w, button) ==
  \/ h.mouse_state = "normal" /\ MouseNormal(h, w, button)
  \/ h.mouse_state = "moving" /\ MouseMoving(h, w, button)
  \/ h.mouse_state = "dragging" /\ MouseDragging(h, w, button)

ServerMouse ==
  /\ Loop /\ events < MaxEvents /\ events' = events + 1
  /\ \E dy \in Moves, button \in Button : \E h \in {MovePointer(g, dy)} :
       \E w \in {window_top_of(h, Real(h))} :
         ~ Avoided(h, w, button) /\ mouse_handler(h, w, button)
  /\ UNCHANGED <<pkg, screen, client, calls>>

-----------------------------------------------------------------------------
(* Clients.                                                                *)

Send(c, m, want) == client' = [client EXCEPT ![c].pc = "send", ![c].msg = m, ![c].want = want]
Message(type, wid, y, height) == [type |-> type, wid |-> wid, y |-> y, height |-> height]
Nothing == Message("none", 0, 0, 0)

\* A client connects, then says hello.
poudland_init_context(c) ==
  /\ client[c].pc = "none" /\ ("busy_client" \in Avoid => server = <<>>)
  /\ pkg' = create_client(pkg, c)
  /\ Send(c, Message("HELLO", 0, 0, 0), "WELCOME")
  /\ UNCHANGED <<g, screen, server, calls, events>>

\* write_client: the put waits for room.
ClientSend(c) ==
  /\ client[c].pc = "send" /\ ServerHasRoom(pkg)
  /\ pkg' = send_to_server(pkg, c, client[c].msg)
  /\ client' = [client EXCEPT ![c].pc = IF client[c].want = "nothing" THEN "idle" ELSE "wait",
                              ![c].msg = Nothing]
  /\ UNCHANGED <<g, screen, server, calls, events>>

Call(c) ==
  /\ client[c].pc = "idle" /\ calls[c] < MaxCalls[c] /\ calls' = [calls EXCEPT ![c] = @ + 1]
  /\ "busy_client" \in Avoid => server = <<>>
  /\ UNCHANGED <<pkg, g, screen, server, events>>

poudland_create_window(c) ==
  \E s \in Shapes :
    /\ "busy_client" \in Avoid => pkg.inbox[c] = <<>>
    /\ Call(c) /\ Send(c, Message("NEW", 0, s[1], s[2]), "INIT")

poudland_move_window(c) ==
  \E w \in client[c].windows, y \in Targets :
    Call(c) /\ Send(c, Message("MOVE", w, y, 0), "nothing")

\* Nothing keeps the client from using the number again.
poudland_remove_window(c) ==
  \E w \in client[c].windows :
    /\ Call(c)
    /\ client' = [client EXCEPT ![c].pc = "send", ![c].msg = Message("CLOSE", w, 0, 0),
                                ![c].windows = IF "unknown_wid" \in Avoid THEN @ \ {w} ELSE @]

\* poudland_wait_for.
ClientWait(c) ==
  /\ client[c].pc = "wait" /\ ioctl_client(pkg, c)
  /\ LET m == Head(pkg.inbox[c]) IN
     client' = [client EXCEPT ![c].pc = IF m.type = client[c].want THEN "idle" ELSE "lost",
                              ![c].want = "nothing",
                              ![c].windows = IF m.type = "INIT" THEN @ \cup {m.wid} ELSE @]
  /\ pkg' = read_client(pkg, c)
  /\ UNCHANGED <<g, screen, server, calls, events>>

\* The loop of a client throws events away.
ClientLoop(c) ==
  /\ client[c].pc = "idle" /\ ioctl_client(pkg, c)
  /\ pkg' = read_client(pkg, c)
  /\ UNCHANGED <<g, screen, server, client, calls, events>>

-----------------------------------------------------------------------------

NewClient == [pc |-> "none", msg |-> Nothing, want |-> "nothing", windows |-> {}]

\* The background is there before the loop, and drawn as soon as it starts.
Globals == [wid |-> 1, windows |-> <<>>, mid_zs |-> <<>>, map |-> hashmap_init(MapSize),
            win |-> <<>>, bottom_z |-> 0, top_z |-> 0, focused |-> 0,
            mouse_window |-> 0, mouse |-> 0, last_mouse |-> 0, mouse_state |-> "normal",
            win_offset |-> 0, damage |-> {}, fault |-> FALSE]

Init ==
  /\ pkg = create_server
  /\ g = mark_window(server_window_create(Globals, 0, Height, Everybody), Background)
  /\ screen = [r \in Row |-> [win |-> 0, mouse |-> FALSE]]
  /\ server = <<>> /\ client = [c \in Client |-> NewClient]
  /\ calls = [c \in Client |-> 0] /\ events = 0

Next ==
  \/ redraw_windows \/ ServerPackage \/ ServerSend \/ ServerMouse
  \/ \E c \in Client :
       \/ poudland_init_context(c) \/ ClientSend(c) \/ ClientWait(c) \/ ClientLoop(c)
       \/ poudland_create_window(c) \/ poudland_move_window(c) \/ poudland_remove_window(c)

Spec == Init /\ [][Next]_vars

-----------------------------------------------------------------------------
(* Properties.                                                             *)

\* No pointer to a closed window is followed by the next redraw.
Drawable == Range(poudland_blit_windows(g)) \subseteq Range(g.windows)

\* Every row that is not marked shows what the windows and the pointer say
\* (redraw_windows, mark_window): whatever changes what is shown marks its rows.
ScreenUpToDate ==
  Drawable => \A r \in Row \ (g.damage \cup PointerDamage(g)) : screen[r] = Drawn(g, r)

\* The window that gets an event is the last one drawn of those that contain the
\* pointer (window_top_of, poudland_blit_windows).
TopmostGetsEvents ==
  Drawable =>
    \A y \in Row :
      LET order == poudland_blit_windows(g)
      IN  window_top_of(g, y) = order[SelectLastInSeq(order, LAMBDA w : in_window(g, w, y))]

\* The list of windows, the stack and the hash map hold the same windows, each of
\* them is found under its own number, and the focused one has not been closed
\* (server_window_create, server_window_close, hashmap_get).  The windows that a
\* client knows are its own (poudland_create_window).
WindowsAgree ==
  /\ Range(g.windows) = Range(g.mid_zs) /\ Background \in Range(g.windows)
  /\ \A w \in DOMAIN g.win : Contains(g.windows, w) <=> hashmap_has(g.map, w)
  /\ \A w \in Range(g.windows) : hashmap_get(g.map, w) = w
  /\ g.focused \in Range(g.windows) \cup {0}
  /\ \A c \in Client : \A w \in client[c].windows :
       Contains(g.windows, w) /\ g.win[w].owner = c

\* Only a package of its owner moves or closes a window, and only the pointer
\* that drags it moves it otherwise (hashmap_get, mouse_handler).
OnlyOwners ==
  [][\A w \in Range(g.windows) :
       g'.win[w] # g.win[w] =>
         \/ g.mouse_state = "dragging" /\ g.mouse_window = w
         \/ pkg' # pkg /\ Head(pkg.msg_list).source = g.win[w].owner
            /\ Head(pkg.msg_list).data.wid = w]_vars

\* A client that waits has one question on its way, or one answer
\* (poudland_wait_for); the compositor waits only for a client that reads what it
\* gets (write_server), so that the two never wait for each other.
Asks == [WELCOME |-> "HELLO", INIT |-> "NEW"]
Asked(c, type) ==
  {i \in DOMAIN pkg.msg_list : pkg.msg_list[i].source = c /\ pkg.msg_list[i].data.type = type}
Writing(c, type) ==
  {i \in DOMAIN server : server[i].target = c /\ server[i].data.type = type}
Answered(c, type) == {i \in DOMAIN pkg.inbox[c] : pkg.inbox[c][i].type = type}

AnswerUnderWay ==
  /\ \A c \in Client :
       client[c].pc = "wait" =>
         Cardinality(Asked(c, Asks[client[c].want])) + Cardinality(Writing(c, client[c].want))
           + Cardinality(Answered(c, client[c].want)) = 1
  /\ \A c \in Client :
       server # <<>> /\ ~WriteDone(pkg, Head(server)) /\ c = Target(pkg, Head(server))
         /\ ~ClientHasRoom(pkg, c) => client[c].pc \in {"idle", "wait"}

-----------------------------------------------------------------------------
(* The inductive invariant.                                                *)

Questions == {"HELLO", "NEW"}
Answers == {"WELCOME", "INIT"}
Events == {"CLICK", "MOVE", "DRAG", "RAISE"}
Request == [type : Questions \cup {"MOVE", "CLOSE", "none"}, wid : Nat, y : Int, height : Nat]
Reply == [type : Answers \cup Events, wid : Nat]
Window == [y : Int, height : Nat, owner : Client \cup {Everybody}]

PkgType == [msg_list : Seq([source : Client, data : Request]), clients : Seq(Client),
            inbox : [Client -> Seq(Reply)]]
GlobalsType ==
  [wid : Nat, windows : Seq(Nat), mid_zs : Seq(Nat), map : [0 .. MapSize - 1 -> Seq(Nat)],
   win : Seq(Window), bottom_z : Nat, top_z : Nat, focused : Nat, mouse_window : Nat,
   mouse : Int, last_mouse : Int, mouse_state : {"normal", "moving", "dragging"},
   win_offset : Int, damage : SUBSET Row, fault : BOOLEAN]
Write == [target : Client \cup {Everybody}, at : Nat \ {0}, data : Reply]
ClientType == [pc : {"none", "idle", "send", "wait", "lost"}, msg : Request,
               want : Answers \cup {"nothing"}, windows : SUBSET Nat]

TypeOK ==
  /\ pkg \in PkgType /\ g \in GlobalsType /\ client \in [Client -> ClientType]
  /\ screen \in [Row -> [win : Nat, mouse : BOOLEAN]]
  /\ server \in Seq(Write) /\ Len(server) <= 1

\* The lists hold the same windows, once each; a window that is closed has no rows
\* and no owner, one that is open has been made for a client.
Listed(h) ==
  /\ h.wid = Len(h.win) + 1
  /\ IsInjective(h.windows) /\ IsInjective(h.mid_zs) /\ Range(h.windows) = Range(h.mid_zs)
  /\ Range(h.windows) \subseteq DOMAIN h.win
  /\ Background \in Range(h.windows)
  /\ h.win[Background] = [y |-> 0, height |-> Height, owner |-> Everybody]
  /\ \A w \in DOMAIN h.win :
       IF w \in Range(h.windows) THEN w = Background \/ h.win[w].owner \in Client
       ELSE h.win[w] = NoWindow
Mapped(h) ==
  \A i \in DOMAIN h.map :
    /\ IsInjective(h.map[i])
    /\ Range(h.map[i]) = {w \in Range(h.windows) : hash_function(w) = i}

\* What lies on top is the focused window, or one that has been closed.
Stacked(h) ==
  /\ {h.bottom_z, h.top_z} \subseteq DOMAIN h.win \cup {0}
  /\ IF h.focused = 0 THEN h.top_z = 0 \/ h.top_z \notin Range(h.windows)
     ELSE h.top_z = h.focused /\ h.focused \in Range(h.windows)

\* The rows that are not marked show the windows, and the pointer where it was drawn last.
Painted(h, scr) ==
  \A r \in Row \ h.damage :
    scr[r] = [win |-> Shown(h, r), mouse |-> r \in Rows(h.last_mouse, MouseHeight)]

\* A window that a client refers to is its own, and no package before closes it.
Owns(c, w) == w \in Range(g.windows) /\ g.win[w].owner = c
IsClose(m, w) == m.type = "CLOSE" /\ m.wid = w
Unclosed(w, n) == \A j \in 1 .. n : ~IsClose(pkg.msg_list[j].data, w)
Free(c, w) == Owns(c, w) /\ Unclosed(w, Len(pkg.msg_list))
Claims ==
  /\ \A c \in Client : \A w \in client[c].windows :
       Free(c, w) /\ ~(client[c].pc = "send" /\ IsClose(client[c].msg, w))
  /\ \A c \in Client : client[c].pc = "send" /\ client[c].msg.type \in {"MOVE", "CLOSE"}
                       => Free(c, client[c].msg.wid)
  /\ \A i \in DOMAIN pkg.msg_list :
       LET m == pkg.msg_list[i]
       IN  m.data.type \in {"MOVE", "CLOSE"} => Owns(m.source, m.data.wid) /\ Unclosed(m.data.wid, i - 1)
  /\ \A c \in Client : client[c].pc = "wait" =>
       /\ \A i \in Writing(c, "INIT") : Free(c, server[i].data.wid)
       /\ \A i \in Answered(c, "INIT") : Free(c, pkg.inbox[c][i].wid)

\* A client that does not wait is not answered, one that waits exactly once.
AllAsked(c) == Asked(c, "HELLO") \cup Asked(c, "NEW")
AllWriting(c) == Writing(c, "WELCOME") \cup Writing(c, "INIT")
AllAnswered(c) == Answered(c, "WELCOME") \cup Answered(c, "INIT")
Quiet(c) == AllAsked(c) = {} /\ AllWriting(c) = {} /\ AllAnswered(c) = {}
Once(c, want) ==
  \/ /\ AllWriting(c) = {} /\ AllAnswered(c) = {}
     /\ \E i \in Asked(c, Asks[want]) : AllAsked(c) = {i}
  \/ /\ AllAsked(c) = {} /\ AllAnswered(c) = {} /\ 1 \in Writing(c, want)
  \/ /\ AllAsked(c) = {} /\ AllWriting(c) = {}
     /\ \E i \in Answered(c, want) : AllAnswered(c) = {i}
ClientWaits(c) ==
  /\ client[c].pc \in {"none", "idle", "send"} => Quiet(c)
  /\ client[c].pc \in {"none", "idle"} => client[c].want = "nothing"
  /\ client[c].pc = "send" =>
       IF client[c].msg.type \in Questions
       THEN client[c].want \in Answers /\ client[c].msg.type = Asks[client[c].want]
       ELSE client[c].want = "nothing" /\ client[c].msg.type # "none"
  /\ client[c].pc = "wait" => client[c].want \in Answers /\ Once(c, client[c].want)
Waits ==
  /\ \A c \in Client : ClientWaits(c)
  /\ \A i \in DOMAIN server : server[i].data.type \in Answers =>
       server[i].target \in Client /\ server[i].at = 1
  /\ \A i \in DOMAIN pkg.msg_list : pkg.msg_list[i].data.type # "none"

\* What is written reaches clients that listen; one that has a question gets only answers.
Told(w, c) == w.target = c \/ (w.target = Everybody /\ c \in Range(pkg.clients))
Asking(c) == client[c].pc \in {"send", "wait"} /\ client[c].want # "nothing"
Listened ==
  /\ \A c \in Client :
       /\ client[c].pc # "lost"
       /\ client[c].pc = "none" => c \notin Range(pkg.clients) /\ pkg.inbox[c] = <<>>
       /\ Asking(c) => \A i \in DOMAIN pkg.inbox[c] : pkg.inbox[c][i].type \in Answers
  /\ \A i \in DOMAIN server : server[i].data.type \in Events =>
       \A c \in Client : Told(server[i], c) => client[c].pc = "idle"

CompositorInv ==
  /\ TypeOK /\ Listed(g) /\ Mapped(g) /\ Stacked(g) /\ Claims /\ Waits
  /\ "restack" \in Avoid => Painted(g, screen)
  /\ "busy_client" \in Avoid => Listened
=============================================================================
