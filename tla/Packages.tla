------------------------------ MODULE Packages ------------------------------
(***************************************************************************)
(* Package servers (vfs/packagefs.c) and the library in front of them      *)
(* (lib/packetx.c): a server has a queue that its clients write to, every  *)
(* client one that the server writes to.                                   *)
(*                                                                         *)
(* A queue is an I/O queue, the subject of module IoQueue.  Here it holds  *)
(* whole packages: a put waits until there is room for all of its package, *)
(* a get until there is one.  A client always writes MAX_PACKET_DATA_SIZE  *)
(* bytes (pkx_reply), so that ServerRoom packages fill a server's queue.   *)
(***************************************************************************)
EXTENDS Integers, SequencesExt

CONSTANTS Client,
          ServerRoom, ClientRoom  \* packages that fit into a queue

\* The target of a package for everybody.
Everybody == "everybody"

ASSUME PackagesBounds ==
  {ServerRoom, ClientRoom} \subseteq Nat \ {0} /\ Everybody \notin Client

create_server == [msg_list |-> <<>>, clients |-> <<>>, inbox |-> [c \in Client |-> <<>>]]

create_client(s, c) == [s EXCEPT !.clients = Append(@, c)]

ServerHasRoom(s) == Len(s.msg_list) < ServerRoom
ClientHasRoom(s, c) == Len(s.inbox[c]) < ClientRoom

\* write_client, which sends to the server.
send_to_server(s, c, data) ==
  [s EXCEPT !.msg_list = Append(@, [source |-> c, data |-> data])]

send_to_client(s, c, data) == [s EXCEPT !.inbox[c] = Append(@, data)]

\* receive_packet for the server, in read_server, and for a client.
read_server(s) == [s EXCEPT !.msg_list = Tail(@)]
read_client(s, c) == [s EXCEPT !.inbox[c] = Tail(@)]

\* ioctl: is there a package?
ioctl_server(s) == s.msg_list # <<>>
ioctl_client(s, c) == s.inbox[c] # <<>>

\* write_server as work to do: a package for one client, or one for the clients
\* from the first to the last, which waits at every queue that is full.
write_server(target, data) == [target |-> target, at |-> 1, data |-> data]
Target(s, w) == IF w.target = Everybody THEN s.clients[w.at] ELSE w.target
WriteDone(s, w) == IF w.target = Everybody THEN w.at > Len(s.clients) ELSE w.at > 1
=============================================================================
