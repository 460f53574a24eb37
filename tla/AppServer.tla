------------------------------- MODULE AppServer -------------------------------
(***************************************************************************)
(* The server side of the RPC of libApp (libApp/src/appserver.c): one      *)
(* process that accepts connections, reads requests and writes answers     *)
(* from the callbacks of one Event.  A callback runs to its end before     *)
(* anything else of the process runs, so each is one action, together with *)
(* what _loop_io does with its return value; the peers act between them.   *)
(*                                                                         *)
(* The process knows a client by its descriptor only.  The kernel reuses a *)
(* closed descriptor for the next connection (the lowest one free), while  *)
(* the loop still walks over what select() said before.                    *)
(*                                                                         *)
(* A connection is named by a member of Conn, which also stands for the    *)
(* AppServerClient the server allocates for it: appserver->clients is      *)
(* searched by descriptor and never by position, so it is a function whose *)
(* domain is the clients present.  A request is ReqLen units and an answer *)
(* AnsLen units of the stream; a unit is <<connection, request, part>>.    *)
(*                                                                         *)
(* Bounds: MaxReq requests per connection.                                 *)
(***************************************************************************)
EXTENDS EventData

CONSTANTS Conn,          \* connections ever made to the server
          ReqLen, AnsLen,\* units of a request and of an answer
          BufSize,       \* units of buf_read and of buf_write (ASC_BUFSIZE)
          MaxReq,
          Faults         \* what the system may do to the server

ASSUME AppServerAssumption ==
  /\ ReqLen \in Nat \ {0} /\ AnsLen \in Nat \ {0} /\ MaxReq \in Nat
  /\ BufSize \in Nat /\ ReqLen <= BufSize /\ AnsLen <= BufSize
  /\ Faults \subseteq {"accept", "memory", "epipe", "signal", "crash"}

Listen == 0     \* the descriptor of the listening socket
NoFile == "free"

ASSUME ConnAssumption == Conn \cap {NoFile, "listening"} = {}

VARIABLES ev,      \* appserver->event
          pc,      \* "select", "reads", "writes", "blocked" or "returned"
          i,       \* the index of _loop_io, from 1
          sel,     \* what select() left in rfds and wfds
          clients, \* appserver->clients
          files,   \* the descriptors of the process: free, listening or a Conn
          backlog, \* connections waiting for accept()
          sock     \* the connections, seen from the kernel

server == <<ev, pc, i, sel, clients, files>>
vars == <<ev, pc, i, sel, clients, files, backlog, sock>>

\* _appserverclient_new: the state ASCS_NEW becomes ASCS_LOGGED at the first
\* request without a condition, so it is not kept.
NewClient(fd) == [fd |-> fd, rbuf |-> << >>, wbuf |-> << >>]

Request(c, n) == [k \in 1 .. ReqLen |-> <<c, n, k>>]
Answer(c, n) == [k \in 1 .. AnsLen |-> <<c, n, k>>]

Init ==
  /\ ev = [RegisterRead(NewEvent, Listen) EXCEPT !.loop = 1]
  /\ pc = "select"
  /\ i = 1
  /\ sel = [r |-> {}, w |-> {}]
  /\ clients = [c \in {} |-> NewClient(-1)]
  /\ files = [fd \in Fd |-> IF fd = Listen THEN "listening" ELSE NoFile]
  /\ backlog = << >>
  /\ sock = [c \in Conn |-> [st |-> "none", peer |-> "open", sent |-> 0,
                            in |-> << >>, out |-> << >>]]

--------------------------------------------------------------------------------
(***************************************************************************)
(* The kernel.                                                             *)
(***************************************************************************)
FreeFds == {fd \in Fd : files[fd] = NoFile}
LowestFree == CHOOSE fd \in FreeFds : \A n \in FreeFds : fd <= n

\* select() finds a descriptor readable when read() or accept() would not block.
Readable(fd) ==
  IF files[fd] = "listening" THEN backlog # << >>
  ELSE sock[files[fd]].in # << >> \/ sock[files[fd]].peer = "closed"

ClosedFds == {fd \in ev.rfds \cup ev.wfds : files[fd] = NoFile}

--------------------------------------------------------------------------------
(***************************************************************************)
(* event_loop (libSystem/src/event.c), without timers.                     *)
(***************************************************************************)
SelectReturns ==
  /\ pc = "select" /\ Continues(ev) /\ ClosedFds = {}
  /\ LET r == {fd \in Selectable(ev, ev.rfds) : Readable(fd)}
         w == Selectable(ev, ev.wfds)
     IN  /\ r \cup w # {}
         /\ sel' = [r |-> r, w |-> w]
  /\ pc' = "reads"
  /\ i' = 1
  /\ UNCHANGED <<ev, clients, files, backlog, sock>>

\* The process is gone: the kernel closes its connections.
Exits ==
  /\ pc' = "returned"
  /\ sock' = [c \in Conn |-> [sock[c] EXCEPT !.st = IF @ = "none" THEN @ ELSE "gone",
                                             !.in = << >>]]
  /\ backlog' = << >>
  /\ UNCHANGED <<ev, i, sel, clients, files>>

\* The loop ends when nothing is registered, or on the EBADF that a descriptor
\* closed behind the back of the Event gives; the programs of the repository
\* return from main() then.
LoopReturns ==
  /\ pc = "select"
  /\ Continues(ev) => ClosedFds # {}
  /\ Exits

\* The process dies (composed with the clients, in AppClient).
Crash == "crash" \in Faults /\ pc # "returned" /\ Exits

EndOfWalk ==
  \/ /\ pc = "reads" /\ i > Len(ev.reads)
     /\ pc' = "writes" /\ i' = 1
     /\ UNCHANGED <<ev, sel, clients, files, backlog, sock>>
  \/ /\ pc = "writes" /\ i > Len(ev.writes)
     /\ pc' = "select" /\ i' = 1
     /\ sel' = [r |-> {}, w |-> {}]
     /\ UNCHANGED <<ev, clients, files, backlog, sock>>

PassEntry ==
  /\ \/ pc = "reads" /\ i <= Len(ev.reads) /\ ~ IsReported(ev, ev.reads, i, sel.r)
     \/ pc = "writes" /\ i <= Len(ev.writes) /\ ~ IsReported(ev, ev.writes, i, sel.w)
  /\ i' = i + 1
  /\ UNCHANGED <<ev, pc, sel, clients, files, backlog, sock>>

\* The callback of a descriptor is called.
ReadCalled(fd) ==
  /\ pc = "reads" /\ i <= Len(ev.reads)
  /\ fd = ev.reads[i] /\ IsReported(ev, ev.reads, i, sel.r)

WriteCalled(fd) ==
  /\ pc = "writes" /\ i <= Len(ev.writes)
  /\ fd = ev.writes[i] /\ IsReported(ev, ev.writes, i, sel.w)

--------------------------------------------------------------------------------
(***************************************************************************)
(* _appserver_accept                                                       *)
(***************************************************************************)
\* Mutant: the callback returns 1 after a connection, too.
AcceptOnce ==
  /\ ReadCalled(Listen)
  /\ FreeFds # {} /\ backlog # << >>
  /\ LET c == Head(backlog)
         fd == LowestFree
     IN  /\ files' = [files EXCEPT ![fd] = c]
         /\ sock' = [sock EXCEPT ![c].st = "accepted"]
         /\ clients' = [d \in DOMAIN clients \cup {c} |->
                          IF d = c THEN NewClient(fd) ELSE clients[d]]
         /\ ev' = UnregisterRead(RegisterRead(ev, fd), Listen)
  /\ backlog' = Tail(backlog)
  /\ UNCHANGED <<pc, i, sel>>

\* accept() may sleep as well, when no connection waits.
Accept ==
  /\ ReadCalled(Listen)
  /\ FreeFds # {}
  /\ IF backlog = << >>
     THEN pc' = "blocked" /\ UNCHANGED <<ev, i, sel, clients, files, backlog, sock>>
     ELSE LET c == Head(backlog)
              fd == LowestFree
          IN  /\ files' = [files EXCEPT ![fd] = c]
              /\ sock' = [sock EXCEPT ![c].st = "accepted"]
              /\ clients' = [d \in DOMAIN clients \cup {c} |->
                               IF d = c THEN NewClient(fd) ELSE clients[d]]
              /\ ev' = RegisterRead(ev, fd)
              /\ backlog' = Tail(backlog)
              /\ i' = i + 1
              /\ UNCHANGED <<pc, sel>>

\* accept() fails: no descriptor is left, or the connection was aborted.  The
\* callback returns 1 and _loop_io unregisters the listening socket.
AcceptFails ==
  /\ ReadCalled(Listen)
  /\ backlog # << >>
  /\ FreeFds = {} \/ "accept" \in Faults
  /\ ev' = UnregisterRead(ev, Listen)
  /\ UNCHANGED <<pc, i, sel, clients, files, backlog, sock>>

\* _appserverclient_new finds no memory: the connection is closed at once.
AcceptDrops ==
  /\ ReadCalled(Listen)
  /\ backlog # << >> /\ FreeFds # {} /\ "memory" \in Faults
  /\ sock' = [sock EXCEPT ![Head(backlog)].st = "gone", ![Head(backlog)].in = << >>]
  /\ backlog' = Tail(backlog)
  /\ i' = i + 1
  /\ UNCHANGED <<ev, pc, sel, clients, files>>

--------------------------------------------------------------------------------
(***************************************************************************)
(* _appserver_read                                                         *)
(***************************************************************************)
\* The client the search over appserver->clients finds.
ClientOf(fd) == {c \in DOMAIN clients : clients[c].fd = fd}

\* Mutant: a pending answer stays registered.
UnregisteredReadOnly(e, asc) == UnregisterRead(e, asc.fd)

\* _appserver_client_remove: what it unregisters.
Unregistered(e, asc) ==
  UnregisterRead(IF asc.wbuf # << >> THEN UnregisterWrite(e, asc.fd) ELSE e, asc.fd)

\* Mutant: the client stays in the array.
RemoveClientKeepsEntry(c) ==
  /\ ev' = Unregistered(ev, clients[c])
  /\ files' = [files EXCEPT ![clients[c].fd] = NoFile]
  /\ UNCHANGED <<pc, i, sel, clients, backlog>>

\* _appserver_client_remove.  The callback then returns 1 and _loop_io unregisters
\* the descriptor once more, which finds nothing left to remove.
RemoveClient(c) ==
  /\ ev' = Unregistered(ev, clients[c])
  /\ files' = [files EXCEPT ![clients[c].fd] = NoFile]
  /\ clients' = [d \in DOMAIN clients \ {c} |-> clients[d]]
  /\ UNCHANGED <<pc, i, sel, backlog>>

\* What read() returns of a stream when there is room for n units.
Upto(stream, n) == SubSeq(stream, 1, IF n < Len(stream) THEN n ELSE Len(stream))

\* buf_read after the read() of _appserver_read.
Received(c) ==
  clients[c].rbuf \o Upto(sock[c].in, BufSize - Len(clients[c].rbuf))

StillIn(c) ==
  SubSeq(sock[c].in, Len(Received(c)) - Len(clients[c].rbuf) + 1, Len(sock[c].in))

\* appinterface_receive: the request at the head of the buffer is all there.
Complete(buf) == Len(buf) >= ReqLen

\* _read_logged has room for the answer.
HasRoom(asc) == Len(asc.wbuf) + AnsLen <= BufSize

\* Mutant: the request is not taken off the buffer.
ReadRequestKept(c) ==
  LET fd == clients[c].fd
      buf == Received(c)
  IN  /\ ReadCalled(fd) /\ c \in ClientOf(fd)
      /\ sock[c].in # << >> /\ Complete(buf) /\ HasRoom(clients[c])
      /\ clients' = [clients EXCEPT
                       ![c].rbuf = buf,
                       ![c].wbuf = @ \o Answer(buf[1][1], buf[1][2])]
      /\ sock' = [sock EXCEPT ![c].in = StillIn(c)]
      /\ ev' = RegisterWrite(ev, fd)
      /\ i' = i + 1
      /\ UNCHANGED <<pc, sel, files, backlog>>

\* _read_process and _read_logged: ONE request is executed, the rest of the
\* buffer stays for the next time the descriptor is readable.
ReadRequest(c) ==
  LET fd == clients[c].fd
      buf == Received(c)
  IN  /\ ReadCalled(fd) /\ c \in ClientOf(fd)
      /\ sock[c].in # << >> /\ Complete(buf) /\ HasRoom(clients[c])
      /\ clients' = [clients EXCEPT
                       ![c].rbuf = SubSeq(buf, ReqLen + 1, Len(buf)),
                       ![c].wbuf = @ \o Answer(buf[1][1], buf[1][2])]
      /\ sock' = [sock EXCEPT ![c].in = StillIn(c)]
      /\ ev' = RegisterWrite(ev, fd)
      /\ i' = i + 1
      /\ UNCHANGED <<pc, sel, files, backlog>>

\* Part of a request only, or no room for its answer: the client is dropped.
ReadDropsClient(c) ==
  /\ ReadCalled(clients[c].fd) /\ c \in ClientOf(clients[c].fd)
  /\ sock[c].in # << >> /\ ~ (Complete(Received(c)) /\ HasRoom(clients[c]))
  /\ RemoveClient(c)
  /\ sock' = [sock EXCEPT ![c].st = "gone", ![c].in = << >>]

\* Mutant: the descriptor is closed and stays registered, as in _write_error.
ReadNothingForgets(c) ==
  /\ ReadCalled(clients[c].fd) /\ c \in ClientOf(clients[c].fd)
  /\ sock[c].in = << >> /\ sock[c].peer = "closed"
  /\ files' = [files EXCEPT ![clients[c].fd] = NoFile]
  /\ clients' = [d \in DOMAIN clients \ {c} |-> clients[d]]
  /\ sock' = [sock EXCEPT ![c].st = "gone"]
  /\ i' = i + 1
  /\ UNCHANGED <<ev, pc, sel, backlog>>

\* read() returns 0 or an error and the client is removed; or it has nothing to
\* return and the process sleeps in it, and every other client with it.
ReadNothing(c) ==
  /\ ReadCalled(clients[c].fd) /\ c \in ClientOf(clients[c].fd)
  /\ sock[c].in = << >>
  /\ IF sock[c].peer = "closed"
     THEN RemoveClient(c) /\ sock' = [sock EXCEPT ![c].st = "gone"]
     ELSE pc' = "blocked" /\ UNCHANGED <<ev, i, sel, clients, files, backlog, sock>>

--------------------------------------------------------------------------------
(***************************************************************************)
(* _appserver_write                                                        *)
(***************************************************************************)
\* Mutant: buf_write is not shortened.
AfterWriteKept(buf, n) == buf

\* buf_write once n units are written: memmove() takes n units too, not the
\* rest, so what stands beyond them is left where it was.
AfterWrite(buf, n) ==
  [k \in 1 .. Len(buf) - n |-> IF k <= n THEN buf[k + n] ELSE buf[k]]

\* write() takes the whole buffer, the socket being a blocking one, unless a
\* signal interrupts it.
WriteAnswer(c, n) ==
  LET fd == clients[c].fd
      left == AfterWrite(clients[c].wbuf, n)
  IN  /\ WriteCalled(fd) /\ c \in ClientOf(fd)
      /\ n <= Len(clients[c].wbuf) /\ n > 0
      /\ n < Len(clients[c].wbuf) => "signal" \in Faults
      /\ clients' = [clients EXCEPT ![c].wbuf = left]
      /\ sock' = [sock EXCEPT ![c].out =
                    IF sock[c].peer = "open" THEN @ \o SubSeq(clients[c].wbuf, 1, n) ELSE @]
      /\ ev' = IF left = << >> THEN UnregisterWrite(ev, fd) ELSE ev
      /\ i' = IF left = << >> THEN i ELSE i + 1
      /\ UNCHANGED <<pc, sel, files, backlog>>

\* write() fails, or has nothing to write and returns 0: the descriptor is
\* closed but stays registered for reading.
WriteError(c) ==
  LET fd == clients[c].fd
  IN  /\ WriteCalled(fd) /\ c \in ClientOf(fd)
      /\ clients[c].wbuf # << >> => sock[c].peer = "closed" /\ "epipe" \in Faults
      /\ files' = [files EXCEPT ![fd] = NoFile]
      /\ clients' = [clients EXCEPT ![c].fd = -1]
      /\ sock' = [sock EXCEPT ![c].st = "gone", ![c].in = << >>]
      /\ ev' = UnregisterWrite(ev, fd)
      /\ UNCHANGED <<pc, i, sel, backlog>>

\* The callbacks return 1 at once for a descriptor no client has; as the
\* invariant CallbackFindsClient holds, they never do, and have no action for it.
ServerStep ==
  \/ SelectReturns \/ LoopReturns \/ EndOfWalk \/ PassEntry
  \/ Accept \/ AcceptFails \/ AcceptDrops
  \/ \E c \in DOMAIN clients :
       \/ ReadRequest(c) \/ ReadDropsClient(c) \/ ReadNothing(c) \/ WriteError(c)
       \/ \E n \in 1 .. BufSize : WriteAnswer(c, n)

--------------------------------------------------------------------------------
(***************************************************************************)
(* The peers: programs that connect, send requests a unit at a time (so    *)
(* that a read() may find any part of a request, or several requests), and *)
(* close their end at any moment.                                          *)
(***************************************************************************)
PeerConnects(c) ==
  /\ sock[c].st = "none" /\ pc # "returned"
  /\ sock' = [sock EXCEPT ![c].st = "waiting"]
  /\ backlog' = Append(backlog, c)
  /\ UNCHANGED server

PeerSends(c) ==
  LET n == sock[c].sent
  IN  /\ sock[c].st \in {"waiting", "accepted"} /\ sock[c].peer = "open"
      /\ n < MaxReq * ReqLen
      /\ sock' = [sock EXCEPT ![c].sent = n + 1,
                              ![c].in = Append(@, Request(c, n \div ReqLen + 1)[(n % ReqLen) + 1])]
      /\ UNCHANGED <<server, backlog>>

PeerCloses(c) ==
  /\ sock[c].st \in {"waiting", "accepted", "gone"} /\ sock[c].peer = "open"
  /\ sock' = [sock EXCEPT ![c].peer = "closed"]
  /\ UNCHANGED <<server, backlog>>

PeerStep == \E c \in Conn : PeerConnects(c) \/ PeerSends(c) \/ PeerCloses(c)

Next == ServerStep \/ PeerStep

Spec == Init /\ [][Next]_vars

\* The server process is never stopped by the scheduler.
FairSpec == Spec /\ WF_vars(ServerStep)

--------------------------------------------------------------------------------
\* The fields have the types of the C structures and buffers stay in bounds.
TypeOK ==
  /\ pc \in {"select", "reads", "writes", "blocked", "returned"}
  /\ i \in Nat \ {0}
  /\ ev.reads \in Seq(Fd) /\ ev.writes \in Seq(Fd) /\ ev.loop = 1
  /\ DOMAIN clients \subseteq Conn
  /\ \A c \in DOMAIN clients :
       /\ clients[c].fd \in Fd \cup {-1}
       /\ Len(clients[c].rbuf) <= BufSize /\ Len(clients[c].wbuf) <= BufSize
  /\ files \in [Fd -> Conn \cup {NoFile, "listening"}]

\* The clients that still have a descriptor.
Live == {c \in DOMAIN clients : clients[c].fd # -1}

\* Each descriptor registered for reading is the listening socket or the one of
\* exactly one client, and that client's descriptor is the connection it was
\* accepted for: closing, unregistering and reusing descriptors never makes
\* _appserver_read read one client's stream into another's buffer.
ClientsMatchFiles ==
  /\ \A c \in Live : files[clients[c].fd] = c /\ clients[c].fd \in ev.rfds
  /\ \A fd \in Fd : files[fd] \in Conn => files[fd] \in Live /\ clients[files[fd]].fd = fd

\* A callback always finds the client of its descriptor: the searches of
\* _appserver_read and _appserver_write over appserver->clients do not fail,
\* and the second never ends with the pointer it forgot to initialise.
CallbackFindsClient ==
  \A fd \in Fd : (ReadCalled(fd) /\ fd # Listen) \/ WriteCalled(fd) =>
                  \E c \in Live : clients[c].fd = fd

\* A client is in the set for select() while buf_write holds something, and has
\* an entry in the array only then, though several requests register it several
\* times and one return value of 1 unregisters it: no answer is left behind, and
\* _appserver_write is never called with nothing to write (which it takes for an
\* error).
WriteArmed ==
  /\ \A c \in Live : clients[c].wbuf # << >> => clients[c].fd \in ev.wfds
  /\ \A c \in Live : clients[c].fd \in FdsOf(ev.writes) => clients[c].wbuf # << >>
  /\ \A fd \in FdsOf(ev.writes) : \E c \in Live : clients[c].fd = fd

\* The process never sleeps in read() or accept(): what select() said of a
\* descriptor is still true when its callback runs, even if the descriptor was
\* closed, and reused, earlier in the round.
NeverBlocks == pc # "blocked"

\* There is room in buf_read when _appserver_read is called, as it asserts (line
\* 298), whatever the number of requests the peers send ahead of their answers.
RoomToRead ==
  \A c \in Live : ReadCalled(clients[c].fd) => Len(clients[c].rbuf) < BufSize

\* What the callbacks count on when they are called: their client, and room.
CallbacksPrepared == CallbackFindsClient /\ RoomToRead

\* What accept(), malloc() and write() leave of the server's bookkeeping when they
\* fail: the buffers stay in bounds, clients, descriptors and registrations agree,
\* no answer is left behind and no call sleeps.
StaysInStep == TypeOK /\ ClientsMatchFiles /\ WriteArmed /\ NeverBlocks

\* The stream a peer receives is the answers to its own requests, in order and
\* each once, up to where the server got.
AnswersInOrder ==
  \A c \in Conn : \A k \in DOMAIN sock[c].out :
    sock[c].out[k] = Answer(c, (k - 1) \div AnsLen + 1)[((k - 1) % AnsLen) + 1]

\* Unless accept() or write() failed, appserver_loop never returns: no peer can
\* make it return by closing, sending part of a request or sending too many.
LoopEndsOnlyOnFault ==
  pc = "returned" => \/ \E c \in DOMAIN clients : clients[c].fd = -1
                     \/ Listen \notin ev.rfds

\* A peer that connected is accepted, whatever the other peers do.
EveryPeerAccepted ==
  \A c \in Conn : (sock[c].st = "waiting") ~> (sock[c].st # "waiting")

\* When the peer closed, the server ends up removing the client and closing its
\* descriptor: clients do not pile up.
ClosedPeerRemoved ==
  \A c \in Conn : (sock[c].peer = "closed") ~> (c \notin DOMAIN clients /\ sock[c].st = "gone")

\* The server owes a peer both, for any peer and whatever the others do.
PeersComeAndGo == EveryPeerAccepted /\ ClosedPeerRemoved
================================================================================
