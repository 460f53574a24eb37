---------------------------- MODULE AppServerProofs ----------------------------
(***************************************************************************)
(* The server keeps clients, descriptors and registrations in step, finds  *)
(* the client of every callback and sleeps in no callback, for any number  *)
(* of descriptors and connections, any buffers, and whatever the peers do  *)
(* and whichever system calls fail.                                        *)
(***************************************************************************)
EXTENDS AppServer, EventDataProofs

--------------------------------------------------------------------------------
\* What the streams carry, a client and a connection.
Unit == Conn \X Nat \X Nat
Client == [fd : Fd \cup {-1}, rbuf : Seq(Unit), wbuf : Seq(Unit)]
Sock == [st : {"none", "waiting", "accepted", "gone"}, peer : {"open", "closed"},
         sent : Nat, in : Seq(Unit), out : Seq(Unit)]

Types ==
  /\ pc \in {"select", "reads", "writes", "returned"} /\ i \in Nat \ {0}
  /\ sel \in [r : SUBSET Fd, w : SUBSET Fd]
  /\ DOMAIN clients \subseteq Conn /\ clients \in [DOMAIN clients -> Client]
  /\ files \in [Fd -> Conn \cup {NoFile, "listening"}]
  /\ backlog \in Seq(Conn) /\ sock \in [Conn -> Sock]

\* An Event agrees with itself, and is in its loop.
InStep(e) == e \in EventOf({}) /\ IoMatch(e) /\ e.loop = 1

\* After a request is taken off buf_read there is room for another.
Rooms == \A c \in DOMAIN clients :
           Len(clients[c].rbuf) <= BufSize - ReqLen /\ Len(clients[c].wbuf) <= BufSize

\* The listening socket has its descriptor for ever, and the others have not.
Listening == \A n \in Fd : files[n] = "listening" <=> n = Listen

\* Each descriptor has one entry, the listening socket has the first; an entry
\* whose descriptor was closed is there only after a write() failed, and not
\* before the next select().
Registered ==
  /\ \A k, l \in DOMAIN ev.reads : ev.reads[k] = ev.reads[l] => k = l
  /\ \A k \in DOMAIN ev.reads : ev.reads[k] = Listen => k = 1
  /\ \A n \in ev.rfds : files[n] = NoFile =>
       pc # "reads" /\ \E c \in DOMAIN clients : clients[c].fd = -1

\* A connection waits in one place, and is a client only afterwards.
Queued ==
  /\ \A k, l \in DOMAIN backlog : backlog[k] = backlog[l] => k = l
  /\ \A k \in DOMAIN backlog : sock[backlog[k]].st = "waiting"
  /\ \A c \in DOMAIN clients : sock[c].st \in {"accepted", "gone"}

\* What select() has said of the descriptors the walk has yet to come to is still
\* true; while connections can be accepted no descriptor it spoke of was closed.
Reported ==
  pc = "reads" =>
    /\ \A k \in DOMAIN ev.reads : k >= i /\ ev.reads[k] \in sel.r => Readable(ev.reads[k])
    /\ i = 1 /\ Listen \in ev.rfds => \A n \in sel.r : files[n] # NoFile

IInv == /\ Types /\ InStep(ev) /\ Rooms /\ Listening /\ ClientsMatchFiles
        /\ WriteArmed /\ Registered /\ Queued /\ Reported

--------------------------------------------------------------------------------
(***************************************************************************)
(* What the calls of the server do to its Event.                           *)
(***************************************************************************)
\* event_register_io_read, event_register_io_write: one more entry, at the end.
LEMMA RegisterReadEffect ==
  ASSUME NEW e, InStep(e), NEW n \in Fd
  PROVE  LET d == RegisterRead(e, n)
         IN  /\ InStep(d) /\ d.reads = Append(e.reads, n) /\ d.writes = e.writes
             /\ d.rfds = e.rfds \cup {n} /\ d.wfds = e.wfds
<1>1. InStep(RegisterRead(e, n))
  BY RegisterReadOK DEF InStep, SameTimers
<1>2. /\ RegisterRead(e, n).reads = Append(e.reads, n)
      /\ RegisterRead(e, n).writes = e.writes
      /\ RegisterRead(e, n).rfds = e.rfds \cup {n}
      /\ RegisterRead(e, n).wfds = e.wfds
  BY DEF RegisterRead, InStep, EventOf
<1> QED
  BY <1>1, <1>2

LEMMA RegisterWriteEffect ==
  ASSUME NEW e, InStep(e), NEW n \in Fd
  PROVE  LET d == RegisterWrite(e, n)
         IN  /\ InStep(d) /\ d.reads = e.reads /\ d.writes = Append(e.writes, n)
             /\ d.rfds = e.rfds /\ d.wfds = e.wfds \cup {n}
<1>1. InStep(RegisterWrite(e, n))
  BY RegisterWriteOK DEF InStep, SameTimers
<1>2. /\ RegisterWrite(e, n).writes = Append(e.writes, n)
      /\ RegisterWrite(e, n).reads = e.reads
      /\ RegisterWrite(e, n).wfds = e.wfds \cup {n}
      /\ RegisterWrite(e, n).rfds = e.rfds
  BY DEF RegisterWrite, InStep, EventOf
<1> QED
  BY <1>1, <1>2

\* event_unregister_io_read, event_unregister_io_write: the entries are gone.
LEMMA UnregisterReadEffect ==
  ASSUME NEW e, InStep(e), NEW n
  PROVE  LET d == UnregisterRead(e, n)
         IN  /\ InStep(d) /\ d.reads = Without(e.reads, n) /\ d.writes = e.writes
             /\ d.rfds = e.rfds \ {n} /\ d.wfds = e.wfds
<1>1. InStep(UnregisterRead(e, n))
  BY UnregisterReadOK DEF InStep, SameTimers
<1>2. /\ UnregisterRead(e, n).reads = Without(e.reads, n)
      /\ UnregisterRead(e, n).writes = e.writes
      /\ UnregisterRead(e, n).rfds = ClearedOf(e.rfds, e.reads, n)
      /\ UnregisterRead(e, n).wfds = e.wfds
  BY DEF UnregisterRead, InStep, EventOf
<1>3. ClearedOf(e.rfds, e.reads, n) = e.rfds \ {n}
  BY ClearedOfMatch DEF InStep, IoMatch
<1> QED
  BY <1>1, <1>2, <1>3

LEMMA UnregisterWriteEffect ==
  ASSUME NEW e, InStep(e), NEW n
  PROVE  LET d == UnregisterWrite(e, n)
         IN  /\ InStep(d) /\ d.reads = e.reads /\ d.writes = Without(e.writes, n)
             /\ d.rfds = e.rfds /\ d.wfds = e.wfds \ {n}
<1>1. InStep(UnregisterWrite(e, n))
  BY UnregisterWriteOK DEF InStep, SameTimers
<1>2. /\ UnregisterWrite(e, n).writes = Without(e.writes, n)
      /\ UnregisterWrite(e, n).reads = e.reads
      /\ UnregisterWrite(e, n).wfds = ClearedOf(e.wfds, e.writes, n)
      /\ UnregisterWrite(e, n).rfds = e.rfds
  BY DEF UnregisterWrite, InStep, EventOf
<1>3. ClearedOf(e.wfds, e.writes, n) = e.wfds \ {n}
  BY ClearedOfMatch DEF InStep, IoMatch
<1> QED
  BY <1>1, <1>2, <1>3

--------------------------------------------------------------------------------
(***************************************************************************)
(* Facts that follow from the invariant.                                   *)
(***************************************************************************)
LEMMA ListenIsFd == Listen \in Fd /\ -1 \notin Fd
BY EventDataAssumption DEF Listen, Fd

\* The fields of the Event the server looks at.
LEMMA EventTypes ==
  ASSUME NEW e, InStep(e)
  PROVE  /\ e.reads \in Seq(Fd) /\ e.writes \in Seq(Fd) /\ e.rfds \subseteq Fd /\ e.wfds \subseteq Fd
         /\ DOMAIN e.reads = 1 .. Len(e.reads) /\ Len(e.reads) \in Nat
         /\ e.rfds = FdsOf(e.reads) /\ e.wfds = FdsOf(e.writes)
         /\ \A k \in DOMAIN e.reads : e.reads[k] \in e.rfds
         /\ \A n \in e.rfds : \E k \in DOMAIN e.reads : e.reads[k] = n
BY LenProperties DEF InStep, EventOf, IoMatch, FdsOf

\* appserver_new: the listening socket is registered.
LEMMA InitInv == Init => IInv
<1> SUFFICES ASSUME Init PROVE IInv
  OBVIOUS
<1>1. << >> \in Seq(Fd) /\ << >> \in Seq(TimersOf({})) /\ FdsOf(<< >>) = {}
  BY EmptySeq DEF FdsOf
<1>2. NoTimeout \in Timeval
  BY EventDataAssumption DEF NoTimeout, Time, Timeval
<1>3. NewEvent \in EventOf({}) /\ IoMatch(NewEvent)
  BY <1>1, <1>2 DEF NewEvent, EventOf, IoMatch, MaxFd
<1> DEFINE e == RegisterRead(NewEvent, Listen)
<1>4. e \in EventOf({}) /\ IoMatch(e)
  BY <1>3, ListenIsFd, RegisterReadOK
<1>5. e.reads = <<Listen>> /\ e.writes = << >>
  BY DEF RegisterRead, NewEvent
<1>6. ev = [e EXCEPT !.loop = 1]
  BY DEF Init
<1> HIDE DEF e
<1>7. InStep(ev) /\ ev.reads = <<Listen>> /\ ev.writes = << >>
  BY <1>4, <1>5, <1>6 DEF InStep, EventOf, IoMatch
<1>8. DOMAIN clients = {} /\ backlog = << >> /\ pc = "select" /\ i = 1
  BY DEF Init
<1>9. Types
  <2>1. sel \in [r : SUBSET Fd, w : SUBSET Fd] /\ backlog \in Seq(Conn)
    BY DEF Init
  <2>2. clients \in [DOMAIN clients -> Client]
    BY <1>8 DEF Init
  <2>3. files \in [Fd -> Conn \cup {NoFile, "listening"}]
    BY DEF Init, NoFile
  <2>4. sock \in [Conn -> Sock]
    BY EmptySeq DEF Init, Sock
  <2> QED
    BY <1>8, <2>1, <2>2, <2>3, <2>4 DEF Types
<1>10. Listening
  BY DEF Init, Listening, NoFile
<1>11. Rooms /\ Live = {}
  BY <1>8 DEF Rooms, Live
<1>12. \A n \in Fd : files[n] \notin Conn
  BY ConnAssumption DEF Init, NoFile
<1>13. ClientsMatchFiles /\ WriteArmed
  BY <1>1, <1>7, <1>11, <1>12 DEF ClientsMatchFiles, WriteArmed
<1>14. Registered
  <2>1. DOMAIN ev.reads = {1}
    BY <1>7
  <2>2. \A n \in ev.rfds : n = Listen
    <3>1. \A n \in ev.rfds : \E k \in DOMAIN ev.reads : ev.reads[k] = n
      BY <1>7, EventTypes
    <3> QED
      BY <1>7, <2>1, <3>1
  <2>3. files[Listen] # NoFile
    BY ListenIsFd DEF Init, NoFile
  <2> QED
    BY <2>1, <2>2, <2>3 DEF Registered
<1>15. Queued /\ Reported
  BY <1>8 DEF Queued, Reported
<1> QED
  BY <1>7, <1>9, <1>10, <1>11, <1>13, <1>14, <1>15 DEF IInv

--------------------------------------------------------------------------------
(***************************************************************************)
(* The loop and the peers, which leave the clients alone.                  *)
(***************************************************************************)
\* The parts of the invariant that are about the clients and their descriptors.
LEMMA ClientsAlone ==
  ASSUME IInv, UNCHANGED <<ev, clients, files>>
  PROVE  /\ (InStep(ev) /\ Rooms /\ Listening /\ ClientsMatchFiles /\ WriteArmed)'
         /\ (\A k, l \in DOMAIN ev.reads : ev.reads[k] = ev.reads[l] => k = l)'
         /\ (\A k \in DOMAIN ev.reads : ev.reads[k] = Listen => k = 1)'
         /\ (pc' = "reads" => pc = "reads") => Registered'
BY DEF IInv, Rooms, Listening, ClientsMatchFiles, WriteArmed, Live, Registered

LEMMA SelectReturnsInv == IInv /\ SelectReturns => IInv'
<1> SUFFICES ASSUME IInv, SelectReturns PROVE IInv'
  OBVIOUS
<1>1. UNCHANGED <<ev, clients, files, backlog, sock>> /\ pc' = "reads" /\ i' = 1
  BY DEF SelectReturns
<1>2. \A n \in ev.rfds : files[n] # NoFile
  BY DEF SelectReturns, ClosedFds
<1>3. /\ sel' \in [r : SUBSET Fd, w : SUBSET Fd]
      /\ \A n \in sel'.r : n \in ev.rfds /\ Readable(n)
  BY EventTypes DEF SelectReturns, Selectable, IInv
<1>4. Types'
  BY <1>1, <1>3 DEF IInv, Types
<1>5. Registered'
  BY <1>1, <1>2, ClientsAlone DEF Registered
<1>6. Queued'
  BY <1>1 DEF IInv, Queued
<1>7. Reported'
  BY <1>1, <1>2, <1>3 DEF Reported, Readable
<1> QED
  BY <1>1, <1>4, <1>5, <1>6, <1>7, ClientsAlone DEF IInv

\* The process ends, for one reason or another.
LEMMA ExitsInv == IInv /\ Exits => IInv'
<1> SUFFICES ASSUME IInv, Exits PROVE IInv'
  OBVIOUS
<1>1. UNCHANGED <<ev, i, sel, clients, files>> /\ pc' = "returned" /\ backlog' = << >>
  BY DEF Exits
<1>2. \A c \in Conn : sock[c] \in Sock
  BY DEF IInv, Types
<1>3. \A c \in Conn : /\ sock'[c] \in Sock
                      /\ sock'[c].st = IF sock[c].st = "none" THEN "none" ELSE "gone"
  BY <1>2, EmptySeq DEF Exits, Sock
<1>4. sock' \in [Conn -> Sock]
  BY <1>3 DEF Exits
<1>5. Types'
  BY <1>1, <1>4, EmptySeq DEF IInv, Types
<1>6. Queued'
  BY <1>1, <1>3 DEF IInv, Types, Queued
<1>7. Reported'
  BY <1>1 DEF Reported
<1> QED
  BY <1>1, <1>5, <1>6, <1>7, ClientsAlone DEF IInv

LEMMA WalkInv == IInv /\ (EndOfWalk \/ PassEntry) => IInv'
<1> SUFFICES ASSUME IInv, EndOfWalk \/ PassEntry PROVE IInv'
  OBVIOUS
<1>1. UNCHANGED <<ev, clients, files, backlog, sock>> /\ (pc' = "reads" => pc = "reads")
  BY DEF EndOfWalk, PassEntry
<1>2. Types'
  BY <1>1 DEF IInv, Types, EndOfWalk, PassEntry
<1>3. Queued'
  BY <1>1 DEF IInv, Queued
<1>4. pc' = "reads" => sel' = sel /\ i' = i + 1
  BY DEF EndOfWalk, PassEntry
<1>5. Reported'
  <2> SUFFICES ASSUME pc' = "reads" PROVE Reported'
    BY DEF Reported
  <2>1. \A k \in DOMAIN ev.reads : k >= i + 1 => k >= i
    BY EventTypes DEF IInv, Types
  <2>2. i + 1 # 1
    BY DEF IInv, Types
  <2> QED
    BY <1>1, <1>4, <2>1, <2>2 DEF IInv, Reported, Readable
<1> QED
  BY <1>1, <1>2, <1>3, <1>5, ClientsAlone DEF IInv

\* What a peer does to its connection makes no descriptor unreadable.
LEMMA PeerInv ==
  ASSUME IInv, UNCHANGED <<server, backlog>>, sock' \in [Conn -> Sock],
         \A c \in Conn : /\ sock'[c].st = sock[c].st
                         /\ sock[c].in # << >> => sock'[c].in # << >>
                         /\ sock[c].peer = "closed" => sock'[c].peer = "closed"
  PROVE  IInv'
<1>1. UNCHANGED <<ev, pc, i, sel, clients, files, backlog>>
  BY DEF server
<1>2. Types'
  BY <1>1 DEF IInv, Types
<1>3. Queued'
  BY <1>1 DEF IInv, Types, Queued
<1>4. \A n \in Fd : files[n] # NoFile /\ Readable(n) => Readable(n)'
  BY <1>1 DEF IInv, Types, Readable
<1>5. \A k \in DOMAIN ev.reads : ev.reads[k] \in Fd /\ (pc = "reads" => files[ev.reads[k]] # NoFile)
  BY EventTypes DEF IInv, Registered
<1>6. Reported'
  BY <1>1, <1>4, <1>5 DEF IInv, Reported
<1> QED
  BY <1>1, <1>2, <1>3, <1>6, ClientsAlone DEF IInv

LEMMA PeerConnectsInv == ASSUME IInv, NEW c \in Conn, PeerConnects(c) PROVE IInv'
<1>1. UNCHANGED <<ev, pc, i, sel, clients, files>> /\ backlog' = Append(backlog, c)
  BY DEF PeerConnects, server
<1>2. /\ sock[c].st = "none" /\ sock \in [Conn -> Sock]
      /\ sock' = [sock EXCEPT ![c].st = "waiting"]
  BY DEF PeerConnects, IInv, Types
<1>3. /\ sock' \in [Conn -> Sock] /\ sock'[c].st = "waiting"
      /\ \A d \in Conn : d # c => sock'[d] = sock[d]
      /\ \A d \in Conn : sock'[d].in = sock[d].in /\ sock'[d].peer = sock[d].peer
  BY <1>2 DEF Sock
<1>4. backlog \in Seq(Conn) /\ backlog' \in Seq(Conn)
  BY <1>1 DEF IInv, Types
<1>5. Types'
  BY <1>1, <1>3, <1>4 DEF IInv, Types
<1>6. Queued'
  <2>1. \A k \in DOMAIN backlog : backlog[k] \in Conn /\ backlog[k] # c
    BY <1>2, <1>4 DEF IInv, Queued
  <2>2. /\ DOMAIN backlog = 1 .. Len(backlog) /\ DOMAIN backlog' = 1 .. Len(backlog) + 1
        /\ Len(backlog) \in Nat
        /\ \A k \in DOMAIN backlog : backlog'[k] = backlog[k]
        /\ backlog'[Len(backlog) + 1] = c
    BY <1>1, <1>4
  <2>3. \A k \in DOMAIN backlog' : k \in DOMAIN backlog \/ k = Len(backlog) + 1
    BY <2>2
  <2>4. \A k, l \in DOMAIN backlog' : backlog'[k] = backlog'[l] => k = l
    BY <2>1, <2>2, <2>3 DEF IInv, Queued
  <2>5. \A k \in DOMAIN backlog' : sock'[backlog'[k]].st = "waiting"
    BY <2>1, <2>2, <2>3, <1>3 DEF IInv, Queued
  <2>6. \A d \in DOMAIN clients : d \in Conn /\ d # c
    BY <1>2 DEF IInv, Types, Queued
  <2>7. \A d \in DOMAIN clients' : sock'[d].st \in {"accepted", "gone"}
    BY <2>6, <1>1, <1>3 DEF IInv, Queued
  <2> QED
    BY <2>4, <2>5, <2>7 DEF Queued
<1>7. \A n \in Fd : files[n] # NoFile /\ Readable(n) => Readable(n)'
  <2>1. backlog' # << >>
    BY <1>1, <1>4
  <2> QED
    BY <1>1, <1>3, <2>1 DEF IInv, Types, Readable
<1>8. \A k \in DOMAIN ev.reads : ev.reads[k] \in Fd /\ (pc = "reads" => files[ev.reads[k]] # NoFile)
  BY EventTypes DEF IInv, Registered
<1>9. Reported'
  BY <1>1, <1>7, <1>8 DEF IInv, Reported
<1> QED
  BY <1>1, <1>5, <1>6, <1>9, ClientsAlone DEF IInv

--------------------------------------------------------------------------------
(***************************************************************************)
(* Connections.                                                            *)
(***************************************************************************)
\* The listening socket is looked at first, and a connection waits then.
LEMMA AcceptReady == ASSUME IInv, ReadCalled(Listen) PROVE i = 1 /\ backlog # << >>
<1>1. i \in DOMAIN ev.reads /\ ev.reads[i] = Listen /\ Listen \in sel.r /\ pc = "reads"
  BY EventTypes DEF IInv, Types, ReadCalled, IsReported
<1>2. i = 1 /\ i >= i
  BY <1>1 DEF IInv, Registered
<1>3. Readable(Listen)
  BY <1>1, <1>2 DEF IInv, Reported
<1>4. files[Listen] = "listening"
  BY ListenIsFd DEF IInv, Listening
<1> QED
  BY <1>2, <1>3, <1>4 DEF Readable

\* A descriptor registered for writing is that of a client.
LEMMA WritesAreClients ==
  ASSUME IInv, NEW n \in ev.wfds
  PROVE  \E c \in Live : clients[c].fd = n /\ files[n] = c /\ clients[c].wbuf # << >>
<1>1. n \in FdsOf(ev.writes)
  BY EventTypes DEF IInv
<1> QED
  BY <1>1 DEF IInv, WriteArmed, ClientsMatchFiles

\* The kernel gives out a descriptor nobody speaks of.
LEMMA LowestFreeIsFresh ==
  ASSUME IInv, ReadCalled(Listen), FreeFds # {}
  PROVE  /\ LowestFree \in Fd /\ files[LowestFree] = NoFile /\ LowestFree # Listen
         /\ LowestFree \notin ev.rfds /\ LowestFree \notin ev.wfds /\ LowestFree \notin sel.r
<1>1. FreeFds \in SUBSET Nat
  BY FdNat DEF FreeFds
<1>2. \E m \in FreeFds : \A n \in FreeFds : m <= n
  BY <1>1, NatMin
<1>3. LowestFree \in FreeFds
  BY <1>2 DEF LowestFree
<1>4. LowestFree \in Fd /\ files[LowestFree] = NoFile
  BY <1>3 DEF FreeFds
<1> HIDE DEF LowestFree
<1>5. LowestFree # Listen
  BY <1>4 DEF IInv, Listening, NoFile
<1>6. pc = "reads" /\ Listen \in ev.rfds
  BY EventTypes DEF IInv, Types, ReadCalled
<1>7. LowestFree \notin ev.rfds
  BY <1>4, <1>6 DEF IInv, Registered
<1>8. LowestFree \notin ev.wfds
  BY <1>4, WritesAreClients, ConnAssumption DEF Live, IInv, Types
<1>9. LowestFree \notin sel.r
  BY <1>4, <1>6, AcceptReady DEF IInv, Reported
<1> QED
  BY <1>4, <1>5, <1>7, <1>8, <1>9

\* The connection at the head of the backlog leaves it.
LEMMA Dequeued ==
  ASSUME IInv, backlog # << >>, backlog' = Tail(backlog)
  PROVE  /\ Head(backlog) \in Conn /\ sock[Head(backlog)].st = "waiting"
         /\ Head(backlog) \notin DOMAIN clients
         /\ backlog' \in Seq(Conn)
         /\ \A k, l \in DOMAIN backlog' : backlog'[k] = backlog'[l] => k = l
         /\ \A k \in DOMAIN backlog' : /\ backlog'[k] \in Conn /\ backlog'[k] # Head(backlog)
                                       /\ sock[backlog'[k]].st = "waiting"
<1>1. backlog \in Seq(Conn)
  BY DEF IInv, Types
<1>2. /\ Len(backlog) \in Nat \ {0} /\ DOMAIN backlog = 1 .. Len(backlog)
      /\ Head(backlog) = backlog[1] /\ backlog[1] \in Conn
      /\ backlog' \in Seq(Conn) /\ DOMAIN backlog' = 1 .. Len(backlog) - 1
      /\ \A k \in 1 .. Len(backlog) - 1 : backlog'[k] = backlog[k + 1]
  BY <1>1
<1>3. /\ \A k, l \in DOMAIN backlog : backlog[k] = backlog[l] => k = l
      /\ \A k \in DOMAIN backlog : sock[backlog[k]].st = "waiting"
  BY DEF IInv, Queued
<1>4. Head(backlog) \notin DOMAIN clients
  BY <1>2, <1>3 DEF IInv, Queued
<1>5. \A k \in DOMAIN backlog' : k + 1 \in DOMAIN backlog /\ k + 1 # 1 /\ k \in Nat
  BY <1>2
<1> QED
  BY <1>1, <1>2, <1>3, <1>4, <1>5

LEMMA AcceptInv == IInv /\ Accept => IInv'
<1> SUFFICES ASSUME IInv, Accept PROVE IInv'
  OBVIOUS
<1> DEFINE c == Head(backlog)
<1> DEFINE n == LowestFree
<1>1. ReadCalled(Listen) /\ FreeFds # {} /\ i = 1 /\ backlog # << >> /\ pc = "reads"
  BY AcceptReady DEF Accept, ReadCalled
<1>2. /\ files' = [files EXCEPT ![n] = c]
      /\ sock' = [sock EXCEPT ![c].st = "accepted"]
      /\ clients' = [d \in DOMAIN clients \cup {c} |-> IF d = c THEN NewClient(n) ELSE clients[d]]
      /\ ev' = RegisterRead(ev, n)
      /\ backlog' = Tail(backlog) /\ i' = 2 /\ UNCHANGED <<pc, sel>>
  BY <1>1 DEF Accept
<1>3. /\ n \in Fd /\ files[n] = NoFile /\ n # Listen
      /\ n \notin ev.rfds /\ n \notin ev.wfds /\ n \notin sel.r
  BY <1>1, LowestFreeIsFresh
<1>4. /\ c \in Conn /\ sock[c].st = "waiting" /\ c \notin DOMAIN clients
      /\ backlog' \in Seq(Conn)
      /\ \A k, l \in DOMAIN backlog' : backlog'[k] = backlog'[l] => k = l
      /\ \A k \in DOMAIN backlog' : /\ backlog'[k] \in Conn /\ backlog'[k] # c
                                    /\ sock[backlog'[k]].st = "waiting"
  BY <1>1, <1>2, Dequeued
<1> HIDE DEF c, n
<1>5. /\ InStep(ev') /\ ev'.reads = Append(ev.reads, n) /\ ev'.writes = ev.writes
      /\ ev'.rfds = ev.rfds \cup {n} /\ ev'.wfds = ev.wfds
  BY <1>2, <1>3, RegisterReadEffect DEF IInv
<1>6. /\ DOMAIN clients' = DOMAIN clients \cup {c} /\ clients'[c] = NewClient(n)
      /\ \A d \in DOMAIN clients : d # c /\ clients'[d] = clients[d]
      /\ clients' \in [DOMAIN clients' -> Client]
  <2>1. NewClient(n) \in Client
    BY <1>3, EmptySeq DEF NewClient, Client
  <2> QED
    BY <2>1, <1>2, <1>4 DEF IInv, Types
<1>7. /\ sock' \in [Conn -> Sock] /\ sock'[c].st = "accepted"
      /\ \A d \in Conn : d # c => sock'[d] = sock[d]
      /\ \A d \in Conn : sock'[d].in = sock[d].in /\ sock'[d].peer = sock[d].peer
  <2>1. sock \in [Conn -> Sock]
    BY DEF IInv, Types
  <2> QED
    BY <2>1, <1>2, <1>4 DEF Sock
<1>8. /\ files' \in [Fd -> Conn \cup {NoFile, "listening"}] /\ files'[n] = c
      /\ \A m \in Fd : m # n => files'[m] = files[m]
  BY <1>2, <1>3, <1>4 DEF IInv, Types
<1>9. c # NoFile /\ c # "listening"
  BY <1>4, ConnAssumption
<1>10. Types'
  BY <1>1, <1>2, <1>4, <1>6, <1>7, <1>8 DEF IInv, Types
<1>11. Rooms'
  BY <1>6, AppServerAssumption DEF IInv, Rooms, NewClient
<1>12. Listening'
  BY <1>3, <1>8, <1>9 DEF IInv, Listening
<1>13. /\ clients'[c].fd = n /\ clients'[c].wbuf = << >> /\ Live' = Live \cup {c}
       /\ \A d \in Live : d # c /\ clients'[d] = clients[d] /\ clients[d].fd \in Fd /\ clients[d].fd # n
  <2>1. clients'[c].fd = n /\ clients'[c].wbuf = << >> /\ n # -1
    BY <1>3, <1>6, ListenIsFd DEF NewClient
  <2>2. Live' = Live \cup {c}
    BY <2>1, <1>6 DEF Live
  <2>3. \A d \in Live : clients[d].fd \in Fd /\ files[clients[d].fd] = d /\ d \in Conn
    BY DEF IInv, Types, Client, Live, ClientsMatchFiles
  <2> QED
    BY <2>1, <2>2, <2>3, <1>3, <1>6, ConnAssumption DEF Live
<1>14. ClientsMatchFiles'
  <2>1. \A d \in Live' : files'[clients'[d].fd] = d /\ clients'[d].fd \in ev'.rfds
    BY <1>5, <1>8, <1>13 DEF IInv, ClientsMatchFiles
  <2>2. \A m \in Fd : files'[m] \in Conn => files'[m] \in Live' /\ clients'[files'[m]].fd = m
    BY <1>8, <1>13 DEF IInv, ClientsMatchFiles
  <2> QED
    BY <2>1, <2>2 DEF ClientsMatchFiles
<1>15. WriteArmed'
  <2>1. ev.wfds = FdsOf(ev.writes)
    BY EventTypes DEF IInv
  <2> QED
    BY <2>1, <1>3, <1>5, <1>13 DEF IInv, WriteArmed
<1>16. /\ DOMAIN ev'.reads = 1 .. Len(ev.reads) + 1 /\ DOMAIN ev.reads = 1 .. Len(ev.reads)
       /\ Len(ev.reads) \in Nat /\ ev'.reads[Len(ev.reads) + 1] = n
       /\ \A k \in DOMAIN ev.reads : ev'.reads[k] = ev.reads[k] /\ ev.reads[k] \in ev.rfds /\ ev.reads[k] \in Fd
       /\ \A k \in DOMAIN ev'.reads : k \in DOMAIN ev.reads \/ k = Len(ev.reads) + 1
  BY <1>3, <1>5, EventTypes DEF IInv
<1>17. Registered'
  <2>1. \A k, l \in DOMAIN ev'.reads : ev'.reads[k] = ev'.reads[l] => k = l
    BY <1>3, <1>16 DEF IInv, Registered
  <2>2. \A k \in DOMAIN ev'.reads : ev'.reads[k] = Listen => k = 1
    BY <1>3, <1>16 DEF IInv, Registered
  <2>3. \A m \in ev.rfds : files[m] # NoFile /\ m \in Fd /\ m # n
    BY <1>1, <1>3, EventTypes DEF IInv, Registered
  <2>4. \A m \in ev'.rfds : files'[m] # NoFile
    BY <2>3, <1>5, <1>8, <1>9
  <2> QED
    BY <2>1, <2>2, <2>4 DEF Registered
<1>18. Queued'
  <2>1. \A k \in DOMAIN backlog' : sock'[backlog'[k]].st = "waiting"
    BY <1>4, <1>7
  <2>2. \A d \in DOMAIN clients : sock'[d].st \in {"accepted", "gone"}
    BY <1>6, <1>7 DEF IInv, Types, Queued
  <2>3. \A d \in DOMAIN clients' : sock'[d].st \in {"accepted", "gone"}
    BY <2>2, <1>6, <1>7
  <2> QED
    BY <1>4, <2>1, <2>3 DEF Queued
<1>19. Reported'
  <2>1. SUFFICES ASSUME NEW k \in DOMAIN ev'.reads, k >= 2, ev'.reads[k] \in sel.r
                 PROVE  Readable(ev.reads[k])'
    BY <1>2 DEF Reported
  <2>2. k \in DOMAIN ev.reads /\ ev'.reads[k] = ev.reads[k] /\ k >= i /\ k # 1
    BY <2>1, <1>1, <1>3, <1>16
  <2>3. Readable(ev.reads[k]) /\ ev.reads[k] # Listen /\ ev.reads[k] \in Fd /\ ev.reads[k] # n
    BY <2>1, <2>2, <1>1, <1>3, <1>16 DEF IInv, Reported, Registered
  <2>4. files'[ev.reads[k]] = files[ev.reads[k]] /\ files[ev.reads[k]] # "listening"
    BY <2>3, <1>8 DEF IInv, Listening
  <2>5. files[ev.reads[k]] \in Conn
    BY <2>2, <2>3, <2>4, <1>1, <1>16 DEF IInv, Types, Registered
  <2> QED
    BY <2>2, <2>3, <2>4, <2>5, <1>7 DEF Readable
<1> QED
  BY <1>5, <1>10, <1>11, <1>12, <1>14, <1>15, <1>17, <1>18, <1>19 DEF IInv


\* _unregister_io takes the entry the walk is at: the ones after it move down by
\* one place, and the order stays.
LEMMA EntryRemoved ==
  ASSUME IInv, NEW n, ReadCalled(n)
  PROVE  LET d == Without(ev.reads, n)
         IN  /\ \A k, l \in DOMAIN d : d[k] = d[l] => k = l
             /\ \A k \in DOMAIN d : d[k] = Listen => k = 1
             /\ \A k \in DOMAIN d : d[k] # n
             /\ \A k \in DOMAIN d : \E l \in DOMAIN ev.reads : l >= k /\ d[k] = ev.reads[l]
<1> DEFINE d == Without(ev.reads, n)
<1> DEFINE At(k) == IF k < i THEN k ELSE k + 1
<1>1. /\ ev.reads \in Seq(Fd) /\ DOMAIN ev.reads = 1 .. Len(ev.reads)
      /\ Len(ev.reads) \in Nat /\ i \in DOMAIN ev.reads /\ ev.reads[i] = n
  BY EventTypes DEF IInv, Types, ReadCalled
<1>2. \A k, l \in DOMAIN ev.reads : ev.reads[k] = ev.reads[l] => k = l
  BY DEF IInv, Registered
<1>3. \A k \in DOMAIN ev.reads : ev.reads[k] = Listen => k = 1
  BY DEF IInv, Registered
<1>4. /\ Len(d) = Len(ev.reads) - 1 /\ d \in Seq(Fd)
      /\ \A k \in 1 .. Len(ev.reads) - 1 :
           d[k] = IF k < i THEN ev.reads[k] ELSE ev.reads[k + 1]
  BY <1>1, <1>2, WithoutOnce, WithoutElements
<1>5. DOMAIN d = 1 .. Len(ev.reads) - 1
  BY <1>4, LenProperties
<1> HIDE DEF d
<1>6. \A k \in DOMAIN d : d[k] = ev.reads[At(k)]
  BY <1>4, <1>5
<1>7. \A k \in DOMAIN d : /\ At(k) \in DOMAIN ev.reads /\ At(k) # i /\ At(k) >= k
                          /\ At(k) = 1 => k = 1
  BY <1>1, <1>5
<1>8. \A k, l \in DOMAIN d : At(k) = At(l) => k = l
  BY <1>1, <1>5
<1> HIDE DEF At
<1>9. \A k, l \in DOMAIN d : d[k] = d[l] => k = l
  BY <1>2, <1>6, <1>7, <1>8
<1>10. \A k \in DOMAIN d : d[k] = Listen => k = 1
  BY <1>3, <1>6, <1>7
<1>11. \A k \in DOMAIN d : d[k] # n
  BY <1>1, <1>2, <1>6, <1>7
<1>12. \A k \in DOMAIN d : \E l \in DOMAIN ev.reads : l >= k /\ d[k] = ev.reads[l]
  BY <1>6, <1>7
<1> QED
  BY <1>9, <1>10, <1>11, <1>12 DEF d

\* The listening socket is lost: no connection is accepted any more, and the
\* clients are served as before.
LEMMA AcceptFailsInv == IInv /\ AcceptFails => IInv'
<1> SUFFICES ASSUME IInv, AcceptFails PROVE IInv'
  OBVIOUS
<1>1. /\ ReadCalled(Listen) /\ pc = "reads"
      /\ ev' = UnregisterRead(ev, Listen)
      /\ UNCHANGED <<pc, i, sel, clients, files, backlog, sock>>
  BY DEF AcceptFails, ReadCalled
<1>2. /\ InStep(ev') /\ ev'.reads = Without(ev.reads, Listen) /\ ev'.writes = ev.writes
      /\ ev'.rfds = ev.rfds \ {Listen} /\ ev'.wfds = ev.wfds
  BY <1>1, UnregisterReadEffect DEF IInv
<1>3. /\ \A k, l \in DOMAIN ev'.reads : ev'.reads[k] = ev'.reads[l] => k = l
      /\ \A k \in DOMAIN ev'.reads : ev'.reads[k] = Listen => k = 1
      /\ \A k \in DOMAIN ev'.reads : \E l \in DOMAIN ev.reads :
           l >= k /\ ev'.reads[k] = ev.reads[l]
  BY <1>1, <1>2, EntryRemoved
<1>4. Types' /\ Rooms' /\ Listening' /\ Queued' /\ Live' = Live
  BY <1>1 DEF IInv, Types, Rooms, Listening, Queued, Live
<1>5. ClientsMatchFiles'
  <2>1. \A c \in Live : clients[c].fd # Listen
    <3>1. \A c \in Live : files[clients[c].fd] = c /\ c \in Conn
      BY DEF IInv, Types, Live, ClientsMatchFiles
    <3>2. files[Listen] = "listening"
      BY ListenIsFd DEF IInv, Listening
    <3> QED
      BY <3>1, <3>2, ConnAssumption
  <2> QED
    BY <2>1, <1>1, <1>2, <1>4 DEF IInv, ClientsMatchFiles
<1>6. WriteArmed'
  BY <1>1, <1>2, <1>4 DEF IInv, WriteArmed
<1>7. Registered'
  BY <1>1, <1>2, <1>3 DEF IInv, Registered
<1>8. Reported'
  <2>1. \A k \in DOMAIN ev'.reads : k >= i => \E l \in DOMAIN ev.reads :
          l >= i /\ ev'.reads[k] = ev.reads[l]
    <3>1. \A k \in DOMAIN ev'.reads : k \in Nat
      BY <1>2, EventTypes
    <3>2. \A l \in DOMAIN ev.reads : l \in Nat
      BY EventTypes DEF IInv
    <3>3. i \in Nat
      BY DEF IInv, Types
    <3> QED
      BY <3>1, <3>2, <3>3, <1>3
  <2>2. \A k \in DOMAIN ev'.reads : k >= i /\ ev'.reads[k] \in sel.r => Readable(ev'.reads[k])
    BY <2>1, <1>1 DEF IInv, Reported
  <2>3. \A k \in DOMAIN ev'.reads : Readable(ev'.reads[k]) => Readable(ev.reads[k])'
    BY <1>1 DEF Readable
  <2> QED
    BY <2>2, <2>3, <1>1, <1>2 DEF Reported
<1> QED
  BY <1>2, <1>4, <1>5, <1>6, <1>7, <1>8 DEF IInv

\* The connection is closed before the server has a client for it.
LEMMA AcceptDropsInv == IInv /\ AcceptDrops => IInv'
<1> SUFFICES ASSUME IInv, AcceptDrops PROVE IInv'
  OBVIOUS
<1> DEFINE c == Head(backlog)
<1>1. /\ ReadCalled(Listen) /\ pc = "reads" /\ i = 1 /\ backlog # << >>
      /\ sock' = [sock EXCEPT ![c].st = "gone", ![c].in = << >>]
      /\ backlog' = Tail(backlog) /\ i' = 2
      /\ UNCHANGED <<ev, pc, sel, clients, files>>
  BY AcceptReady DEF AcceptDrops, ReadCalled
<1>2. /\ c \in Conn /\ sock[c].st = "waiting" /\ c \notin DOMAIN clients
      /\ backlog' \in Seq(Conn)
      /\ \A k, l \in DOMAIN backlog' : backlog'[k] = backlog'[l] => k = l
      /\ \A k \in DOMAIN backlog' : /\ backlog'[k] \in Conn /\ backlog'[k] # c
                                    /\ sock[backlog'[k]].st = "waiting"
  BY <1>1, Dequeued
<1> HIDE DEF c
<1>3. /\ sock' \in [Conn -> Sock]
      /\ \A d \in Conn : d # c => sock'[d] = sock[d]
  <2>1. sock \in [Conn -> Sock] /\ << >> \in Seq(Unit)
    BY DEF IInv, Types
  <2>2. sock'[c] = [sock[c] EXCEPT !.st = "gone", !.in = << >>]
    BY <2>1, <1>1, <1>2
  <2>3. sock'[c] \in Sock
    BY <2>1, <2>2, <1>2 DEF Sock
  <2>4. \A d \in Conn : d # c => sock'[d] = sock[d]
    BY <2>1, <1>1
  <2>5. sock' = [d \in Conn |-> sock'[d]]
    BY <2>1, <1>1
  <2>6. \A d \in Conn : sock'[d] \in Sock
    BY <2>1, <2>3, <2>4
  <2> QED
    BY <2>4, <2>5, <2>6
<1>4. Types'
  BY <1>1, <1>2, <1>3 DEF IInv, Types
<1>5. Queued'
  BY <1>1, <1>2, <1>3 DEF IInv, Types, Queued
<1>6. Reported'
  <2>1. SUFFICES ASSUME NEW k \in DOMAIN ev.reads, k >= 2, ev.reads[k] \in sel.r
                 PROVE  Readable(ev.reads[k])'
    BY <1>1 DEF Reported
  <2>2. k >= i /\ k # 1
    BY <2>1, <1>1, EventTypes DEF IInv
  <2>3. Readable(ev.reads[k]) /\ ev.reads[k] # Listen /\ ev.reads[k] \in Fd
    BY <2>1, <2>2, <1>1, EventTypes DEF IInv, Reported, Registered
  <2>4. files[ev.reads[k]] # "listening"
    BY <2>3 DEF IInv, Listening
  <2>5. files[ev.reads[k]] \in Conn
    BY <2>3, <2>4, <1>1, EventTypes DEF IInv, Types, Registered
  <2>6. files[ev.reads[k]] \in DOMAIN clients
    BY <2>3, <2>5 DEF IInv, ClientsMatchFiles, Live
  <2> QED
    BY <2>3, <2>4, <2>5, <2>6, <1>1, <1>2, <1>3 DEF Readable
<1> QED
  BY <1>1, <1>4, <1>5, <1>6, ClientsAlone DEF IInv


--------------------------------------------------------------------------------
(***************************************************************************)
(* Clients.                                                                *)
(***************************************************************************)
\* A client with a descriptor, and what the invariant says of it.
LEMMA LiveClient ==
  ASSUME IInv, NEW c \in DOMAIN clients, clients[c].fd \in Fd
  PROVE  /\ c \in Live /\ c \in Conn /\ clients[c] \in Client /\ sock[c] \in Sock
         /\ files[clients[c].fd] = c /\ clients[c].fd # Listen /\ clients[c].fd # -1
         /\ \A d \in Live : /\ clients[d].fd \in Fd /\ d \in Conn
                            /\ clients[d].fd = clients[c].fd => d = c
<1>1. c \in Live /\ c \in Conn /\ clients[c] \in Client /\ sock[c] \in Sock
  BY ListenIsFd DEF IInv, Types, Live
<1>2. files[clients[c].fd] = c
  BY <1>1 DEF IInv, ClientsMatchFiles
<1>3. clients[c].fd # Listen
  BY <1>1, <1>2, ListenIsFd, ConnAssumption DEF IInv, Listening
<1>4. \A d \in Live : clients[d].fd \in Fd /\ d \in Conn /\ files[clients[d].fd] = d
  BY DEF IInv, Types, Live, Client, ClientsMatchFiles
<1> QED
  BY <1>1, <1>2, <1>3, <1>4, ListenIsFd

\* A callback is called for a descriptor of the process.
LEMMA CalledFd ==
  /\ \A n : IInv /\ ReadCalled(n) => n \in Fd /\ n \in ev.rfds /\ n \in sel.r /\ i \in DOMAIN ev.reads
  /\ \A n : IInv /\ WriteCalled(n) => n \in Fd /\ n \in ev.wfds
<1>1. ASSUME NEW n, IInv, ReadCalled(n)
      PROVE  n \in Fd /\ n \in ev.rfds /\ n \in sel.r /\ i \in DOMAIN ev.reads
  BY <1>1, EventTypes DEF IInv, Types, ReadCalled, IsReported
<1>2. ASSUME NEW n, IInv, WriteCalled(n) PROVE n \in Fd /\ n \in ev.wfds
  <2>1. ev.writes \in Seq(Fd) /\ ev.wfds = FdsOf(ev.writes) /\ ev.wfds \subseteq Fd
    BY <1>2, EventTypes DEF IInv
  <2>2. i \in DOMAIN ev.writes /\ ev.writes[i] = n
    BY <1>2, <2>1, LenProperties DEF IInv, Types, WriteCalled
  <2> QED
    BY <2>1, <2>2 DEF FdsOf
<1> QED
  BY <1>1, <1>2

\* _appserver_client_remove clears both registrations of the descriptor.
LEMMA UnregisteredEffect ==
  ASSUME IInv, NEW c \in DOMAIN clients, clients[c].fd \in Fd
  PROVE  LET d == Unregistered(ev, clients[c])
             n == clients[c].fd
         IN  /\ InStep(d) /\ d.reads = Without(ev.reads, n)
             /\ d.rfds = ev.rfds \ {n} /\ d.wfds = ev.wfds \ {n}
             /\ FdsOf(d.writes) = FdsOf(ev.writes) \ {n}
<1> DEFINE n == clients[c].fd
<1> DEFINE w == IF clients[c].wbuf # << >> THEN UnregisterWrite(ev, n) ELSE ev
<1>1. InStep(ev) /\ ev.wfds = FdsOf(ev.writes)
  BY EventTypes DEF IInv
<1>2. clients[c].wbuf = << >> => n \notin ev.wfds
  BY <1>1, LiveClient DEF IInv, WriteArmed
<1>3. InStep(w) /\ w.reads = ev.reads /\ w.rfds = ev.rfds /\ w.wfds = ev.wfds \ {n}
  BY <1>1, <1>2, UnregisterWriteEffect
<1> HIDE DEF w
<1>4. LET d == UnregisterRead(w, n)
      IN  /\ InStep(d) /\ d.reads = Without(w.reads, n) /\ d.writes = w.writes
          /\ d.rfds = w.rfds \ {n} /\ d.wfds = w.wfds
  BY <1>3, UnregisterReadEffect
<1>5. FdsOf(w.writes) = FdsOf(ev.writes) \ {n}
  BY <1>1, <1>3, EventTypes
<1>6. Unregistered(ev, clients[c]) = UnregisterRead(w, n)
  BY DEF Unregistered, w
<1> QED
  BY <1>3, <1>4, <1>5, <1>6

\* A client goes: what select() said of the others stays true, and as the walk has
\* left the listening socket behind, its descriptor is not given out again before
\* the next select().
LEMMA RemoveClientInv ==
  ASSUME IInv, NEW c \in DOMAIN clients, ReadCalled(clients[c].fd), RemoveClient(c),
         sock' \in [Conn -> Sock], sock'[c].st = "gone",
         \A d \in Conn : d # c => sock'[d] = sock[d]
  PROVE  IInv'
<1> DEFINE n == clients[c].fd
<1>1. /\ ev' = Unregistered(ev, clients[c])
      /\ files' = [files EXCEPT ![n] = NoFile]
      /\ clients' = [d \in DOMAIN clients \ {c} |-> clients[d]]
      /\ UNCHANGED <<pc, i, sel, backlog>> /\ pc = "reads"
  BY DEF RemoveClient, ReadCalled
<1>2. n \in Fd /\ n \in ev.rfds /\ i \in DOMAIN ev.reads
  BY CalledFd
<1>3. /\ c \in Live /\ c \in Conn /\ files[n] = c /\ n # Listen
      /\ \A d \in Live : clients[d].fd \in Fd /\ d \in Conn /\ (clients[d].fd = n => d = c)
  BY <1>2, LiveClient
<1>4. /\ InStep(ev') /\ ev'.reads = Without(ev.reads, n)
      /\ ev'.rfds = ev.rfds \ {n} /\ ev'.wfds = ev.wfds \ {n}
      /\ FdsOf(ev'.writes) = FdsOf(ev.writes) \ {n}
  BY <1>1, <1>2, UnregisteredEffect
<1>5. /\ \A k, l \in DOMAIN ev'.reads : ev'.reads[k] = ev'.reads[l] => k = l
      /\ \A k \in DOMAIN ev'.reads : ev'.reads[k] = Listen => k = 1
      /\ \A k \in DOMAIN ev'.reads : ev'.reads[k] # n
      /\ \A k \in DOMAIN ev'.reads : \E l \in DOMAIN ev.reads :
           l >= k /\ ev'.reads[k] = ev.reads[l]
  BY <1>4, EntryRemoved
<1>6. ev.reads[i] = n
  BY DEF ReadCalled
<1>7. /\ DOMAIN clients' = DOMAIN clients \ {c}
      /\ \A d \in DOMAIN clients' : clients'[d] = clients[d]
      /\ Live' = Live \ {c}
  BY <1>1 DEF Live
<1>8. /\ files' \in [Fd -> Conn \cup {NoFile, "listening"}] /\ files'[n] = NoFile
      /\ \A m \in Fd : m # n => files'[m] = files[m]
  BY <1>1, <1>2 DEF IInv, Types
<1> HIDE DEF n
<1>9. Types'
  <2>1. clients' \in [DOMAIN clients' -> Client]
    BY <1>1, <1>7 DEF IInv, Types
  <2> QED
    BY <2>1, <1>1, <1>7, <1>8 DEF IInv, Types
<1>10. Rooms'
  BY <1>7 DEF IInv, Rooms
<1>11. Listening'
  BY <1>3, <1>8 DEF IInv, Listening, NoFile
<1>12. ClientsMatchFiles'
  <2>1. \A d \in Live' : files'[clients'[d].fd] = d /\ clients'[d].fd \in ev'.rfds
    BY <1>3, <1>4, <1>7, <1>8 DEF IInv, ClientsMatchFiles, Live
  <2>2. NoFile \notin Conn
    BY ConnAssumption
  <2>3. \A m \in Fd : files'[m] \in Conn => files'[m] \in Live' /\ clients'[files'[m]].fd = m
    <3> SUFFICES ASSUME NEW m \in Fd, files'[m] \in Conn
                 PROVE  files'[m] \in Live' /\ clients'[files'[m]].fd = m
      OBVIOUS
    <3>1. m # n /\ files'[m] = files[m]
      BY <2>2, <1>8
    <3>2. files[m] \in Live /\ clients[files[m]].fd = m
      BY <3>1 DEF IInv, ClientsMatchFiles
    <3>3. files[m] # c
      BY <3>1, <3>2 DEF n
    <3> QED
      BY <3>1, <3>2, <3>3, <1>7 DEF Live
  <2> QED
    BY <2>1, <2>3 DEF ClientsMatchFiles
<1>13. WriteArmed'
  <2>1. \A d \in Live' : d \in Live /\ clients'[d] = clients[d] /\ clients[d].fd # n
    BY <1>3, <1>7 DEF Live
  <2>2. \A m \in FdsOf(ev'.writes) : \E d \in Live' : clients'[d].fd = m
    <3> SUFFICES ASSUME NEW m \in FdsOf(ev'.writes) PROVE \E d \in Live' : clients'[d].fd = m
      OBVIOUS
    <3>1. PICK d \in Live : clients[d].fd = m
      BY <1>4 DEF IInv, WriteArmed
    <3>2. d # c
      BY <1>4, <3>1 DEF n
    <3> QED
      BY <2>1, <3>1, <3>2, <1>7
  <2> QED
    BY <2>1, <2>2, <1>4 DEF IInv, WriteArmed
<1>14. \A m \in ev'.rfds : m \in Fd /\ m # n /\ files'[m] = files[m] /\ files'[m] # NoFile
  <2>1. \A m \in ev.rfds : m \in Fd /\ files[m] # NoFile
    BY <1>1, EventTypes DEF IInv, Registered
  <2> QED
    BY <2>1, <1>4, <1>8
<1>15. Registered'
  BY <1>5, <1>14 DEF Registered
<1>16. Queued'
  <2>1. \A k \in DOMAIN backlog : backlog[k] \in Conn /\ backlog[k] # c /\ sock[backlog[k]].st = "waiting"
    BY DEF IInv, Types, Queued
  <2>2. \A d \in DOMAIN clients' : d \in Conn /\ d # c /\ sock[d].st \in {"accepted", "gone"}
    BY <1>7 DEF IInv, Types, Queued
  <2> QED
    BY <2>1, <2>2, <1>1 DEF IInv, Queued
<1>17. Reported'
  <2>2. ASSUME NEW k \in DOMAIN ev'.reads, k >= i, ev'.reads[k] \in sel.r
        PROVE  Readable(ev.reads[k])'
    <3>1. PICK l \in DOMAIN ev.reads : l >= k /\ ev'.reads[k] = ev.reads[l]
      BY <2>2, <1>5
    <3>2. l >= i
      <4>1. k \in Nat /\ l \in Nat /\ i \in Nat
        BY <1>4, EventTypes DEF IInv, Types
      <4> QED
        BY <2>2, <3>1, <4>1
    <3>3. PICK m \in ev'.rfds : m = ev'.reads[k] /\ Readable(m)
      BY <2>2, <3>1, <3>2, <1>1, <1>4, EventTypes DEF IInv, Reported
    <3>4. m \in Fd /\ m # n /\ files'[m] = files[m] /\ files[m] # NoFile
      BY <3>3, <1>14
    <3>5. files[m] \in Conn => files[m] # c
      BY <3>4 DEF IInv, ClientsMatchFiles, n
    <3>6. files[m] = "listening" \/ files[m] \in Conn
      BY <3>4 DEF IInv, Types
    <3>7. Readable(m)'
      BY <3>3, <3>4, <3>5, <3>6, <1>1 DEF Readable
    <3> QED
      BY <3>3, <3>7 DEF Readable
  <2>3. i # 1 \/ Listen \notin ev'.rfds
    <3>1. Listen \in ev.rfds => \E k \in DOMAIN ev.reads : ev.reads[k] = Listen
      BY EventTypes DEF IInv
    <3>2. Listen \in ev.rfds => ev.reads[1] = Listen
      BY <3>1 DEF IInv, Registered
    <3> QED
      BY <3>2, <1>3, <1>4, <1>6
  <2> QED
    BY <2>2, <2>3, <1>1 DEF Reported
<1> QED
  BY <1>4, <1>9, <1>10, <1>11, <1>12, <1>13, <1>15, <1>16, <1>17 DEF IInv


\* read() moves units from the connection to buf_read, as many as there is room
\* for, and loses none.
LEMMA ReceivedUnits ==
  ASSUME IInv, NEW c \in DOMAIN clients
  PROVE  /\ Received(c) \in Seq(Unit) /\ StillIn(c) \in Seq(Unit)
         /\ Len(Received(c)) \in Nat /\ Len(Received(c)) <= BufSize
         /\ Len(clients[c].rbuf) <= Len(Received(c))
         /\ Len(Received(c)) + Len(StillIn(c)) = Len(clients[c].rbuf) + Len(sock[c].in)
         /\ \A k \in 1 .. Len(Received(c)) :
              Received(c)[k] = IF k <= Len(clients[c].rbuf) THEN clients[c].rbuf[k]
                               ELSE sock[c].in[k - Len(clients[c].rbuf)]
         /\ \A k \in 1 .. Len(StillIn(c)) :
              StillIn(c)[k] = sock[c].in[k + Len(Received(c)) - Len(clients[c].rbuf)]
<1> DEFINE rb == clients[c].rbuf
<1> DEFINE s == sock[c].in
<1> DEFINE room == BufSize - Len(rb)
<1> DEFINE u == IF room < Len(s) THEN room ELSE Len(s)
<1>1. rb \in Seq(Unit) /\ s \in Seq(Unit) /\ Len(rb) \in Nat /\ Len(s) \in Nat
  BY LenProperties DEF IInv, Types, Client, Sock
<1>2. Len(rb) <= BufSize - ReqLen /\ BufSize \in Nat /\ ReqLen \in Nat
  BY AppServerAssumption DEF IInv, Rooms
<1>3. u \in Nat /\ u <= Len(s) /\ Len(rb) + u <= BufSize
  <2> HIDE DEF rb, s
  <2>1. room \in Nat /\ Len(rb) + room = BufSize
    BY <1>1, <1>2
  <2> QED
    BY <1>1, <1>2, <2>1
<1>4. Received(c) = rb \o SubSeq(s, 1, u)
  BY DEF Received, Upto
<1> HIDE DEF u, room
<1>5. /\ SubSeq(s, 1, u) \in Seq(Unit) /\ Len(SubSeq(s, 1, u)) = u
      /\ \A k \in 1 .. u : SubSeq(s, 1, u)[k] = s[k]
  BY <1>1, <1>3
<1> DEFINE p == SubSeq(s, 1, u)
<1> HIDE DEF p, rb, s
<1>6. /\ rb \o p \in Seq(Unit) /\ Len(rb \o p) = Len(rb) + u
      /\ \A k \in 1 .. Len(rb) + u : (rb \o p)[k] = IF k <= Len(rb) THEN rb[k] ELSE p[k - Len(rb)]
  BY <1>1, <1>3, <1>5 DEF p
<1>7. \A k \in 1 .. Len(rb) + u : ~ (k <= Len(rb)) => p[k - Len(rb)] = s[k - Len(rb)]
  BY <1>1, <1>3, <1>5 DEF p
<1>8. Len(Received(c)) = Len(rb) + u /\ Len(Received(c)) - Len(rb) + 1 = u + 1
  BY <1>1, <1>3, <1>4, <1>6 DEF p
<1>9. StillIn(c) = SubSeq(s, u + 1, Len(s))
  BY <1>8 DEF StillIn, rb, s
<1>10. /\ StillIn(c) \in Seq(Unit) /\ Len(StillIn(c)) = Len(s) - u
       /\ \A k \in 1 .. Len(s) - u : StillIn(c)[k] = s[k + u]
  BY <1>1, <1>3, <1>9
<1>11. \A k \in 1 .. Len(s) - u : k + Len(Received(c)) - Len(rb) = k + u
  BY <1>1, <1>3, <1>8
<1>12. /\ Received(c) \in Seq(Unit) /\ StillIn(c) \in Seq(Unit)
       /\ Len(Received(c)) \in Nat /\ Len(Received(c)) <= BufSize
       /\ Len(rb) <= Len(Received(c))
       /\ Len(Received(c)) + Len(StillIn(c)) = Len(rb) + Len(s)
  <2>1. Received(c) \in Seq(Unit) /\ StillIn(c) \in Seq(Unit)
    BY <1>4, <1>6, <1>10 DEF p
  <2> QED
    BY <2>1, <1>1, <1>3, <1>8, <1>10
<1>13. \A k \in 1 .. Len(Received(c)) :
         Received(c)[k] = IF k <= Len(rb) THEN rb[k] ELSE s[k - Len(rb)]
  BY <1>4, <1>6, <1>7, <1>8 DEF p
<1>14. \A k \in 1 .. Len(StillIn(c)) : StillIn(c)[k] = s[k + Len(Received(c)) - Len(rb)]
  BY <1>10, <1>11
<1> QED
  BY <1>12, <1>13, <1>14 DEF rb, s

\* What a request leaves in the buffers of its client.
LEMMA RequestUnits ==
  ASSUME IInv, NEW c \in DOMAIN clients, Complete(Received(c)), HasRoom(clients[c])
  PROVE  LET buf == Received(c)
             rest == SubSeq(buf, ReqLen + 1, Len(buf))
             ans == Answer(buf[1][1], buf[1][2])
             out == clients[c].wbuf \o ans
         IN  /\ rest \in Seq(Unit) /\ Len(rest) = Len(buf) - ReqLen
             /\ Len(rest) <= BufSize - ReqLen
             /\ \A k \in 1 .. Len(rest) : rest[k] = buf[k + ReqLen]
             /\ ans \in Seq(Unit) /\ Len(ans) = AnsLen
             /\ out \in Seq(Unit) /\ Len(out) = Len(clients[c].wbuf) + AnsLen
             /\ Len(out) <= BufSize /\ out # << >>
<1> DEFINE buf == Received(c)
<1> DEFINE wb == clients[c].wbuf
<1> DEFINE ans == Answer(buf[1][1], buf[1][2])
<1>1. /\ buf \in Seq(Unit) /\ Len(buf) \in Nat /\ Len(buf) <= BufSize /\ Len(buf) >= ReqLen
      /\ wb \in Seq(Unit) /\ Len(wb) \in Nat /\ Len(wb) + AnsLen <= BufSize
  BY ReceivedUnits, LenProperties DEF IInv, Types, Client, Complete, HasRoom
<1>2. ReqLen \in Nat \ {0} /\ AnsLen \in Nat \ {0} /\ BufSize \in Nat
  BY AppServerAssumption
<1> HIDE DEF buf, wb
<1>3. buf[1] \in Unit
  BY <1>1, <1>2
<1>4. /\ ans \in Seq(Unit) /\ Len(ans) = AnsLen
  <2>1. \A k \in 1 .. AnsLen : <<buf[1][1], buf[1][2], k>> \in Unit
    BY <1>2, <1>3 DEF Unit
  <2> QED
    BY <2>1, <1>2 DEF Answer
<1> HIDE DEF ans
<1>5. /\ wb \o ans \in Seq(Unit) /\ Len(wb \o ans) = Len(wb) + AnsLen
  BY <1>1, <1>4
<1>6. Len(wb \o ans) # 0
  BY <1>1, <1>2, <1>5
<1>7. wb \o ans # << >>
  BY <1>6
<1>8. LET rest == SubSeq(buf, ReqLen + 1, Len(buf))
      IN  /\ rest \in Seq(Unit) /\ Len(rest) = Len(buf) - ReqLen
          /\ \A k \in 1 .. Len(rest) : rest[k] = buf[k + ReqLen]
  BY <1>1, <1>2
<1> QED
  BY <1>1, <1>2, <1>4, <1>5, <1>7, <1>8 DEF buf, wb, ans

\* A request is executed and its answer waits in buf_write.
LEMMA ReadRequestInv ==
  ASSUME IInv, NEW c \in DOMAIN clients, ReadRequest(c)
  PROVE  IInv'
<1> DEFINE n == clients[c].fd
<1> DEFINE buf == Received(c)
<1> DEFINE rest == SubSeq(buf, ReqLen + 1, Len(buf))
<1> DEFINE out == clients[c].wbuf \o Answer(buf[1][1], buf[1][2])
<1>1. /\ ReadCalled(n) /\ pc = "reads" /\ Complete(Received(c)) /\ HasRoom(clients[c])
      /\ clients' = [clients EXCEPT ![c].rbuf = rest, ![c].wbuf = out]
      /\ sock' = [sock EXCEPT ![c].in = StillIn(c)]
      /\ ev' = RegisterWrite(ev, n) /\ i' = i + 1
      /\ UNCHANGED <<pc, sel, files, backlog>>
  BY DEF ReadRequest, ReadCalled
<1>2. n \in Fd /\ n \in ev.rfds /\ i \in DOMAIN ev.reads /\ ev.reads[i] = n
  BY <1>1, CalledFd DEF ReadCalled
<1>3. /\ c \in Live /\ c \in Conn /\ clients[c] \in Client /\ sock[c] \in Sock
      /\ files[n] = c /\ n # -1
      /\ \A d \in Live : clients[d].fd \in Fd /\ d \in Conn /\ (clients[d].fd = n => d = c)
  BY <1>2, LiveClient
<1>4. /\ rest \in Seq(Unit) /\ Len(rest) <= BufSize - ReqLen
      /\ out \in Seq(Unit) /\ Len(out) <= BufSize /\ out # << >>
      /\ StillIn(c) \in Seq(Unit)
  BY <1>1, RequestUnits, ReceivedUnits
<1> HIDE DEF n, buf, rest, out
<1>5. /\ InStep(ev') /\ ev'.reads = ev.reads /\ ev'.writes = Append(ev.writes, n)
      /\ ev'.rfds = ev.rfds /\ ev'.wfds = ev.wfds \cup {n}
  BY <1>1, <1>2, RegisterWriteEffect DEF IInv
<1>6. /\ DOMAIN clients' = DOMAIN clients
      /\ \A d \in DOMAIN clients : d # c => clients'[d] = clients[d]
      /\ clients'[c] = [clients[c] EXCEPT !.rbuf = rest, !.wbuf = out]
  BY <1>1 DEF IInv, Types
<1>7. clients'[c].rbuf = rest /\ clients'[c].wbuf = out /\ clients'[c].fd = n /\ clients'[c] \in Client
  BY <1>3, <1>4, <1>6 DEF Client, n
<1>8. /\ Live' = Live /\ \A d \in DOMAIN clients : clients'[d].fd = clients[d].fd
      /\ clients' \in [DOMAIN clients' -> Client]
  <2>1. \A d \in DOMAIN clients : clients'[d].fd = clients[d].fd
    BY <1>6, <1>7 DEF n
  <2>2. clients' = [d \in DOMAIN clients |-> clients'[d]]
    BY <1>1 DEF IInv, Types
  <2>3. \A d \in DOMAIN clients : clients'[d] \in Client
    BY <1>6, <1>7 DEF IInv, Types
  <2> QED
    BY <2>1, <2>2, <2>3, <1>6 DEF Live
<1>9. /\ sock' \in [Conn -> Sock]
      /\ \A d \in Conn : d # c => sock'[d] = sock[d]
      /\ sock'[c].st = sock[c].st
  <2>1. sock \in [Conn -> Sock]
    BY DEF IInv, Types
  <2> QED
    BY <2>1, <1>1, <1>3, <1>4 DEF Sock
<1>10. Types'
  BY <1>1, <1>6, <1>8, <1>9 DEF IInv, Types
<1>11. Rooms'
  BY <1>4, <1>6, <1>7 DEF IInv, Rooms
<1>12. Listening'
  BY <1>1 DEF IInv, Listening
<1>13. ClientsMatchFiles'
  BY <1>1, <1>5, <1>8 DEF IInv, ClientsMatchFiles, Live
<1>14. WriteArmed'
  <2>1. ev.wfds = FdsOf(ev.writes) /\ ev'.wfds = FdsOf(ev'.writes)
    BY <1>5, EventTypes DEF IInv
  <2>2. \A d \in Live : clients'[d].wbuf # << >> => clients'[d].fd \in ev'.wfds
    BY <1>5, <1>6, <1>7, <1>8 DEF IInv, WriteArmed, Live
  <2>3. \A d \in Live : clients'[d].fd \in ev'.wfds => clients'[d].wbuf # << >>
    <3> SUFFICES ASSUME NEW d \in Live, clients'[d].fd \in ev'.wfds, d # c
                 PROVE  clients'[d].wbuf # << >>
      BY <1>4, <1>7
    <3>1. clients'[d] = clients[d] /\ clients[d].fd # n
      BY <1>3, <1>6 DEF Live
    <3> QED
      BY <2>1, <3>1, <1>5 DEF IInv, WriteArmed
  <2>4. \A m \in ev'.wfds : \E d \in Live : clients'[d].fd = m
    <3> SUFFICES ASSUME NEW m \in ev'.wfds PROVE \E d \in Live : clients'[d].fd = m
      OBVIOUS
    <3>1. CASE m = n
      BY <3>1, <1>3, <1>7
    <3>2. CASE m # n
      <4>1. PICK d \in Live : clients[d].fd = m
        BY <2>1, <3>2, <1>5 DEF IInv, WriteArmed
      <4> QED
        BY <4>1, <1>8 DEF Live
    <3> QED
      BY <3>1, <3>2
  <2> QED
    BY <2>1, <2>2, <2>3, <2>4, <1>8 DEF WriteArmed
<1>15. Registered'
  BY <1>1, <1>5 DEF IInv, Registered
<1>16. Queued'
  <2>1. \A d \in Conn : sock'[d].st = sock[d].st
    BY <1>9
  <2>2. \A k \in DOMAIN backlog : backlog[k] \in Conn
    BY DEF IInv, Types
  <2> QED
    BY <2>1, <2>2, <1>1, <1>6 DEF IInv, Types, Queued
<1>17. Reported'
  <2>1. SUFFICES ASSUME NEW k \in DOMAIN ev.reads, k >= i + 1, ev.reads[k] \in sel.r
                 PROVE  Readable(ev.reads[k])'
    <3>1. i + 1 # 1
      BY DEF IInv, Types
    <3> QED
      BY <3>1, <1>1, <1>5 DEF Reported
  <2>2. k >= i /\ k # i
    BY <2>1, EventTypes DEF IInv, Types
  <2>3. Readable(ev.reads[k]) /\ ev.reads[k] # n /\ ev.reads[k] \in Fd
    BY <2>1, <2>2, <1>1, <1>2, EventTypes DEF IInv, Reported, Registered
  <2>4. files[ev.reads[k]] # NoFile
    BY <2>1, <1>1, EventTypes DEF IInv, Registered
  <2>5. files[ev.reads[k]] \in Conn => files[ev.reads[k]] # c
    BY <2>3 DEF IInv, ClientsMatchFiles, n
  <2>6. files[ev.reads[k]] = "listening" \/ files[ev.reads[k]] \in Conn
    BY <2>3, <2>4 DEF IInv, Types
  <2> QED
    BY <2>3, <2>5, <2>6, <1>1, <1>5, <1>9 DEF Readable
<1> QED
  BY <1>5, <1>10, <1>11, <1>12, <1>13, <1>14, <1>15, <1>16, <1>17 DEF IInv


\* A connection is closed, its client having been dropped or not.
LEMMA SocketGone ==
  ASSUME IInv, NEW c \in Conn, NEW s \in Seq(Unit),
         sock' = [sock EXCEPT ![c].st = "gone", ![c].in = s]
  PROVE  /\ sock' \in [Conn -> Sock] /\ sock'[c].st = "gone"
         /\ \A d \in Conn : d # c => sock'[d] = sock[d]
<1>1. sock \in [Conn -> Sock]
  BY DEF IInv, Types
<1>2. sock'[c] = [sock[c] EXCEPT !.st = "gone", !.in = s]
  BY <1>1
<1>3. sock'[c] \in Sock /\ sock'[c].st = "gone"
  <2>1. sock[c] \in Sock
    BY <1>1
  <2>2. ASSUME NEW r \in Sock PROVE [r EXCEPT !.st = "gone", !.in = s] \in Sock
    BY DEF Sock
  <2>3. ASSUME NEW r \in Sock PROVE [r EXCEPT !.st = "gone", !.in = s].st = "gone"
    BY DEF Sock
  <2> QED
    BY <1>2, <2>1, <2>2, <2>3
<1>4. \A d \in Conn : d # c => sock'[d] = sock[d]
  BY <1>1
<1>5. sock' = [d \in Conn |-> sock'[d]]
  BY <1>1
<1>6. \A d \in Conn : sock'[d] \in Sock
  BY <1>1, <1>3, <1>4
<1> QED
  BY <1>3, <1>4, <1>5, <1>6

LEMMA ReadDropsClientInv ==
  ASSUME IInv, NEW c \in DOMAIN clients, ReadDropsClient(c)
  PROVE  IInv'
<1>1. /\ ReadCalled(clients[c].fd) /\ RemoveClient(c) /\ c \in Conn
      /\ sock' = [sock EXCEPT ![c].st = "gone", ![c].in = << >>]
  BY DEF ReadDropsClient, IInv, Types
<1>2. << >> \in Seq(Unit)
  OBVIOUS
<1> QED
  BY <1>1, <1>2, SocketGone, RemoveClientInv

\* read() does not sleep: the peer of a readable connection without data has
\* closed its end.
LEMMA ReadFindsEnd ==
  ASSUME IInv, NEW c \in DOMAIN clients, ReadCalled(clients[c].fd), sock[c].in = << >>
  PROVE  sock[c].peer = "closed"
<1> DEFINE n == clients[c].fd
<1>1. n \in Fd /\ n \in sel.r /\ i \in DOMAIN ev.reads /\ ev.reads[i] = n /\ pc = "reads"
  BY CalledFd DEF ReadCalled
<1>2. i >= i
  BY DEF IInv, Types
<1>3. Readable(n)
  BY <1>1, <1>2 DEF IInv, Reported
<1>4. files[n] = c /\ c \in Conn
  BY <1>1, LiveClient
<1> QED
  BY <1>3, <1>4, ConnAssumption DEF Readable

LEMMA ReadNothingInv ==
  ASSUME IInv, NEW c \in DOMAIN clients, ReadNothing(c)
  PROVE  IInv'
<1>1. /\ ReadCalled(clients[c].fd) /\ sock[c].in = << >> /\ c \in Conn
      /\ sock \in [Conn -> Sock]
  BY DEF ReadNothing, IInv, Types
<1>2. RemoveClient(c) /\ sock' = [sock EXCEPT ![c].st = "gone"]
  BY <1>1, ReadFindsEnd DEF ReadNothing
<1>3. /\ sock' \in [Conn -> Sock] /\ sock'[c].st = "gone"
      /\ \A d \in Conn : d # c => sock'[d] = sock[d]
  <2>1. sock'[c] = [sock[c] EXCEPT !.st = "gone"]
    BY <1>1, <1>2
  <2>2. sock'[c] \in Sock /\ sock'[c].st = "gone"
    BY <2>1, <1>1 DEF Sock
  <2>3. \A d \in Conn : d # c => sock'[d] = sock[d]
    BY <1>1, <1>2
  <2>4. sock' = [d \in Conn |-> sock'[d]] /\ \A d \in Conn : sock'[d] \in Sock
    BY <1>1, <1>2, <2>2, <2>3
  <2> QED
    BY <2>2, <2>3, <2>4
<1> QED
  BY <1>1, <1>2, <1>3, RemoveClientInv

\* What a write() of n units leaves of buf_write.
LEMMA AfterWriteUnits ==
  ASSUME NEW buf \in Seq(Unit), NEW n \in Nat, n <= Len(buf)
  PROVE  /\ AfterWrite(buf, n) \in Seq(Unit) /\ Len(AfterWrite(buf, n)) = Len(buf) - n
         /\ Len(buf) \in Nat
<1>1. Len(buf) \in Nat /\ \A k \in 1 .. Len(buf) : buf[k] \in Unit
  BY LenProperties
<1>2. \A k \in 1 .. Len(buf) - n : (IF k <= n THEN buf[k + n] ELSE buf[k]) \in Unit
  BY <1>1
<1>3. Len(buf) - n \in Nat
  BY <1>1
<1> QED
  BY <1>1, <1>2, <1>3 DEF AfterWrite

\* Part of buf_write, or all of it, is written; the registration goes with the
\* last unit.
LEMMA WriteAnswerInv ==
  ASSUME IInv, NEW c \in DOMAIN clients, NEW x \in 1 .. BufSize, WriteAnswer(c, x)
  PROVE  IInv'
<1> DEFINE n == clients[c].fd
<1> DEFINE left == AfterWrite(clients[c].wbuf, x)
<1> DEFINE part == SubSeq(clients[c].wbuf, 1, x)
<1>1. /\ WriteCalled(n) /\ pc = "writes" /\ x <= Len(clients[c].wbuf)
      /\ clients' = [clients EXCEPT ![c].wbuf = left]
      /\ sock' = [sock EXCEPT ![c].out = IF sock[c].peer = "open" THEN sock[c].out \o part ELSE sock[c].out]
      /\ ev' = IF left = << >> THEN UnregisterWrite(ev, n) ELSE ev
      /\ i' = IF left = << >> THEN i ELSE i + 1
      /\ UNCHANGED <<pc, sel, files, backlog>>
  <2>1. c \in Conn /\ sock \in [Conn -> Sock]
    BY DEF IInv, Types
  <2> QED
    BY <2>1 DEF WriteAnswer, WriteCalled
<1>2. n \in Fd /\ n \in ev.wfds
  BY <1>1, CalledFd
<1>3. /\ c \in Live /\ c \in Conn /\ clients[c] \in Client /\ sock[c] \in Sock
      /\ files[n] = c /\ n # -1
      /\ \A d \in Live : clients[d].fd \in Fd /\ d \in Conn /\ (clients[d].fd = n => d = c)
  BY <1>2, LiveClient
<1>4. /\ left \in Seq(Unit) /\ Len(left) <= Len(clients[c].wbuf) /\ Len(left) \in Nat
      /\ Len(clients[c].wbuf) \in Nat /\ Len(clients[c].wbuf) <= BufSize
  <2>1. clients[c].wbuf \in Seq(Unit) /\ x \in Nat /\ Len(clients[c].wbuf) <= BufSize
    BY <1>3 DEF Client, IInv, Rooms
  <2> QED
    BY <2>1, <1>1, AfterWriteUnits
<1>5. part \in Seq(Unit)
  <2>1. clients[c].wbuf \in Seq(Unit) /\ x \in Nat /\ Len(clients[c].wbuf) \in Nat
    BY <1>3, <1>4 DEF Client
  <2> QED
    BY <2>1, <1>1
<1> HIDE DEF n, left, part
<1>6. /\ InStep(ev') /\ ev'.reads = ev.reads /\ ev'.rfds = ev.rfds
      /\ ev'.wfds = IF left = << >> THEN ev.wfds \ {n} ELSE ev.wfds
  BY <1>1, UnregisterWriteEffect DEF IInv
<1>7. /\ DOMAIN clients' = DOMAIN clients
      /\ \A d \in DOMAIN clients : d # c => clients'[d] = clients[d]
      /\ clients'[c] = [clients[c] EXCEPT !.wbuf = left]
  BY <1>1 DEF IInv, Types
<1>8. /\ clients'[c].rbuf = clients[c].rbuf /\ clients'[c].wbuf = left
      /\ clients'[c].fd = n /\ clients'[c] \in Client
  BY <1>3, <1>4, <1>7 DEF Client, n
<1>9. /\ Live' = Live /\ \A d \in DOMAIN clients : clients'[d].fd = clients[d].fd
      /\ clients' \in [DOMAIN clients' -> Client]
  <2>1. \A d \in DOMAIN clients : clients'[d].fd = clients[d].fd
    BY <1>7, <1>8 DEF n
  <2>2. clients' = [d \in DOMAIN clients |-> clients'[d]]
    BY <1>1 DEF IInv, Types
  <2>3. \A d \in DOMAIN clients : clients'[d] \in Client
    BY <1>7, <1>8 DEF IInv, Types
  <2> QED
    BY <2>1, <2>2, <2>3, <1>7 DEF Live
<1>10. /\ sock' \in [Conn -> Sock]
       /\ \A d \in Conn : sock'[d].st = sock[d].st
  <2>1. sock \in [Conn -> Sock]
    BY DEF IInv, Types
  <2>2. (IF sock[c].peer = "open" THEN sock[c].out \o part ELSE sock[c].out) \in Seq(Unit)
    BY <2>1, <1>3, <1>5 DEF Sock
  <2> QED
    BY <2>1, <2>2, <1>1, <1>3 DEF Sock
<1>11. Types'
  <2>1. i' \in Nat \ {0}
    BY <1>1 DEF IInv, Types
  <2> QED
    BY <2>1, <1>1, <1>7, <1>9, <1>10 DEF IInv, Types
<1>12. Rooms'
  <2>1. Len(left) <= BufSize
    BY <1>4, AppServerAssumption
  <2> QED
    BY <2>1, <1>7, <1>8 DEF IInv, Rooms
<1>13. Listening' /\ Reported'
  BY <1>1 DEF IInv, Listening, Reported, Readable
<1>14. ClientsMatchFiles'
  BY <1>1, <1>6, <1>9 DEF IInv, ClientsMatchFiles, Live
<1>15. WriteArmed'
  <2>1. ev.wfds = FdsOf(ev.writes) /\ ev'.wfds = FdsOf(ev'.writes)
    BY <1>6, EventTypes DEF IInv
  <2>2. \A d \in Live : d # c => clients'[d] = clients[d] /\ clients[d].fd # n
    BY <1>3, <1>7 DEF Live
  <2>3. \A d \in Live : clients'[d].wbuf # << >> => clients'[d].fd \in ev'.wfds
    BY <2>2, <1>2, <1>6, <1>8 DEF IInv, WriteArmed
  <2>4. \A d \in Live : clients'[d].fd \in ev'.wfds => clients'[d].wbuf # << >>
    BY <2>1, <2>2, <1>6, <1>8 DEF IInv, WriteArmed
  <2>5. \A m \in ev'.wfds : \E d \in Live : clients'[d].fd = m
    BY <2>1, <1>6, <1>9 DEF IInv, WriteArmed, Live
  <2> QED
    BY <2>1, <2>3, <2>4, <2>5, <1>9 DEF WriteArmed
<1>16. Registered'
  <2>1. \A d \in DOMAIN clients : clients'[d].fd = clients[d].fd
    BY <1>9
  <2> QED
    BY <2>1, <1>1, <1>6, <1>7 DEF IInv, Registered
<1>17. Queued'
  <2>1. \A k \in DOMAIN backlog : backlog[k] \in Conn
    BY DEF IInv, Types
  <2> QED
    BY <2>1, <1>1, <1>7, <1>10 DEF IInv, Types, Queued
<1> QED
  BY <1>6, <1>11, <1>12, <1>13, <1>14, <1>15, <1>16, <1>17 DEF IInv


\* write() fails: the descriptor is closed and stays registered for reading, and
\* the client stays without one, which is what Registered allows for.
LEMMA WriteErrorInv ==
  ASSUME IInv, NEW c \in DOMAIN clients, WriteError(c)
  PROVE  IInv'
<1> DEFINE n == clients[c].fd
<1>1. /\ WriteCalled(n) /\ pc = "writes"
      /\ files' = [files EXCEPT ![n] = NoFile]
      /\ clients' = [clients EXCEPT ![c].fd = -1]
      /\ sock' = [sock EXCEPT ![c].st = "gone", ![c].in = << >>]
      /\ ev' = UnregisterWrite(ev, n)
      /\ UNCHANGED <<pc, i, sel, backlog>>
  BY DEF WriteError, WriteCalled
<1>2. n \in Fd
  BY <1>1, CalledFd
<1>3. /\ c \in Live /\ c \in Conn /\ clients[c] \in Client
      /\ files[n] = c /\ n # Listen
      /\ \A d \in Live : clients[d].fd \in Fd /\ d \in Conn /\ (clients[d].fd = n => d = c)
  BY <1>2, LiveClient
<1>4. /\ InStep(ev') /\ ev'.reads = ev.reads /\ ev'.rfds = ev.rfds
      /\ ev'.wfds = ev.wfds \ {n}
  BY <1>1, UnregisterWriteEffect DEF IInv
<1>5. /\ sock' \in [Conn -> Sock] /\ sock'[c].st = "gone"
      /\ \A d \in Conn : d # c => sock'[d] = sock[d]
  <2>1. << >> \in Seq(Unit)
    OBVIOUS
  <2> QED
    BY <2>1, <1>1, <1>3, SocketGone
<1> HIDE DEF n
<1>6. /\ DOMAIN clients' = DOMAIN clients
      /\ \A d \in DOMAIN clients : d # c => clients'[d] = clients[d]
      /\ clients'[c] = [clients[c] EXCEPT !.fd = -1]
  BY <1>1 DEF IInv, Types
<1>7. /\ clients'[c].rbuf = clients[c].rbuf /\ clients'[c].wbuf = clients[c].wbuf
      /\ clients'[c].fd = -1 /\ clients'[c] \in Client
  BY <1>3, <1>6 DEF Client
<1>8. Live' = Live \ {c} /\ clients' \in [DOMAIN clients' -> Client]
  <2>1. clients' = [d \in DOMAIN clients |-> clients'[d]]
    BY <1>1 DEF IInv, Types
  <2>2. \A d \in DOMAIN clients : clients'[d] \in Client
    BY <1>6, <1>7 DEF IInv, Types
  <2>3. Live' = Live \ {c}
    BY <1>6, <1>7 DEF Live
  <2> QED
    BY <2>1, <2>2, <2>3, <1>6
<1>9. /\ files' \in [Fd -> Conn \cup {NoFile, "listening"}] /\ files'[n] = NoFile
      /\ \A m \in Fd : m # n => files'[m] = files[m]
  BY <1>1, <1>2 DEF IInv, Types
<1>10. Types'
  BY <1>1, <1>5, <1>6, <1>8, <1>9 DEF IInv, Types
<1>11. Rooms'
  BY <1>6, <1>7 DEF IInv, Rooms
<1>12. Listening' /\ Reported'
  BY <1>1, <1>3, <1>9 DEF IInv, Listening, Reported, NoFile
<1>13. \A d \in Live' : d \in Live /\ d # c /\ clients'[d] = clients[d] /\ clients[d].fd # n
  BY <1>3, <1>6, <1>8 DEF Live
<1>14. ClientsMatchFiles'
  <2>1. \A d \in Live' : files'[clients'[d].fd] = d /\ clients'[d].fd \in ev'.rfds
    BY <1>3, <1>4, <1>9, <1>13 DEF IInv, ClientsMatchFiles
  <2>2. \A m \in Fd : files'[m] \in Conn => files'[m] \in Live' /\ clients'[files'[m]].fd = m
    <3> SUFFICES ASSUME NEW m \in Fd, files'[m] \in Conn
                 PROVE  files'[m] \in Live' /\ clients'[files'[m]].fd = m
      OBVIOUS
    <3>1. m # n /\ files'[m] = files[m]
      BY <1>9, ConnAssumption
    <3>2. files[m] \in Live /\ clients[files[m]].fd = m
      BY <3>1 DEF IInv, ClientsMatchFiles
    <3>3. files[m] # c
      BY <3>1, <3>2 DEF n
    <3> QED
      BY <3>1, <3>2, <3>3, <1>8, <1>13
  <2> QED
    BY <2>1, <2>2 DEF ClientsMatchFiles
<1>15. WriteArmed'
  <2>1. ev.wfds = FdsOf(ev.writes) /\ ev'.wfds = FdsOf(ev'.writes)
    BY <1>4, EventTypes DEF IInv
  <2>2. \A m \in ev'.wfds : \E d \in Live' : clients'[d].fd = m
    <3> SUFFICES ASSUME NEW m \in ev'.wfds PROVE \E d \in Live' : clients'[d].fd = m
      OBVIOUS
    <3>1. PICK d \in Live : clients[d].fd = m
      BY <2>1, <1>4 DEF IInv, WriteArmed
    <3>2. d # c
      BY <3>1, <1>4 DEF n
    <3> QED
      BY <3>1, <3>2, <1>8, <1>13
  <2> QED
    BY <2>1, <2>2, <1>4, <1>13 DEF IInv, WriteArmed
<1>16. Registered'
  BY <1>1, <1>4, <1>6, <1>7 DEF IInv, Registered
<1>17. Queued'
  <2>1. \A k \in DOMAIN backlog : backlog[k] \in Conn /\ backlog[k] # c
    BY DEF IInv, Types, Queued
  <2> QED
    BY <2>1, <1>1, <1>5, <1>6 DEF IInv, Types, Queued
<1> QED
  BY <1>4, <1>10, <1>11, <1>12, <1>14, <1>15, <1>16, <1>17 DEF IInv

--------------------------------------------------------------------------------
\* A peer sends one unit more, or closes its end.
LEMMA PeerSendsInv == ASSUME IInv, NEW c \in Conn, PeerSends(c) PROVE IInv'
<1> DEFINE n == sock[c].sent
<1> DEFINE unit == Request(c, n \div ReqLen + 1)[(n % ReqLen) + 1]
<1>1. /\ UNCHANGED <<server, backlog>> /\ sock \in [Conn -> Sock]
      /\ sock' = [sock EXCEPT ![c].sent = n + 1, ![c].in = Append(sock[c].in, unit)]
  BY DEF PeerSends, IInv, Types
<1>2. n \in Nat /\ sock[c].in \in Seq(Unit) /\ sock[c] \in Sock
  BY <1>1 DEF Sock
<1>3. unit \in Unit
  <2> HIDE DEF n
  <2>1. ReqLen \in Nat \ {0}
    BY AppServerAssumption
  <2> DEFINE q == n \div ReqLen + 1
  <2> DEFINE r == (n % ReqLen) + 1
  <2>2. ASSUME NEW a \in Nat, NEW b \in Nat \ {0}
        PROVE  a \div b + 1 \in Nat /\ (a % b) + 1 \in 1 .. b
    OBVIOUS
  <2>3. q \in Nat /\ r \in 1 .. ReqLen
    BY <2>1, <2>2, <1>2
  <2> HIDE DEF q, r
  <2>4. Request(c, q)[r] = <<c, q, r>> /\ r \in Nat
    BY <2>1, <2>3 DEF Request
  <2>5. <<c, q, r>> \in Unit
    BY <2>3, <2>4 DEF Unit
  <2> QED
    BY <2>4, <2>5 DEF q, r
<1>4. Append(sock[c].in, unit) \in Seq(Unit) /\ Append(sock[c].in, unit) # << >>
  BY <1>2, <1>3
<1> HIDE DEF n, unit
<1>5. sock'[c] = [sock[c] EXCEPT !.sent = n + 1, !.in = Append(sock[c].in, unit)]
  BY <1>1
<1>6. /\ sock'[c] \in Sock /\ sock'[c].st = sock[c].st /\ sock'[c].peer = sock[c].peer
      /\ sock'[c].in # << >>
  <2>1. n + 1 \in Nat
    BY <1>2
  <2>2. PICK x \in Nat, s \in Seq(Unit) :
          s # << >> /\ sock'[c] = [sock[c] EXCEPT !.sent = x, !.in = s]
    BY <2>1, <1>4, <1>5
  <2>3. PICK r \in Sock : r = sock[c] /\ sock'[c] = [r EXCEPT !.sent = x, !.in = s]
    BY <1>2, <2>2
  <2> QED
    BY <2>2, <2>3 DEF Sock
<1>7. \A d \in Conn : d # c => sock'[d] = sock[d]
  BY <1>1
<1>8. sock' = [d \in Conn |-> sock'[d]] /\ \A d \in Conn : sock'[d] \in Sock
  BY <1>1, <1>6, <1>7
<1> QED
  BY <1>1, <1>6, <1>7, <1>8, PeerInv

LEMMA PeerClosesInv == ASSUME IInv, NEW c \in Conn, PeerCloses(c) PROVE IInv'
<1>1. /\ UNCHANGED <<server, backlog>> /\ sock \in [Conn -> Sock]
      /\ sock' = [sock EXCEPT ![c].peer = "closed"]
  BY DEF PeerCloses, IInv, Types
<1>2. /\ sock' \in [Conn -> Sock]
      /\ \A d \in Conn : sock'[d].st = sock[d].st /\ sock'[d].in = sock[d].in
      /\ \A d \in Conn : sock[d].peer = "closed" => sock'[d].peer = "closed"
  BY <1>1 DEF Sock
<1> QED
  BY <1>1, <1>2, PeerInv

\* Each step of the server keeps the invariant, whatever its surroundings are.
LEMMA ServerStepInv == IInv /\ ServerStep => IInv'
<1> SUFFICES ASSUME IInv, ServerStep PROVE IInv'
  OBVIOUS
<1>1. CASE SelectReturns
  BY <1>1, SelectReturnsInv
<1>2. CASE LoopReturns
  BY <1>2, ExitsInv DEF LoopReturns
<1>3. CASE EndOfWalk \/ PassEntry
  BY <1>3, WalkInv
<1>4. CASE Accept
  BY <1>4, AcceptInv
<1>5. CASE AcceptFails
  BY <1>5, AcceptFailsInv
<1>6. CASE AcceptDrops
  BY <1>6, AcceptDropsInv
<1>7. ASSUME NEW c \in DOMAIN clients, ReadRequest(c) PROVE IInv'
  BY <1>7, ReadRequestInv
<1>8. ASSUME NEW c \in DOMAIN clients, ReadDropsClient(c) PROVE IInv'
  BY <1>8, ReadDropsClientInv
<1>9. ASSUME NEW c \in DOMAIN clients, ReadNothing(c) PROVE IInv'
  BY <1>9, ReadNothingInv
<1>10. ASSUME NEW c \in DOMAIN clients, WriteError(c) PROVE IInv'
  BY <1>10, WriteErrorInv
<1>11. ASSUME NEW c \in DOMAIN clients, NEW n \in 1 .. BufSize, WriteAnswer(c, n) PROVE IInv'
  BY <1>11, WriteAnswerInv
<1> QED
  BY <1>1, <1>2, <1>3, <1>4, <1>5, <1>6, <1>7, <1>8, <1>9, <1>10, <1>11 DEF ServerStep

LEMMA StepInv == IInv /\ [Next]_vars => IInv'
<1> SUFFICES ASSUME IInv, [Next]_vars PROVE IInv'
  OBVIOUS
<1>1. CASE ServerStep
  BY <1>1, ServerStepInv
<1>2. CASE PeerStep
  BY <1>2, PeerConnectsInv, PeerSendsInv, PeerClosesInv DEF PeerStep
<1>3. CASE UNCHANGED vars
  <2>1. /\ UNCHANGED <<server, backlog>> /\ sock' = sock /\ sock \in [Conn -> Sock]
    BY <1>3 DEF vars, server, IInv, Types
  <2> QED
    BY <2>1, PeerInv
<1> QED
  BY <1>1, <1>2, <1>3 DEF Next


--------------------------------------------------------------------------------
(***************************************************************************)
(* What follows.                                                           *)
(***************************************************************************)
\* The bookkeeping of the server is in step, whatever fails.
LEMMA InvInStep == IInv => TypeOK /\ ClientsMatchFiles /\ WriteArmed /\ NeverBlocks
<1> SUFFICES ASSUME IInv PROVE TypeOK /\ NeverBlocks /\ ClientsMatchFiles /\ WriteArmed
  OBVIOUS
<1>1. pc \in {"select", "reads", "writes", "blocked", "returned"} /\ NeverBlocks
  BY DEF IInv, Types, NeverBlocks
<1>2. ev.reads \in Seq(Fd) /\ ev.writes \in Seq(Fd) /\ ev.loop = 1
  BY EventTypes DEF IInv, InStep
<1>3. ASSUME NEW c \in DOMAIN clients
      PROVE  /\ clients[c].fd \in Fd \cup {-1}
             /\ Len(clients[c].rbuf) <= BufSize /\ Len(clients[c].wbuf) <= BufSize
  <2>1. clients[c].fd \in Fd \cup {-1} /\ clients[c].rbuf \in Seq(Unit)
    BY DEF IInv, Types, Client
  <2>2. Len(clients[c].rbuf) <= BufSize - ReqLen /\ Len(clients[c].wbuf) <= BufSize
    BY DEF IInv, Rooms
  <2>3. Len(clients[c].rbuf) \in Nat /\ BufSize \in Nat /\ ReqLen \in Nat
    BY <2>1, AppServerAssumption, LenProperties
  <2> QED
    BY <2>1, <2>2, <2>3
<1>4. TypeOK
  BY <1>1, <1>2, <1>3 DEF IInv, Types, TypeOK
<1> QED
  BY <1>1, <1>4 DEF IInv

\* A callback finds its client, and room in its buffer.
LEMMA InvPrepared == IInv => CallbacksPrepared
<1> SUFFICES ASSUME IInv PROVE CallbackFindsClient /\ RoomToRead
  BY DEF CallbacksPrepared
<1>1. ASSUME NEW n \in Fd, ReadCalled(n), n # Listen PROVE \E c \in Live : clients[c].fd = n
  <2>1. n \in ev.rfds /\ pc = "reads"
    BY <1>1, CalledFd DEF ReadCalled
  <2>2. files[n] # NoFile /\ files[n] # "listening"
    BY <1>1, <2>1 DEF IInv, Registered, Listening
  <2>3. files[n] \in Conn
    BY <2>2 DEF IInv, Types
  <2> QED
    BY <2>3 DEF IInv, ClientsMatchFiles
<1>2. ASSUME NEW n \in Fd, WriteCalled(n) PROVE \E c \in Live : clients[c].fd = n
  BY <1>2, CalledFd, WritesAreClients
<1>3. ASSUME NEW c \in Live PROVE Len(clients[c].rbuf) < BufSize
  <2>1. Len(clients[c].rbuf) <= BufSize - ReqLen /\ clients[c].rbuf \in Seq(Unit)
    BY DEF IInv, Rooms, Types, Client, Live
  <2>2. Len(clients[c].rbuf) \in Nat /\ BufSize \in Nat /\ ReqLen \in Nat \ {0}
    BY <2>1, AppServerAssumption, LenProperties
  <2> QED
    BY <2>1, <2>2
<1> QED
  BY <1>1, <1>2, <1>3 DEF CallbackFindsClient, RoomToRead

\* The loop returns: nothing is registered, or a descriptor was closed behind the
\* back of the Event.
LEMMA LoopReturnsWhy ==
  ASSUME IInv, LoopReturns
  PROVE  (\E c \in DOMAIN clients : clients[c].fd = -1) \/ Listen \notin ev.rfds
<1>1. CASE ~ Continues(ev)
  <2>1. ev.loop > 0
    BY DEF IInv, InStep
  <2>2. ev.fdmax = -1 /\ IoMatch(ev) /\ ev.rfds \subseteq Fd /\ ev.wfds \subseteq Fd
    BY <1>1, <2>1, EventTypes DEF Continues, IInv, InStep
  <2>3. \A n \in ev.rfds \cup ev.wfds : n <= -1
    BY <2>2, MaxFdLargest, EventTypes DEF IoMatch, IInv
  <2>4. \A n \in ev.rfds : FALSE
    BY <2>2, <2>3, FdNat
  <2> QED
    BY <2>4
<1>2. CASE ClosedFds # {}
  <2>1. PICK n \in ev.rfds \cup ev.wfds : files[n] = NoFile
    BY <1>2 DEF ClosedFds
  <2>2. n \notin ev.wfds
    BY <2>1, WritesAreClients, ConnAssumption DEF IInv, Types, Live
  <2> QED
    BY <2>1, <2>2 DEF IInv, Registered
<1> QED
  BY <1>1, <1>2 DEF LoopReturns

\* The other steps of the server do not end it, and none is left when it has.
LEMMA ReturnsOnce ==
  ASSUME IInv, ServerStep
  PROVE  pc # "returned" /\ (pc' = "returned" => LoopReturns)
<1>1. ASSUME NEW c \in DOMAIN clients, ReadNothing(c) PROVE pc' = pc /\ pc = "reads"
  BY <1>1, ReadFindsEnd DEF ReadNothing, RemoveClient, ReadCalled
<1>2. Accept => pc' = pc /\ pc = "reads"
  BY AcceptReady DEF Accept, ReadCalled
<1>3. \A c \in DOMAIN clients : ReadRequest(c) \/ ReadDropsClient(c) => pc' = pc /\ pc = "reads"
  BY DEF ReadRequest, ReadDropsClient, RemoveClient, ReadCalled
<1>4. \A c \in DOMAIN clients :
        WriteError(c) \/ (\E n \in 1 .. BufSize : WriteAnswer(c, n)) => pc' = pc /\ pc = "writes"
  BY DEF WriteError, WriteAnswer, WriteCalled
<1>5. AcceptFails \/ AcceptDrops => pc' = pc /\ pc = "reads"
  BY DEF AcceptFails, AcceptDrops, ReadCalled
<1>6. SelectReturns \/ EndOfWalk \/ PassEntry => pc # "returned" /\ pc' # "returned"
  BY DEF SelectReturns, EndOfWalk, PassEntry
<1>7. LoopReturns => pc = "select"
  BY DEF LoopReturns
<1> QED
  BY <1>1, <1>2, <1>3, <1>4, <1>5, <1>6, <1>7 DEF ServerStep

\* appserver_loop returns only after accept() or write() has failed.
LEMMA ReturnsOnFault == IInv /\ LoopEndsOnlyOnFault /\ [Next]_vars => LoopEndsOnlyOnFault'
<1> SUFFICES ASSUME IInv, LoopEndsOnlyOnFault, [Next]_vars, pc' = "returned"
             PROVE  ((\E c \in DOMAIN clients : clients[c].fd = -1) \/ Listen \notin ev.rfds)'
  BY DEF LoopEndsOnlyOnFault
<1>1. CASE ServerStep
  <2>1. LoopReturns /\ UNCHANGED <<clients, ev>>
    BY <1>1, ReturnsOnce DEF LoopReturns, Exits
  <2> QED
    BY <2>1, LoopReturnsWhy
<1>2. CASE PeerStep \/ UNCHANGED vars
  <2>1. UNCHANGED <<pc, clients, ev>>
    BY <1>2 DEF PeerStep, PeerConnects, PeerSends, PeerCloses, server, vars
  <2> QED
    BY <2>1 DEF LoopEndsOnlyOnFault
<1> QED
  BY <1>1, <1>2 DEF Next

--------------------------------------------------------------------------------
\* The inductive invariant holds of the server in every surroundings its peers
\* make.
THEOREM InvAlways == Spec => []IInv
<1> QED
  BY InitInv, StepInv, PTL DEF Spec

\* Buffers stay in bounds; clients, descriptors and registrations agree; every
\* answer that waits is registered for writing; no callback sleeps: whatever
\* accept(), malloc() and write() do.
THEOREM ServerStaysInStep == Spec => []StaysInStep
<1>1. IInv => StaysInStep
  BY InvInStep DEF StaysInStep
<1> QED
  BY <1>1, InvAlways, PTL

\* The bounds of the buffers and the types of the fields of the server.
THEOREM ServerTypes == Spec => []TypeOK
<1> QED
  BY InvAlways, InvInStep, PTL

\* A descriptor that is closed and given out again never connects one client to
\* the stream of another.
THEOREM ServerClientsMatchFiles == Spec => []ClientsMatchFiles
<1> QED
  BY InvAlways, InvInStep, PTL

\* select() watches a client for writing exactly while an answer waits.
THEOREM ServerWriteArmed == Spec => []WriteArmed
<1> QED
  BY InvAlways, InvInStep, PTL

\* What select() said is still true when the callback runs, so that read() and
\* accept() do not put the server to sleep.
THEOREM ServerNeverBlocks == Spec => []NeverBlocks
<1> QED
  BY InvAlways, InvInStep, PTL

\* _appserver_read and _appserver_write find the client of their descriptor, and
\* the assertion of _appserver_read on the room in its buffer holds.
THEOREM ServerCallbacksPrepared == Spec => []CallbacksPrepared
<1> QED
  BY InvAlways, InvPrepared, PTL

\* No peer makes appserver_loop return.
THEOREM ServerLoopEndsOnlyOnFault == Spec => []LoopEndsOnlyOnFault
<1>1. Init => LoopEndsOnlyOnFault
  BY DEF Init, LoopEndsOnlyOnFault
<1> QED
  BY <1>1, InvAlways, ReturnsOnFault, PTL DEF Spec


--------------------------------------------------------------------------------
(***************************************************************************)
(* The streams.  Both are counted in units from the first one on.          *)
(***************************************************************************)
LEMMA DivMod ==
  ASSUME NEW b \in Nat \ {0}, NEW d \in Nat, NEW r \in 0 .. b - 1
  PROVE  (d * b + r) \div b = d /\ (d * b + r) % b = r
OBVIOUS

LEMMA Multiple ==
  ASSUME NEW b \in Nat, NEW d \in Nat
  PROVE  d * b \in Nat /\ (d + 1) * b = d * b + b /\ 0 * b = 0
OBVIOUS

\* The unit at place p of the requests, and of the answers, of a connection.
ReqUnit(c, p) == <<c, (p - 1) \div ReqLen + 1, ((p - 1) % ReqLen) + 1>>
AnsUnit(c, p) == <<c, (p - 1) \div AnsLen + 1, ((p - 1) % AnsLen) + 1>>

LEMMA AnswerUnits ==
  ASSUME NEW c, NEW d \in Nat, NEW k \in 1 .. AnsLen
  PROVE  Answer(c, d + 1)[k] = AnsUnit(c, d * AnsLen + k)
<1>1. AnsLen \in Nat \ {0}
  BY AppServerAssumption
<1>2. k - 1 \in 0 .. AnsLen - 1 /\ d * AnsLen + k - 1 = d * AnsLen + (k - 1)
  BY <1>1, Multiple
<1>3. (d * AnsLen + k - 1) \div AnsLen = d /\ (d * AnsLen + k - 1) % AnsLen = k - 1
  BY <1>1, <1>2, DivMod
<1>4. AnsUnit(c, d * AnsLen + k) = <<c, d + 1, k>>
  BY <1>1, <1>3 DEF AnsUnit
<1> QED
  BY <1>1, <1>4 DEF Answer

LEMMA RequestHead ==
  ASSUME NEW c, NEW d \in Nat
  PROVE  ReqUnit(c, d * ReqLen + 1) = <<c, d + 1, 1>>
<1>1. ReqLen \in Nat \ {0} /\ d * ReqLen + 1 - 1 = d * ReqLen + 0 /\ 0 \in 0 .. ReqLen - 1
  BY AppServerAssumption, Multiple
<1>2. (d * ReqLen + 1 - 1) \div ReqLen = d /\ (d * ReqLen + 1 - 1) % ReqLen = 0
  BY <1>1, DivMod
<1>3. ((d * ReqLen + 1 - 1) % ReqLen) + 1 = 1
  BY <1>2
<1> QED
  BY <1>1, <1>2, <1>3 DEF ReqUnit

\* d requests of connection c are executed and t units sent: what follows is in
\* buf_read and in the socket, the answers not yet written are in buf_write.
Served(s, c, rb, wb, d, t) ==
  /\ d * ReqLen + Len(rb) + Len(s.in) = t
  /\ \A k \in 1 .. Len(rb) : rb[k] = ReqUnit(c, d * ReqLen + k)
  /\ \A k \in 1 .. Len(s.in) : s.in[k] = ReqUnit(c, d * ReqLen + Len(rb) + k)
  /\ s.peer = "open" => Len(s.out) + Len(wb) = d * AnsLen
  /\ \A k \in 1 .. Len(wb) : wb[k] = AnsUnit(c, d * AnsLen - Len(wb) + k)

StreamOf(c, t) ==
  /\ \A k \in 1 .. Len(sock[c].out) : sock[c].out[k] = AnsUnit(c, k)
  /\ sock[c].st = "none" => sock[c].in = << >>
  /\ sock[c].st \in {"none", "waiting"} => Served(sock[c], c, << >>, << >>, 0, t)
  /\ c \in Live /\ pc # "returned" =>
       /\ sock[c].st = "accepted"
       /\ \E d \in Nat : Served(sock[c], c, clients[c].rbuf, clients[c].wbuf, d, t)

\* A step that does not touch the connection, and one that closes it.
LEMMA StreamAlone ==
  ASSUME NEW c, NEW t, StreamOf(c, t), sock'[c] = sock[c],
         c \in Live' /\ pc' # "returned" =>
           c \in Live /\ pc # "returned" /\ clients'[c] = clients[c]
  PROVE  StreamOf(c, t)'
BY DEF StreamOf

LEMMA StreamGone ==
  ASSUME NEW c, NEW t, StreamOf(c, t), sock'[c].st = "gone", sock'[c].out = sock[c].out,
         c \in Live' => pc' = "returned"
  PROVE  StreamOf(c, t)'
BY DEF StreamOf

\* A request is executed: its answer is the one to the request at the head of the
\* stream.
LEMMA ReadRequestStream ==
  ASSUME IInv, NEW c \in DOMAIN clients, ReadRequest(c), NEW t, StreamOf(c, t)
  PROVE  StreamOf(c, t)'
<1> DEFINE buf == Received(c)
<1> DEFINE rb == clients[c].rbuf
<1> DEFINE wb == clients[c].wbuf
<1> DEFINE rest == SubSeq(buf, ReqLen + 1, Len(buf))
<1> DEFINE ans == Answer(buf[1][1], buf[1][2])
<1>1. /\ ReadCalled(clients[c].fd) /\ Complete(buf) /\ HasRoom(clients[c])
      /\ clients' = [clients EXCEPT ![c].rbuf = rest, ![c].wbuf = wb \o ans]
      /\ sock' = [sock EXCEPT ![c].in = StillIn(c)]
  BY DEF ReadRequest
<1>2. /\ c \in Conn /\ clients[c] \in Client /\ sock[c] \in Sock /\ c \in Live
      /\ sock \in [Conn -> Sock] /\ clients \in [DOMAIN clients -> Client]
  BY <1>1, CalledFd, LiveClient DEF IInv, Types
<1>3. clients'[c].rbuf = rest /\ clients'[c].wbuf = wb \o ans
  BY <1>1, <1>2 DEF Client
<1>4. /\ sock'[c].in = StillIn(c) /\ sock'[c].out = sock[c].out
      /\ sock'[c].peer = sock[c].peer /\ sock'[c].st = sock[c].st
  BY <1>1, <1>2 DEF Sock
<1>5. sock[c].st # "none" /\ sock[c].st # "waiting"
  BY DEF IInv, Queued
<1>6. ASSUME NEW d \in Nat, Served(sock[c], c, rb, wb, d, t)
      PROVE  Served(sock'[c], c, rest, wb \o ans, d + 1, t)
  <2> DEFINE D == d * ReqLen
  <2> DEFINE A == d * AnsLen
  <2>1. /\ ReqLen \in Nat \ {0} /\ AnsLen \in Nat \ {0} /\ D \in Nat /\ A \in Nat
        /\ (d + 1) * ReqLen = D + ReqLen /\ (d + 1) * AnsLen = A + AnsLen
    BY AppServerAssumption, Multiple
  <2>2. /\ buf \in Seq(Unit) /\ Len(buf) \in Nat /\ Len(rb) <= Len(buf) /\ Len(buf) >= ReqLen
        /\ Len(buf) + Len(StillIn(c)) = Len(rb) + Len(sock[c].in)
        /\ \A k \in 1 .. Len(buf) :
              buf[k] = IF k <= Len(rb) THEN rb[k] ELSE sock[c].in[k - Len(rb)]
        /\ \A k \in 1 .. Len(StillIn(c)) : StillIn(c)[k] = sock[c].in[k + Len(buf) - Len(rb)]
    BY <1>1, ReceivedUnits DEF Complete
  <2>3. /\ rb \in Seq(Unit) /\ wb \in Seq(Unit) /\ sock[c].in \in Seq(Unit) /\ sock[c].out \in Seq(Unit)
        /\ Len(rb) \in Nat /\ Len(wb) \in Nat /\ Len(sock[c].in) \in Nat /\ Len(sock[c].out) \in Nat
        /\ Len(StillIn(c)) \in Nat
    BY <1>2, ReceivedUnits, LenProperties DEF Client, Sock
  <2>4. /\ Len(rest) = Len(buf) - ReqLen /\ \A k \in 1 .. Len(rest) : rest[k] = buf[k + ReqLen]
        /\ ans \in Seq(Unit) /\ Len(ans) = AnsLen /\ Len(wb \o ans) = Len(wb) + AnsLen
    BY <1>1, RequestUnits
  <2>5. /\ D + Len(rb) + Len(sock[c].in) = t
        /\ \A k \in 1 .. Len(rb) : rb[k] = ReqUnit(c, D + k)
        /\ \A k \in 1 .. Len(sock[c].in) : sock[c].in[k] = ReqUnit(c, D + Len(rb) + k)
        /\ sock[c].peer = "open" => Len(sock[c].out) + Len(wb) = A
        /\ \A k \in 1 .. Len(wb) : wb[k] = AnsUnit(c, A - Len(wb) + k)
    BY <1>6 DEF Served
  <2> DEFINE s == sock[c].in
  <2> DEFINE left == StillIn(c)
  <2> HIDE DEF D, A, buf, rb, wb, rest, s, left
  <2>6. \A k \in 1 .. Len(buf) : buf[k] = ReqUnit(c, D + k)
    <3> SUFFICES ASSUME NEW k \in 1 .. Len(buf) PROVE buf[k] = ReqUnit(c, D + k)
      OBVIOUS
    <3>1. CASE k <= Len(rb)
      BY <3>1, <2>2, <2>3, <2>5
    <3>2. CASE ~ (k <= Len(rb))
      <4>1. k - Len(rb) \in 1 .. Len(s) /\ D + Len(rb) + (k - Len(rb)) = D + k
        BY <3>2, <2>1, <2>2, <2>3 DEF s
      <4> QED
        BY <3>2, <4>1, <2>2, <2>5 DEF s
    <3> QED
      BY <3>1, <3>2
  <2>7. \A k \in 1 .. Len(left) : left[k] = ReqUnit(c, (D + ReqLen) + Len(rest) + k)
    <3> SUFFICES ASSUME NEW k \in 1 .. Len(left)
                 PROVE  left[k] = ReqUnit(c, (D + ReqLen) + Len(rest) + k)
      OBVIOUS
    <3>1. /\ k + Len(buf) - Len(rb) \in 1 .. Len(s)
          /\ D + Len(rb) + (k + Len(buf) - Len(rb)) = (D + ReqLen) + Len(rest) + k
      BY <2>1, <2>2, <2>3, <2>4 DEF s, left
    <3> QED
      BY <3>1, <2>2, <2>5 DEF s, left
  <2>8. \A k \in 1 .. Len(rest) : rest[k] = ReqUnit(c, (D + ReqLen) + k)
    <3> SUFFICES ASSUME NEW k \in 1 .. Len(rest) PROVE rest[k] = ReqUnit(c, (D + ReqLen) + k)
      OBVIOUS
    <3>1. k + ReqLen \in 1 .. Len(buf) /\ D + (k + ReqLen) = (D + ReqLen) + k
      BY <2>1, <2>2, <2>4
    <3> QED
      BY <3>1, <2>4, <2>6
  <2>9. \A k \in 1 .. AnsLen : ans[k] = AnsUnit(c, A + k)
    <3>1. 1 \in 1 .. Len(buf)
      BY <2>1, <2>2
    <3>2. buf[1] = <<c, d + 1, 1>>
      BY <3>1, <2>6, RequestHead DEF D
    <3>3. ans = Answer(c, d + 1)
      BY <3>2
    <3> QED
      BY <3>3, AnswerUnits DEF A
  <2> HIDE DEF ans
  <2> DEFINE both == wb \o ans
  <2>10. Len(both) = Len(wb) + AnsLen
    BY <2>4
  <2> HIDE DEF both
  <2>11. \A k \in 1 .. Len(both) : both[k] = AnsUnit(c, (A + AnsLen) - Len(both) + k)
    <3> SUFFICES ASSUME NEW k \in 1 .. Len(wb) + AnsLen
                 PROVE  both[k] = AnsUnit(c, (A + AnsLen) - (Len(wb) + AnsLen) + k)
      BY <2>10
    <3>1. (A + AnsLen) - (Len(wb) + AnsLen) + k = A - Len(wb) + k
      BY <2>1, <2>3
    <3>2. CASE k <= Len(wb)
      <4>1. both[k] = wb[k] /\ k \in 1 .. Len(wb)
        BY <3>2, <2>3, <2>4 DEF both
      <4> QED
        BY <4>1, <3>1, <2>5
    <3>3. CASE ~ (k <= Len(wb))
      <4>1. /\ both[k] = ans[k - Len(wb)] /\ k - Len(wb) \in 1 .. AnsLen
            /\ A + (k - Len(wb)) = A - Len(wb) + k
        BY <3>3, <2>1, <2>3, <2>4 DEF both
      <4> QED
        BY <4>1, <3>1, <2>9
    <3> QED
      BY <3>2, <3>3
  <2>12. /\ (D + ReqLen) + Len(rest) + Len(left) = D + Len(rb) + Len(s)
         /\ sock[c].peer = "open" => Len(sock[c].out) + Len(both) = A + AnsLen
    <3>1. /\ Len(buf) + Len(left) = Len(rb) + Len(s) /\ Len(rest) = Len(buf) - ReqLen
          /\ Len(both) = Len(wb) + AnsLen
          /\ sock[c].peer = "open" => Len(sock[c].out) + Len(wb) = A
      BY <2>2, <2>4, <2>5, <2>10 DEF s, left
    <3>2. Len(s) \in Nat /\ Len(left) \in Nat
      BY <2>3 DEF s, left
    <3>3. Len(buf) \in Nat /\ Len(rb) \in Nat /\ Len(wb) \in Nat /\ Len(sock[c].out) \in Nat
      BY <2>2, <2>3
    <3>4. (D + ReqLen) + Len(rest) + Len(left) = D + Len(rb) + Len(s)
      BY <3>1, <3>2, <3>3, <2>1
    <3>5. sock[c].peer = "open" => Len(sock[c].out) + Len(both) = A + AnsLen
      <4>1. A \in Nat /\ AnsLen \in Nat
        BY <2>1
      <4>2. ASSUME NEW o \in Nat, NEW b, NEW w \in Nat, b = w + AnsLen, o + w = A
            PROVE  o + b = A + AnsLen
        BY <4>1, <4>2
      <4> QED
        BY <4>2, <3>1, <3>3
    <3> QED
      BY <3>4, <3>5
  <2>13. Served(sock'[c], c, rest, both, d + 1, t)
    BY <2>1, <2>5, <2>7, <2>8, <2>11, <2>12, <1>4 DEF Served, s, left
  <2> QED
    BY <2>13 DEF both
<1>7. pc # "returned"
  BY <1>1 DEF ReadCalled
<1> QED
  BY <1>2, <1>3, <1>4, <1>5, <1>6, <1>7 DEF StreamOf


\* The whole of buf_write is written, there being no signal: the answers go to the
\* peer in the order in which they were made.
LEMMA WriteAnswerStream ==
  ASSUME IInv, NEW c \in DOMAIN clients, NEW x \in 1 .. BufSize, WriteAnswer(c, x),
         "signal" \notin Faults, NEW t, StreamOf(c, t)
  PROVE  StreamOf(c, t)'
<1> DEFINE wb == clients[c].wbuf
<1> DEFINE out == sock[c].out
<1>1. /\ WriteCalled(clients[c].fd) /\ x = Len(wb)
      /\ clients' = [clients EXCEPT ![c].wbuf = AfterWrite(wb, x)]
      /\ sock' = [sock EXCEPT ![c].out = IF sock[c].peer = "open" THEN @ \o SubSeq(wb, 1, x) ELSE @]
  <2>1. wb \in Seq(Unit)
    BY DEF IInv, Types, Client
  <2>2. x <= Len(wb) /\ ~ (x < Len(wb)) /\ Len(wb) \in Nat
    BY <2>1, LenProperties DEF WriteAnswer
  <2>3. x = Len(wb)
    BY <2>2
  <2> QED
    BY <2>3 DEF WriteAnswer
<1>2. /\ c \in Conn /\ clients[c] \in Client /\ sock[c] \in Sock /\ c \in Live
      /\ sock \in [Conn -> Sock] /\ clients \in [DOMAIN clients -> Client]
  BY <1>1, CalledFd, LiveClient DEF IInv, Types
<1>3. /\ wb \in Seq(Unit) /\ out \in Seq(Unit) /\ Len(wb) \in Nat /\ Len(out) \in Nat
      /\ AfterWrite(wb, x) = << >> /\ SubSeq(wb, 1, x) = wb
  <2>1. wb \in Seq(Unit) /\ out \in Seq(Unit) /\ Len(wb) \in Nat /\ Len(out) \in Nat
    BY <1>2, LenProperties DEF Client, Sock
  <2>2. AfterWrite(wb, x) \in Seq(Unit) /\ Len(AfterWrite(wb, x)) = 0
    BY <2>1, <1>1, AfterWriteUnits
  <2>3. SubSeq(wb, 1, x) = wb
    BY <2>1, <1>1
  <2> QED
    BY <2>1, <2>2, <2>3
<1>4. clients'[c].rbuf = clients[c].rbuf /\ clients'[c].wbuf = << >>
  BY <1>1, <1>2, <1>3 DEF Client
<1>5. /\ sock'[c].in = sock[c].in /\ sock'[c].peer = sock[c].peer /\ sock'[c].st = sock[c].st
      /\ sock'[c].out = IF sock[c].peer = "open" THEN out \o wb ELSE out
  BY <1>1, <1>2, <1>3 DEF Sock
<1>6. sock[c].st # "none" /\ sock[c].st # "waiting"
  BY DEF IInv, Queued
<1> HIDE DEF wb, out
<1>7. ASSUME NEW d \in Nat, Served(sock[c], c, clients[c].rbuf, wb, d, t)
      PROVE  /\ Served(sock'[c], c, clients[c].rbuf, << >>, d, t)
             /\ sock[c].peer = "open" => \A k \in 1 .. Len(wb) : wb[k] = AnsUnit(c, Len(out) + k)
  <2> DEFINE A == d * AnsLen
  <2>1. A \in Nat
    BY AppServerAssumption, Multiple
  <2>2. /\ sock[c].peer = "open" => Len(out) + Len(wb) = A
        /\ \A k \in 1 .. Len(wb) : wb[k] = AnsUnit(c, A - Len(wb) + k)
    BY <1>7 DEF Served, out
  <2> HIDE DEF A
  <2>3. sock[c].peer = "open" => \A k \in 1 .. Len(wb) : wb[k] = AnsUnit(c, Len(out) + k)
    <3> SUFFICES ASSUME sock[c].peer = "open", NEW k \in 1 .. Len(wb)
                 PROVE  wb[k] = AnsUnit(c, Len(out) + k)
      OBVIOUS
    <3>1. A - Len(wb) + k = Len(out) + k
      BY <2>1, <2>2, <1>3
    <3> QED
      BY <2>2, <3>1
  <2>4. sock'[c].peer = "open" => Len(sock'[c].out) + Len(<< >>) = A
    <3> SUFFICES ASSUME sock[c].peer = "open" PROVE Len(out \o wb) + 0 = A
      BY <1>5
    <3>1. Len(out \o wb) = Len(out) + Len(wb)
      BY <1>3
    <3> QED
      BY <3>1, <2>1, <2>2
  <2>5. \A k \in 1 .. Len(<< >>) : << >>[k] = AnsUnit(c, A - Len(<< >>) + k)
    OBVIOUS
  <2>6. Served(sock'[c], c, clients[c].rbuf, << >>, d, t)
    BY <2>4, <2>5, <1>5, <1>7 DEF Served, A
  <2> QED
    BY <2>3, <2>6
<1>8. pc # "returned"
  BY <1>1 DEF WriteCalled
<1>9. PICK d \in Nat : Served(sock[c], c, clients[c].rbuf, wb, d, t)
  BY <1>2, <1>8 DEF StreamOf, wb
<1>10. \A k \in 1 .. Len(sock'[c].out) : sock'[c].out[k] = AnsUnit(c, k)
  <2>1. \A k \in 1 .. Len(out) : out[k] = AnsUnit(c, k)
    BY DEF StreamOf, out
  <2>2. CASE sock[c].peer = "open"
    <3> SUFFICES ASSUME NEW k \in 1 .. Len(out) + Len(wb) PROVE (out \o wb)[k] = AnsUnit(c, k)
      BY <2>2, <1>3, <1>5
    <3>1. CASE k <= Len(out)
      BY <3>1, <2>1, <1>3
    <3>2. CASE ~ (k <= Len(out))
      <4>1. /\ (out \o wb)[k] = wb[k - Len(out)] /\ k - Len(out) \in 1 .. Len(wb)
            /\ Len(out) + (k - Len(out)) = k
        BY <3>2, <1>3
      <4> QED
        BY <4>1, <2>2, <1>7, <1>9
    <3> QED
      BY <3>1, <3>2
  <2>3. CASE sock[c].peer # "open"
    BY <2>1, <2>3, <1>5
  <2> QED
    BY <2>2, <2>3
<1>11. sock[c].st = "accepted"
  BY <1>2, <1>8 DEF StreamOf
<1> QED
  BY <1>4, <1>5, <1>6, <1>7, <1>9, <1>10, <1>11 DEF StreamOf

\* The server exits, and its connections with it.
LEMMA ExitsStream ==
  ASSUME IInv, Exits, NEW c \in Conn, NEW t, StreamOf(c, t)
  PROVE  StreamOf(c, t)'
<1>1. /\ pc' = "returned" /\ sock'[c].out = sock[c].out
      /\ sock'[c].st = IF sock[c].st = "none" THEN "none" ELSE "gone"
      /\ sock'[c].in = << >> /\ sock'[c].peer = sock[c].peer
  <2>1. sock \in [Conn -> Sock]
    BY DEF IInv, Types
  <2> QED
    BY <2>1 DEF Exits, Sock
<1>2. CASE sock[c].st = "none"
  BY <1>1, <1>2 DEF StreamOf, Served
<1>3. CASE sock[c].st # "none"
  BY <1>1, <1>3, StreamGone
<1> QED
  BY <1>2, <1>3

\* Each step of the server keeps the streams in order.
LEMMA ServerStepStream ==
  ASSUME IInv, "signal" \notin Faults, ServerStep, NEW c \in Conn, NEW t, StreamOf(c, t)
  PROVE  StreamOf(c, t)'
<1>1. sock \in [Conn -> Sock] /\ sock[c] \in Sock /\ clients \in [DOMAIN clients -> Client]
  BY DEF IInv, Types
<1>2. CASE SelectReturns \/ EndOfWalk \/ PassEntry \/ AcceptFails
  <2>1. UNCHANGED <<sock, clients>> /\ pc # "returned"
    BY <1>2 DEF SelectReturns, EndOfWalk, PassEntry, AcceptFails, ReadCalled
  <2> QED
    BY <2>1, StreamAlone DEF Live
<1>3. CASE LoopReturns
  BY <1>3, ExitsStream DEF LoopReturns
<1>4. CASE Accept
  <2> DEFINE h == Head(backlog)
  <2>1. /\ ReadCalled(Listen) /\ backlog # << >> /\ pc = "reads"
        /\ sock' = [sock EXCEPT ![h].st = "accepted"] /\ backlog' = Tail(backlog)
        /\ clients' = [d \in DOMAIN clients \cup {h} |-> IF d = h THEN NewClient(LowestFree) ELSE clients[d]]
    BY <1>4, AcceptReady DEF Accept, ReadCalled
  <2>2. h \in Conn /\ sock[h].st = "waiting"
    BY <2>1, Dequeued
  <2> HIDE DEF h
  <2>3. CASE c # h
    <3>1. sock'[c] = sock[c]
      BY <1>1, <2>1, <2>3
    <3>2. c \in DOMAIN clients' => c \in DOMAIN clients /\ clients'[c] = clients[c]
      BY <2>1, <2>3
    <3> QED
      BY <3>1, <3>2, <2>1, StreamAlone DEF Live
  <2>4. CASE c = h
    <3>1. /\ sock'[c].st = "accepted" /\ sock'[c].in = sock[c].in /\ sock'[c].out = sock[c].out
          /\ sock'[c].peer = sock[c].peer
      BY <2>1, <2>4, <1>1 DEF Sock
    <3>2. clients'[c].rbuf = << >> /\ clients'[c].wbuf = << >>
      BY <2>1, <2>4 DEF NewClient
    <3>3. Served(sock[c], c, << >>, << >>, 0, t) /\ 0 \in Nat
      BY <2>2, <2>4 DEF StreamOf
    <3>4. Served(sock'[c], c, << >>, << >>, 0, t)
      BY <3>1, <3>3 DEF Served
    <3> QED
      BY <3>1, <3>2, <3>3, <3>4 DEF StreamOf
  <2> QED
    BY <2>3, <2>4
<1>5. CASE AcceptDrops
  <2> DEFINE h == Head(backlog)
  <2>1. /\ backlog # << >> /\ pc = "reads" /\ UNCHANGED clients /\ backlog' = Tail(backlog)
        /\ sock' = [sock EXCEPT ![h].st = "gone", ![h].in = << >>]
    BY <1>5 DEF AcceptDrops, ReadCalled
  <2>2. h \in Conn /\ h \notin DOMAIN clients
    BY <2>1, Dequeued
  <2> HIDE DEF h
  <2>3. CASE c # h
    <3>1. sock'[c] = sock[c]
      BY <1>1, <2>1, <2>3
    <3> QED
      BY <3>1, <2>1, StreamAlone DEF Live
  <2>4. CASE c = h
    <3>1. sock'[c] = [sock[c] EXCEPT !.st = "gone", !.in = << >>]
      BY <2>1, <2>4, <1>1
    <3>2. sock'[c].st = "gone" /\ sock'[c].out = sock[c].out
      BY <3>1, <1>1 DEF Sock
    <3> QED
      BY <3>2, <2>1, <2>2, <2>4, StreamGone DEF Live
  <2> QED
    BY <2>3, <2>4
<1>6. ASSUME NEW d \in DOMAIN clients, ReadRequest(d) PROVE StreamOf(c, t)'
  <2>1. CASE c = d
    BY <1>6, <2>1, ReadRequestStream
  <2>2. CASE c # d
    <3>1. pc # "returned" /\ sock'[c] = sock[c]
      BY <1>1, <1>6, <2>2 DEF ReadRequest, ReadCalled
    <3>2. \A x \in DOMAIN clients : x # d => clients'[x] = clients[x]
      BY <1>1, <1>6 DEF ReadRequest
    <3>3. DOMAIN clients' = DOMAIN clients
      BY <1>1, <1>6 DEF ReadRequest
    <3> QED
      BY <3>1, <3>2, <3>3, <2>2, StreamAlone DEF Live
  <2> QED
    BY <2>1, <2>2
<1>7. ASSUME NEW d \in DOMAIN clients, ReadDropsClient(d) \/ ReadNothing(d) PROVE StreamOf(c, t)'
  <2>1. ReadCalled(clients[d].fd) /\ d \in Conn /\ pc = "reads"
    BY <1>7 DEF ReadDropsClient, ReadNothing, ReadCalled, IInv, Types
  <2>2. /\ RemoveClient(d)
        /\ \/ sock' = [sock EXCEPT ![d].st = "gone", ![d].in = << >>]
           \/ sock' = [sock EXCEPT ![d].st = "gone"]
    BY <1>7, <2>1, ReadFindsEnd DEF ReadDropsClient, ReadNothing
  <2>3. /\ DOMAIN clients' = DOMAIN clients \ {d}
        /\ \A x \in DOMAIN clients' : clients'[x] = clients[x]
    <3>1. clients' = [x \in DOMAIN clients \ {d} |-> clients[x]]
      BY <2>2 DEF RemoveClient
    <3> QED
      BY <3>1
  <2>4. CASE c = d
    <3>1. \/ sock'[c] = [sock[c] EXCEPT !.st = "gone", !.in = << >>]
          \/ sock'[c] = [sock[c] EXCEPT !.st = "gone"]
      BY <1>1, <2>1, <2>2, <2>4
    <3>2. sock'[c].st = "gone" /\ sock'[c].out = sock[c].out
      BY <1>1, <3>1 DEF Sock
    <3> QED
      BY <3>2, <2>3, <2>4, StreamGone DEF Live
  <2>5. CASE c # d
    <3>1. sock'[c] = sock[c]
      BY <1>1, <2>2, <2>5
    <3> QED
      BY <3>1, <2>1, <2>3, <2>5, StreamAlone DEF Live
  <2> QED
    BY <2>4, <2>5
<1>8. ASSUME NEW d \in DOMAIN clients, WriteError(d) PROVE StreamOf(c, t)'
  <2>1. /\ pc = "writes" /\ sock' = [sock EXCEPT ![d].st = "gone", ![d].in = << >>]
        /\ clients' = [clients EXCEPT ![d].fd = -1] /\ d \in Conn
    BY <1>8 DEF WriteError, WriteCalled, IInv, Types
  <2>2. CASE c = d
    <3>1. sock'[c] = [sock[c] EXCEPT !.st = "gone", !.in = << >>]
      BY <1>1, <2>1, <2>2
    <3>2. sock'[c].st = "gone" /\ sock'[c].out = sock[c].out
      BY <1>1, <3>1 DEF Sock
    <3>3. clients'[c].fd = -1
      BY <1>1, <2>1, <2>2 DEF Client
    <3> QED
      BY <3>2, <3>3, StreamGone DEF Live
  <2>3. CASE c # d
    <3>1. sock'[c] = sock[c] /\ DOMAIN clients' = DOMAIN clients
      BY <1>1, <2>1, <2>3
    <3>2. \A x \in DOMAIN clients : x # d => clients'[x] = clients[x]
      BY <1>1, <2>1
    <3> QED
      BY <3>1, <3>2, <2>1, <2>3, StreamAlone DEF Live
  <2> QED
    BY <2>2, <2>3
<1>9. ASSUME NEW d \in DOMAIN clients, NEW n \in 1 .. BufSize, WriteAnswer(d, n)
      PROVE  StreamOf(c, t)'
  <2>1. CASE c = d
    BY <1>9, <2>1, WriteAnswerStream
  <2>2. CASE c # d
    <3>1. pc # "returned" /\ sock'[c] = sock[c] /\ DOMAIN clients' = DOMAIN clients
      BY <1>1, <1>9, <2>2 DEF WriteAnswer, WriteCalled
    <3>2. \A x \in DOMAIN clients : x # d => clients'[x] = clients[x]
      BY <1>1, <1>9 DEF WriteAnswer
    <3> QED
      BY <3>1, <3>2, <2>2, StreamAlone DEF Live
  <2> QED
    BY <2>1, <2>2
<1> QED
  BY <1>2, <1>3, <1>4, <1>5, <1>6, <1>7, <1>8, <1>9 DEF ServerStep


\* More units arrive, the next ones of the stream.
LEMMA StreamGrows ==
  ASSUME NEW c \in Conn, NEW t, StreamOf(c, t), NEW u \in Seq(Unit),
         sock[c] \in Sock, sock[c].st # "none",
         sock'[c].in = sock[c].in \o u, sock'[c].out = sock[c].out,
         sock'[c].st = sock[c].st, sock'[c].peer = sock[c].peer, UNCHANGED <<clients, pc>>,
         \A d \in DOMAIN clients : clients[d] \in Client,
         \A k \in 1 .. Len(u) : u[k] = ReqUnit(c, t + k)
  PROVE  StreamOf(c, t + Len(u))'
<1>1. Len(u) \in Nat /\ sock[c].in \in Seq(Unit) /\ Len(sock[c].in) \in Nat
  BY LenProperties DEF Sock
<1> DEFINE s == sock[c].in
<1> DEFINE both == s \o u
<1>2. /\ Len(both) = Len(s) + Len(u)
      /\ \A k \in 1 .. Len(s) + Len(u) : both[k] = IF k <= Len(s) THEN s[k] ELSE u[k - Len(s)]
  BY <1>1
<1> HIDE DEF s, both
<1>3. ASSUME NEW d \in Nat, NEW rb \in Seq(Unit), NEW wb, Served(sock[c], c, rb, wb, d, t)
      PROVE  Served(sock'[c], c, rb, wb, d, t + Len(u))
  <2> DEFINE D == d * ReqLen
  <2>1. D \in Nat /\ Len(rb) \in Nat /\ Len(s) \in Nat
    BY <1>1, AppServerAssumption, Multiple, LenProperties DEF s
  <2>2. /\ D + Len(rb) + Len(s) = t
        /\ \A k \in 1 .. Len(s) : s[k] = ReqUnit(c, D + Len(rb) + k)
    BY <1>3 DEF Served, s
  <2> HIDE DEF D
  <2>3. D + Len(rb) + Len(both) = t + Len(u)
    BY <1>1, <1>2, <2>1, <2>2
  <2>4. \A k \in 1 .. Len(both) : both[k] = ReqUnit(c, D + Len(rb) + k)
    <3> SUFFICES ASSUME NEW k \in 1 .. Len(s) + Len(u) PROVE both[k] = ReqUnit(c, D + Len(rb) + k)
      BY <1>2
    <3>1. CASE k <= Len(s)
      BY <3>1, <2>1, <2>2, <1>2
    <3>2. CASE ~ (k <= Len(s))
      <4>1. k - Len(s) \in 1 .. Len(u) /\ t + (k - Len(s)) = D + Len(rb) + k
        BY <3>2, <2>1, <2>2, <1>1
      <4> QED
        BY <3>2, <4>1, <1>2
    <3> QED
      BY <3>1, <3>2
  <2> QED
    BY <1>3, <2>3, <2>4 DEF Served, D, s, both
<1>4. sock[c].st # "waiting" \/ Served(sock'[c], c, << >>, << >>, 0, t + Len(u))
  <2>1. << >> \in Seq(Unit) /\ 0 \in Nat
    OBVIOUS
  <2> QED
    BY <2>1, <1>3 DEF StreamOf
<1>5. c \in Live /\ pc # "returned" =>
        \E d \in Nat : Served(sock'[c], c, clients[c].rbuf, clients[c].wbuf, d, t + Len(u))
  <2>1. c \in Live => clients[c].rbuf \in Seq(Unit)
    BY DEF Live, Client
  <2> QED
    BY <2>1, <1>3 DEF StreamOf
<1> QED
  BY <1>4, <1>5 DEF StreamOf, Live

\* A peer closes its end, and nothing is owed to it any more.
LEMMA StreamClosed ==
  ASSUME NEW c \in Conn, NEW t, StreamOf(c, t), NEW d \in Conn, sock \in [Conn -> Sock],
         sock' = [sock EXCEPT ![d].peer = "closed"], UNCHANGED <<clients, pc>>
  PROVE  StreamOf(c, t)' /\ sock'[c].sent = sock[c].sent
<1>1. /\ sock'[c].in = sock[c].in /\ sock'[c].out = sock[c].out /\ sock'[c].sent = sock[c].sent
      /\ sock'[c].st = sock[c].st /\ (sock'[c].peer = "open" => sock[c].peer = "open")
  BY DEF Sock
<1>2. ASSUME NEW rb, NEW wb, NEW x, Served(sock[c], c, rb, wb, x, t)
      PROVE  Served(sock'[c], c, rb, wb, x, t)
  BY <1>1, <1>2 DEF Served
<1> QED
  BY <1>1, <1>2 DEF StreamOf, Live

\* The server does not count for its peers, nor disconnect them altogether.
LEMMA SentKept ==
  ASSUME IInv, ServerStep, NEW c \in Conn
  PROVE  sock'[c].sent = sock[c].sent /\ (sock'[c].st = "none" => sock[c].st = "none")
<1>1. sock \in [Conn -> Sock] /\ DOMAIN clients \subseteq Conn
  BY DEF IInv, Types
<1>2. CASE SelectReturns \/ EndOfWalk \/ PassEntry \/ AcceptFails
  BY <1>2 DEF SelectReturns, EndOfWalk, PassEntry, AcceptFails
<1>3. CASE LoopReturns
  BY <1>1, <1>3 DEF LoopReturns, Exits, Sock
<1>4. CASE Accept
  <2>1. backlog # << >>
    BY <1>4, AcceptReady DEF Accept
  <2>2. PICK h : h = Head(backlog)
    OBVIOUS
  <2>3. sock' = [sock EXCEPT ![h].st = "accepted"]
    BY <1>4, <2>1, <2>2 DEF Accept
  <2> QED
    BY <1>1, <2>3 DEF Sock
<1>5. CASE AcceptDrops
  <2>1. \E h : sock' = [sock EXCEPT ![h].st = "gone", ![h].in = << >>]
    BY <1>5 DEF AcceptDrops
  <2> QED
    BY <1>1, <2>1 DEF Sock
<1>6. ASSUME NEW d \in DOMAIN clients, ReadRequest(d)
      PROVE  sock'[c].sent = sock[c].sent /\ (sock'[c].st = "none" => sock[c].st = "none")
  BY <1>1, <1>6 DEF ReadRequest, Sock
<1>7. ASSUME NEW d \in DOMAIN clients, ReadDropsClient(d) \/ ReadNothing(d)
      PROVE  sock'[c].sent = sock[c].sent /\ (sock'[c].st = "none" => sock[c].st = "none")
  <2>1. \/ sock' = [sock EXCEPT ![d].st = "gone", ![d].in = << >>]
        \/ sock' = [sock EXCEPT ![d].st = "gone"]
        \/ sock' = sock
    BY <1>7 DEF ReadDropsClient, ReadNothing
  <2>2. \/ sock'[c] = [sock[c] EXCEPT !.st = "gone", !.in = << >>]
        \/ sock'[c] = [sock[c] EXCEPT !.st = "gone"]
        \/ sock'[c] = sock[c]
    BY <1>1, <2>1
  <2>3. sock[c] \in Sock
    BY <1>1
  <2> QED
    BY <2>2, <2>3 DEF Sock
<1>8. ASSUME NEW d \in DOMAIN clients, WriteError(d)
      PROVE  sock'[c].sent = sock[c].sent /\ (sock'[c].st = "none" => sock[c].st = "none")
  BY <1>1, <1>8 DEF WriteError, Sock
<1>9. ASSUME NEW d \in DOMAIN clients, NEW n \in 1 .. BufSize, WriteAnswer(d, n)
      PROVE  sock'[c].sent = sock[c].sent /\ (sock'[c].st = "none" => sock[c].st = "none")
  BY <1>1, <1>9 DEF WriteAnswer, Sock
<1> QED
  BY <1>2, <1>3, <1>4, <1>5, <1>6, <1>7, <1>8, <1>9 DEF ServerStep

\* The peers of AppServer send their requests in order.
Streams == \A c \in Conn : StreamOf(c, sock[c].sent)

LEMMA InitStreams == Init => Streams
<1> SUFFICES ASSUME Init, NEW c \in Conn PROVE StreamOf(c, sock[c].sent)
  BY DEF Streams
<1>1. /\ sock[c].st = "none" /\ sock[c].sent = 0 /\ sock[c].in = << >> /\ sock[c].out = << >>
      /\ Live = {}
  BY DEF Init, Live
<1>2. Served(sock[c], c, << >>, << >>, 0, 0)
  BY <1>1, AppServerAssumption DEF Served
<1> QED
  BY <1>1, <1>2 DEF StreamOf

LEMMA StepStreams == "signal" \notin Faults /\ IInv /\ Streams /\ [Next]_vars => Streams'
<1> SUFFICES ASSUME "signal" \notin Faults, IInv, Streams, [Next]_vars, NEW c \in Conn
             PROVE  StreamOf(c, sock[c].sent)'
  BY DEF Streams
<1>1. PICK t \in Nat : t = sock[c].sent
  BY DEF IInv, Types, Sock
<1>2. sock[c] \in Sock /\ sock \in [Conn -> Sock] /\ StreamOf(c, t)
  BY <1>1 DEF IInv, Types, Streams
<1>3. CASE ServerStep
  <2>1. StreamOf(c, t)'
    BY <1>2, <1>3, ServerStepStream
  <2>2. sock'[c].sent = t
    BY <1>1, <1>3, SentKept
  <2> QED
    BY <2>1, <2>2
<1>4. ASSUME NEW d \in Conn, PeerConnects(d) PROVE StreamOf(c, sock[c].sent)'
  <2>1. UNCHANGED <<clients, pc>> /\ sock[d].st = "none" /\ sock' = [sock EXCEPT ![d].st = "waiting"]
    BY <1>4 DEF PeerConnects, server
  <2>2. /\ sock'[c].in = sock[c].in /\ sock'[c].out = sock[c].out /\ sock'[c].peer = sock[c].peer
        /\ sock'[c].sent = t /\ (sock'[c].st = sock[c].st \/ (sock[c].st = "none" /\ sock'[c].st = "waiting"))
    BY <2>1, <1>1, <1>2 DEF Sock
  <2>3. ASSUME NEW rb, NEW wb, NEW x, Served(sock[c], c, rb, wb, x, t)
        PROVE  Served(sock'[c], c, rb, wb, x, t)
    BY <2>2, <2>3 DEF Served
  <2> QED
    BY <2>1, <2>2, <2>3, <1>2 DEF StreamOf, Live
<1>5. ASSUME NEW d \in Conn, PeerSends(d) PROVE StreamOf(c, sock[c].sent)'
  <2> DEFINE unit == Request(d, sock[d].sent \div ReqLen + 1)[(sock[d].sent % ReqLen) + 1]
  <2>1. /\ UNCHANGED <<clients, pc>> /\ sock[d].st # "none"
        /\ sock' = [sock EXCEPT ![d].sent = sock[d].sent + 1, ![d].in = Append(sock[d].in, unit)]
    BY <1>2, <1>5 DEF PeerSends, server
  <2>2. CASE c # d
    <3>1. sock'[c] = sock[c]
      BY <1>2, <2>1, <2>2
    <3>2. StreamOf(c, t)'
      BY <3>1, <2>1, <1>2, StreamAlone DEF Live
    <3> QED
      BY <3>1, <3>2, <1>1
  <2>3. CASE c = d
    <3> DEFINE q == t \div ReqLen + 1
    <3> DEFINE r == (t % ReqLen) + 1
    <3>1. q \in Nat /\ r \in 1 .. ReqLen /\ t + 1 - 1 = t
      <4>1. ASSUME NEW a \in Nat, NEW b \in Nat \ {0}
            PROVE  a \div b + 1 \in Nat /\ (a % b) + 1 \in 1 .. b
        OBVIOUS
      <4> QED
        BY <4>1, AppServerAssumption
    <3>2. unit = Request(c, q)[r] /\ ReqUnit(c, t + 1) = <<c, q, r>>
      BY <2>3, <3>1, <1>1 DEF ReqUnit
    <3> HIDE DEF q, r, unit
    <3>3. unit = ReqUnit(c, t + 1) /\ unit \in Unit
      <4>1. Request(c, q)[r] = <<c, q, r>> /\ r \in Nat
        BY <3>1, AppServerAssumption DEF Request
      <4>2. <<c, q, r>> \in Unit
        BY <3>1, <4>1 DEF Unit
      <4> QED
        BY <4>1, <4>2, <3>2
    <3>4. /\ sock'[c] = [sock[c] EXCEPT !.sent = t + 1, !.in = Append(sock[c].in, unit)]
          /\ sock[c].in \in Seq(Unit)
      BY <2>1, <2>3, <1>1, <1>2 DEF Sock
    <3>5. /\ sock'[c].in = Append(sock[c].in, unit) /\ sock'[c].out = sock[c].out
          /\ sock'[c].st = sock[c].st /\ sock'[c].peer = sock[c].peer /\ sock'[c].sent = t + 1
      BY <3>4, <1>2 DEF Sock
    <3>6. sock'[c].in = sock[c].in \o <<unit>> /\ <<unit>> \in Seq(Unit) /\ Len(<<unit>>) = 1
      BY <3>3, <3>4, <3>5
    <3>7. \A k \in 1 .. Len(<<unit>>) : <<unit>>[k] = ReqUnit(c, t + k)
      BY <3>3, <3>6
    <3>8. \A x \in DOMAIN clients : clients[x] \in Client
      BY DEF IInv, Types
    <3>9. StreamOf(c, t + Len(<<unit>>))'
      BY <3>5, <3>6, <3>7, <3>8, <2>1, <2>3, <1>2, StreamGrows
    <3> QED
      BY <3>5, <3>6, <3>9
  <2> QED
    BY <2>2, <2>3
<1>6. ASSUME NEW d \in Conn, PeerCloses(d) PROVE StreamOf(c, sock[c].sent)'
  <2>1. UNCHANGED <<clients, pc>> /\ sock' = [sock EXCEPT ![d].peer = "closed"]
    BY <1>6 DEF PeerCloses, server
  <2>2. StreamOf(c, t)' /\ sock'[c].sent = t
    BY <2>1, <1>1, <1>2, StreamClosed
  <2> QED
    BY <2>2
<1>7. CASE UNCHANGED vars
  <2>1. UNCHANGED <<sock, clients, pc>>
    BY <1>7 DEF vars
  <2>2. StreamOf(c, t)'
    BY <2>1, <1>2, StreamAlone DEF Live
  <2> QED
    BY <2>1, <2>2, <1>1
<1> QED
  BY <1>3, <1>4, <1>5, <1>6, <1>7 DEF Next, PeerStep

\* Every peer reads the answers to its own requests, in order and each once, as
\* long as no write() of the server is cut short (which AfterWrite does not stand).
THEOREM ServerAnswersInOrder ==
  ASSUME "signal" \notin Faults
  PROVE  Spec => []AnswersInOrder
<1>1. IInv /\ Streams => AnswersInOrder
  <2> SUFFICES ASSUME IInv, Streams, NEW c \in Conn, NEW k \in DOMAIN sock[c].out
               PROVE  sock[c].out[k] = Answer(c, (k - 1) \div AnsLen + 1)[((k - 1) % AnsLen) + 1]
    BY DEF AnswersInOrder
  <2>1. sock[c].out \in Seq(Unit) /\ k \in 1 .. Len(sock[c].out) /\ k \in Nat \ {0}
    BY LenProperties DEF IInv, Types, Sock
  <2>2. sock[c].out[k] = AnsUnit(c, k)
    BY <2>1 DEF Streams, StreamOf
  <2>3. ASSUME NEW a \in Nat, NEW b \in Nat \ {0} PROVE (a % b) + 1 \in 1 .. b
    OBVIOUS
  <2>4. ((k - 1) % AnsLen) + 1 \in 1 .. AnsLen
    BY <2>1, <2>3, AppServerAssumption
  <2>5. ASSUME NEW q, NEW r \in 1 .. AnsLen PROVE Answer(c, q)[r] = <<c, q, r>>
    BY AppServerAssumption DEF Answer
  <2> QED
    BY <2>2, <2>4, <2>5 DEF AnsUnit
<1>2. IInv /\ Streams /\ [Next]_vars => Streams'
  BY StepStreams
<1> QED
  BY <1>1, <1>2, InitStreams, InvAlways, PTL DEF Spec
================================================================================
