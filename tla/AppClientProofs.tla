---------------------------- MODULE AppClientProofs ----------------------------
(***************************************************************************)
(* The composition of the clients with the server.  The server's invariant *)
(* is kept by the clients as it is by any peers; on it rest the two        *)
(* results about calls: no call is executed twice, whatever fails, and as  *)
(* long as every call has had its answer the next one gets its own.        *)
(*                                                                         *)
(* Without faults the server and its clients implement RPC (the second     *)
(* part): every step of the composition is a step of RPC, or none.  With   *)
(* enough descriptors for all its clients the server never drops one, and  *)
(* each call goes through the same stages.                                 *)
(***************************************************************************)
EXTENDS AppClient, AppServerProofs, FiniteSetTheorems

\* An AppClient, as far as the results need it.
EventBits == [timer : BOOLEAN, read : BOOLEAN, write : BOOLEAN]
Returned == [call : Nat, ok : BOOLEAN, ret : Nat]
AppClientOf ==
  [fd : {"none", "open", "closed"}, rbuf : Seq(Unit), wbuf : Seq(Unit), got : Nat,
   event : EventBits, call : Nat, ret : Nat, calls : Nat, last : Returned, aborted : BOOLEAN]

AcTypes == ac \in [Conn -> AppClientOf]

CInv == IInv /\ AcTypes

--------------------------------------------------------------------------------
LEMMA InitCInv == ClientInit => CInv
<1> SUFFICES ASSUME ClientInit PROVE CInv
  OBVIOUS
<1>1. IInv
  BY InitInv DEF ClientInit
<1>2. NoEvent \in EventBits
  BY DEF NoEvent, EventBits
<1>3. << >> \in Seq(Unit) /\ [call |-> 0, ok |-> TRUE, ret |-> 0] \in Returned
  BY DEF Returned
<1>4. NewAppClient \in AppClientOf
  BY <1>2, <1>3 DEF NewAppClient, AppClientOf
<1> QED
  BY <1>1, <1>4 DEF ClientInit, CInv, AcTypes

\* A step of a client's own leaves the server alone.
LEMMA VarsAlone == IInv /\ UNCHANGED vars => IInv'
BY StepInv

LEMMA HangupInv ==
  ASSUME IInv, NEW c \in Conn, sock' = Hangup(sock, c), UNCHANGED <<server, backlog>>
  PROVE  IInv'
<1>1. sock \in [Conn -> Sock] /\ sock' = [sock EXCEPT ![c].peer = "closed"]
  BY DEF IInv, Types, Hangup
<1>2. /\ sock' \in [Conn -> Sock]
      /\ \A d \in Conn : sock'[d].st = sock[d].st /\ sock'[d].in = sock[d].in
      /\ \A d \in Conn : sock[d].peer = "closed" => sock'[d].peer = "closed"
  <2>1. ASSUME NEW r \in Sock
        PROVE  /\ [r EXCEPT !.peer = "closed"] \in Sock
               /\ [r EXCEPT !.peer = "closed"].st = r.st
               /\ [r EXCEPT !.peer = "closed"].in = r.in
               /\ [r EXCEPT !.peer = "closed"].peer = "closed"
    BY DEF Sock
  <2>2. \A d \in Conn : sock'[d] = IF d = c THEN [sock[d] EXCEPT !.peer = "closed"] ELSE sock[d]
    BY <1>1
  <2>3. sock' = [d \in Conn |-> sock'[d]] /\ \A d \in Conn : sock'[d] \in Sock
    BY <1>1, <2>1, <2>2
  <2> QED
    BY <1>1, <2>1, <2>2, <2>3
<1> QED
  BY <1>2, PeerInv

\* What _appclient_write sends, and what it keeps.
LEMMA ClientWritesUnits ==
  ASSUME CInv, NEW c \in Conn, NEW n, ClientWrites(c, n)
  PROVE  LET wb == ac[c].wbuf
             part == SubSeq(wb, 1, n)
             left == AfterWrite(wb, n)
         IN  /\ n \in Nat /\ n <= Len(wb) /\ Len(wb) \in Nat
             /\ part \in Seq(Unit) /\ Len(part) = n
             /\ left \in Seq(Unit) /\ Len(left) = Len(wb) - n
<1> DEFINE wb == ac[c].wbuf
<1>1. wb \in Seq(Unit) /\ n \in 1 .. Len(wb) /\ Len(wb) \in Nat
  BY LenProperties DEF CInv, AcTypes, AppClientOf, ClientWrites
<1> HIDE DEF wb
<1>2. n \in Nat /\ n <= Len(wb)
  BY <1>1
<1>3. SubSeq(wb, 1, n) \in Seq(Unit) /\ Len(SubSeq(wb, 1, n)) = n
  BY <1>1, <1>2
<1> QED
  BY <1>1, <1>2, <1>3, AfterWriteUnits DEF wb

LEMMA ClientWritesInv == ASSUME CInv, NEW c \in Conn, NEW n, ClientWrites(c, n) PROVE IInv'
<1> DEFINE part == SubSeq(ac[c].wbuf, 1, n)
<1>1. /\ UNCHANGED <<server, backlog>> /\ sock \in [Conn -> Sock]
      /\ sock' = [sock EXCEPT ![c].in = IF sock[c].st = "gone" THEN @ ELSE @ \o part]
  BY DEF ClientWrites, CInv, IInv, Types
<1>2. part \in Seq(Unit) /\ sock[c] \in Sock
  BY <1>1, ClientWritesUnits
<1> HIDE DEF part
<1>3. PICK s \in Seq(Unit) : /\ sock' = [sock EXCEPT ![c].in = s]
                             /\ sock[c].in # << >> => s # << >>
  <2>1. sock[c].in \in Seq(Unit)
    BY <1>2 DEF Sock
  <2>2. /\ sock[c].in \o part \in Seq(Unit)
        /\ sock[c].in # << >> => sock[c].in \o part # << >>
    BY <1>2, <2>1
  <2> QED
    BY <1>1, <2>1, <2>2
<1>4. /\ sock' \in [Conn -> Sock]
      /\ \A d \in Conn : sock'[d].st = sock[d].st /\ sock'[d].peer = sock[d].peer
      /\ \A d \in Conn : sock[d].in # << >> => sock'[d].in # << >>
  <2>1. ASSUME NEW r \in Sock
        PROVE  /\ [r EXCEPT !.in = s] \in Sock
               /\ [r EXCEPT !.in = s].st = r.st
               /\ [r EXCEPT !.in = s].peer = r.peer
               /\ [r EXCEPT !.in = s].in = s
    BY DEF Sock
  <2>2. \A d \in Conn : sock'[d] = IF d = c THEN [sock[d] EXCEPT !.in = s] ELSE sock[d]
    BY <1>1, <1>3
  <2>3. sock' = [d \in Conn |-> sock'[d]] /\ \A d \in Conn : sock'[d] \in Sock
    BY <1>1, <1>3, <2>1, <2>2
  <2>4. \A d \in Conn : sock[d] \in Sock
    BY <1>1
  <2>5. \A d \in Conn : sock'[d].st = sock[d].st /\ sock'[d].peer = sock[d].peer
    BY <2>1, <2>2, <2>4
  <2>6. sock'[c].in = s /\ \A d \in Conn : d # c => sock'[d].in = sock[d].in
    BY <2>1, <2>2, <2>4
  <2> QED
    BY <1>3, <2>3, <2>5, <2>6
<1> QED
  BY <1>1, <1>4, PeerInv DEF CInv

\* The server's invariant does not depend on what kind of peers it has.
LEMMA ClientStepIInv == CInv /\ [ClientNext]_rpcVars => IInv'
<1> SUFFICES ASSUME CInv, [ClientNext]_rpcVars PROVE IInv'
  OBVIOUS
<1> USE DEF CInv
<1>1. CASE ServerStep \/ Crash
  BY <1>1, ServerStepInv, ExitsInv DEF Crash
<1>2. ASSUME NEW c \in Conn, Connect(c) PROVE IInv'
  BY <1>2, PeerConnectsInv DEF Connect
<1>3. ASSUME NEW c \in Conn, CallStarts(c) \/ ClientReads(c) \/ ClientTimeout(c) \/ CallReturns(c)
      PROVE  IInv'
  BY <1>3, VarsAlone DEF CallStarts, ClientReads, ClientTimeout, CallReturns
<1>4. ASSUME NEW c \in Conn, NEW n \in 1 .. BufSize, ClientWrites(c, n) PROVE IInv'
  BY <1>4, ClientWritesInv
<1>5. ASSUME NEW c \in Conn, ClientWriteError(c) \/ ClientReadError(c) \/ Delete(c) PROVE IInv'
  BY <1>5, HangupInv DEF ClientWriteError, ClientReadError, Delete
<1>6. CASE UNCHANGED rpcVars
  BY <1>6, VarsAlone DEF rpcVars
<1> QED
  BY <1>1, <1>2, <1>3, <1>4, <1>5, <1>6 DEF ClientNext, InCall


--------------------------------------------------------------------------------
(***************************************************************************)
(* What each step of a client does to its AppClient.                       *)
(***************************************************************************)
\* One AppClient changes, the others do not.
LEMMA OneChanges ==
  ASSUME AcTypes, NEW c \in Conn, NEW x \in AppClientOf, ac' = [ac EXCEPT ![c] = x]
  PROVE  /\ AcTypes' /\ ac'[c] = x
         /\ \A d \in Conn : d # c => ac'[d] = ac[d]
BY DEF AcTypes

\* appclient_call adds its request to buf_write.
LEMMA CallStartsEffect ==
  ASSUME CInv, NEW c \in Conn, CallStarts(c)
  PROVE  LET n == ac[c].calls + 1
         IN  /\ AcTypes' /\ (\A d \in Conn : d # c => ac'[d] = ac[d])
             /\ ac'[c].wbuf = ac[c].wbuf \o Request(c, n) /\ Len(Request(c, n)) = ReqLen
             /\ Request(c, n) \in Seq(Unit) /\ ac'[c].wbuf \in Seq(Unit)
             /\ ac'[c].call = n /\ ac'[c].calls = n /\ ac'[c].ret = 0
             /\ ac'[c].rbuf = ac[c].rbuf /\ ac'[c].got = ac[c].got /\ ac'[c].last = ac[c].last
             /\ ac'[c].fd = ac[c].fd
<1> DEFINE n == ac[c].calls + 1
<1> DEFINE b == (ac[c].fd = "closed")
<1> DEFINE e == [timer |-> TRUE, read |-> FALSE, write |-> TRUE]
<1> DEFINE w == ac[c].wbuf \o Request(c, n)
<1>1. ac[c] \in AppClientOf /\ ac[c].wbuf \in Seq(Unit) /\ n \in Nat
  BY DEF CInv, AcTypes, AppClientOf
<1>2. Request(c, n) \in Seq(Unit) /\ Len(Request(c, n)) = ReqLen
  <2>1. ReqLen \in Nat
    BY AppServerAssumption
  <2>2. \A k \in 1 .. ReqLen : <<c, n, k>> \in Unit
    BY <1>1, <2>1 DEF Unit
  <2> QED
    BY <2>1, <2>2 DEF Request
<1>3. w \in Seq(Unit) /\ e \in EventBits /\ b \in BOOLEAN
  BY <1>1, <1>2 DEF EventBits
<1>4. ac' = [ac EXCEPT ![c] = [ac[c] EXCEPT !.wbuf = w, !.call = n, !.calls = n, !.ret = 0,
                                           !.aborted = b, !.event = e]]
  BY Zenon DEF CallStarts
<1> HIDE DEF w, e, b, n
<1>5. ASSUME NEW r \in AppClientOf
      PROVE  LET x == [r EXCEPT !.wbuf = w, !.call = n, !.calls = n, !.ret = 0, !.aborted = b, !.event = e]
             IN  /\ x \in AppClientOf /\ x.wbuf = w /\ x.call = n /\ x.calls = n /\ x.ret = 0
                 /\ x.rbuf = r.rbuf /\ x.got = r.got /\ x.last = r.last /\ x.fd = r.fd
  BY <1>1, <1>3 DEF AppClientOf
<1>6. PICK x \in AppClientOf : /\ ac' = [ac EXCEPT ![c] = x]
                               /\ x.wbuf = w /\ x.call = n /\ x.calls = n /\ x.ret = 0
                               /\ x.rbuf = ac[c].rbuf /\ x.got = ac[c].got
                               /\ x.last = ac[c].last /\ x.fd = ac[c].fd
  BY <1>1, <1>4, <1>5
<1>7. AcTypes' /\ ac'[c] = x /\ \A d \in Conn : d # c => ac'[d] = ac[d]
  BY <1>6, OneChanges DEF CInv
<1>8. /\ ac'[c].wbuf = w /\ ac'[c].call = n /\ ac'[c].calls = n /\ ac'[c].ret = 0
      /\ ac'[c].rbuf = ac[c].rbuf /\ ac'[c].got = ac[c].got
      /\ ac'[c].last = ac[c].last /\ ac'[c].fd = ac[c].fd
  BY <1>6, <1>7
<1> QED
  BY <1>2, <1>3, <1>7, <1>8 DEF w, n


\* A callback that fails, the timer, appclient_new and appclient_delete change the
\* descriptor and what is registered, and register nothing.
LEMMA LetsGoEffect ==
  ASSUME CInv, NEW c \in Conn,
         \/ Connect(c) \/ ClientWriteError(c) \/ ClientReadError(c)
         \/ ClientTimeout(c) \/ Delete(c)
  PROVE  /\ AcTypes' /\ (\A d \in Conn : d # c => ac'[d] = ac[d])
         /\ ac'[c].wbuf = ac[c].wbuf /\ ac'[c].rbuf = ac[c].rbuf /\ ac'[c].got = ac[c].got
         /\ ac'[c].call = ac[c].call /\ ac'[c].ret = ac[c].ret /\ ac'[c].calls = ac[c].calls
         /\ ac'[c].last = ac[c].last
         /\ (ac'[c].event.read => ac[c].event.read) /\ (ac'[c].event.write => ac[c].event.write)
<1> DEFINE Same(x, r) ==
      /\ x \in AppClientOf
      /\ x.wbuf = r.wbuf /\ x.rbuf = r.rbuf /\ x.got = r.got
      /\ x.call = r.call /\ x.ret = r.ret /\ x.calls = r.calls /\ x.last = r.last
      /\ (x.event.read => r.event.read) /\ (x.event.write => r.event.write)
<1>1. ac[c] \in AppClientOf
  BY DEF CInv, AcTypes
<1>2. NoEvent \in EventBits /\ NoEvent.read = FALSE /\ NoEvent.write = FALSE
  BY DEF NoEvent, EventBits
<1>3. ASSUME NEW r \in AppClientOf, NEW f \in {"none", "open", "closed"}
      PROVE  Same([r EXCEPT !.fd = f], r)
  BY DEF AppClientOf
<1>4. ASSUME NEW r \in AppClientOf
      PROVE  Same([r EXCEPT !.event = NoEvent], r)
  BY <1>2 DEF AppClientOf
<1>5. ASSUME NEW r \in AppClientOf, NEW f \in {"none", "open", "closed"}
      PROVE  Same([r EXCEPT !.fd = f, !.event = NoEvent], r)
  BY <1>2 DEF AppClientOf
<1>6. ASSUME NEW r \in AppClientOf, NEW f \in {"none", "open", "closed"}
      PROVE  Same([r EXCEPT !.fd = f, !.event.write = FALSE], r)
  <2>1. r.event \in EventBits
    BY DEF AppClientOf
  <2>2. PICK e : e = [r.event EXCEPT !.write = FALSE]
    OBVIOUS
  <2>3. e \in EventBits /\ e.read = r.event.read /\ e.write = FALSE
    BY <2>1, <2>2 DEF EventBits
  <2>4. [r EXCEPT !.fd = f, !.event.write = FALSE] = [r EXCEPT !.fd = f, !.event = e]
    BY <2>2 DEF AppClientOf
  <2>5. Same([r EXCEPT !.fd = f, !.event = e], r)
    BY <2>3 DEF AppClientOf
  <2> QED
    BY <2>4, <2>5
<1>7. PICK x : ac' = [ac EXCEPT ![c] = x] /\ Same(x, ac[c])
  <2>1. CASE Connect(c)
    <3>1. ac' = [ac EXCEPT ![c] = [ac[c] EXCEPT !.fd = "open"]]
      BY <2>1 DEF Connect
    <3> QED
      BY <3>1, <1>1, <1>3
  <2>2. CASE ClientWriteError(c)
    <3>1. ac' = [ac EXCEPT ![c] = [ac[c] EXCEPT !.fd = "closed", !.event.write = FALSE]]
      BY <2>2 DEF ClientWriteError
    <3> QED
      BY <3>1, <1>1, <1>6
  <2>3. CASE ClientReadError(c)
    <3>1. ac' = [ac EXCEPT ![c] = [ac[c] EXCEPT !.fd = "closed", !.event = NoEvent]]
      BY <2>3 DEF ClientReadError
    <3> QED
      BY <3>1, <1>1, <1>5
  <2>4. CASE ClientTimeout(c)
    <3>1. ac' = [ac EXCEPT ![c] = [ac[c] EXCEPT !.event = NoEvent]]
      BY <2>4 DEF ClientTimeout
    <3> QED
      BY <3>1, <1>1, <1>4
  <2>5. CASE Delete(c)
    <3>1. ac' = [ac EXCEPT ![c] = [ac[c] EXCEPT !.fd = "none"]]
      BY <2>5 DEF Delete
    <3> QED
      BY <3>1, <1>1, <1>3
  <2> QED
    BY <2>1, <2>2, <2>3, <2>4, <2>5
<1>8. AcTypes' /\ ac'[c] = x /\ \A d \in Conn : d # c => ac'[d] = ac[d]
  BY <1>7, OneChanges DEF CInv
<1> QED
  BY <1>7, <1>8

\* _appclient_write shortens buf_write, and waits for the answer after the last unit.
LEMMA ClientWritesEffect ==
  ASSUME CInv, NEW c \in Conn, NEW n, ClientWrites(c, n)
  PROVE  /\ AcTypes' /\ (\A d \in Conn : d # c => ac'[d] = ac[d])
         /\ ac'[c].wbuf = AfterWrite(ac[c].wbuf, n)
         /\ ac'[c].rbuf = ac[c].rbuf /\ ac'[c].got = ac[c].got
         /\ ac'[c].call = ac[c].call /\ ac'[c].ret = ac[c].ret /\ ac'[c].calls = ac[c].calls
         /\ ac'[c].last = ac[c].last /\ ac'[c].fd = ac[c].fd
<1> DEFINE left == AfterWrite(ac[c].wbuf, n)
<1>1. ac[c] \in AppClientOf /\ left \in Seq(Unit)
  BY ClientWritesUnits DEF CInv, AcTypes
<1>2. PICK e \in EventBits :
        ac' = [ac EXCEPT ![c] = [ac[c] EXCEPT !.wbuf = left, !.event = e]]
  <2>1. ac' = [ac EXCEPT ![c] = [ac[c] EXCEPT !.wbuf = left, !.event.write = left # << >>,
                                             !.event.read = left = << >>]]
    BY DEF ClientWrites
  <2>2. ac[c].event \in EventBits
    BY <1>1 DEF AppClientOf
  <2> HIDE DEF left
  <2>3. [ac[c].event EXCEPT !.write = left # << >>, !.read = left = << >>] \in EventBits
    BY <2>2 DEF EventBits
  <2>4. [ac[c] EXCEPT !.wbuf = left, !.event.write = left # << >>, !.event.read = left = << >>]
        = [ac[c] EXCEPT !.wbuf = left,
                        !.event = [ac[c].event EXCEPT !.write = left # << >>, !.read = left = << >>]]
    BY <1>1, <2>2 DEF AppClientOf, EventBits
  <2> QED
    BY <2>1, <2>3, <2>4
<1> HIDE DEF left
<1>3. ASSUME NEW r \in AppClientOf
      PROVE  LET x == [r EXCEPT !.wbuf = left, !.event = e]
             IN  /\ x \in AppClientOf /\ x.wbuf = left /\ x.rbuf = r.rbuf /\ x.got = r.got
                 /\ x.call = r.call /\ x.ret = r.ret /\ x.calls = r.calls
                 /\ x.last = r.last /\ x.fd = r.fd
  BY <1>1 DEF AppClientOf
<1>4. PICK x \in AppClientOf : /\ ac' = [ac EXCEPT ![c] = x]
                               /\ x.wbuf = left /\ x.rbuf = ac[c].rbuf /\ x.got = ac[c].got
                               /\ x.call = ac[c].call /\ x.ret = ac[c].ret
                               /\ x.calls = ac[c].calls /\ x.last = ac[c].last /\ x.fd = ac[c].fd
  BY <1>1, <1>2, <1>3
<1>5. AcTypes' /\ ac'[c] = x /\ \A d \in Conn : d # c => ac'[d] = ac[d]
  BY <1>4, OneChanges DEF CInv
<1> QED
  BY <1>4, <1>5 DEF left

\* event_loop returned: the call is over.
LEMMA CallReturnsEffect ==
  ASSUME CInv, NEW c \in Conn, CallReturns(c)
  PROVE  /\ AcTypes' /\ (\A d \in Conn : d # c => ac'[d] = ac[d])
         /\ ac'[c].call = 0 /\ ac'[c].last.call = ac[c].call /\ ac'[c].last.ret = ac[c].ret
         /\ ac'[c].wbuf = ac[c].wbuf /\ ac'[c].rbuf = ac[c].rbuf /\ ac'[c].got = ac[c].got
         /\ ac'[c].ret = ac[c].ret /\ ac'[c].calls = ac[c].calls /\ ac'[c].event = ac[c].event
         /\ ac'[c].fd = ac[c].fd
<1>1. ac[c] \in AppClientOf /\ ac[c].call \in Nat /\ ac[c].ret \in Nat
  BY DEF CInv, AcTypes, AppClientOf
<1>2. PICK l \in Returned : /\ l.call = ac[c].call /\ l.ret = ac[c].ret
                           /\ ac' = [ac EXCEPT ![c] = [ac[c] EXCEPT !.call = 0, !.last = l]]
  <2> DEFINE b == (ac[c].fd = "open")
  <2> DEFINE l0 == [call |-> ac[c].call, ok |-> b, ret |-> ac[c].ret]
  <2>1. ac' = [ac EXCEPT ![c] = [ac[c] EXCEPT !.call = 0, !.last = l0]]
    BY DEF CallReturns
  <2>2. b \in BOOLEAN
    OBVIOUS
  <2> HIDE DEF b
  <2>3. l0 \in Returned /\ l0.call = ac[c].call /\ l0.ret = ac[c].ret
    BY <1>1, <2>2 DEF Returned
  <2> QED
    BY <2>1, <2>3
<1>3. ASSUME NEW r \in AppClientOf
      PROVE  LET x == [r EXCEPT !.call = 0, !.last = l]
             IN  /\ x \in AppClientOf /\ x.call = 0 /\ x.last = l /\ x.wbuf = r.wbuf
                 /\ x.rbuf = r.rbuf /\ x.got = r.got /\ x.ret = r.ret /\ x.calls = r.calls
                 /\ x.event = r.event /\ x.fd = r.fd
  BY DEF AppClientOf
<1>4. PICK x \in AppClientOf : /\ ac' = [ac EXCEPT ![c] = x]
                               /\ x.call = 0 /\ x.last = l /\ x.wbuf = ac[c].wbuf
                               /\ x.rbuf = ac[c].rbuf /\ x.got = ac[c].got /\ x.ret = ac[c].ret
                               /\ x.calls = ac[c].calls /\ x.event = ac[c].event /\ x.fd = ac[c].fd
  BY <1>1, <1>2, <1>3
<1>5. AcTypes' /\ ac'[c] = x /\ \A d \in Conn : d # c => ac'[d] = ac[d]
  BY <1>4, OneChanges DEF CInv
<1> QED
  BY <1>2, <1>4, <1>5

\* read() gives _appclient_read the next units of the stream.
LEMMA UnreadUnits ==
  ASSUME CInv, NEW c \in Conn, Upto(Unread(c), BufSize - Len(ac[c].rbuf)) # << >>
  PROVE  LET data == Upto(Unread(c), BufSize - Len(ac[c].rbuf))
         IN  /\ data \in Seq(Unit) /\ Len(data) \in Nat \ {0}
             /\ ac[c].got + Len(data) <= Len(sock[c].out)
             /\ data[1] = sock[c].out[ac[c].got + 1]
<1> DEFINE out == sock[c].out
<1> DEFINE g == ac[c].got
<1> DEFINE u == SubSeq(out, g + 1, Len(out))
<1> DEFINE room == BufSize - Len(ac[c].rbuf)
<1> DEFINE m == IF room < Len(u) THEN room ELSE Len(u)
<1> DEFINE data == SubSeq(u, 1, m)
<1>1. out \in Seq(Unit) /\ Len(out) \in Nat /\ g \in Nat /\ room \in Int
  BY LenProperties, AppServerAssumption DEF CInv, IInv, Types, Sock, AcTypes, AppClientOf
<1>2. Upto(Unread(c), BufSize - Len(ac[c].rbuf)) = data
  BY DEF Upto, Unread
<1> HIDE DEF out, g, room
<1>3. CASE g + 1 > Len(out)
  <2>1. u = << >>
    BY <1>1, <1>3
  <2> HIDE DEF u
  <2>2. m \in Int /\ m <= 0
    BY <1>1, <2>1
  <2> HIDE DEF m
  <2>3. data = << >>
    BY <2>1, <2>2
  <2> QED
    BY <1>2, <2>3
<1>4. CASE g + 1 <= Len(out)
  <2>1. /\ u \in Seq(Unit) /\ Len(u) = Len(out) - g /\ Len(u) \in Nat \ {0}
        /\ u[1] = out[g + 1]
    BY <1>1, <1>4
  <2> HIDE DEF u
  <2>2. m \in Int /\ m <= Len(u)
    BY <1>1, <2>1
  <2> HIDE DEF m
  <2>3. CASE m <= 0
    <3>1. data = << >>
      BY <2>1, <2>2, <2>3
    <3> QED
      BY <1>2, <3>1
  <2>4. CASE m >= 1
    <3>1. data \in Seq(Unit) /\ Len(data) = m /\ data[1] = u[1]
      BY <2>1, <2>2, <2>4
    <3> HIDE DEF data
    <3>2. m \in Nat \ {0} /\ g + m <= Len(out)
      BY <1>1, <2>1, <2>2, <2>4
    <3> QED
      BY <1>2, <2>1, <3>1, <3>2 DEF out, g
  <2> QED
    BY <2>2, <2>3, <2>4
<1> QED
  BY <1>1, <1>3, <1>4

\* _appclient_read adds the units to buf_read, and takes an answer off it once it
\* is all there.
LEMMA ClientReadsEffect ==
  ASSUME CInv, NEW c \in Conn, ClientReads(c)
  PROVE  /\ AcTypes' /\ (\A d \in Conn : d # c => ac'[d] = ac[d])
         /\ ac'[c].wbuf = ac[c].wbuf /\ ac'[c].call = ac[c].call /\ ac'[c].calls = ac[c].calls
         /\ ac'[c].last = ac[c].last /\ ac'[c].fd = ac[c].fd /\ ac[c].event.read
         /\ \E m \in Nat \ {0}, buf \in Seq(Unit) :
              /\ Len(buf) = Len(ac[c].rbuf) + m /\ ac'[c].got = ac[c].got + m
              /\ ac'[c].got <= Len(sock[c].out)
              /\ buf[1] = IF ac[c].rbuf # << >> THEN ac[c].rbuf[1] ELSE sock[c].out[ac[c].got + 1]
              /\ Len(buf) >= AnsLen =>
                   /\ ac'[c].rbuf = SubSeq(buf, 1, Len(buf) - AnsLen)
                   /\ ac'[c].ret = buf[1][2] /\ ac'[c].event = NoEvent
              /\ ~ (Len(buf) >= AnsLen) =>
                   ac'[c].rbuf = buf /\ ac'[c].ret = ac[c].ret /\ ac'[c].event = ac[c].event
<1> DEFINE data == Upto(Unread(c), BufSize - Len(ac[c].rbuf))
<1> DEFINE rb == ac[c].rbuf
<1> DEFINE buf == rb \o data
<1> DEFINE decoded == Len(buf) >= AnsLen
<1> DEFINE m == Len(data)
<1> DEFINE left == IF decoded THEN SubSeq(buf, 1, Len(buf) - AnsLen) ELSE buf
<1> DEFINE ret == IF decoded THEN buf[1][2] ELSE ac[c].ret
<1> DEFINE e == IF decoded THEN NoEvent ELSE ac[c].event
<1> DEFINE n == ac[c].got + m
<1>1. /\ data # << >> /\ ac[c].event.read
      /\ ac' = [ac EXCEPT ![c] = [ac[c] EXCEPT !.got = n, !.rbuf = left, !.ret = ret, !.event = e]]
  BY DEF ClientReads
<1>2. /\ data \in Seq(Unit) /\ m \in Nat \ {0} /\ n <= Len(sock[c].out)
      /\ data[1] = sock[c].out[ac[c].got + 1]
  BY <1>1, UnreadUnits
<1>3. /\ ac[c] \in AppClientOf /\ rb \in Seq(Unit) /\ Len(rb) \in Nat /\ ac[c].got \in Nat
      /\ ac[c].ret \in Nat /\ ac[c].event \in EventBits
  BY LenProperties DEF CInv, AcTypes, AppClientOf
<1> HIDE DEF data, rb
<1>4. /\ buf \in Seq(Unit) /\ Len(buf) = Len(rb) + m
      /\ buf[1] = IF rb # << >> THEN rb[1] ELSE data[1]
  <2>1. buf \in Seq(Unit) /\ Len(buf) = Len(rb) + m
    BY <1>2, <1>3
  <2>2. rb # << >> => Len(rb) >= 1
    BY <1>3
  <2>3. rb # << >> => buf[1] = rb[1]
    BY <1>2, <1>3, <2>2
  <2>4. rb = << >> => buf[1] = data[1]
    BY <1>2, <1>3
  <2> QED
    BY <2>1, <2>3, <2>4
<1> HIDE DEF buf, m
<1>5. AnsLen \in Nat \ {0} /\ Len(buf) \in Nat \ {0}
  BY <1>2, <1>3, <1>4, AppServerAssumption
<1>6. buf[1] \in Unit /\ buf[1][2] \in Nat
  <2>1. buf[1] \in Unit
    BY <1>4, <1>5
  <2> QED
    BY <2>1 DEF Unit
<1>7. left \in Seq(Unit)
  <2>1. CASE decoded
    <3>1. Len(buf) - AnsLen \in Nat /\ Len(buf) - AnsLen <= Len(buf)
      BY <1>5, <2>1
    <3>2. SubSeq(buf, 1, Len(buf) - AnsLen) \in Seq(Unit)
      BY <1>4, <1>5, <3>1
    <3> QED
      BY <2>1, <3>2
  <2> QED
    BY <2>1, <1>4
<1>8. ret \in Nat /\ n \in Nat
  BY <1>2, <1>3, <1>6
<1>9. e \in EventBits
  <2>1. NoEvent \in EventBits
    BY DEF NoEvent, EventBits
  <2> QED
    BY <2>1, <1>3
<1> HIDE DEF left, ret, e, n, decoded
<1>10. ASSUME NEW r \in AppClientOf
       PROVE  LET x == [r EXCEPT !.got = n, !.rbuf = left, !.ret = ret, !.event = e]
              IN  /\ x \in AppClientOf /\ x.got = n /\ x.rbuf = left /\ x.ret = ret /\ x.event = e
                  /\ x.wbuf = r.wbuf /\ x.call = r.call /\ x.calls = r.calls
                  /\ x.last = r.last /\ x.fd = r.fd
  BY <1>7, <1>8, <1>9 DEF AppClientOf
<1>11. PICK x \in AppClientOf :
         /\ ac' = [ac EXCEPT ![c] = x]
         /\ x.got = n /\ x.rbuf = left /\ x.ret = ret /\ x.event = e
         /\ x.wbuf = ac[c].wbuf /\ x.call = ac[c].call /\ x.calls = ac[c].calls
         /\ x.last = ac[c].last /\ x.fd = ac[c].fd
  BY <1>1, <1>3, <1>10
<1>12. AcTypes' /\ ac'[c] = x /\ \A d \in Conn : d # c => ac'[d] = ac[d]
  BY <1>11, OneChanges DEF CInv
<1>13. /\ decoded => /\ left = SubSeq(buf, 1, Len(buf) - AnsLen)
                     /\ ret = buf[1][2] /\ e = NoEvent
       /\ ~ decoded => left = buf /\ ret = ac[c].ret /\ e = ac[c].event
  BY DEF left, ret, e
<1>14. /\ m \in Nat \ {0} /\ buf \in Seq(Unit) /\ Len(buf) = Len(rb) + m
       /\ ac'[c].got = ac[c].got + m /\ ac'[c].got <= Len(sock[c].out)
       /\ buf[1] = IF rb # << >> THEN rb[1] ELSE sock[c].out[ac[c].got + 1]
  BY <1>2, <1>4, <1>11, <1>12 DEF n
<1>15. /\ decoded => /\ ac'[c].rbuf = SubSeq(buf, 1, Len(buf) - AnsLen)
                     /\ ac'[c].ret = buf[1][2] /\ ac'[c].event = NoEvent
       /\ ~ decoded => ac'[c].rbuf = buf /\ ac'[c].ret = ac[c].ret /\ ac'[c].event = ac[c].event
  BY <1>11, <1>12, <1>13
<1> QED
  BY <1>1, <1>11, <1>12, <1>14, <1>15 DEF decoded, rb

LEMMA StepCInv == CInv /\ [ClientNext]_rpcVars => CInv'
<1> SUFFICES ASSUME CInv, [ClientNext]_rpcVars PROVE AcTypes'
  BY ClientStepIInv DEF CInv
<1>1. CASE (ServerStep \/ Crash) /\ UNCHANGED ac
  BY <1>1 DEF CInv, AcTypes
<1>2. CASE UNCHANGED rpcVars
  BY <1>2 DEF CInv, AcTypes, rpcVars
<1>3. ASSUME NEW c \in Conn, Connect(c) \/ CallStarts(c) \/ InCall(c) \/ Delete(c) PROVE AcTypes'
  <2>1. CASE \/ Connect(c) \/ ClientWriteError(c) \/ ClientReadError(c)
            \/ ClientTimeout(c) \/ Delete(c)
    BY <2>1, LetsGoEffect
  <2>2. CASE CallStarts(c)
    BY <2>2, CallStartsEffect
  <2>3. CASE \E n \in 1 .. BufSize : ClientWrites(c, n)
    BY <2>3, ClientWritesEffect
  <2>4. CASE ClientReads(c)
    BY <2>4, ClientReadsEffect
  <2>5. CASE CallReturns(c)
    BY <2>5, CallReturnsEffect
  <2> QED
    BY <1>3, <2>1, <2>2, <2>3, <2>4, <2>5 DEF InCall
<1> QED
  BY <1>1, <1>2, <1>3 DEF ClientNext

\* The invariant of the server composed with its clients.
THEOREM ClientInvAlways == ClientSpec => []CInv
<1> QED
  BY InitCInv, StepCInv, PTL DEF ClientSpec

\* Composed with AppClients, which may time out, go on calling and vanish, and
\* dying at any moment, the server keeps its clients, descriptors and
\* registrations in step and sleeps in no callback.
THEOREM ComposedStaysInStep == ClientSpec => []StaysInStep
<1>1. CInv => StaysInStep
  BY InvInStep DEF CInv, StaysInStep
<1> QED
  BY <1>1, ClientInvAlways, PTL

--------------------------------------------------------------------------------
(***************************************************************************)
(* How often calls are executed.  Units are only counted: what they are    *)
(* does not matter, nor do signals.                                        *)
(***************************************************************************)
\* What the server has yet to execute of a connection, and what it answered.
Held(c) == Len(sock[c].in) + IF c \in DOMAIN clients THEN Len(clients[c].rbuf) ELSE 0
Owed(c) == Len(sock[c].out) + IF c \in DOMAIN clients THEN Len(clients[c].wbuf) ELSE 0

\* d calls are executed, and each took the whole of its request.
Counted(c, d) ==
  /\ d * ReqLen + Held(c) + Len(ac[c].wbuf) <= ac[c].calls * ReqLen
  /\ Owed(c) <= d * AnsLen

CountOf(c) == \E d \in Nat : Counted(c, d)

LEMMA CountTypes ==
  ASSUME IInv, NEW c \in Conn
  PROVE  /\ Held(c) \in Nat /\ Owed(c) \in Nat /\ sock \in [Conn -> Sock] /\ sock[c] \in Sock
         /\ Len(sock[c].in) \in Nat /\ Len(sock[c].out) \in Nat
         /\ DOMAIN clients \subseteq Conn /\ clients \in [DOMAIN clients -> Client]
         /\ c \in DOMAIN clients =>
              /\ clients[c] \in Client
              /\ Len(clients[c].rbuf) \in Nat /\ Len(clients[c].wbuf) \in Nat
<1>1. /\ sock \in [Conn -> Sock] /\ sock[c] \in Sock /\ DOMAIN clients \subseteq Conn
      /\ clients \in [DOMAIN clients -> Client]
      /\ c \in DOMAIN clients => clients[c] \in Client
  BY DEF IInv, Types
<1>2. Len(sock[c].in) \in Nat /\ Len(sock[c].out) \in Nat
  BY <1>1, LenProperties DEF Sock
<1>3. c \in DOMAIN clients => Len(clients[c].rbuf) \in Nat /\ Len(clients[c].wbuf) \in Nat
  BY <1>1, LenProperties DEF Client
<1>4. /\ (IF c \in DOMAIN clients THEN Len(clients[c].rbuf) ELSE 0) \in Nat
      /\ (IF c \in DOMAIN clients THEN Len(clients[c].wbuf) ELSE 0) \in Nat
  BY <1>3
<1>5. ASSUME NEW a \in Nat, NEW b \in Nat PROVE a + b \in Nat
  OBVIOUS
<1>6. Held(c) \in Nat /\ Owed(c) \in Nat
  BY <1>2, <1>4, <1>5 DEF Held, Owed
<1> QED
  BY <1>1, <1>2, <1>3, <1>6

LEMMA CountsAreNat == IInv => \A x \in Conn : Held(x) \in Nat /\ Owed(x) \in Nat
BY CountTypes

\* A step that executes nothing for the connection.
LEMMA NothingExecuted ==
  ASSUME IInv, NEW c \in Conn,
         sock'[c].in = sock[c].in \/ sock'[c].in = << >>, sock'[c].out = sock[c].out,
         c \in DOMAIN clients' =>
           \/ c \in DOMAIN clients /\ clients'[c].rbuf = clients[c].rbuf
                                   /\ clients'[c].wbuf = clients[c].wbuf
           \/ clients'[c].rbuf = << >> /\ clients'[c].wbuf = << >>
  PROVE  Held(c)' <= Held(c) /\ Owed(c)' <= Owed(c)
<1> DEFINE r == IF c \in DOMAIN clients THEN Len(clients[c].rbuf) ELSE 0
<1> DEFINE w == IF c \in DOMAIN clients THEN Len(clients[c].wbuf) ELSE 0
<1>1. r \in Nat /\ w \in Nat /\ Len(sock[c].in) \in Nat /\ Len(sock[c].out) \in Nat
  BY CountTypes
<1>2. Len(<< >>) = 0
  OBVIOUS
<1>3. Len(sock'[c].in) \in {Len(sock[c].in), 0}
  BY <1>2
<1>4. /\ (IF c \in DOMAIN clients' THEN Len(clients'[c].rbuf) ELSE 0) \in {r, 0}
      /\ (IF c \in DOMAIN clients' THEN Len(clients'[c].wbuf) ELSE 0) \in {w, 0}
  BY <1>2
<1> HIDE DEF r, w
<1>5. Held(c) = Len(sock[c].in) + r /\ Owed(c) = Len(sock[c].out) + w
  BY DEF Held, Owed, r, w
<1>6. PICK r1 \in {r, 0}, w1 \in {w, 0}, i1 \in {Len(sock[c].in), 0} :
        Held(c)' = i1 + r1 /\ Owed(c)' = Len(sock[c].out) + w1
  BY <1>3, <1>4 DEF Held, Owed
<1>7. ASSUME NEW a \in Nat, NEW b \in Nat, NEW a1 \in {a, 0}, NEW b1 \in {b, 0}
      PROVE  a1 + b1 <= a + b
  OBVIOUS
<1>8. Held(c)' <= Held(c)
  BY <1>1, <1>5, <1>6, <1>7
<1>9. Owed(c)' <= Owed(c)
  BY <1>1, <1>5, <1>6, <1>7
<1> QED
  BY <1>8, <1>9


\* _read_logged takes one request off the buffer for the answer it adds.
LEMMA ReadRequestCounts ==
  ASSUME IInv, NEW c \in DOMAIN clients, ReadRequest(c)
  PROVE  Held(c)' + ReqLen = Held(c) /\ Owed(c)' = Owed(c) + AnsLen
<1> DEFINE buf == Received(c)
<1> DEFINE rb == clients[c].rbuf
<1> DEFINE wb == clients[c].wbuf
<1> DEFINE rest == SubSeq(buf, ReqLen + 1, Len(buf))
<1> DEFINE both == wb \o Answer(buf[1][1], buf[1][2])
<1>1. /\ Complete(buf) /\ HasRoom(clients[c])
      /\ clients' = [clients EXCEPT ![c].rbuf = rest, ![c].wbuf = both]
      /\ sock' = [sock EXCEPT ![c].in = StillIn(c)]
  BY DEF ReadRequest
<1>2. /\ c \in Conn /\ clients[c] \in Client /\ sock[c] \in Sock
      /\ sock \in [Conn -> Sock] /\ clients \in [DOMAIN clients -> Client]
  BY DEF IInv, Types
<1>3. clients'[c].rbuf = rest /\ clients'[c].wbuf = both /\ c \in DOMAIN clients'
  BY <1>1, <1>2 DEF Client
<1>4. sock'[c].in = StillIn(c) /\ sock'[c].out = sock[c].out
  BY <1>1, <1>2 DEF Sock
<1>5. /\ Len(buf) \in Nat /\ Len(buf) >= ReqLen
      /\ Len(buf) + Len(StillIn(c)) = Len(rb) + Len(sock[c].in)
      /\ Len(StillIn(c)) \in Nat
  BY <1>1, ReceivedUnits, LenProperties DEF Complete
<1>6. Len(rest) = Len(buf) - ReqLen /\ Len(both) = Len(wb) + AnsLen
  BY <1>1, RequestUnits
<1>7. Len(rb) \in Nat /\ Len(wb) \in Nat /\ Len(sock[c].in) \in Nat /\ Len(sock[c].out) \in Nat
  BY <1>2, CountTypes
<1>8. ReqLen \in Nat /\ AnsLen \in Nat
  BY AppServerAssumption
<1> HIDE DEF buf, rb, wb, rest, both
<1>9. ASSUME NEW a \in Nat, NEW s \in Nat, NEW r \in Nat, NEW j \in Nat, a + s = r + j
      PROVE  s + (a - ReqLen) + ReqLen = j + r
  BY <1>8, <1>9
<1>10. Held(c)' = Len(StillIn(c)) + (Len(buf) - ReqLen) /\ Held(c) = Len(sock[c].in) + Len(rb)
  BY <1>3, <1>4, <1>6 DEF Held, rb
<1>11. Owed(c)' = Len(sock[c].out) + (Len(wb) + AnsLen) /\ Owed(c) = Len(sock[c].out) + Len(wb)
  BY <1>3, <1>4, <1>6 DEF Owed, wb
<1>12. Held(c)' + ReqLen = Held(c)
  BY <1>5, <1>7, <1>9, <1>10
<1>13. ASSUME NEW a \in Nat, NEW b \in Nat PROVE a + (b + AnsLen) = a + b + AnsLen
  BY <1>8
<1>14. Owed(c)' = Owed(c) + AnsLen
  BY <1>7, <1>11, <1>13
<1> QED
  BY <1>12, <1>14

\* _appserver_write moves answers to the stream, or loses them with the peer.
LEMMA WriteAnswerCounts ==
  ASSUME IInv, NEW c \in DOMAIN clients, NEW n \in 1 .. BufSize, WriteAnswer(c, n)
  PROVE  Held(c)' = Held(c) /\ Owed(c)' <= Owed(c)
<1> DEFINE wb == clients[c].wbuf
<1> DEFINE out == sock[c].out
<1> DEFINE left == AfterWrite(wb, n)
<1> DEFINE part == SubSeq(wb, 1, n)
<1>1. /\ n <= Len(wb) /\ clients' = [clients EXCEPT ![c].wbuf = left]
      /\ sock' = [sock EXCEPT ![c].out = IF sock[c].peer = "open" THEN @ \o part ELSE @]
  BY DEF WriteAnswer
<1>2. /\ c \in Conn /\ clients[c] \in Client /\ sock[c] \in Sock
      /\ sock \in [Conn -> Sock] /\ clients \in [DOMAIN clients -> Client]
  BY DEF IInv, Types
<1>3. wb \in Seq(Unit) /\ out \in Seq(Unit) /\ Len(wb) \in Nat /\ Len(out) \in Nat
  BY <1>2, LenProperties DEF Client, Sock
<1>4. n \in Nat /\ n <= Len(wb)
  BY <1>1, AppServerAssumption
<1>5. Len(left) = Len(wb) - n /\ part \in Seq(Unit) /\ Len(part) = n
  <2> HIDE DEF wb
  <2>1. Len(left) = Len(wb) - n
    BY <1>3, <1>4, AfterWriteUnits
  <2>2. part \in Seq(Unit) /\ Len(part) = n
    BY <1>3, <1>4
  <2> QED
    BY <2>1, <2>2
<1> HIDE DEF left, part
<1>6. clients'[c].rbuf = clients[c].rbuf /\ clients'[c].wbuf = left /\ c \in DOMAIN clients'
  BY <1>1, <1>2 DEF Client
<1>7. /\ sock'[c].in = sock[c].in
      /\ sock'[c].out = IF sock[c].peer = "open" THEN out \o part ELSE out
  BY <1>1, <1>2 DEF Sock
<1> HIDE DEF wb, out
<1>8. Len(out \o part) = Len(out) + n
  BY <1>3, <1>5
<1>9. Len(sock'[c].out) \in {Len(out), Len(out) + n}
  BY <1>7, <1>8
<1>10. Owed(c)' = Len(sock'[c].out) + (Len(wb) - n) /\ Owed(c) = Len(out) + Len(wb)
  BY <1>5, <1>6 DEF Owed, wb, out
<1>11. ASSUME NEW a \in Nat, NEW b \in Nat, NEW a1 \in {a, a + n} PROVE a1 + (b - n) <= a + b
  BY <1>4
<1>12. Held(c)' = Held(c)
  BY <1>6, <1>7 DEF Held
<1> QED
  BY <1>3, <1>9, <1>10, <1>11, <1>12

\* For any connection the server executes a request, or nothing.
LEMMA ServerStepCounts ==
  ASSUME IInv, ServerStep \/ Crash, NEW c \in Conn
  PROVE  \/ Held(c)' <= Held(c) /\ Owed(c)' <= Owed(c)
         \/ Held(c)' + ReqLen = Held(c) /\ Owed(c)' = Owed(c) + AnsLen
<1> DEFINE Goal == \/ Held(c)' <= Held(c) /\ Owed(c)' <= Owed(c)
                   \/ Held(c)' + ReqLen = Held(c) /\ Owed(c)' = Owed(c) + AnsLen
<1> SUFFICES Goal
  OBVIOUS
<1>1. /\ sock \in [Conn -> Sock] /\ sock[c] \in Sock /\ clients \in [DOMAIN clients -> Client]
      /\ DOMAIN clients \subseteq Conn
  BY DEF IInv, Types
<1>2. CASE SelectReturns \/ EndOfWalk \/ PassEntry \/ AcceptFails
  <2>1. UNCHANGED <<sock, clients>>
    BY <1>2 DEF SelectReturns, EndOfWalk, PassEntry, AcceptFails
  <2> QED
    BY <2>1, NothingExecuted
<1>3. CASE LoopReturns \/ Crash
  <2>1. Exits
    BY <1>3 DEF LoopReturns, Crash
  <2>2. sock'[c].in = << >> /\ sock'[c].out = sock[c].out /\ UNCHANGED clients
    BY <1>1, <2>1 DEF Exits, Sock
  <2> QED
    BY <2>2, NothingExecuted
<1>4. CASE Accept
  <2>1. backlog # << >>
    BY <1>4, AcceptReady DEF Accept
  <2>2. PICK h : /\ sock' = [sock EXCEPT ![h].st = "accepted"]
                 /\ clients' = [d \in DOMAIN clients \cup {h} |->
                                  IF d = h THEN NewClient(LowestFree) ELSE clients[d]]
    BY <1>4, <2>1 DEF Accept
  <2>3. sock'[c].in = sock[c].in /\ sock'[c].out = sock[c].out
    BY <1>1, <2>2 DEF Sock
  <2>4. c = h => clients'[c].rbuf = << >> /\ clients'[c].wbuf = << >>
    BY <2>2 DEF NewClient
  <2>5. c # h /\ c \in DOMAIN clients' => c \in DOMAIN clients /\ clients'[c] = clients[c]
    BY <2>2
  <2> QED
    BY <2>3, <2>4, <2>5, NothingExecuted
<1>5. CASE AcceptDrops
  <2>1. PICK h : sock' = [sock EXCEPT ![h].st = "gone", ![h].in = << >>]
    BY <1>5 DEF AcceptDrops
  <2>2. (sock'[c].in = sock[c].in \/ sock'[c].in = << >>) /\ sock'[c].out = sock[c].out
    BY <1>1, <2>1 DEF Sock
  <2>3. UNCHANGED clients
    BY <1>5 DEF AcceptDrops
  <2> QED
    BY <2>2, <2>3, NothingExecuted
<1>6. ASSUME NEW d \in DOMAIN clients, ReadRequest(d) PROVE Goal
  <2>1. CASE c = d
    BY <1>6, <2>1, ReadRequestCounts
  <2>2. CASE c # d
    <3>1. sock'[c] = sock[c] /\ DOMAIN clients' = DOMAIN clients
      BY <1>1, <1>6, <2>2 DEF ReadRequest
    <3>2. c \in DOMAIN clients => clients'[c] = clients[c]
      BY <1>1, <1>6, <2>2 DEF ReadRequest
    <3> QED
      BY <3>1, <3>2, NothingExecuted
  <2> QED
    BY <2>1, <2>2
<1>7. ASSUME NEW d \in DOMAIN clients, ReadDropsClient(d) \/ ReadNothing(d) PROVE Goal
  <2>1. \/ sock' = [sock EXCEPT ![d].st = "gone", ![d].in = << >>]
        \/ sock' = [sock EXCEPT ![d].st = "gone"]
        \/ sock' = sock
    BY <1>7 DEF ReadDropsClient, ReadNothing
  <2>2. clients' = [x \in DOMAIN clients \ {d} |-> clients[x]] \/ clients' = clients
    BY <1>7 DEF ReadDropsClient, ReadNothing, RemoveClient
  <2>3. (sock'[c].in = sock[c].in \/ sock'[c].in = << >>) /\ sock'[c].out = sock[c].out
    <3>1. \/ sock'[c] = [sock[c] EXCEPT !.st = "gone", !.in = << >>]
          \/ sock'[c] = [sock[c] EXCEPT !.st = "gone"]
          \/ sock'[c] = sock[c]
      BY <1>1, <2>1
    <3> QED
      BY <1>1, <3>1 DEF Sock
  <2>4. c \in DOMAIN clients' => c \in DOMAIN clients /\ clients'[c] = clients[c]
    BY <2>2
  <2> QED
    BY <2>3, <2>4, NothingExecuted
<1>8. ASSUME NEW d \in DOMAIN clients, WriteError(d) PROVE Goal
  <2>1. /\ sock' = [sock EXCEPT ![d].st = "gone", ![d].in = << >>]
        /\ clients' = [clients EXCEPT ![d].fd = -1]
    BY <1>8 DEF WriteError
  <2>2. (sock'[c].in = sock[c].in \/ sock'[c].in = << >>) /\ sock'[c].out = sock[c].out
    <3>1. sock'[c] = [sock[c] EXCEPT !.st = "gone", !.in = << >>] \/ sock'[c] = sock[c]
      BY <1>1, <2>1
    <3> QED
      BY <1>1, <3>1 DEF Sock
  <2>3. DOMAIN clients' = DOMAIN clients
    BY <1>1, <2>1
  <2>4. c \in DOMAIN clients => /\ clients'[c].rbuf = clients[c].rbuf
                                /\ clients'[c].wbuf = clients[c].wbuf
    <3>1. c \in DOMAIN clients => /\ clients[c] \in Client
                                  /\ \/ clients'[c] = [clients[c] EXCEPT !.fd = -1]
                                     \/ clients'[c] = clients[c]
      BY <1>1, <2>1
    <3> QED
      BY <3>1 DEF Client
  <2> QED
    BY <2>2, <2>3, <2>4, NothingExecuted
<1>9. ASSUME NEW d \in DOMAIN clients, NEW n \in 1 .. BufSize, WriteAnswer(d, n) PROVE Goal
  <2>1. CASE c = d
    <3>1. Held(c)' = Held(c) /\ Owed(c)' <= Owed(c)
      BY <1>9, <2>1, WriteAnswerCounts
    <3>2. Held(c) \in Nat
      BY CountTypes
    <3> QED
      BY <3>1, <3>2
  <2>2. CASE c # d
    <3>1. sock'[c] = sock[c] /\ DOMAIN clients' = DOMAIN clients
      BY <1>1, <1>9, <2>2 DEF WriteAnswer
    <3>2. c \in DOMAIN clients => clients'[c] = clients[c]
      BY <1>1, <1>9, <2>2 DEF WriteAnswer
    <3> QED
      BY <3>1, <3>2, NothingExecuted
  <2> QED
    BY <2>1, <2>2
<1> QED
  BY <1>2, <1>3, <1>4, <1>5, <1>6, <1>7, <1>8, <1>9 DEF ServerStep

\* A step of a client leaves what the server holds of the others.
LEMMA HeldAlone ==
  ASSUME NEW c \in Conn, sock'[c].in = sock[c].in, sock'[c].out = sock[c].out, UNCHANGED clients
  PROVE  Held(c)' = Held(c) /\ Owed(c)' = Owed(c)
BY DEF Held, Owed

LEMMA HangupAlone ==
  ASSUME IInv, NEW c \in Conn, NEW d \in Conn, sock' = Hangup(sock, d)
  PROVE  /\ sock'[c].in = sock[c].in /\ sock'[c].out = sock[c].out /\ sock'[c].st = sock[c].st
         /\ sock'[c].sent = sock[c].sent
BY DEF IInv, Types, Sock, Hangup

\* What a client does to the connections.
LEMMA ClientSockets ==
  ASSUME CInv, NEW c \in Conn, NEW d \in Conn,
         \/ Connect(d) \/ CallStarts(d) \/ ClientWriteError(d) \/ ClientReads(d)
         \/ ClientReadError(d) \/ ClientTimeout(d) \/ CallReturns(d) \/ Delete(d)
  PROVE  /\ sock'[c].in = sock[c].in /\ sock'[c].out = sock[c].out
         /\ sock'[c].st = sock[c].st \/ (c = d /\ Connect(c))
         /\ UNCHANGED <<clients, pc>>
<1>1. sock \in [Conn -> Sock] /\ sock[c] \in Sock
  BY DEF CInv, IInv, Types
<1>2. CASE Connect(d)
  <2>1. UNCHANGED <<clients, pc>> /\ sock' = [sock EXCEPT ![d].st = "waiting"]
    BY <1>2 DEF Connect, PeerConnects, server
  <2> QED
    BY <1>1, <1>2, <2>1 DEF Sock
<1>3. CASE CallStarts(d) \/ ClientReads(d) \/ ClientTimeout(d) \/ CallReturns(d)
  BY <1>3 DEF CallStarts, ClientReads, ClientTimeout, CallReturns, vars
<1>4. CASE ClientWriteError(d) \/ ClientReadError(d) \/ Delete(d)
  <2>1. sock' = Hangup(sock, d) /\ UNCHANGED <<clients, pc>>
    BY <1>4 DEF ClientWriteError, ClientReadError, Delete, server
  <2> QED
    BY <2>1, HangupAlone DEF CInv
<1> QED
  BY <1>2, <1>3, <1>4

\* The units _appclient_write sends arrive, unless the connection is gone.
LEMMA ClientWritesSockets ==
  ASSUME CInv, NEW c \in Conn, NEW d \in Conn, NEW n, ClientWrites(d, n)
  PROVE  /\ sock'[c].in = IF c = d /\ sock[c].st # "gone"
                          THEN sock[c].in \o SubSeq(ac[c].wbuf, 1, n) ELSE sock[c].in
         /\ sock'[c].out = sock[c].out /\ sock'[c].st = sock[c].st /\ sock'[c].peer = sock[c].peer
         /\ UNCHANGED <<clients, pc>>
<1>1. sock \in [Conn -> Sock] /\ sock[c] \in Sock
  BY DEF CInv, IInv, Types
<1>2. /\ UNCHANGED <<clients, pc>>
      /\ sock' = [sock EXCEPT ![d].in = IF sock[d].st = "gone" THEN @ ELSE @ \o SubSeq(ac[d].wbuf, 1, n)]
  BY DEF ClientWrites, server
<1>3. CASE c # d
  BY <1>1, <1>2, <1>3
<1>4. CASE c = d
  <2>1. PICK s : s = IF sock[c].st = "gone" THEN sock[c].in ELSE sock[c].in \o SubSeq(ac[c].wbuf, 1, n)
    OBVIOUS
  <2>2. sock'[c] = [sock[c] EXCEPT !.in = s]
    BY <1>1, <1>2, <1>4, <2>1
  <2>3. /\ sock'[c].in = s /\ sock'[c].out = sock[c].out /\ sock'[c].st = sock[c].st
        /\ sock'[c].peer = sock[c].peer
    BY <1>1, <2>2 DEF Sock
  <2> QED
    BY <1>2, <1>4, <2>1, <2>3
<1> QED
  BY <1>3, <1>4

Counts == \A c \in Conn : CountOf(c)

LEMMA StepCounts == CInv /\ Counts /\ [ClientNext]_rpcVars => Counts'
<1> SUFFICES ASSUME CInv, Counts, [ClientNext]_rpcVars, NEW c \in Conn PROVE CountOf(c)'
  BY DEF Counts
<1> DEFINE h == Held(c)
<1> DEFINE o == Owed(c)
<1> DEFINE w == Len(ac[c].wbuf)
<1> DEFINE n == ac[c].calls
<1>1. /\ h \in Nat /\ o \in Nat /\ Held(c)' \in Nat /\ Owed(c)' \in Nat
      /\ w \in Nat /\ n \in Nat
  <2>1. IInv'
    BY StepCInv DEF CInv
  <2>2. IInv' => (\A x \in Conn : Held(x) \in Nat /\ Owed(x) \in Nat)'
    BY CountsAreNat, PTL
  <2>3. Held(c)' \in Nat /\ Owed(c)' \in Nat
    BY <2>1, <2>2
  <2>4. h \in Nat /\ o \in Nat
    BY CountsAreNat DEF CInv
  <2>5. w \in Nat /\ n \in Nat
    BY LenProperties DEF CInv, AcTypes, AppClientOf
  <2> QED
    BY <2>3, <2>4, <2>5
<1>2. PICK d \in Nat : d * ReqLen + h + w <= n * ReqLen /\ o <= d * AnsLen
  BY DEF Counts, CountOf, Counted
<1>3. /\ ReqLen \in Nat /\ AnsLen \in Nat /\ d * ReqLen \in Nat /\ d * AnsLen \in Nat
      /\ n * ReqLen \in Nat /\ (d + 1) * ReqLen = d * ReqLen + ReqLen
      /\ (d + 1) * AnsLen = d * AnsLen + AnsLen /\ (n + 1) * ReqLen = n * ReqLen + ReqLen
  BY <1>1, AppServerAssumption, Multiple
<1> DEFINE D == d * ReqLen
<1> DEFINE A == d * AnsLen
<1> DEFINE N == n * ReqLen
<1> HIDE DEF h, o, w, n, D, A, N
<1>4. /\ D \in Nat /\ A \in Nat /\ N \in Nat /\ ReqLen \in Nat /\ AnsLen \in Nat
      /\ D + h + w <= N /\ o <= A
  BY <1>2, <1>3 DEF D, A, N
<1>5. CASE (ServerStep \/ Crash) /\ UNCHANGED ac
  <2>1. CASE Held(c)' <= h /\ Owed(c)' <= o
    <3>1. D + Held(c)' + w <= N /\ Owed(c)' <= A
      BY <1>1, <1>4, <2>1
    <3> QED
      BY <1>5, <3>1 DEF CountOf, Counted, D, A, N, w, n
  <2>2. CASE Held(c)' + ReqLen = h /\ Owed(c)' = o + AnsLen
    <3>1. (D + ReqLen) + Held(c)' + w <= N /\ Owed(c)' <= A + AnsLen
      BY <1>1, <1>4, <2>2
    <3>2. d + 1 \in Nat /\ Counted(c, d + 1)'
      BY <1>3, <1>5, <3>1 DEF Counted, D, A, N, w, n
    <3> QED
      BY <3>2 DEF CountOf
  <2> QED
    BY <1>5, <2>1, <2>2, ServerStepCounts DEF CInv, h, o
<1>6. ASSUME Held(c)' = h, Owed(c)' = o, ac'[c].wbuf = ac[c].wbuf, ac'[c].calls = n
      PROVE  CountOf(c)'
  BY <1>6, <1>2 DEF CountOf, Counted, w
<1>7. CASE UNCHANGED rpcVars
  <2>1. UNCHANGED <<sock, clients, ac>>
    BY <1>7 DEF rpcVars, vars
  <2> QED
    BY <2>1, <1>6, HeldAlone DEF h, o, n
<1>8. ASSUME NEW e \in Conn,
             \/ Connect(e) \/ ClientWriteError(e) \/ ClientReads(e)
             \/ ClientReadError(e) \/ ClientTimeout(e) \/ CallReturns(e) \/ Delete(e)
      PROVE  CountOf(c)'
  <2>1. Held(c)' = h /\ Owed(c)' = o
    BY <1>8, ClientSockets, HeldAlone DEF h, o
  <2>2. ac'[c].wbuf = ac[c].wbuf /\ ac'[c].calls = n
    BY <1>8, LetsGoEffect, ClientReadsEffect, CallReturnsEffect DEF n
  <2> QED
    BY <2>1, <2>2, <1>6
<1>9. ASSUME NEW e \in Conn, CallStarts(e) PROVE CountOf(c)'
  <2>1. Held(c)' = h /\ Owed(c)' = o
    BY <1>9, ClientSockets, HeldAlone DEF h, o
  <2>2. CASE c # e
    BY <1>6, <1>9, <2>1, <2>2, CallStartsEffect DEF n
  <2>3. CASE c = e
    <3>1. /\ ac'[c].wbuf = ac[c].wbuf \o Request(c, n + 1) /\ ac'[c].calls = n + 1
          /\ Len(Request(c, n + 1)) = ReqLen /\ Request(c, n + 1) \in Seq(Unit)
          /\ ac[c].wbuf \in Seq(Unit)
      BY <1>9, <2>3, CallStartsEffect DEF n, CInv, AcTypes, AppClientOf
    <3>2. Len(ac'[c].wbuf) = w + ReqLen
      <4>1. ASSUME NEW a \in Seq(Unit), NEW b \in Seq(Unit) PROVE Len(a \o b) = Len(a) + Len(b)
        OBVIOUS
      <4> QED
        BY <3>1, <4>1 DEF w
    <3>3. D + h + (w + ReqLen) <= N + ReqLen
      BY <1>1, <1>4
    <3>4. Counted(c, d)'
      BY <1>2, <1>3, <2>1, <3>1, <3>2, <3>3 DEF Counted, D, N
    <3> QED
      BY <3>4 DEF CountOf
  <2> QED
    BY <2>2, <2>3
<1>10. ASSUME NEW e \in Conn, NEW x \in 1 .. BufSize, ClientWrites(e, x) PROVE CountOf(c)'
  <2>1. CASE c # e
    <3>1. Held(c)' = h /\ Owed(c)' = o
      BY <1>10, <2>1, ClientWritesSockets, HeldAlone DEF h, o
    <3>2. ac'[c] = ac[c]
      BY <1>10, <2>1, ClientWritesEffect
    <3> QED
      BY <3>1, <3>2, <1>6 DEF n
  <2>2. CASE c = e
    <3> DEFINE part == SubSeq(ac[c].wbuf, 1, x)
    <3>1. /\ x \in Nat /\ x <= w /\ part \in Seq(Unit) /\ Len(part) = x
          /\ Len(AfterWrite(ac[c].wbuf, x)) = w - x
      BY <1>10, <2>2, ClientWritesUnits DEF w
    <3>2. ac'[c].calls = n /\ Len(ac'[c].wbuf) = w - x
      BY <1>10, <2>2, <3>1, ClientWritesEffect DEF n
    <3>3. /\ sock'[c].in = IF sock[c].st # "gone" THEN sock[c].in \o part ELSE sock[c].in
          /\ sock'[c].out = sock[c].out /\ UNCHANGED clients
      BY <1>10, <2>2, ClientWritesSockets
    <3> HIDE DEF part
    <3>4. sock[c].in \in Seq(Unit) /\ Len(sock[c].in) \in Nat
      BY LenProperties DEF CInv, IInv, Types, Sock
    <3>5. Len(sock[c].in \o part) = Len(sock[c].in) + x
      BY <3>1, <3>4, ConcatProperties
    <3>6. Len(sock'[c].in) \in {Len(sock[c].in), Len(sock[c].in) + x}
      BY <3>3, <3>5
    <3> DEFINE r == IF c \in DOMAIN clients THEN Len(clients[c].rbuf) ELSE 0
    <3>7. r \in Nat /\ h = Len(sock[c].in) + r /\ Held(c)' = Len(sock'[c].in) + r
      BY <3>3, CountTypes DEF Held, h, CInv
    <3> HIDE DEF r
    <3>8. Held(c)' <= h + x
      <4> DEFINE q == Len(sock[c].in)
                 p == Len(sock'[c].in)
      <4>1. q \in Nat /\ p \in {q, q + x}
        BY <3>4, <3>6
      <4>2. r \in Nat /\ h = q + r /\ Held(c)' = p + r
        BY <3>7
      <4> HIDE DEF p, q, h
      <4> QED
        BY <3>1, <4>1, <4>2
    <3>9. Owed(c)' = o
      BY <3>3 DEF Owed, o
    <3>10. D + Held(c)' + (w - x) <= N
      BY <1>1, <1>4, <3>1, <3>8
    <3>11. Counted(c, d)'
      BY <1>2, <3>2, <3>9, <3>10 DEF Counted, D, N
    <3> QED
      BY <3>11 DEF CountOf
  <2> QED
    BY <2>1, <2>2
<1> QED
  BY <1>5, <1>7, <1>8, <1>9, <1>10 DEF ClientNext, InCall

LEMMA InitCounts == ClientInit => Counts
<1> SUFFICES ASSUME ClientInit, NEW c \in Conn PROVE Counted(c, 0)
  BY DEF Counts, CountOf
<1>1. /\ sock[c].in = << >> /\ sock[c].out = << >> /\ DOMAIN clients = {}
      /\ ac[c].wbuf = << >> /\ ac[c].calls = 0
  BY DEF ClientInit, Init, NewAppClient
<1>2. Held(c) = 0 /\ Owed(c) = 0 /\ Len(ac[c].wbuf) = 0
  BY <1>1 DEF Held, Owed
<1> QED
  BY <1>1, <1>2, AppServerAssumption DEF Counted

\* A request is executed once at most: not when its call timed out and the program
\* made another, not when the connection or the server went away, and not when a
\* write() of either side was cut short.
THEOREM ServerExecutesOnce == ClientSpec => []ExecutedAtMostOnce
<1>1. CInv /\ Counts => ExecutedAtMostOnce
  <2> SUFFICES ASSUME CInv, Counts, NEW c \in Conn PROVE Executed(c) <= ac[c].calls
    BY DEF ExecutedAtMostOnce
  <2>1. PICK d \in Nat : Counted(c, d)
    BY DEF Counts, CountOf
  <2>2. Executed(c) = Owed(c) \div AnsLen
    BY DEF Executed, Owed
  <2>3. Held(c) \in Nat /\ Owed(c) \in Nat /\ Len(ac[c].wbuf) \in Nat /\ ac[c].calls \in Nat
    BY CountTypes, LenProperties DEF CInv, AcTypes, AppClientOf
  <2>4. ASSUME NEW a \in Nat, NEW b \in Nat \ {0}, NEW q \in Nat, a <= q * b PROVE a \div b <= q
    BY <2>4
  <2>5. Owed(c) \div AnsLen <= d
    BY <2>1, <2>3, <2>4, AppServerAssumption DEF Counted
  <2>6. ASSUME NEW b \in Nat \ {0}, NEW p \in Nat, NEW q \in Nat, NEW a \in Nat, NEW e \in Nat,
               p * b + a + e <= q * b
        PROVE  p <= q
    <3>1. p * b \in Nat /\ q * b \in Nat
      BY Multiple
    <3>2. p * b <= q * b
      BY <2>6, <3>1
    <3>3. q < p => (q + 1) * b <= p * b
      OBVIOUS
    <3>4. (q + 1) * b = q * b + b
      OBVIOUS
    <3> QED
      BY <3>1, <3>2, <3>3, <3>4
  <2>7. d <= ac[c].calls
    BY <2>1, <2>3, <2>6, AppServerAssumption DEF Counted
  <2>8. ASSUME NEW a \in Nat, NEW b \in Nat \ {0} PROVE a \div b \in Nat
    OBVIOUS
  <2>9. Owed(c) \div AnsLen \in Nat
    BY <2>3, <2>8, AppServerAssumption
  <2> QED
    BY <2>2, <2>3, <2>5, <2>7, <2>9
<1> QED
  BY <1>1, InitCounts, StepCounts, ClientInvAlways, PTL DEF ClientSpec


--------------------------------------------------------------------------------
(***************************************************************************)
(* Which answer a call gets.                                               *)
(***************************************************************************)
\* The units of its calls a client has sent, lost ones included.
Asked(c) == ac[c].calls * ReqLen - Len(ac[c].wbuf)

\* The requests are in order, and the last of them may be in buf_write yet.
AskOf(c) ==
  /\ StreamOf(c, Asked(c))
  /\ \A k \in 1 .. Len(ac[c].wbuf) : ac[c].wbuf[k] = ReqUnit(c, Asked(c) + k)
  /\ sock[c].st = "none" => ac[c].fd = "none" /\ ac[c].call = 0

Asks == \A c \in Conn : AskOf(c)

LEMMA InitAsks == ClientInit => Asks
<1> SUFFICES ASSUME ClientInit, NEW c \in Conn PROVE AskOf(c)
  BY DEF Asks
<1>1. /\ sock[c].st = "none" /\ sock[c].sent = 0 /\ sock[c].in = << >> /\ sock[c].out = << >>
      /\ Live = {}
  BY DEF ClientInit, Init, Live
<1>2. ac[c].wbuf = << >> /\ ac[c].calls = 0 /\ ac[c].fd = "none" /\ ac[c].call = 0
  BY DEF ClientInit, NewAppClient
<1>3. 0 * ReqLen = 0 /\ 0 * AnsLen = 0
  BY AppServerAssumption, Multiple
<1>4. Asked(c) = 0
  BY <1>2, <1>3 DEF Asked
<1>5. Served(sock[c], c, << >>, << >>, 0, 0)
  BY <1>1, <1>3 DEF Served
<1> QED
  BY <1>1, <1>2, <1>4, <1>5 DEF AskOf, StreamOf

\* A connection whose streams a step of a client does not touch.
LEMMA AskAlone ==
  ASSUME NEW c \in Conn, AskOf(c),
         sock'[c].in = sock[c].in, sock'[c].out = sock[c].out, UNCHANGED <<clients, pc>>,
         sock'[c].peer = "open" => sock[c].peer = "open",
         sock'[c].st = sock[c].st \/ (sock[c].st = "none" /\ sock'[c].st = "waiting"),
         ac'[c].wbuf = ac[c].wbuf, ac'[c].calls = ac[c].calls,
         sock'[c].st = "none" => ac'[c].fd = "none" /\ ac'[c].call = 0
  PROVE  AskOf(c)'
<1>1. PICK t : t = Asked(c)
  OBVIOUS
<1>2. Asked(c)' = t
  BY <1>1 DEF Asked
<1>3. ASSUME NEW rb, NEW wb, NEW x, Served(sock[c], c, rb, wb, x, t)
      PROVE  Served(sock'[c], c, rb, wb, x, t)
  BY <1>3 DEF Served
<1>4. StreamOf(c, t)'
  <2>1. StreamOf(c, t)
    BY <1>1 DEF AskOf
  <2> QED
    BY <2>1, <1>3 DEF StreamOf, Live
<1> QED
  BY <1>1, <1>2, <1>4 DEF AskOf

\* The units of a request, by their places in the stream.
LEMMA RequestPlaces ==
  ASSUME NEW c, NEW n \in Nat, NEW k \in 1 .. ReqLen
  PROVE  Request(c, n + 1)[k] = ReqUnit(c, n * ReqLen + k)
<1>1. ReqLen \in Nat \ {0}
  BY AppServerAssumption
<1>2. k - 1 \in 0 .. ReqLen - 1 /\ n * ReqLen + k - 1 = n * ReqLen + (k - 1)
  BY <1>1, Multiple
<1>3. (n * ReqLen + k - 1) \div ReqLen = n /\ (n * ReqLen + k - 1) % ReqLen = k - 1
  BY <1>1, <1>2, DivMod
<1>4. ReqUnit(c, n * ReqLen + k) = <<c, n + 1, k>>
  BY <1>1, <1>3 DEF ReqUnit
<1> QED
  BY <1>1, <1>4 DEF Request

\* appclient_call adds its request after the ones still in buf_write.
LEMMA CallStartsAsks ==
  ASSUME CInv, NEW c \in Conn, CallStarts(c), AskOf(c)
  PROVE  AskOf(c)'
<1>1. PICK w \in Seq(Unit), n \in Nat : w = ac[c].wbuf /\ n = ac[c].calls
  BY DEF CInv, AcTypes, AppClientOf
<1>2. PICK req \in Seq(Unit), N \in Nat : req = Request(c, n + 1) /\ N = n * ReqLen
  BY <1>1, CallStartsEffect, AppServerAssumption, Multiple
<1>3. /\ ac'[c].wbuf = w \o req /\ ac'[c].calls = n + 1 /\ Len(req) = ReqLen /\ Len(w) \in Nat
  BY <1>1, <1>2, CallStartsEffect, LenProperties
<1>4. UNCHANGED <<sock, clients, pc>> /\ ac[c].fd # "none"
  BY DEF CallStarts, vars
<1>5. ReqLen \in Nat \ {0} /\ (n + 1) * ReqLen = N + ReqLen
  BY <1>2, AppServerAssumption, Multiple
<1>6. \A k \in 1 .. ReqLen : req[k] = ReqUnit(c, N + k)
  BY <1>2, RequestPlaces
<1>7. PICK both, t : both = w \o req /\ t = N - Len(w)
  OBVIOUS
<1>8. Asked(c) = t
  BY <1>1, <1>2, <1>7 DEF Asked
<1>9. /\ Len(both) = Len(w) + ReqLen
      /\ \A k \in 1 .. Len(w) + ReqLen : both[k] = IF k <= Len(w) THEN w[k] ELSE req[k - Len(w)]
  <2>1. ASSUME NEW a \in Seq(Unit), NEW b \in Seq(Unit)
        PROVE  /\ Len(a \o b) = Len(a) + Len(b)
               /\ \A k \in 1 .. Len(a) + Len(b) : (a \o b)[k] = IF k <= Len(a) THEN a[k] ELSE b[k - Len(a)]
    OBVIOUS
  <2> QED
    BY <2>1, <1>3, <1>7
<1>10. Asked(c)' = t
  <2>1. Asked(c)' = (n + 1) * ReqLen - Len(both)
    BY <1>3, <1>7 DEF Asked
  <2>2. N + ReqLen - (Len(w) + ReqLen) = N - Len(w)
    BY <1>3, <1>5
  <2> QED
    BY <2>1, <2>2, <1>5, <1>7, <1>9
<1>11. \A k \in 1 .. Len(w) : w[k] = ReqUnit(c, t + k)
  BY <1>1, <1>8 DEF AskOf
<1>12. \A k \in 1 .. Len(both) : both[k] = ReqUnit(c, t + k)
  <2> SUFFICES ASSUME NEW k \in 1 .. Len(w) + ReqLen
               PROVE  both[k] = ReqUnit(c, t + k)
    BY <1>9
  <2>1. CASE k <= Len(w)
    BY <1>3, <1>9, <1>11, <2>1
  <2>2. CASE ~ (k <= Len(w))
    <3>1. k - Len(w) \in 1 .. ReqLen /\ t + k = N + (k - Len(w))
      BY <1>3, <1>5, <1>7, <2>2
    <3> QED
      BY <1>6, <1>9, <2>2, <3>1
  <2> QED
    BY <2>1, <2>2
<1>13. StreamOf(c, t)'
  <2>1. StreamOf(c, t) /\ sock'[c] = sock[c] /\ UNCHANGED <<clients, pc>>
    BY <1>4, <1>8 DEF AskOf
  <2> QED
    BY <2>1, StreamAlone DEF Live
<1>14. sock'[c].st # "none"
  BY <1>4 DEF AskOf
<1> QED
  BY <1>3, <1>7, <1>10, <1>12, <1>13, <1>14 DEF AskOf

\* _appclient_write, uninterrupted, sends all that is in buf_write.
LEMMA ClientWritesAsks ==
  ASSUME CInv, NEW c \in Conn, NEW x, ClientWrites(c, x), AskOf(c), "signal" \notin ClientFaults
  PROVE  AskOf(c)' /\ ac'[c].wbuf = << >>
<1>1. PICK w \in Seq(Unit), n \in Nat : w = ac[c].wbuf /\ n = ac[c].calls
  BY DEF CInv, AcTypes, AppClientOf
<1>2. PICK N \in Nat : N = n * ReqLen
  BY AppServerAssumption, Multiple
<1>3. Len(w) \in Nat
  BY LenProperties
<1>4. x = Len(w) /\ ac[c].call # 0
  <2>1. x \in 1 .. Len(w) /\ ~ (x < Len(w))
    BY <1>1 DEF ClientWrites
  <2> QED
    BY <1>3, <2>1 DEF ClientWrites, Running
<1>5. SubSeq(w, 1, x) = w /\ AfterWrite(w, x) = << >>
  <2>1. AfterWrite(w, x) \in Seq(Unit) /\ Len(AfterWrite(w, x)) = 0
    BY <1>3, <1>4, AfterWriteUnits
  <2> QED
    BY <1>3, <1>4, <2>1
<1>6. ac'[c].wbuf = << >> /\ ac'[c].calls = n
  BY <1>1, <1>5, ClientWritesEffect
<1>7. /\ sock'[c].in = IF sock[c].st # "gone" THEN sock[c].in \o w ELSE sock[c].in
      /\ sock'[c].out = sock[c].out /\ sock'[c].st = sock[c].st /\ sock'[c].peer = sock[c].peer
      /\ UNCHANGED <<clients, pc>>
  <2>1. SubSeq(ac[c].wbuf, 1, x) = w
    BY <1>1, <1>5
  <2> QED
    BY <2>1, ClientWritesSockets
<1>8. sock[c].st # "none" /\ sock[c] \in Sock /\ \A d \in DOMAIN clients : clients[d] \in Client
  BY <1>4 DEF AskOf, CInv, IInv, Types
<1>9. PICK t : t = N - Len(w)
  OBVIOUS
<1>10. Asked(c) = t /\ t + Len(w) = N
  BY <1>1, <1>2, <1>3, <1>9 DEF Asked
<1>11. Asked(c)' = N
  <2>1. Asked(c)' = N - 0
    BY <1>2, <1>6 DEF Asked
  <2> QED
    BY <2>1
<1>12. StreamOf(c, N)'
  <2>1. CASE sock[c].st = "gone"
    BY <1>7, <1>8, <2>1 DEF AskOf, StreamOf, Live
  <2>2. CASE sock[c].st # "gone"
    <3>1. StreamOf(c, t) /\ \A k \in 1 .. Len(w) : w[k] = ReqUnit(c, t + k)
      BY <1>1, <1>10 DEF AskOf
    <3>2. StreamOf(c, t + Len(w))'
      BY <1>7, <1>8, <2>2, <3>1, StreamGrows
    <3> QED
      BY <3>2, <1>10
  <2> QED
    BY <2>1, <2>2
<1> QED
  BY <1>6, <1>7, <1>8, <1>11, <1>12 DEF AskOf

LEMMA StepAsks ==
  ASSUME "signal" \notin Faults, "signal" \notin ClientFaults
  PROVE  CInv /\ Asks /\ [ClientNext]_rpcVars => Asks'
<1> SUFFICES ASSUME CInv, Asks, [ClientNext]_rpcVars, NEW c \in Conn PROVE AskOf(c)'
  BY DEF Asks
<1>1. AskOf(c) /\ sock \in [Conn -> Sock] /\ sock[c] \in Sock
  BY DEF Asks, CInv, IInv, Types
<1>2. CASE (ServerStep \/ Crash) /\ UNCHANGED ac
  <2>1. PICK t : t = Asked(c)
    OBVIOUS
  <2>2. Asked(c)' = t
    BY <1>2, <2>1 DEF Asked
  <2>3. StreamOf(c, t)'
    BY <1>1, <1>2, <2>1, ServerStepStream, ExitsStream DEF AskOf, CInv, Crash
  <2>4. sock'[c].st = "none" => sock[c].st = "none"
    <3>1. CASE ServerStep
      BY <3>1, SentKept DEF CInv
    <3>2. CASE Crash
      BY <3>2, <1>1 DEF Crash, Exits, Sock
    <3> QED
      BY <3>1, <3>2, <1>2
  <2> QED
    BY <1>1, <1>2, <2>1, <2>2, <2>3, <2>4 DEF AskOf
<1>3. CASE UNCHANGED rpcVars
  <2>1. UNCHANGED <<sock, clients, pc, ac>>
    BY <1>3 DEF rpcVars, vars
  <2> QED
    BY <1>1, <2>1, AskAlone DEF AskOf
<1>4. ASSUME NEW d \in Conn, Connect(d) PROVE AskOf(c)'
  <2>1. /\ UNCHANGED <<clients, pc>> /\ sock[d].st = "none" /\ sock' = [sock EXCEPT ![d].st = "waiting"]
    BY <1>4 DEF Connect, PeerConnects, server
  <2>2. /\ sock'[c].in = sock[c].in /\ sock'[c].out = sock[c].out /\ sock'[c].peer = sock[c].peer
        /\ IF c = d THEN sock'[c].st = "waiting" ELSE sock'[c].st = sock[c].st
    BY <1>1, <2>1 DEF Sock
  <2>3. /\ ac'[c].wbuf = ac[c].wbuf /\ ac'[c].calls = ac[c].calls /\ ac'[c].call = ac[c].call
        /\ c # d => ac'[c] = ac[c]
    BY <1>4, LetsGoEffect
  <2> QED
    BY <1>1, <2>1, <2>2, <2>3, AskAlone DEF AskOf
<1>5. ASSUME NEW d \in Conn, CallStarts(d) PROVE AskOf(c)'
  <2>1. CASE c = d
    BY <1>1, <1>5, <2>1, CallStartsAsks
  <2>2. CASE c # d
    <3>1. UNCHANGED <<sock, clients, pc>> /\ ac'[c] = ac[c]
      BY <1>5, <2>2, CallStartsEffect DEF CallStarts, vars
    <3> QED
      BY <1>1, <3>1, AskAlone DEF AskOf
  <2> QED
    BY <2>1, <2>2
<1>6. ASSUME NEW d \in Conn, NEW x \in 1 .. BufSize, ClientWrites(d, x) PROVE AskOf(c)'
  <2>1. CASE c = d
    BY <1>1, <1>6, <2>1, ClientWritesAsks
  <2>2. CASE c # d
    <3>1. /\ sock'[c].in = sock[c].in /\ sock'[c].out = sock[c].out /\ sock'[c].st = sock[c].st
          /\ sock'[c].peer = sock[c].peer /\ UNCHANGED <<clients, pc>> /\ ac'[c] = ac[c]
      BY <1>6, <2>2, ClientWritesSockets, ClientWritesEffect
    <3> QED
      BY <1>1, <3>1, AskAlone DEF AskOf
  <2> QED
    BY <2>1, <2>2
<1>7. ASSUME NEW d \in Conn, ClientReads(d) \/ CallReturns(d) PROVE AskOf(c)'
  <2>1. UNCHANGED <<sock, clients, pc>>
    BY <1>7 DEF ClientReads, CallReturns, vars
  <2>2. /\ ac'[c].wbuf = ac[c].wbuf /\ ac'[c].calls = ac[c].calls /\ ac'[c].fd = ac[c].fd
        /\ ac'[c].call = ac[c].call \/ ac'[c].call = 0
    BY <1>7, ClientReadsEffect, CallReturnsEffect
  <2> QED
    BY <1>1, <2>1, <2>2, AskAlone DEF AskOf
<1>8. ASSUME NEW d \in Conn,
             ClientWriteError(d) \/ ClientReadError(d) \/ ClientTimeout(d) \/ Delete(d)
      PROVE  AskOf(c)'
  <2>1. sock' = Hangup(sock, d) \/ sock' = sock
    BY <1>8 DEF ClientWriteError, ClientReadError, ClientTimeout, Delete, vars
  <2>2. UNCHANGED <<clients, pc>>
    BY <1>8 DEF ClientWriteError, ClientReadError, ClientTimeout, Delete, vars, server
  <2>3. /\ sock'[c].in = sock[c].in /\ sock'[c].out = sock[c].out /\ sock'[c].st = sock[c].st
        /\ sock'[c].peer = "open" => sock[c].peer = "open"
    <3>1. sock' = [sock EXCEPT ![d].peer = "closed"] \/ sock' = sock
      BY <2>1 DEF Hangup
    <3>2. sock'[c] = [sock[c] EXCEPT !.peer = "closed"] \/ sock'[c] = sock[c]
      BY <1>1, <3>1
    <3> QED
      BY <1>1, <3>2 DEF Sock
  <2>4. /\ ac'[c].wbuf = ac[c].wbuf /\ ac'[c].calls = ac[c].calls /\ ac'[c].call = ac[c].call
        /\ c # d => ac'[c] = ac[c]
    BY <1>8, LetsGoEffect
  <2>5. c = d => sock[c].st # "none"
    <3>1. CASE ClientWriteError(d) \/ ClientReadError(d) \/ ClientTimeout(d)
      BY <1>1, <3>1 DEF ClientWriteError, ClientReadError, ClientTimeout, Running, AskOf
    <3>2. CASE Delete(d)
      BY <1>1, <3>2 DEF Delete, AskOf
    <3> QED
      BY <1>8, <3>1, <3>2
  <2> QED
    BY <1>1, <2>2, <2>3, <2>4, <2>5, AskAlone DEF AskOf
<1> QED
  BY <1>2, <1>3, <1>4, <1>5, <1>6, <1>7, <1>8 DEF ClientNext, InCall


\* A client has taken a answers.  As long as every call has had its own (the last
\* one to return, and so all before it) it is the one to the call before; else it
\* is behind, for ever, since a call takes one answer at most.
Taken(x, a) ==
  /\ x.got = a * AnsLen + Len(x.rbuf)
  /\ x.rbuf # << >> => x.rbuf[1][2] \in 1 .. a + 1
  /\ x.call \in {0, x.calls}
  /\ x.event.read \/ x.event.write => x.ret = 0
  /\ x.last.ret = x.last.call =>
       /\ x.call = 0 => a = x.calls
       /\ x.call # 0 /\ x.ret = 0 => a = x.call - 1 /\ (x.rbuf # << >> => x.rbuf[1][2] = a + 1)
       /\ x.call # 0 /\ x.ret # 0 => a = x.call /\ x.ret = a
  /\ x.last.ret # x.last.call =>
       /\ x.call = 0 => a < x.calls
       /\ x.call # 0 /\ x.ret = 0 => a < x.call - 1
       /\ x.call # 0 /\ x.ret # 0 => a < x.call /\ x.ret <= a

TakeOf(c) == ac[c].got <= Len(sock[c].out) /\ \E a \in Nat : Taken(ac[c], a)

Takes == \A c \in Conn : TakeOf(c)

LEMMA InitTakes == ClientInit => Takes
<1> SUFFICES ASSUME ClientInit, NEW c \in Conn PROVE TakeOf(c)
  BY DEF Takes
<1>1. sock[c].out = << >> /\ ac[c] = NewAppClient
  BY DEF ClientInit, Init
<1>2. 0 * AnsLen = 0
  BY AppServerAssumption, Multiple
<1>3. Taken(NewAppClient, 0)
  BY <1>2 DEF Taken, NewAppClient, NoEvent
<1> QED
  BY <1>1, <1>3 DEF TakeOf, NewAppClient

\* The stream of answers only grows.
LEMMA OutGrows ==
  ASSUME IInv, ServerStep \/ Crash, NEW c \in Conn
  PROVE  Len(sock'[c].out) >= Len(sock[c].out)
<1>1. /\ sock \in [Conn -> Sock] /\ sock[c] \in Sock /\ DOMAIN clients \subseteq Conn
      /\ sock[c].out \in Seq(Unit) /\ Len(sock[c].out) \in Nat
  BY LenProperties DEF IInv, Types, Sock
<1> SUFFICES ASSUME sock'[c].out # sock[c].out PROVE Len(sock'[c].out) >= Len(sock[c].out)
  BY <1>1
<1>2. CASE SelectReturns \/ EndOfWalk \/ PassEntry \/ AcceptFails
  BY <1>2 DEF SelectReturns, EndOfWalk, PassEntry, AcceptFails
<1>3. CASE LoopReturns \/ Crash
  <2>1. Exits
    BY <1>3 DEF LoopReturns, Crash
  <2> QED
    BY <1>1, <2>1 DEF Exits, Sock
<1>4. CASE Accept
  <2>1. \E h : sock' = [sock EXCEPT ![h].st = "accepted"]
    BY <1>4, AcceptReady DEF Accept
  <2> QED
    BY <1>1, <2>1 DEF Sock
<1>5. CASE AcceptDrops
  <2>1. \E h : sock' = [sock EXCEPT ![h].st = "gone", ![h].in = << >>]
    BY <1>5 DEF AcceptDrops
  <2> QED
    BY <1>1, <2>1 DEF Sock
<1>6. ASSUME NEW d \in DOMAIN clients,
             ReadRequest(d) \/ ReadDropsClient(d) \/ ReadNothing(d) \/ WriteError(d)
      PROVE  FALSE
  <2>1. \/ sock' = [sock EXCEPT ![d].st = "gone", ![d].in = << >>]
        \/ sock' = [sock EXCEPT ![d].st = "gone"]
        \/ sock' = [sock EXCEPT ![d].in = StillIn(d)]
        \/ sock' = sock
    BY <1>6 DEF ReadRequest, ReadDropsClient, ReadNothing, WriteError
  <2>2. \/ sock'[c] = [sock[c] EXCEPT !.st = "gone", !.in = << >>]
        \/ sock'[c] = [sock[c] EXCEPT !.st = "gone"]
        \/ sock'[c] = [sock[c] EXCEPT !.in = StillIn(d)]
        \/ sock'[c] = sock[c]
    BY <1>1, <2>1
  <2> QED
    BY <1>1, <2>2 DEF Sock
<1>7. ASSUME NEW d \in DOMAIN clients, NEW n \in 1 .. BufSize, WriteAnswer(d, n)
      PROVE  Len(sock'[c].out) >= Len(sock[c].out)
  <2>1. PICK part : part = SubSeq(clients[d].wbuf, 1, n)
    OBVIOUS
  <2>2. sock' = [sock EXCEPT ![d].out = IF sock[d].peer = "open" THEN @ \o part ELSE @]
    BY <1>7, <2>1 DEF WriteAnswer
  <2>3. c = d /\ sock'[c].out = sock[c].out \o part
    BY <1>1, <2>2 DEF Sock
  <2>4. part \in Seq(Unit) /\ Len(part) \in Nat
    <3>1. clients[d].wbuf \in Seq(Unit) /\ n \in Nat /\ n <= Len(clients[d].wbuf)
      BY <1>7, AppServerAssumption DEF WriteAnswer, IInv, Types, Client
    <3>2. ASSUME NEW s \in Seq(Unit), NEW m \in Nat, m <= Len(s)
          PROVE  SubSeq(s, 1, m) \in Seq(Unit) /\ Len(SubSeq(s, 1, m)) = m
      BY <3>2
    <3> QED
      BY <2>1, <3>1, <3>2
  <2>5. ASSUME NEW a \in Seq(Unit), NEW b \in Seq(Unit) PROVE Len(a \o b) = Len(a) + Len(b)
    OBVIOUS
  <2> QED
    BY <1>1, <2>3, <2>4, <2>5
<1> QED
  BY <1>2, <1>3, <1>4, <1>5, <1>6, <1>7 DEF ServerStep

\* There are not more answers than calls.
LEMMA AnswersBounded ==
  ASSUME CInv, Counts, NEW c \in Conn
  PROVE  Len(sock[c].out) <= ac[c].calls * AnsLen
<1>1. PICK d \in Nat : Counted(c, d)
  BY DEF Counts, CountOf
<1>2. /\ Held(c) \in Nat /\ Owed(c) \in Nat /\ Len(ac[c].wbuf) \in Nat /\ ac[c].calls \in Nat
      /\ Len(sock[c].out) \in Nat
  BY CountTypes, LenProperties DEF CInv, AcTypes, AppClientOf
<1>3. Len(sock[c].out) <= Owed(c)
  <2>1. PICK w \in Nat : Owed(c) = Len(sock[c].out) + w
    BY CountTypes DEF Owed, CInv
  <2> QED
    BY <1>2, <2>1
<1>4. ASSUME NEW b \in Nat \ {0}, NEW e \in Nat \ {0}, NEW p \in Nat, NEW q \in Nat,
             NEW h \in Nat, NEW w \in Nat, p * b + h + w <= q * b
      PROVE  p * e <= q * e
  <2>1. p * b \in Nat /\ q * b \in Nat
    BY Multiple
  <2>2. p * b <= q * b
    BY <1>4, <2>1
  <2>3. q < p => (q + 1) * b <= p * b
    OBVIOUS
  <2>4. (q + 1) * b = q * b + b
    OBVIOUS
  <2>5. p <= q
    BY <2>1, <2>2, <2>3, <2>4
  <2> QED
    BY <2>5
<1>5. d * AnsLen <= ac[c].calls * AnsLen
  BY <1>1, <1>2, <1>4, AppServerAssumption DEF Counted
<1>6. d * AnsLen \in Nat /\ ac[c].calls * AnsLen \in Nat
  BY <1>2, AppServerAssumption, Multiple
<1> QED
  BY <1>1, <1>2, <1>3, <1>5, <1>6 DEF Counted

\* A call begins; when none has missed its answer, buf_read is empty.
LEMMA CallStartsTakes ==
  ASSUME CInv, Counts, NEW c \in Conn, CallStarts(c), TakeOf(c)
  PROVE  TakeOf(c)'
<1>1. PICK a \in Nat : Taken(ac[c], a)
  BY DEF TakeOf
<1>2. PICK n \in Nat, A \in Nat : n = ac[c].calls /\ A = a * AnsLen
  BY AppServerAssumption, Multiple DEF CInv, AcTypes, AppClientOf
<1>3. /\ ac'[c].call = n + 1 /\ ac'[c].calls = n + 1 /\ ac'[c].ret = 0
      /\ ac'[c].rbuf = ac[c].rbuf /\ ac'[c].got = ac[c].got /\ ac'[c].last = ac[c].last
  BY <1>2, CallStartsEffect
<1>4. /\ UNCHANGED sock /\ ac[c].call = 0 /\ ac[c].got <= Len(sock[c].out)
  BY DEF CallStarts, vars, TakeOf
<1>5. /\ ac[c].got = A + Len(ac[c].rbuf)
      /\ ac[c].last.ret = ac[c].last.call => a = n
      /\ ac[c].last.ret # ac[c].last.call => a < n
  BY <1>1, <1>2, <1>4 DEF Taken
<1>6. /\ ac[c].rbuf \in Seq(Unit) /\ Len(ac[c].rbuf) \in Nat /\ Len(sock[c].out) \in Nat
      /\ ac[c].got \in Nat
  BY LenProperties DEF CInv, AcTypes, AppClientOf, IInv, Types, Sock
<1>7. a = n => ac[c].rbuf = << >>
  <2>1. a = n => Len(sock[c].out) <= A
    BY <1>2, AnswersBounded
  <2>2. a = n => Len(ac[c].rbuf) = 0
    BY <1>4, <1>5, <1>6, <2>1
  <2> QED
    BY <1>6, <2>2
<1>8. Taken(ac'[c], a)
  BY <1>1, <1>2, <1>3, <1>5, <1>7 DEF Taken
<1> QED
  BY <1>3, <1>4, <1>8 DEF TakeOf

\* The call is over.
LEMMA CallReturnsTakes ==
  ASSUME CInv, NEW c \in Conn, CallReturns(c), TakeOf(c)
  PROVE  TakeOf(c)'
<1>1. PICK a \in Nat : Taken(ac[c], a)
  BY DEF TakeOf
<1>2. /\ ac'[c].call = 0 /\ ac'[c].last.call = ac[c].call /\ ac'[c].last.ret = ac[c].ret
      /\ ac'[c].rbuf = ac[c].rbuf /\ ac'[c].got = ac[c].got
      /\ ac'[c].ret = ac[c].ret /\ ac'[c].calls = ac[c].calls /\ ac'[c].event = ac[c].event
  BY CallReturnsEffect
<1>3. /\ UNCHANGED sock /\ ac[c].call # 0 /\ ac[c].got <= Len(sock[c].out)
      /\ ac[c].call \in Nat /\ ac[c].ret \in Nat
  BY DEF CallReturns, Running, vars, TakeOf, CInv, AcTypes, AppClientOf
<1>4. ac[c].call = ac[c].calls
  BY <1>1, <1>3 DEF Taken
<1>5. /\ ac[c].ret = ac[c].call => a = ac[c].calls
      /\ ac[c].ret # ac[c].call => a < ac[c].calls
  BY <1>1, <1>3, <1>4 DEF Taken
<1>6. Taken(ac'[c], a)
  BY <1>1, <1>2, <1>5 DEF Taken
<1> QED
  BY <1>2, <1>3, <1>6 DEF TakeOf


\* _appclient_read: the number it takes for the answer's is that of the first unit
\* of buf_read, and no answer has a larger one than the next in the stream.
LEMMA ClientReadsTakes ==
  ASSUME CInv, Asks, NEW c \in Conn, ClientReads(c), TakeOf(c)
  PROVE  TakeOf(c)'
<1>1. PICK a \in Nat : Taken(ac[c], a)
  BY DEF TakeOf
<1>2. PICK m \in Nat \ {0}, buf \in Seq(Unit) :
        /\ Len(buf) = Len(ac[c].rbuf) + m /\ ac'[c].got = ac[c].got + m
        /\ ac'[c].got <= Len(sock[c].out)
        /\ buf[1] = IF ac[c].rbuf # << >> THEN ac[c].rbuf[1] ELSE sock[c].out[ac[c].got + 1]
        /\ Len(buf) >= AnsLen =>
             /\ ac'[c].rbuf = SubSeq(buf, 1, Len(buf) - AnsLen)
             /\ ac'[c].ret = buf[1][2] /\ ac'[c].event = NoEvent
        /\ ~ (Len(buf) >= AnsLen) =>
             ac'[c].rbuf = buf /\ ac'[c].ret = ac[c].ret /\ ac'[c].event = ac[c].event
  BY ClientReadsEffect
<1>3. /\ ac'[c].call = ac[c].call /\ ac'[c].calls = ac[c].calls /\ ac'[c].last = ac[c].last
      /\ ac[c].event.read /\ ac[c].call # 0 /\ UNCHANGED sock
  BY ClientReadsEffect DEF ClientReads, Running, vars
<1>4. ac[c].ret = 0 /\ ac[c].call = ac[c].calls /\ ac[c].call \in Nat
  BY <1>1, <1>3 DEF Taken, CInv, AcTypes, AppClientOf
<1>5. PICK A \in Nat, l \in Nat, g \in Nat :
        A = a * AnsLen /\ l = Len(ac[c].rbuf) /\ g = ac[c].got
  BY AppServerAssumption, Multiple, LenProperties DEF CInv, AcTypes, AppClientOf
<1>6. AnsLen \in Nat \ {0} /\ (a + 1) * AnsLen = A + AnsLen /\ g = A + l /\ Len(buf) = l + m
  BY <1>1, <1>2, <1>5, AppServerAssumption, Multiple DEF Taken
<1>7. PICK v : v = buf[1][2]
  OBVIOUS
<1>8. v \in 1 .. a + 1 /\ (ac[c].last.ret = ac[c].last.call => v = a + 1)
  <2>1. CASE ac[c].rbuf # << >>
    BY <1>1, <1>2, <1>3, <1>4, <1>7, <2>1 DEF Taken
  <2>2. CASE ac[c].rbuf = << >>
    <3>1. l = 0 /\ g = A
      BY <1>5, <1>6, <2>2
    <3>2. A + 1 \in 1 .. Len(sock[c].out)
      <4>1. g + m <= Len(sock[c].out) /\ Len(sock[c].out) \in Nat
        BY <1>2, <1>5, LenProperties DEF CInv, IInv, Types, Sock
      <4> QED
        BY <3>1, <4>1
    <3>3. sock[c].out[A + 1] = AnsUnit(c, A + 1)
      BY <3>2 DEF Asks, AskOf, StreamOf
    <3>4. A + 1 - 1 = a * AnsLen + 0 /\ 0 \in 0 .. AnsLen - 1
      BY <1>5, <1>6
    <3>5. (A + 1 - 1) \div AnsLen = a
      BY <1>6, <3>4, DivMod
    <3>6. AnsUnit(c, A + 1)[2] = a + 1
      BY <3>5 DEF AnsUnit
    <3>7. v = a + 1
      BY <1>2, <1>5, <1>7, <2>2, <3>1, <3>3, <3>6
    <3> QED
      BY <3>7
  <2> QED
    BY <2>1, <2>2
<1>9. CASE Len(buf) >= AnsLen
  <2>1. PICK left : left = SubSeq(buf, 1, Len(buf) - AnsLen)
    OBVIOUS
  <2>2. Len(left) = Len(buf) - AnsLen /\ (left # << >> => left[1] = buf[1])
    <3>1. Len(buf) - AnsLen \in Nat /\ Len(buf) - AnsLen <= Len(buf)
      BY <1>6, <1>9
    <3>2. ASSUME NEW s \in Seq(Unit), NEW k \in Nat, k <= Len(s)
          PROVE  /\ SubSeq(s, 1, k) \in Seq(Unit) /\ Len(SubSeq(s, 1, k)) = k
                 /\ k >= 1 => SubSeq(s, 1, k)[1] = s[1]
      BY <3>2
    <3>3. left \in Seq(Unit) /\ Len(left) = Len(buf) - AnsLen
          /\ (Len(buf) - AnsLen >= 1 => left[1] = buf[1])
      BY <2>1, <3>1, <3>2
    <3>4. left # << >> => Len(left) >= 1
      BY <3>1, <3>3
    <3> QED
      BY <3>3, <3>4
  <2>3. ac'[c].got = (a + 1) * AnsLen + Len(left)
    <3>1. ac'[c].got = g + m
      BY <1>2, <1>5
    <3>2. Len(left) = l + m - AnsLen
      BY <1>6, <2>2
    <3>3. g + m = (A + AnsLen) + (l + m - AnsLen)
      BY <1>6
    <3> QED
      BY <1>6, <3>1, <3>2, <3>3
  <2>4. /\ ac'[c].rbuf = left /\ ac'[c].ret = v /\ ~ ac'[c].event.read /\ ~ ac'[c].event.write
    BY <1>2, <1>7, <1>9, <2>1 DEF NoEvent
  <2>5. left # << >> => left[1][2] \in 1 .. (a + 1) + 1
    BY <1>7, <1>8, <2>2
  <2>6. /\ ac[c].last.ret = ac[c].last.call => a + 1 = ac[c].call /\ v = a + 1
        /\ ac[c].last.ret # ac[c].last.call => a + 1 < ac[c].call /\ v <= a + 1
    BY <1>1, <1>3, <1>4, <1>8 DEF Taken
  <2>7. v # 0 /\ a + 1 \in Nat
    BY <1>8
  <2>8. Taken(ac'[c], a + 1)
    <3>1. PICK x, b : x = ac'[c] /\ b = a + 1
      OBVIOUS
    <3>2. x.got = b * AnsLen + Len(x.rbuf) /\ (x.rbuf # << >> => x.rbuf[1][2] \in 1 .. b + 1)
      BY <2>3, <2>4, <2>5, <3>1
    <3>3. /\ x.call \in {0, x.calls} /\ ~ x.event.read /\ ~ x.event.write
          /\ x.call # 0 /\ x.ret # 0
      BY <1>3, <1>4, <2>4, <2>7, <3>1
    <3>4. /\ x.last.ret = x.last.call => b = x.call /\ x.ret = b
          /\ x.last.ret # x.last.call => b < x.call /\ x.ret <= b
      BY <1>3, <2>4, <2>6, <3>1
    <3>5. Taken(x, b)
      BY <3>2, <3>3, <3>4 DEF Taken
    <3> QED
      BY <3>1, <3>5
  <2> QED
    BY <1>2, <1>3, <2>7, <2>8 DEF TakeOf
<1>10. CASE ~ (Len(buf) >= AnsLen)
  <2>1. ac'[c].rbuf = buf /\ ac'[c].ret = 0
    BY <1>2, <1>4, <1>10
  <2>2. ac'[c].got = a * AnsLen + Len(buf)
    <3>1. ac'[c].got = g + m
      BY <1>2, <1>5
    <3>2. ASSUME g = A + l PROVE g + m = A + (l + m)
      BY <3>2
    <3>3. ac'[c].got = A + (l + m)
      BY <1>6, <3>1, <3>2
    <3> QED
      BY <1>5, <1>6, <3>3
  <2>3. Taken(ac'[c], a)
    <3>1. PICK x : x = ac'[c]
      OBVIOUS
    <3>2. /\ x.got = a * AnsLen + Len(x.rbuf) /\ x.rbuf[1][2] \in 1 .. a + 1 /\ x.ret = 0
          /\ x.call # 0 /\ x.call \in {0, x.calls}
          /\ x.last.ret = x.last.call => x.rbuf[1][2] = a + 1
      BY <1>3, <1>4, <1>7, <1>8, <2>1, <2>2, <3>1
    <3>3. /\ x.last.ret = x.last.call => a = x.call - 1
          /\ x.last.ret # x.last.call => a < x.call - 1
      BY <1>1, <1>3, <1>4, <3>1 DEF Taken
    <3>4. Taken(x, a)
      BY <3>2, <3>3 DEF Taken
    <3> QED
      BY <3>1, <3>4
  <2> QED
    BY <1>2, <1>3, <2>3 DEF TakeOf
<1> QED
  BY <1>9, <1>10

LEMMA StepTakes == CInv /\ Counts /\ Asks /\ Takes /\ [ClientNext]_rpcVars => Takes'
<1> SUFFICES ASSUME CInv, Counts, Asks, Takes, [ClientNext]_rpcVars, NEW c \in Conn PROVE TakeOf(c)'
  BY DEF Takes
<1>1. TakeOf(c) /\ ac[c].got \in Nat /\ Len(sock[c].out) \in Nat
  BY LenProperties DEF Takes, CInv, AcTypes, AppClientOf, IInv, Types, Sock
<1>2. PICK a \in Nat : Taken(ac[c], a)
  BY <1>1 DEF TakeOf
<1>3. CASE (ServerStep \/ Crash) /\ UNCHANGED ac
  <2>1. Len(sock'[c].out) >= Len(sock[c].out)
    BY <1>3, OutGrows DEF CInv
  <2>2. Len(sock'[c].out) \in Nat
    <3>1. IInv' /\ (IInv' => sock'[c].out \in Seq(Unit))
      BY StepCInv DEF CInv, IInv, Types, Sock
    <3> QED
      BY <3>1, LenProperties
  <2>3. ac[c].got <= Len(sock'[c].out)
    BY <1>1, <2>1, <2>2 DEF TakeOf
  <2> QED
    BY <1>1, <1>3, <2>3 DEF TakeOf
<1>4. ASSUME ac'[c] = ac[c], sock'[c].out = sock[c].out PROVE TakeOf(c)'
  BY <1>1, <1>4 DEF TakeOf
<1>5. CASE UNCHANGED rpcVars
  BY <1>4, <1>5 DEF rpcVars, vars
<1>6. ASSUME NEW d \in Conn,
             \/ Connect(d) \/ ClientWriteError(d) \/ ClientReadError(d)
             \/ ClientTimeout(d) \/ Delete(d)
      PROVE  TakeOf(c)'
  <2>1. sock'[c].out = sock[c].out
    BY <1>6, ClientSockets
  <2>2. CASE c # d
    BY <1>4, <1>6, <2>1, <2>2, LetsGoEffect
  <2>3. CASE c = d
    <3>1. /\ ac'[c].rbuf = ac[c].rbuf /\ ac'[c].got = ac[c].got
          /\ ac'[c].call = ac[c].call /\ ac'[c].ret = ac[c].ret /\ ac'[c].calls = ac[c].calls
          /\ ac'[c].last = ac[c].last
          /\ (ac'[c].event.read => ac[c].event.read) /\ (ac'[c].event.write => ac[c].event.write)
      BY <1>6, <2>3, LetsGoEffect
    <3>2. Taken(ac'[c], a)
      BY <1>2, <3>1 DEF Taken
    <3> QED
      BY <1>1, <2>1, <3>1, <3>2 DEF TakeOf
  <2> QED
    BY <2>2, <2>3
<1>7. ASSUME NEW d \in Conn, CallStarts(d) \/ ClientReads(d) \/ CallReturns(d) PROVE TakeOf(c)'
  <2>1. CASE c = d
    BY <1>1, <1>7, <2>1, CallStartsTakes, ClientReadsTakes, CallReturnsTakes
  <2>2. CASE c # d
    <3>1. sock'[c].out = sock[c].out
      BY <1>7, ClientSockets
    <3>2. ac'[c] = ac[c]
      BY <1>7, <2>2, CallStartsEffect, ClientReadsEffect, CallReturnsEffect
    <3> QED
      BY <1>4, <3>1, <3>2
  <2> QED
    BY <2>1, <2>2
<1>8. ASSUME NEW d \in Conn, NEW n \in 1 .. BufSize, ClientWrites(d, n) PROVE TakeOf(c)'
  <2>1. sock'[c].out = sock[c].out
    BY <1>8, ClientWritesSockets
  <2>2. CASE c # d
    BY <1>4, <1>8, <2>1, <2>2, ClientWritesEffect
  <2>3. CASE c = d
    <3>1. /\ ac'[c].rbuf = ac[c].rbuf /\ ac'[c].got = ac[c].got
          /\ ac'[c].call = ac[c].call /\ ac'[c].ret = ac[c].ret /\ ac'[c].calls = ac[c].calls
          /\ ac'[c].last = ac[c].last /\ ac[c].event.write
      BY <1>8, <2>3, ClientWritesEffect DEF ClientWrites
    <3>2. Taken(ac'[c], a)
      BY <1>2, <3>1 DEF Taken
    <3> QED
      BY <1>1, <2>1, <3>1, <3>2 DEF TakeOf
  <2> QED
    BY <2>2, <2>3
<1> QED
  BY <1>3, <1>5, <1>6, <1>7, <1>8 DEF ClientNext, InCall

\* While no call of a client has returned without its answer, the answer a call
\* stores is its own, whatever happens to the other clients, to the connection or
\* to the server, and however often calls time out; as long as no write() is cut
\* short, on either side.
THEOREM CallGetsItsAnswer ==
  ASSUME "signal" \notin Faults, "signal" \notin ClientFaults
  PROVE  ClientSpec => []StoredAnswerIsOurs
<1>1. Takes => StoredAnswerIsOurs
  BY DEF Takes, TakeOf, Taken, StoredAnswerIsOurs, Running
<1>2. CInv /\ Asks /\ [ClientNext]_rpcVars => Asks'
  BY StepAsks
<1> QED
  BY <1>1, <1>2, InitCounts, StepCounts, InitAsks, InitTakes, StepTakes, ClientInvAlways, PTL
     DEF ClientSpec

--------------------------------------------------------------------------------
(* The calls implement RPC *)

\* Units in the buffers of the server.
InRead(c) == IF c \in DOMAIN clients THEN Len(clients[c].rbuf) ELSE 0
InWrite(c) == IF c \in DOMAIN clients THEN Len(clients[c].wbuf) ELSE 0

\* Where the units of a connection are: w to send, r to be read, b to be written,
\* done answers in the stream, got of which the client has taken.
Shape(c, w, r, b, done, got) ==
  /\ Len(ac[c].wbuf) = w /\ Len(sock[c].in) = r /\ InRead(c) = 0 /\ InWrite(c) = b
  /\ Len(sock[c].out) = done * AnsLen /\ ac[c].got = got * AnsLen /\ ac[c].rbuf = << >>

Writes == [timer |-> TRUE, read |-> FALSE, write |-> TRUE]
Waits == [timer |-> TRUE, read |-> TRUE, write |-> FALSE]

\* Between two calls nothing is on its way.
Idle(c, n) ==
  /\ ac[c].call = 0 /\ ac[c].last.ret = n /\ ac[c].last.call = n
  /\ Shape(c, 0, 0, 0, n, n)

\* The stages of a call: to be sent, to be read, to be answered, to be taken, taken.
Calling(c, n) ==
  /\ n # 0 /\ ac[c].call = n /\ ac[c].last.ret = n - 1 /\ ac[c].last.call = n - 1
  /\ ac[c].fd = "open"
  /\ \/ ac[c].event = Writes /\ Shape(c, ReqLen, 0, 0, n - 1, n - 1)
     \/ ac[c].event = Waits /\ Shape(c, 0, ReqLen, 0, n - 1, n - 1)
     \/ ac[c].event = Waits /\ Shape(c, 0, 0, AnsLen, n - 1, n - 1)
     \/ ac[c].event = Waits /\ Shape(c, 0, 0, 0, n, n - 1)
     \/ ac[c].event = NoEvent /\ ac[c].ret = n /\ Shape(c, 0, 0, 0, n, n)

Stage(c) == Idle(c, ac[c].calls) \/ Calling(c, ac[c].calls)

\* A client keeps its connection until it gives it up.
Unmoved(c) ==
  /\ ac[c].fd # "closed"
  /\ ac[c].fd = "open" => sock[c].peer = "open" /\ sock[c].st \in {"waiting", "accepted"}
  /\ sock[c].st = "none" => sock[c].peer = "open"

\* The server accepts connections, and none of them was lost.
Up == pc # "returned" /\ Listen \in ev.rfds /\ \A c \in DOMAIN clients : clients[c].fd # -1

Streamed == CInv /\ Counts /\ Asks /\ Takes

FInv == Streamed /\ Up /\ \A c \in Conn : Unmoved(c) /\ Stage(c)

\* No system call fails and no time runs out.
NoFaults ==
  /\ Faults = {} /\ ClientFaults = {}
  /\ IsFiniteSet(Conn) /\ Cardinality(Conn) < FdSetSize

--------------------------------------------------------------------------------
(***************************************************************************)
(* The steps of RPC.                                                       *)
(***************************************************************************)
LEMMA PromiseAlone ==
  ASSUME \A d \in Conn : /\ ac'[d].call = ac[d].call /\ ac'[d].last.ret = ac[d].last.ret
                         /\ Executed(d)' = Executed(d)
  PROVE  UNCHANGED Promise!rpcVars
BY DEF Promise!rpcVars

LEMMA PromiseAsk ==
  ASSUME NEW c \in Conn, ac[c].call = 0, Executed(c) < MaxReq, ac'[c].call = Executed(c) + 1,
         \A d \in Conn : d # c => ac'[d].call = ac[d].call,
         \A d \in Conn : ac'[d].last.ret = ac[d].last.ret /\ Executed(d)' = Executed(d)
  PROVE  Promise!Ask(c)
BY DEF Promise!Ask

LEMMA PromiseExecute ==
  ASSUME NEW c \in Conn, ac[c].call = Executed(c) + 1, Executed(c)' = Executed(c) + 1,
         \A d \in Conn : d # c => Executed(d)' = Executed(d),
         \A d \in Conn : ac'[d].last.ret = ac[d].last.ret /\ ac'[d].call = ac[d].call
  PROVE  Promise!Execute(c)
BY DEF Promise!Execute

LEMMA PromiseAnswer ==
  ASSUME NEW c \in Conn, ac[c].call # 0, ac[c].call = Executed(c), ac'[c].call = 0,
         ac'[c].last.ret = ac[c].call,
         \A d \in Conn : d # c => ac'[d].call = ac[d].call /\ ac'[d].last.ret = ac[d].last.ret,
         \A d \in Conn : Executed(d)' = Executed(d)
  PROVE  Promise!Answer(c)
BY DEF Promise!Answer

LEMMA PromiseInit == ClientInit => Promise!Init
<1> SUFFICES ASSUME ClientInit PROVE Promise!Init
  OBVIOUS
<1>1. \A c \in Conn : /\ sock[c].out = << >> /\ ac[c].call = 0 /\ ac[c].last.ret = 0
                      /\ c \notin DOMAIN clients
  BY DEF ClientInit, Init, NewAppClient
<1>2. ASSUME NEW b \in Nat \ {0} PROVE (0 + 0) \div b = 0
  OBVIOUS
<1>3. \A c \in Conn : Executed(c) = 0
  BY <1>1, <1>2, AppServerAssumption DEF Executed
<1> QED
  BY <1>1, <1>3 DEF Promise!Init


--------------------------------------------------------------------------------
(***************************************************************************)
(* What a stage says.                                                      *)
(***************************************************************************)
\* The calls executed, from where the units are.
LEMMA ShapeExecuted ==
  ASSUME NEW c \in Conn, NEW w, NEW r, NEW n \in Nat, NEW g
  PROVE  /\ Shape(c, w, r, 0, n, g) => Executed(c) = n
         /\ Shape(c, w, r, AnsLen, n, g) => Executed(c) = n + 1
<1>1. AnsLen \in Nat \ {0} /\ n * AnsLen \in Nat /\ (n + 1) * AnsLen = n * AnsLen + AnsLen
  BY AppServerAssumption, Multiple
<1>2. ASSUME NEW m \in Nat PROVE (m * AnsLen) \div AnsLen = m
  <2>1. m * AnsLen = m * AnsLen + 0 /\ 0 \in 0 .. AnsLen - 1
    BY <1>1, Multiple
  <2> QED
    BY <1>1, <2>1, DivMod
<1>3. Executed(c) = (Len(sock[c].out) + InWrite(c)) \div AnsLen
  BY DEF Executed, InWrite
<1>4. n * AnsLen + 0 = n * AnsLen /\ n + 1 \in Nat
  BY <1>1
<1>5. Shape(c, w, r, 0, n, g) => Executed(c) = n
  BY <1>2, <1>3, <1>4 DEF Shape
<1>6. Shape(c, w, r, AnsLen, n, g) => Executed(c) = n + 1
  BY <1>1, <1>2, <1>3, <1>4 DEF Shape
<1> QED
  BY <1>5, <1>6

LEMMA StageExecuted ==
  ASSUME CInv, NEW c \in Conn
  PROVE  LET n == ac[c].calls
         IN  /\ n \in Nat
             /\ Idle(c, n) => Executed(c) = n
             /\ Calling(c, n) =>
                  /\ n - 1 \in Nat
                  /\ Executed(c) =
                       IF Shape(c, ReqLen, 0, 0, n - 1, n - 1) \/ Shape(c, 0, ReqLen, 0, n - 1, n - 1)
                       THEN n - 1 ELSE n
<1>1. PICK n \in Nat : n = ac[c].calls
  BY DEF CInv, AcTypes, AppClientOf
<1>2. Idle(c, n) => Executed(c) = n
  BY ShapeExecuted DEF Idle
<1>3. ASSUME Calling(c, n)
      PROVE  /\ n - 1 \in Nat
             /\ Executed(c) =
                  IF Shape(c, ReqLen, 0, 0, n - 1, n - 1) \/ Shape(c, 0, ReqLen, 0, n - 1, n - 1)
                  THEN n - 1 ELSE n
  <2>1. n - 1 \in Nat /\ (n - 1) + 1 = n
    BY <1>3 DEF Calling
  <2>2. /\ Shape(c, ReqLen, 0, 0, n - 1, n - 1) => Executed(c) = n - 1
        /\ Shape(c, 0, ReqLen, 0, n - 1, n - 1) => Executed(c) = n - 1
        /\ Shape(c, 0, 0, AnsLen, n - 1, n - 1) => Executed(c) = n
        /\ Shape(c, 0, 0, 0, n, n - 1) => Executed(c) = n
        /\ Shape(c, 0, 0, 0, n, n) => Executed(c) = n
    BY <2>1, ShapeExecuted
  <2> QED
    BY <1>3, <2>1, <2>2 DEF Calling
<1> QED
  BY <1>1, <1>2, <1>3

\* A step that does not touch a connection.
LEMMA StageAlone ==
  ASSUME NEW c \in Conn, Unmoved(c), Stage(c), ac'[c] = ac[c],
         Len(sock'[c].in) = Len(sock[c].in), Len(sock'[c].out) = Len(sock[c].out),
         InRead(c)' = InRead(c), InWrite(c)' = InWrite(c),
         ac[c].fd = "open" => sock'[c].peer = "open" /\ sock'[c].st \in {"waiting", "accepted"},
         sock'[c].st = "none" => sock[c].st = "none" /\ sock'[c].peer = sock[c].peer
  PROVE  Unmoved(c)' /\ Stage(c)' /\ Executed(c)' = Executed(c)
<1>1. ASSUME NEW w, NEW r, NEW b, NEW n, NEW g, Shape(c, w, r, b, n, g)
      PROVE  Shape(c, w, r, b, n, g)'
  BY <1>1 DEF Shape
<1>2. PICK n : n = ac[c].calls
  OBVIOUS
<1>3. Idle(c, n) => Idle(c, n)'
  BY <1>1 DEF Idle
<1>4. Calling(c, n) => Calling(c, n)'
  BY <1>1 DEF Calling
<1>5. Stage(c)'
  BY <1>2, <1>3, <1>4 DEF Stage
<1>6. Unmoved(c)'
  BY DEF Unmoved
<1>7. Executed(c)' = Executed(c)
  BY DEF Executed, InWrite
<1> QED
  BY <1>5, <1>6, <1>7

\* There is a descriptor for every connection.
LEMMA DescriptorFree ==
  ASSUME NoFaults, IInv, backlog # << >>
  PROVE  FreeFds # {}
<1> SUFFICES ASSUME FreeFds = {} PROVE FALSE
  OBVIOUS
<1>1. PICK h \in Conn : h \notin DOMAIN clients
  <2>1. backlog \in Seq(Conn) /\ Head(backlog) \in Conn /\ sock[Head(backlog)].st = "waiting"
    <3>1. backlog \in Seq(Conn)
      BY DEF IInv, Types
    <3>2. 1 \in DOMAIN backlog /\ Head(backlog) = backlog[1] /\ backlog[1] \in Conn
      BY <3>1
    <3> QED
      BY <3>1, <3>2 DEF IInv, Queued
  <2> QED
    BY <2>1 DEF IInv, Queued
<1> DEFINE S == 1 .. FdSetSize - 1
<1> DEFINE T == Conn \ {h}
<1>2. FdSetSize \in Nat \ {0} /\ S \subseteq Fd
  BY EventDataAssumption DEF Fd
<1>3. \A n \in S : files[n] \in Conn /\ files[n] \in DOMAIN clients /\ clients[files[n]].fd = n
  <2> SUFFICES ASSUME NEW n \in S
               PROVE  files[n] \in Conn /\ files[n] \in DOMAIN clients /\ clients[files[n]].fd = n
    OBVIOUS
  <2>1. n \in Fd /\ n # Listen
    BY <1>2 DEF Listen
  <2>2. files[n] \in Conn
    BY <2>1 DEF IInv, Types, Listening, FreeFds
  <2> QED
    BY <2>1, <2>2 DEF IInv, ClientsMatchFiles, Live
<1>4. IsFiniteSet(S) /\ Cardinality(S) = FdSetSize - 1
  <2>1. /\ IsFiniteSet(S)
        /\ Cardinality(S) = IF 1 > FdSetSize - 1 THEN 0 ELSE (FdSetSize - 1) - 1 + 1
    BY <1>2, FS_Interval
  <2> HIDE DEF S
  <2> QED
    BY <1>2, <2>1
<1>5. IsFiniteSet(T) /\ Cardinality(T) = Cardinality(Conn) - 1
  BY <1>1, FS_RemoveElement DEF NoFaults
<1>6. Cardinality(Conn) \in Nat
  BY FS_CardinalityType DEF NoFaults
<1>7. Cardinality(T) < Cardinality(S)
  BY <1>2, <1>4, <1>5, <1>6 DEF NoFaults
<1>8. PICK f \in [S -> T] : \A n \in S : f[n] = files[n]
  <2>1. [n \in S |-> files[n]] \in [S -> T]
    BY <1>1, <1>3
  <2> QED
    BY <2>1
<1> HIDE DEF S, T
<1>9. \E x, y \in S : x # y /\ f[x] = f[y]
  BY <1>4, <1>5, <1>7, FS_PigeonHole, Zenon
<1> QED
  BY <1>3, <1>8, <1>9


--------------------------------------------------------------------------------
(***************************************************************************)
(* The steps of the server.                                                *)
(***************************************************************************)
\* read() finds the whole of a request.
LEMMA WholeRequest ==
  ASSUME IInv, NEW c \in DOMAIN clients, Len(clients[c].rbuf) = 0, Len(sock[c].in) = ReqLen
  PROVE  Len(Received(c)) = ReqLen /\ Len(StillIn(c)) = 0
<1>1. PICK s \in Seq(Unit), r \in Seq(Unit) : s = sock[c].in /\ r = clients[c].rbuf
  BY DEF IInv, Types, Client, Sock
<1>2. ReqLen \in Nat /\ BufSize \in Nat /\ ReqLen <= BufSize
  BY AppServerAssumption
<1>3. Received(c) = r \o Upto(s, BufSize - 0)
  BY <1>1 DEF Received
<1>4. Upto(s, BufSize - 0) = SubSeq(s, 1, ReqLen)
  BY <1>1, <1>2 DEF Upto
<1>5. SubSeq(s, 1, ReqLen) \in Seq(Unit) /\ Len(SubSeq(s, 1, ReqLen)) = ReqLen
  BY <1>1, <1>2
<1>6. Len(Received(c)) = Len(r) + ReqLen
  <2>1. ASSUME NEW a \in Seq(Unit), NEW b \in Seq(Unit) PROVE Len(a \o b) = Len(a) + Len(b)
    OBVIOUS
  <2>2. Received(c) = r \o SubSeq(s, 1, ReqLen)
    BY <1>3, <1>4
  <2>3. Len(r \o SubSeq(s, 1, ReqLen)) = Len(r) + Len(SubSeq(s, 1, ReqLen))
    BY <1>5, <2>1
  <2> QED
    BY <1>5, <2>2, <2>3
<1>7. Len(Received(c)) = ReqLen
  BY <1>1, <1>2, <1>6
<1>8. /\ Len(Received(c)) + Len(StillIn(c)) = Len(clients[c].rbuf) + Len(sock[c].in)
      /\ Len(StillIn(c)) \in Nat
  BY ReceivedUnits, LenProperties
<1> QED
  BY <1>2, <1>7, <1>8

\* Something to read means a call to be read, something to write one to be answered.
LEMMA StageOf ==
  ASSUME CInv, NEW c \in Conn, Stage(c)
  PROVE  \E n \in Nat :
           /\ n = ac[c].calls
           /\ Len(sock[c].in) # 0 =>
                Calling(c, n) /\ ac[c].event = Waits /\ Shape(c, 0, ReqLen, 0, n - 1, n - 1)
           /\ InWrite(c) # 0 =>
                Calling(c, n) /\ ac[c].event = Waits /\ Shape(c, 0, 0, AnsLen, n - 1, n - 1)
           /\ ac[c].fd # "open" => Idle(c, n)
           /\ n \in Nat /\ (Calling(c, n) => n - 1 \in Nat)
<1>1. PICK n \in Nat : n = ac[c].calls
  BY DEF CInv, AcTypes, AppClientOf
<1>2. Idle(c, n) \/ Calling(c, n)
  BY <1>1 DEF Stage
<1>3. Calling(c, n) => n - 1 \in Nat
  BY DEF Calling
<1>4. Len(sock[c].in) # 0 =>
        Calling(c, n) /\ ac[c].event = Waits /\ Shape(c, 0, ReqLen, 0, n - 1, n - 1)
  BY <1>2 DEF Idle, Calling, Shape
<1>5. InWrite(c) # 0 =>
        Calling(c, n) /\ ac[c].event = Waits /\ Shape(c, 0, 0, AnsLen, n - 1, n - 1)
  BY <1>2 DEF Idle, Calling, Shape
<1>6. ac[c].fd # "open" => Idle(c, n)
  BY <1>2 DEF Calling
<1> QED
  BY <1>1, <1>3, <1>4, <1>5, <1>6

LEMMA ReadRequestStage ==
  ASSUME CInv, NEW c \in DOMAIN clients, ReadRequest(c), UNCHANGED ac, Unmoved(c), Stage(c)
  PROVE  /\ Unmoved(c)' /\ Stage(c)'
         /\ ac[c].call = Executed(c) + 1 /\ Executed(c)' = Executed(c) + 1
<1> USE DEF CInv
<1>1. /\ c \in Conn /\ clients[c] \in Client /\ sock[c] \in Sock
      /\ sock \in [Conn -> Sock] /\ clients \in [DOMAIN clients -> Client]
  BY DEF IInv, Types
<1>2. /\ sock[c].in # << >> /\ Complete(Received(c)) /\ HasRoom(clients[c])
      /\ clients' = [clients EXCEPT
           ![c].rbuf = SubSeq(Received(c), ReqLen + 1, Len(Received(c))),
           ![c].wbuf = clients[c].wbuf \o Answer(Received(c)[1][1], Received(c)[1][2])]
      /\ sock' = [sock EXCEPT ![c].in = StillIn(c)]
  BY DEF ReadRequest
<1>3. PICK n \in Nat : /\ n = ac[c].calls /\ Calling(c, n) /\ ac[c].event = Waits
                       /\ Shape(c, 0, ReqLen, 0, n - 1, n - 1) /\ n - 1 \in Nat
  <2>1. Len(sock[c].in) # 0
    BY <1>1, <1>2 DEF Sock
  <2> QED
    BY <1>1, <2>1, StageOf
<1>4. Len(clients[c].rbuf) = 0 /\ Len(clients[c].wbuf) = 0 /\ Len(sock[c].in) = ReqLen
  BY <1>3 DEF Shape, InRead, InWrite
<1>5. Len(Received(c)) = ReqLen /\ Len(StillIn(c)) = 0 /\ ReqLen \in Nat /\ AnsLen \in Nat
  BY <1>4, WholeRequest, AppServerAssumption
<1>6. PICK rest, both :
        /\ Len(rest) = Len(Received(c)) - ReqLen /\ Len(both) = Len(clients[c].wbuf) + AnsLen
        /\ clients' = [clients EXCEPT ![c].rbuf = rest, ![c].wbuf = both]
  BY <1>2, RequestUnits
<1>7. Len(rest) = 0 /\ Len(both) = AnsLen
  BY <1>4, <1>5, <1>6
<1>8. clients'[c].rbuf = rest /\ clients'[c].wbuf = both /\ c \in DOMAIN clients'
  BY <1>1, <1>6 DEF Client
<1>9. /\ sock'[c].in = StillIn(c) /\ sock'[c].out = sock[c].out /\ sock'[c].peer = sock[c].peer
      /\ sock'[c].st = sock[c].st
  BY <1>1, <1>2 DEF Sock
<1>10. InRead(c)' = 0 /\ InWrite(c)' = AnsLen
  BY <1>7, <1>8 DEF InRead, InWrite
<1>11. Shape(c, 0, 0, AnsLen, n - 1, n - 1)'
  BY <1>3, <1>5, <1>9, <1>10 DEF Shape
<1>12. Stage(c)' /\ Unmoved(c)'
  <2>1. Calling(c, n)'
    BY <1>3, <1>11 DEF Calling
  <2> QED
    BY <1>3, <1>9, <2>1 DEF Stage, Unmoved
<1>13. Executed(c) = n - 1 /\ ac[c].call = n /\ (n - 1) + 1 = n
  BY <1>1, <1>3, ShapeExecuted DEF Calling
<1>14. Executed(c)' = (n - 1) + 1
  <2>1. Executed(c)' = (Len(sock'[c].out) + InWrite(c)') \div AnsLen
    BY DEF Executed, InWrite
  <2>2. Len(sock'[c].out) = (n - 1) * AnsLen
    BY <1>3, <1>9 DEF Shape
  <2>3. (n - 1) * AnsLen + AnsLen = n * AnsLen + 0 /\ 0 \in 0 .. AnsLen - 1
    BY <1>3, AppServerAssumption, Multiple
  <2>4. (n * AnsLen + 0) \div AnsLen = n
    BY <2>3, AppServerAssumption, DivMod
  <2> QED
    BY <1>10, <1>13, <2>1, <2>2, <2>3, <2>4
<1> QED
  BY <1>12, <1>13, <1>14

LEMMA WriteAnswerStage ==
  ASSUME NoFaults, CInv, NEW c \in DOMAIN clients, NEW x \in 1 .. BufSize, WriteAnswer(c, x),
         UNCHANGED ac, Unmoved(c), Stage(c)
  PROVE  Unmoved(c)' /\ Stage(c)' /\ Executed(c)' = Executed(c)
<1> USE DEF CInv
<1>1. /\ c \in Conn /\ clients[c] \in Client /\ sock[c] \in Sock
      /\ sock \in [Conn -> Sock] /\ clients \in [DOMAIN clients -> Client]
  BY DEF IInv, Types
<1>2. PICK w \in Seq(Unit), out \in Seq(Unit) : w = clients[c].wbuf /\ out = sock[c].out
  BY <1>1 DEF Client, Sock
<1>3. Len(w) \in Nat /\ Len(out) \in Nat
  BY LenProperties
<1>4. x = Len(w) /\ x \in Nat \ {0}
  <2>1. x <= Len(w) /\ ~ (x < Len(w)) /\ x \in Nat \ {0}
    BY <1>2, AppServerAssumption DEF WriteAnswer, NoFaults
  <2> QED
    BY <1>3, <2>1
<1>5. PICK n \in Nat : /\ n = ac[c].calls /\ Calling(c, n) /\ ac[c].event = Waits
                       /\ Shape(c, 0, 0, AnsLen, n - 1, n - 1) /\ n - 1 \in Nat
  <2>1. InWrite(c) # 0
    BY <1>2, <1>4 DEF InWrite
  <2> QED
    BY <1>1, <2>1, StageOf
<1>6. sock[c].peer = "open" /\ Len(w) = AnsLen /\ Len(out) = (n - 1) * AnsLen
  BY <1>2, <1>5 DEF Calling, Unmoved, Shape, InWrite
<1>7. AfterWrite(w, x) = << >> /\ SubSeq(w, 1, x) = w
  <2>1. AfterWrite(w, x) \in Seq(Unit) /\ Len(AfterWrite(w, x)) = 0
    BY <1>3, <1>4, AfterWriteUnits
  <2> QED
    BY <1>3, <1>4, <2>1
<1>8. clients' = [clients EXCEPT ![c].wbuf = << >>] /\ sock' = [sock EXCEPT ![c].out = out \o w]
  BY <1>2, <1>6, <1>7 DEF WriteAnswer
<1>9. clients'[c].rbuf = clients[c].rbuf /\ clients'[c].wbuf = << >> /\ c \in DOMAIN clients'
  BY <1>1, <1>8 DEF Client
<1>10. /\ sock'[c].in = sock[c].in /\ sock'[c].out = out \o w /\ sock'[c].peer = sock[c].peer
       /\ sock'[c].st = sock[c].st
  BY <1>1, <1>8 DEF Sock
<1>11. Len(sock'[c].out) = n * AnsLen
  <2>1. ASSUME NEW a \in Seq(Unit), NEW b \in Seq(Unit) PROVE Len(a \o b) = Len(a) + Len(b)
    OBVIOUS
  <2>2. (n - 1) * AnsLen + AnsLen = n * AnsLen
    BY <1>5, AppServerAssumption
  <2> QED
    BY <1>6, <1>10, <2>1, <2>2
<1>12. InRead(c)' = InRead(c) /\ InWrite(c)' = 0
  BY <1>9 DEF InRead, InWrite
<1>13. Shape(c, 0, 0, 0, n, n - 1)'
  BY <1>5, <1>10, <1>11, <1>12 DEF Shape
<1>14. Stage(c)' /\ Unmoved(c)'
  <2>1. Calling(c, n)'
    BY <1>5, <1>13 DEF Calling
  <2> QED
    BY <1>5, <1>10, <2>1 DEF Stage, Unmoved
<1>15. Executed(c) = (n - 1) + 1
  BY <1>1, <1>5, ShapeExecuted
<1>16. Executed(c)' = n
  <2>1. Executed(c)' = (Len(sock'[c].out) + InWrite(c)') \div AnsLen
    BY DEF Executed, InWrite
  <2>2. n * AnsLen \in Nat /\ 0 \in 0 .. AnsLen - 1 /\ AnsLen \in Nat \ {0}
    BY AppServerAssumption, Multiple
  <2>3. (n * AnsLen + 0) \div AnsLen = n
    BY <2>2, DivMod
  <2> QED
    BY <1>11, <1>12, <2>1, <2>3
<1> QED
  BY <1>14, <1>15, <1>16


\* A step that executes nothing, and one that executes a call.
Stays == Up' /\ \A c \in Conn : Unmoved(c)' /\ Stage(c)'
Refines == [Promise!Next]_(Promise!rpcVars)

LEMMA NoneExecuted ==
  ASSUME UNCHANGED ac, Up', \A c \in Conn : Unmoved(c)' /\ Stage(c)' /\ Executed(c)' = Executed(c)
  PROVE  Stays /\ Refines
BY PromiseAlone DEF Stays, Refines

LEMMA AcceptStage ==
  ASSUME FInv, Accept, UNCHANGED ac
  PROVE  Stays /\ Refines
<1>1. /\ IInv /\ sock \in [Conn -> Sock] /\ clients \in [DOMAIN clients -> Client]
      /\ ReadCalled(Listen) /\ FreeFds # {}
  BY DEF FInv, Streamed, CInv, IInv, Types, Accept
<1>2. backlog # << >>
  BY <1>1, AcceptReady
<1>3. PICK h, n : /\ h = Head(backlog) /\ n = LowestFree
                  /\ sock' = [sock EXCEPT ![h].st = "accepted"] /\ backlog' = Tail(backlog)
                  /\ clients' = [d \in DOMAIN clients \cup {h} |->
                                   IF d = h THEN NewClient(n) ELSE clients[d]]
                  /\ ev' = RegisterRead(ev, n) /\ UNCHANGED pc
  BY <1>2 DEF Accept
<1>4. h \in Conn /\ sock[h].st = "waiting" /\ h \notin DOMAIN clients
  BY <1>1, <1>2, <1>3, Dequeued
<1>5. n \in Fd /\ n # -1
  BY <1>1, <1>3, LowestFreeIsFresh, ListenIsFd
<1>6. Up'
  <2>1. ev'.rfds = ev.rfds \cup {n}
    BY <1>1, <1>3, <1>5, RegisterReadEffect DEF IInv
  <2>2. \A c \in DOMAIN clients' : clients'[c].fd # -1
    BY <1>3, <1>5 DEF FInv, Up, NewClient
  <2>3. pc' # "returned"
    BY <1>3 DEF FInv, Up
  <2> QED
    BY <2>1, <2>2, <2>3 DEF FInv, Up
<1>7. ASSUME NEW c \in Conn PROVE Unmoved(c)' /\ Stage(c)' /\ Executed(c)' = Executed(c)
  <2>1. Unmoved(c) /\ Stage(c) /\ sock[c] \in Sock /\ UNCHANGED ac
    BY <1>1 DEF FInv
  <2>2. /\ sock'[c].in = sock[c].in /\ sock'[c].out = sock[c].out /\ sock'[c].peer = sock[c].peer
        /\ sock'[c].st = IF c = h THEN "accepted" ELSE sock[c].st
    BY <1>1, <1>3, <2>1 DEF Sock
  <2>3. InRead(c)' = InRead(c) /\ InWrite(c)' = InWrite(c)
    <3>1. CASE c = h
      <4>1. c \in DOMAIN clients' /\ clients'[c].rbuf = << >> /\ clients'[c].wbuf = << >>
        BY <1>3, <3>1 DEF NewClient
      <4> QED
        BY <1>4, <3>1, <4>1 DEF InRead, InWrite
    <3>2. CASE c # h
      <4>1. (c \in DOMAIN clients' <=> c \in DOMAIN clients) /\ (c \in DOMAIN clients => clients'[c] = clients[c])
        BY <1>3, <3>2
      <4> QED
        BY <4>1 DEF InRead, InWrite
    <3> QED
      BY <3>1, <3>2
  <2>4. ac[c].fd = "open" => sock'[c].peer = "open" /\ sock'[c].st \in {"waiting", "accepted"}
    BY <2>1, <2>2 DEF Unmoved
  <2> QED
    BY <2>1, <2>2, <2>3, <2>4, StageAlone
<1> QED
  BY <1>6, <1>7, NoneExecuted

LEMMA ReadNothingStage ==
  ASSUME FInv, NEW d \in DOMAIN clients, ReadNothing(d), UNCHANGED ac
  PROVE  Stays /\ Refines
<1>1. /\ IInv /\ CInv /\ sock \in [Conn -> Sock] /\ clients \in [DOMAIN clients -> Client]
      /\ ReadCalled(clients[d].fd) /\ sock[d].in = << >> /\ d \in Conn
  BY DEF FInv, Streamed, CInv, IInv, Types, ReadNothing
<1>2. sock[d].peer = "closed" /\ clients[d].fd \in Fd
  BY <1>1, ReadFindsEnd, CalledFd
<1>3. /\ sock' = [sock EXCEPT ![d].st = "gone"] /\ ev' = Unregistered(ev, clients[d])
      /\ clients' = [c \in DOMAIN clients \ {d} |-> clients[c]] /\ UNCHANGED pc
  BY <1>2 DEF ReadNothing, RemoveClient
<1>4. Up'
  <2>1. ev'.rfds = ev.rfds \ {clients[d].fd} /\ clients[d].fd # Listen
    BY <1>1, <1>2, <1>3, UnregisteredEffect, LiveClient
  <2>2. \A c \in DOMAIN clients' : clients'[c].fd # -1
    BY <1>3 DEF FInv, Up
  <2>3. pc' # "returned"
    BY <1>3 DEF FInv, Up
  <2> QED
    BY <2>1, <2>2, <2>3 DEF FInv, Up
<1>5. ASSUME NEW c \in Conn PROVE Unmoved(c)' /\ Stage(c)' /\ Executed(c)' = Executed(c)
  <2>1. Unmoved(c) /\ Stage(c) /\ sock[c] \in Sock /\ UNCHANGED ac
    BY <1>1 DEF FInv
  <2>2. /\ sock'[c].in = sock[c].in /\ sock'[c].out = sock[c].out /\ sock'[c].peer = sock[c].peer
        /\ sock'[c].st = IF c = d THEN "gone" ELSE sock[c].st
    BY <1>1, <1>3, <2>1 DEF Sock
  <2>3. c = d => ac[c].fd # "open" /\ InRead(c) = 0 /\ InWrite(c) = 0
    <3>1. c = d => ac[c].fd # "open"
      BY <1>2, <2>1 DEF Unmoved
    <3> QED
      BY <1>1, <2>1, <3>1, StageOf DEF Idle, Shape
  <2>4. InRead(c)' = InRead(c) /\ InWrite(c)' = InWrite(c)
    <3>1. CASE c = d
      BY <1>3, <2>3, <3>1 DEF InRead, InWrite
    <3>2. CASE c # d
      <4>1. (c \in DOMAIN clients' <=> c \in DOMAIN clients) /\ (c \in DOMAIN clients => clients'[c] = clients[c])
        BY <1>3, <3>2
      <4> QED
        BY <4>1 DEF InRead, InWrite
    <3> QED
      BY <3>1, <3>2
  <2>5. ac[c].fd = "open" => sock'[c].peer = "open" /\ sock'[c].st \in {"waiting", "accepted"}
    BY <2>1, <2>2, <2>3 DEF Unmoved
  <2> QED
    BY <2>1, <2>2, <2>4, <2>5, StageAlone
<1> QED
  BY <1>4, <1>5, NoneExecuted

\* With a whole request in the socket and empty buffers no client is dropped.
LEMMA NoneDropped == FInv => \A d \in DOMAIN clients : ~ ReadDropsClient(d)
<1> SUFFICES ASSUME FInv, NEW d \in DOMAIN clients, ReadDropsClient(d) PROVE FALSE
  OBVIOUS
<1>1. /\ IInv /\ CInv /\ d \in Conn /\ Stage(d) /\ sock[d] \in Sock /\ sock[d].in # << >>
      /\ ~ (Complete(Received(d)) /\ HasRoom(clients[d]))
  BY DEF FInv, Streamed, CInv, IInv, Types, ReadDropsClient
<1>2. Len(sock[d].in) # 0
  BY <1>1 DEF Sock
<1>3. Len(clients[d].rbuf) = 0 /\ Len(clients[d].wbuf) = 0 /\ Len(sock[d].in) = ReqLen
  BY <1>1, <1>2, StageOf DEF Shape, InRead, InWrite
<1>4. Len(Received(d)) = ReqLen
  BY <1>1, <1>3, WholeRequest
<1>5. ReqLen \in Nat /\ AnsLen \in Nat /\ AnsLen <= BufSize /\ BufSize \in Nat
  BY AppServerAssumption
<1> QED
  BY <1>1, <1>3, <1>4, <1>5 DEF Complete, HasRoom

\* There is something to write when _appserver_write is called.
LEMMA NoWriteError == NoFaults /\ FInv => \A d \in DOMAIN clients : ~ WriteError(d)
<1> SUFFICES ASSUME NoFaults, FInv, NEW d \in DOMAIN clients, WriteError(d) PROVE FALSE
  OBVIOUS
<1>1. IInv /\ WriteCalled(clients[d].fd) /\ clients[d].wbuf = << >>
  BY DEF FInv, Streamed, CInv, WriteError, NoFaults
<1>2. clients[d].fd \in Fd /\ clients[d].fd \in ev.wfds
  BY <1>1, CalledFd
<1>3. PICK c \in Live : clients[c].fd = clients[d].fd /\ clients[c].wbuf # << >>
  BY <1>1, <1>2, WritesAreClients
<1> QED
  BY <1>1, <1>2, <1>3, LiveClient

LEMMA ServerStepStage ==
  ASSUME NoFaults, FInv, ServerStep \/ Crash, UNCHANGED ac
  PROVE  Stays /\ Refines
<1>1. /\ IInv /\ CInv /\ sock \in [Conn -> Sock] /\ clients \in [DOMAIN clients -> Client]
      /\ DOMAIN clients \subseteq Conn
  BY DEF FInv, Streamed, CInv, IInv, Types
<1>2. CASE SelectReturns \/ EndOfWalk \/ PassEntry
  <2>1. UNCHANGED <<sock, clients, ev, ac>> /\ pc' # "returned"
    BY <1>2 DEF SelectReturns, EndOfWalk, PassEntry
  <2>2. Up'
    BY <2>1 DEF FInv, Up
  <2>3. ASSUME NEW c \in Conn PROVE Unmoved(c)' /\ Stage(c)' /\ Executed(c)' = Executed(c)
    <3>1. /\ Unmoved(c) /\ Stage(c) /\ ac'[c] = ac[c] /\ sock'[c] = sock[c]
          /\ InRead(c)' = InRead(c) /\ InWrite(c)' = InWrite(c)
      BY <2>1 DEF FInv, InRead, InWrite
    <3>2. ac[c].fd = "open" => sock'[c].peer = "open" /\ sock'[c].st \in {"waiting", "accepted"}
      BY <3>1 DEF Unmoved
    <3> QED
      BY <3>1, <3>2, StageAlone
  <2> QED
    BY <2>2, <2>3, NoneExecuted
<1>3. ~ LoopReturns
  BY <1>1, LoopReturnsWhy DEF FInv, Up
<1>4. ~ Crash /\ ~ AcceptDrops
  BY DEF Crash, AcceptDrops, NoFaults
<1>5. ~ AcceptFails
  BY <1>1, DescriptorFree DEF AcceptFails, NoFaults
<1>6. CASE Accept
  BY <1>6, AcceptStage
<1>7. ASSUME NEW d \in DOMAIN clients, ReadRequest(d) PROVE Stays /\ Refines
  <2>1. /\ DOMAIN clients' = DOMAIN clients /\ \A c \in Conn : c # d => sock'[c] = sock[c]
        /\ \A c \in DOMAIN clients : c # d => clients'[c] = clients[c]
        /\ pc = "reads" /\ UNCHANGED pc /\ d \in Conn
    BY <1>1, <1>7 DEF ReadRequest, ReadCalled
  <2>2. \A c \in Conn : c # d => Unmoved(c)' /\ Stage(c)' /\ Executed(c)' = Executed(c)
    <3> SUFFICES ASSUME NEW c \in Conn, c # d PROVE Unmoved(c)' /\ Stage(c)' /\ Executed(c)' = Executed(c)
      OBVIOUS
    <3>1. Unmoved(c) /\ Stage(c) /\ InRead(c)' = InRead(c) /\ InWrite(c)' = InWrite(c)
      BY <2>1 DEF FInv, InRead, InWrite
    <3>2. ac[c].fd = "open" => sock'[c].peer = "open" /\ sock'[c].st \in {"waiting", "accepted"}
      BY <2>1, <3>1 DEF Unmoved
    <3> QED
      BY <2>1, <3>1, <3>2, StageAlone
  <2>3. /\ Unmoved(d)' /\ Stage(d)'
        /\ ac[d].call = Executed(d) + 1 /\ Executed(d)' = Executed(d) + 1
    <3>1. Unmoved(d) /\ Stage(d)
      BY <2>1 DEF FInv
    <3> QED
      BY <1>1, <1>7, <3>1, ReadRequestStage
  <2>4. Up'
    <3>1. ev'.rfds = ev.rfds
      <4>1. clients[d].fd \in Fd /\ ev' = RegisterWrite(ev, clients[d].fd)
        BY <1>1, <1>7, CalledFd DEF ReadRequest
      <4> QED
        BY <1>1, <4>1, RegisterWriteEffect DEF IInv
    <3>2. clients'[d].fd = clients[d].fd
      <4>1. PICK a, b : clients' = [clients EXCEPT ![d].rbuf = a, ![d].wbuf = b]
        BY <1>7 DEF ReadRequest
      <4>2. clients'[d] = [clients[d] EXCEPT !.rbuf = a, !.wbuf = b] /\ clients[d] \in Client
        BY <1>1, <4>1
      <4> QED
        BY <4>2 DEF Client
    <3> QED
      BY <2>1, <3>1, <3>2 DEF FInv, Up
  <2>5. Promise!Execute(d)
    BY <2>1, <2>2, <2>3, PromiseExecute
  <2> QED
    BY <2>1, <2>2, <2>3, <2>4, <2>5 DEF Stays, Refines, Promise!Next
<1>8. ASSUME NEW d \in DOMAIN clients, NEW x \in 1 .. BufSize, WriteAnswer(d, x) PROVE Stays /\ Refines
  <2>1. /\ DOMAIN clients' = DOMAIN clients /\ \A c \in Conn : c # d => sock'[c] = sock[c]
        /\ \A c \in DOMAIN clients : c # d => clients'[c] = clients[c]
        /\ pc = "writes" /\ UNCHANGED pc /\ d \in Conn
    BY <1>1, <1>8 DEF WriteAnswer, WriteCalled
  <2>2. \A c \in Conn : Unmoved(c)' /\ Stage(c)' /\ Executed(c)' = Executed(c)
    <3> SUFFICES ASSUME NEW c \in Conn PROVE Unmoved(c)' /\ Stage(c)' /\ Executed(c)' = Executed(c)
      OBVIOUS
    <3>1. Unmoved(c) /\ Stage(c)
      BY DEF FInv
    <3>2. CASE c = d
      BY <1>1, <1>8, <3>1, <3>2, WriteAnswerStage
    <3>3. CASE c # d
      <4>1. InRead(c)' = InRead(c) /\ InWrite(c)' = InWrite(c)
        BY <2>1, <3>3 DEF InRead, InWrite
      <4>2. ac[c].fd = "open" => sock'[c].peer = "open" /\ sock'[c].st \in {"waiting", "accepted"}
        BY <2>1, <3>1, <3>3 DEF Unmoved
      <4> QED
        BY <2>1, <3>1, <3>3, <4>1, <4>2, StageAlone
    <3> QED
      BY <3>2, <3>3
  <2>3. Up'
    <3>1. ev'.rfds = ev.rfds
      <4>1. ev' = UnregisterWrite(ev, clients[d].fd) \/ ev' = ev
        BY <1>8 DEF WriteAnswer
      <4> QED
        BY <1>1, <4>1, UnregisterWriteEffect DEF IInv
    <3>2. clients'[d].fd = clients[d].fd
      <4>1. PICK a : clients' = [clients EXCEPT ![d].wbuf = a]
        BY <1>8 DEF WriteAnswer
      <4>2. clients'[d] = [clients[d] EXCEPT !.wbuf = a] /\ clients[d] \in Client
        BY <1>1, <4>1
      <4> QED
        BY <4>2 DEF Client
    <3> QED
      BY <2>1, <3>1, <3>2 DEF FInv, Up
  <2> QED
    BY <2>2, <2>3, NoneExecuted
<1>9. ASSUME NEW d \in DOMAIN clients, ReadNothing(d) PROVE Stays /\ Refines
  BY <1>9, ReadNothingStage
<1>10. \A d \in DOMAIN clients : ~ ReadDropsClient(d) /\ ~ WriteError(d)
  BY NoneDropped, NoWriteError
<1> QED
  BY <1>2, <1>3, <1>4, <1>5, <1>6, <1>7, <1>8, <1>9, <1>10 DEF ServerStep



--------------------------------------------------------------------------------
(***************************************************************************)
(* The steps of a client.                                                  *)
(***************************************************************************)
ClientStep(c) == Connect(c) \/ CallStarts(c) \/ InCall(c) \/ Delete(c)

\* A client disturbs neither the server's tables nor another client.
LEMMA OthersAlone ==
  ASSUME FInv, NEW c \in Conn, ClientStep(c)
  PROVE  /\ Up' /\ UNCHANGED clients
         /\ \A d \in Conn : d # c => /\ Unmoved(d)' /\ Stage(d)' /\ ac'[d] = ac[d]
                                     /\ Executed(d)' = Executed(d)
<1>1. /\ UNCHANGED <<pc, ev, clients>>
      /\ \A d \in Conn : d # c => ac'[d] = ac[d] /\ sock'[d] = sock[d]
  <2>1. CASE Connect(c)
    BY <2>1 DEF Connect, PeerConnects, server, FInv, Streamed, CInv, AcTypes, IInv, Types
  <2>2. CASE CallStarts(c) \/ ClientReads(c) \/ ClientTimeout(c) \/ CallReturns(c)
    BY <2>2 DEF CallStarts, ClientReads, ClientTimeout, CallReturns, vars, FInv, Streamed, CInv, AcTypes
  <2>3. CASE ClientWriteError(c) \/ ClientReadError(c) \/ Delete(c)
    BY <2>3 DEF ClientWriteError, ClientReadError, Delete, Hangup, server, FInv, Streamed, CInv,
                AcTypes, IInv, Types
  <2>4. ASSUME NEW n, ClientWrites(c, n)
        PROVE  /\ UNCHANGED <<pc, ev, clients>>
               /\ \A d \in Conn : d # c => ac'[d] = ac[d] /\ sock'[d] = sock[d]
    <3>1. \A d \in Conn : d # c => ac'[d] = ac[d]
      BY <2>4, ClientWritesEffect DEF FInv, Streamed
    <3>2. UNCHANGED <<pc, ev, clients>>
      BY <2>4 DEF ClientWrites, server
    <3>3. \A d \in Conn : d # c => sock'[d] = sock[d]
      BY <2>4 DEF ClientWrites, FInv, Streamed, CInv, IInv, Types
    <3> QED
      BY <3>1, <3>2, <3>3
  <2> QED
    BY <2>1, <2>2, <2>3, <2>4 DEF ClientStep, InCall
<1>2. Up'
  BY <1>1 DEF FInv, Up
<1>3. ASSUME NEW d \in Conn, d # c PROVE Unmoved(d)' /\ Stage(d)' /\ Executed(d)' = Executed(d)
  <2>1. Unmoved(d) /\ Stage(d) /\ InRead(d)' = InRead(d) /\ InWrite(d)' = InWrite(d)
    BY <1>1 DEF FInv, InRead, InWrite
  <2>2. ac[d].fd = "open" => sock'[d].peer = "open" /\ sock'[d].st \in {"waiting", "accepted"}
    BY <1>1, <1>3, <2>1 DEF Unmoved
  <2> QED
    BY <1>1, <1>3, <2>1, <2>2, StageAlone
<1> QED
  BY <1>1, <1>2, <1>3

\* A step of a client between its calls, or within one, that RPC does not see.
LEMMA Unseen ==
  ASSUME FInv, NEW c \in Conn, ClientStep(c), Unmoved(c)', Stage(c)', Executed(c)' = Executed(c),
         ac'[c].call = ac[c].call, ac'[c].last.ret = ac[c].last.ret
  PROVE  Stays /\ Refines
<1>1. /\ Up' /\ \A d \in Conn : d # c => /\ Unmoved(d)' /\ Stage(d)' /\ ac'[d] = ac[d]
                                         /\ Executed(d)' = Executed(d)
  BY OthersAlone
<1>2. UNCHANGED Promise!rpcVars
  BY <1>1, PromiseAlone
<1> QED
  BY <1>1, <1>2 DEF Stays, Refines

\* appclient_new and appclient_delete.
LEMMA ConnectionStage ==
  ASSUME FInv, NEW c \in Conn, Connect(c) \/ Delete(c)
  PROVE  Stays /\ Refines
<1>1. /\ CInv /\ Unmoved(c) /\ Stage(c) /\ sock[c] \in Sock /\ sock \in [Conn -> Sock]
      /\ ac[c] \in AppClientOf /\ ac \in [Conn -> AppClientOf]
  BY DEF FInv, Streamed, CInv, IInv, Types, AcTypes
<1>2. /\ sock'[c].in = sock[c].in /\ sock'[c].out = sock[c].out /\ UNCHANGED clients
  BY <1>1, ClientSockets
<1>3. /\ ac'[c].wbuf = ac[c].wbuf /\ ac'[c].rbuf = ac[c].rbuf /\ ac'[c].got = ac[c].got
      /\ ac'[c].call = ac[c].call /\ ac'[c].calls = ac[c].calls /\ ac'[c].last = ac[c].last
  BY <1>1, LetsGoEffect
<1>4. ac[c].call = 0
  <2>1. CASE Connect(c)
    BY <2>1 DEF Connect, PeerConnects, FInv, Streamed, Asks, AskOf
  <2>2. CASE Delete(c)
    BY <2>2 DEF Delete
  <2> QED
    BY <2>1, <2>2
<1>5. PICK n \in Nat : n = ac[c].calls /\ Idle(c, n)
  <2>1. ac[c].calls \in Nat
    BY <1>1 DEF AppClientOf
  <2> QED
    BY <1>1, <1>4, <2>1 DEF Stage, Calling
<1>6. Shape(c, 0, 0, 0, n, n)'
  BY <1>2, <1>3, <1>5 DEF Idle, Shape, InRead, InWrite
<1>7. Stage(c)'
  BY <1>3, <1>5, <1>6 DEF Idle, Stage
<1>8. Unmoved(c)'
  <2>1. CASE Connect(c)
    <3>1. /\ sock[c].st = "none" /\ sock' = [sock EXCEPT ![c].st = "waiting"]
          /\ ac' = [ac EXCEPT ![c].fd = "open"]
      BY <2>1 DEF Connect, PeerConnects
    <3>2. sock'[c].st = "waiting" /\ sock'[c].peer = sock[c].peer
      BY <1>1, <3>1 DEF Sock
    <3>3. ac'[c].fd = "open"
      BY <1>1, <3>1 DEF AppClientOf
    <3> QED
      BY <1>1, <3>1, <3>2, <3>3 DEF Unmoved
  <2>2. CASE Delete(c)
    <3>1. /\ sock' = [sock EXCEPT ![c].peer = "closed"] /\ ac' = [ac EXCEPT ![c].fd = "none"]
          /\ ac[c].fd = "open"
      BY <2>2 DEF Delete, Hangup
    <3>2. sock'[c].st = sock[c].st
      BY <1>1, <3>1 DEF Sock
    <3>3. ac'[c].fd = "none"
      BY <1>1, <3>1 DEF AppClientOf
    <3> QED
      BY <1>1, <3>1, <3>2, <3>3 DEF Unmoved
  <2> QED
    BY <2>1, <2>2
<1>9. Executed(c)' = Executed(c)
  BY <1>2 DEF Executed
<1> QED
  BY <1>3, <1>7, <1>8, <1>9, Unseen DEF ClientStep

\* appclient_call is the Ask of RPC.
LEMMA CallStartsStage ==
  ASSUME FInv, NEW c \in Conn, CallStarts(c)
  PROVE  Stays /\ Refines
<1>1. /\ CInv /\ Unmoved(c) /\ Stage(c) /\ ac[c] \in AppClientOf /\ ac \in [Conn -> AppClientOf]
      /\ ac[c].wbuf \in Seq(Unit) /\ ac[c].fd # "none" /\ ac[c].call = 0 /\ UNCHANGED vars
  BY DEF FInv, Streamed, CInv, AcTypes, AppClientOf, CallStarts
<1>2. PICK n \in Nat : n = ac[c].calls /\ Idle(c, n) /\ n < MaxReq
  <2>1. ac[c].calls \in Nat
    BY <1>1 DEF AppClientOf
  <2> QED
    BY <1>1, <2>1 DEF Stage, Calling, CallStarts
<1>3. UNCHANGED <<sock, clients>> /\ ac[c].fd = "open"
  BY <1>1 DEF vars, Unmoved, AppClientOf
<1>4. PICK m \in Nat : m = n + 1 /\ m - 1 = n /\ m # 0
  BY <1>2
<1>5. /\ ac'[c].wbuf = ac[c].wbuf \o Request(c, m) /\ Len(Request(c, m)) = ReqLen
      /\ Request(c, m) \in Seq(Unit) /\ ac'[c].call = m /\ ac'[c].calls = m
      /\ ac'[c].rbuf = ac[c].rbuf /\ ac'[c].got = ac[c].got /\ ac'[c].last = ac[c].last
      /\ ac'[c].fd = ac[c].fd
  BY <1>1, <1>2, <1>4, CallStartsEffect
<1>6. ac'[c].event = Writes
  <2> DEFINE k == ac[c].calls + 1
  <2> DEFINE w == ac[c].wbuf \o Request(c, k)
  <2> DEFINE b == (ac[c].fd = "closed")
  <2>1. ac' = [ac EXCEPT ![c] = [ac[c] EXCEPT !.wbuf = w, !.call = k, !.calls = k, !.ret = 0,
                                             !.aborted = b, !.event = Writes]]
    BY Zenon DEF CallStarts, Writes
  <2> HIDE DEF w, k, b
  <2>2. ASSUME NEW r \in AppClientOf
        PROVE  [r EXCEPT !.wbuf = w, !.call = k, !.calls = k, !.ret = 0, !.aborted = b,
                         !.event = Writes].event = Writes
    BY DEF AppClientOf
  <2>3. ac'[c] = [ac[c] EXCEPT !.wbuf = w, !.call = k, !.calls = k, !.ret = 0, !.aborted = b,
                               !.event = Writes]
    BY <1>1, <2>1
  <2> QED
    BY <1>1, <2>2, <2>3
<1>7. Len(ac'[c].wbuf) = ReqLen
  <2>1. ASSUME NEW a \in Seq(Unit), NEW b \in Seq(Unit), Len(a) = 0 PROVE Len(a \o b) = Len(b)
    BY <2>1
  <2>2. Len(ac[c].wbuf) = 0
    BY <1>2 DEF Idle, Shape
  <2> QED
    BY <1>1, <1>5, <2>1, <2>2
<1>8. Shape(c, ReqLen, 0, 0, n, n)'
  BY <1>2, <1>3, <1>5, <1>7 DEF Idle, Shape, InRead, InWrite
<1>9. Stage(c)' /\ Unmoved(c)'
  <2>1. Calling(c, m)'
    BY <1>2, <1>3, <1>4, <1>5, <1>6, <1>8 DEF Calling, Idle
  <2> QED
    BY <1>1, <1>3, <1>5, <2>1 DEF Stage, Unmoved
<1>10. Executed(c) = n /\ Executed(c)' = Executed(c)
  BY <1>1, <1>2, <1>3, ShapeExecuted DEF Executed, Idle
<1>11. /\ Up' /\ \A d \in Conn : d # c => /\ Unmoved(d)' /\ Stage(d)' /\ ac'[d] = ac[d]
                                          /\ Executed(d)' = Executed(d)
  BY OthersAlone DEF ClientStep
<1>12. Promise!Ask(c)
  <2>1. ac'[c].call = Executed(c) + 1 /\ Executed(c) < MaxReq
    BY <1>2, <1>4, <1>5, <1>10
  <2>2. \A d \in Conn : ac'[d].last.ret = ac[d].last.ret /\ Executed(d)' = Executed(d)
    BY <1>5, <1>10, <1>11
  <2> QED
    BY <1>1, <1>11, <2>1, <2>2, PromiseAsk
<1> QED
  BY <1>9, <1>11, <1>12 DEF Stays, Refines, Promise!Next


\* What is registered tells the stage of a call.
LEMMA RunningStage ==
  ASSUME FInv, NEW c \in Conn, Running(c)
  PROVE  /\ Unmoved(c) /\ ac[c].fd = "open" /\ CInv /\ ac[c] \in AppClientOf
         /\ \E n \in Nat :
              /\ n = ac[c].calls /\ Calling(c, n) /\ n - 1 \in Nat /\ n # 0
              /\ ac[c].event.write => Shape(c, ReqLen, 0, 0, n - 1, n - 1) /\ ac[c].event = Writes
              /\ ac[c].event.read =>
                   /\ ac[c].event = Waits
                   /\ \/ Shape(c, 0, ReqLen, 0, n - 1, n - 1)
                      \/ Shape(c, 0, 0, AnsLen, n - 1, n - 1)
                      \/ Shape(c, 0, 0, 0, n, n - 1)
              /\ ac[c].event = NoEvent => Shape(c, 0, 0, 0, n, n) /\ ac[c].ret = n
              /\ ac[c].event.timer => ac[c].event.read \/ ac[c].event.write
<1>1. CInv /\ Unmoved(c) /\ Stage(c) /\ ac[c] \in AppClientOf /\ ac[c].call # 0
  BY DEF FInv, Streamed, CInv, AcTypes, Running
<1>2. PICK n \in Nat : n = ac[c].calls /\ Calling(c, n)
  <2>1. ac[c].calls \in Nat
    BY <1>1 DEF AppClientOf
  <2> QED
    BY <1>1, <2>1 DEF Stage, Idle
<1>3. n - 1 \in Nat /\ n # 0 /\ ac[c].fd = "open"
  BY <1>2 DEF Calling
<1>4. /\ Writes.write /\ ~ Writes.read /\ Writes.timer /\ ~ Waits.write /\ Waits.read /\ Waits.timer
      /\ ~ NoEvent.read /\ ~ NoEvent.write /\ ~ NoEvent.timer
  BY DEF Writes, Waits, NoEvent
<1>5. \/ ac[c].event = Writes /\ Shape(c, ReqLen, 0, 0, n - 1, n - 1)
      \/ ac[c].event = Waits /\ \/ Shape(c, 0, ReqLen, 0, n - 1, n - 1)
                                \/ Shape(c, 0, 0, AnsLen, n - 1, n - 1)
                                \/ Shape(c, 0, 0, 0, n, n - 1)
      \/ ac[c].event = NoEvent /\ ac[c].ret = n /\ Shape(c, 0, 0, 0, n, n)
  BY <1>2 DEF Calling
<1>6. /\ ac[c].event.write => Shape(c, ReqLen, 0, 0, n - 1, n - 1) /\ ac[c].event = Writes
      /\ ac[c].event.read =>
           /\ ac[c].event = Waits
           /\ \/ Shape(c, 0, ReqLen, 0, n - 1, n - 1)
              \/ Shape(c, 0, 0, AnsLen, n - 1, n - 1)
              \/ Shape(c, 0, 0, 0, n, n - 1)
      /\ ac[c].event = NoEvent => Shape(c, 0, 0, 0, n, n) /\ ac[c].ret = n
      /\ ac[c].event.timer => ac[c].event.read \/ ac[c].event.write
  BY <1>4, <1>5
<1> QED
  BY <1>1, <1>2, <1>3, <1>6

\* _appclient_write sends the request at once.
LEMMA ClientWritesStage ==
  ASSUME NoFaults, FInv, NEW c \in Conn, NEW x, ClientWrites(c, x), InCall(c)
  PROVE  Stays /\ Refines
<1>1. Running(c) /\ ac[c].event.write
  BY DEF ClientWrites
<1>2. PICK n \in Nat : /\ n = ac[c].calls /\ Calling(c, n) /\ n - 1 \in Nat /\ n # 0
                       /\ Shape(c, ReqLen, 0, 0, n - 1, n - 1) /\ ac[c].event = Writes
  BY <1>1, RunningStage
<1>3. /\ CInv /\ Unmoved(c) /\ ac[c].fd = "open" /\ ac[c] \in AppClientOf /\ AskOf(c)
      /\ ac \in [Conn -> AppClientOf] /\ sock[c].in \in Seq(Unit)
  BY <1>1, RunningStage DEF FInv, Streamed, Asks, CInv, AcTypes, IInv, Types, Sock
<1>4. ac'[c].wbuf = << >>
  BY <1>3, ClientWritesAsks DEF NoFaults
<1>5. /\ ac'[c].wbuf = AfterWrite(ac[c].wbuf, x)
      /\ ac'[c].rbuf = ac[c].rbuf /\ ac'[c].got = ac[c].got
      /\ ac'[c].call = ac[c].call /\ ac'[c].calls = ac[c].calls
      /\ ac'[c].last = ac[c].last /\ ac'[c].fd = ac[c].fd
  BY <1>3, ClientWritesEffect
<1>6. ac'[c].event = Waits
  <2>1. ac' = [ac EXCEPT ![c] = [ac[c] EXCEPT !.wbuf = << >>, !.event.write = FALSE, !.event.read = TRUE]]
    BY <1>4, <1>5 DEF ClientWrites
  <2>2. ac'[c] = [ac[c] EXCEPT !.wbuf = << >>, !.event.write = FALSE, !.event.read = TRUE]
    BY <1>3, <2>1
  <2>3. ASSUME NEW r \in AppClientOf, r.event = Writes
        PROVE  [r EXCEPT !.wbuf = << >>, !.event.write = FALSE, !.event.read = TRUE].event = Waits
    <3>1. [[Writes EXCEPT !.write = FALSE] EXCEPT !.read = TRUE] = Waits
      <4>1. Writes \in EventBits /\ Waits \in EventBits
        BY DEF Writes, Waits, EventBits
      <4>2. ASSUME NEW a \in EventBits
            PROVE  LET b == [[a EXCEPT !.write = FALSE] EXCEPT !.read = TRUE]
                   IN  b \in EventBits /\ b.write = FALSE /\ b.read = TRUE /\ b.timer = a.timer
        BY DEF EventBits
      <4>3. /\ Writes.timer = TRUE /\ Waits.timer = TRUE
            /\ Waits.write = FALSE /\ Waits.read = TRUE
        BY DEF Writes, Waits
      <4>4. ASSUME NEW a \in EventBits, NEW b \in EventBits, a.timer = b.timer, a.read = b.read,
                   a.write = b.write
            PROVE  a = b
        BY <4>4 DEF EventBits
      <4>5. PICK b : b = [[Writes EXCEPT !.write = FALSE] EXCEPT !.read = TRUE]
        OBVIOUS
      <4>6. b \in EventBits /\ b.write = Waits.write /\ b.read = Waits.read /\ b.timer = Waits.timer
        BY <4>1, <4>2, <4>3, <4>5
      <4> QED
        BY <4>1, <4>4, <4>5, <4>6
    <3>2. [r EXCEPT !.wbuf = << >>, !.event.write = FALSE, !.event.read = TRUE]
          = [r EXCEPT !.wbuf = << >>, !.event = [[Writes EXCEPT !.write = FALSE] EXCEPT !.read = TRUE]]
      BY <2>3 DEF AppClientOf
    <3>3. PICK e : e = [[Writes EXCEPT !.write = FALSE] EXCEPT !.read = TRUE]
      OBVIOUS
    <3>4. [r EXCEPT !.wbuf = << >>, !.event = e].event = e
      BY DEF AppClientOf
    <3> QED
      BY <3>1, <3>2, <3>3, <3>4
  <2> QED
    BY <1>2, <1>3, <2>2, <2>3
<1>7. Len(sock'[c].in) = ReqLen
  <2>1. /\ x \in Nat /\ x <= Len(ac[c].wbuf) /\ SubSeq(ac[c].wbuf, 1, x) \in Seq(Unit)
        /\ Len(SubSeq(ac[c].wbuf, 1, x)) = x /\ Len(ac[c].wbuf) \in Nat
    BY <1>3, ClientWritesUnits
  <2>2. x = Len(ac[c].wbuf)
    BY <2>1 DEF ClientWrites, NoFaults
  <2>3. x = ReqLen /\ Len(sock[c].in) = 0
    BY <1>2, <2>2 DEF Shape
  <2>4. sock'[c].in = sock[c].in \o SubSeq(ac[c].wbuf, 1, x)
    <3>1. sock[c].st # "gone"
      BY <1>3 DEF Unmoved
    <3> QED
      BY <1>3, <3>1, ClientWritesSockets
  <2>5. ASSUME NEW a \in Seq(Unit), NEW b \in Seq(Unit), Len(a) = 0 PROVE Len(a \o b) = Len(b)
    BY <2>5
  <2> QED
    BY <1>3, <2>1, <2>3, <2>4, <2>5
<1>8. /\ sock'[c].out = sock[c].out /\ sock'[c].st = sock[c].st /\ sock'[c].peer = sock[c].peer
      /\ UNCHANGED clients
  BY <1>3, ClientWritesSockets
<1>9. Shape(c, 0, ReqLen, 0, n - 1, n - 1)'
  BY <1>2, <1>4, <1>5, <1>7, <1>8 DEF Shape, InRead, InWrite
<1>10. Stage(c)' /\ Unmoved(c)'
  <2>1. Calling(c, n)'
    BY <1>2, <1>5, <1>6, <1>9 DEF Calling
  <2> QED
    BY <1>2, <1>3, <1>5, <1>8, <2>1 DEF Stage, Unmoved
<1>11. Executed(c)' = Executed(c)
  BY <1>8 DEF Executed
<1> QED
  BY <1>5, <1>10, <1>11, Unseen DEF ClientStep

\* A client finds the whole of an answer, or nothing.
LEMMA WholeAnswer ==
  ASSUME CInv, NEW c \in Conn, NEW g \in Nat, ac[c].got = g, ac[c].rbuf = << >>
  PROVE  /\ Len(sock[c].out) = g => Unread(c) = << >>
         /\ Len(sock[c].out) = g + AnsLen =>
              Len(Upto(Unread(c), BufSize - Len(ac[c].rbuf))) = AnsLen
<1>1. PICK out \in Seq(Unit) : out = sock[c].out
  BY DEF CInv, IInv, Types, Sock
<1>2. AnsLen \in Nat \ {0} /\ BufSize \in Nat /\ AnsLen <= BufSize
  BY AppServerAssumption
<1>3. Len(out) = g => Unread(c) = << >>
  BY <1>1 DEF Unread
<1>4. ASSUME Len(out) = g + AnsLen
      PROVE  Len(Upto(Unread(c), BufSize - Len(ac[c].rbuf))) = AnsLen
  <2>1. PICK u : u = SubSeq(out, g + 1, Len(out))
    OBVIOUS
  <2>2. u \in Seq(Unit) /\ Len(u) = AnsLen
    BY <1>1, <1>2, <1>4, <2>1
  <2>3. BufSize - Len(ac[c].rbuf) = BufSize
    BY <1>2
  <2>4. Upto(u, BufSize) = SubSeq(u, 1, AnsLen)
    BY <1>2, <2>2 DEF Upto
  <2>5. Len(SubSeq(u, 1, AnsLen)) = AnsLen
    BY <1>2, <2>2
  <2>6. Unread(c) = u
    BY <1>1, <2>1 DEF Unread
  <2> QED
    BY <2>3, <2>4, <2>5, <2>6
<1> QED
  BY <1>1, <1>3, <1>4

\* _appclient_read takes the answer to the call.
LEMMA ClientReadsStage ==
  ASSUME FInv, NEW c \in Conn, ClientReads(c)
  PROVE  Stays /\ Refines
<1>1. Running(c) /\ ac[c].event.read
  BY DEF ClientReads
<1>2. /\ CInv /\ Unmoved(c) /\ ac[c].fd = "open" /\ ac[c] \in AppClientOf /\ TakeOf(c) /\ Asks
      /\ ac \in [Conn -> AppClientOf] /\ Len(sock[c].out) \in Nat /\ ac[c].got \in Nat
      /\ AnsLen \in Nat \ {0}
  BY <1>1, RunningStage, LenProperties, AppServerAssumption
     DEF FInv, Streamed, Takes, CInv, AcTypes, IInv, Types, Sock, AppClientOf
<1>3. PICK n \in Nat :
        /\ n = ac[c].calls /\ Calling(c, n) /\ n - 1 \in Nat /\ n # 0
        /\ \/ Shape(c, 0, ReqLen, 0, n - 1, n - 1)
           \/ Shape(c, 0, 0, AnsLen, n - 1, n - 1)
           \/ Shape(c, 0, 0, 0, n, n - 1)
  BY <1>1, RunningStage
<1>4. PICK g \in Nat : g = (n - 1) * AnsLen /\ n * AnsLen = g + AnsLen
  <2>1. (n - 1) * AnsLen \in Nat /\ n * AnsLen = (n - 1) * AnsLen + AnsLen
    BY <1>2, <1>3, Multiple
  <2> QED
    BY <2>1
<1>5. ac[c].got = g /\ ac[c].rbuf = << >>
  BY <1>3, <1>4 DEF Shape
<1>6. PICK m \in Nat \ {0}, buf \in Seq(Unit) :
        /\ Len(buf) = Len(ac[c].rbuf) + m /\ ac'[c].got = ac[c].got + m
        /\ ac'[c].got <= Len(sock[c].out)
        /\ Len(buf) >= AnsLen =>
             /\ ac'[c].rbuf = SubSeq(buf, 1, Len(buf) - AnsLen) /\ ac'[c].event = NoEvent
  BY <1>2, ClientReadsEffect
<1>7. Shape(c, 0, 0, 0, n, n - 1)
  <2>1. Len(sock[c].out) # g
    BY <1>2, <1>5, <1>6
  <2> QED
    BY <1>3, <1>4, <2>1 DEF Shape
<1>8. m = AnsLen
  <2>1. Len(Upto(Unread(c), BufSize - Len(ac[c].rbuf))) = AnsLen
    BY <1>2, <1>4, <1>5, <1>7, WholeAnswer DEF Shape
  <2>2. ac'[c].got = ac[c].got + AnsLen
    <3> DEFINE data == Upto(Unread(c), BufSize - Len(ac[c].rbuf))
    <3> DEFINE new == ac[c].rbuf \o data
    <3> DEFINE decoded == Len(new) >= AnsLen
    <3> DEFINE k == ac[c].got + Len(data)
    <3> DEFINE a == IF decoded THEN SubSeq(new, 1, Len(new) - AnsLen) ELSE new
    <3> DEFINE b == IF decoded THEN new[1][2] ELSE ac[c].ret
    <3> DEFINE e == IF decoded THEN NoEvent ELSE ac[c].event
    <3>1. ac' = [ac EXCEPT ![c] = [ac[c] EXCEPT !.got = k, !.rbuf = a, !.ret = b, !.event = e]]
      BY DEF ClientReads
    <3>4. k = ac[c].got + AnsLen
      BY <2>1
    <3> HIDE DEF k, a, b, e
    <3>2. ac'[c] = [ac[c] EXCEPT !.got = k, !.rbuf = a, !.ret = b, !.event = e]
      BY <1>2, <3>1
    <3>3. ASSUME NEW r \in AppClientOf PROVE [r EXCEPT !.got = k, !.rbuf = a, !.ret = b, !.event = e].got = k
      BY DEF AppClientOf
    <3> QED
      BY <1>2, <3>2, <3>3, <3>4
  <2> QED
    BY <1>2, <1>6, <2>2
<1>9. ac'[c].got = n * AnsLen /\ ac'[c].rbuf = << >> /\ ac'[c].event = NoEvent
  <2>1. Len(buf) = AnsLen
    BY <1>2, <1>5, <1>6, <1>8
  <2>2. SubSeq(buf, 1, Len(buf) - AnsLen) = << >>
    BY <1>2, <2>1
  <2> QED
    BY <1>2, <1>4, <1>5, <1>6, <1>8, <2>1, <2>2
<1>10. /\ ac'[c].wbuf = ac[c].wbuf /\ ac'[c].call = ac[c].call /\ ac'[c].calls = ac[c].calls
       /\ ac'[c].last = ac[c].last /\ ac'[c].fd = ac[c].fd
  BY <1>2, ClientReadsEffect
<1>11. ac'[c].ret = n
  <2>1. PICK a \in Nat : Taken(ac'[c], a)
    BY <1>2, ClientReadsTakes DEF TakeOf
  <2>2. a = n
    <3>1. n * AnsLen = a * AnsLen + Len(ac'[c].rbuf)
      BY <1>9, <2>1 DEF Taken
    <3>2. n * AnsLen = a * AnsLen
      <4>1. a * AnsLen \in Nat
        BY <1>2, Multiple
      <4> QED
        BY <1>9, <3>1, <4>1
    <3>3. ASSUME NEW p \in Nat, NEW q \in Nat, p * AnsLen = q * AnsLen PROVE p = q
      <4>1. 0 \in 0 .. AnsLen - 1
        BY <1>2
      <4>2. p * AnsLen + 0 = p * AnsLen /\ q * AnsLen + 0 = q * AnsLen
        BY <1>2, Multiple
      <4>3. (p * AnsLen + 0) \div AnsLen = p /\ (q * AnsLen + 0) \div AnsLen = q
        BY <1>2, <4>1, DivMod
      <4> QED
        BY <3>3, <4>2, <4>3
    <3> QED
      BY <3>2, <3>3
  <2>3. ac'[c].call = n /\ ac'[c].last.ret = ac'[c].last.call
    BY <1>3, <1>10 DEF Calling
  <2>4. ac'[c].ret # 0
    BY <1>3, <2>1, <2>2, <2>3 DEF Taken
  <2> QED
    BY <1>3, <2>1, <2>2, <2>3, <2>4 DEF Taken
<1>12. UNCHANGED <<sock, clients>>
  BY DEF ClientReads, vars
<1>13. Shape(c, 0, 0, 0, n, n)'
  BY <1>7, <1>9, <1>10, <1>12 DEF Shape, InRead, InWrite
<1>14. Stage(c)' /\ Unmoved(c)'
  <2>1. Calling(c, n)'
    BY <1>3, <1>9, <1>10, <1>11, <1>13 DEF Calling
  <2> QED
    BY <1>2, <1>3, <1>10, <1>12, <2>1 DEF Stage, Unmoved
<1>15. Executed(c)' = Executed(c)
  BY <1>12 DEF Executed
<1> QED
  BY <1>10, <1>14, <1>15, Unseen DEF ClientStep, InCall


\* event_loop returns: this is the Answer of RPC.
LEMMA CallReturnsStage ==
  ASSUME FInv, NEW c \in Conn, CallReturns(c)
  PROVE  Stays /\ Refines
<1>1. Running(c) /\ ac[c].event = NoEvent /\ UNCHANGED <<sock, clients>>
  BY DEF CallReturns, vars
<1>2. PICK n \in Nat : /\ n = ac[c].calls /\ Calling(c, n) /\ n # 0
                       /\ Shape(c, 0, 0, 0, n, n) /\ ac[c].ret = n
  BY <1>1, RunningStage
<1>3. CInv /\ Unmoved(c) /\ ac[c].call = n
  BY <1>1, <1>2, RunningStage DEF Calling
<1>4. /\ ac'[c].call = 0 /\ ac'[c].last.call = ac[c].call /\ ac'[c].last.ret = ac[c].ret
      /\ ac'[c].wbuf = ac[c].wbuf /\ ac'[c].rbuf = ac[c].rbuf /\ ac'[c].got = ac[c].got
      /\ ac'[c].calls = ac[c].calls /\ ac'[c].fd = ac[c].fd
  BY <1>3, CallReturnsEffect
<1>5. Shape(c, 0, 0, 0, n, n)'
  BY <1>1, <1>2, <1>4 DEF Shape, InRead, InWrite
<1>6. Stage(c)' /\ Unmoved(c)'
  BY <1>1, <1>2, <1>3, <1>4, <1>5 DEF Stage, Idle, Unmoved
<1>7. Executed(c) = n /\ Executed(c)' = Executed(c)
  BY <1>1, <1>2, ShapeExecuted DEF Executed
<1>8. /\ Up' /\ \A d \in Conn : d # c => /\ Unmoved(d)' /\ Stage(d)' /\ ac'[d] = ac[d]
                                         /\ Executed(d)' = Executed(d)
  BY OthersAlone DEF ClientStep, InCall
<1>9. Promise!Answer(c)
  <2>1. /\ ac[c].call # 0 /\ ac[c].call = Executed(c) /\ ac'[c].call = 0
        /\ ac'[c].last.ret = ac[c].call
    BY <1>2, <1>3, <1>4, <1>7
  <2>2. /\ \A d \in Conn : d # c => ac'[d].call = ac[d].call /\ ac'[d].last.ret = ac[d].last.ret
        /\ \A d \in Conn : Executed(d)' = Executed(d)
    BY <1>7, <1>8
  <2> QED
    BY <2>1, <2>2, PromiseAnswer
<1> QED
  BY <1>6, <1>8, <1>9 DEF Stays, Refines, Promise!Next

\* The server never hangs up on a client in a call, and its answer is not late.
LEMMA NoClientError ==
  ASSUME NoFaults, FInv, NEW c \in Conn
  PROVE  ~ ClientWriteError(c) /\ ~ ClientReadError(c) /\ ~ ClientTimeout(c)
<1>1. SUFFICES ASSUME ClientWriteError(c) \/ ClientReadError(c) \/ ClientTimeout(c)
               PROVE  FALSE
  OBVIOUS
<1>2. Running(c)
  BY <1>1 DEF ClientWriteError, ClientReadError, ClientTimeout
<1>3. Unmoved(c) /\ ac[c].fd = "open" /\ CInv
  BY <1>2, RunningStage
<1>4. sock[c].st # "gone"
  BY <1>3 DEF Unmoved
<1>5. CASE ClientTimeout(c)
  BY <1>2, <1>5, RunningStage DEF ClientTimeout, NoFaults
<1>6. CASE ClientReadError(c)
  <2>1. /\ ac[c].event.read /\ Unread(c) # << >>
        /\ Upto(Unread(c), BufSize - Len(ac[c].rbuf)) = << >>
    BY <1>4, <1>6 DEF ClientReadError
  <2>2. PICK n \in Nat :
          /\ n - 1 \in Nat
          /\ \/ Shape(c, 0, ReqLen, 0, n - 1, n - 1)
             \/ Shape(c, 0, 0, AnsLen, n - 1, n - 1)
             \/ Shape(c, 0, 0, 0, n, n - 1)
    BY <1>2, <2>1, RunningStage
  <2>3. PICK g \in Nat : g = (n - 1) * AnsLen /\ n * AnsLen = g + AnsLen
    <3>1. (n - 1) * AnsLen \in Nat /\ n * AnsLen = (n - 1) * AnsLen + AnsLen
      BY <2>2, AppServerAssumption, Multiple
    <3> QED
      BY <3>1
  <2>4. ac[c].got = g /\ ac[c].rbuf = << >> /\ Len(sock[c].out) \in {g, g + AnsLen}
    BY <2>2, <2>3 DEF Shape
  <2>5. Len(Upto(Unread(c), BufSize - Len(ac[c].rbuf))) = AnsLen
    BY <1>3, <2>1, <2>4, WholeAnswer
  <2> QED
    BY <2>1, <2>5, AppServerAssumption
<1>7. ~ ClientWriteError(c)
  BY <1>4 DEF ClientWriteError
<1> QED
  BY <1>1, <1>5, <1>6, <1>7

LEMMA ClientStepStage ==
  ASSUME NoFaults, FInv, NEW c \in Conn, ClientStep(c)
  PROVE  Stays /\ Refines
<1>1. ASSUME NEW n, ClientWrites(c, n), InCall(c) PROVE Stays /\ Refines
  BY <1>1, ClientWritesStage
<1>2. ~ ClientWriteError(c) /\ ~ ClientReadError(c) /\ ~ ClientTimeout(c)
  BY NoClientError
<1> QED
  BY <1>1, <1>2, ConnectionStage, CallStartsStage, ClientReadsStage, CallReturnsStage
     DEF ClientStep, InCall

--------------------------------------------------------------------------------
(***************************************************************************)
(* The refinement.                                                         *)
(***************************************************************************)
LEMMA InitFInv == ClientInit => FInv
<1> SUFFICES ASSUME ClientInit PROVE FInv
  OBVIOUS
<1>1. Streamed
  BY InitCInv, InitCounts, InitAsks, InitTakes DEF Streamed
<1>2. Up
  <2>1. ev.rfds = {Listen}
    BY DEF ClientInit, Init, RegisterRead, NewEvent
  <2> QED
    BY <2>1 DEF ClientInit, Init, Up
<1>3. 0 * AnsLen = 0
  BY AppServerAssumption, Multiple
<1>4. ASSUME NEW c \in Conn PROVE Unmoved(c) /\ Stage(c)
  <2>1. /\ sock[c].st = "none" /\ sock[c].peer = "open" /\ sock[c].in = << >> /\ sock[c].out = << >>
        /\ c \notin DOMAIN clients
    BY DEF ClientInit, Init
  <2>2. /\ ac[c].fd = "none" /\ ac[c].call = 0 /\ ac[c].calls = 0 /\ ac[c].wbuf = << >>
        /\ ac[c].rbuf = << >> /\ ac[c].got = 0 /\ ac[c].last.ret = 0 /\ ac[c].last.call = 0
    BY DEF ClientInit, NewAppClient
  <2>3. Shape(c, 0, 0, 0, 0, 0)
    BY <1>3, <2>1, <2>2 DEF Shape, InRead, InWrite
  <2> QED
    BY <2>1, <2>2, <2>3 DEF Unmoved, Stage, Idle
<1> QED
  BY <1>1, <1>2, <1>4 DEF FInv

LEMMA StepFInv == ASSUME NoFaults PROVE FInv /\ [ClientNext]_rpcVars => FInv' /\ Refines
<1> SUFFICES ASSUME FInv, [ClientNext]_rpcVars PROVE FInv' /\ Refines
  OBVIOUS
<1>1. Streamed'
  <2>1. "signal" \notin Faults /\ "signal" \notin ClientFaults
    BY DEF NoFaults
  <2> QED
    BY <2>1, StepCInv, StepCounts, StepAsks, StepTakes DEF FInv, Streamed
<1>2. Stays /\ Refines
  <2>1. CASE (ServerStep \/ Crash) /\ UNCHANGED ac
    BY <2>1, ServerStepStage
  <2>2. ASSUME NEW c \in Conn, ClientStep(c) PROVE Stays /\ Refines
    BY <2>2, ClientStepStage
  <2>3. CASE UNCHANGED rpcVars
    <3>1. UNCHANGED <<sock, clients, ev, pc, ac>>
      BY <2>3 DEF rpcVars, vars
    <3>2. Up'
      BY <3>1 DEF FInv, Up
    <3>3. ASSUME NEW c \in Conn PROVE Unmoved(c)' /\ Stage(c)' /\ Executed(c)' = Executed(c)
      <4>1. /\ Unmoved(c) /\ Stage(c) /\ ac'[c] = ac[c] /\ sock'[c] = sock[c]
            /\ InRead(c)' = InRead(c) /\ InWrite(c)' = InWrite(c)
        BY <3>1 DEF FInv, InRead, InWrite
      <4>2. ac[c].fd = "open" => sock'[c].peer = "open" /\ sock'[c].st \in {"waiting", "accepted"}
        BY <4>1 DEF Unmoved
      <4> QED
        BY <4>1, <4>2, StageAlone
    <3> QED
      BY <3>1, <3>2, <3>3, NoneExecuted
  <2> QED
    BY <2>1, <2>2, <2>3 DEF ClientNext, ClientStep
<1> QED
  BY <1>1, <1>2 DEF Stays, FInv

\* Without faults, and with a descriptor for each client, the callbacks of the two
\* loops, the buffers and the sockets implement the steps of RPC: the safety half
\* of ImplementsRPC.  appclient_call is the Ask, the _appserver_read that finds the
\* request the Execute and the return of event_loop the Answer, with the number of
\* that very call; every other step of either program is invisible.
THEOREM CallsImplementRPC ==
  ASSUME NoFaults
  PROVE  ClientSpec => Promise!Init /\ [][Promise!Next]_(Promise!rpcVars)
<1>1. FInv /\ [ClientNext]_rpcVars => FInv' /\ [Promise!Next]_(Promise!rpcVars)
  BY StepFInv DEF Refines
<1> QED
  BY <1>1, InitFInv, PromiseInit, PTL DEF ClientSpec

\* Without faults every connection is in one of the stages of a call: the server
\* never drops a client, and no call fails or is left without its answer.
THEOREM CallsNeverFail ==
  ASSUME NoFaults
  PROVE  ClientSpec => []FInv
<1>1. FInv /\ [ClientNext]_rpcVars => FInv'
  BY StepFInv
<1> QED
  BY <1>1, InitFInv, PTL DEF ClientSpec
================================================================================
