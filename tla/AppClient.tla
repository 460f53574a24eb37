------------------------------- MODULE AppClient -------------------------------
(***************************************************************************)
(* The client side of the RPC of libApp (libApp/src/appclient.c) and its   *)
(* composition with the server: every peer of AppServer is an AppClient    *)
(* whose program makes one synchronous call after the other.               *)
(*                                                                         *)
(* appclient_call runs a private Event until nothing is registered in it.  *)
(* It never holds more than the timer of the call and one registration of  *)
(* the client's descriptor for reading and for writing, so that Event is   *)
(* three booleans, and each callback is one action.                        *)
(***************************************************************************)
EXTENDS AppServer

CONSTANT ClientFaults   \* what the system may do to the clients

ASSUME AppClientAssumption == ClientFaults \subseteq {"timeout", "signal"}

VARIABLE ac    \* the AppClient of each connection

rpcVars == <<vars, ac>>

NoEvent == [timer |-> FALSE, read |-> FALSE, write |-> FALSE]

NewAppClient ==
  [fd    |-> "none",       \* "none", "open", or "closed" for -1
   rbuf  |-> << >>,        \* buf_read up to buf_read_cnt
   wbuf  |-> << >>,        \* buf_write up to buf_write_cnt
   got   |-> 0,            \* the units of the stream read so far
   event |-> NoEvent,      \* what is registered in the private Event
   call  |-> 0,            \* the call in progress, 0 if there is none
   ret   |-> 0,            \* *lastret: the call whose answer was stored, or 0
   calls |-> 0,            \* the calls made
   last  |-> [call |-> 0, ok |-> TRUE, ret |-> 0], \* the call that returned last
   aborted |-> FALSE]      \* an assertion failed

ClientInit == Init /\ ac = [c \in Conn |-> NewAppClient]

--------------------------------------------------------------------------------
\* appclient_new: the connection is made.  (Asking Init for the port first, as
\* _new_connect does, is a call like the others on a connection of its own.)
Connect(c) ==
  /\ PeerConnects(c)
  /\ ac' = [ac EXCEPT ![c].fd = "open"]

\* Mutant: the call has no timer.
CallStartsUntimed(c) ==
  /\ ac[c].fd # "none" /\ ac[c].call = 0 /\ ~ ac[c].aborted
  /\ ac[c].calls < MaxReq
  /\ Len(ac[c].wbuf) + ReqLen <= BufSize
  /\ LET n == ac[c].calls + 1
     IN  ac' = [ac EXCEPT ![c].wbuf = @ \o Request(c, n),
                          ![c].call = n, ![c].calls = n, ![c].ret = 0,
                          ![c].aborted = ac[c].fd = "closed",
                          ![c].event = [timer |-> FALSE, read |-> FALSE, write |-> TRUE]]
  /\ UNCHANGED vars

\* appclient_call up to event_loop: the request is added to buf_write, the timer
\* and the descriptor are registered.  event_register_io_write asserts that the
\* descriptor is not -1.
CallStarts(c) ==
  /\ ac[c].fd # "none" /\ ac[c].call = 0 /\ ~ ac[c].aborted
  /\ ac[c].calls < MaxReq
  /\ Len(ac[c].wbuf) + ReqLen <= BufSize
  /\ LET n == ac[c].calls + 1
     IN  ac' = [ac EXCEPT ![c].wbuf = @ \o Request(c, n),
                          ![c].call = n, ![c].calls = n, ![c].ret = 0,
                          ![c].aborted = ac[c].fd = "closed",
                          ![c].event = [timer |-> TRUE, read |-> FALSE, write |-> TRUE]]
  /\ UNCHANGED vars

Running(c) == ac[c].call # 0 /\ ~ ac[c].aborted

\* close(ac->fd); ac->fd = -1
Hangup(s, c) == [s EXCEPT ![c].peer = "closed"]

\* _appclient_write: what was written is taken off buf_write, with the memmove()
\* of _appserver_write.  Once it is empty the answer is waited for.
ClientWrites(c, n) ==
  LET left == AfterWrite(ac[c].wbuf, n)
  IN  /\ Running(c) /\ ac[c].event.write
      /\ n \in 1 .. Len(ac[c].wbuf)
      /\ n < Len(ac[c].wbuf) => "signal" \in ClientFaults
      /\ sock' = [sock EXCEPT ![c].in = IF sock[c].st = "gone" THEN @
                                        ELSE @ \o SubSeq(ac[c].wbuf, 1, n)]
      /\ ac' = [ac EXCEPT ![c].wbuf = left,
                          ![c].event.write = left # << >>,
                          ![c].event.read = left = << >>]
      /\ UNCHANGED <<server, backlog>>

\* _appclient_write and _write_error: the timer stays registered.
ClientWriteError(c) ==
  /\ Running(c) /\ ac[c].event.write /\ sock[c].st = "gone"
  /\ ac' = [ac EXCEPT ![c].fd = "closed", ![c].event.write = FALSE]
  /\ sock' = Hangup(sock, c)
  /\ UNCHANGED <<server, backlog>>

Unread(c) == SubSeq(sock[c].out, ac[c].got + 1, Len(sock[c].out))

\* Mutant: what was decoded stays in buf_read.
ClientReadsKept(c) ==
  LET data == Upto(Unread(c), BufSize - Len(ac[c].rbuf))
      buf == ac[c].rbuf \o data
      decoded == Len(buf) >= AnsLen
  IN  /\ Running(c) /\ ac[c].event.read /\ data # << >>
      /\ ac' = [ac EXCEPT
                  ![c].got = @ + Len(data),
                  ![c].rbuf = buf,
                  ![c].ret = IF decoded THEN buf[1][2] ELSE @,
                  ![c].event = IF decoded THEN NoEvent ELSE @]
      /\ UNCHANGED vars

\* _appclient_read with data.  buf_read_cnt is lowered by what
\* appinterface_call_receive decoded, but the rest is not moved to the front.
ClientReads(c) ==
  LET data == Upto(Unread(c), BufSize - Len(ac[c].rbuf))
      buf == ac[c].rbuf \o data
      decoded == Len(buf) >= AnsLen
  IN  /\ Running(c) /\ ac[c].event.read /\ data # << >>
      /\ ac' = [ac EXCEPT
                  ![c].got = @ + Len(data),
                  ![c].rbuf = IF decoded THEN SubSeq(buf, 1, Len(buf) - AnsLen) ELSE buf,
                  ![c].ret = IF decoded THEN buf[1][2] ELSE @,
                  ![c].event = IF decoded THEN NoEvent ELSE @]
      /\ UNCHANGED vars

\* _appclient_read and _read_error: the server closed the connection, or there
\* is no room left in buf_read and read() returns 0.
ClientReadError(c) ==
  /\ Running(c) /\ ac[c].event.read
  /\ Upto(Unread(c), BufSize - Len(ac[c].rbuf)) = << >>
  /\ Unread(c) = << >> => sock[c].st = "gone"
  /\ ac' = [ac EXCEPT ![c].fd = "closed", ![c].event = NoEvent]
  /\ sock' = Hangup(sock, c)
  /\ UNCHANGED <<server, backlog>>

\* Mutant: the timer expires before its time.
ClientTimeoutEarly(c) ==
  /\ Running(c) /\ ac[c].event.timer
  /\ ac' = [ac EXCEPT ![c].event = NoEvent]
  /\ UNCHANGED vars

\* _appclient_timeout: ten seconds went by.  Without the "timeout" fault they do
\* so only when there is nothing else to wait for.
ClientTimeout(c) ==
  /\ Running(c) /\ ac[c].event.timer
  /\ ac[c].event.read \/ ac[c].event.write => "timeout" \in ClientFaults
  /\ ac' = [ac EXCEPT ![c].event = NoEvent]
  /\ UNCHANGED vars

\* event_loop returned: _call_event takes the call for a success when the
\* descriptor is still there.
CallReturns(c) ==
  /\ Running(c) /\ ac[c].event = NoEvent
  /\ ac' = [ac EXCEPT ![c].call = 0,
                      ![c].last = [call |-> ac[c].call, ok |-> ac[c].fd = "open",
                                   ret |-> ac[c].ret]]
  /\ UNCHANGED vars

\* appclient_delete, once no call is in progress.
Delete(c) ==
  /\ ac[c].fd = "open" /\ ac[c].call = 0
  /\ ac' = [ac EXCEPT ![c].fd = "none"]
  /\ sock' = Hangup(sock, c)
  /\ UNCHANGED <<server, backlog>>

InCall(c) ==
  \/ \E n \in 1 .. BufSize : ClientWrites(c, n)
  \/ ClientWriteError(c) \/ ClientReads(c) \/ ClientReadError(c)
  \/ ClientTimeout(c) \/ CallReturns(c)

ClientNext ==
  \/ (ServerStep \/ Crash) /\ UNCHANGED ac
  \/ \E c \in Conn : Connect(c) \/ CallStarts(c) \/ InCall(c) \/ Delete(c)

ClientSpec == ClientInit /\ [][ClientNext]_rpcVars

\* The server and the clients in a call are never stopped by the scheduler, and
\* a running timer expires in the end (WF of InCall includes it).
ClientFairSpec ==
  /\ ClientSpec
  /\ WF_rpcVars(ServerStep /\ UNCHANGED ac)
  /\ \A c \in Conn : WF_rpcVars(InCall(c))

--------------------------------------------------------------------------------
\* The calls of a client the server has executed.
Executed(c) ==
  (Len(sock[c].out) + IF c \in DOMAIN clients THEN Len(clients[c].wbuf) ELSE 0) \div AnsLen

\* The server never executes more of a client's calls than the client made: no
\* request is executed twice, even if its call timed out and the program went on.
ExecutedAtMostOnce == \A c \in Conn : Executed(c) <= ac[c].calls

\* While every call has had its own answer, the answer stored through lastret is
\* the one to the call in progress.  A call that times out returns as a success
\* without an answer, and from then on the late answers are taken for the next.
StoredAnswerIsOurs ==
  \A c \in Conn : Running(c) /\ ac[c].ret # 0 =>
    ac[c].ret = ac[c].call \/ ac[c].last.ret # ac[c].last.call

\* While appclient_call waits to write, buf_write is the end of its request.
BufferIsRestOfRequest ==
  \A c \in Conn : ac[c].event.write =>
    \E n \in 1 .. ReqLen : ac[c].wbuf = SubSeq(Request(c, ac[c].call), n, ReqLen)

\* appclient_call always returns, even if the server dies, drops the client or
\* never answers.  The one call that does not is made after one that has failed,
\* and runs into the assertion of event_register_io_write that it is given a
\* descriptor: a program that heeds the result of its calls never makes it.
EveryCallReturns ==
  \A c \in Conn :
    (ac[c].call # 0) ~> (ac[c].call = 0 \/ (ac[c].aborted /\ ~ac[c].last.ok))

\* Without faults the composition is the remote procedure call RPC.tla specifies.
Promise == INSTANCE RPC WITH
  Client <- Conn, MaxCalls <- MaxReq,
  call <- [c \in Conn |-> ac[c].call],
  executed <- [c \in Conn |-> Executed(c)],
  result <- [c \in Conn |-> ac[c].last.ret]

\* Every call of every client is executed once and then returns its own answer:
\* the callbacks of both loops, the buffers and the sockets implement RPC.
ImplementsRPC == Promise!Spec
================================================================================
