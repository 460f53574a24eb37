------------------------------- MODULE Inetd -------------------------------
(***************************************************************************)
(* The Internet super-server (Apps/Servers/src/inetd: inetd.c, service.c). *)
(*                                                                         *)
(* The daemon waits in select() for work on the sockets of its services    *)
(* and starts a server for each: a TCP service accepts the connection for  *)
(* the server, a UDP service hands the socket itself over, and one that    *)
(* "waits" is taken out of the set until that server has ended.  Two       *)
(* signal handlers change the same state: SIGCHLD reaps a server and puts  *)
(* its service back, SIGHUP reads the configuration again.  Signals are    *)
(* blocked while the services are served and at no other time, so that a   *)
(* handler may run before and after every other step of the loop.          *)
(*                                                                         *)
(* A pending signal that is not blocked is delivered before the daemon     *)
(* takes another step; signals are generated at any time.                  *)
(***************************************************************************)
EXTENDS Integers, Sequences, FiniteSets, FiniteSetsExt

CONSTANTS
  Start,       \* the configuration at the start
  Configs,     \* what the file may hold after it, each a sequence of Key
  Fd,          \* the descriptors of the daemon
  Pid,         \* the processes the system allows it to have
  FlagSets,    \* what sa_flags may hold
  MaxHups,     \* bound: SIGHUPs in one behaviour
  MaxWork      \* bound: connections or datagrams waiting on a socket

NoFd == -1
NoPid == -1

ASSUME FdAssumption == Fd \subseteq Nat /\ IsFiniteSet(Fd) /\ Pid \subseteq Nat \ {0}
ASSUME BoundsAssumption == MaxHups \in Nat /\ MaxWork \in Nat \ {0}

\* What _inetd_sighup compares of two services.
Key == [proto : {"tcp", "wait", "nowait"}, port : Nat]

\* service_new: no socket and no server yet.
NewService(k) == [key |-> k, fd |-> NoFd, pid |-> NoPid]

\* A TCP and a UDP service may have the same port.
Address(k) == <<IF k.proto = "tcp" THEN "tcp" ELSE "udp", k.port>>
AllConfigs == Configs \union {Start}
Keys == UNION {{c[i] : i \in DOMAIN c} : c \in AllConfigs}
Addresses == {Address(k) : k \in Keys}

ASSUME ConfigAssumption == \A c \in AllConfigs : c \in Seq(Key)
ASSUME FlagAssumption == FlagSets \subseteq SUBSET {"NOCLDWAIT", "RESETHAND"} /\ FlagSets # {}

VARIABLES
  services,   \* config->services: [key, fd, pid] each
  open,       \* the daemon's descriptors: an address, a connection, or free
  rfds,       \* state->rfds
  fdmax,      \* state->fdmax
  pc,         \* where the loop of _inetd_do is
  rfdstmp,    \* its copy of the set, then what select() found
  cur,        \* its index
  newpid,     \* what fork() has just returned to _exec_udp_wait
  pending,    \* the signals that are pending
  reset,      \* the signals whose handler is gone (SA_RESETHAND)
  flags,      \* sa_flags, which _inetd_init does not set
  child,      \* the processes: state, whom they serve, the sockets they hold
  work,       \* what waits on the socket of each address
  hups,       \* how many SIGHUPs were sent
  stale,      \* history: the services were replaced while the loop used its copy
  coalesced,  \* history: a SIGCHLD was generated while one was pending
  forgot,     \* history: a service was replaced while its server ran
  overrun     \* history: _inetd_sighup has read past the new services

loop == <<pc, rfdstmp, cur, newpid>>
history == <<hups, stale, coalesced, forgot, overrun>>
vars == <<services, open, rfds, fdmax, loop, pending, reset, flags, child, work, history>>

-----------------------------------------------------------------------------
(* The system around the daemon *)

FreeFd == <<"free">>
Connection == <<"connection">>
Nobody == [state |-> "none", serves |-> [proto |-> "none", port |-> 0], holds |-> {}]
Free == {fd \in Fd : open[fd] = FreeFd}
FreePid == {p \in Pid : child[p].state = "none"}
Running(p) == child[p].state = "running"
Zombies == {p \in Pid : child[p].state = "zombie"}

\* A socket lives while the daemon or a server has it; servers inherit them all.
HeldBy(c, a) == \E p \in Pid : c[p].state = "running" /\ a \in c[p].holds
Lives(o, c, a) == HeldBy(c, a) \/ \E fd \in Fd : o[fd] = a
WorkLeft(o, c) == [a \in Addresses |-> IF Lives(o, c, a) THEN work[a] ELSE 0]

\* fork(): the process is a server of this service, with the daemon's sockets.
Fork(p, k) ==
  child' = [child EXCEPT ![p] =
    [state |-> "running", serves |-> k, holds |-> {a \in Addresses : \E fd \in Fd : open[fd] = a}]]

\* select() finds the sockets below fdmax + 1 with something to accept or to read.
Readable(fds) == {fd \in fds : fd <= fdmax /\ open[fd] \in Addresses /\ work[open[fd]] > 0}


-----------------------------------------------------------------------------
(* Signals *)

\* Mutant: signals are let in only while select() waits.
BlockedOutsideSelect == pc # "waiting"

\* sigprocmask() around the services.
Blocked == pc \in {"serve", "forked"}

Alive == pc \notin {"ebadf", "crashed", "killed"}

\* The loop goes on: no signal is to be delivered first.
Undisturbed == Alive /\ (Blocked \/ pending = {})

\* Mutant: select() is called again with the copy it has.
InterruptedNoCopy ==
  /\ pc' = IF pc = "waiting" THEN "select" ELSE pc
  /\ UNCHANGED rfdstmp

\* A handler has run: select() is interrupted and the loop starts over.  (The
\* loop's copy and index are cleared where they are no longer used.)
Interrupted ==
  /\ pc' = IF pc = "waiting" THEN "copy" ELSE pc
  /\ rfdstmp' = IF pc = "waiting" THEN {} ELSE rfdstmp

\* Mutant: SIGCHLD is not blocked across fork().
DeliveredAtFork(sig) ==
  /\ sig \in pending /\ Alive /\ (Blocked => sig = "CHLD" /\ pc = "forked")
  /\ pending' = pending \ {sig}
  /\ reset' = IF "RESETHAND" \in flags THEN reset \union {sig} ELSE reset

\* SA_RESETHAND: the handler runs once.
Delivered(sig) ==
  /\ sig \in pending /\ Alive /\ ~Blocked
  /\ pending' = pending \ {sig}
  /\ reset' = IF "RESETHAND" \in flags THEN reset \union {sig} ELSE reset

\* The service that waits for this server, if any, is idle and back in the set.
PutBack(p) ==
  LET busy == {i \in DOMAIN services : services[i].pid = p}
  IN IF busy = {} THEN UNCHANGED <<services, rfds>>
     ELSE /\ services' = [services EXCEPT ![Min(busy)].pid = NoPid]
          /\ rfds' = rfds \union {services[Min(busy)].fd}

\* Mutant: a server that is only stopped counts as ended.
SigchldUntraced ==
  /\ Delivered("CHLD") /\ Interrupted
  /\ \E p \in Pid : /\ child[p].state # "none" /\ (Zombies # {} => p \in Zombies)
                    /\ PutBack(p)
                    /\ child' = IF p \in Zombies THEN [child EXCEPT ![p] = Nobody] ELSE child
  /\ UNCHANGED <<open, fdmax, cur, newpid, flags, work, history>>

\* _inetd_sigchld: one server that has ended is reaped, if there is one.
Sigchld ==
  /\ Delivered("CHLD") /\ Interrupted
  /\ \/ \E p \in Zombies : child' = [child EXCEPT ![p] = Nobody] /\ PutBack(p)
     \/ Zombies = {} /\ UNCHANGED <<services, rfds, child>>
  /\ UNCHANGED <<open, fdmax, cur, newpid, flags, work, history>>

\* The services whose bind() succeeds if they get a socket: they have none yet, and
\* nothing uses their port, nor does a service before them ask for it.
Binding(ss, o, c) ==
  LET asks(i) == ss[i].pid = NoPid /\ ss[i].fd = NoFd /\ ~Lives(o, c, Address(ss[i].key))
  IN {i \in DOMAIN ss : asks(i) /\ \A j \in DOMAIN ss :
        j < i /\ asks(j) => Address(ss[j].key) # Address(ss[i].key)}

Below(S, x) == Cardinality({y \in S : y < x})

\* service_listen: socket() gives the lowest descriptor that is free, so the n-th
\* service to keep one has the n-th lowest; no descriptor is left for the others.
Listen(ss, o, c, i) ==
  LET free == {fd \in Fd : o[fd] = FreeFd}
  IN {fd \in free : i \in Binding(ss, o, c) /\ Below(free, fd) = Below(Binding(ss, o, c), i)}

\* _inetd_setup: the services that have no socket get one; then the set and its
\* bound are those of the services that are idle and listen.
Setup(ss, o, c) ==
  LET given == [i \in DOMAIN ss |-> Listen(ss, o, c, i)]
      new == [i \in DOMAIN ss |-> IF given[i] = {} THEN ss[i] ELSE [ss[i] EXCEPT !.fd = Min(given[i])]]
      fds == {new[i].fd : i \in {j \in DOMAIN ss : new[j].pid = NoPid /\ new[j].fd # NoFd}}
  IN [services |-> new,
      open |-> [fd \in Fd |-> IF \E i \in DOMAIN ss : fd \in given[i]
                              THEN Address(ss[CHOOSE i \in DOMAIN ss : fd \in given[i]].key)
                              ELSE o[fd]],
      rfds |-> fds, fdmax |-> Max(fds \union {-1})]

\* A Service is kept when the one at the same index has the same key.
Kept(ss, i, new) == i <= Len(new) /\ ss[i].key = new[i]

\* Mutant: the server of a service that is kept is remembered.
RenewedKeepsPid(ss, new) ==
  [i \in DOMAIN new |-> IF i \in DOMAIN ss /\ Kept(ss, i, new) THEN ss[i] ELSE NewService(new[i])]

\* The new services, with the sockets they take over.
Renewed(ss, new) ==
  [i \in DOMAIN new |-> IF i \in DOMAIN ss /\ Kept(ss, i, new)
                        THEN [NewService(new[i]) EXCEPT !.fd = ss[i].fd]
                        ELSE NewService(new[i])]

\* Services past the end of the new ones are compared with what lies there, if
\* there are new ones at all: each may seem to match, or not.
PastEnd(ss, new) == IF new = <<>> THEN {} ELSE {i \in DOMAIN ss : i > Len(new)}

\* Mutant: only the services past the end are closed.
ClosedFewer(ss, new, matched) ==
  {ss[i].fd : i \in {j \in DOMAIN ss : j > Len(new) /\ j \notin matched}} \ {NoFd}

\* What is closed: the sockets that nothing has taken over.
Closed(ss, new, matched) ==
  {ss[i].fd : i \in {j \in DOMAIN ss : ~Kept(ss, j, new) /\ j \notin matched}} \ {NoFd}

\* _inetd_sighup with a configuration that can be read.
Sighup(new, matched) ==
  /\ "HUP" \notin reset
  /\ Delivered("HUP") /\ Interrupted
  /\ matched \subseteq PastEnd(services, new)
  /\ LET closed == Closed(services, new, matched)
         o == [fd \in Fd |-> IF fd \in closed THEN FreeFd ELSE open[fd]]
         st == Setup(Renewed(services, new), o, child)
     IN /\ services' = st.services /\ open' = st.open
        /\ rfds' = st.rfds /\ fdmax' = st.fdmax
        /\ work' = [a \in Addresses |->
             IF Lives(o, child, a) THEN work[a] ELSE 0]
  /\ stale' = (stale \/ pc \in {"select", "block"})
  /\ forgot' = (forgot \/ \E i \in DOMAIN services : services[i].pid # NoPid)
  /\ overrun' = (overrun \/ PastEnd(services, new) # {})
  /\ UNCHANGED <<cur, newpid, flags, child, hups, coalesced>>

\* The same, when what lies past the end is no pointer.
SighupCrashes(new) ==
  /\ "HUP" \notin reset /\ Delivered("HUP") /\ PastEnd(services, new) # {}
  /\ pc' = "crashed" /\ overrun' = TRUE
  /\ UNCHANGED <<services, open, rfds, fdmax, rfdstmp, cur, newpid, flags, child, work,
                 hups, stale, coalesced, forgot>>

\* The same, when the configuration cannot be read: it is ignored.
SighupIgnored ==
  /\ "HUP" \notin reset /\ Delivered("HUP") /\ Interrupted
  /\ UNCHANGED <<services, open, rfds, fdmax, cur, newpid, flags, child, work, history>>

\* SIGHUP without its handler.
HupKills ==
  /\ "HUP" \in reset /\ Delivered("HUP")
  /\ pc' = "killed"
  /\ UNCHANGED <<services, open, rfds, fdmax, rfdstmp, cur, newpid, flags, child, work, history>>

-----------------------------------------------------------------------------
(* The loop: _inetd_do *)

\* rfdstmp = state->rfds.
Copy ==
  /\ pc = "copy" /\ Undisturbed
  /\ rfdstmp' = rfds /\ stale' = FALSE /\ pc' = "select"
  /\ UNCHANGED <<services, open, rfds, fdmax, cur, newpid, pending, reset, flags, child, work,
                 hups, coalesced, forgot, overrun>>

\* select() is called: a closed descriptor ends the daemon; what can be read is
\* returned at once.
Select ==
  /\ pc = "select" /\ Undisturbed
  /\ \/ /\ \E fd \in rfdstmp : fd <= fdmax /\ open[fd] = FreeFd
        /\ pc' = "ebadf" /\ UNCHANGED rfdstmp
     \/ /\ \A fd \in rfdstmp : fd <= fdmax => open[fd] # FreeFd
        /\ \/ Readable(rfdstmp) = {} /\ pc' = "waiting" /\ UNCHANGED rfdstmp
           \/ Readable(rfdstmp) # {} /\ pc' = "block" /\ rfdstmp' = Readable(rfdstmp)
  /\ UNCHANGED <<services, open, rfds, fdmax, cur, newpid, pending, reset, flags,
                 child, work, history>>

\* select() was waiting, and there is something to read.
Wake ==
  /\ pc = "waiting" /\ Undisturbed /\ Readable(rfdstmp) # {}
  /\ rfdstmp' = Readable(rfdstmp) /\ pc' = "block"
  /\ UNCHANGED <<services, open, rfds, fdmax, cur, newpid, pending, reset, flags, child, work,
                 history>>

\* The signals are blocked and the services looked at, one by one.
Block ==
  /\ pc = "block" /\ Undisturbed
  /\ pc' = "serve" /\ cur' = 1
  /\ UNCHANGED <<services, open, rfds, fdmax, rfdstmp, newpid, pending, reset, flags, child,
                 work, history>>

\* The service at hand, if it is ready.
Serving(proto) ==
  /\ pc = "serve" /\ Undisturbed /\ cur <= Len(services)
  /\ services[cur].fd \in rfdstmp /\ services[cur].key.proto = proto

\* Mutant: the loop over the services ends with the first one.
DoneWithAll == cur' = Len(services) + 1 /\ UNCHANGED <<pc, rfdstmp, newpid>>

\* The next service is looked at.
Done == cur' = cur + 1 /\ UNCHANGED <<pc, rfdstmp, newpid>>

\* FD_ISSET says no; without a socket, what it reads is outside of the set, and
\* the build may trap it.
Skip ==
  /\ pc = "serve" /\ Undisturbed /\ cur <= Len(services)
  /\ services[cur].fd \notin rfdstmp
  /\ \/ Done
     \/ services[cur].fd = NoFd /\ pc' = "crashed" /\ UNCHANGED <<rfdstmp, cur, newpid>>
  /\ UNCHANGED <<services, open, rfds, fdmax, pending, reset, flags, child, work, history>>

\* _exec_tcp: accept() waits for a connection, the server gets it and the daemon
\* closes it.  If there is no process for it the connection stays open.
ExecTcp ==
  /\ Serving("tcp") /\ Done
  /\ LET a == Address(services[cur].key)
     IN \/ Free = {} /\ UNCHANGED <<open, child, work>>
        \/ /\ Free # {} /\ open[services[cur].fd] = a /\ work[a] > 0
           /\ work' = [work EXCEPT ![a] = @ - 1]
           /\ \/ \E p \in FreePid : Fork(p, services[cur].key) /\ UNCHANGED open
              \/ /\ FreePid = {}
                 /\ open' = [open EXCEPT ![Min(Free)] = Connection] /\ UNCHANGED child
  /\ UNCHANGED <<services, rfds, fdmax, pending, reset, flags, history>>

\* _exec_udp_nowait: a server is started; the datagram is left for it to read.
ExecUdpNowait ==
  /\ Serving("nowait") /\ Done
  /\ \/ \E p \in FreePid : Fork(p, services[cur].key)
     \/ FreePid = {} /\ UNCHANGED child
  /\ UNCHANGED <<services, open, rfds, fdmax, pending, reset, flags, work, history>>

\* _exec_udp_wait, up to what fork() returns.
ExecUdpWait ==
  /\ Serving("wait")
  /\ \/ \E p \in FreePid : Fork(p, services[cur].key) /\ newpid' = p
     \/ FreePid = {} /\ newpid' = NoPid /\ UNCHANGED child
  /\ pc' = "forked"
  /\ UNCHANGED <<services, open, rfds, fdmax, rfdstmp, cur, pending, reset, flags, work, history>>

\* The rest of it, and FD_CLR() for a service that waits for its server.
Forked ==
  /\ pc = "forked" /\ Undisturbed
  /\ services' = [services EXCEPT ![cur].pid = newpid]
  /\ rfds' = IF newpid = NoPid THEN rfds ELSE rfds \ {services[cur].fd}
  /\ pc' = "serve" /\ cur' = cur + 1 /\ newpid' = NoPid
  /\ UNCHANGED <<open, fdmax, rfdstmp, pending, reset, flags, child, work, history>>

\* The signals are unblocked.
Unblock ==
  /\ pc = "serve" /\ Undisturbed /\ cur > Len(services)
  /\ pc' = "copy" /\ rfdstmp' = {} /\ cur' = 1
  /\ UNCHANGED <<services, open, rfds, fdmax, newpid, pending, reset, flags, child, work,
                 history>>

-----------------------------------------------------------------------------
(* The clients, the servers and the administrator *)

\* A connection or a datagram arrives on a socket.
Arrive(a) ==
  /\ Alive /\ Lives(open, child, a) /\ work[a] < MaxWork
  /\ work' = [work EXCEPT ![a] = @ + 1]
  /\ UNCHANGED <<services, open, rfds, fdmax, loop, pending, reset, flags, child, history>>

\* The server of a UDP service reads what is there.
Receive(p) ==
  /\ Alive /\ Running(p) /\ child[p].serves.proto # "tcp"
  /\ work[Address(child[p].serves)] > 0
  /\ work' = [work EXCEPT ![Address(child[p].serves)] = 0]
  /\ UNCHANGED <<services, open, rfds, fdmax, loop, pending, reset, flags, child, history>>

\* A server ends: it waits to be reaped, unless SA_NOCLDWAIT does without it.
Exit(p) ==
  LET c == [child EXCEPT ![p] = IF "NOCLDWAIT" \in flags THEN Nobody
                                ELSE [Nobody EXCEPT !.state = "zombie"]]
  IN /\ Alive /\ Running(p)
     /\ child' = c /\ work' = WorkLeft(open, c)
     /\ pending' = IF "CHLD" \in reset THEN pending ELSE pending \union {"CHLD"}
     /\ coalesced' = (coalesced \/ "CHLD" \in pending)
     /\ UNCHANGED <<services, open, rfds, fdmax, loop, reset, flags, hups, stale, forgot, overrun>>

\* A server is stopped: SIGCHLD again, with nothing to reap.
Stop(p) ==
  /\ Alive /\ Running(p) /\ {"CHLD"} \intersect (reset \union pending) = {}
  /\ pending' = pending \union {"CHLD"}
  /\ UNCHANGED <<services, open, rfds, fdmax, loop, reset, flags, child, work, history>>

\* The administrator sends SIGHUP.
Hup ==
  /\ Alive /\ hups < MaxHups
  /\ hups' = hups + 1 /\ pending' = pending \union {"HUP"}
  /\ UNCHANGED <<services, open, rfds, fdmax, loop, reset, flags, child, work, stale, coalesced,
                 forgot, overrun>>

-----------------------------------------------------------------------------

\* _inetd_init: the daemon has read its configuration and listens.
Init ==
  /\ flags \in FlagSets
  /\ child = [p \in Pid |-> Nobody]
  /\ LET st == Setup([i \in DOMAIN Start |-> NewService(Start[i])], [fd \in Fd |-> FreeFd], child)
     IN services = st.services /\ open = st.open /\ rfds = st.rfds /\ fdmax = st.fdmax
  /\ pc = "copy" /\ rfdstmp = {} /\ cur = 1 /\ newpid = NoPid
  /\ pending = {} /\ reset = {} /\ work = [a \in Addresses |-> 0]
  /\ hups = 0 /\ stale = FALSE /\ coalesced = FALSE /\ forgot = FALSE /\ overrun = FALSE

OnHup ==
  \/ SighupIgnored \/ HupKills
  \/ \E new \in Configs :
       SighupCrashes(new) \/ \E matched \in SUBSET DOMAIN services : Sighup(new, matched)

Loop ==
  \/ Copy \/ Select \/ Wake \/ Block \/ Skip
  \/ ExecTcp \/ ExecUdpNowait \/ ExecUdpWait \/ Forked \/ Unblock

Environment ==
  \/ Hup
  \/ \E a \in Addresses : Arrive(a)
  \/ \E p \in Pid : Receive(p) \/ Exit(p) \/ Stop(p)

Next == Sigchld \/ OnHup \/ Loop \/ Environment

Spec == Init /\ [][Next]_vars

\* Each signal is delivered when it can be, and the daemon runs between signals.
FairSpec == Spec /\ WF_vars(Sigchld) /\ WF_vars(OnHup) /\ SF_vars(Loop)

-----------------------------------------------------------------------------
(* Properties *)

TypeOK ==
  /\ services \in Seq([key : Key, fd : Fd \union {NoFd}, pid : Pid \union {NoPid}])
  /\ open \in [Fd -> Addresses \union {FreeFd, Connection}]
  /\ rfds \subseteq Fd /\ rfdstmp \subseteq Fd /\ fdmax \in Fd \union {-1}
  /\ pc \in {"copy", "select", "waiting", "block", "serve", "forked", "ebadf", "crashed", "killed"}
  /\ cur \in 1 .. Len(services) + 1 /\ newpid \in Pid \union {NoPid}
  /\ pending \subseteq {"CHLD", "HUP"} /\ reset \subseteq {"CHLD", "HUP"} /\ flags \in FlagSets
  /\ \A p \in Pid : /\ child[p].state \in {"none", "running", "zombie"}
                    /\ child[p].holds \subseteq Addresses
  /\ work \in [Addresses -> 0 .. MaxWork] /\ hups \in 0 .. MaxHups
  /\ {stale, coalesced, forgot, overrun} \subseteq BOOLEAN

\* The set that select() is given is that of the services that listen and have
\* no server, whatever the loop and the two handlers have done to it, and no
\* descriptor in it is above the bound, which only _inetd_setup computes.
RfdsMatch ==
  /\ rfds = {services[i].fd : i \in {j \in DOMAIN services :
                services[j].fd # NoFd /\ services[j].pid = NoPid}}
  /\ \A fd \in rfds : fd <= fdmax

\* Each service has its own socket, open and on its own port, and each socket
\* its service: a reconfiguration neither mixes them up nor leaves one behind,
\* unless it has read past the end of the new services.
SocketsMatch ==
  /\ \A i \in DOMAIN services : services[i].fd # NoFd =>
       open[services[i].fd] = Address(services[i].key)
  /\ overrun \/ \A fd \in Fd : open[fd] \in Addresses =>
       \E i \in DOMAIN services : services[i].fd = fd

\* A service, its socket and its place in the set stay together.
ServicesMatch == TypeOK /\ SocketsMatch

\* A service that waits for a server waits for one that is yet to be reaped, so
\* that a SIGCHLD will put it back: the signals are blocked from fork() until
\* its result is stored.
BusyHasChild ==
  "NOCLDWAIT" \in flags \/ \A i \in DOMAIN services :
    services[i].pid # NoPid => child[services[i].pid].state # "none"

\* No two servers of a "wait" service read from its socket at the same time,
\* unless a SIGHUP has made the daemon forget one.
WaitExclusive ==
  forgot \/ \A p, q \in Pid :
    Running(p) /\ Running(q) /\ child[p].serves = child[q].serves
      /\ child[p].serves.proto = "wait" => p = q

\* select() fails on a closed descriptor only when the services were replaced
\* between the copy of the set and its use.
BadOnlyIfStale == pc = "ebadf" => stale

\* accept() finds a connection, so that the daemon does not stop with every
\* signal blocked; the exception is a SIGHUP between select() and sigprocmask().
NeverStuckInAccept ==
  pc = "serve" /\ cur <= Len(services) /\ services[cur].fd \in rfdstmp
    /\ services[cur].key.proto = "tcp" => work[Address(services[cur].key)] > 0 \/ stale

\* The daemon neither ends nor sleeps anywhere but in select(), unless a SIGHUP
\* came between the copy of the set and the use of what select() made of it.
StopsOnlyIfStale == BadOnlyIfStale /\ NeverStuckInAccept

\* A server that has ended has its SIGCHLD, until two of them fall together: one
\* signal reaps one server.
ZombieIsSignalled ==
  coalesced \/ "CHLD" \in reset \/ (Zombies # {} => "CHLD" \in pending /\ Cardinality(Zombies) = 1)

\* Each server that matters is going to be noticed when it ends.
ChildrenAccounted == BusyHasChild /\ ZombieIsSignalled

\* There is work for an idle service and no server of it runs.
Waiting(k) ==
  /\ Alive /\ work[Address(k)] > 0
  /\ \E i \in DOMAIN services :
       services[i].key = k /\ services[i].fd # NoFd /\ services[i].pid = NoPid
  /\ \A p \in Pid : Running(p) => child[p].serves # k

\* As long as anything makes select() return, work for a service is not left
\* waiting, unless the system is out of processes or descriptors.  The premise
\* is needed: after a SIGCHLD between the copy and select() the service is in
\* the set and not in the copy.
Served ==
  ([]<>(pc = "copy")) =>
    \A k \in Keys : Waiting(k) ~> (~Waiting(k) \/ FreePid = {} \/ Free = {})

\* A service whose server has ended is idle again in the end, unless its signal
\* fell together with another, or accept() keeps the signals blocked.
ComesBack ==
  LET Over == \E i \in DOMAIN services : services[i].pid \in Zombies
  IN Over ~> (~Over \/ coalesced \/ "CHLD" \in reset \/ stale \/ ~Alive)
====
