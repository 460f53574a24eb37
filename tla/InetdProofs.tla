----------------------------- MODULE InetdProofs -----------------------------
(***************************************************************************)
(* The daemon's services, its sockets, the set select() is given and its   *)
(* servers stay in step, wherever the two handlers interrupt the loop, for *)
(* all configurations and numbers of descriptors, processes and signals.   *)
(***************************************************************************)
EXTENDS Inetd, FiniteSetTheorems, WellFoundedInduction, TLAPS

Service == [key : Key, fd : Fd \union {NoFd}, pid : Pid \union {NoPid}]
Child ==
  [state : {"none", "running", "zombie"}, holds : SUBSET Addresses,
   serves : [proto : {"none", "tcp", "wait", "nowait"}, port : Nat]]

Open == [Fd -> Addresses \union {FreeFd, Connection}]

\* The types, by what changes together.
SocketTypes ==
  /\ services \in Seq(Service) /\ \A i \in DOMAIN services : services[i].key \in Keys
  /\ open \in Open /\ rfds \subseteq Fd /\ fdmax \in Fd \union {-1}
LoopTypes ==
  /\ pc \in {"copy", "select", "waiting", "block", "serve", "forked", "ebadf", "crashed", "killed"}
  /\ rfdstmp \subseteq Fd /\ cur \in 1 .. Len(services) + 1 /\ newpid \in Pid \union {NoPid}
SystemTypes ==
  /\ pending \subseteq {"CHLD", "HUP"} /\ reset \subseteq {"CHLD", "HUP"} /\ flags \in FlagSets
  /\ child \in [Pid -> Child] /\ work \in [Addresses -> 0 .. MaxWork] /\ hups \in 0 .. MaxHups
HistoryTypes == {stale, coalesced, forgot, overrun} \subseteq BOOLEAN

Typed == SocketTypes /\ LoopTypes /\ SystemTypes /\ HistoryTypes

\* Where the index is.
Placed ==
  /\ pc \in {"copy", "select", "waiting", "block"} => cur = 1
  /\ pc = "forked" => cur \in DOMAIN services /\ services[cur].fd \in rfdstmp

\* No two services listen on one port.
OnePort ==
  \A i, j \in DOMAIN services :
    services[i].fd # NoFd /\ services[j].fd # NoFd
      /\ Address(services[i].key) = Address(services[j].key) => i = j

\* The bound covers the services that are out of the set, too.
Bounded == \A i \in DOMAIN services : services[i].fd <= fdmax

\* A service that waits has a socket to come back with.
BusyListens == \A i \in DOMAIN services : services[i].pid # NoPid => services[i].fd # NoFd

\* Unless processes vanish unreaped (SA_NOCLDWAIT), a server has one service at most,
\* the one that has just been started none.
OneServer ==
  "NOCLDWAIT" \notin flags =>
    /\ \A i, j \in DOMAIN services :
         services[i].pid # NoPid /\ services[i].pid = services[j].pid => i = j
    /\ pc = "forked" /\ newpid # NoPid =>
         child[newpid].state # "none" /\ \A i \in DOMAIN services : services[i].pid # newpid

NoneLeft == "NOCLDWAIT" \in flags => Zombies = {}

\* The services the loop has yet to look at are idle if they are in its copy.
CopyIdle ==
  pc \in {"select", "waiting", "block", "serve", "forked"} =>
    \A i \in DOMAIN services : i >= cur /\ services[i].fd \in rfdstmp => services[i].pid = NoPid

\* Unless a SIGHUP came in between, what is in the copy is open, and what select()
\* found ready still is.
CopyOpen == pc = "select" /\ ~stale => \A fd \in rfdstmp : open[fd] # FreeFd
CopyReady ==
  pc \in {"block", "serve", "forked"} /\ ~stale =>
    \A i \in DOMAIN services :
      i >= cur /\ services[i].fd \in rfdstmp /\ services[i].key.proto = "tcp" =>
        work[Address(services[i].key)] > 0

Signalled ==
  coalesced \/ "CHLD" \in reset \/ Zombies = {}
    \/ ("CHLD" \in pending /\ \E p \in Pid : Zombies = {p})

\* The server of a "wait" service is known to it, or is about to be.
Tracked ==
  forgot \/ \A p \in Pid : Running(p) /\ child[p].serves.proto = "wait" =>
    \/ \E i \in DOMAIN services : services[i].pid = p /\ services[i].key = child[p].serves
    \/ pc = "forked" /\ newpid = p /\ services[cur].key = child[p].serves

Socks == SocketsMatch /\ OnePort /\ RfdsMatch /\ Bounded /\ BusyListens
Kids == BusyHasChild /\ OneServer /\ NoneLeft /\ Tracked
Copied == Placed /\ CopyIdle /\ CopyOpen /\ CopyReady /\ BadOnlyIfStale

Inv == Typed /\ Socks /\ Kids /\ Copied /\ Signalled

-----------------------------------------------------------------------------
(* Least and greatest *)

\* Every set of natural numbers has a least element.
LEMMA LeastNatural ==
  ASSUME NEW T, T \subseteq Nat, T # {}
  PROVE  \E x \in T : \A y \in T : x <= y
<1> DEFINE R == {ss \in Nat \X Nat : ss[1] < ss[2]}
<1>1. IsWellFoundedOn(R, Nat)
  BY NatLessThanWellFounded DEF OpToRel
<1>2. PICK x \in T : \A y \in T : ~ (<<y, x>> \in R)
  <2> HIDE DEF R
  <2> QED
    BY <1>1, WFMin
<1>3. \A y \in T : ~ (y < x)
  BY <1>2
<1> QED
  BY <1>3

LEMMA MinOf ==
  ASSUME NEW T, T \subseteq Nat, T # {}
  PROVE  Min(T) \in T /\ \A y \in T : Min(T) <= y
BY LeastNatural DEF Min

LEMMA UpperBound ==
  ASSUME NEW S, S \subseteq Nat, IsFiniteSet(S)
  PROVE  \E b \in Nat : \A x \in S : x <= b
<1>1. PICK n \in Nat : ExistsBijection(1 .. n, S)
  BY FS_CardinalityType
<1>2. PICK f \in [1 .. n -> S] : \A x \in S : \E m \in 1 .. n : f[m] = x
  BY <1>1 DEF ExistsBijection, Bijection, Surjection
<1> DEFINE Over(k) == \E b \in Nat : \A m \in 1 .. k : f[m] <= b
<1> DEFINE T == {k \in Nat : k <= n /\ ~ Over(k)}
<1>3. Over(0)
  <2>1. 0 \in Nat /\ \A m \in 1 .. 0 : f[m] <= 0
    OBVIOUS
  <2> QED
    BY <2>1
<1>4. ASSUME NEW k \in Nat, k < n, Over(k) PROVE Over(k + 1)
  <2>1. PICK b \in Nat : \A m \in 1 .. k : f[m] <= b
    BY <1>4
  <2>2. \A m \in 1 .. k + 1 : m \in 1 .. n
    BY <1>4
  <2>3. \A m \in 1 .. k + 1 : f[m] \in Nat
    BY <2>2
  <2>4. PICK v \in Nat : v = f[k + 1]
    BY <2>3
  <2>5. \A m \in 1 .. k + 1 : f[m] <= b + v
    <3> SUFFICES ASSUME NEW m \in 1 .. k + 1 PROVE f[m] <= b + v
      OBVIOUS
    <3>1. m \in 1 .. k \/ m = k + 1
      OBVIOUS
    <3>2. f[m] \in Nat
      BY <2>3
    <3> QED
      BY <2>1, <2>4, <3>1, <3>2
  <2>6. b + v \in Nat
    OBVIOUS
  <2> QED
    BY <2>5, <2>6
<1> HIDE DEF Over
<1>5. T = {}
  <2> SUFFICES ASSUME T # {} PROVE FALSE
    OBVIOUS
  <2>1. PICK k \in T : \A y \in T : k <= y
    <3>1. T \subseteq Nat
      OBVIOUS
    <3> HIDE DEF T
    <3> QED
      BY <3>1, LeastNatural
  <2>2. k \in Nat /\ k <= n /\ ~ Over(k) /\ k # 0
    BY <1>3
  <2>3. k - 1 \in Nat /\ k - 1 < n /\ (k - 1) + 1 = k
    BY <2>2
  <2>4. Over(k - 1)
    BY <2>1, <2>3
  <2> QED
    BY <1>4, <2>2, <2>3, <2>4
<1>6. Over(n)
  BY <1>5
<1>7. PICK b \in Nat : \A m \in 1 .. n : f[m] <= b
  BY <1>6 DEF Over
<1> QED
  BY <1>2, <1>7

LEMMA MaxOf ==
  ASSUME NEW S, S \subseteq Fd
  PROVE  /\ Max(S \union {-1}) \in S \union {-1}
         /\ \A x \in S \union {-1} : x <= Max(S \union {-1})
<1>1. S \subseteq Nat /\ IsFiniteSet(S)
  BY FdAssumption, FS_Subset
<1>2. \E m \in S \union {-1} : \A x \in S \union {-1} : m >= x
  <2>1. CASE S = {}
    BY <2>1
  <2>2. CASE S # {}
    <3> DEFINE T == {b \in Nat : \A x \in S : x <= b}
    <3>1. T # {} /\ T \subseteq Nat
      BY <1>1, UpperBound
    <3>2. PICK b \in T : \A y \in T : b <= y
      <4> HIDE DEF T
      <4> QED
        BY <3>1, LeastNatural
    <3>3. b \in S
      <4> SUFFICES ASSUME b \notin S PROVE FALSE
        OBVIOUS
      <4>1. \A x \in S : x <= b /\ x # b /\ x \in Nat
        BY <1>1
      <4>2. b - 1 \in Nat /\ \A x \in S : x <= b - 1
        BY <2>2, <4>1
      <4> QED
        BY <3>2, <4>2
    <3> QED
      BY <1>1, <3>3
  <2> QED
    BY <2>1, <2>2
<1>3. PICK m \in S \union {-1} : m = Max(S \union {-1}) /\ \A x \in S \union {-1} : m >= x
  BY <1>2 DEF Max
<1> QED
  BY <1>1, <1>3

\* In a finite set of numbers no two have the same number of elements below them.
LEMMA BelowOnce ==
  ASSUME NEW S, S \subseteq Nat, IsFiniteSet(S), NEW x \in S, NEW y \in S, Below(S, x) = Below(S, y)
  PROVE  x = y
<1>1. ASSUME NEW a \in S, NEW b \in S, a < b PROVE Below(S, a) # Below(S, b)
  <2> DEFINE A == {z \in S : z < a}
  <2> DEFINE B == {z \in S : z < b}
  <2>1. A \in SUBSET B /\ B \in SUBSET S /\ a \in B /\ a \notin A
    <3>1. \A z \in S : z < a => z < b
      BY <1>1
    <3>2. ~ (a < a)
      OBVIOUS
    <3> QED
      BY <1>1, <3>1, <3>2
  <2>2. IsFiniteSet(B)
    BY <2>1, FS_Subset
  <2>3. A # B
    BY <2>1
  <2> HIDE DEF A, B
  <2>4. Cardinality(A) # Cardinality(B)
    BY <2>1, <2>2, <2>3, FS_Subset
  <2> QED
    BY <2>4 DEF Below, A, B
<1> QED
  BY <1>1


-----------------------------------------------------------------------------
(* _inetd_setup *)

LEMMA ListenEffect ==
  ASSUME NEW ss, NEW o, NEW c, NEW i, NEW fd \in Listen(ss, o, c, i)
  PROVE  /\ fd \in Fd /\ o[fd] = FreeFd /\ i \in DOMAIN ss
         /\ ss[i].fd = NoFd /\ ss[i].pid = NoPid
         /\ \A g \in Fd : o[g] # Address(ss[i].key)
BY DEF Listen, Binding, Lives

\* A descriptor is given once, and so is a port.
LEMMA ListenOnce ==
  ASSUME NEW ss \in Seq(Service), NEW o, NEW c, NEW i \in DOMAIN ss, NEW j \in DOMAIN ss,
         NEW fd \in Listen(ss, o, c, i), NEW gd \in Listen(ss, o, c, j)
  PROVE  (i = j <=> fd = gd) /\ (Address(ss[i].key) = Address(ss[j].key) => i = j)
<1> DEFINE free == {g \in Fd : o[g] = FreeFd}
<1> DEFINE B == Binding(ss, o, c)
<1>1. /\ fd \in free /\ gd \in free /\ i \in B /\ j \in B
      /\ Below(free, fd) = Below(B, i) /\ Below(free, gd) = Below(B, j)
  BY DEF Listen
<1>2. free \subseteq Nat /\ IsFiniteSet(free)
  BY FdAssumption, FS_Subset
<1>3. B \subseteq Nat /\ IsFiniteSet(B)
  <2>1. DOMAIN ss = 1 .. Len(ss) /\ Len(ss) \in Nat /\ B \subseteq DOMAIN ss
    BY DEF Binding
  <2>2. IsFiniteSet(1 .. Len(ss))
    BY <2>1, FS_Interval
  <2> QED
    BY <2>1, <2>2, FS_Subset
<1> HIDE DEF free
<1>4. i = j => fd = gd
  BY <1>1, <1>2, BelowOnce
<1>5. fd = gd => i = j
  <2> HIDE DEF B
  <2> QED
    BY <1>1, <1>3, BelowOnce
<1>6. ASSUME NEW a \in B, NEW b \in B, a < b PROVE Address(ss[a].key) # Address(ss[b].key)
  BY <1>6 DEF Binding
<1>7. Address(ss[i].key) = Address(ss[j].key) => i = j
  BY <1>1, <1>3, <1>6
<1> QED
  BY <1>4, <1>5, <1>7

\* What _inetd_setup is given and what it returns: sockets open on the ports of the
\* services, one service per port.
Matched(ss, o) ==
  \A i \in DOMAIN ss : ss[i].fd # NoFd => o[ss[i].fd] = Address(ss[i].key)
Ported(ss) ==
  \A i, j \in DOMAIN ss :
    ss[i].fd # NoFd /\ ss[j].fd # NoFd /\ Address(ss[i].key) = Address(ss[j].key) => i = j

LEMMA AddressTaken == \A k : Address(k) # FreeFd /\ Address(k) # Connection
BY DEF Address, FreeFd, Connection

LEMMA SetupEffect ==
  ASSUME NEW ss \in Seq(Service), NEW o \in Open, NEW c,
         \A i \in DOMAIN ss : ss[i].pid = NoPid /\ ss[i].key \in Keys,
         Matched(ss, o), Ported(ss)
  PROVE  LET st == Setup(ss, o, c)
         IN  /\ st.services \in Seq(Service) /\ DOMAIN st.services = DOMAIN ss /\ st.open \in Open
             /\ \A i \in DOMAIN ss : st.services[i].pid = NoPid /\ st.services[i].key = ss[i].key
             /\ \A i \in DOMAIN ss : ss[i].fd # NoFd => st.services[i].fd = ss[i].fd
             /\ Matched(st.services, st.open) /\ Ported(st.services)
             /\ \A fd \in Fd : st.open[fd] = o[fd] \/ \E i \in DOMAIN ss : st.services[i].fd = fd
             /\ \A fd \in Fd : o[fd] # FreeFd => st.open[fd] = o[fd]
             /\ st.rfds = {st.services[i].fd : i \in {j \in DOMAIN ss :
                             st.services[j].fd # NoFd /\ st.services[j].pid = NoPid}}
             /\ st.rfds \subseteq Fd /\ st.fdmax \in Fd \union {-1}
             /\ \A i \in DOMAIN ss : st.services[i].fd <= st.fdmax
<1> DEFINE given == [i \in DOMAIN ss |-> Listen(ss, o, c, i)]
<1> DEFINE new == [i \in DOMAIN ss |-> IF given[i] = {} THEN ss[i]
                                       ELSE [ss[i] EXCEPT !.fd = Min(given[i])]]
<1> DEFINE fds == {new[i].fd : i \in {j \in DOMAIN ss : new[j].pid = NoPid /\ new[j].fd # NoFd}}
<1> DEFINE op == [fd \in Fd |-> IF \E i \in DOMAIN ss : fd \in given[i]
                                THEN Address(ss[CHOOSE i \in DOMAIN ss : fd \in given[i]].key)
                                ELSE o[fd]]
<1>1. Setup(ss, o, c) = [services |-> new, open |-> op, rfds |-> fds, fdmax |-> Max(fds \union {-1})]
  BY DEF Setup
<1>2. DOMAIN ss = 1 .. Len(ss) /\ Len(ss) \in Nat /\ \A i \in DOMAIN ss : ss[i] \in Service
  OBVIOUS
<1>3. ASSUME NEW i \in DOMAIN ss, given[i] # {}
      PROVE  Min(given[i]) \in given[i] /\ Min(given[i]) \in Fd
  <2>1. given[i] \subseteq Fd
    BY ListenEffect
  <2>2. given[i] \subseteq Nat
    BY <2>1, FdAssumption
  <2> HIDE DEF given
  <2> QED
    BY <1>3, <2>1, <2>2, MinOf
<1>4. ASSUME NEW i \in DOMAIN ss
      PROVE  /\ new[i] \in Service /\ new[i].pid = ss[i].pid /\ new[i].key = ss[i].key
             /\ \/ given[i] = {} /\ new[i].fd = ss[i].fd
                \/ new[i].fd \in given[i] /\ new[i].fd \in Fd
  <2>1. CASE given[i] = {}
    BY <1>2, <2>1
  <2>2. CASE given[i] # {}
    <3>1. PICK m \in Fd : m \in given[i] /\ m = Min(given[i])
      BY <1>3, <2>2
    <3>2. new[i] = [ss[i] EXCEPT !.fd = m]
      BY <2>2, <3>1
    <3>3. ASSUME NEW s \in Service
          PROVE  LET x == [s EXCEPT !.fd = m]
                 IN  x \in Service /\ x.fd = m /\ x.pid = s.pid /\ x.key = s.key
      BY DEF Service
    <3> HIDE DEF new, given
    <3> QED
      BY <1>2, <3>1, <3>2, <3>3
  <2> QED
    BY <2>1, <2>2
<1>5. new \in Seq(Service) /\ DOMAIN new = DOMAIN ss
  <2>1. DOMAIN new = 1 .. Len(ss)
    BY <1>2
  <2>2. new \in [1 .. Len(ss) -> Service]
    BY <1>2, <1>4
  <2> HIDE DEF new
  <2> QED
    BY <1>2, <2>1, <2>2
<1>6. ASSUME NEW i \in DOMAIN ss, NEW fd \in given[i]
      PROVE  /\ fd \in Fd /\ o[fd] = FreeFd /\ ss[i].fd = NoFd /\ op[fd] = Address(ss[i].key)
             /\ \A g \in Fd : o[g] # Address(ss[i].key)
  <2>1. fd \in Fd /\ o[fd] = FreeFd /\ ss[i].fd = NoFd /\ \A g \in Fd : o[g] # Address(ss[i].key)
    BY ListenEffect
  <2>2. PICK k \in DOMAIN ss : fd \in given[k] /\ op[fd] = Address(ss[k].key)
    BY <2>1
  <2>3. k = i
    BY <2>2, ListenOnce
  <2> QED
    BY <2>1, <2>2, <2>3
<1>7. ASSUME NEW fd \in Fd
      PROVE  \/ op[fd] = o[fd] /\ \A i \in DOMAIN ss : fd \notin given[i]
             \/ \E i \in DOMAIN ss : fd \in given[i] /\ new[i].fd = fd
  <2>1. CASE \E i \in DOMAIN ss : fd \in given[i]
    <3>1. PICK i \in DOMAIN ss : fd \in given[i]
      BY <2>1
    <3>2. new[i].fd \in given[i]
      <4> HIDE DEF given, new
      <4> QED
        BY <1>4, <3>1
    <3>3. new[i].fd = fd
      <4> HIDE DEF new
      <4> QED
        BY <3>1, <3>2, ListenOnce
    <3> QED
      BY <3>1, <3>3
  <2>2. CASE ~ \E i \in DOMAIN ss : fd \in given[i]
    BY <2>2
  <2> QED
    BY <2>1, <2>2
<1>8. op \in Open
  <2>1. ASSUME NEW fd \in Fd PROVE op[fd] \in Addresses \union {FreeFd, Connection}
    <3>1. CASE op[fd] = o[fd]
      <4> HIDE DEF op
      <4> QED
        BY <3>1 DEF Open
    <3>2. CASE \E i \in DOMAIN ss : fd \in given[i]
      <4> HIDE DEF op, given
      <4> QED
        BY <1>6, <3>2 DEF Addresses
    <3> QED
      <4> HIDE DEF op, given
      <4> QED
        BY <1>7, <3>1, <3>2
  <2>2. op = [fd \in Fd |-> op[fd]]
    OBVIOUS
  <2> HIDE DEF op
  <2> QED
    BY <2>1, <2>2 DEF Open
<1> HIDE DEF op, given, new
<1>9. ASSUME NEW i \in DOMAIN ss, new[i].fd # NoFd
      PROVE  /\ op[new[i].fd] = Address(ss[i].key) /\ new[i].fd \in Fd
             /\ \/ ss[i].fd # NoFd /\ new[i].fd = ss[i].fd /\ o[ss[i].fd] = Address(ss[i].key)
                \/ new[i].fd \in given[i]
  <2>1. CASE new[i].fd \in given[i]
    BY <1>4, <1>6, <2>1
  <2>2. CASE new[i].fd \notin given[i]
    <3>1. new[i].fd = ss[i].fd /\ ss[i].fd \in Fd /\ o[ss[i].fd] = Address(ss[i].key)
      BY <1>2, <1>4, <1>9, <2>2 DEF Matched, Service
    <3>2. \A j \in DOMAIN ss : ss[i].fd \notin given[j]
      BY <1>6, <3>1, AddressTaken
    <3> QED
      BY <1>7, <1>9, <3>1, <3>2
  <2> QED
    BY <2>1, <2>2
<1>10. Matched(new, op)
  BY <1>4, <1>5, <1>9 DEF Matched
<1>11. Ported(new)
  <2> SUFFICES ASSUME NEW i \in DOMAIN ss, NEW j \in DOMAIN ss, new[i].fd # NoFd, new[j].fd # NoFd,
                      Address(ss[i].key) = Address(ss[j].key)
               PROVE  i = j
    BY <1>4, <1>5 DEF Ported
  <2>1. CASE ss[i].fd # NoFd /\ ss[j].fd # NoFd
    BY <2>1 DEF Ported
  <2>2. CASE new[i].fd \in given[i] /\ new[j].fd \in given[j]
    BY <2>2, ListenOnce DEF given
  <2>3. CASE new[i].fd \in given[i] /\ ss[j].fd # NoFd /\ new[j].fd = ss[j].fd /\ o[ss[j].fd] = Address(ss[j].key)
    BY <1>6, <1>9, <2>3
  <2>4. CASE new[j].fd \in given[j] /\ ss[i].fd # NoFd /\ new[i].fd = ss[i].fd /\ o[ss[i].fd] = Address(ss[i].key)
    BY <1>6, <1>9, <2>4
  <2> QED
    BY <1>9, <2>1, <2>2, <2>3, <2>4
<1>12. /\ fds \subseteq Fd /\ Max(fds \union {-1}) \in Fd \union {-1}
       /\ \A i \in DOMAIN ss : new[i].fd <= Max(fds \union {-1})
  <2>1. fds \subseteq Fd
    BY <1>9
  <2>2. \A i \in DOMAIN ss : new[i].fd \in fds \union {-1}
    BY <1>4 DEF NoFd
  <2> HIDE DEF fds
  <2> QED
    BY <2>1, <2>2, MaxOf
<1>13. \A i \in DOMAIN ss : ss[i].fd # NoFd => new[i].fd = ss[i].fd
  BY <1>4, <1>6
<1>14. \A fd \in Fd : op[fd] = o[fd] \/ \E i \in DOMAIN ss : new[i].fd = fd
  BY <1>7
<1>15. \A fd \in Fd : o[fd] # FreeFd => op[fd] = o[fd]
  BY <1>6, <1>7
<1> QED
  BY <1>1, <1>4, <1>5, <1>8, <1>10, <1>11, <1>12, <1>13, <1>14, <1>15


-----------------------------------------------------------------------------
(* The start *)

LEMMA InitInv == Init => Inv
<1> SUFFICES ASSUME Init PROVE Inv
  OBVIOUS
<1> DEFINE ss == [i \in DOMAIN Start |-> NewService(Start[i])]
<1> DEFINE o == [fd \in Fd |-> FreeFd]
<1>1. Start \in Seq(Key) /\ Start \in AllConfigs /\ DOMAIN Start = 1 .. Len(Start) /\ Len(Start) \in Nat
  BY ConfigAssumption DEF AllConfigs
<1>2. \A k \in Key : NewService(k) \in Service /\ NewService(k).pid = NoPid /\ NewService(k).fd = NoFd
                     /\ NewService(k).key = k
  BY DEF NewService, Service
<1>3. \A i \in DOMAIN Start : Start[i] \in Key /\ Start[i] \in Keys
  BY <1>1 DEF Keys
<1>4. ss \in Seq(Service) /\ DOMAIN ss = DOMAIN Start
  BY <1>1, <1>2, <1>3
<1>5. \A i \in DOMAIN ss : ss[i].pid = NoPid /\ ss[i].fd = NoFd /\ ss[i].key \in Keys
  BY <1>2, <1>3
<1>6. o \in Open /\ Matched(ss, o) /\ Ported(ss) /\ \A fd \in Fd : o[fd] = FreeFd
  <2>1. o \in Open
    BY DEF Open
  <2> HIDE DEF ss
  <2> QED
    BY <2>1, <1>5 DEF Matched, Ported
<1>7. PICK st : st = Setup(ss, o, child)
  OBVIOUS
<1>8. services = st.services /\ open = st.open /\ rfds = st.rfds /\ fdmax = st.fdmax
  BY <1>7 DEF Init
<1> HIDE DEF ss, o
<1>9. /\ services \in Seq(Service) /\ DOMAIN services = DOMAIN ss /\ open \in Open
      /\ \A i \in DOMAIN ss : services[i].pid = NoPid /\ services[i].key = ss[i].key
      /\ Matched(services, open) /\ Ported(services)
      /\ \A fd \in Fd : open[fd] = FreeFd \/ \E i \in DOMAIN ss : services[i].fd = fd
      /\ rfds = {services[i].fd : i \in {j \in DOMAIN services :
                      services[j].fd # NoFd /\ services[j].pid = NoPid}}
      /\ rfds \subseteq Fd /\ fdmax \in Fd \union {-1}
      /\ \A i \in DOMAIN services : services[i].fd <= fdmax
  BY <1>4, <1>5, <1>6, <1>7, <1>8, SetupEffect
<1>10. SocketTypes
  BY <1>5, <1>9 DEF SocketTypes
<1>11. Socks
  <2>1. SocketsMatch
    <3>1. \A fd \in Fd : open[fd] \in Addresses => open[fd] # FreeFd
      BY AddressTaken DEF Addresses
    <3> QED
      BY <1>9, <3>1 DEF SocketsMatch, Matched
  <2>2. RfdsMatch
    BY <1>9 DEF RfdsMatch
  <2> QED
    BY <1>9, <2>1, <2>2 DEF Socks, OnePort, Ported, Bounded, BusyListens
<1>12. /\ pc = "copy" /\ rfdstmp = {} /\ cur = 1 /\ newpid = NoPid /\ pending = {} /\ reset = {}
       /\ flags \in FlagSets /\ child = [p \in Pid |-> Nobody] /\ work = [a \in Addresses |-> 0]
       /\ hups = 0 /\ stale = FALSE /\ coalesced = FALSE /\ forgot = FALSE /\ overrun = FALSE
  BY DEF Init
<1>13. LoopTypes
  <2>1. Len(services) \in Nat
    BY <1>9
  <2> QED
    BY <1>12, <2>1 DEF LoopTypes
<1>14. Nobody \in Child /\ Nobody.state = "none"
  BY DEF Nobody, Child
<1>15. SystemTypes
  BY <1>12, <1>14, BoundsAssumption DEF SystemTypes
<1>16. HistoryTypes
  BY <1>12, Zenon DEF HistoryTypes
<1>17. Zombies = {} /\ \A p \in Pid : ~ Running(p)
  BY <1>12, <1>14 DEF Zombies, Running
<1>18. Kids
  BY <1>9, <1>12, <1>17 DEF Kids, BusyHasChild, OneServer, NoneLeft, Tracked
<1>19. Copied
  BY <1>12 DEF Copied, Placed, CopyIdle, CopyOpen, CopyReady, BadOnlyIfStale
<1>20. Signalled
  BY <1>17 DEF Signalled
<1> QED
  BY <1>10, <1>11, <1>13, <1>15, <1>16, <1>18, <1>19, <1>20 DEF Inv, Typed


-----------------------------------------------------------------------------
(* Services, sockets and the set *)

LEMMA ServiceTypes ==
  ASSUME SocketTypes
  PROVE  /\ DOMAIN services = 1 .. Len(services) /\ Len(services) \in Nat
         /\ \A i \in DOMAIN services :
              /\ services[i] \in Service /\ services[i].key \in Keys /\ services[i].key \in Key
              /\ services[i].fd \in Fd \union {NoFd} /\ services[i].pid \in Pid \union {NoPid}
<1>1. services \in Seq(Service)
  BY DEF SocketTypes
<1>2. DOMAIN services = 1 .. Len(services) /\ Len(services) \in Nat
  BY <1>1
<1>3. \A i \in DOMAIN services : services[i] \in Service
  BY <1>1
<1> QED
  BY <1>2, <1>3 DEF SocketTypes, Service

\* One service starts or stops waiting for a server.
LEMMA OnePid ==
  ASSUME SocketTypes, NEW k \in DOMAIN services, NEW v \in Pid \union {NoPid},
         services' = [services EXCEPT ![k].pid = v]
  PROVE  /\ services' \in Seq(Service) /\ DOMAIN services' = DOMAIN services
         /\ Len(services') = Len(services)
         /\ \A i \in DOMAIN services :
              /\ services'[i].key = services[i].key /\ services'[i].fd = services[i].fd
              /\ services'[i].pid = IF i = k THEN v ELSE services[i].pid
<1>1. DOMAIN services = 1 .. Len(services) /\ Len(services) \in Nat /\ services \in Seq(Service)
  BY ServiceTypes DEF SocketTypes
<1>2. ASSUME NEW s \in Service
      PROVE  LET x == [s EXCEPT !.pid = v]
             IN  x \in Service /\ x.key = s.key /\ x.fd = s.fd /\ x.pid = v
  BY DEF Service
<1>3. \A i \in DOMAIN services :
        services'[i] = IF i = k THEN [services[i] EXCEPT !.pid = v] ELSE services[i]
  BY <1>1
<1>4. \A i \in DOMAIN services : services[i] \in Service
  BY ServiceTypes
<1>5. \A i \in DOMAIN services :
        /\ services'[i] \in Service
        /\ services'[i].key = services[i].key /\ services'[i].fd = services[i].fd
        /\ services'[i].pid = IF i = k THEN v ELSE services[i].pid
  BY <1>2, <1>3, <1>4
<1>6. DOMAIN services' = DOMAIN services /\ services' = [i \in 1 .. Len(services) |-> services'[i]]
  BY <1>1
<1>7. services' \in Seq(Service) /\ Len(services') = Len(services)
  BY <1>1, <1>5, <1>6
<1> QED
  BY <1>5, <1>6, <1>7

\* _inetd_sigchld finds the service of the server, or there is none.
LEMMA PutBackEffect ==
  ASSUME SocketTypes, NEW p \in Pid, PutBack(p)
  PROVE  \/ UNCHANGED <<services, rfds>> /\ \A i \in DOMAIN services : services[i].pid # p
         \/ \E k \in DOMAIN services :
              /\ services[k].pid = p /\ services' = [services EXCEPT ![k].pid = NoPid]
              /\ rfds' = rfds \union {services[k].fd}
<1> DEFINE busy == {i \in DOMAIN services : services[i].pid = p}
<1>1. CASE busy = {}
  BY <1>1 DEF PutBack
<1>2. CASE busy # {}
  <2>1. busy \subseteq Nat /\ busy \subseteq DOMAIN services
    BY ServiceTypes
  <2>2. PICK k \in busy : k = Min(busy)
    <3> HIDE DEF busy
    <3> QED
      BY <1>2, <2>1, MinOf
  <2>3. services' = [services EXCEPT ![k].pid = NoPid] /\ rfds' = rfds \union {services[k].fd}
    BY <1>2, <2>2 DEF PutBack
  <2> QED
    BY <2>3
<1> QED
  BY <1>1, <1>2

\* No two services have one descriptor.
LEMMA OneService ==
  ASSUME Socks, NEW i \in DOMAIN services, NEW j \in DOMAIN services,
         services[i].fd # NoFd, services[i].fd = services[j].fd
  PROVE  i = j
<1>1. Address(services[i].key) = Address(services[j].key)
  BY DEF Socks, SocketsMatch
<1> QED
  BY <1>1 DEF Socks, OnePort

LEMMA SocksAlone ==
  ASSUME SocketTypes, Socks, UNCHANGED <<services, open, rfds, fdmax>>, overrun => overrun'
  PROVE  SocketTypes' /\ Socks'
<1>1. SocketTypes' /\ OnePort' /\ RfdsMatch' /\ Bounded' /\ BusyListens'
  BY DEF SocketTypes, Socks, OnePort, RfdsMatch, Bounded, BusyListens
<1>2. SocketsMatch'
  BY DEF Socks, SocketsMatch
<1> QED
  BY <1>1, <1>2 DEF Socks

\* The parts that do not depend on which services wait.
LEMMA SocksKept ==
  ASSUME SocketTypes, Socks, UNCHANGED <<open, fdmax, overrun>>, NEW k \in DOMAIN services,
         NEW v \in Pid \union {NoPid}, services' = [services EXCEPT ![k].pid = v],
         rfds' \subseteq Fd
  PROVE  SocketTypes' /\ SocketsMatch' /\ OnePort' /\ Bounded'
<1>1. /\ services' \in Seq(Service) /\ DOMAIN services' = DOMAIN services
      /\ \A i \in DOMAIN services : services'[i].key = services[i].key /\ services'[i].fd = services[i].fd
  BY OnePid
<1>2. SocketTypes'
  BY <1>1 DEF SocketTypes
<1>3. SocketsMatch' /\ OnePort' /\ Bounded'
  <2>1. SocketsMatch'
    BY <1>1 DEF Socks, SocketsMatch
  <2>2. OnePort' /\ Bounded'
    BY <1>1 DEF Socks, OnePort, Bounded
  <2> QED
    BY <2>1, <2>2
<1> QED
  BY <1>2, <1>3

LEMMA PutBackSocks ==
  ASSUME SocketTypes, Socks, NEW p \in Pid, PutBack(p), UNCHANGED <<open, fdmax, overrun>>
  PROVE  SocketTypes' /\ Socks'
<1>1. CASE UNCHANGED <<services, rfds>>
  BY <1>1, SocksAlone
<1>2. ASSUME NEW k \in DOMAIN services, services[k].pid = p,
             services' = [services EXCEPT ![k].pid = NoPid], rfds' = rfds \union {services[k].fd}
      PROVE  SocketTypes' /\ Socks'
  <2>1. p # NoPid
    BY FdAssumption DEF NoPid
  <2>2. services[k].fd # NoFd /\ services[k].fd \in Fd
    BY <1>2, <2>1, ServiceTypes DEF Socks, BusyListens
  <2>3. /\ DOMAIN services' = DOMAIN services
        /\ \A i \in DOMAIN services :
             /\ services'[i].key = services[i].key /\ services'[i].fd = services[i].fd
             /\ services'[i].pid = IF i = k THEN NoPid ELSE services[i].pid
    BY <1>2, OnePid
  <2>4. SocketTypes' /\ SocketsMatch' /\ OnePort' /\ Bounded'
    <3>1. rfds' \subseteq Fd
      BY <1>2, <2>2 DEF SocketTypes
    <3> QED
      BY <1>2, <3>1, SocksKept
  <2>5. BusyListens'
    BY <2>3 DEF Socks, BusyListens
  <2>6. RfdsMatch'
    <3>1. \A x : x \in rfds' <=> \E i \in DOMAIN services :
             services[i].fd # NoFd /\ services'[i].pid = NoPid /\ x = services[i].fd
      BY <1>2, <2>2, <2>3 DEF Socks, RfdsMatch
    <3>2. \A fd \in rfds' : fd <= fdmax'
      BY <1>2 DEF Socks, RfdsMatch, Bounded
    <3> QED
      BY <2>3, <3>1, <3>2 DEF RfdsMatch
  <2> QED
    BY <2>4, <2>5, <2>6 DEF Socks
<1> QED
  BY <1>1, <1>2, PutBackEffect

\* The service whose server was started is taken out of the set.
LEMMA ForkedSocks ==
  ASSUME SocketTypes, LoopTypes, Socks, Placed, CopyIdle, Forked
  PROVE  SocketTypes' /\ Socks'
<1>1. /\ pc = "forked" /\ services' = [services EXCEPT ![cur].pid = newpid]
      /\ rfds' = IF newpid = NoPid THEN rfds ELSE rfds \ {services[cur].fd}
      /\ UNCHANGED <<open, fdmax, overrun>>
  BY DEF Forked, history
<1>2. /\ cur \in DOMAIN services /\ services[cur].fd \in Fd /\ services[cur].pid = NoPid
      /\ newpid \in Pid \union {NoPid} /\ cur >= cur
  <2>1. cur \in DOMAIN services /\ services[cur].fd \in rfdstmp /\ rfdstmp \subseteq Fd /\ cur \in Nat
    BY <1>1, ServiceTypes DEF Placed, LoopTypes
  <2>2. cur >= cur
    BY <2>1
  <2> QED
    BY <1>1, <2>1, <2>2 DEF CopyIdle, LoopTypes
<1>3. /\ DOMAIN services' = DOMAIN services
      /\ \A i \in DOMAIN services :
           /\ services'[i].key = services[i].key /\ services'[i].fd = services[i].fd
           /\ services'[i].pid = IF i = cur THEN newpid ELSE services[i].pid
  BY <1>1, <1>2, OnePid
<1>4. services[cur].fd # NoFd
  BY <1>2, FdAssumption DEF NoFd
<1>5. SocketTypes' /\ SocketsMatch' /\ OnePort' /\ Bounded'
  <2>1. rfds' \subseteq Fd
    BY <1>1 DEF SocketTypes
  <2> QED
    BY <1>1, <1>2, <2>1, SocksKept
<1>6. BusyListens'
  BY <1>3, <1>4 DEF Socks, BusyListens
<1>7. RfdsMatch'
  <2>1. \A i \in DOMAIN services : services[i].fd = services[cur].fd => i = cur
    BY <1>2, <1>4, OneService
  <2>2. \A x : x \in rfds <=> \E i \in DOMAIN services :
           services[i].fd # NoFd /\ services[i].pid = NoPid /\ x = services[i].fd
    BY DEF Socks, RfdsMatch
  <2>3. \A x : x \in rfds' <=> \E i \in DOMAIN services :
           services[i].fd # NoFd /\ services'[i].pid = NoPid /\ x = services[i].fd
    <3>1. CASE newpid = NoPid
      BY <1>1, <1>2, <1>3, <2>2, <3>1
    <3>2. CASE newpid # NoPid
      BY <1>1, <1>2, <1>3, <2>1, <2>2, <3>2
    <3> QED
      BY <3>1, <3>2
  <2>4. \A fd \in rfds' : fd <= fdmax'
    BY <1>1 DEF Socks, RfdsMatch
  <2> QED
    BY <1>3, <2>3, <2>4 DEF RfdsMatch
<1> QED
  BY <1>5, <1>6, <1>7 DEF Socks

\* A connection that no process was found for takes a descriptor of its own.
LEMMA ExecTcpSocks ==
  ASSUME SocketTypes, Socks, ExecTcp
  PROVE  SocketTypes' /\ Socks'
<1>1. UNCHANGED <<services, rfds, fdmax, overrun>>
  BY DEF ExecTcp, history
<1>2. CASE UNCHANGED open
  BY <1>1, <1>2, SocksAlone
<1>3. ASSUME Free # {}, open' = [open EXCEPT ![Min(Free)] = Connection]
      PROVE  SocketTypes' /\ Socks'
  <2>1. PICK m \in Free : m = Min(Free)
    <3>1. Free \subseteq Nat
      BY FdAssumption DEF Free
    <3> QED
      BY <1>3, <3>1, MinOf
  <2>2. m \in Fd /\ open[m] = FreeFd /\ open' = [open EXCEPT ![m] = Connection] /\ open \in Open
    BY <1>3, <2>1 DEF Free, SocketTypes
  <2>3. /\ open' \in Open /\ open'[m] = Connection
        /\ \A fd \in Fd : fd # m => open'[fd] = open[fd]
    BY <2>2 DEF Open
  <2>4. SocketTypes'
    BY <1>1, <2>3 DEF SocketTypes
  <2>5. SocketsMatch'
    <3>1. \A i \in DOMAIN services : services[i].fd # NoFd => services[i].fd # m /\ services[i].fd \in Fd
      BY <2>2, ServiceTypes, AddressTaken DEF Socks, SocketsMatch
    <3>2. Connection \notin Addresses
      BY AddressTaken DEF Addresses
    <3> QED
      BY <1>1, <2>3, <3>1, <3>2 DEF Socks, SocketsMatch
  <2>6. OnePort' /\ RfdsMatch' /\ Bounded' /\ BusyListens'
    BY <1>1 DEF Socks, OnePort, RfdsMatch, Bounded, BusyListens
  <2> QED
    BY <2>4, <2>5, <2>6 DEF Socks
<1> QED
  BY <1>2, <1>3 DEF ExecTcp


\* What _inetd_sighup hands to _inetd_setup: the sockets the new services take over
\* are open, on their ports, and not among those it closes.
LEMMA RenewedEffect ==
  ASSUME SocketTypes, Socks, NEW new \in Configs, NEW matched
  PROVE  LET ss == Renewed(services, new)
             o == [fd \in Fd |-> IF fd \in Closed(services, new, matched) THEN FreeFd ELSE open[fd]]
         IN  /\ ss \in Seq(Service) /\ DOMAIN ss = DOMAIN new /\ o \in Open
             /\ \A i \in DOMAIN ss : ss[i].pid = NoPid /\ ss[i].key \in Keys
             /\ \A i \in DOMAIN services : Kept(services, i, new) =>
                  i \in DOMAIN ss /\ ss[i].fd = services[i].fd
             /\ Matched(ss, o) /\ Ported(ss)
<1> DEFINE ss == Renewed(services, new)
<1> DEFINE closed == Closed(services, new, matched)
<1> DEFINE o == [fd \in Fd |-> IF fd \in closed THEN FreeFd ELSE open[fd]]
<1>1. new \in Seq(Key) /\ DOMAIN new = 1 .. Len(new) /\ Len(new) \in Nat /\ new \in AllConfigs
  BY ConfigAssumption DEF AllConfigs
<1>2. \A i \in DOMAIN new : new[i] \in Key /\ new[i] \in Keys
  BY <1>1 DEF Keys
<1>3. /\ DOMAIN services = 1 .. Len(services) /\ Len(services) \in Nat
      /\ \A i \in DOMAIN services : services[i].fd \in Fd \union {NoFd} /\ services[i] \in Service
  BY ServiceTypes
<1>4. ASSUME NEW k \in Key, NEW f \in Fd \union {NoFd}
      PROVE  LET x == [NewService(k) EXCEPT !.fd = f]
             IN  x \in Service /\ x.key = k /\ x.pid = NoPid /\ x.fd = f
  BY DEF NewService, Service
<1>5. ASSUME NEW k \in Key
      PROVE  NewService(k) \in Service /\ NewService(k).key = k /\ NewService(k).pid = NoPid
             /\ NewService(k).fd = NoFd
  BY DEF NewService, Service
<1>6. DOMAIN ss = DOMAIN new
  BY DEF Renewed
<1>7. ASSUME NEW i \in DOMAIN new
      PROVE  /\ ss[i] \in Service /\ ss[i].pid = NoPid /\ ss[i].key = new[i]
             /\ \/ i \in DOMAIN services /\ Kept(services, i, new) /\ ss[i].fd = services[i].fd
                \/ ~ (i \in DOMAIN services /\ Kept(services, i, new)) /\ ss[i].fd = NoFd
  <2>1. CASE i \in DOMAIN services /\ Kept(services, i, new)
    <3>1. ss[i] = [NewService(new[i]) EXCEPT !.fd = services[i].fd]
      BY <2>1 DEF Renewed
    <3> HIDE DEF ss
    <3> QED
      BY <1>2, <1>3, <1>4, <2>1, <3>1
  <2>2. CASE ~ (i \in DOMAIN services /\ Kept(services, i, new))
    <3>1. ss[i] = NewService(new[i])
      BY <2>2 DEF Renewed
    <3> HIDE DEF ss
    <3> QED
      BY <1>2, <1>5, <2>2, <3>1
  <2> QED
    BY <2>1, <2>2
<1>8. ss \in Seq(Service)
  <2>1. ss = [i \in 1 .. Len(new) |-> ss[i]]
    BY <1>1 DEF Renewed
  <2> HIDE DEF ss
  <2> QED
    BY <1>1, <1>6, <1>7, <2>1
<1>9. o \in Open
  BY DEF SocketTypes, Open
<1>10. \A i \in DOMAIN services : Kept(services, i, new) => i \in DOMAIN new
  BY <1>1, <1>3 DEF Kept
<1>11. ASSUME NEW i \in DOMAIN services, Kept(services, i, new), services[i].fd # NoFd
       PROVE  services[i].fd \notin closed
  <2> SUFFICES ASSUME NEW j \in DOMAIN services, ~ Kept(services, j, new), services[j].fd = services[i].fd
               PROVE  FALSE
    BY DEF Closed
  <2> QED
    BY <1>11, OneService
<1> HIDE DEF ss
<1>12. Matched(ss, o)
  <2> SUFFICES ASSUME NEW i \in DOMAIN new, ss[i].fd # NoFd
               PROVE  o[ss[i].fd] = Address(ss[i].key)
    BY <1>6 DEF Matched
  <2>1. i \in DOMAIN services /\ Kept(services, i, new) /\ ss[i].fd = services[i].fd
    BY <1>7
  <2>2. services[i].fd \notin closed /\ services[i].fd \in Fd
    BY <1>3, <1>11, <2>1
  <2>3. open[services[i].fd] = Address(new[i])
    BY <2>1 DEF Socks, SocketsMatch, Kept
  <2> QED
    BY <1>7, <2>1, <2>2, <2>3
<1>13. Ported(ss)
  <2> SUFFICES ASSUME NEW i \in DOMAIN new, NEW j \in DOMAIN new, ss[i].fd # NoFd, ss[j].fd # NoFd,
                      Address(ss[i].key) = Address(ss[j].key)
               PROVE  i = j
    BY <1>6 DEF Ported
  <2>1. /\ i \in DOMAIN services /\ services[i].fd # NoFd /\ services[i].key = new[i]
        /\ j \in DOMAIN services /\ services[j].fd # NoFd /\ services[j].key = new[j]
    BY <1>7 DEF Kept
  <2> QED
    BY <1>7, <2>1 DEF Socks, OnePort
<1>14. \A i \in DOMAIN new : ss[i].key \in Keys /\ ss[i].pid = NoPid
  BY <1>2, <1>7
<1>15. \A i \in DOMAIN services : Kept(services, i, new) => i \in DOMAIN ss /\ ss[i].fd = services[i].fd
  BY <1>6, <1>7, <1>10
<1> QED
  BY <1>6, <1>8, <1>9, <1>12, <1>13, <1>14, <1>15 DEF ss

\* SIGHUP: each socket is taken over or closed, and each new service without one
\* listens if its port is free.
LEMMA SighupSocks ==
  ASSUME SocketTypes, Socks, NEW new \in Configs, NEW matched, Sighup(new, matched)
  PROVE  SocketTypes' /\ Socks' /\ DOMAIN services' = DOMAIN new /\ DOMAIN new = 1 .. Len(new)
         /\ Len(new) \in Nat /\ \A i \in DOMAIN services' : services'[i].pid = NoPid
<1> DEFINE ss == Renewed(services, new)
<1> DEFINE closed == Closed(services, new, matched)
<1> DEFINE o == [fd \in Fd |-> IF fd \in closed THEN FreeFd ELSE open[fd]]
<1>1. PICK st : st = Setup(ss, o, child)
  OBVIOUS
<1>2. services' = st.services /\ open' = st.open /\ rfds' = st.rfds /\ fdmax' = st.fdmax
  BY <1>1 DEF Sighup
<1>3. /\ ss \in Seq(Service) /\ DOMAIN ss = DOMAIN new /\ o \in Open
      /\ \A i \in DOMAIN ss : ss[i].pid = NoPid /\ ss[i].key \in Keys
      /\ \A i \in DOMAIN services : Kept(services, i, new) =>
           i \in DOMAIN ss /\ ss[i].fd = services[i].fd
      /\ Matched(ss, o) /\ Ported(ss)
  BY RenewedEffect
<1>4. \A fd \in Fd : o[fd] \in Addresses => open[fd] \in Addresses /\ fd \notin closed
  BY AddressTaken DEF Addresses
<1> HIDE DEF ss, o
<1>5. /\ services' \in Seq(Service) /\ DOMAIN services' = DOMAIN ss /\ open' \in Open
      /\ \A i \in DOMAIN ss : services'[i].pid = NoPid /\ services'[i].key = ss[i].key
      /\ \A i \in DOMAIN ss : ss[i].fd # NoFd => services'[i].fd = ss[i].fd
      /\ Matched(services', open') /\ Ported(services')
      /\ \A fd \in Fd : open'[fd] = o[fd] \/ \E i \in DOMAIN ss : services'[i].fd = fd
      /\ rfds' = {services'[i].fd : i \in {j \in DOMAIN services' :
                      services'[j].fd # NoFd /\ services'[j].pid = NoPid}}
      /\ rfds' \subseteq Fd /\ fdmax' \in Fd \union {-1}
      /\ \A i \in DOMAIN services' : services'[i].fd <= fdmax'
  BY <1>1, <1>2, <1>3, SetupEffect
<1>6. SocketTypes'
  BY <1>3, <1>5 DEF SocketTypes
<1>7. SocketsMatch'
  <2>1. ASSUME ~ overrun', NEW fd \in Fd, open'[fd] \in Addresses
        PROVE  \E i \in DOMAIN services' : services'[i].fd = fd
    <3>1. ~ overrun /\ matched = {}
      BY <2>1 DEF Sighup
    <3>2. CASE open'[fd] = o[fd]
      <4>1. open[fd] \in Addresses /\ fd \notin closed /\ fd # NoFd
        BY <1>4, <2>1, <3>2, FdAssumption DEF NoFd
      <4>2. PICK j \in DOMAIN services : services[j].fd = fd
        BY <3>1, <4>1 DEF Socks, SocketsMatch
      <4>3. Kept(services, j, new)
        BY <3>1, <4>1, <4>2 DEF Closed
      <4> QED
        BY <1>3, <1>5, <4>1, <4>2, <4>3
    <3> QED
      BY <1>5, <3>2
  <2> QED
    BY <1>5, <2>1 DEF SocketsMatch, Matched
<1>8. OnePort' /\ Bounded' /\ BusyListens'
  BY <1>5 DEF OnePort, Ported, Bounded, BusyListens
<1>9. RfdsMatch'
  BY <1>5 DEF RfdsMatch
<1>10. DOMAIN new = 1 .. Len(new) /\ Len(new) \in Nat
  BY ConfigAssumption DEF AllConfigs
<1> QED
  BY <1>3, <1>5, <1>6, <1>7, <1>8, <1>9, <1>10 DEF Socks


LEMMA StepSocks ==
  ASSUME Typed, Socks, Copied, Next
  PROVE  SocketTypes' /\ Socks'
<1>1. CASE Sigchld
  <2>1. UNCHANGED <<open, fdmax, overrun>>
    BY <1>1 DEF Sigchld, history
  <2>2. CASE UNCHANGED <<services, rfds>>
    BY <2>1, <2>2, SocksAlone DEF Typed
  <2>3. ASSUME NEW p \in Zombies, PutBack(p) PROVE SocketTypes' /\ Socks'
    BY <2>1, <2>3, PutBackSocks DEF Zombies, Typed
  <2> QED
    BY <1>1, <2>2, <2>3 DEF Sigchld
<1>2. CASE OnHup
  <2>1. CASE SighupIgnored \/ HupKills \/ \E new \in Configs : SighupCrashes(new)
    <3>1. UNCHANGED <<services, open, rfds, fdmax>>
      BY <2>1 DEF SighupIgnored, HupKills, SighupCrashes
    <3>2. overrun' = overrun \/ overrun' = TRUE
      BY <2>1 DEF SighupIgnored, HupKills, SighupCrashes, history
    <3>3. overrun => overrun'
      BY <3>2, Zenon
    <3> QED
      BY <3>1, <3>3, SocksAlone DEF Typed
  <2> QED
    BY <1>2, <2>1, SighupSocks DEF OnHup, Typed
<1>3. CASE Loop
  <2>1. CASE Copy \/ Select \/ Wake \/ Block \/ Skip \/ ExecUdpNowait \/ ExecUdpWait \/ Unblock
    <3>1. UNCHANGED <<services, open, rfds, fdmax, overrun>>
      BY <2>1 DEF Copy, Select, Wake, Block, Skip, ExecUdpNowait, ExecUdpWait, Unblock, history
    <3> QED
      BY <3>1, SocksAlone DEF Typed
  <2>2. CASE ExecTcp
    BY <2>2, ExecTcpSocks DEF Typed
  <2>3. CASE Forked
    BY <2>3, ForkedSocks DEF Typed, Copied
  <2> QED
    BY <1>3, <2>1, <2>2, <2>3 DEF Loop
<1>4. CASE Environment
  <2>1. UNCHANGED <<services, open, rfds, fdmax, overrun>>
    BY <1>4 DEF Environment, Hup, Arrive, Receive, Exit, Stop, history
  <2> QED
    BY <2>1, SocksAlone DEF Typed
<1> QED
  BY <1>1, <1>2, <1>3, <1>4 DEF Next

-----------------------------------------------------------------------------
(* Types *)

\* Signals are delivered where the index is not in use.
LEMMA WhenDelivered ==
  ASSUME LoopTypes, Placed, NEW sig, Delivered(sig)
  PROVE  pc \in {"copy", "select", "waiting", "block"} /\ cur = 1
BY DEF LoopTypes, Placed, Delivered, Alive, Blocked

\* One process starts or ends.
LEMMA OneChild ==
  ASSUME SystemTypes, NEW p \in Pid, NEW x \in Child, child' = [child EXCEPT ![p] = x]
  PROVE  /\ child' \in [Pid -> Child] /\ child'[p] = x
         /\ \A q \in Pid : q # p => child'[q] = child[q]
BY DEF SystemTypes

LEMMA NobodyThere ==
  /\ Nobody \in Child /\ Nobody.state = "none"
  /\ [Nobody EXCEPT !.state = "zombie"] \in Child /\ [Nobody EXCEPT !.state = "zombie"].state = "zombie"
BY DEF Nobody, Child

LEMMA ForkEffect ==
  ASSUME SystemTypes, NEW p \in FreePid, NEW k \in Key, Fork(p, k)
  PROVE  /\ p \in Pid /\ child[p].state = "none" /\ child' \in [Pid -> Child]
         /\ child'[p].state = "running" /\ child'[p].serves = k
         /\ \A q \in Pid : q # p => child'[q] = child[q]
<1> DEFINE x == [state |-> "running", serves |-> k,
                 holds |-> {a \in Addresses : \E fd \in Fd : open[fd] = a}]
<1>1. p \in Pid /\ child[p].state = "none"
  BY DEF FreePid
<1>2. x \in Child /\ x.state = "running" /\ x.serves = k
  BY DEF Child, Key
<1>3. child' = [child EXCEPT ![p] = x]
  BY DEF Fork
<1> HIDE DEF x
<1> QED
  BY <1>1, <1>2, <1>3, OneChild

\* A step of the loop starts one server of the service at hand, or none.
LEMMA LoopForks ==
  ASSUME SocketTypes, LoopTypes, SystemTypes, ExecTcp \/ ExecUdpNowait \/ ExecUdpWait
  PROVE  /\ cur \in DOMAIN services /\ services[cur].key \in Key /\ services[cur].key \in Keys
         /\ services[cur].fd \in rfdstmp /\ cur <= Len(services)
         /\ \/ UNCHANGED child /\ (ExecUdpWait => newpid' = NoPid)
            \/ \E p \in FreePid : Fork(p, services[cur].key) /\ (ExecUdpWait => newpid' = p)
         /\ ExecTcp => services[cur].key.proto = "tcp"
         /\ ExecUdpNowait => services[cur].key.proto = "nowait"
         /\ ExecUdpWait => services[cur].key.proto = "wait"
<1>1. cur <= Len(services) /\ cur \in 1 .. Len(services) + 1 /\ services[cur].fd \in rfdstmp
  BY DEF ExecTcp, ExecUdpNowait, ExecUdpWait, Serving, LoopTypes
<1>2. cur \in DOMAIN services /\ services[cur].key \in Key /\ services[cur].key \in Keys
  BY <1>1, ServiceTypes
<1>3. /\ ExecTcp => services[cur].key.proto = "tcp"
      /\ ExecUdpNowait => services[cur].key.proto = "nowait"
      /\ ExecUdpWait => services[cur].key.proto = "wait"
  BY DEF ExecTcp, ExecUdpNowait, ExecUdpWait, Serving
<1>4. \/ UNCHANGED child /\ (ExecUdpWait => newpid' = NoPid)
      \/ \E p \in FreePid : Fork(p, services[cur].key) /\ (ExecUdpWait => newpid' = p)
  <2>1. CASE ExecUdpWait
    BY <2>1 DEF ExecUdpWait
  <2>2. CASE ExecTcp /\ ~ ExecUdpWait
    BY <2>2 DEF ExecTcp
  <2>3. CASE ExecUdpNowait /\ ~ ExecUdpWait
    BY <2>3 DEF ExecUdpNowait
  <2> QED
    BY <2>1, <2>2, <2>3
<1> QED
  BY <1>1, <1>2, <1>3, <1>4


\* A server that ends is reaped and its service, if there is one, put back.
LEMMA SigchldEffect ==
  ASSUME SocketTypes, SystemTypes, Sigchld
  PROVE  /\ DOMAIN services' = DOMAIN services /\ Len(services') = Len(services)
         /\ \A i \in DOMAIN services :
              services'[i].key = services[i].key /\ services'[i].fd = services[i].fd
         /\ \/ UNCHANGED <<services, child>> /\ Zombies = {}
            \/ \E p \in Zombies :
                 /\ child' \in [Pid -> Child] /\ child'[p].state = "none"
                 /\ \A q \in Pid : q # p => child'[q] = child[q]
                 /\ \/ UNCHANGED services /\ \A i \in DOMAIN services : services[i].pid # p
                    \/ \E k \in DOMAIN services : services[k].pid = p
                         /\ \A i \in DOMAIN services :
                              services'[i].pid = IF i = k THEN NoPid ELSE services[i].pid
<1>1. CASE UNCHANGED <<services, child>> /\ Zombies = {}
  BY <1>1
<1>2. ASSUME NEW p \in Zombies, child' = [child EXCEPT ![p] = Nobody], PutBack(p)
      PROVE  /\ DOMAIN services' = DOMAIN services /\ Len(services') = Len(services)
             /\ \A i \in DOMAIN services :
                  services'[i].key = services[i].key /\ services'[i].fd = services[i].fd
             /\ child' \in [Pid -> Child] /\ child'[p].state = "none"
             /\ \A q \in Pid : q # p => child'[q] = child[q]
             /\ \/ UNCHANGED services /\ \A i \in DOMAIN services : services[i].pid # p
                \/ \E k \in DOMAIN services : services[k].pid = p
                     /\ \A i \in DOMAIN services :
                          services'[i].pid = IF i = k THEN NoPid ELSE services[i].pid
  <2>1. p \in Pid
    BY DEF Zombies
  <2>2. /\ child' \in [Pid -> Child] /\ child'[p].state = "none"
        /\ \A q \in Pid : q # p => child'[q] = child[q]
    BY <1>2, <2>1, OneChild, NobodyThere
  <2>3. CASE UNCHANGED services /\ \A i \in DOMAIN services : services[i].pid # p
    BY <2>2, <2>3
  <2>4. ASSUME NEW k \in DOMAIN services, services[k].pid = p, services' = [services EXCEPT ![k].pid = NoPid]
        PROVE  /\ DOMAIN services' = DOMAIN services /\ Len(services') = Len(services)
               /\ \A i \in DOMAIN services :
                    /\ services'[i].key = services[i].key /\ services'[i].fd = services[i].fd
                    /\ services'[i].pid = IF i = k THEN NoPid ELSE services[i].pid
    BY <2>4, OnePid
  <2> QED
    BY <1>2, <2>1, <2>2, <2>3, <2>4, PutBackEffect
<1> QED
  BY <1>1, <1>2 DEF Sigchld

LEMMA StepLoopTypes ==
  ASSUME Typed, Socks, Copied, Next
  PROVE  LoopTypes'
<1> USE DEF Typed
<1>1. LoopTypes /\ SocketTypes /\ SystemTypes /\ Placed /\ Len(services) \in Nat
  BY ServiceTypes DEF Copied
<1>2. SocketTypes'
  BY StepSocks
<1>3. Len(services') \in Nat
  BY <1>2 DEF SocketTypes
<1>4. ASSUME Interrupted, UNCHANGED <<cur, newpid>>, cur = 1
      PROVE  LoopTypes'
  BY <1>1, <1>3, <1>4 DEF LoopTypes, Interrupted
<1>5. CASE Sigchld
  BY <1>1, <1>4, <1>5, WhenDelivered DEF Sigchld
<1>6. CASE OnHup
  <2>1. ASSUME NEW new, SighupCrashes(new) PROVE LoopTypes'
    BY <1>1, <2>1 DEF SighupCrashes, LoopTypes
  <2>2. CASE HupKills
    BY <1>1, <2>2 DEF HupKills, LoopTypes
  <2>3. CASE SighupIgnored
    BY <1>1, <1>4, <2>3, WhenDelivered DEF SighupIgnored
  <2>4. ASSUME NEW new, NEW matched, Sighup(new, matched) PROVE LoopTypes'
    BY <1>1, <1>4, <2>4, WhenDelivered DEF Sighup
  <2> QED
    BY <1>6, <2>1, <2>2, <2>3, <2>4 DEF OnHup
<1>7. CASE Loop
  <2>1. CASE Copy \/ Block \/ Wake \/ Select
    BY <1>1, <2>1 DEF Copy, Block, Wake, Select, Readable, LoopTypes, SocketTypes
  <2>2. CASE Skip
    BY <1>1, <2>2 DEF Skip, Done, LoopTypes
  <2>3. CASE ExecTcp \/ ExecUdpNowait
    <3>1. UNCHANGED services /\ Done /\ cur <= Len(services)
      BY <2>3 DEF ExecTcp, ExecUdpNowait, Serving
    <3> QED
      BY <1>1, <3>1 DEF Done, LoopTypes
  <2>4. CASE ExecUdpWait
    <3>1. newpid' \in Pid \union {NoPid}
      BY <2>4 DEF ExecUdpWait, FreePid
    <3>2. pc' = "forked" /\ UNCHANGED <<services, cur, rfdstmp>>
      BY <2>4 DEF ExecUdpWait
    <3> QED
      BY <1>1, <3>1, <3>2 DEF LoopTypes
  <2>5. CASE Forked
    <3>1. cur \in DOMAIN services /\ newpid \in Pid \union {NoPid}
      BY <1>1, <2>5 DEF Placed, Forked, LoopTypes
    <3>2. Len(services') = Len(services) /\ cur \in 1 .. Len(services)
      BY <1>1, <2>5, <3>1, OnePid, ServiceTypes DEF Forked
    <3>3. pc' = "serve" /\ cur' = cur + 1 /\ newpid' = NoPid /\ rfdstmp' = rfdstmp
      BY <2>5 DEF Forked
    <3> QED
      BY <1>1, <3>2, <3>3 DEF LoopTypes
  <2>6. CASE Unblock
    BY <1>1, <2>6 DEF Unblock, LoopTypes
  <2> QED
    BY <1>7, <2>1, <2>2, <2>3, <2>4, <2>5, <2>6 DEF Loop
<1>8. CASE Environment
  <2>1. UNCHANGED <<services, pc, rfdstmp, cur, newpid>>
    BY <1>8 DEF Environment, Hup, Arrive, Receive, Exit, Stop, loop
  <2> QED
    BY <1>1, <2>1 DEF LoopTypes
<1> QED
  BY <1>5, <1>6, <1>7, <1>8 DEF Next

LEMMA StepWorkType ==
  ASSUME Typed, Next
  PROVE  work' \in [Addresses -> 0 .. MaxWork]
<1>1. work \in [Addresses -> 0 .. MaxWork] /\ MaxWork \in Nat
  BY BoundsAssumption DEF Typed, SystemTypes
<1>2. CASE UNCHANGED work
  BY <1>1, <1>2
<1>3. ASSUME NEW o, NEW c, work' = [a \in Addresses |-> IF Lives(o, c, a) THEN work[a] ELSE 0]
      PROVE  work' \in [Addresses -> 0 .. MaxWork]
  BY <1>1, <1>3
<1>4. ASSUME NEW a, NEW n \in Int, work' = [work EXCEPT ![a] = n], a \in Addresses => n \in 0 .. MaxWork
      PROVE  work' \in [Addresses -> 0 .. MaxWork]
  BY <1>1, <1>4
<1>5. \A a \in Addresses : work[a] \in 0 .. MaxWork
  BY <1>1
<1>6. CASE ExecTcp
  <2>1. PICK a : a = Address(services[cur].key)
    OBVIOUS
  <2>2. cur \in DOMAIN services /\ services[cur].key \in Keys
    BY <1>6, LoopForks DEF Typed
  <2>3. a \in Addresses
    BY <2>1, <2>2 DEF Addresses
  <2>4. UNCHANGED work \/ (work[a] > 0 /\ work' = [work EXCEPT ![a] = work[a] - 1])
    BY <1>1, <1>6, <2>1, <2>3 DEF ExecTcp
  <2>5. PICK n \in 0 .. MaxWork : n = work[a]
    BY <1>5, <2>3
  <2>6. n > 0 => n - 1 \in 0 .. MaxWork /\ n - 1 \in Int
    BY <1>1
  <2> QED
    BY <1>2, <1>4, <2>4, <2>5, <2>6
<1>7. ASSUME NEW a \in Addresses, Arrive(a) PROVE work' \in [Addresses -> 0 .. MaxWork]
  <2>1. PICK n \in 0 .. MaxWork : n = work[a]
    BY <1>5
  <2>2. n < MaxWork /\ work' = [work EXCEPT ![a] = n + 1]
    BY <1>1, <1>7, <2>1 DEF Arrive
  <2>3. n + 1 \in 0 .. MaxWork /\ n + 1 \in Int
    BY <1>1, <2>2
  <2> QED
    BY <1>4, <2>2, <2>3
<1>8. ASSUME NEW p \in Pid, Receive(p) PROVE work' \in [Addresses -> 0 .. MaxWork]
  <2>1. PICK a : a = Address(child[p].serves)
    OBVIOUS
  <2>2. work' = [work EXCEPT ![a] = 0]
    BY <1>8, <2>1 DEF Receive
  <2>3. 0 \in 0 .. MaxWork /\ 0 \in Int
    BY <1>1
  <2> QED
    BY <1>4, <2>2, <2>3
<1>9. ASSUME NEW p \in Pid, Exit(p) PROVE work' \in [Addresses -> 0 .. MaxWork]
  BY <1>3, <1>9 DEF Exit, WorkLeft
<1>10. ASSUME NEW new, NEW matched, Sighup(new, matched) PROVE work' \in [Addresses -> 0 .. MaxWork]
  BY <1>3, <1>10 DEF Sighup
<1>11. ASSUME NEW new, SighupCrashes(new) PROVE UNCHANGED work
  BY <1>11 DEF SighupCrashes
<1>12. CASE OnHup
  BY <1>2, <1>10, <1>11, <1>12 DEF OnHup, SighupIgnored, HupKills
<1>13. CASE Sigchld
  BY <1>2, <1>13 DEF Sigchld
<1>14. CASE Loop
  <2>1. ASSUME Copy \/ Select \/ Wake \/ Block \/ Skip \/ ExecUdpNowait \/ ExecUdpWait \/ Forked \/ Unblock
        PROVE  UNCHANGED work
    BY <2>1 DEF Copy, Select, Wake, Block, Skip, ExecUdpNowait, ExecUdpWait, Forked, Unblock
  <2>2. UNCHANGED work \/ ExecTcp
    BY <1>14, <2>1 DEF Loop
  <2> QED
    BY <1>2, <1>6, <2>2
<1>15. CASE Environment
  <2>1. ASSUME Hup \/ \E p \in Pid : Stop(p) PROVE UNCHANGED work
    BY <2>1 DEF Hup, Stop
  <2> QED
    BY <1>2, <1>7, <1>8, <1>9, <1>15, <2>1 DEF Environment
<1> QED
  BY <1>12, <1>13, <1>14, <1>15 DEF Next


LEMMA StepChildType ==
  ASSUME Typed, Next
  PROVE  child' \in [Pid -> Child]
<1> USE DEF Typed
<1>1. CASE UNCHANGED child
  BY <1>1 DEF SystemTypes
<1>2. CASE Sigchld
  BY <1>1, <1>2, SigchldEffect
<1>3. CASE ExecTcp \/ ExecUdpNowait \/ ExecUdpWait
  <2>1. UNCHANGED child \/ \E p \in FreePid : Fork(p, services[cur].key)
    BY <1>3, LoopForks
  <2>2. services[cur].key \in Key
    BY <1>3, LoopForks
  <2> QED
    BY <1>1, <2>1, <2>2, ForkEffect
<1>4. ASSUME NEW p \in Pid, Exit(p) PROVE child' \in [Pid -> Child]
  <2>1. PICK x \in Child : child' = [child EXCEPT ![p] = x]
    BY <1>4, NobodyThere DEF Exit
  <2> QED
    BY <2>1, OneChild
<1>5. CASE OnHup
  <2>1. UNCHANGED child
    BY <1>5 DEF OnHup, SighupIgnored, HupKills, SighupCrashes, Sighup
  <2> QED
    BY <1>1, <2>1
<1>6. CASE Loop
  <2>1. ASSUME Copy \/ Select \/ Wake \/ Block \/ Skip \/ Forked \/ Unblock
        PROVE  UNCHANGED child
    BY <2>1 DEF Copy, Select, Wake, Block, Skip, Forked, Unblock
  <2> QED
    BY <1>1, <1>3, <1>6, <2>1 DEF Loop
<1>7. CASE Environment
  <2>1. ASSUME Hup \/ (\E a \in Addresses : Arrive(a)) \/ (\E p \in Pid : Receive(p) \/ Stop(p))
        PROVE  UNCHANGED child
    BY <2>1 DEF Hup, Arrive, Receive, Stop
  <2> QED
    BY <1>1, <1>4, <1>7, <2>1 DEF Environment
<1> QED
  BY <1>2, <1>5, <1>6, <1>7 DEF Next

\* What each kind of step does to the signals and the history.
LEMMA StepSignals ==
  ASSUME Typed, Next
  PROVE  /\ pending' \subseteq {"CHLD", "HUP"} /\ reset' \subseteq {"CHLD", "HUP"} /\ flags' = flags
         /\ hups' \in 0 .. MaxHups
<1>1. /\ pending \subseteq {"CHLD", "HUP"} /\ reset \subseteq {"CHLD", "HUP"} /\ hups \in 0 .. MaxHups
      /\ MaxHups \in Nat
  BY BoundsAssumption DEF Typed, SystemTypes
<1>2. CASE Sigchld \/ OnHup
  <2>1. UNCHANGED <<flags, hups>>
    BY <1>2 DEF Sigchld, OnHup, SighupIgnored, HupKills, SighupCrashes, Sighup, history
  <2>2. \E sig \in {"CHLD", "HUP"} : Delivered(sig)
    BY <1>2 DEF Sigchld, OnHup, SighupIgnored, HupKills, SighupCrashes, Sighup
  <2> QED
    BY <1>1, <2>1, <2>2 DEF Delivered
<1>3. CASE Loop
  <2>1. UNCHANGED <<pending, reset, flags, hups>>
    BY <1>3 DEF Loop, Copy, Select, Wake, Block, Skip, ExecTcp, ExecUdpNowait, ExecUdpWait, Forked, Unblock, history
  <2> QED
    BY <1>1, <2>1
<1>4. CASE Environment
  <2>1. UNCHANGED <<reset, flags>>
    BY <1>4 DEF Environment, Hup, Arrive, Receive, Exit, Stop
  <2>2. hups' = hups \/ (hups < MaxHups /\ hups' = hups + 1)
    BY <1>4 DEF Environment, Hup, Arrive, Receive, Exit, Stop, history
  <2>3. pending' = pending \/ pending' = pending \union {"CHLD"} \/ pending' = pending \union {"HUP"}
    BY <1>4 DEF Environment, Hup, Arrive, Receive, Exit, Stop
  <2>4. hups' \in 0 .. MaxHups
    BY <1>1, <2>2
  <2> QED
    BY <1>1, <2>1, <2>3, <2>4
<1> QED
  BY <1>2, <1>3, <1>4 DEF Next

LEMMA StepHistory ==
  ASSUME Typed, Next
  PROVE  HistoryTypes'
<1> DEFINE B == stale' \in BOOLEAN /\ coalesced' \in BOOLEAN /\ forgot' \in BOOLEAN /\ overrun' \in BOOLEAN
<1>1. stale \in BOOLEAN /\ coalesced \in BOOLEAN /\ forgot \in BOOLEAN /\ overrun \in BOOLEAN
  BY DEF Typed, HistoryTypes
<1>2. ASSUME UNCHANGED <<stale, coalesced, forgot, overrun>> PROVE B
  BY <1>1, <1>2
<1>3. ASSUME Copy PROVE B
  <2>1. stale' = FALSE /\ UNCHANGED <<coalesced, forgot, overrun>>
    BY <1>3 DEF Copy
  <2> QED
    BY <1>1, <2>1
<1>4. ASSUME NEW p \in Pid, Exit(p) PROVE B
  <2>1. coalesced' = (coalesced \/ "CHLD" \in pending) /\ UNCHANGED <<stale, forgot, overrun>>
    BY <1>4 DEF Exit
  <2>2. coalesced' \in BOOLEAN
    BY <2>1, Zenon
  <2> QED
    BY <1>1, <2>1, <2>2
<1>5. ASSUME NEW new \in Configs, NEW matched, Sighup(new, matched) PROVE B
  <2>1. /\ stale' = (stale \/ pc \in {"select", "block"})
        /\ forgot' = (forgot \/ \E i \in DOMAIN services : services[i].pid # NoPid)
        /\ overrun' = (overrun \/ PastEnd(services, new) # {}) /\ UNCHANGED coalesced
    BY <1>5 DEF Sighup
  <2>2. stale' \in BOOLEAN /\ forgot' \in BOOLEAN /\ overrun' \in BOOLEAN
    BY <2>1, Zenon
  <2> QED
    BY <1>1, <2>1, <2>2
<1>6. ASSUME NEW new \in Configs, SighupCrashes(new) PROVE B
  <2>1. overrun' = TRUE /\ UNCHANGED <<stale, coalesced, forgot>>
    BY <1>6 DEF SighupCrashes
  <2> QED
    BY <1>1, <2>1
<1>7. ASSUME Sigchld PROVE B
  <2>1. UNCHANGED <<stale, coalesced, forgot, overrun>>
    BY <1>7 DEF Sigchld, history
  <2> QED
    BY <1>2, <2>1
<1>8. ASSUME OnHup PROVE B
  <2>1. ASSUME SighupIgnored \/ HupKills PROVE B
    <3>1. UNCHANGED <<stale, coalesced, forgot, overrun>>
      BY <2>1 DEF SighupIgnored, HupKills, history
    <3> QED
      BY <1>2, <3>1
  <2> HIDE DEF B
  <2> QED
    BY <1>5, <1>6, <1>8, <2>1 DEF OnHup
<1>9. ASSUME Loop PROVE B
  <2>1. ASSUME ~ Copy PROVE B
    <3>1. UNCHANGED <<stale, coalesced, forgot, overrun>>
      BY <1>9, <2>1 DEF Loop, Select, Wake, Block, Skip, ExecTcp, ExecUdpNowait, ExecUdpWait, Forked,
                        Unblock, history
    <3> QED
      BY <1>2, <3>1
  <2> HIDE DEF B
  <2> QED
    BY <1>3, <2>1
<1>10. ASSUME Environment PROVE B
  <2>1. ASSUME ~ \E p \in Pid : Exit(p) PROVE B
    <3>1. UNCHANGED <<stale, coalesced, forgot, overrun>>
      BY <1>10, <2>1 DEF Environment, Hup, Arrive, Receive, Stop, history
    <3> QED
      BY <1>2, <3>1
  <2> HIDE DEF B
  <2> QED
    BY <1>4, <2>1
<1>11. B
  <2> HIDE DEF B
  <2> QED
    BY <1>7, <1>8, <1>9, <1>10 DEF Next
<1> QED
  BY <1>11 DEF HistoryTypes

LEMMA StepTyped ==
  ASSUME Typed, Socks, Copied, Next
  PROVE  Typed'
<1>1. SocketTypes' /\ LoopTypes' /\ HistoryTypes'
  BY StepSocks, StepLoopTypes, StepHistory
<1>2. SystemTypes'
  <2>1. flags \in FlagSets
    BY DEF Typed, SystemTypes
  <2> QED
    BY <2>1, StepChildType, StepSignals, StepWorkType DEF SystemTypes
<1> QED
  BY <1>1, <1>2 DEF Typed


-----------------------------------------------------------------------------
(* Services and their servers *)

LEMMA KidsAlone ==
  ASSUME Kids, UNCHANGED <<services, child, flags, forgot>>,
         pc = "forked" \/ pc' = "forked" => UNCHANGED <<pc, cur, newpid>>
  PROVE  Kids'
<1>1. BusyHasChild' /\ OneServer' /\ NoneLeft'
  BY DEF Kids, BusyHasChild, OneServer, NoneLeft, Zombies
<1>2. Tracked'
  BY DEF Kids, Tracked, Running
<1> QED
  BY <1>1, <1>2 DEF Kids

\* The server that is reaped is the server of one service at most, so that no other
\* service is left to wait for it.
LEMMA SigchldKids ==
  ASSUME Typed, Copied, Kids, Sigchld
  PROVE  Kids'
<1> USE DEF Typed
<1>1. pc # "forked" /\ pc' # "forked" /\ UNCHANGED <<flags, forgot>>
  BY WhenDelivered DEF Sigchld, Interrupted, Copied, history
<1>2. CASE UNCHANGED <<services, child>>
  BY <1>1, <1>2, KidsAlone
<1>3. ASSUME NEW p \in Zombies, child'[p].state = "none",
             \A q \in Pid : q # p => child'[q] = child[q],
             DOMAIN services' = DOMAIN services,
             \A i \in DOMAIN services : services'[i].key = services[i].key,
             \/ UNCHANGED services /\ \A i \in DOMAIN services : services[i].pid # p
             \/ \E k \in DOMAIN services : services[k].pid = p
                  /\ \A i \in DOMAIN services :
                       services'[i].pid = IF i = k THEN NoPid ELSE services[i].pid
      PROVE  Kids'
  <2>1. p \in Pid /\ p # NoPid /\ "NOCLDWAIT" \notin flags /\ child[p].state = "zombie"
    BY FdAssumption DEF Zombies, Kids, NoneLeft, NoPid
  <2>2. ASSUME NEW i \in DOMAIN services, services'[i].pid # NoPid
        PROVE  services'[i].pid = services[i].pid /\ services[i].pid # p
    BY <1>3, <2>1, <2>2 DEF Kids, OneServer
  <2>3. ASSUME NEW i \in DOMAIN services, services[i].pid # p
        PROVE  services'[i].pid = services[i].pid
    BY <1>3, <2>3
  <2>4. \A i \in DOMAIN services : services[i].pid \in Pid \union {NoPid}
    BY ServiceTypes
  <2>5. BusyHasChild'
    BY <1>1, <1>3, <2>1, <2>2, <2>4 DEF Kids, BusyHasChild
  <2>6. OneServer'
    BY <1>1, <1>3, <2>1, <2>2 DEF Kids, OneServer
  <2>7. NoneLeft'
    BY <1>1, <2>1 DEF NoneLeft
  <2>8. Tracked'
    <3> SUFFICES ASSUME ~ forgot, NEW q \in Pid, child'[q].state = "running",
                        child'[q].serves.proto = "wait"
                 PROVE  \E i \in DOMAIN services : services'[i].pid = q /\ services'[i].key = child'[q].serves
      BY <1>1, <1>3 DEF Tracked, Running
    <3>1. q # p /\ child'[q] = child[q]
      BY <1>3
    <3>2. PICK i \in DOMAIN services : services[i].pid = q /\ services[i].key = child[q].serves
      BY <1>1, <3>1 DEF Kids, Tracked, Running
    <3> QED
      BY <1>3, <2>3, <3>1, <3>2
  <2> QED
    BY <2>5, <2>6, <2>7, <2>8 DEF Kids
<1> QED
  BY <1>2, <1>3, SigchldEffect

\* SIGHUP forgets the servers, and "forgot" remembers that there were any.
LEMMA SighupKids ==
  ASSUME Typed, Socks, Copied, Kids, NEW new \in Configs, NEW matched, Sighup(new, matched)
  PROVE  Kids'
<1> USE DEF Typed
<1>1. pc # "forked" /\ pc' # "forked" /\ UNCHANGED <<flags, child>>
  BY WhenDelivered DEF Sighup, Interrupted, Copied
<1>2. forgot' = (forgot \/ \E i \in DOMAIN services : services[i].pid # NoPid)
  BY DEF Sighup
<1>3. \A i \in DOMAIN services' : services'[i].pid = NoPid
  BY SighupSocks
<1>4. BusyHasChild' /\ OneServer'
  BY <1>1, <1>3 DEF BusyHasChild, OneServer
<1>5. NoneLeft'
  BY <1>1 DEF Kids, NoneLeft, Zombies
<1>6. Tracked'
  <2> SUFFICES ASSUME ~ forgot' PROVE \A p \in Pid : ~ (Running(p)' /\ child'[p].serves.proto = "wait")
    BY <1>1 DEF Tracked
  <2>1. ~ forgot /\ \A i \in DOMAIN services : services[i].pid = NoPid
    BY <1>2, Zenon
  <2>2. \A p \in Pid : p # NoPid
    BY FdAssumption DEF NoPid
  <2> QED
    BY <1>1, <2>1, <2>2 DEF Kids, Tracked, Running
<1> QED
  BY <1>4, <1>5, <1>6 DEF Kids

LEMMA ForkKids ==
  ASSUME Typed, Kids, ExecTcp \/ ExecUdpNowait \/ ExecUdpWait
  PROVE  Kids'
<1> USE DEF Typed
<1>1. ExecTcp \/ ExecUdpNowait \/ ExecUdpWait
  OBVIOUS
<1>2. pc = "serve" /\ UNCHANGED <<services, flags, forgot>>
  BY <1>1 DEF ExecTcp, ExecUdpNowait, ExecUdpWait, Serving, history
<1>3. ~ ExecUdpWait => pc' = "serve"
  <2>1. ExecTcp \/ ExecUdpNowait => pc' = pc
    BY DEF ExecTcp, ExecUdpNowait, Done
  <2> QED
    BY <1>1, <1>2, <2>1
<1>4. ExecUdpWait => pc' = "forked" /\ cur' = cur
  BY DEF ExecUdpWait
<1>5. CASE UNCHANGED child /\ (ExecUdpWait => newpid' = NoPid)
  <2>1. BusyHasChild' /\ NoneLeft'
    BY <1>2, <1>5 DEF Kids, BusyHasChild, NoneLeft, Zombies
  <2>2. OneServer'
    BY <1>2, <1>3, <1>5 DEF Kids, OneServer
  <2>3. Tracked'
    BY <1>2, <1>5 DEF Kids, Tracked, Running
  <2> QED
    BY <2>1, <2>2, <2>3 DEF Kids
<1>6. ASSUME NEW p \in FreePid, Fork(p, services[cur].key), ExecUdpWait => newpid' = p
      PROVE  Kids'
  <2>1. /\ p \in Pid /\ child[p].state = "none" /\ child'[p].state = "running"
        /\ child'[p].serves = services[cur].key /\ \A q \in Pid : q # p => child'[q] = child[q]
    BY <1>6, ForkEffect, LoopForks
  <2>2. \A i \in DOMAIN services : services[i].pid \in Pid \union {NoPid}
    BY ServiceTypes
  <2>3. BusyHasChild'
    BY <1>2, <2>1, <2>2 DEF Kids, BusyHasChild
  <2>4. NoneLeft'
    BY <1>2, <2>1 DEF Kids, NoneLeft, Zombies
  <2>5. OneServer'
    <3>1. "NOCLDWAIT" \notin flags => \A i \in DOMAIN services : services[i].pid # p
      <4>1. p # NoPid
        BY <2>1, FdAssumption DEF NoPid
      <4> QED
        BY <2>1, <4>1 DEF Kids, BusyHasChild
    <3> QED
      BY <1>2, <1>3, <1>6, <2>1, <3>1 DEF Kids, OneServer
  <2>6. Tracked'
    <3> SUFFICES ASSUME ~ forgot, NEW q \in Pid, child'[q].state = "running",
                        child'[q].serves.proto = "wait"
                 PROVE  \/ \E i \in DOMAIN services : services[i].pid = q /\ services[i].key = child'[q].serves
                        \/ pc' = "forked" /\ newpid' = q /\ services[cur'].key = child'[q].serves
      BY <1>2 DEF Tracked, Running
    <3>1. CASE q # p
      BY <1>2, <2>1, <3>1 DEF Kids, Tracked, Running
    <3>2. CASE q = p
      <4>1. ExecUdpWait
        BY <2>1, <3>2, LoopForks
      <4> QED
        BY <1>4, <1>6, <2>1, <3>2, <4>1
    <3> QED
      BY <3>1, <3>2
  <2> QED
    BY <2>3, <2>4, <2>5, <2>6 DEF Kids
<1>7. \/ UNCHANGED child /\ (ExecUdpWait => newpid' = NoPid)
      \/ \E p \in FreePid : Fork(p, services[cur].key) /\ (ExecUdpWait => newpid' = p)
  BY LoopForks
<1> QED
  BY <1>5, <1>6, <1>7

\* The signals were blocked since fork(): the server is still there to wait for.
LEMMA ForkedKids ==
  ASSUME Typed, Copied, Kids, Forked
  PROVE  Kids'
<1> USE DEF Typed
<1>1. /\ pc = "forked" /\ pc' = "serve" /\ services' = [services EXCEPT ![cur].pid = newpid]
      /\ UNCHANGED <<child, flags, forgot>>
  BY DEF Forked, history
<1>2. /\ cur \in DOMAIN services /\ newpid \in Pid \union {NoPid} /\ services[cur].fd \in rfdstmp
  BY <1>1 DEF Copied, Placed, LoopTypes
<1>3. services[cur].pid = NoPid
  <2>1. cur \in Nat
    BY <1>2, ServiceTypes
  <2>2. cur >= cur
    BY <2>1
  <2> QED
    BY <1>1, <1>2, <2>2 DEF Copied, CopyIdle
<1>4. /\ DOMAIN services' = DOMAIN services
      /\ \A i \in DOMAIN services :
           /\ services'[i].key = services[i].key
           /\ services'[i].pid = IF i = cur THEN newpid ELSE services[i].pid
  BY <1>1, <1>2, OnePid
<1>5. BusyHasChild'
  BY <1>1, <1>4 DEF Kids, BusyHasChild, OneServer
<1>6. OneServer'
  BY <1>1, <1>4 DEF Kids, OneServer
<1>7. NoneLeft'
  BY <1>1 DEF Kids, NoneLeft, Zombies
<1>8. Tracked'
  <2> SUFFICES ASSUME ~ forgot, NEW q \in Pid, child[q].state = "running",
                      child[q].serves.proto = "wait"
               PROVE  \E i \in DOMAIN services : services'[i].pid = q /\ services'[i].key = child[q].serves
    BY <1>1, <1>4 DEF Tracked, Running
  <2>1. q # NoPid
    BY FdAssumption DEF NoPid
  <2> QED
    BY <1>2, <1>3, <1>4, <2>1 DEF Kids, Tracked, Running
<1> QED
  BY <1>5, <1>6, <1>7, <1>8 DEF Kids

LEMMA ExitEffect ==
  ASSUME SystemTypes, NEW p \in Pid, Exit(p)
  PROVE  /\ child'[p].state = IF "NOCLDWAIT" \in flags THEN "none" ELSE "zombie"
         /\ \A q \in Pid : q # p => child'[q] = child[q]
         /\ child[p].state = "running"
<1>1. PICK x \in Child : child' = [child EXCEPT ![p] = x]
         /\ x.state = IF "NOCLDWAIT" \in flags THEN "none" ELSE "zombie"
  BY NobodyThere DEF Exit
<1> QED
  BY <1>1, OneChild DEF Exit, Running

LEMMA ExitKids ==
  ASSUME Typed, Kids, NEW p \in Pid, Exit(p)
  PROVE  Kids'
<1>1. UNCHANGED <<services, flags, forgot, pc, cur, newpid>>
  BY DEF Exit, loop
<1>2. /\ child'[p].state = IF "NOCLDWAIT" \in flags THEN "none" ELSE "zombie"
      /\ \A q \in Pid : q # p => child'[q] = child[q]
  BY ExitEffect DEF Typed
<1>3. newpid \in Pid \union {NoPid} /\ \A i \in DOMAIN services : services[i].pid \in Pid \union {NoPid}
  BY ServiceTypes DEF Typed, LoopTypes
<1>4. BusyHasChild'
  BY <1>1, <1>2, <1>3 DEF Kids, BusyHasChild
<1>5. OneServer'
  BY <1>1, <1>2, <1>3 DEF Kids, OneServer
<1>6. NoneLeft'
  BY <1>1, <1>2 DEF Kids, NoneLeft, Zombies
<1>7. Tracked'
  BY <1>1, <1>2 DEF Kids, Tracked, Running
<1> QED
  BY <1>4, <1>5, <1>6, <1>7 DEF Kids

LEMMA StepKids ==
  ASSUME Typed, Socks, Copied, Kids, Next
  PROVE  Kids'
<1>1. CASE Sigchld
  BY <1>1, SigchldKids
<1>2. ASSUME NEW new \in Configs, NEW matched, Sighup(new, matched) PROVE Kids'
  BY <1>2, SighupKids
<1>3. CASE SighupIgnored \/ HupKills \/ \E new \in Configs : SighupCrashes(new)
  <2>1. /\ UNCHANGED <<services, child, flags, forgot>> /\ pc' # "forked"
    BY <1>3, WhenDelivered DEF SighupIgnored, HupKills, SighupCrashes, Interrupted, history, Typed, Copied
  <2>2. pc # "forked"
    BY <1>3, WhenDelivered DEF SighupIgnored, HupKills, SighupCrashes, Typed, Copied
  <2> QED
    BY <2>1, <2>2, KidsAlone
<1>4. CASE Copy \/ Select \/ Wake \/ Block \/ Skip \/ Unblock
  <2>1. UNCHANGED <<services, child, flags, forgot>> /\ pc # "forked" /\ pc' # "forked"
    BY <1>4 DEF Copy, Select, Wake, Block, Skip, Done, Unblock, history
  <2> QED
    BY <2>1, KidsAlone
<1>5. CASE ExecTcp \/ ExecUdpNowait \/ ExecUdpWait
  BY <1>5, ForkKids
<1>6. CASE Forked
  BY <1>6, ForkedKids
<1>7. ASSUME NEW p \in Pid, Exit(p) PROVE Kids'
  BY <1>7, ExitKids
<1>8. CASE Hup \/ (\E a \in Addresses : Arrive(a)) \/ (\E p \in Pid : Receive(p) \/ Stop(p))
  <2>1. UNCHANGED <<services, child, flags, forgot, pc, cur, newpid>>
    BY <1>8 DEF Hup, Arrive, Receive, Stop, loop, history
  <2> QED
    BY <2>1, KidsAlone
<1>9. CASE OnHup
  BY <1>2, <1>3, <1>9 DEF OnHup
<1>10. CASE Loop
  BY <1>4, <1>5, <1>6, <1>10 DEF Loop
<1>11. CASE Environment
  BY <1>7, <1>8, <1>11 DEF Environment
<1> QED
  BY <1>1, <1>9, <1>10, <1>11 DEF Next


-----------------------------------------------------------------------------
(* The loop's copy of the set *)

\* Steps that leave the daemon's loop where it is.
LEMMA CopiedAlone ==
  ASSUME Copied, UNCHANGED <<services, open, pc, rfdstmp, cur, stale>>,
         \A i \in DOMAIN services :
           services[i].fd \in rfdstmp /\ services[i].key.proto = "tcp"
             /\ work[Address(services[i].key)] > 0 => work'[Address(services[i].key)] > 0
  PROVE  Copied'
<1>1. Placed' /\ CopyIdle' /\ BadOnlyIfStale'
  BY DEF Copied, Placed, CopyIdle, BadOnlyIfStale
<1>2. CopyOpen' /\ CopyReady'
  BY DEF Copied, CopyOpen, CopyReady
<1> QED
  BY <1>1, <1>2 DEF Copied

\* The daemon has ended, or a handler has brought it back to the start.
LEMMA CopiedOver ==
  ASSUME pc' \in {"copy", "crashed", "killed"}, pc' = "copy" => cur' = 1
  PROVE  Copied'
BY DEF Copied, Placed, CopyIdle, CopyOpen, CopyReady, BadOnlyIfStale

\* A service whose descriptor is in the copy has its socket, open and on its port.
LEMMA InCopy ==
  ASSUME Typed, Socks, NEW i \in DOMAIN services, services[i].fd \in rfdstmp
  PROVE  /\ services[i].fd # NoFd /\ services[i].fd \in Fd /\ open[services[i].fd] = Address(services[i].key)
         /\ Address(services[i].key) \in Addresses
<1>1. services[i].fd \in Fd
  BY DEF Typed, LoopTypes
<1>2. services[i].fd # NoFd
  BY <1>1, FdAssumption DEF NoFd
<1>3. Address(services[i].key) \in Addresses
  BY ServiceTypes DEF Typed, Addresses
<1> QED
  BY <1>1, <1>2, <1>3 DEF Socks, SocketsMatch

LEMMA SignalCopied ==
  ASSUME Typed, Socks, Copied, Sigchld \/ OnHup
  PROVE  Copied'
<1> USE DEF Typed
<1>1. CASE Sigchld
  <2>1. /\ pc \in {"copy", "select", "waiting", "block"} /\ cur = 1 /\ Interrupted
        /\ UNCHANGED <<cur, open, work, stale>>
    BY <1>1, WhenDelivered DEF Sigchld, Copied, history
  <2>2. CASE pc \in {"waiting", "copy"}
    <3>1. pc' = "copy" /\ cur' = 1
      BY <2>1, <2>2 DEF Interrupted
    <3> QED
      BY <3>1, CopiedOver
  <2>3. CASE pc \in {"select", "block"}
    <3>1. pc' = pc /\ rfdstmp' = rfdstmp
      BY <2>1, <2>3 DEF Interrupted
    <3>2. /\ DOMAIN services' = DOMAIN services
          /\ \A i \in DOMAIN services :
               services'[i].key = services[i].key /\ services'[i].fd = services[i].fd
      BY <1>1, SigchldEffect
    <3>3. \A i \in DOMAIN services : services[i].pid = NoPid => services'[i].pid = NoPid
      BY <1>1, SigchldEffect
    <3>4. Placed' /\ BadOnlyIfStale'
      BY <2>1, <2>3, <3>1 DEF Placed, BadOnlyIfStale
    <3>5. CopyIdle'
      BY <2>1, <2>3, <3>1, <3>2, <3>3 DEF Copied, CopyIdle
    <3>6. CopyOpen' /\ CopyReady'
      BY <2>1, <2>3, <3>1, <3>2 DEF Copied, CopyOpen, CopyReady
    <3> QED
      BY <3>4, <3>5, <3>6 DEF Copied
  <2> QED
    BY <2>1, <2>2, <2>3
<1>2. ASSUME NEW new \in Configs, NEW matched, Sighup(new, matched) PROVE Copied'
  <2>1. /\ pc \in {"copy", "select", "waiting", "block"} /\ cur = 1 /\ Interrupted /\ cur' = cur
        /\ stale' = (stale \/ pc \in {"select", "block"})
    BY <1>2, WhenDelivered DEF Sighup, Copied
  <2>2. CASE pc \in {"waiting", "copy"}
    <3>1. pc' = "copy" /\ cur' = 1
      BY <2>1, <2>2 DEF Interrupted
    <3> QED
      BY <3>1, CopiedOver
  <2>3. CASE pc \in {"select", "block"}
    <3>1. pc' = pc
      BY <2>1, <2>3 DEF Interrupted
    <3>2. stale'
      BY <2>1, <2>3
    <3>3. \A i \in DOMAIN services' : services'[i].pid = NoPid
      BY <1>2, SighupSocks
    <3>4. Placed' /\ BadOnlyIfStale' /\ CopyIdle'
      BY <2>1, <2>3, <3>1, <3>3 DEF Placed, BadOnlyIfStale, CopyIdle
    <3>5. CopyOpen' /\ CopyReady'
      BY <3>2 DEF CopyOpen, CopyReady
    <3> QED
      BY <3>4, <3>5 DEF Copied
  <2> QED
    BY <2>1, <2>2, <2>3
<1>3. ASSUME NEW new \in Configs, SighupCrashes(new) PROVE Copied'
  BY <1>3, CopiedOver DEF SighupCrashes
<1>4. CASE HupKills
  BY <1>4, CopiedOver DEF HupKills
<1>5. CASE SighupIgnored
  <2>1. /\ pc \in {"copy", "select", "waiting", "block"} /\ cur = 1 /\ Interrupted
        /\ UNCHANGED <<cur, services, open, work, stale>>
    BY <1>5, WhenDelivered DEF SighupIgnored, Copied, history
  <2>2. CASE pc \in {"waiting", "copy"}
    <3>1. pc' = "copy" /\ cur' = 1
      BY <2>1, <2>2 DEF Interrupted
    <3> QED
      BY <3>1, CopiedOver
  <2>3. CASE pc \in {"select", "block"}
    <3>1. pc' = pc /\ rfdstmp' = rfdstmp
      BY <2>1, <2>3 DEF Interrupted
    <3> QED
      BY <2>1, <3>1, CopiedAlone
  <2> QED
    BY <2>1, <2>2, <2>3
<1> QED
  BY <1>1, <1>2, <1>3, <1>4, <1>5 DEF OnHup

\* The copy is made: what is in the set is open, and its services are idle.
LEMMA CopyCopied ==
  ASSUME Typed, Socks, Copied, Copy
  PROVE  Copied'
<1>1. pc = "copy" /\ pc' = "select" /\ rfdstmp' = rfds /\ UNCHANGED <<services, open, cur>>
  BY DEF Copy
<1>2. \A x \in rfds : \E j \in DOMAIN services : services[j].fd = x /\ services[j].fd # NoFd /\ services[j].pid = NoPid
  BY DEF Socks, RfdsMatch
<1>3. CopyIdle'
  <2> SUFFICES ASSUME NEW i \in DOMAIN services, services[i].fd \in rfds PROVE services[i].pid = NoPid
    BY <1>1 DEF CopyIdle
  <2>1. PICK j \in DOMAIN services : services[j].fd = services[i].fd /\ services[j].fd # NoFd /\ services[j].pid = NoPid
    BY <1>2
  <2> QED
    BY <2>1, OneService
<1>4. CopyOpen'
  <2>1. \A x \in rfds : open[x] # FreeFd
    BY <1>2, AddressTaken DEF Socks, SocketsMatch
  <2> QED
    BY <1>1, <2>1 DEF CopyOpen
<1>5. Placed' /\ CopyReady' /\ BadOnlyIfStale'
  BY <1>1 DEF Copied, Placed, CopyReady, BadOnlyIfStale
<1> QED
  BY <1>3, <1>4, <1>5 DEF Copied

\* select() has found something.
LEMMA FoundCopied ==
  ASSUME Typed, Socks, Copied, pc \in {"select", "waiting"}, pc' = "block", rfdstmp' = Readable(rfdstmp),
         UNCHANGED <<services, open, work, cur, stale>>
  PROVE  Copied'
<1>1. CopyIdle'
  BY DEF Copied, CopyIdle, Readable
<1>2. CopyReady'
  <2> SUFFICES ASSUME NEW i \in DOMAIN services, services[i].fd \in Readable(rfdstmp)
               PROVE  work[Address(services[i].key)] > 0
    BY DEF CopyReady
  <2>1. services[i].fd \in rfdstmp /\ work[open[services[i].fd]] > 0
    BY DEF Readable
  <2> QED
    BY <2>1, InCopy
<1>3. Placed' /\ CopyOpen' /\ BadOnlyIfStale'
  BY DEF Copied, Placed, CopyOpen, BadOnlyIfStale
<1> QED
  BY <1>1, <1>2, <1>3 DEF Copied

LEMMA SelectCopied ==
  ASSUME Typed, Socks, Copied, Select
  PROVE  Copied'
<1>1. pc = "select" /\ UNCHANGED <<services, open, work, cur, stale>>
  BY DEF Select, history
<1>2. CASE pc' = "ebadf" /\ \E fd \in rfdstmp : open[fd] = FreeFd
  <2>1. stale
    BY <1>1, <1>2 DEF Copied, CopyOpen
  <2> QED
    BY <1>1, <1>2, <2>1 DEF Copied, Placed, CopyIdle, CopyOpen, CopyReady, BadOnlyIfStale
<1>3. CASE pc' = "waiting" /\ UNCHANGED rfdstmp
  BY <1>1, <1>3 DEF Copied, Placed, CopyIdle, CopyOpen, CopyReady, BadOnlyIfStale
<1>4. CASE pc' = "block" /\ rfdstmp' = Readable(rfdstmp)
  BY <1>1, <1>4, FoundCopied
<1> QED
  BY <1>2, <1>3, <1>4 DEF Select

\* The loop goes on to the next service; nothing that is ready is used up but what
\* the service at hand has accepted.
LEMMA NextCopied ==
  ASSUME Typed, Socks, Copied, pc \in {"serve", "forked"}, pc' = "serve", cur' = cur + 1,
         UNCHANGED <<rfdstmp, stale>>, DOMAIN services' = DOMAIN services,
         \A i \in DOMAIN services :
           /\ services'[i].key = services[i].key /\ services'[i].fd = services[i].fd
           /\ i > cur => services'[i].pid = services[i].pid
           /\ i > cur /\ services[i].fd \in rfdstmp =>
                work'[Address(services[i].key)] = work[Address(services[i].key)]
  PROVE  Copied'
<1>1. cur \in Nat /\ \A i \in DOMAIN services : i \in Nat
  BY ServiceTypes DEF Typed, LoopTypes
<1>2. \A i \in DOMAIN services : i >= cur + 1 => i >= cur /\ i > cur
  BY <1>1
<1>3. CopyIdle'
  BY <1>2 DEF Copied, CopyIdle
<1>4. CopyReady'
  BY <1>2 DEF Copied, CopyReady
<1>5. Placed' /\ CopyOpen' /\ BadOnlyIfStale'
  BY DEF Placed, CopyOpen, BadOnlyIfStale
<1> QED
  BY <1>3, <1>4, <1>5 DEF Copied

LEMMA ServeCopied ==
  ASSUME Typed, Socks, Copied, Skip \/ ExecTcp \/ ExecUdpNowait \/ ExecUdpWait \/ Forked
  PROVE  Copied'
<1> USE DEF Typed
<1>1. CASE Skip
  <2>1. UNCHANGED <<services, open, work, stale>> /\ pc = "serve"
    BY <1>1 DEF Skip, history
  <2>2. CASE pc' = "crashed"
    BY <2>2, CopiedOver
  <2>3. CASE Done
    BY <2>1, <2>3, NextCopied DEF Done
  <2> QED
    BY <1>1, <2>2, <2>3 DEF Skip
<1>2. CASE ExecUdpNowait
  <2>1. UNCHANGED <<services, open, work, stale>> /\ pc = "serve" /\ Done
    BY <1>2 DEF ExecUdpNowait, Serving, history
  <2> QED
    BY <2>1, NextCopied DEF Done
<1>3. CASE ExecTcp
  <2>1. UNCHANGED <<services, stale>> /\ pc = "serve" /\ Done
    BY <1>3 DEF ExecTcp, Serving, history
  <2>2. PICK a : a = Address(services[cur].key)
    OBVIOUS
  <2>3. UNCHANGED work \/ work' = [work EXCEPT ![a] = work[a] - 1]
    <3>1. work \in [Addresses -> 0 .. MaxWork] /\ services[cur].key \in Keys
      BY <1>3, LoopForks DEF SystemTypes
    <3>2. a \in Addresses
      BY <2>2, <3>1 DEF Addresses
    <3> QED
      BY <1>3, <2>2, <3>1, <3>2 DEF ExecTcp
  <2>4. cur \in DOMAIN services /\ services[cur].fd \in rfdstmp /\ cur \in Nat
    BY <1>3, LoopForks DEF LoopTypes
  <2>5. ASSUME NEW i \in DOMAIN services, i > cur, services[i].fd \in rfdstmp
        PROVE  work'[Address(services[i].key)] = work[Address(services[i].key)]
    <3>1. i # cur
      BY <2>4, <2>5, ServiceTypes
    <3>2. /\ services[i].fd # NoFd /\ services[cur].fd # NoFd
          /\ Address(services[i].key) \in Addresses
      BY <2>4, <2>5, InCopy
    <3>3. Address(services[i].key) # a
      BY <2>2, <2>4, <3>1, <3>2 DEF Socks, OnePort
    <3>4. work \in [Addresses -> 0 .. MaxWork]
      BY DEF SystemTypes
    <3> QED
      BY <2>3, <3>2, <3>3, <3>4
  <2> QED
    BY <2>1, <2>5, NextCopied DEF Done
<1>4. CASE ExecUdpWait
  <2>1. /\ pc = "serve" /\ pc' = "forked" /\ UNCHANGED <<services, open, rfdstmp, cur, work, stale>>
        /\ services[cur].fd \in rfdstmp
    BY <1>4 DEF ExecUdpWait, Serving, history
  <2>2. cur \in DOMAIN services
    BY <1>4, LoopForks
  <2> QED
    BY <2>1, <2>2 DEF Copied, Placed, CopyIdle, CopyOpen, CopyReady, BadOnlyIfStale
<1>5. CASE Forked
  <2>1. /\ pc = "forked" /\ pc' = "serve" /\ cur' = cur + 1 /\ UNCHANGED <<rfdstmp, work, stale>>
        /\ services' = [services EXCEPT ![cur].pid = newpid]
    BY <1>5 DEF Forked, history
  <2>2. cur \in DOMAIN services /\ newpid \in Pid \union {NoPid}
    BY <2>1 DEF Copied, Placed, LoopTypes
  <2>3. /\ DOMAIN services' = DOMAIN services
        /\ \A i \in DOMAIN services :
             /\ services'[i].key = services[i].key /\ services'[i].fd = services[i].fd
             /\ services'[i].pid = IF i = cur THEN newpid ELSE services[i].pid
    BY <2>1, <2>2, OnePid
  <2>4. \A i \in DOMAIN services : i > cur => i # cur
    BY <2>2, ServiceTypes
  <2> QED
    BY <2>1, <2>3, <2>4, NextCopied
<1> QED
  BY <1>1, <1>2, <1>3, <1>4, <1>5

LEMMA LoopCopied ==
  ASSUME Typed, Socks, Copied, Loop
  PROVE  Copied'
<1>1. CASE Wake
  <2>1. /\ pc = "waiting" /\ pc' = "block" /\ rfdstmp' = Readable(rfdstmp)
        /\ UNCHANGED <<services, open, work, cur, stale>>
    BY <1>1 DEF Wake, history
  <2> QED
    BY <2>1, FoundCopied
<1>2. CASE Block
  <2>1. pc = "block" /\ pc' = "serve" /\ cur' = 1 /\ UNCHANGED <<services, open, work, rfdstmp, stale>>
    BY <1>2 DEF Block, history
  <2>2. cur = 1
    BY <2>1 DEF Copied, Placed
  <2> QED
    BY <2>1, <2>2 DEF Copied, Placed, CopyIdle, CopyOpen, CopyReady, BadOnlyIfStale
<1>3. CASE Unblock
  BY <1>3, CopiedOver DEF Unblock
<1> QED
  BY <1>1, <1>2, <1>3, CopyCopied, SelectCopied, ServeCopied DEF Loop

\* Only the daemon accepts connections, and only closed sockets lose them.
LEMMA EnvironmentCopied ==
  ASSUME Typed, Socks, Copied, Environment
  PROVE  Copied'
<1> USE DEF Typed
<1>1. UNCHANGED <<services, open, pc, rfdstmp, cur, stale>>
  BY DEF Environment, Hup, Arrive, Receive, Exit, Stop, loop, history
<1>2. /\ work \in [Addresses -> 0 .. MaxWork] /\ MaxWork \in Nat
      /\ \A a \in Addresses : work[a] \in Int
  BY BoundsAssumption DEF SystemTypes
<1> SUFFICES ASSUME NEW i \in DOMAIN services, services[i].fd \in rfdstmp, services[i].key.proto = "tcp",
                    work[Address(services[i].key)] > 0
             PROVE  work'[Address(services[i].key)] > 0
  BY <1>1, CopiedAlone
<1>3. PICK b \in Addresses : b = Address(services[i].key)
  BY InCopy
<1>4. work[b] > 0 /\ b[1] = "tcp" /\ \E fd \in Fd : open[fd] = b
  BY <1>3, InCopy DEF Address
<1>5. CASE Hup \/ \E p \in Pid : Stop(p)
  BY <1>3, <1>4, <1>5 DEF Hup, Stop
<1>6. ASSUME NEW a \in Addresses, Arrive(a) PROVE work'[b] > 0
  <2>1. PICK n \in Int : n = work[a]
    BY <1>2
  <2>2. work' = [work EXCEPT ![a] = n + 1]
    BY <1>2, <1>6, <2>1 DEF Arrive
  <2> QED
    BY <1>2, <1>4, <2>1, <2>2
<1>7. ASSUME NEW p \in Pid, Receive(p) PROVE work'[b] > 0
  <2>1. PICK a : a = Address(child[p].serves)
    OBVIOUS
  <2>2. a[1] = "udp" /\ work' = [work EXCEPT ![a] = 0]
    BY <1>7, <2>1 DEF Receive, Address
  <2> QED
    BY <1>2, <1>4, <2>2
<1>8. ASSUME NEW p \in Pid, Exit(p) PROVE work'[b] > 0
  <2>1. PICK c : work' = [a \in Addresses |-> IF Lives(open, c, a) THEN work[a] ELSE 0]
    BY <1>8 DEF Exit, WorkLeft
  <2> QED
    BY <1>4, <2>1 DEF Lives
<1> QED
  BY <1>3, <1>5, <1>6, <1>7, <1>8 DEF Environment

LEMMA StepCopied ==
  ASSUME Typed, Socks, Copied, Next
  PROVE  Copied'
BY SignalCopied, LoopCopied, EnvironmentCopied DEF Next


-----------------------------------------------------------------------------
(* The signals of the servers that have ended *)

LEMMA SignalledAlone ==
  ASSUME Signalled, Zombies' = Zombies, UNCHANGED coalesced, reset \subseteq reset',
         "CHLD" \in pending => "CHLD" \in pending'
  PROVE  Signalled'
BY DEF Signalled

LEMMA StepSignalled ==
  ASSUME Typed, Signalled, Next
  PROVE  Signalled'
<1> USE DEF Typed
<1>1. CASE Sigchld
  <2>1. UNCHANGED coalesced /\ reset \subseteq reset'
    BY <1>1 DEF Sigchld, Delivered, history
  <2>2. CASE coalesced \/ "CHLD" \in reset
    BY <2>1, <2>2 DEF Signalled
  <2>3. CASE UNCHANGED child /\ Zombies = {}
    BY <2>1, <2>3 DEF Signalled, Zombies
  <2>4. ASSUME ~ (coalesced \/ "CHLD" \in reset), NEW p \in Zombies, child'[p].state = "none",
               \A q \in Pid : q # p => child'[q] = child[q]
        PROVE  Signalled'
    <3>1. PICK r \in Pid : Zombies = {r}
      BY <2>4 DEF Signalled
    <3>2. Zombies' = {}
      BY <2>4, <3>1 DEF Zombies
    <3> QED
      BY <3>2 DEF Signalled
  <2> QED
    BY <1>1, <2>2, <2>3, <2>4, SigchldEffect
<1>2. CASE OnHup
  <2>1. UNCHANGED <<child, coalesced>>
    BY <1>2 DEF OnHup, SighupIgnored, HupKills, SighupCrashes, Sighup, history
  <2>2. Delivered("HUP")
    BY <1>2 DEF OnHup, SighupIgnored, HupKills, SighupCrashes, Sighup
  <2> QED
    BY <2>1, <2>2, SignalledAlone DEF Delivered, Zombies
<1>3. CASE Loop
  <2>1. UNCHANGED <<pending, reset, coalesced>>
    BY <1>3 DEF Loop, Copy, Select, Wake, Block, Skip, ExecTcp, ExecUdpNowait, ExecUdpWait, Forked,
                Unblock, history
  <2>2. Zombies' = Zombies
    <3>1. CASE UNCHANGED child
      BY <3>1 DEF Zombies
    <3>2. CASE ExecTcp \/ ExecUdpNowait \/ ExecUdpWait
      <4>1. UNCHANGED child \/ \E p \in FreePid : Fork(p, services[cur].key)
        BY <3>2, LoopForks
      <4>2. services[cur].key \in Key
        BY <3>2, LoopForks
      <4>3. ASSUME NEW p \in FreePid, Fork(p, services[cur].key) PROVE Zombies' = Zombies
        <5>1. /\ p \in Pid /\ child[p].state = "none" /\ child'[p].state = "running"
              /\ \A q \in Pid : q # p => child'[q] = child[q]
          BY <4>2, <4>3, ForkEffect
        <5> QED
          BY <5>1 DEF Zombies
      <4> QED
        BY <3>1, <4>1, <4>3
    <3>3. CASE Copy \/ Select \/ Wake \/ Block \/ Skip \/ Forked \/ Unblock
      <4>1. UNCHANGED child
        BY <3>3 DEF Copy, Select, Wake, Block, Skip, Forked, Unblock
      <4> QED
        BY <3>1, <4>1
    <3> QED
      BY <1>3, <3>2, <3>3 DEF Loop
  <2> QED
    BY <2>1, <2>2, SignalledAlone
<1>4. ASSUME NEW p \in Pid, Exit(p) PROVE Signalled'
  <2>1. /\ UNCHANGED reset /\ ("CHLD" \notin reset => "CHLD" \in pending')
        /\ coalesced' = (coalesced \/ "CHLD" \in pending)
    BY <1>4 DEF Exit
  <2>2. coalesced \/ "CHLD" \in pending => coalesced'
    BY <2>1, Zenon
  <2>3. /\ child'[p].state = IF "NOCLDWAIT" \in flags THEN "none" ELSE "zombie"
        /\ \A q \in Pid : q # p => child'[q] = child[q]
    BY <1>4, ExitEffect
  <2>4. ASSUME ~ (coalesced \/ "CHLD" \in pending), "CHLD" \notin reset PROVE Signalled'
    <3>1. Zombies = {}
      BY <2>4 DEF Signalled
    <3>2. Zombies' = {} \/ Zombies' = {p}
      BY <2>3, <3>1 DEF Zombies
    <3> QED
      BY <2>1, <2>4, <3>2 DEF Signalled
  <2> QED
    BY <2>1, <2>2, <2>4 DEF Signalled
<1>5. CASE Hup \/ (\E a \in Addresses : Arrive(a)) \/ (\E p \in Pid : Receive(p) \/ Stop(p))
  <2>1. UNCHANGED <<child, coalesced, reset>> /\ pending \subseteq pending'
    BY <1>5 DEF Hup, Arrive, Receive, Stop, history
  <2> QED
    BY <2>1, SignalledAlone DEF Zombies
<1>6. CASE Environment
  BY <1>4, <1>5, <1>6 DEF Environment
<1> QED
  BY <1>1, <1>2, <1>3, <1>6 DEF Next

-----------------------------------------------------------------------------
(* The theorems *)

LEMMA StepInv == Inv /\ [Next]_vars => Inv'
<1> SUFFICES ASSUME Inv, [Next]_vars PROVE Inv'
  OBVIOUS
<1>1. CASE Next
  BY <1>1, StepTyped, StepSocks, StepKids, StepCopied, StepSignalled DEF Inv
<1>2. CASE UNCHANGED vars
  <2>1. /\ UNCHANGED <<services, open, rfds, fdmax, pc, rfdstmp, cur, newpid>>
        /\ UNCHANGED <<pending, reset, flags, child, work, hups, stale, coalesced, forgot, overrun>>
    BY <1>2 DEF vars, loop, history
  <2>2. Typed'
    BY <2>1 DEF Inv, Typed, SocketTypes, LoopTypes, SystemTypes, HistoryTypes
  <2>3. Socks'
    BY <2>1, SocksAlone DEF Inv, Typed
  <2>4. Kids'
    BY <2>1, KidsAlone DEF Inv
  <2>5. Copied'
    BY <2>1, CopiedAlone DEF Inv
  <2>6. Signalled'
    BY <2>1, SignalledAlone DEF Inv, Zombies
  <2> QED
    BY <2>2, <2>3, <2>4, <2>5, <2>6 DEF Inv
<1> QED
  BY <1>1, <1>2

\* The inductive invariant: _inetd_do, _inetd_sigchld and _inetd_sighup keep the
\* services, their sockets, the set and its copy, and the servers in step.
THEOREM InetdInvAlways == Spec => []Inv
BY InitInv, StepInv, PTL DEF Spec

\* FD_CLR in the loop, FD_SET in _inetd_sigchld and _inetd_setup agree: select() is
\* given the sockets of the idle services, all below its bound.
THEOREM InetdRfdsMatch == Spec => []RfdsMatch
<1>1. Inv => RfdsMatch
  BY DEF Inv, Socks
<1> QED
  BY <1>1, InetdInvAlways, PTL

\* Every service that listens has its own socket on its own port, and no socket is
\* left without a service, through any number of reconfigurations.
THEOREM InetdServicesMatch == Spec => []ServicesMatch
<1>1. Inv => ServicesMatch
  <2> SUFFICES ASSUME Inv PROVE ServicesMatch
    OBVIOUS
  <2>1. /\ services \in Seq([key : Key, fd : Fd \union {NoFd}, pid : Pid \union {NoPid}])
        /\ open \in [Fd -> Addresses \union {FreeFd, Connection}]
    BY DEF Inv, Typed, SocketTypes, Service, Open
  <2>2. \A p \in Pid : /\ child[p].state \in {"none", "running", "zombie"}
                       /\ child[p].holds \subseteq Addresses
    BY DEF Inv, Typed, SystemTypes, Child
  <2>3. TypeOK
    BY <2>1, <2>2 DEF Inv, Typed, SocketTypes, LoopTypes, SystemTypes, HistoryTypes, TypeOK
  <2> QED
    BY <2>3 DEF Inv, Socks, ServicesMatch
<1> QED
  BY <1>1, InetdInvAlways, PTL

\* A service waits only for a server that is there to be reaped, and a server that
\* has ended has its SIGCHLD until two of them fall together.
THEOREM InetdChildrenAccounted == Spec => []ChildrenAccounted
<1>1. Inv => ChildrenAccounted
  <2> SUFFICES ASSUME Inv PROVE ChildrenAccounted
    OBVIOUS
  <2>1. \A p : Cardinality({p}) = 1
    BY FS_Singleton
  <2>2. ZombieIsSignalled
    BY <2>1 DEF Inv, Signalled, ZombieIsSignalled
  <2> QED
    BY <2>2 DEF Inv, Kids, ChildrenAccounted
<1> QED
  BY <1>1, InetdInvAlways, PTL

\* One server at a time for a "wait" service, until a SIGHUP forgets one.
THEOREM InetdWaitExclusive == Spec => []WaitExclusive
<1>1. Inv => WaitExclusive
  <2> SUFFICES ASSUME Inv, ~ forgot, NEW p \in Pid, NEW q \in Pid, Running(p), Running(q),
                      child[p].serves = child[q].serves, child[p].serves.proto = "wait"
               PROVE  p = q
    BY DEF WaitExclusive
  <2> DEFINE Knows(i, r) == i \in DOMAIN services /\ services[i].pid = r /\ services[i].key = child[r].serves
  <2> DEFINE Starts(r) == pc = "forked" /\ newpid = r /\ services[cur].key = child[r].serves
  <2>1. /\ Starts(p) \/ \E i \in DOMAIN services : Knows(i, p)
        /\ Starts(q) \/ \E i \in DOMAIN services : Knows(i, q)
    BY DEF Inv, Kids, Tracked
  <2>2. p # NoPid /\ q # NoPid
    BY FdAssumption DEF NoPid
  <2>3. ASSUME NEW i \in DOMAIN services, NEW r \in Pid, Knows(i, r) PROVE services[i].fd # NoFd
    <3>1. r # NoPid
      BY FdAssumption DEF NoPid
    <3> QED
      BY <2>3, <3>1 DEF Inv, Socks, BusyListens
  <2>4. CASE \E i, j \in DOMAIN services : Knows(i, p) /\ Knows(j, q)
    <3>1. PICK i \in DOMAIN services, j \in DOMAIN services : Knows(i, p) /\ Knows(j, q)
      BY <2>4
    <3>2. services[i].fd # NoFd /\ services[j].fd # NoFd
      BY <2>3, <3>1
    <3>3. i = j
      BY <3>1, <3>2 DEF Inv, Socks, OnePort
    <3> QED
      BY <3>1, <3>3
  <2>5. ASSUME NEW r \in Pid, NEW t \in Pid, Starts(r), NEW i \in DOMAIN services, Knows(i, t),
               child[r].serves = child[t].serves
        PROVE  FALSE
    <3>1. cur \in DOMAIN services /\ services[cur].fd \in rfdstmp /\ cur \in Nat
      BY <2>5 DEF Inv, Copied, Placed, Typed, LoopTypes
    <3>2. services[cur].fd # NoFd /\ services[i].fd # NoFd
      BY <2>3, <2>5, <3>1, InCopy DEF Inv
    <3>3. i = cur
      BY <2>5, <3>1, <3>2 DEF Inv, Socks, OnePort
    <3>4. cur >= cur
      BY <3>1
    <3>5. services[cur].pid = NoPid
      BY <2>5, <3>1, <3>4 DEF Inv, Copied, CopyIdle
    <3> QED
      BY <2>5, <3>3, <3>5, FdAssumption DEF NoPid
  <2>6. CASE Starts(p) /\ Starts(q)
    BY <2>6
  <2> HIDE DEF Knows, Starts
  <2> QED
    BY <2>1, <2>4, <2>5, <2>6
<1> QED
  BY <1>1, InetdInvAlways, PTL

\* The daemon fails in select() or sleeps in accept() only if a SIGHUP came between
\* the copy of the set and its use.
THEOREM InetdStopsOnlyIfStale == Spec => []StopsOnlyIfStale
<1>1. Inv => StopsOnlyIfStale
  <2> SUFFICES ASSUME Inv PROVE StopsOnlyIfStale
    OBVIOUS
  <2>1. NeverStuckInAccept
    <3> SUFFICES ASSUME pc = "serve", cur <= Len(services), services[cur].fd \in rfdstmp,
                        services[cur].key.proto = "tcp", ~ stale
                 PROVE  work[Address(services[cur].key)] > 0
      BY DEF NeverStuckInAccept
    <3>1. cur \in 1 .. Len(services) + 1 /\ Len(services) \in Nat /\ DOMAIN services = 1 .. Len(services)
      BY ServiceTypes DEF Inv, Typed, LoopTypes
    <3>2. cur \in DOMAIN services /\ cur >= cur
      BY <3>1
    <3> QED
      BY <3>2 DEF Inv, Copied, CopyReady
  <2> QED
    BY <2>1 DEF Inv, Copied, StopsOnlyIfStale
<1> QED
  BY <1>1, InetdInvAlways, PTL
================================================================================
