----------------------------- MODULE VFSProofs -----------------------------
(***************************************************************************)
(* Proofs about VFS, for any number of clients, descriptors and files.     *)
(*                                                                         *)
(* The properties of the table are not inductive by themselves.  A         *)
(* departing client frees the number of its connection: that number must   *)
(* not be one of a file, so connections are open as connections and no two *)
(* clients have the same one.  A call reaches its own address only if the  *)
(* files of an entry were all opened from there, by clients no newer than  *)
(* the one connected.                                                      *)
(***************************************************************************)
EXTENDS VFS, TLAPS

\* The connections are open as such, each for one client.
Connections ==
  /\ \A a \in Addr : sock[a] # NoFd => kind[sock[a]] = "socket"
  /\ \A a, b \in Addr : sock[a] # NoFd /\ sock[a] = sock[b] => a = b

\* The files of an entry were opened from its address.
OpenedHere ==
  \A a \in Addr : \A i \in DOMAIN files[a] :
    /\ opener[files[a][i].fd].addr = a
    /\ opener[files[a][i].fd].session \in 1 .. session[a]

\* The clients are numbered in the order of their arrival.
Numbered ==
  \A a \in Addr : session[a] <= sessions /\ (sock[a] # NoFd => session[a] # 0)

TableOK == RecordedIsOpen /\ RecordedOnce /\ (failed \/ (Connections /\ OpenedHere))

IInv == TypeOK /\ Numbered /\ TableOK /\ ReachesOwnAddress

-----------------------------------------------------------------------------

\* _client_remove_file moves the files after the one it removes down by one.
LEMMA WithoutFileMoves ==
  ASSUME NEW fs \in Seq(File), NEW fd, NEW k \in DOMAIN fs, IsFirst(fs, k, fd)
  PROVE  /\ WithoutFile(fs, fd) \in Seq(File)
         /\ Len(WithoutFile(fs, fd)) = Len(fs) - 1
         /\ \E i \in DOMAIN fs :
              /\ IsFirst(fs, i, fd)
              /\ \A j \in 1 .. Len(fs) - 1 :
                   WithoutFile(fs, fd)[j] = IF j < i THEN fs[j] ELSE fs[j + 1]
<1> DEFINE i == CHOOSE n \in DOMAIN fs : IsFirst(fs, n, fd)
           w == [j \in 1 .. Len(fs) - 1 |-> IF j < i THEN fs[j] ELSE fs[j + 1]]
<1>1. i \in DOMAIN fs /\ IsFirst(fs, i, fd)
  OBVIOUS
<1>2. WithoutFile(fs, fd) = w
  BY DEF WithoutFile
<1>3. Len(fs) \in Nat /\ DOMAIN fs = 1 .. Len(fs) /\ Len(fs) # 0
  BY <1>1
<1>4. i \in 1 .. Len(fs)
  BY <1>1, <1>3
<1> HIDE DEF i
<1>5. Len(fs) - 1 \in Nat
  BY <1>3
<1>6. \A j \in 1 .. Len(fs) - 1 : w[j] \in File
  <2> TAKE j \in 1 .. Len(fs) - 1
  <2>1. j \in DOMAIN fs /\ j + 1 \in DOMAIN fs
    BY <1>3
  <2> QED BY <2>1
<1>7. w \in Seq(File) /\ Len(w) = Len(fs) - 1
  BY <1>5, <1>6
<1> QED BY <1>1, <1>2, <1>7, <1>3

\* What a successful check means for the entry of the client.
LEMMA CheckFinds ==
  ASSUME TypeOK, NEW a \in Addr, NEW fd \in Fd, NEW dir \in BOOLEAN, Check(a, fd, dir)
  PROVE  \E i \in DOMAIN files[a] : IsFirst(files[a], i, fd) /\ files[a][i].dir = dir
  BY DEF Check

-----------------------------------------------------------------------------

\* The server starts with an empty table and no connection.
LEMMA InitInv == Init => IInv
<1> SUFFICES ASSUME Init PROVE IInv
  OBVIOUS
<1> USE FdAssumption, BoundsAssumption
<1>1. /\ kind = [fd \in Fd |-> "free"] /\ sock = [a \in Addr |-> NoFd]
      /\ sessions = 0 /\ session = [a \in Addr |-> 0]
      /\ opener = [fd \in Fd |-> Nobody]
  BY DEF Init
<1>2. clients = {} /\ files = [a \in Addr |-> <<>>] /\ reached = <<>>
  BY DEF Init
<1>3. failed = FALSE
  BY DEF Init
<1>4. TypeOK
  <2>1. /\ kind \in [Fd -> {"free", "socket", "file", "dir"}]
        /\ sock \in [Addr -> Fd \union {NoFd}]
        /\ sessions \in 0 .. MaxSessions /\ session \in [Addr -> 0 .. MaxSessions]
    BY <1>1
  <2>2. Nobody \in Who
    BY DEF Nobody, Who
  <2>3. opener \in [Fd -> Who]
    BY <1>1, <2>2
  <2>4. clients \subseteq Addr /\ files \in [Addr -> Seq(File)]
    BY <1>2
  <2>5. reached \in Who \X Who \union {<<>>}
    BY <1>2
  <2> QED BY <2>1, <2>3, <2>4, <2>5, <1>3 DEF TypeOK
<1>5. Numbered
  <2>1. \A a \in Addr : session[a] = 0 /\ sock[a] = NoFd
    BY <1>1
  <2>2. sessions = 0 /\ 0 <= 0
    BY <1>1
  <2>3. \A a \in Addr : session[a] <= sessions
    BY <2>1, <2>2, Zenon
  <2> QED BY <2>1, <2>3, Zenon DEF Numbered
<1>6. \A a \in Addr : DOMAIN files[a] = {}
  <2>1. \A a \in Addr : files[a] = <<>>
    BY <1>2
  <2>2. <<>> \in Seq(File) /\ Len(<<>>) = 0
    OBVIOUS
  <2>3. DOMAIN <<>> = 1 .. 0
    BY <2>2
  <2>4. 1 .. 0 = {}
    OBVIOUS
  <2> QED BY <2>1, <2>3, <2>4, Zenon
<1>7. RecordedIsOpen /\ RecordedOnce /\ OpenedHere
  BY <1>6 DEF RecordedIsOpen, RecordedOnce, OpenedHere
<1>8. Connections
  BY <1>1 DEF Connections
<1>9. ReachesOwnAddress
  BY <1>2 DEF ReachesOwnAddress
<1> QED BY <1>4, <1>5, <1>7, <1>8, <1>9 DEF IInv, TableOK

\* Every call keeps the types, the search of _client_remove_file included: it
\* finds what the check before it has found.
LEMMA TypeStep == TypeOK /\ Numbered /\ [Next]_vars => TypeOK'
<1> SUFFICES ASSUME TypeOK, Numbered, [Next]_vars PROVE TypeOK'
  OBVIOUS
<1> USE FdAssumption, BoundsAssumption
<1>0. \A a \in Addr : Me(a) \in Who
  BY DEF TypeOK, Me, Who
<1>1. CASE UNCHANGED vars
  BY <1>1 DEF TypeOK, vars
<1>2. ASSUME NEW a \in Addr, Disconnect(a) PROVE TypeOK'
  BY <1>2 DEF TypeOK, Disconnect, Calls
<1>3. ASSUME NEW a \in Addr, Umask(a) PROVE TypeOK'
  BY <1>3 DEF TypeOK, Umask, AddClient
<1>4. ASSUME NEW a \in Addr, NEW fd \in Fd, Connect(a, fd) PROVE TypeOK'
  BY <1>4 DEF TypeOK, Connect
<1>5. ASSUME NEW a \in Addr, NEW fd \in Fd, OpenRefused(a, fd) PROVE TypeOK'
  BY <1>5 DEF TypeOK, OpenRefused, AddClient
<1>6. ASSUME NEW a \in Addr, NEW fd \in Fd, NEW dir \in BOOLEAN, Open(a, fd, dir)
      PROVE  TypeOK'
  <2>1. [fd |-> fd, dir |-> dir] \in File
    BY DEF File
  <2>2. files' \in [Addr -> Seq(File)]
    BY <1>6, <2>1 DEF TypeOK, Open
  <2>3. opener' \in [Fd -> Who]
    BY <1>6, <1>0 DEF TypeOK, Open
  <2> QED BY <1>6, <2>2, <2>3 DEF TypeOK, Open, AddClient, KindOf
<1>7. ASSUME NEW a \in Addr, NEW fd \in Fd, NEW dir \in BOOLEAN, Close(a, fd, dir)
      PROVE  TypeOK'
  <2>1. PICK k \in DOMAIN files[a] : IsFirst(files[a], k, fd)
    BY <1>7, CheckFinds DEF Close
  <2>2. WithoutFile(files[a], fd) \in Seq(File)
    BY <2>1, WithoutFileMoves DEF TypeOK
  <2>3. reached' \in Who \X Who
    BY <1>7, <1>0 DEF TypeOK, Close
  <2> QED BY <1>7, <2>2, <2>3 DEF TypeOK, Close
<1>8. ASSUME NEW a \in Addr, NEW fd \in Fd, NEW dir \in BOOLEAN, CloseFails(a, fd, dir)
      PROVE  TypeOK'
  BY <1>8, <1>0 DEF TypeOK, CloseFails
<1>9. ASSUME NEW a \in Addr, NEW fd \in Fd, NEW dir \in BOOLEAN, Use(a, fd, dir)
      PROVE  TypeOK'
  BY <1>9, <1>0 DEF TypeOK, Use
<1> QED BY <1>1, <1>2, <1>3, <1>4, <1>5, <1>6, <1>7, <1>8, <1>9 DEF Next

\* A client gets a number above all the others when it connects.
LEMMA NumberedStep == TypeOK /\ Numbered /\ [Next]_vars => Numbered'
<1> SUFFICES ASSUME TypeOK, Numbered, [Next]_vars PROVE Numbered'
  OBVIOUS
<1>1. ASSUME NEW a \in Addr, NEW fd \in Fd, Connect(a, fd) PROVE Numbered'
  BY <1>1 DEF TypeOK, Numbered, Connect
<1>2. ASSUME NEW a \in Addr, Disconnect(a) PROVE Numbered'
  BY <1>2 DEF TypeOK, Numbered, Disconnect
<1>3. ASSUME UNCHANGED <<sock, session, sessions>> PROVE Numbered'
  BY <1>3 DEF Numbered
<1> QED BY <1>1, <1>2, <1>3
     DEF Next, vars, Umask, OpenRefused, Open, Close, CloseFails, Use

\* What is recorded is in use.
LEMMA RecordedNotFree ==
  ASSUME TypeOK, TableOK, ~failed, NEW b \in Addr, NEW i \in DOMAIN files[b]
  PROVE  /\ files[b][i].fd \in Fd
         /\ kind[files[b][i].fd] = KindOf(files[b][i].dir)
         /\ kind[files[b][i].fd] \in {"file", "dir"}
<1>1. files[b][i] \in File
  BY DEF TypeOK
<1>2. kind[files[b][i].fd] = KindOf(files[b][i].dir)
  BY DEF TableOK, RecordedIsOpen
<1> QED BY <1>1, <1>2 DEF File, KindOf

\* Nothing undoes a close() that has failed.
LEMMA FailedStays == [Next]_vars => (failed => failed')
<1> SUFFICES ASSUME [Next]_vars PROVE failed => failed'
  OBVIOUS
<1>1. CASE UNCHANGED vars
  BY <1>1 DEF vars
<1>2. CASE Next
  <2>1. \A a \in Addr : Disconnect(a) \/ Umask(a) => failed' = failed
    BY DEF Disconnect, Umask
  <2>2. \A a \in Addr, fd \in Fd : Connect(a, fd) \/ OpenRefused(a, fd) => failed' = failed
    BY DEF Connect, OpenRefused
  <2>3. \A a \in Addr, fd \in Fd, dir \in BOOLEAN :
          Open(a, fd, dir) \/ Close(a, fd, dir) \/ Use(a, fd, dir) => failed' = failed
    BY DEF Open, Close, Use
  <2>4. \A a \in Addr, fd \in Fd, dir \in BOOLEAN : CloseFails(a, fd, dir) => failed' = TRUE
    BY DEF CloseFails
  <2>5. failed' = failed \/ failed' = TRUE
    BY <1>2, <2>1, <2>2, <2>3, <2>4 DEF Next
  <2> QED BY <2>5
<1> QED BY <1>1, <1>2

\* The table stays right, step by step.  A new descriptor was free, so it is
\* that of no file; a departing client frees the number of its connection, which
\* is no file's; a close frees the number of the one record it removes.
LEMMA TableStep == IInv /\ [Next]_vars => TableOK'
<1> SUFFICES ASSUME IInv, [Next]_vars PROVE TableOK'
  OBVIOUS
<1> USE FdAssumption DEF IInv
<1>1. ASSUME UNCHANGED <<kind, sock, files, session, opener, failed>> PROVE TableOK'
  BY <1>1 DEF TableOK, RecordedIsOpen, RecordedOnce, Connections, OpenedHere
<1>2. CASE failed'
  BY <1>2 DEF TableOK, RecordedIsOpen, RecordedOnce
<1>3. ASSUME ~failed, ~failed', NEW a \in Addr, NEW fd \in Fd, Connect(a, fd)
      PROVE  TableOK'
  <2>0. kind[fd] = "free"
    BY <1>3 DEF Connect, Lowest
  <2>1. \A b \in Addr : \A i \in DOMAIN files[b] : files[b][i].fd \in Fd /\ files[b][i].fd # fd
    BY <1>3, <2>0, RecordedNotFree
  <2>2. RecordedIsOpen' /\ RecordedOnce'
    BY <1>3, <2>1 DEF TypeOK, Connect, TableOK, RecordedIsOpen, RecordedOnce
  <2>3. Connections'
    BY <1>3 DEF TypeOK, Connect, Lowest, Calls, TableOK, Connections
  <2>4. \A b \in Addr : session[b] \in Nat /\ session'[b] \in Nat /\ session[b] <= session'[b]
    BY <1>3, BoundsAssumption DEF TypeOK, Numbered, Connect
  <2>5. OpenedHere'
    BY <1>3, <2>4 DEF TypeOK, Connect, TableOK, OpenedHere
  <2> QED BY <2>2, <2>3, <2>5 DEF TableOK
<1>4. ASSUME ~failed, ~failed', NEW a \in Addr, Disconnect(a) PROVE TableOK'
  <2>1. sock[a] \in Fd /\ kind[sock[a]] = "socket"
    BY <1>4 DEF TypeOK, Disconnect, Calls, TableOK, Connections
  <2>2. RecordedIsOpen' /\ RecordedOnce'
    BY <1>4, <2>1 DEF TypeOK, Disconnect, TableOK, RecordedIsOpen, RecordedOnce, KindOf, File
  <2>3. Connections'
    BY <1>4, <2>1 DEF TypeOK, Disconnect, TableOK, Connections
  <2>4. OpenedHere'
    BY <1>4 DEF Disconnect, TableOK, OpenedHere
  <2> QED BY <2>2, <2>3, <2>4 DEF TableOK
<1>5. ASSUME ~failed, ~failed', NEW a \in Addr, NEW fd \in Fd, NEW dir \in BOOLEAN,
             Open(a, fd, dir)
      PROVE  TableOK'
  <2> DEFINE n == Len(files[a]) + 1
  <2>1. \A b \in Addr : \A i \in DOMAIN files[b] :
          /\ files[b][i].fd \in Fd /\ files[b][i].fd # fd
          /\ kind[files[b][i].fd] = KindOf(files[b][i].dir)
    <3>1. kind[fd] = "free"
      BY <1>5 DEF Open, Lowest
    <3> QED BY <1>5, <3>1, RecordedNotFree
  <2>2. /\ files'[a] = Append(files[a], [fd |-> fd, dir |-> dir])
        /\ \A b \in Addr : b # a => files'[b] = files[b]
        /\ files[a] \in Seq(File)
    BY <1>5 DEF TypeOK, Open
  <2>3. /\ DOMAIN files[a] = 1 .. n - 1 /\ DOMAIN files'[a] = 1 .. n /\ n \in Nat \ {0}
        /\ files'[a][n] = [fd |-> fd, dir |-> dir]
        /\ \A i \in 1 .. n - 1 : files'[a][i] = files[a][i]
    BY <2>2
  <2> HIDE DEF n
  <2>4. \A b \in Addr : \A i \in DOMAIN files'[b] :
          \/ b = a /\ i = n /\ files'[b][i] = [fd |-> fd, dir |-> dir]
          \/ i \in DOMAIN files[b] /\ files'[b][i] = files[b][i]
    BY <2>2, <2>3
  <2>5. RecordedIsOpen'
    BY <1>5, <2>1, <2>4 DEF TypeOK, Open, RecordedIsOpen
  <2>6. RecordedOnce'
    <3>1. \A b, c \in Addr : \A i \in DOMAIN files[b], j \in DOMAIN files[c] :
            files[b][i].fd = files[c][j].fd => b = c /\ i = j
      BY <1>5 DEF TableOK, RecordedOnce
    <3>2. SUFFICES ASSUME NEW b \in Addr, NEW c \in Addr, NEW i \in DOMAIN files'[b],
                          NEW j \in DOMAIN files'[c], files'[b][i].fd = files'[c][j].fd
                   PROVE  b = c /\ i = j
      BY DEF RecordedOnce
    <3>3. [fd |-> fd, dir |-> dir].fd = fd
      OBVIOUS
    <3>4. CASE b = a /\ i = n /\ files'[b][i] = [fd |-> fd, dir |-> dir]
      BY <3>2, <3>3, <3>4, <2>1, <2>4
    <3>5. CASE i \in DOMAIN files[b] /\ files'[b][i] = files[b][i]
      BY <3>1, <3>2, <3>3, <3>5, <2>1, <2>4
    <3> QED BY <3>4, <3>5, <2>4
  <2>7. Connections'
    BY <1>5 DEF TypeOK, Open, Lowest, TableOK, Connections
  <2>8. session[a] \in 1 .. session[a]
    BY <1>5, BoundsAssumption DEF TypeOK, Numbered, Open, Calls
  <2>9. opener' = [opener EXCEPT ![fd] = [addr |-> a, session |-> session[a]]]
        /\ session' = session
    BY <1>5 DEF Open, Me
  <2>10. OpenedHere'
    <3>1. SUFFICES ASSUME NEW b \in Addr, NEW i \in DOMAIN files'[b]
                   PROVE  /\ opener'[files'[b][i].fd].addr = b
                          /\ opener'[files'[b][i].fd].session \in 1 .. session'[b]
      BY DEF OpenedHere
    <3>2. opener'[fd] = [addr |-> a, session |-> session[a]]
      BY <2>9 DEF TypeOK
    <3>3. CASE b = a /\ i = n /\ files'[b][i] = [fd |-> fd, dir |-> dir]
      BY <3>2, <3>3, <2>8, <2>9
    <3>4. CASE i \in DOMAIN files[b] /\ files'[b][i] = files[b][i]
      <4>1. files[b][i].fd # fd
        BY <3>4, <2>1
      <4>2. opener'[files[b][i].fd] = opener[files[b][i].fd]
        BY <4>1, <2>1, <2>9, <3>4 DEF TypeOK
      <4> QED BY <1>5, <3>4, <4>2, <2>9 DEF TableOK, OpenedHere
    <3> QED BY <3>3, <3>4, <2>4
  <2> QED BY <2>5, <2>6, <2>7, <2>10 DEF TableOK
<1>6. ASSUME ~failed, ~failed', NEW a \in Addr, NEW fd \in Fd, NEW dir \in BOOLEAN,
             Close(a, fd, dir)
      PROVE  TableOK'
  <2>1. PICK k \in DOMAIN files[a] : IsFirst(files[a], k, fd) /\ files[a][k].dir = dir
    BY <1>6, CheckFinds DEF Close
  <2>2. files[a] \in Seq(File)
    BY DEF TypeOK
  <2>3. PICK r \in DOMAIN files[a] :
          /\ IsFirst(files[a], r, fd)
          /\ \A j \in 1 .. Len(files[a]) - 1 :
               WithoutFile(files[a], fd)[j] = IF j < r THEN files[a][j] ELSE files[a][j + 1]
    BY <2>1, <2>2, WithoutFileMoves
  <2>4. /\ files'[a] = WithoutFile(files[a], fd)
        /\ \A b \in Addr : b # a => files'[b] = files[b]
        /\ kind' = [kind EXCEPT ![fd] = "free"]
        /\ UNCHANGED <<sock, session, opener>>
    BY <1>6 DEF TypeOK, Close
  <2>5. Len(files[a]) \in Nat \ {0} /\ DOMAIN files[a] = 1 .. Len(files[a])
        /\ DOMAIN files'[a] = 1 .. Len(files[a]) - 1
    BY <2>1, <2>2, <2>4, WithoutFileMoves
  <2> DEFINE from(b, j) == IF b = a /\ j >= r THEN j + 1 ELSE j
  <2>6. \A b \in Addr : \A j \in DOMAIN files'[b] :
          /\ from(b, j) \in DOMAIN files[b]
          /\ files'[b][j] = files[b][from(b, j)]
          /\ b = a => from(b, j) # r
    <3>1. \A j \in DOMAIN files'[a] :
            /\ from(a, j) \in DOMAIN files[a]
            /\ files'[a][j] = files[a][from(a, j)]
            /\ from(a, j) # r
      BY <2>3, <2>4, <2>5
    <3> QED BY <3>1, <2>4
  <2>7. files[a][r].fd = fd
    BY <2>3 DEF IsFirst
  <2>8. \A b \in Addr : \A j \in DOMAIN files'[b] :
          files'[b][j].fd # fd /\ files'[b][j].fd \in Fd
    <3>1. \A b \in Addr : \A j \in DOMAIN files'[b] : files'[b][j].fd \in Fd
      BY <1>6, <2>6, RecordedNotFree
    <3>2. \A b \in Addr : \A i \in DOMAIN files[b] :
            files[b][i].fd = fd => b = a /\ i = r
      BY <1>6, <2>3, <2>7 DEF TableOK, RecordedOnce
    <3> QED BY <3>1, <3>2, <2>6
  <2>9. RecordedIsOpen'
    <3>1. \A b \in Addr : \A j \in DOMAIN files'[b] :
            kind[files'[b][j].fd] = KindOf(files'[b][j].dir)
      BY <1>6, <2>6 DEF TableOK, RecordedIsOpen
    <3> QED BY <3>1, <2>4, <2>8 DEF RecordedIsOpen, TypeOK
  <2>10. \A j, m \in DOMAIN files'[a] : from(a, j) = from(a, m) => j = m
    BY <2>5, <2>3
  <2>11. \A b \in Addr : \A j, m \in DOMAIN files'[b] : from(b, j) = from(b, m) => j = m
    BY <2>10
  <2> HIDE DEF from
  <2>12. RecordedOnce'
    BY <1>6, <2>6, <2>11 DEF TableOK, RecordedOnce
  <2>13. kind[fd] # "socket"
    BY <1>6, <2>1 DEF TableOK, RecordedIsOpen, KindOf, IsFirst
  <2>14. Connections'
    BY <1>6, <2>4, <2>13 DEF TypeOK, TableOK, Connections
  <2>15. OpenedHere'
    BY <1>6, <2>4, <2>6 DEF TableOK, OpenedHere
  <2> QED BY <2>9, <2>12, <2>14, <2>15 DEF TableOK
<1>7. failed => failed'
  BY FailedStays
<1> QED
  BY <1>1, <1>2, <1>3, <1>4, <1>5, <1>6, <1>7
  DEF Next, vars, Umask, OpenRefused, Use, CloseFails

\* A call reaches what its own address has opened.
LEMMA ReachStep == IInv /\ [Next]_vars => ReachesOwnAddress'
<1> SUFFICES ASSUME IInv, [Next]_vars PROVE ReachesOwnAddress'
  OBVIOUS
<1> USE DEF IInv
<1>1. ASSUME UNCHANGED <<failed, reached>> PROVE ReachesOwnAddress'
  BY <1>1 DEF ReachesOwnAddress
<1>2. ASSUME failed' PROVE ReachesOwnAddress'
  BY <1>2 DEF ReachesOwnAddress
<1>3. ASSUME ~failed, NEW a \in Addr, NEW fd \in Fd, NEW dir \in BOOLEAN,
             Check(a, fd, dir), reached' = <<Me(a), opener[fd]>>
      PROVE  ReachesOwnAddress'
  <2>1. PICK i \in DOMAIN files[a] : IsFirst(files[a], i, fd)
    BY <1>3, CheckFinds
  <2>2. opener[fd].addr = a /\ opener[fd].session \in 1 .. session[a]
    BY <1>3, <2>1 DEF IsFirst, TableOK, OpenedHere
  <2>3. session[a] \in Nat
    BY BoundsAssumption DEF TypeOK
  <2>4. reached'[1] = Me(a) /\ reached'[2] = opener[fd]
    BY <1>3
  <2>5. Me(a).addr = a /\ Me(a).session = session[a]
    BY DEF Me
  <2>6. reached'[1].addr = reached'[2].addr
    BY <2>2, <2>4, <2>5
  <2>7. reached'[2].session # 0 /\ reached'[2].session <= reached'[1].session
    BY <2>2, <2>3, <2>4, <2>5
  <2> QED BY <2>6, <2>7 DEF ReachesOwnAddress
<1>4. ASSUME NEW a \in Addr, NEW fd \in Fd, NEW dir \in BOOLEAN, Close(a, fd, dir)
      PROVE  ReachesOwnAddress'
  <2>1. failed' = failed /\ Check(a, fd, dir) /\ reached' = <<Me(a), opener[fd]>>
    BY <1>4 DEF Close
  <2>2. CASE failed
    BY <1>2, <2>1, <2>2
  <2> QED BY <1>3, <2>1, <2>2
<1>5. ASSUME NEW a \in Addr, NEW fd \in Fd, NEW dir \in BOOLEAN, Use(a, fd, dir)
      PROVE  ReachesOwnAddress'
  <2>1. failed' = failed /\ Check(a, fd, dir) /\ reached' = <<Me(a), opener[fd]>>
    BY <1>5 DEF Use
  <2>2. CASE failed
    BY <1>2, <2>1, <2>2
  <2> QED BY <1>3, <2>1, <2>2
<1> QED
  BY <1>1, <1>2, <1>4, <1>5
  DEF Next, vars, Disconnect, Umask, Connect, OpenRefused, Open, CloseFails

\* What is open is recorded, step by step: a close removes the record of the
\* descriptor it frees and keeps every other one.
LEMMA OpenStep == IInv /\ OpenIsRecorded /\ [Next]_vars => OpenIsRecorded'
<1> SUFFICES ASSUME IInv, OpenIsRecorded, [Next]_vars PROVE OpenIsRecorded'
  OBVIOUS
<1> USE DEF IInv
<1>1. ASSUME UNCHANGED <<kind, files, failed>> PROVE OpenIsRecorded'
  BY <1>1 DEF OpenIsRecorded
<1>2. ASSUME failed' PROVE OpenIsRecorded'
  BY <1>2 DEF OpenIsRecorded
<1>3. ASSUME NEW a \in Addr, NEW fd \in Fd, Connect(a, fd) PROVE OpenIsRecorded'
  BY <1>3 DEF TypeOK, Connect, OpenIsRecorded
<1>4. ASSUME NEW a \in Addr, Disconnect(a) PROVE OpenIsRecorded'
  <2>1. sock[a] \in Fd
    BY <1>4 DEF TypeOK, Disconnect, Calls
  <2> QED BY <1>4, <2>1 DEF TypeOK, Disconnect, OpenIsRecorded
<1>5. ASSUME ~failed, ~failed', NEW a \in Addr, NEW fd \in Fd, NEW dir \in BOOLEAN,
             Open(a, fd, dir)
      PROVE  OpenIsRecorded'
  <2>1. files[a] \in Seq(File) /\ files'[a] = Append(files[a], [fd |-> fd, dir |-> dir])
        /\ \A b \in Addr : b # a => files'[b] = files[b]
    BY <1>5 DEF TypeOK, Open
  <2> DEFINE n == Len(files[a]) + 1
  <2>2. n \in DOMAIN files'[a] /\ files'[a][n] = [fd |-> fd, dir |-> dir]
    BY <2>1
  <2>3. \A b \in Addr : \A i \in DOMAIN files[b] :
          i \in DOMAIN files'[b] /\ files'[b][i] = files[b][i]
    BY <2>1
  <2> HIDE DEF n
  <2>4. files'[a][n].fd = fd
    BY <2>2
  <2>5. ASSUME NEW g \in Fd, kind'[g] \in {"file", "dir"}, g # fd
        PROVE  \E b \in Addr : \E i \in DOMAIN files'[b] : files'[b][i].fd = g
    <3>1. kind[g] \in {"file", "dir"}
      BY <1>5, <2>5 DEF TypeOK, Open
    <3>2. PICK b \in Addr : \E i \in DOMAIN files[b] : files[b][i].fd = g
      BY <1>5, <3>1 DEF OpenIsRecorded
    <3> QED BY <3>2, <2>3
  <2> QED BY <2>2, <2>4, <2>5 DEF OpenIsRecorded
<1>6. ASSUME ~failed, ~failed', NEW a \in Addr, NEW fd \in Fd, NEW dir \in BOOLEAN,
             Close(a, fd, dir)
      PROVE  OpenIsRecorded'
  <2>1. PICK k \in DOMAIN files[a] : IsFirst(files[a], k, fd)
    BY <1>6, CheckFinds DEF Close
  <2>2. files[a] \in Seq(File)
    BY DEF TypeOK
  <2>3. PICK r \in DOMAIN files[a] :
          /\ IsFirst(files[a], r, fd)
          /\ \A j \in 1 .. Len(files[a]) - 1 :
               WithoutFile(files[a], fd)[j] = IF j < r THEN files[a][j] ELSE files[a][j + 1]
    BY <2>1, <2>2, WithoutFileMoves
  <2>4. /\ files'[a] = WithoutFile(files[a], fd)
        /\ \A b \in Addr : b # a => files'[b] = files[b]
        /\ kind' = [kind EXCEPT ![fd] = "free"]
    BY <1>6 DEF TypeOK, Close
  <2>5. Len(files[a]) \in Nat \ {0} /\ DOMAIN files[a] = 1 .. Len(files[a])
        /\ DOMAIN files'[a] = 1 .. Len(files[a]) - 1
    BY <2>1, <2>2, <2>4, WithoutFileMoves
  <2>6. ASSUME NEW g \in Fd, kind'[g] \in {"file", "dir"}
        PROVE  \E b \in Addr : \E i \in DOMAIN files'[b] : files'[b][i].fd = g
    <3>1. g # fd /\ kind[g] \in {"file", "dir"}
      BY <2>4, <2>6 DEF TypeOK
    <3>2. PICK b \in Addr : \E i \in DOMAIN files[b] : files[b][i].fd = g
      BY <1>6, <3>1 DEF OpenIsRecorded
    <3>3. CASE b # a
      BY <3>2, <3>3, <2>4
    <3>4. CASE b = a
      <4>0. PICK i \in DOMAIN files[a] : files[a][i].fd = g
        BY <3>2, <3>4
      <4>1. i # r
        BY <3>1, <4>0, <2>3 DEF IsFirst
      <4>2. CASE i < r
        <5>1. i \in DOMAIN files'[a] /\ files'[a][i] = files[a][i]
          BY <4>2, <4>0, <2>3, <2>4, <2>5
        <5> QED BY <5>1, <4>0, <3>4
      <4>3. CASE r < i
        <5>1. i - 1 \in DOMAIN files'[a] /\ files'[a][i - 1] = files[a][i]
          BY <4>3, <4>0, <2>3, <2>4, <2>5
        <5> QED BY <5>1, <4>0, <3>4
      <4> QED BY <4>0, <4>1, <4>2, <4>3, <2>3, <2>5
    <3> QED BY <3>3, <3>4
  <2> QED BY <2>6 DEF OpenIsRecorded
<1>7. failed => failed'
  BY FailedStays
<1> QED
  BY <1>1, <1>2, <1>3, <1>4, <1>5, <1>6, <1>7
  DEF Next, vars, Umask, OpenRefused, Use, CloseFails

-----------------------------------------------------------------------------

\* IInv is an invariant of the server.
THEOREM Inductive == Spec => []IInv
<1>1. IInv /\ [Next]_vars => IInv'
  BY TypeStep, NumberedStep, TableStep, ReachStep DEF IInv
<1> QED BY InitInv, <1>1, PTL DEF Spec

\* The state of the server is always well formed (vfs.c, the table of clients).
THEOREM TypeCorrect == Spec => []TypeOK
<1>1. IInv => TypeOK
  BY DEF IInv
<1> QED BY Inductive, <1>1, PTL

\* For any number of clients and descriptors, what the table records is open and
\* is what the table says (VFS_open, VFS_close, _client_remove_file).
THEOREM RecordedIsOpenAlways == Spec => []RecordedIsOpen
<1>1. IInv => RecordedIsOpen
  BY DEF IInv, TableOK
<1> QED BY Inductive, <1>1, PTL

\* No descriptor is recorded twice (_client_add_file, _client_remove_file).
THEOREM RecordedOnceAlways == Spec => []RecordedOnce
<1>1. IInv => RecordedOnce
  BY DEF IInv, TableOK
<1> QED BY Inductive, <1>1, PTL

\* No client reaches the descriptors of another address (_client_check).
THEOREM ReachesOwnAddressAlways == Spec => []ReachesOwnAddress
<1>1. IInv => ReachesOwnAddress
  BY DEF IInv
<1> QED BY Inductive, <1>1, PTL

\* No descriptor is left open without a record (VFS_open, VFS_opendir).
THEOREM OpenIsRecordedAlways == Spec => []OpenIsRecorded
<1>1. Init => OpenIsRecorded
  <2>1. Init => \A fd \in Fd : kind[fd] = "free"
    BY DEF Init
  <2> QED BY <2>1 DEF OpenIsRecorded
<1>2. IInv /\ OpenIsRecorded /\ [Next]_vars => OpenIsRecorded'
  BY OpenStep
<1> QED BY Inductive, <1>1, <1>2, PTL DEF Spec
====
