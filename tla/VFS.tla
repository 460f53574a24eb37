-------------------------------- MODULE VFS --------------------------------
(***************************************************************************)
(* The VFS server (VFS/src/vfs.c): the files that its clients have open.   *)
(*                                                                         *)
(* The server keeps a table of clients, each with its umask (whose value   *)
(* is left out) and the descriptors it has opened, and finds the client of *)
(* a call by the address of its AppServerClient.  The table is filled by   *)
(* the calls and nothing tells the server that a client is gone, so an     *)
(* entry outlives its client and is found again by the next client that    *)
(* the allocator puts at the same address.  The descriptors are those of   *)
(* the process: connections, files and directories get the lowest number   *)
(* that is free.                                                           *)
(*                                                                         *)
(* The server runs one call at a time, from the event loop of AppServer:   *)
(* an action is a call of a client, or its arrival or departure.           *)
(***************************************************************************)
EXTENDS Naturals, Sequences

CONSTANTS
  Addr,         \* the addresses an AppServerClient may have
  Fd,           \* the descriptors of the process
  NoFd,         \* the address is not in use
  MaxSessions,  \* bound: clients in one behaviour
  MaxFiles      \* bound: files of an entry

ASSUME FdAssumption == Fd \subseteq Nat /\ NoFd \notin Fd
ASSUME BoundsAssumption == MaxSessions \in Nat /\ MaxFiles \in Nat

VARIABLES
  kind,      \* what each descriptor is: the descriptor table of the process
  sock,      \* the connection of the client at each address
  clients,   \* the addresses that have an entry in _clients
  files,     \* the files of each entry, in order
  sessions,  \* history: how many clients have connected
  session,   \* history: which client is, or was last, at each address
  opener,    \* history: who opened each descriptor
  failed,    \* history: close() has failed and released the descriptor
  reached    \* history: the last call on a descriptor, and who had opened it

vars == <<kind, sock, clients, files, sessions, session, opener, failed,
          reached>>

-----------------------------------------------------------------------------

\* VFSFile: a descriptor, with a DIR if it is a directory.
File == [fd : Fd, dir : BOOLEAN]
KindOf(dir) == IF dir THEN "dir" ELSE "file"
Who == [addr : Addr \union {NoFd}, session : 0 .. MaxSessions]
Nobody == [addr |-> NoFd, session |-> 0]
Me(a) == [addr |-> a, session |-> session[a]]

\* The descriptor that the system gives out next.
Lowest(fd) == kind[fd] = "free" /\ \A f \in Fd : kind[f] = "free" => fd <= f

\* A client calls: it is connected.
Calls(a) == sock[a] # NoFd

\* The first of the files with this descriptor, where the loops stop.
IsFirst(fs, i, fd) == fs[i].fd = fd /\ \A j \in DOMAIN fs : fs[j].fd = fd => i <= j

\* _client_check and _client_check_dir: what the entry of the client has under
\* the descriptor is a file, or a directory.
Check(a, fd, dir) ==
  a \in clients /\ \E i \in DOMAIN files[a] : IsFirst(files[a], i, fd) /\ files[a][i].dir = dir

\* _client_add: the client has an entry from now on.
AddClient(a) == clients' = clients \union {a}

\* Mutant: the entry that follows is removed.
WithoutNext(fs, fd) ==
  LET i == CHOOSE k \in DOMAIN fs : IsFirst(fs, k, fd)
  IN [j \in 1 .. Len(fs) - 1 |-> IF j <= i THEN fs[j] ELSE fs[j + 1]]

\* _client_remove_file: the files without the first one with this descriptor.
WithoutFile(fs, fd) ==
  LET i == CHOOSE k \in DOMAIN fs : IsFirst(fs, k, fd)
  IN [j \in 1 .. Len(fs) - 1 |-> IF j < i THEN fs[j] ELSE fs[j + 1]]

-----------------------------------------------------------------------------

\* _client_init, with nothing connected yet.
Init ==
  /\ kind = [fd \in Fd |-> "free"]
  /\ sock = [a \in Addr |-> NoFd]
  /\ clients = {}
  /\ files = [a \in Addr |-> <<>>]
  /\ sessions = 0 /\ session = [a \in Addr |-> 0]
  /\ opener = [fd \in Fd |-> Nobody]
  /\ failed = FALSE /\ reached = <<>>

\* AppServer accepts a connection; its client may be allocated where one was.
Connect(a, fd) ==
  /\ ~Calls(a) /\ sessions < MaxSessions /\ Lowest(fd)
  /\ kind' = [kind EXCEPT ![fd] = "socket"]
  /\ sock' = [sock EXCEPT ![a] = fd]
  /\ sessions' = sessions + 1
  /\ session' = [session EXCEPT ![a] = sessions + 1]
  /\ UNCHANGED <<clients, files, opener, failed, reached>>

\* AppServer forgets a client: its connection is closed.  VFS is not told.
Disconnect(a) ==
  /\ Calls(a)
  /\ kind' = [kind EXCEPT ![sock[a]] = "free"]
  /\ sock' = [sock EXCEPT ![a] = NoFd]
  /\ UNCHANGED <<clients, files, sessions, session, opener, failed, reached>>

\* Mutant: a file that cannot be recorded stays open.
OpenRefusedLeaks(a, fd) ==
  /\ Calls(a) /\ Lowest(fd)
  /\ AddClient(a)
  /\ kind' = [kind EXCEPT ![fd] = "file"]
  /\ UNCHANGED <<sock, files, sessions, session, opener, failed, reached>>

\* Mutant: a directory is recorded by the open() below it too.
OpenTwice(a, fd, dir) ==
  /\ Calls(a) /\ Lowest(fd) /\ Len(files[a]) < MaxFiles
  /\ kind' = [kind EXCEPT ![fd] = KindOf(dir)]
  /\ opener' = [opener EXCEPT ![fd] = Me(a)]
  /\ AddClient(a)
  /\ files' = [files EXCEPT ![a] = @ \o <<[fd |-> fd, dir |-> dir], [fd |-> fd, dir |-> dir]>>]
  /\ UNCHANGED <<sock, sessions, session, failed, reached>>

\* VFS_open and VFS_opendir: what is opened is recorded for the client.
Open(a, fd, dir) ==
  /\ Calls(a) /\ Lowest(fd) /\ Len(files[a]) < MaxFiles
  /\ kind' = [kind EXCEPT ![fd] = KindOf(dir)]
  /\ opener' = [opener EXCEPT ![fd] = Me(a)]
  /\ AddClient(a)
  /\ files' = [files EXCEPT ![a] = Append(@, [fd |-> fd, dir |-> dir])]
  /\ UNCHANGED <<sock, sessions, session, failed, reached>>

\* The same, when there is no memory to record it: it is closed again, and the
\* client has an entry.  Without memory for that entry either, nothing changes.
OpenRefused(a, fd) ==
  /\ Calls(a) /\ Lowest(fd)
  /\ AddClient(a)
  /\ UNCHANGED <<kind, sock, files, sessions, session, opener, failed, reached>>

\* VFS_close and VFS_closedir: the descriptor is closed and no longer recorded.
Close(a, fd, dir) ==
  /\ Calls(a) /\ Check(a, fd, dir) /\ kind[fd] # "free"
  /\ kind' = [kind EXCEPT ![fd] = "free"]
  /\ files' = [files EXCEPT ![a] = WithoutFile(@, fd)]
  /\ reached' = <<Me(a), opener[fd]>>
  /\ UNCHANGED <<sock, clients, sessions, session, opener, failed>>

\* The same, when close() reports an error: the descriptor is released all the
\* same, as most systems do, and stays recorded.
CloseFails(a, fd, dir) ==
  /\ Calls(a) /\ Check(a, fd, dir) /\ kind[fd] # "free" /\ ~failed
  /\ kind' = [kind EXCEPT ![fd] = "free"]
  /\ failed' = TRUE
  /\ reached' = <<Me(a), opener[fd]>>
  /\ UNCHANGED <<sock, clients, files, sessions, session, opener>>

\* Mutant: the calls on a descriptor look at what it is, not at whose it is.
UseAnyone(a, fd, dir) ==
  /\ Calls(a) /\ kind[fd] = KindOf(dir)
  /\ reached' = <<Me(a), opener[fd]>>
  /\ UNCHANGED <<kind, sock, clients, files, sessions, session, opener, failed>>

\* VFS_fchmod, VFS_fchown, VFS_flock, VFS_lseek, VFS_read and VFS_write on a
\* file, VFS_dirfd, VFS_readdir and VFS_rewinddir on a directory: the call
\* reaches what is open under the descriptor.
Use(a, fd, dir) ==
  /\ Calls(a) /\ Check(a, fd, dir) /\ kind[fd] # "free"
  /\ reached' = <<Me(a), opener[fd]>>
  /\ UNCHANGED <<kind, sock, clients, files, sessions, session, opener, failed>>

\* VFS_umask: the client gets an entry.
Umask(a) ==
  /\ Calls(a)
  /\ AddClient(a)
  /\ UNCHANGED <<kind, sock, files, sessions, session, opener, failed, reached>>

Next ==
  \E a \in Addr :
    \/ Disconnect(a)
    \/ Umask(a)
    \/ \E fd \in Fd :
         \/ Connect(a, fd)
         \/ OpenRefused(a, fd)
         \/ \E dir \in BOOLEAN :
              \/ Open(a, fd, dir)
              \/ Close(a, fd, dir)
              \/ CloseFails(a, fd, dir)
              \/ Use(a, fd, dir)

Spec == Init /\ [][Next]_vars

-----------------------------------------------------------------------------
(* Properties *)

TypeOK ==
  /\ kind \in [Fd -> {"free", "socket", "file", "dir"}]
  /\ sock \in [Addr -> Fd \union {NoFd}]
  /\ clients \subseteq Addr
  /\ files \in [Addr -> Seq(File)]
  /\ sessions \in 0 .. MaxSessions /\ session \in [Addr -> 0 .. MaxSessions]
  /\ opener \in [Fd -> Who]
  /\ failed \in BOOLEAN
  /\ reached \in Who \X Who \union {<<>>}

\* What the table has under a descriptor is open and is what the table says: it
\* is never the connection of a client, which the calls would then read or
\* close, and never closed.  It holds until a close() fails: VFS_close then
\* keeps the record of a descriptor whose number will be given out again.
RecordedIsOpen ==
  failed \/ \A a \in Addr : \A i \in DOMAIN files[a] :
              kind[files[a][i].fd] = KindOf(files[a][i].dir)

\* A descriptor is recorded once: the search of _client_check and of
\* _client_remove_file finds the one that is meant, and no two clients share it.
RecordedOnce ==
  failed \/ \A a, b \in Addr : \A i \in DOMAIN files[a], j \in DOMAIN files[b] :
              files[a][i].fd = files[b][j].fd => a = b /\ i = j

\* Every file and directory the process has open is in the table, on the error
\* paths of VFS_open and VFS_opendir too: what no call could close is not left
\* open.
OpenIsRecorded ==
  failed \/ \A fd \in Fd : kind[fd] \in {"file", "dir"} =>
              \E a \in Addr : \E i \in DOMAIN files[a] : files[a][i].fd = fd

\* A call reaches what its client has opened, or what a client that was at the
\* same address before it has left behind: no client reaches the descriptors of
\* another one that is connected.
ReachesOwnAddress ==
  failed \/ reached = <<>> \/
    /\ reached[1].addr = reached[2].addr
    /\ reached[2].session # 0 /\ reached[2].session <= reached[1].session
====
