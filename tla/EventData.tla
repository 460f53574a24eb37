------------------------------- MODULE EventData -------------------------------
(***************************************************************************)
(* The Event object of libSystem (libSystem/src/event.c) as a value: the   *)
(* record the C structure holds, and one operator per function that        *)
(* changes it.  Nothing here is a state machine: Event.tla drives these    *)
(* operators with arbitrary callbacks, AppServer.tla with its own.         *)
(*                                                                         *)
(* An EventIO is its descriptor (the function and its argument never       *)
(* change), so an eventioArray is a sequence of descriptors.  A struct     *)
(* timeval is a record [sec, usec] with K microseconds in one second.      *)
(* Absolute times are counted from the beginning of the present second, so *)
(* that time may pass for ever in a finite model: "Epoch" is what has to   *)
(* be added where the code compares an absolute time with a duration.      *)
(***************************************************************************)
EXTENDS Integers, Sequences

CONSTANTS FdSetSize, \* FD_SETSIZE: descriptors are 0 .. FdSetSize - 1
          K,         \* microseconds per second
          Epoch,     \* the present second, since 1970
          LongMax    \* LONG_MAX

ASSUME EventDataAssumption ==
  /\ FdSetSize \in Nat \ {0}
  /\ K \in Nat \ {0}
  /\ Epoch \in Nat
  /\ LongMax \in Nat
  /\ K < Epoch
  /\ 2 * Epoch < LongMax

Fd == 0 .. FdSetSize - 1

Time(s, u) == [sec |-> s, usec |-> u]

\* event->timeout when there is nothing to wait for: select() gets NULL.
NoTimeout == Time(LongMax, LongMax)

\* The comparison of two struct timeval spelled out at every use in event.c.
Earlier(a, b) == a.sec < b.sec \/ (a.sec = b.sec /\ a.usec < b.usec)

\* The descriptors an eventioArray mentions.
FdsOf(eios) == {eios[k] : k \in DOMAIN eios}

MaxFd(fds) == IF fds = {} THEN -1 ELSE CHOOSE m \in fds : \A fd \in fds : fd <= m

Larger(a, b) == IF a > b THEN a ELSE b

--------------------------------------------------------------------------------
\* event_new
NewEvent ==
  [loop     |-> 0,
   fdmax    |-> -1,
   rfds     |-> {},
   wfds     |-> {},
   reads    |-> << >>,
   writes   |-> << >>,
   timeouts |-> << >>,
   timeout  |-> NoTimeout]

\* event_register_io_read, event_register_io_write
RegisterRead(e, fd) ==
  [e EXCEPT !.fdmax = Larger(@, fd),
            !.rfds  = @ \cup {fd},
            !.reads = Append(@, fd)]

RegisterWrite(e, fd) ==
  [e EXCEPT !.fdmax  = Larger(@, fd),
            !.wfds   = @ \cup {fd},
            !.writes = Append(@, fd)]

\* The entries of an array at the indices I, in their order: what is left when
\* the others are removed one by one.
Kept(s, I) ==
  LET kept[k \in 0 .. Len(s)] ==
        IF k = 0 THEN << >>
        ELSE IF k \in I THEN Append(kept[k - 1], s[k]) ELSE kept[k - 1]
  IN  kept[Len(s)]

\* Mutant: the loop stops at the first entry of the descriptor.
WithoutFirst(eios, fd) ==
  LET hits == {k \in DOMAIN eios : eios[k] = fd}
      first == CHOOSE k \in hits : \A n \in hits : k <= n
  IN  IF hits = {} THEN eios
      ELSE SubSeq(eios, 1, first - 1) \o SubSeq(eios, first + 1, Len(eios))

\* What the loop of _unregister_io leaves of an array: every entry of the
\* descriptor goes, the others keep their order.
Without(eios, fd) == Kept(eios, {k \in DOMAIN eios : eios[k] # fd})

\* _unregister_io clears the bit of the descriptor when it meets an entry of it.
ClearedOf(fds, eios, fd) == IF fd \in FdsOf(eios) THEN fds \ {fd} ELSE fds

\* Mutants: fdmax is computed from the one array only.
UnregisterReadForgetsWrites(e, fd) ==
  LET left == Without(e.reads, fd)
  IN  [e EXCEPT !.reads = left,
                !.rfds  = ClearedOf(@, e.reads, fd),
                !.fdmax = MaxFd(FdsOf(left))]

UnregisterWriteForgetsReads(e, fd) ==
  LET left == Without(e.writes, fd)
  IN  [e EXCEPT !.writes = left,
                !.wfds   = ClearedOf(@, e.writes, fd),
                !.fdmax  = MaxFd(FdsOf(left))]

\* event_unregister_io_read, event_unregister_io_write
UnregisterRead(e, fd) ==
  LET left == Without(e.reads, fd)
  IN  [e EXCEPT !.reads = left,
                !.rfds  = ClearedOf(@, e.reads, fd),
                !.fdmax = Larger(MaxFd(FdsOf(left)), MaxFd(FdsOf(e.writes)))]

UnregisterWrite(e, fd) ==
  LET left == Without(e.writes, fd)
  IN  [e EXCEPT !.writes = left,
                !.wfds   = ClearedOf(@, e.writes, fd),
                !.fdmax  = Larger(MaxFd(FdsOf(left)), MaxFd(FdsOf(e.reads)))]

--------------------------------------------------------------------------------
\* event_register_timeout, at microsecond u of the present second.  The sum of
\* the microseconds is not carried into the seconds.
RegisterTimeout(e, u, func, initial) ==
  [e EXCEPT !.timeouts = Append(@, [func    |-> func,
                                    initial |-> initial,
                                    at      |-> Time(initial.sec, u + initial.usec)]),
            !.timeout  = IF Earlier(initial, @) THEN initial ELSE @]

\* How long event_unregister_timeout has select() wait for a timer (lines
\* 418-430): an overdue second gives no wait at all, a negative difference of
\* the microseconds borrows a second and is negated.
WaitAfterUnregister(at, u) ==
  IF at.sec < 0 THEN Time(0, 0)
  ELSE IF at.usec >= u THEN Time(at.sec, at.usec - u)
  ELSE Time(Larger(0, at.sec - 1), u - at.usec)

\* event_unregister_timeout: the wait for the timers left is computed by
\* comparing the absolute time of each with the wait found so far (lines
\* 410-432); the "break" of line 423 needs no case of its own, nothing being
\* before 0.0.
WaitForAll(left, u) ==
  LET wait[k \in 0 .. Len(left)] ==
        IF k = 0 THEN NoTimeout
        ELSE IF Earlier(Time(Epoch + left[k].at.sec, left[k].at.usec), wait[k - 1])
        THEN WaitAfterUnregister(left[k].at, u) ELSE wait[k - 1]
  IN  wait[Len(left)]

\* event_unregister_timeout
UnregisterTimeout(e, u, func) ==
  LET left == Kept(e.timeouts, {k \in DOMAIN e.timeouts : e.timeouts[k].func # func})
  IN  [e EXCEPT !.timeouts = left, !.timeout = WaitForAll(left, u)]

\* event_loop_quit
LoopQuit(e) == [e EXCEPT !.loop = IF @ > 0 THEN @ - 1 ELSE @]

--------------------------------------------------------------------------------
\* Mutant: a quit is not looked at.
ContinuesAfterQuit(e) == e.timeout # NoTimeout \/ e.fdmax # -1

\* The condition of the while of event_loop.
Continues(e) == e.loop > 0 /\ (e.timeout # NoTimeout \/ e.fdmax # -1)

\* What select() may report of a set of descriptors: it looks below fdmax + 1.
Selectable(e, fds) == {fd \in fds : fd <= e.fdmax}

\* _loop_timeout: is a timer due at microsecond u of the present second?
Due(at, u) == at.sec < 0 \/ (at.sec = 0 /\ at.usec <= u)

\* Mutant: the microseconds are subtracted without a borrow.
WaitUntilNoBorrow(at, u) == Time(at.sec, at.usec - u)

\* _loop_timeout: the wait for a timer that is not due (lines 210-223).  The
\* borrow takes now - timeout for the microseconds.
WaitUntil(at, u) ==
  IF at.usec >= u THEN Time(at.sec, at.usec - u) ELSE Time(at.sec - 1, u - at.usec)

\* Mutant: a timer that is not due is started again.
KeepTimeoutRestarts(e, u, k) ==
  LET initial == e.timeouts[k].initial
  IN  [e EXCEPT !.timeouts[k].at = Time(initial.sec, u + initial.usec),
                !.timeout = IF Earlier(initial, @) THEN initial ELSE @]

\* _loop_timeout: a timer that is not due shortens the wait.
KeepTimeout(e, u, k) ==
  LET at == e.timeouts[k].at
  IN  [e EXCEPT !.timeout = IF Earlier(Time(at.sec, at.usec - u), @)
                            THEN WaitUntil(at, u) ELSE @]

\* Mutants: the timer armed again does not count for the next wait, or counts
\* alone.
RearmTimeoutForgotten(e, u, k) ==
  LET initial == e.timeouts[k].initial
  IN  [e EXCEPT !.timeouts[k].at = Time(initial.sec, u + initial.usec)]

RearmTimeoutAlone(e, u, k) ==
  LET initial == e.timeouts[k].initial
  IN  [e EXCEPT !.timeouts[k].at = Time(initial.sec, u + initial.usec),
                !.timeout = initial]

\* _loop_timeout: the function of a due timer returned 0, it is armed again.
RearmTimeout(e, u, k) ==
  LET initial == e.timeouts[k].initial
  IN  [e EXCEPT !.timeouts[k].at = Time(initial.sec, u + initial.usec),
                !.timeout = IF Earlier(initial, @) THEN initial ELSE @]

\* _loop_timeout: the function of a due timer returned non-zero, it is removed.
DropTimeout(e, k) ==
  [e EXCEPT !.timeouts = SubSeq(@, 1, k - 1) \o SubSeq(@, k + 1, Len(@))]

\* Mutant: what select() reported is not looked at.
IsReportedAlways(e, eios, k, fds) == eios[k] <= e.fdmax

\* _loop_io: the function of the entry at k is called if select() reported it.
IsReported(e, eios, k, fds) == eios[k] <= e.fdmax /\ eios[k] \in fds
================================================================================
