------------------------------ MODULE EventProofs ------------------------------
(***************************************************************************)
(* The event loop keeps its descriptor sets, and the fact that it has      *)
(* something to wait for, right, for any number of descriptors, timers and *)
(* nested loops and whatever the callbacks do; and the waits it hands to   *)
(* select() are valid and not a second too long, for delays of the kind    *)
(* the repository registers timers with.                                   *)
(***************************************************************************)
EXTENDS Event, EventDataProofs

--------------------------------------------------------------------------------
\* event->timeout is set once a timer was seen in the round, and while there is
\* one outside of _loop_timeout: what TimersKeepLoopAlive needs in the middle of
\* a round, when event->timeout is being computed.
Timed ==
  /\ pc # "timeouts" /\ ev.timeouts # << >> => ev.timeout.sec < LongMax
  /\ pc = "timeouts" /\ i > 1 => ev.timeout.sec < LongMax

\* The timer whose function is running is still in the array.
InWalk == pc = "timeouts" /\ cb => i <= Len(ev.timeouts)

IInv == /\ ev \in EventOf(Func)
        /\ IoMatch(ev)
        /\ TypeOK
        /\ Timed
        /\ InWalk

\* Steps that leave the descriptor fields alone leave them in step.
LEMMA SameIoMatch ==
  ASSUME NEW e, NEW d, IoMatch(e), SameIo(d, e)
  PROVE  IoMatch(d)
BY DEF IoMatch, SameIo

\* event_new establishes the invariant.
LEMMA InitInv == Init => IInv
<1> SUFFICES ASSUME Init PROVE IInv
  OBVIOUS
<1>1. << >> \in Seq(Fd) /\ << >> \in Seq(TimersOf(Func)) /\ FdsOf(<< >>) = {}
  BY EmptySeq DEF FdsOf
<1>2. NoTimeout \in Timeval
  BY EventDataAssumption DEF NoTimeout, Time, Timeval
<1>3. ev \in EventOf(Func)
  BY <1>1, <1>2 DEF Init, NewEvent, EventOf
<1>4. IoMatch(ev)
  BY <1>1 DEF Init, NewEvent, IoMatch, MaxFd
<1>5. TypeOK
  <2>1. ev.loop \in 0 .. MaxLoop
    BY EventAssumption DEF Init, NewEvent
  <2>2. usec \in 0 .. K - 1
    BY EventDataAssumption DEF Init
  <2>3. fd \notin Fd /\ fd = -1
    BY FdNat DEF Init
  <2>4. pc = "out" /\ i \in Nat \ {0} /\ cb = FALSE /\ sel.r = {} /\ sel.w = {}
    BY DEF Init, NothingSelected
  <2>5. /\ ev.fdmax \in Fd \cup {-1}
        /\ ev.rfds \subseteq Fd /\ ev.wfds \subseteq Fd
        /\ ev.reads \in Seq(Fd) /\ ev.writes \in Seq(Fd)
    BY <1>3 DEF EventOf
  <2> QED
    BY <2>1, <2>2, <2>3, <2>4, <2>5, Zenon DEF TypeOK
<1>6. Timed /\ InWalk
  BY DEF Init, NewEvent, Timed, InWalk
<1> QED
  BY <1>3, <1>4, <1>5, <1>6 DEF IInv

\* A call of the interface keeps the invariant if the Event it leaves is one.
LEMMA CallKeeps ==
  ASSUME IInv,
         ev' \in EventOf(Func), IoMatch(ev'), ev'.loop <= MaxLoop,
         UNCHANGED <<pc, i, cb, fd, sel, usec>>,
         pc # "timeouts" /\ ev'.timeouts # << >> => ev'.timeout.sec < LongMax,
         pc = "timeouts" /\ i > 1 => ev'.timeout.sec < LongMax,
         pc = "timeouts" /\ cb => i <= Len(ev'.timeouts)
  PROVE  IInv'
<1>1. TypeOK'
  BY EventAssumption DEF IInv, TypeOK, EventOf
<1>2. Timed' /\ InWalk'
  BY DEF Timed, InWalk
<1> QED
  BY <1>1, <1>2 DEF IInv

\* The functions of the interface keep the invariant, from wherever they are called.
LEMMA InterfaceKeeps == IInv /\ Interface => IInv'
<1> SUFFICES ASSUME IInv, Interface PROVE IInv'
  OBVIOUS
<1>1. ev \in EventOf(Func) /\ IoMatch(ev) /\ ev.loop <= MaxLoop /\ usec \in Int
  BY EventAssumption, EventDataAssumption DEF IInv, TypeOK
<1>2. ASSUME NEW n \in Fd, CallRegisterRead(n) PROVE IInv'
  <2>1. ev' = RegisterRead(ev, n) /\ UNCHANGED <<pc, i, cb, fd, sel, usec>>
    BY <1>2 DEF CallRegisterRead, Call
  <2>2. ev' \in EventOf(Func) /\ IoMatch(ev') /\ SameTimers(ev', ev)
    BY <1>1, <2>1, RegisterReadOK
  <2> QED
    BY <1>1, <2>1, <2>2, CallKeeps DEF SameTimers, IInv, Timed, InWalk
<1>3. ASSUME NEW n \in Fd, CallRegisterWrite(n) PROVE IInv'
  <2>1. ev' = RegisterWrite(ev, n) /\ UNCHANGED <<pc, i, cb, fd, sel, usec>>
    BY <1>3 DEF CallRegisterWrite, Call
  <2>2. ev' \in EventOf(Func) /\ IoMatch(ev') /\ SameTimers(ev', ev)
    BY <1>1, <2>1, RegisterWriteOK
  <2> QED
    BY <1>1, <2>1, <2>2, CallKeeps DEF SameTimers, IInv, Timed, InWalk
<1>4. ASSUME NEW n \in Fd, CallUnregisterRead(n) PROVE IInv'
  <2>1. ev' = UnregisterRead(ev, n) /\ UNCHANGED <<pc, i, cb, fd, sel, usec>>
    BY <1>4 DEF CallUnregisterRead, Call
  <2>2. ev' \in EventOf(Func) /\ IoMatch(ev') /\ SameTimers(ev', ev)
    BY <1>1, <2>1, UnregisterReadOK
  <2> QED
    BY <1>1, <2>1, <2>2, CallKeeps DEF SameTimers, IInv, Timed, InWalk
<1>5. ASSUME NEW n \in Fd, CallUnregisterWrite(n) PROVE IInv'
  <2>1. ev' = UnregisterWrite(ev, n) /\ UNCHANGED <<pc, i, cb, fd, sel, usec>>
    BY <1>5 DEF CallUnregisterWrite, Call
  <2>2. ev' \in EventOf(Func) /\ IoMatch(ev') /\ SameTimers(ev', ev)
    BY <1>1, <2>1, UnregisterWriteOK
  <2> QED
    BY <1>1, <2>1, <2>2, CallKeeps DEF SameTimers, IInv, Timed, InWalk
<1>6. ASSUME NEW f \in Func, NEW d \in Initial, CallRegisterTimeout(f, d) PROVE IInv'
  <2>1. ev' = RegisterTimeout(ev, usec, f, d) /\ UNCHANGED <<pc, i, cb, fd, sel, usec>>
    BY <1>6 DEF CallRegisterTimeout, Call
  <2>2. d \in Timeval /\ d.sec < Epoch
    BY EventAssumption, EventDataAssumption DEF Timeval, Time
  <2>3. /\ ev' \in EventOf(Func) /\ ev'.loop = ev.loop
        /\ ev'.timeout.sec < LongMax /\ SameIo(ev', ev)
    BY <1>1, <2>1, <2>2, RegisterTimeoutOK
  <2>4. Len(ev'.timeouts) = Len(ev.timeouts) + 1 /\ Len(ev.timeouts) \in Nat
    BY <1>1, <2>1 DEF RegisterTimeout, EventOf
  <2>5. IoMatch(ev')
    BY <1>1, <2>3, SameIoMatch
  <2>6. pc = "timeouts" /\ cb => i <= Len(ev'.timeouts)
    BY <2>4 DEF IInv, InWalk, TypeOK
  <2> QED
    BY <1>1, <2>1, <2>3, <2>5, <2>6, CallKeeps
<1>7. ASSUME NEW f \in Cancellable, CallUnregisterTimeout(f) PROVE IInv'
  <2>1. /\ ev' = UnregisterTimeout(ev, usec, f) /\ UNCHANGED <<pc, i, cb, fd, sel, usec>>
        /\ pc # "timeouts"
    BY <1>7 DEF CallUnregisterTimeout, Call
  <2>2. /\ ev' \in EventOf(Func) /\ ev'.loop = ev.loop
        /\ ev'.timeouts # << >> => ev'.timeout.sec < LongMax
        /\ SameIo(ev', ev)
    BY <1>1, <2>1, UnregisterTimeoutOK
  <2>3. IoMatch(ev')
    BY <1>1, <2>2, SameIoMatch
  <2> QED
    BY <1>1, <2>1, <2>2, <2>3, CallKeeps
<1>8. ASSUME CallQuit PROVE IInv'
  <2>1. ev' = LoopQuit(ev) /\ UNCHANGED <<pc, i, cb, fd, sel, usec>>
    BY <1>8 DEF CallQuit, Call
  <2>2. /\ ev' \in EventOf(Func) /\ ev'.loop <= ev.loop
        /\ ev'.timeouts = ev.timeouts /\ ev'.timeout = ev.timeout
        /\ SameIo(ev', ev)
    BY <1>1, <2>1, LoopQuitOK
  <2>3. IoMatch(ev') /\ ev'.loop <= MaxLoop
    BY <1>1, <2>2, SameIoMatch, EventAssumption DEF EventOf
  <2> QED
    BY <2>1, <2>2, <2>3, CallKeeps DEF IInv, Timed, InWalk
<1> QED
  BY <1>2, <1>3, <1>4, <1>5, <1>6, <1>7, <1>8 DEF Interface
--------------------------------------------------------------------------------
\* event_loop is entered.
LEMMA EnterKeeps == IInv /\ Enter => IInv'
<1> SUFFICES ASSUME IInv, Enter PROVE IInv'
  OBVIOUS
<1>1. /\ ev' = [ev EXCEPT !.loop = ev.loop + 1] /\ ev.loop < MaxLoop
      /\ pc = "out" /\ pc' = "select" /\ UNCHANGED <<i, cb, fd, sel, usec>>
  BY DEF Enter
<1> DEFINE n == ev.loop + 1
<1>2. ev' = [ev EXCEPT !.loop = n] /\ n \in Nat /\ n \in 0 .. MaxLoop
  BY <1>1, EventAssumption DEF IInv, EventOf
<1> HIDE DEF n
<1>3. /\ ev' \in EventOf(Func) /\ SameIo(ev', ev) /\ ev'.loop \in 0 .. MaxLoop
      /\ ev'.timeouts = ev.timeouts /\ ev'.timeout = ev.timeout
  BY <1>2 DEF IInv, EventOf, SameIo
<1>4. IoMatch(ev')
  BY <1>3, SameIoMatch DEF IInv
<1>5. TypeOK'
  BY <1>1, <1>3 DEF IInv, TypeOK, EventOf, Walks
<1>6. Timed' /\ InWalk'
  BY <1>1, <1>3 DEF IInv, Timed, InWalk
<1> QED
  BY <1>3, <1>4, <1>5, <1>6 DEF IInv

\* event_loop returns, on its own or because select() failed.
LEMMA ReturnKeeps == IInv /\ (Leave \/ SelectFails) => IInv'
<1> SUFFICES ASSUME IInv, Leave \/ SelectFails PROVE IInv'
  OBVIOUS
<1>1. pc = "select" /\ pc' = "out" /\ UNCHANGED <<ev, i, cb, fd, sel, usec>>
  BY DEF Leave, SelectFails
<1>2. TypeOK'
  BY <1>1 DEF IInv, TypeOK, Walks
<1>3. Timed' /\ InWalk'
  BY <1>1 DEF IInv, Timed, InWalk
<1> QED
  BY <1>1, <1>2, <1>3 DEF IInv

\* The clock: what AfterWait and Select compute from it.
LEMMA ClockOK ==
  ASSUME NEW n \in Nat
  PROVE  n \div K \in Nat /\ n % K \in 0 .. K - 1
BY EventDataAssumption

\* The wait in select() changes the timers only, and brings them nearer.
LEMMA AfterWaitOK ==
  ASSUME NEW e \in EventOf(Func), NEW d \in Nat, usec \in Nat
  PROVE  \E all \in Seq(TimersOf(Func)) : AfterWait(e, d) = [e EXCEPT !.timeouts = all]
<1> DEFINE q == (usec + d) \div K
<1> DEFINE Later(k) == [e.timeouts[k] EXCEPT !.at.sec = e.timeouts[k].at.sec - q]
<1> DEFINE all == [k \in DOMAIN e.timeouts |-> Later(k)]
<1>1. q \in Nat
  BY ClockOK
<1> HIDE DEF q
<1>2. Len(e.timeouts) \in Nat /\ DOMAIN e.timeouts = 1 .. Len(e.timeouts)
  BY LenProperties DEF EventOf
<1>3. ASSUME NEW k \in DOMAIN e.timeouts PROVE Later(k) \in TimersOf(Func)
  <2>1. e.timeouts[k] \in TimersOf(Func)
    BY <1>2, ElementOfSeq DEF EventOf
  <2>2. /\ e.timeouts[k].at \in Timeval /\ e.timeouts[k].at.sec \in Int
        /\ e.timeouts[k].at.sec < Epoch /\ Epoch \in Int
    BY <2>1, EventDataAssumption DEF TimersOf, Timeval
  <2> DEFINE s == e.timeouts[k].at.sec - q
  <2>3. s \in Int /\ s < Epoch
    BY <1>1, <2>2
  <2> HIDE DEF s
  <2> DEFINE a == [e.timeouts[k].at EXCEPT !.sec = s]
  <2>4. a \in Timeval /\ a.sec < Epoch
    BY <2>2, <2>3 DEF Timeval
  <2> HIDE DEF a
  <2>5. [e.timeouts[k] EXCEPT !.at = a] \in TimersOf(Func)
    BY <2>1, <2>4 DEF TimersOf
  <2>6. Later(k) = [e.timeouts[k] EXCEPT !.at = a]
    BY <2>1 DEF a, s
  <2> QED
    BY <2>5, <2>6
<1>4. all \in [1 .. Len(e.timeouts) -> TimersOf(Func)]
  BY <1>2, <1>3
<1>5. all \in Seq(TimersOf(Func))
  <2> HIDE DEF all
  <2> QED
    BY <1>2, <1>4
<1>6. AfterWait(e, d) = [e EXCEPT !.timeouts = all]
  BY DEF AfterWait, q
<1> HIDE DEF all
<1> QED
  BY <1>5, <1>6 DEF EventOf

\* select() returns and _loop_timeout starts with no wait at all.
LEMMA SelectKeeps == IInv /\ SelectReturns => IInv'
<1> SUFFICES ASSUME IInv,
                    NEW r \in SUBSET Selectable(ev, ev.rfds),
                    NEW w \in SUBSET Selectable(ev, ev.wfds),
                    NEW d \in 0 .. LongestWait, Select(r, w, d)
             PROVE  IInv'
  BY DEF SelectReturns
<1>1. d \in Nat /\ usec \in Nat /\ r \in SUBSET Fd /\ w \in SUBSET Fd
  BY EventDataAssumption DEF IInv, TypeOK, Selectable
<1>2. /\ pc = "select" /\ pc' = "timeouts" /\ i' = 1
      /\ sel' = [r |-> r, w |-> w] /\ usec' = (usec + d) % K
      /\ ev' = [AfterWait(ev, d) EXCEPT !.timeout = NoTimeout]
      /\ UNCHANGED <<cb, fd>>
  BY DEF Select
<1>3. PICK all \in Seq(TimersOf(Func)) : AfterWait(ev, d) = [ev EXCEPT !.timeouts = all]
  BY <1>1, AfterWaitOK DEF IInv
<1>4. ev' = [ev EXCEPT !.timeouts = all, !.timeout = NoTimeout]
  BY <1>2, <1>3
<1>5. /\ ev' \in EventOf(Func) /\ SameIo(ev', ev) /\ ev'.loop = ev.loop
  <2>1. NoTimeout \in Timeval
    BY EventDataAssumption DEF NoTimeout, Time, Timeval
  <2> QED
    BY <1>3, <1>4, <2>1 DEF IInv, EventOf, SameIo
<1>6. IoMatch(ev')
  BY <1>5, SameIoMatch DEF IInv
<1>7. cb = FALSE /\ cb' = FALSE /\ fd' = fd /\ fd \in Fd \cup {-1} /\ fd \notin Fd
  BY <1>2, Zenon DEF IInv, TypeOK, Walks
<1>8. TypeOK'
  <2>1. usec' \in 0 .. K - 1
    BY <1>1, <1>2, ClockOK
  <2>2. /\ ev'.fdmax \in Fd \cup {-1}
        /\ ev'.rfds \subseteq Fd /\ ev'.wfds \subseteq Fd
        /\ ev'.reads \in Seq(Fd) /\ ev'.writes \in Seq(Fd)
        /\ ev'.loop \in 0 .. MaxLoop
    BY <1>5 DEF IInv, TypeOK, EventOf
  <2>3. i' \in Nat \ {0} /\ sel'.r \subseteq Fd /\ sel'.w \subseteq Fd
    BY <1>1, <1>2
  <2> QED
    BY <1>2, <1>7, <2>1, <2>2, <2>3, Zenon DEF TypeOK, Walks
<1>9. Timed' /\ InWalk'
  BY <1>2, <1>7 DEF Timed, InWalk
<1> QED
  BY <1>5, <1>6, <1>8, <1>9 DEF IInv
--------------------------------------------------------------------------------
\* The end of a walk: after _loop_timeout every timer left was seen.
LEMMA EndOfWalkKeeps == IInv /\ EndOfWalk => IInv'
<1> SUFFICES ASSUME IInv, EndOfWalk PROVE IInv'
  OBVIOUS
<1>1. /\ pc \in Walks /\ cb = FALSE /\ cb' = FALSE
      /\ pc' \in {"reads", "writes", "select"} /\ i' = 1
      /\ fd' = fd /\ fd \in Fd \cup {-1} /\ fd \notin Fd
      /\ ev' = ev /\ usec' = usec
  BY Zenon DEF EndOfWalk, WalkNext, IInv, TypeOK, Walks
<1>2. sel'.r \subseteq Fd /\ sel'.w \subseteq Fd
  BY DEF EndOfWalk, NothingSelected, IInv, TypeOK
<1>3. TypeOK'
  <2>1. pc' \in Walks \cup {"out", "select"} /\ i' \in Nat \ {0}
    BY <1>1 DEF Walks
  <2> QED
    BY <1>1, <1>2, <2>1, Zenon DEF IInv, TypeOK
<1>4. ev.timeouts # << >> => ev.timeout.sec < LongMax
  <2>1. CASE pc = "timeouts"
    <3>1. i > Len(ev.timeouts)
      BY <2>1 DEF EndOfWalk, Walked
    <3>2. ev.timeouts # << >> => Len(ev.timeouts) \in Nat \ {0}
      BY EmptySeq DEF IInv, EventOf
    <3>3. i \in Nat
      BY DEF IInv, TypeOK
    <3> QED
      BY <2>1, <3>1, <3>2, <3>3 DEF IInv, Timed
  <2>2. CASE pc # "timeouts"
    BY <2>2 DEF IInv, Timed
  <2> QED
    BY <2>1, <2>2
<1>5. Timed' /\ InWalk'
  BY <1>1, <1>4 DEF Timed, InWalk
<1> QED
  BY <1>1, <1>3, <1>5 DEF IInv

\* A function is called.
LEMMA CallEntryKeeps == IInv /\ CallEntry => IInv'
<1> SUFFICES ASSUME IInv, CallEntry PROVE IInv'
  OBVIOUS
<1>1. /\ pc \in Walks /\ cb' = TRUE /\ cb = FALSE
      /\ UNCHANGED <<ev, pc, i, sel, usec>>
      /\ i <= Len(Walked(ev)) /\ i \in Nat \ {0}
      /\ fd' = IF pc = "timeouts" THEN fd ELSE Walked(ev)[i]
  BY Zenon DEF CallEntry, IInv, TypeOK
<1>2. fd' \in Fd \cup {-1} /\ (fd' \in Fd <=> pc # "timeouts")
  <2>1. CASE pc = "timeouts"
    <3>1. fd' = fd /\ fd \in Fd \cup {-1} /\ fd \notin Fd
      BY <1>1, <2>1, Zenon DEF IInv, TypeOK
    <3> QED
      BY <2>1, <3>1
  <2>2. CASE pc # "timeouts"
    <3>1. Walked(ev) \in Seq(Fd)
      BY <1>1, <2>2 DEF Walked, Walks, IInv, EventOf
    <3>2. i \in 1 .. Len(Walked(ev))
      BY <1>1, <3>1
    <3> QED
      BY <1>1, <2>2, <3>1, <3>2, ElementOfSeq
  <2> QED
    BY <2>1, <2>2
<1>3. TypeOK'
  BY <1>1, <1>2, Zenon DEF IInv, TypeOK
<1>4. Timed' /\ InWalk'
  BY <1>1 DEF IInv, Timed, InWalk, Walked
<1> QED
  BY <1>1, <1>3, <1>4 DEF IInv

\* An entry is passed over.
LEMMA PassEntryKeeps == IInv /\ PassEntry => IInv'
<1> SUFFICES ASSUME IInv, PassEntry PROVE IInv'
  OBVIOUS
<1>1. /\ pc \in Walks /\ cb' = cb /\ cb = FALSE /\ pc' = pc /\ i' = i + 1
      /\ UNCHANGED <<fd, sel, usec>>
      /\ i <= Len(Walked(ev)) /\ i \in Nat \ {0}
      /\ ev' = IF pc = "timeouts" THEN KeepTimeout(ev, usec, i) ELSE ev
  BY Zenon DEF PassEntry, IInv, TypeOK
<1>2. /\ ev' \in EventOf(Func) /\ ev'.loop = ev.loop /\ SameIo(ev', ev)
      /\ ev'.timeouts = ev.timeouts
      /\ IF pc = "timeouts" THEN ev'.timeout.sec < LongMax ELSE ev'.timeout = ev.timeout
  <2>1. CASE pc = "timeouts"
    <3>1. i \in DOMAIN ev.timeouts
      <4>1. ev.timeouts \in Seq(TimersOf(Func)) /\ Walked(ev) = ev.timeouts
        BY <2>1 DEF Walked, IInv, EventOf
      <4>2. DOMAIN ev.timeouts = 1 .. Len(ev.timeouts) /\ Len(ev.timeouts) \in Nat
        BY <4>1, LenProperties
      <4> QED
        BY <1>1, <4>1, <4>2
    <3>2. usec \in Int
      BY EventDataAssumption DEF IInv, TypeOK
    <3> QED
      BY <1>1, <2>1, <3>1, <3>2, KeepTimeoutOK DEF IInv
  <2>2. CASE pc # "timeouts"
    BY <1>1, <2>2 DEF IInv, SameIo
  <2> QED
    BY <2>1, <2>2
<1>3. IoMatch(ev')
  BY <1>2, SameIoMatch DEF IInv
<1>4. TypeOK'
  <2>1. /\ ev'.fdmax \in Fd \cup {-1}
        /\ ev'.rfds \subseteq Fd /\ ev'.wfds \subseteq Fd
        /\ ev'.reads \in Seq(Fd) /\ ev'.writes \in Seq(Fd)
        /\ ev'.loop \in 0 .. MaxLoop
    BY <1>2 DEF IInv, TypeOK, EventOf
  <2>2. i' \in Nat \ {0}
    BY <1>1
  <2> QED
    BY <1>1, <2>1, <2>2, Zenon DEF IInv, TypeOK
<1>5. Timed' /\ InWalk'
  BY <1>1, <1>2 DEF IInv, Timed, InWalk
<1> QED
  BY <1>2, <1>3, <1>4, <1>5 DEF IInv

\* The function of a timer returns, and its entry is still at the index.
LEMMA TimeoutReturnsKeeps ==
  ASSUME IInv, NEW ret \in {0, 1}, TimeoutReturns(ret)
  PROVE  IInv'
<1>1. /\ pc = "timeouts" /\ cb = TRUE /\ cb' = FALSE
      /\ pc' = pc /\ UNCHANGED <<fd, sel, usec>>
      /\ fd \in Fd \cup {-1} /\ fd \notin Fd
      /\ i \in Nat \ {0} /\ i <= Len(ev.timeouts)
  BY Zenon DEF TimeoutReturns, IInv, TypeOK, InWalk
<1>2. i \in DOMAIN ev.timeouts /\ usec \in Int
  <2>1. DOMAIN ev.timeouts = 1 .. Len(ev.timeouts) /\ Len(ev.timeouts) \in Nat
    BY LenProperties DEF IInv, EventOf
  <2> QED
    BY <1>1, <2>1, EventDataAssumption DEF IInv, TypeOK
<1>3. /\ ev' \in EventOf(Func) /\ ev'.loop = ev.loop /\ SameIo(ev', ev)
      /\ i' \in Nat \ {0}
      /\ i' > 1 => ev'.timeout.sec < LongMax
  <2>1. CASE ret = 0
    <3>1. ev' = RearmTimeout(ev, usec, i) /\ i' = i + 1
      BY <2>1 DEF TimeoutReturns
    <3> QED
      BY <1>1, <1>2, <3>1, RearmTimeoutOK DEF IInv
  <2>2. CASE ret # 0
    <3>1. ev' = DropTimeout(ev, i) /\ i' = i
      BY <2>2 DEF TimeoutReturns
    <3>2. /\ ev' \in EventOf(Func) /\ ev'.loop = ev.loop /\ SameIo(ev', ev)
          /\ ev'.timeout = ev.timeout
      BY <1>2, <3>1, DropTimeoutOK DEF IInv
    <3> QED
      BY <1>1, <3>1, <3>2 DEF IInv, Timed
  <2> QED
    BY <2>1, <2>2
<1>4. IoMatch(ev')
  BY <1>3, SameIoMatch DEF IInv
<1>5. TypeOK'
  <2>1. /\ ev'.fdmax \in Fd \cup {-1}
        /\ ev'.rfds \subseteq Fd /\ ev'.wfds \subseteq Fd
        /\ ev'.reads \in Seq(Fd) /\ ev'.writes \in Seq(Fd)
        /\ ev'.loop \in 0 .. MaxLoop
    BY <1>3 DEF IInv, TypeOK, EventOf
  <2> QED
    BY <1>1, <1>3, <2>1, Zenon DEF IInv, TypeOK
<1>6. Timed' /\ InWalk'
  BY <1>1, <1>3 DEF Timed, InWalk
<1> QED
  BY <1>3, <1>4, <1>5, <1>6 DEF IInv

\* The function of a descriptor returns, and the descriptor goes from its array.
LEMMA IoReturnsKeeps ==
  ASSUME IInv, NEW ret \in {0, 1}, IoReturns(ret)
  PROVE  IInv'
<1>1. /\ pc \in {"reads", "writes"} /\ cb' = FALSE /\ fd' = -1
      /\ pc' = pc /\ UNCHANGED <<sel, usec>>
  BY DEF IoReturns
<1>2. ev' \in EventOf(Func) /\ IoMatch(ev') /\ SameTimers(ev', ev)
  <2>1. CASE ev' = ev
    BY <2>1 DEF IInv, SameTimers
  <2>2. CASE ev' = UnregisterRead(ev, fd)
    BY <2>2, UnregisterReadOK DEF IInv
  <2>3. CASE ev' = UnregisterWrite(ev, fd)
    BY <2>3, UnregisterWriteOK DEF IInv
  <2> QED
    BY <2>1, <2>2, <2>3 DEF IoReturns
<1>3. i' \in Nat \ {0}
  BY DEF IoReturns, IInv, TypeOK
<1>4. TypeOK'
  <2>1. /\ ev'.fdmax \in Fd \cup {-1}
        /\ ev'.rfds \subseteq Fd /\ ev'.wfds \subseteq Fd
        /\ ev'.reads \in Seq(Fd) /\ ev'.writes \in Seq(Fd)
        /\ ev'.loop \in 0 .. MaxLoop
    BY <1>2 DEF IInv, TypeOK, EventOf, SameTimers
  <2>2. fd' \notin Fd
    BY <1>1, FdNat
  <2> QED
    BY <1>1, <1>3, <2>1, <2>2, Zenon DEF IInv, TypeOK
<1>5. Timed' /\ InWalk'
  BY <1>1, <1>2 DEF IInv, Timed, InWalk, SameTimers
<1> QED
  BY <1>2, <1>4, <1>5 DEF IInv

--------------------------------------------------------------------------------
\* Every step of the loop and of the callbacks keeps the invariant.
LEMMA NextInv == IInv /\ [Next]_vars => IInv'
<1> SUFFICES ASSUME IInv, [Next]_vars PROVE IInv'
  OBVIOUS
<1>1. CASE UNCHANGED vars
  BY <1>1 DEF vars, IInv, TypeOK, Timed, InWalk
<1>2. CASE Interface
  BY <1>2, InterfaceKeeps
<1>3. CASE Enter
  BY <1>3, EnterKeeps
<1>4. CASE Leave \/ SelectFails
  BY <1>4, ReturnKeeps
<1>5. CASE SelectReturns
  BY <1>5, SelectKeeps
<1>6. CASE EndOfWalk
  BY <1>6, EndOfWalkKeeps
<1>7. CASE CallEntry
  BY <1>7, CallEntryKeeps
<1>8. CASE PassEntry
  BY <1>8, PassEntryKeeps
<1>9. CASE CallbackReturns
  BY <1>9, TimeoutReturnsKeeps, IoReturnsKeeps DEF CallbackReturns
<1> QED
  BY <1>1, <1>2, <1>3, <1>4, <1>5, <1>6, <1>7, <1>8, <1>9 DEF Next, LoopStep

\* Whatever the callbacks do, event.c keeps what it needs about its arrays.
THEOREM Invariance == Spec => []IInv
BY InitInv, NextInv, PTL DEF Spec

\* Type correctness: the index of a walk, the running callback and the loop
\* counter of event.c stay in range, for any bounds.
THEOREM TypeCorrect == Spec => []TypeOK
<1>1. IInv => TypeOK
  BY DEF IInv
<1> QED
  BY <1>1, Invariance, PTL

\* The sets and the limit handed to select() are those of the registered
\* descriptors (_unregister_io and event_register_io_*).
THEOREM FdSetsCorrect == Spec => []FdSetsMatch
<1>1. IInv => FdSetsMatch
  BY DEF IInv, IoMatch, FdSetsMatch
<1> QED
  BY <1>1, Invariance, PTL

\* A registered timer keeps event_loop going: the value that stands for "no
\* timer" is never what is left of the computation of the wait.
THEOREM LoopStaysAlive == Spec => []TimersKeepLoopAlive
<1>1. IInv => TimersKeepLoopAlive
  <2>1. NoTimeout.sec = LongMax /\ LongMax \in Int
    BY EventDataAssumption DEF NoTimeout, Time
  <2> QED
    BY <2>1 DEF IInv, Timed, TimersKeepLoopAlive
<1> QED
  BY <1>1, Invariance, PTL

\* event_loop returns on its own only when nothing is registered.
THEOREM LoopReturnsIdle == Spec => ReturnsOnlyWhenIdle
<1> DEFINE Idle == Leave /\ ev.loop > 0 =>
                     ev.reads = << >> /\ ev.writes = << >> /\ ev.timeouts = << >>
<1>1. ASSUME IInv, Leave, ev.loop > 0
      PROVE  ev.reads = << >> /\ ev.writes = << >> /\ ev.timeouts = << >>
  <2>1. ev.timeout = NoTimeout /\ ev.fdmax = -1
    BY <1>1 DEF Leave, Continues
  <2>2. ev.timeouts = << >>
    <3>1. NoTimeout.sec = LongMax /\ LongMax \in Int /\ pc = "select"
      BY <1>1, EventDataAssumption DEF NoTimeout, Time, Leave
    <3> QED
      BY <1>1, <2>1, <3>1 DEF IInv, Timed
  <2> DEFINE fds == FdsOf(ev.reads) \cup FdsOf(ev.writes)
  <2>3. fds = {}
    <3>1. fds \in SUBSET Fd
      BY <1>1, FdsOfType DEF IInv, EventOf
    <3>2. MaxFd(fds) = -1
      BY <1>1, <2>1 DEF IInv, IoMatch
    <3> HIDE DEF fds
    <3>3. fds # {} => MaxFd(fds) \in Fd
      BY <3>1, MaxFdLargest
    <3> QED
      BY <3>2, <3>3, FdNat
  <2>4. ASSUME NEW s \in Seq(Fd), FdsOf(s) = {} PROVE s = << >>
    <3>1. DOMAIN s = 1 .. Len(s) /\ DOMAIN s = {}
      BY <2>4, LenProperties DEF FdsOf
    <3>2. s # << >> => Len(s) \in Nat \ {0}
      BY EmptySeq
    <3>3. Len(s) \in Nat \ {0} => 1 \in 1 .. Len(s)
      OBVIOUS
    <3> QED
      BY <3>1, <3>2, <3>3
  <2>5. ev.reads \in Seq(Fd) /\ ev.writes \in Seq(Fd)
    BY <1>1 DEF IInv, EventOf
  <2> QED
    BY <2>2, <2>3, <2>4, <2>5
<1>2. IInv /\ [Next]_vars => [Idle]_vars
  BY <1>1
<1>3. Spec => [][Idle]_vars
  BY <1>2, Invariance, PTL DEF Spec
<1> QED
  BY <1>3 DEF ReturnsOnlyWhenIdle
--------------------------------------------------------------------------------
(***************************************************************************)
(* The wait handed to select().  The delays of the repository's callers    *)
(* are whole seconds (probe.c, damon.c, appclient.c) or fractions of one   *)
(* (glut.c, glx.c): a delay with both parts would make an absolute time    *)
(* with a second or more in its microseconds survive into the next one.    *)
(***************************************************************************)
CallersDelays == \A d \in Initial : d.sec = 0 \/ d.usec = 0

\* What is left of the microseconds of a timer is less than a second, unless
\* the timer is overdue by a second.
Bounded(t, u) ==
  /\ t.at.usec >= 0
  /\ \/ t.at.usec < K
     \/ t.at.sec < 0
     \/ t.at.sec = 0 /\ t.at.usec - u < K

\* select() accepts the wait, or gets NULL.
Accepted(w) == w = NoTimeout \/ (w.sec >= 0 /\ w.usec \in 0 .. K - 1)

WaitsInv ==
  /\ \A k \in DOMAIN ev.timeouts :
       ev.timeouts[k].initial \in Initial /\ Bounded(ev.timeouts[k], usec)
  /\ Accepted(ev.timeout)

\* A wait of w is over less than a second after the timer t is due.
Covered(w, t, u) == Microseconds(w) < Larger(0, Microseconds(t.at) - u) + K

\* _loop_timeout has covered the timers before its index, and every timer is
\* covered outside of it.
SeenInv ==
  \A k \in DOMAIN ev.timeouts :
    (pc = "timeouts" => k < i) => Covered(ev.timeout, ev.timeouts[k], usec)

\* What two times that differ in their seconds differ by.
LEMMA SecondsApart ==
  ASSUME NEW a \in Int, NEW b \in Int
  PROVE  /\ a * K \in Int
         /\ a < b => a * K + K <= b * K
         /\ a <= b => a * K <= b * K
         /\ 0 <= a => 0 <= a * K
<1>1. K \in Nat \ {0}
  BY EventDataAssumption
<1>2. \A n \in Nat : n * K >= 0
  BY <1>1
<1>3. ASSUME a < b PROVE a * K + K <= b * K
  <2>1. b - a - 1 \in Nat
    BY <1>3
  <2>2. (b - a - 1) * K >= 0
    BY <1>2, <2>1
  <2>3. (b - a - 1) * K = b * K - a * K - K
    BY <1>1
  <2> QED
    BY <1>1, <2>2, <2>3
<1> QED
  BY <1>1, <1>2, <1>3

\* A registered timer, and what the invariant says of it.
LEMMA TimerTypes ==
  ASSUME IInv, NEW k \in DOMAIN ev.timeouts
  PROVE  /\ ev.timeouts[k] \in TimersOf(Func)
         /\ ev.timeouts[k].at.sec \in Int /\ ev.timeouts[k].at.usec \in Int
         /\ ev.timeouts[k].at.sec < Epoch
<1>1. ev.timeouts[k] \in TimersOf(Func)
  BY ElementOfSeq, LenProperties DEF IInv, EventOf
<1> QED
  BY <1>1 DEF TimersOf, Timeval

\* What a step does to the timers, to the wait and to what of them was seen.
SameWaits ==
  /\ ev'.timeouts = ev.timeouts /\ ev'.timeout = ev.timeout /\ usec' = usec
  /\ pc' = "timeouts" => pc = "timeouts" /\ i' = i
  /\ pc = "timeouts" /\ pc' # "timeouts" => i > Len(ev.timeouts)

Registers ==
  \E f \in Func, d \in Initial :
    ev' = RegisterTimeout(ev, usec, f, d) /\ UNCHANGED <<pc, i, usec>>

Unregisters ==
  \E f \in Cancellable :
    /\ ev' = UnregisterTimeout(ev, usec, f) /\ UNCHANGED <<pc, i, usec>>
    /\ pc # "timeouts"

Waits ==
  \E d \in Nat :
    /\ ev' = [AfterWait(ev, d) EXCEPT !.timeout = NoTimeout]
    /\ usec' = (usec + d) % K /\ pc' = "timeouts" /\ i' = 1

Passes ==
  /\ pc = "timeouts" /\ i \in DOMAIN ev.timeouts /\ ~ Due(ev.timeouts[i].at, usec)
  /\ ev' = KeepTimeout(ev, usec, i)
  /\ i' = i + 1 /\ UNCHANGED <<pc, usec>>

Rearms ==
  /\ pc = "timeouts" /\ i \in DOMAIN ev.timeouts
  /\ ev' = RearmTimeout(ev, usec, i)
  /\ i' = i + 1 /\ UNCHANGED <<pc, usec>>

Drops ==
  /\ pc = "timeouts" /\ i \in DOMAIN ev.timeouts
  /\ ev' = DropTimeout(ev, i)
  /\ UNCHANGED <<pc, i, usec>>

\* Every step is one of these.
LEMMA TimerSteps ==
  ASSUME IInv, [Next]_vars
  PROVE  SameWaits \/ Registers \/ Unregisters \/ Waits \/ Passes \/ Rearms \/ Drops
<1>0. ev \in EventOf(Func) /\ IoMatch(ev) /\ usec \in Int
  BY EventDataAssumption DEF IInv, TypeOK
<1>1. DOMAIN ev.timeouts = 1 .. Len(ev.timeouts) /\ Len(ev.timeouts) \in Nat /\ i \in Nat \ {0}
  BY LenProperties DEF IInv, EventOf, TypeOK
<1>2. CASE UNCHANGED vars
  BY <1>2 DEF vars, SameWaits
<1>3. CASE Interface
  <2>1. ASSUME NEW n \in Fd,
               \/ CallRegisterRead(n) \/ CallUnregisterRead(n)
               \/ CallRegisterWrite(n) \/ CallUnregisterWrite(n)
        PROVE  SameWaits
    <3>1. /\ UNCHANGED <<pc, i, usec>>
          /\ \/ ev' = RegisterRead(ev, n) \/ ev' = UnregisterRead(ev, n)
             \/ ev' = RegisterWrite(ev, n) \/ ev' = UnregisterWrite(ev, n)
      BY <2>1 DEF CallRegisterRead, CallUnregisterRead, CallRegisterWrite,
                  CallUnregisterWrite, Call
    <3>2. SameTimers(ev', ev)
      BY <1>0, <3>1, RegisterReadOK, RegisterWriteOK, UnregisterReadOK, UnregisterWriteOK
    <3> QED
      BY <3>1, <3>2 DEF SameTimers, SameWaits
  <2>2. ASSUME NEW f \in Func, NEW d \in Initial, CallRegisterTimeout(f, d) PROVE Registers
    BY <2>2 DEF CallRegisterTimeout, Call, Registers
  <2>3. ASSUME NEW f \in Cancellable, CallUnregisterTimeout(f) PROVE Unregisters
    BY <2>3 DEF CallUnregisterTimeout, Call, Unregisters
  <2>4. ASSUME CallQuit PROVE SameWaits
    <3>1. ev' = LoopQuit(ev) /\ UNCHANGED <<pc, i, usec>>
      BY <2>4 DEF CallQuit, Call
    <3> QED
      BY <1>0, <3>1, LoopQuitOK DEF SameWaits
  <2> QED
    BY <1>3, <2>1, <2>2, <2>3, <2>4 DEF Interface
<1>4. CASE Enter
  <2>1. /\ ev' = [ev EXCEPT !.loop = ev.loop + 1] /\ UNCHANGED <<i, usec>>
        /\ pc = "out" /\ pc' = "select"
    BY <1>4 DEF Enter
  <2>2. ev'.timeouts = ev.timeouts /\ ev'.timeout = ev.timeout
    BY <2>1 DEF IInv, EventOf
  <2> QED
    BY <2>1, <2>2 DEF SameWaits
<1>5. CASE Leave \/ SelectFails
  BY <1>5 DEF Leave, SelectFails, SameWaits
<1>6. CASE SelectReturns
  <2>1. PICK d \in 0 .. LongestWait :
          /\ ev' = [AfterWait(ev, d) EXCEPT !.timeout = NoTimeout]
          /\ usec' = (usec + d) % K /\ pc' = "timeouts" /\ i' = 1
    BY <1>6 DEF SelectReturns, Select
  <2> QED
    BY <2>1 DEF Waits
<1>7. CASE EndOfWalk
  BY <1>7 DEF EndOfWalk, Walks, Walked, WalkNext, SameWaits
<1>8. CASE CallEntry
  BY <1>8 DEF CallEntry, SameWaits
<1>9. CASE PassEntry
  <2>1. CASE pc = "timeouts"
    <3>1. /\ i <= Len(ev.timeouts) /\ ~ Due(ev.timeouts[i].at, usec)
          /\ ev' = KeepTimeout(ev, usec, i)
          /\ i' = i + 1 /\ UNCHANGED <<pc, usec>>
      BY <1>9, <2>1 DEF PassEntry, Walked, Fires
    <3> QED
      BY <1>1, <2>1, <3>1 DEF Passes
  <2>2. CASE pc # "timeouts"
    BY <1>9, <2>2 DEF PassEntry, SameWaits
  <2> QED
    BY <2>1, <2>2
<1>10. ASSUME NEW ret \in {0, 1}, TimeoutReturns(ret) PROVE Rearms \/ Drops
  <2>1. i \in DOMAIN ev.timeouts
    BY <1>1, <1>10 DEF TimeoutReturns, IInv, InWalk
  <2> QED
    BY <1>10, <2>1 DEF TimeoutReturns, Rearms, Drops
<1>11. ASSUME NEW ret \in {0, 1}, IoReturns(ret) PROVE SameWaits
  <2>1. ev' = ev \/ ev' = UnregisterRead(ev, fd) \/ ev' = UnregisterWrite(ev, fd)
    BY <1>11 DEF IoReturns
  <2>2. SameTimers(ev', ev)
    BY <1>0, <2>1, UnregisterReadOK, UnregisterWriteOK DEF SameTimers
  <2>3. pc # "timeouts" /\ UNCHANGED <<pc, usec>>
    BY <1>11 DEF IoReturns
  <2> QED
    BY <2>2, <2>3 DEF SameTimers, SameWaits
<1> QED
  BY <1>2, <1>3, <1>4, <1>5, <1>6, <1>7, <1>8, <1>9, <1>10, <1>11
     DEF Next, LoopStep, CallbackReturns

\* A timer is armed within the bounds, and a delay is a wait select() accepts.
LEMMA ArmedBounded ==
  ASSUME CallersDelays, NEW d \in Initial, NEW u \in 0 .. K - 1, NEW t,
         t.at = Time(d.sec, u + d.usec)
  PROVE  Bounded(t, u) /\ Accepted(d)
<1>1. d.sec \in Nat /\ d.usec \in 0 .. K - 1 /\ (d.sec = 0 \/ d.usec = 0)
  BY EventAssumption, EventDataAssumption DEF CallersDelays
<1>2. t.at.sec = d.sec /\ t.at.usec = u + d.usec /\ K \in Nat
  BY EventDataAssumption DEF Time
<1> QED
  BY <1>1, <1>2 DEF Bounded, Accepted

\* Time passes: the timers stay within the bounds.
LEMMA NearerBounded ==
  ASSUME NEW t, t.at.sec \in Int, t.at.usec \in Int, NEW u \in 0 .. K - 1, NEW d \in Nat,
         Bounded(t, u), NEW n, n.at.sec = t.at.sec - ((u + d) \div K),
         n.at.usec = t.at.usec
  PROVE  Bounded(n, (u + d) % K)
<1> DEFINE q == (u + d) \div K
           v == (u + d) % K
<1>1. K \in Nat \ {0} /\ u \in Nat /\ u < K
  BY EventDataAssumption
<1>2. q \in Nat /\ v \in 0 .. K - 1 /\ u + d = q * K + v
  <2>1. u + d \in Nat
    BY <1>1
  <2> HIDE DEF q, v
  <2>2. q \in Int /\ v \in 0 .. K - 1 /\ u + d = K * q + v
    BY <1>1, <2>1 DEF q, v
  <2>3. q >= 0
    <3>1. q < 0 => q * K + K <= 0 * K
      BY <2>2, SecondsApart
    <3>2. q * K = K * q /\ q * K \in Int /\ 0 * K = 0
      BY <1>1, <2>2
    <3> QED
      BY <1>1, <2>1, <2>2, <3>1, <3>2
  <2> QED
    BY <1>1, <2>2, <2>3
<1> HIDE DEF q, v
<1>3. CASE q = 0
  <2>1. v = u + d
    BY <1>1, <1>2, <1>3
  <2> QED
    BY <1>1, <1>2, <1>3, <2>1 DEF Bounded, q, v
<1>4. CASE q > 0
  BY <1>1, <1>2, <1>4 DEF Bounded, q, v
<1> QED
  BY <1>2, <1>3, <1>4

\* The wait computed for a timer that is not due.
LEMMA WaitUntilAccepted ==
  ASSUME NEW t, t.at.sec \in Int, t.at.usec \in Int, NEW u \in 0 .. K - 1,
         Bounded(t, u), ~ Due(t.at, u)
  PROVE  /\ WaitUntil(t.at, u).sec \in Nat
         /\ WaitUntil(t.at, u).usec \in 0 .. K - 1
BY EventDataAssumption DEF WaitUntil, Due, Bounded, Time

\* The wait event_unregister_timeout computes for a timer.
LEMMA WaitAfterUnregisterAccepted ==
  ASSUME NEW t, t.at.sec \in Int, t.at.usec \in Int, NEW u \in 0 .. K - 1, Bounded(t, u)
  PROVE  Accepted(WaitAfterUnregister(t.at, u))
BY EventDataAssumption DEF WaitAfterUnregister, Bounded, Accepted, Time, Larger

\* The wait event_unregister_timeout leaves.
LEMMA WaitForAllAccepted ==
  ASSUME NEW left \in Seq(TimersOf(Func)), NEW u \in 0 .. K - 1,
         \A k \in DOMAIN left : Bounded(left[k], u)
  PROVE  Accepted(WaitForAll(left, u))
<1> DEFINE f == CHOOSE f : IsWait(f, left, u, Len(left))
<1>1. Len(left) \in Nat /\ DOMAIN left = 1 .. Len(left)
  BY LenProperties
<1>2. IsWait(f, left, u, Len(left))
  <2>1. \E g : IsWait(g, left, u, Len(left))
    BY <1>1, WaitExists
  <2> QED
    BY <2>1
<1>3. WaitForAll(left, u) = f[Len(left)]
  BY Zenon DEF WaitForAll, IsWait
<1> HIDE DEF f
<1>4. Accepted(f[0])
  BY <1>1, <1>2 DEF IsWait, Accepted
<1>5. ASSUME NEW n \in 1 .. Len(left), Accepted(f[n - 1]) PROVE Accepted(f[n])
  <2> DEFINE a == WaitAfterUnregister(left[n].at, u)
  <2>1. f[n] \in {a, f[n - 1]}
    <3>1. n \in 0 .. Len(left) /\ n # 0
      BY <1>1
    <3> QED
      BY <1>2, <3>1 DEF IsWait
  <2>2. Accepted(a)
    <3>1. left[n].at.sec \in Int /\ left[n].at.usec \in Int
      BY <1>1 DEF TimersOf, Timeval
    <3>2. Bounded(left[n], u)
      BY <1>1
    <3> QED
      BY <3>1, <3>2, WaitAfterUnregisterAccepted
  <2> HIDE DEF a
  <2> QED
    BY <1>5, <2>1, <2>2
<1> DEFINE T == {n \in 0 .. Len(left) : ~ Accepted(f[n])}
<1>6. T = {}
  <2> SUFFICES ASSUME T # {} PROVE FALSE
    OBVIOUS
  <2>1. PICK m \in T : \A n \in T : m <= n
    <3>1. T \in SUBSET Nat
      BY <1>1
    <3> HIDE DEF T
    <3> QED
      BY <3>1, NatMin
  <2>2. m \in 1 .. Len(left)
    BY <1>1, <1>4, <2>1
  <2>3. Accepted(f[m - 1])
    BY <1>1, <2>1, <2>2
  <2> QED
    BY <1>5, <2>1, <2>2, <2>3
<1> QED
  BY <1>1, <1>3, <1>6

\* An array of timers after one was appended, replaced or removed.
LEMMA AppendedTimers ==
  ASSUME NEW S, NEW s \in Seq(S), NEW x
  PROVE  /\ DOMAIN s = 1 .. Len(s) /\ Len(s) \in Nat
         /\ DOMAIN Append(s, x) = 1 .. Len(s) + 1
         /\ \A k \in 1 .. Len(s) : Append(s, x)[k] = s[k]
         /\ Append(s, x)[Len(s) + 1] = x
BY LenProperties

\* The two parts of a concatenation.
LEMMA ConcatAt ==
  ASSUME NEW S, NEW a \in Seq(S), NEW b \in Seq(S)
  PROVE  /\ \A k \in 1 .. Len(a) : (a \o b)[k] = a[k]
         /\ \A k \in 1 .. Len(b) : (a \o b)[Len(a) + k] = b[k]
OBVIOUS

\* What DropTimeout leaves of an array of timers.
Removed(s, j) == SubSeq(s, 1, j - 1) \o SubSeq(s, j + 1, Len(s))

\* It keeps the entries before the index where they were.
LEMMA RemovedTimers ==
  ASSUME NEW S, NEW s \in Seq(S), NEW j \in DOMAIN s,
         NEW t, NEW k \in DOMAIN t,
         t = Removed(s, j)
  PROVE  /\ k < j => k \in DOMAIN s /\ t[k] = s[k]
         /\ \E n \in DOMAIN s : t[k] = s[n]
<1> DEFINE a == SubSeq(s, 1, j - 1)
           b == SubSeq(s, j + 1, Len(s))
<1>1. PICK m \in Nat, n \in Nat : DOMAIN s = 1 .. Len(s) /\ j = m + 1 /\ Len(s) = j + n
  <2>1. DOMAIN s = 1 .. Len(s) /\ Len(s) \in Nat /\ j \in 1 .. Len(s)
    BY LenProperties
  <2>2. j - 1 \in Nat /\ Len(s) - j \in Nat
    BY <2>1
  <2>3. j = (j - 1) + 1 /\ Len(s) = j + (Len(s) - j)
    BY <2>1
  <2> QED
    BY <2>1, <2>2, <2>3
<1>2. a \in Seq(S) /\ Len(a) = m /\ \A x \in 1 .. m : a[x] = s[x]
  BY <1>1, SubSeqProperties
<1>3. b \in Seq(S) /\ Len(b) = n /\ \A x \in 1 .. n : b[x] = s[j + x]
  BY <1>1, SubSeqProperties
<1>4. t = a \o b
  BY DEF a, b, Removed
<1> HIDE DEF a, b
<1>5. /\ DOMAIN t = 1 .. m + n
      /\ \A x \in 1 .. m : t[x] = a[x]
      /\ \A x \in 1 .. n : t[m + x] = b[x]
  <2>1. t \in Seq(S) /\ Len(t) = m + n
    BY <1>2, <1>3, <1>4, ConcatProperties
  <2>2. DOMAIN t = 1 .. m + n
    BY <2>1, LenProperties
  <2>3. /\ \A x \in 1 .. Len(a) : (a \o b)[x] = a[x]
        /\ \A x \in 1 .. Len(b) : (a \o b)[Len(a) + x] = b[x]
    BY <1>2, <1>3, ConcatAt
  <2> QED
    BY <1>2, <1>3, <1>4, <2>2, <2>3, Zenon
<1>6. CASE k \in 1 .. m
  <2>1. t[k] = s[k] /\ k \in DOMAIN s
    BY <1>1, <1>2, <1>5, <1>6
  <2> QED
    BY <2>1
<1>7. CASE k \notin 1 .. m
  <2>1. PICK p \in 1 .. n : k = m + p
    <3>1. k - m \in 1 .. n /\ k = m + (k - m)
      BY <1>5, <1>7
    <3> QED
      BY <3>1
  <2>2. t[k] = s[j + p] /\ j + p \in DOMAIN s
    <3>1. t[m + p] = b[p] /\ b[p] = s[j + p]
      BY <1>3, <1>5
    <3>2. j + p \in 1 .. Len(s)
      BY <1>1
    <3> QED
      BY <1>1, <2>1, <3>1, <3>2
  <2> QED
    BY <1>1, <2>1, <2>2
<1> QED
  BY <1>6, <1>7

\* There is nothing to wait for at first.
LEMMA InitWaits == Init => WaitsInv
<1> SUFFICES ASSUME Init PROVE WaitsInv
  OBVIOUS
<1>1. ev.timeouts = << >> /\ ev.timeout = NoTimeout
  BY DEF Init, NewEvent
<1> QED
  BY <1>1 DEF WaitsInv, Accepted

\* The steps of the interface keep the waits.
LEMMA RegistersWaits ==
  ASSUME IInv, WaitsInv, CallersDelays, Registers
  PROVE  WaitsInv'
<1>1. usec \in 0 .. K - 1 /\ usec' = usec /\ ev \in EventOf(Func)
  BY DEF IInv, TypeOK, Registers
<1>2. PICK f \in Func, d \in Initial : ev' = RegisterTimeout(ev, usec, f, d)
  BY DEF Registers
<1> DEFINE timer == [func |-> f, initial |-> d, at |-> Time(d.sec, usec + d.usec)]
<1>3. /\ ev'.timeouts = Append(ev.timeouts, timer)
      /\ ev'.timeout \in {d, ev.timeout}
  BY <1>1, <1>2 DEF RegisterTimeout, EventOf
<1>4. timer.initial = d /\ timer.at = Time(d.sec, usec + d.usec)
  OBVIOUS
<1> HIDE DEF timer
<1>5. Bounded(timer, usec) /\ Accepted(d)
  BY <1>1, <1>4, ArmedBounded
<1>6. ASSUME NEW k \in DOMAIN ev'.timeouts
      PROVE  ev'.timeouts[k].initial \in Initial /\ Bounded(ev'.timeouts[k], usec)
  <2>1. \/ k \in DOMAIN ev.timeouts /\ ev'.timeouts[k] = ev.timeouts[k]
        \/ ev'.timeouts[k] = timer
    BY <1>1, <1>3, AppendedTimers DEF EventOf
  <2> QED
    BY <1>4, <1>5, <2>1 DEF WaitsInv
<1> QED
  BY <1>1, <1>3, <1>5, <1>6 DEF WaitsInv

\* event_unregister_timeout finds the waits again.
LEMMA UnregistersWaits ==
  ASSUME IInv, WaitsInv, Unregisters
  PROVE  WaitsInv'
<1>1. usec \in 0 .. K - 1 /\ usec' = usec /\ ev \in EventOf(Func)
  BY DEF IInv, TypeOK, Unregisters
<1>2. PICK f \in Cancellable : ev' = UnregisterTimeout(ev, usec, f)
  BY DEF Unregisters
<1> DEFINE I == {k \in DOMAIN ev.timeouts : ev.timeouts[k].func # f}
           left == Kept(ev.timeouts, I)
<1>3. ev'.timeouts = left /\ ev'.timeout = WaitForAll(left, usec)
  BY <1>1, <1>2 DEF UnregisterTimeout, EventOf
<1>4. /\ left \in Seq(TimersOf(Func))
      /\ FdsOf(left) = {ev.timeouts[k] : k \in DOMAIN ev.timeouts \cap I}
  BY <1>1, KeptElements DEF EventOf
<1> HIDE DEF left
<1>5. ASSUME NEW k \in DOMAIN left
      PROVE  left[k].initial \in Initial /\ Bounded(left[k], usec)
  <2>1. left[k] \in FdsOf(left)
    BY DEF FdsOf
  <2>2. PICK n \in DOMAIN ev.timeouts : left[k] = ev.timeouts[n]
    BY <1>4, <2>1
  <2> QED
    BY <2>2 DEF WaitsInv
<1>6. Accepted(WaitForAll(left, usec))
  BY <1>1, <1>4, <1>5, WaitForAllAccepted
<1> QED
  BY <1>1, <1>3, <1>5, <1>6 DEF WaitsInv

\* select() returns after some time.
LEMMA WaitsWaits ==
  ASSUME IInv, WaitsInv, Waits
  PROVE  WaitsInv'
<1>1. usec \in 0 .. K - 1 /\ ev \in EventOf(Func)
  BY DEF IInv, TypeOK
<1>2. PICK d \in Nat : /\ ev' = [AfterWait(ev, d) EXCEPT !.timeout = NoTimeout]
                       /\ usec' = (usec + d) % K
  BY DEF Waits
<1> DEFINE Nearer(k) == [ev.timeouts[k] EXCEPT !.at.sec = @ - ((usec + d) \div K)]
           all == [k \in DOMAIN ev.timeouts |-> Nearer(k)]
<1>3. AfterWait(ev, d) = [ev EXCEPT !.timeouts = all]
  BY DEF AfterWait
<1>4. ev'.timeouts = all /\ ev'.timeout = NoTimeout
  <2> HIDE DEF all
  <2> QED
    BY <1>1, <1>2, <1>3 DEF EventOf
<1>5. ASSUME NEW k \in DOMAIN ev.timeouts
      PROVE  Nearer(k).initial \in Initial /\ Bounded(Nearer(k), usec')
  <2> DEFINE t == ev.timeouts[k]
             q == (usec + d) \div K
  <2>1. t \in TimersOf(Func) /\ t.at.sec \in Int /\ t.at.usec \in Int
    BY TimerTypes
  <2>2. t.initial \in Initial /\ Bounded(t, usec)
    BY DEF WaitsInv
  <2> HIDE DEF t
  <2>3. Nearer(k) = [t EXCEPT !.at.sec = t.at.sec - q]
    BY DEF t
  <2> HIDE DEF Nearer, q
  <2>4. Nearer(k).initial = t.initial /\ Nearer(k).at.sec = t.at.sec - q
        /\ Nearer(k).at.usec = t.at.usec
    BY <2>1, <2>3 DEF TimersOf, Timeval
  <2>5. Bounded(Nearer(k), (usec + d) % K)
    BY <1>1, <2>1, <2>2, <2>4, NearerBounded DEF q
  <2> QED
    BY <1>2, <2>2, <2>4, <2>5
<1> HIDE DEF Nearer
<1> QED
  BY <1>4, <1>5 DEF WaitsInv, Accepted

\* The steps of _loop_timeout.
LEMMA PassesWaits ==
  ASSUME IInv, WaitsInv, Passes
  PROVE  WaitsInv'
<1>1. usec \in 0 .. K - 1 /\ usec' = usec /\ ev \in EventOf(Func)
  BY DEF IInv, TypeOK, Passes
<1> DEFINE t == ev.timeouts[i]
<1>2. i \in DOMAIN ev.timeouts /\ ~ Due(t.at, usec) /\ ev' = KeepTimeout(ev, usec, i)
  BY DEF Passes
<1>3. t.at.sec \in Int /\ t.at.usec \in Int /\ Bounded(t, usec)
  BY <1>2, TimerTypes DEF WaitsInv
<1>4. /\ ev'.timeouts = ev.timeouts
      /\ ev'.timeout \in {WaitUntil(t.at, usec), ev.timeout}
  BY <1>1, <1>2 DEF KeepTimeout, EventOf
<1> HIDE DEF t
<1>5. Accepted(WaitUntil(t.at, usec))
  BY <1>1, <1>2, <1>3, WaitUntilAccepted DEF Accepted
<1> QED
  BY <1>1, <1>4, <1>5 DEF WaitsInv

\* A timer armed again is within the bounds.
LEMMA RearmsWaits ==
  ASSUME IInv, WaitsInv, CallersDelays, Rearms
  PROVE  WaitsInv'
<1>1. usec \in 0 .. K - 1 /\ usec' = usec /\ ev \in EventOf(Func)
  BY DEF IInv, TypeOK, Rearms
<1>2. i \in DOMAIN ev.timeouts /\ ev' = RearmTimeout(ev, usec, i)
  BY DEF Rearms
<1> DEFINE t == ev.timeouts[i]
           d == t.initial
           timer == [t EXCEPT !.at = Time(d.sec, usec + d.usec)]
           all == [ev.timeouts EXCEPT ![i] = timer]
<1>3. /\ ev'.timeouts = all
      /\ ev'.timeout \in {d, ev.timeout}
  BY <1>1, <1>2 DEF RearmTimeout, EventOf
<1>4. t \in TimersOf(Func) /\ d \in Initial
  BY <1>2, TimerTypes DEF WaitsInv
<1> HIDE DEF t
<1>5. timer.initial = d /\ timer.at = Time(d.sec, usec + d.usec)
  BY <1>4 DEF TimersOf
<1> HIDE DEF timer
<1>6. Bounded(timer, usec) /\ Accepted(d)
  BY <1>1, <1>4, <1>5, ArmedBounded
<1>7. ASSUME NEW k \in DOMAIN all
      PROVE  all[k].initial \in Initial /\ Bounded(all[k], usec)
  <2>1. k \in DOMAIN ev.timeouts /\ all[k] \in {timer, ev.timeouts[k]}
    OBVIOUS
  <2> QED
    BY <1>4, <1>5, <1>6, <2>1 DEF WaitsInv
<1> HIDE DEF all, d
<1> QED
  BY <1>1, <1>3, <1>6, <1>7 DEF WaitsInv

\* The timers left are those there were.
LEMMA DropsWaits ==
  ASSUME IInv, WaitsInv, Drops
  PROVE  WaitsInv'
<1>1. usec' = usec /\ ev \in EventOf(Func)
  BY DEF IInv, Drops
<1>2. i \in DOMAIN ev.timeouts /\ ev' = DropTimeout(ev, i)
  BY DEF Drops
<1>3. ev'.timeouts = Removed(ev.timeouts, i) /\ ev'.timeout = ev.timeout
  BY <1>1, <1>2 DEF DropTimeout, EventOf, Removed
<1>4. ASSUME NEW k \in DOMAIN ev'.timeouts
      PROVE  \E n \in DOMAIN ev.timeouts : ev'.timeouts[k] = ev.timeouts[n]
  <2>1. ev.timeouts \in Seq(TimersOf(Func))
    BY <1>1 DEF EventOf
  <2> QED
    BY <1>2, <1>3, <2>1, RemovedTimers
<1> QED
  BY <1>1, <1>3, <1>4 DEF WaitsInv

\* Every step keeps the waits, if the delays are those of the callers.
LEMMA NextWaits ==
  ASSUME CallersDelays, IInv, WaitsInv, [Next]_vars
  PROVE  WaitsInv'
<1>1. CASE SameWaits
  BY <1>1 DEF SameWaits, WaitsInv
<1> QED
  BY <1>1, TimerSteps, RegistersWaits, UnregistersWaits, WaitsWaits, PassesWaits,
     RearmsWaits, DropsWaits

\* select() accepts every wait that event.c computes, whatever the callbacks
\* register and cancel, if each delay is of the callers' kind.
THEOREM WaitsAccepted ==
  ASSUME CallersDelays
  PROVE  Spec => []SelectArgumentValid
<1>1. IInv /\ WaitsInv /\ [Next]_vars => WaitsInv'
  BY NextWaits
<1>2. WaitsInv => SelectArgumentValid
  BY DEF WaitsInv, Accepted, SelectArgumentValid
<1> QED
  BY <1>1, <1>2, InitWaits, Invariance, PTL DEF Spec

--------------------------------------------------------------------------------
\* A wait that is not NoTimeout.
Proper(w) == w.sec \in Int /\ w.usec \in 0 .. K - 1

\* The comparison spelled out in event.c is the one of the durations.
LEMMA EarlierWaits ==
  ASSUME NEW a, NEW b, Proper(a), Proper(b)
  PROVE  /\ Microseconds(a) \in Int
         /\ Earlier(a, b) => Microseconds(a) <= Microseconds(b)
         /\ ~ Earlier(a, b) => Microseconds(b) <= Microseconds(a)
<1>1. /\ a.sec \in Int /\ b.sec \in Int /\ a.usec \in Int /\ b.usec \in Int /\ K \in Int
      /\ 0 <= a.usec /\ a.usec < K /\ 0 <= b.usec /\ b.usec < K
  BY EventDataAssumption DEF Proper
<1>2. /\ a.sec * K \in Int /\ b.sec * K \in Int
      /\ a.sec < b.sec => a.sec * K + K <= b.sec * K
      /\ b.sec < a.sec => b.sec * K + K <= a.sec * K
  BY <1>1, SecondsApart
<1> DEFINE p == a.sec * K
           q == b.sec * K
<1>3. Microseconds(a) = p + a.usec /\ Microseconds(b) = q + b.usec
  BY DEF Microseconds
<1>4. a.sec = b.sec => p = q
  OBVIOUS
<1> HIDE DEF p, q
<1>5. /\ p \in Int /\ q \in Int
      /\ a.sec < b.sec => p + K <= q
      /\ b.sec < a.sec => q + K <= p
  BY <1>2 DEF p, q
<1> QED
  BY <1>1, <1>3, <1>4, <1>5 DEF Earlier

\* A shorter wait covers what a longer one does.
LEMMA ShorterCovers ==
  ASSUME NEW w, NEW n, NEW t, NEW u \in Int, Proper(w), Proper(n), t.at.sec \in Int,
         t.at.usec \in Int, Microseconds(n) <= Microseconds(w), Covered(w, t, u)
  PROVE  Covered(n, t, u)
<1>1. /\ Microseconds(n) \in Int /\ Microseconds(w) \in Int /\ K \in Int
      /\ Microseconds(t.at) \in Int
  BY SecondsApart, EventDataAssumption DEF Microseconds, Proper
<1> DEFINE x == Larger(0, Microseconds(t.at) - u)
<1>2. x \in Int
  BY <1>1 DEF Larger
<1>3. Microseconds(w) < x + K
  BY DEF Covered
<1> HIDE DEF x
<1>4. Microseconds(n) < x + K
  BY <1>1, <1>2, <1>3
<1> QED
  BY <1>4 DEF Covered, x

\* A timer that is armed for a delay is covered by the shorter of the delay and
\* the wait there was, and so is what the wait covered.
LEMMA ArmedCovered ==
  ASSUME NEW d \in Initial, NEW w, w = NoTimeout \/ Proper(w), NEW u \in 0 .. K - 1,
         NEW t, t.at = Time(d.sec, u + d.usec)
  PROVE  LET n == IF Earlier(d, w) THEN d ELSE w
         IN  /\ Covered(n, t, u)
             /\ Proper(n)
             /\ Proper(w) => Microseconds(n) <= Microseconds(w)
<1> DEFINE n == IF Earlier(d, w) THEN d ELSE w
<1>1. Proper(d) /\ d.sec < Epoch /\ u \in Int /\ K \in Nat \ {0}
  BY EventAssumption, EventDataAssumption DEF Proper
<1>2. w = NoTimeout => n = d
  BY <1>1, EventDataAssumption DEF NoTimeout, Time, Earlier, Proper
<1>3. Proper(n)
  BY <1>1, <1>2
<1>4. Proper(w) => Microseconds(n) <= Microseconds(w) /\ Microseconds(n) <= Microseconds(d)
  BY <1>1, EarlierWaits
<1>5. Microseconds(n) <= Microseconds(d) /\ Microseconds(n) \in Int /\ Microseconds(d) \in Int
  BY <1>1, <1>2, <1>3, <1>4, EarlierWaits
<1>6. Microseconds(t.at) - u = Microseconds(d)
  <2>1. Microseconds(t.at) = d.sec * K + (u + d.usec) /\ Microseconds(d) = d.sec * K + d.usec
    BY DEF Microseconds, Time
  <2>2. d.sec * K \in Int /\ d.usec \in Int
    BY <1>1, SecondsApart DEF Proper
  <2> QED
    BY <1>1, <2>1, <2>2
<1> HIDE DEF n
<1>7. Covered(n, t, u)
  BY <1>1, <1>5, <1>6 DEF Covered, Larger
<1> QED
  BY <1>3, <1>4, <1>7 DEF n

\* _loop_timeout covers the timer it passes, less than a second beyond, and what
\* it had covered.
LEMMA PassedCovered ==
  ASSUME NEW t, t.at.sec \in Int, t.at.usec \in Int, t.at.sec < Epoch,
         NEW u \in 0 .. K - 1, Bounded(t, u), ~ Due(t.at, u),
         NEW w, w = NoTimeout \/ Proper(w)
  PROVE  LET n == IF Earlier(Time(t.at.sec, t.at.usec - u), w) THEN WaitUntil(t.at, u) ELSE w
         IN  /\ Covered(n, t, u)
             /\ Proper(n)
             /\ Proper(w) => Microseconds(n) <= Microseconds(w)
<1> DEFINE a == Time(t.at.sec, t.at.usec - u)
           v == WaitUntil(t.at, u)
           n == IF Earlier(a, w) THEN v ELSE w
<1>1. /\ u \in Int /\ K \in Int /\ 0 <= u /\ u < K /\ t.at.usec >= 0
      /\ a.sec = t.at.sec /\ a.usec = t.at.usec - u
  BY EventDataAssumption DEF Time, Bounded
<1>2. Proper(v) /\ v.sec >= 0
  BY WaitUntilAccepted DEF Proper
<1>3. w = NoTimeout => n = v
  BY EventDataAssumption DEF NoTimeout, Time, Earlier
<1>4. Proper(n)
  BY <1>2, <1>3
<1> DEFINE p == t.at.sec * K
           e == Microseconds(t.at) - u
<1>5. p \in Int /\ e = p + t.at.usec - u /\ e \in Int
  BY <1>1, SecondsApart DEF Microseconds
<1>6. CASE t.at.usec >= u
  <2>1. v = a
    BY <1>6 DEF WaitUntil
  <2>2. Microseconds(a) = e
    BY <1>1, <1>5 DEF Microseconds
  <2>3. Proper(w) => Microseconds(n) <= Microseconds(w) /\ Microseconds(n) <= e
    BY <1>2, <2>1, <2>2, EarlierWaits
  <2>4. Microseconds(n) <= e /\ Microseconds(n) \in Int
    BY <1>2, <1>3, <1>4, <2>1, <2>2, <2>3, EarlierWaits
  <2> HIDE DEF n, e
  <2>5. Covered(n, t, u)
    BY <1>1, <1>5, <2>4 DEF Covered, Larger, e
  <2> QED
    BY <1>4, <2>3, <2>5 DEF n
<1>7. CASE t.at.usec < u
  <2>1. v = Time(t.at.sec - 1, u - t.at.usec)
    BY <1>1, <1>7 DEF WaitUntil
  <2>2. Microseconds(v) = p - K + u - t.at.usec
    <3>1. (t.at.sec - 1) * K = p - K
      BY <1>1
    <3> QED
      BY <1>1, <1>5, <2>1, <3>1 DEF Microseconds, Time
  <2>3. Microseconds(v) < p /\ Microseconds(v) < e + K
    BY <1>1, <1>5, <1>7, <2>2
  <2>4. ASSUME Proper(w)
        PROVE  /\ Microseconds(w) = w.sec * K + w.usec /\ w.sec * K \in Int
               /\ t.at.sec <= w.sec => p <= w.sec * K
               /\ w.sec < t.at.sec => w.sec * K + K <= p
               /\ w.sec \in Int /\ w.usec \in Int /\ 0 <= w.usec /\ w.usec < K
    BY <1>1, <2>4, SecondsApart DEF Microseconds, Proper
  <2> DEFINE q == w.sec * K
  <2>5. ASSUME Proper(w), Earlier(a, w) PROVE Microseconds(n) <= Microseconds(w)
    <3>1. t.at.sec <= w.sec
      BY <1>1, <2>4, <2>5 DEF Earlier
    <3> HIDE DEF p, q
    <3>2. p <= q /\ q \in Int /\ Microseconds(w) = q + w.usec /\ w.usec \in Nat
      BY <2>4, <2>5, <3>1 DEF p, q
    <3> QED
      BY <1>1, <1>5, <1>7, <2>2, <2>3, <2>5, <3>2
  <2>6. ASSUME Proper(w), ~ Earlier(a, w) PROVE Microseconds(w) < e + K
    <3>1. w.sec < t.at.sec
      BY <1>1, <1>7, <2>4, <2>6 DEF Earlier
    <3> HIDE DEF p, q
    <3>2. q + K <= p /\ q \in Int /\ Microseconds(w) = q + w.usec
          /\ w.usec \in Int /\ w.usec < K
      BY <2>4, <2>6, <3>1 DEF p, q
    <3> HIDE DEF e
    <3> QED
      BY <1>1, <1>5, <1>7, <3>2
  <2>7. Proper(w) => Microseconds(n) <= Microseconds(w)
    <3>1. Proper(w) => Microseconds(w) \in Int
      BY <2>4
    <3> QED
      BY <2>5, <3>1
  <2>8. Microseconds(n) < e + K /\ Microseconds(n) \in Int
    <3>1. Microseconds(n) \in Int
      BY <1>4, EarlierWaits
    <3> QED
      BY <1>3, <2>3, <2>6, <3>1
  <2> HIDE DEF n, e
  <2>9. Covered(n, t, u)
    BY <1>1, <1>5, <2>8 DEF Covered, Larger, e
  <2> QED
    BY <1>4, <2>7, <2>9 DEF n
<1> QED
  BY <1>1, <1>6, <1>7

\* The timers seen, for which there is a wait.
Seen(k) == k \in DOMAIN ev.timeouts /\ (pc = "timeouts" => k < i)

\* There is a wait as soon as a timer was seen.
LEMMA WaitProper ==
  ASSUME IInv, WaitsInv
  PROVE  /\ ev.timeout = NoTimeout \/ Proper(ev.timeout)
         /\ (\E k : Seen(k)) => Proper(ev.timeout)
<1>1. ev.timeout = NoTimeout \/ Proper(ev.timeout)
  BY DEF WaitsInv, Accepted, Proper, IInv, EventOf, Timeval
<1>2. ASSUME NEW k, Seen(k) PROVE Proper(ev.timeout)
  <2>1. /\ k \in 1 .. Len(ev.timeouts) /\ Len(ev.timeouts) \in Nat /\ i \in Nat
        /\ ev.timeouts # << >>
    <3>1. DOMAIN ev.timeouts = 1 .. Len(ev.timeouts) /\ Len(ev.timeouts) \in Nat
      BY LenProperties DEF IInv, EventOf
    <3>2. k \in DOMAIN ev.timeouts /\ i \in Nat
      BY <1>2 DEF Seen, IInv, TypeOK
    <3>3. ev.timeouts # << >>
      BY <3>1, <3>2
    <3> QED
      BY <3>1, <3>2, <3>3
  <2>2. ev.timeout.sec < LongMax
    BY <1>2, <2>1 DEF Seen, IInv, Timed
  <2>3. NoTimeout.sec = LongMax /\ LongMax \in Int
    BY EventDataAssumption DEF NoTimeout, Time
  <2> QED
    BY <1>1, <2>2, <2>3
<1> QED
  BY <1>1, <1>2

\* A timer seen is covered, says the invariant.
LEMMA SeenCovered ==
  ASSUME SeenInv, NEW k, Seen(k)
  PROVE  Covered(ev.timeout, ev.timeouts[k], usec)
BY DEF SeenInv, Seen

\* What was seen is still covered after a step that does not lengthen the wait.
LEMMA StillCovered ==
  ASSUME IInv, WaitsInv, SeenInv, NEW k, Seen(k), NEW n, Proper(n),
         Proper(ev.timeout) => Microseconds(n) <= Microseconds(ev.timeout)
  PROVE  Covered(n, ev.timeouts[k], usec)
<1>1. Proper(ev.timeout) /\ Covered(ev.timeout, ev.timeouts[k], usec)
  BY WaitProper, SeenCovered
<1>2. ev.timeouts[k].at.sec \in Int /\ ev.timeouts[k].at.usec \in Int /\ usec \in Int
  BY TimerTypes, EventDataAssumption DEF Seen, IInv, TypeOK
<1>3. Microseconds(n) <= Microseconds(ev.timeout)
  BY <1>1
<1> QED
  BY <1>1, <1>2, <1>3, ShorterCovers

\* A new timer is covered, in or out of _loop_timeout.
LEMMA RegistersSeen ==
  ASSUME IInv, WaitsInv, SeenInv, Registers
  PROVE  SeenInv'
<1>1. /\ usec \in 0 .. K - 1 /\ UNCHANGED <<pc, i, usec>> /\ ev \in EventOf(Func)
      /\ ev.timeout = NoTimeout \/ Proper(ev.timeout)
  BY WaitProper DEF IInv, TypeOK, Registers
<1>2. PICK f \in Func, d \in Initial : ev' = RegisterTimeout(ev, usec, f, d)
  BY DEF Registers
<1> DEFINE timer == [func |-> f, initial |-> d, at |-> Time(d.sec, usec + d.usec)]
           n == IF Earlier(d, ev.timeout) THEN d ELSE ev.timeout
<1>3. ev'.timeouts = Append(ev.timeouts, timer) /\ ev'.timeout = n
  BY <1>1, <1>2 DEF RegisterTimeout, EventOf
<1>4. timer.at = Time(d.sec, usec + d.usec)
  OBVIOUS
<1> HIDE DEF timer
<1>5. /\ Covered(n, timer, usec) /\ Proper(n)
      /\ Proper(ev.timeout) => Microseconds(n) <= Microseconds(ev.timeout)
  BY <1>1, <1>4, ArmedCovered
<1> HIDE DEF n
<1>6. ASSUME NEW k \in DOMAIN ev'.timeouts, pc = "timeouts" => k < i
      PROVE  Covered(n, ev'.timeouts[k], usec)
  <2>1. \/ k \in DOMAIN ev.timeouts /\ ev'.timeouts[k] = ev.timeouts[k]
        \/ ev'.timeouts[k] = timer
    BY <1>1, <1>3, AppendedTimers DEF EventOf
  <2>2. CASE k \in DOMAIN ev.timeouts /\ ev'.timeouts[k] = ev.timeouts[k]
    <3>1. Seen(k)
      BY <1>6, <2>2 DEF Seen
    <3> QED
      BY <1>5, <2>2, <3>1, StillCovered
  <2>3. CASE ev'.timeouts[k] = timer
    BY <1>5, <2>3
  <2> QED
    BY <2>1, <2>2, <2>3
<1> QED
  BY <1>1, <1>3, <1>6 DEF SeenInv

\* The timer that is not due is covered.
LEMMA PassesSeen ==
  ASSUME IInv, WaitsInv, SeenInv, Passes
  PROVE  SeenInv'
<1>1. /\ usec \in 0 .. K - 1 /\ UNCHANGED <<pc, usec>> /\ i' = i + 1 /\ ev \in EventOf(Func)
      /\ ev.timeout = NoTimeout \/ Proper(ev.timeout)
      /\ pc = "timeouts" /\ i \in Nat
  BY WaitProper DEF IInv, TypeOK, Passes
<1> DEFINE t == ev.timeouts[i]
           n == IF Earlier(Time(t.at.sec, t.at.usec - usec), ev.timeout)
                THEN WaitUntil(t.at, usec) ELSE ev.timeout
<1>2. i \in DOMAIN ev.timeouts /\ ~ Due(t.at, usec) /\ ev' = KeepTimeout(ev, usec, i)
  BY DEF Passes
<1>3. t.at.sec \in Int /\ t.at.usec \in Int /\ t.at.sec < Epoch /\ Bounded(t, usec)
  BY <1>2, TimerTypes DEF WaitsInv
<1>4. ev'.timeouts = ev.timeouts /\ ev'.timeout = n
  BY <1>1, <1>2 DEF KeepTimeout, EventOf
<1>5. /\ Covered(n, t, usec) /\ Proper(n)
      /\ Proper(ev.timeout) => Microseconds(n) <= Microseconds(ev.timeout)
  <2> HIDE DEF t
  <2> QED
    BY <1>1, <1>2, <1>3, PassedCovered
<1> HIDE DEF n
<1>6. ASSUME NEW k \in DOMAIN ev.timeouts, k < i + 1
      PROVE  Covered(n, ev.timeouts[k], usec)
  <2>1. k = i \/ k < i
    <3>1. k \in Int
      BY LenProperties DEF IInv, EventOf
    <3> QED
      BY <1>1, <1>6, <3>1
  <2>2. CASE k = i
    BY <1>5, <2>2
  <2>3. CASE k < i
    <3>1. Seen(k)
      BY <2>3 DEF Seen
    <3> QED
      BY <1>5, <3>1, StillCovered
  <2> QED
    BY <2>1, <2>2, <2>3
<1> QED
  BY <1>1, <1>4, <1>6 DEF SeenInv

\* The timer armed again is covered.
LEMMA RearmsSeen ==
  ASSUME IInv, WaitsInv, SeenInv, Rearms
  PROVE  SeenInv'
<1>1. /\ usec \in 0 .. K - 1 /\ UNCHANGED <<pc, usec>> /\ i' = i + 1 /\ ev \in EventOf(Func)
      /\ ev.timeout = NoTimeout \/ Proper(ev.timeout)
      /\ pc = "timeouts" /\ i \in Nat
  BY WaitProper DEF IInv, TypeOK, Rearms
<1>2. i \in DOMAIN ev.timeouts /\ ev' = RearmTimeout(ev, usec, i)
  BY DEF Rearms
<1> DEFINE t == ev.timeouts[i]
           d == t.initial
           timer == [t EXCEPT !.at = Time(d.sec, usec + d.usec)]
           all == [ev.timeouts EXCEPT ![i] = timer]
           n == IF Earlier(d, ev.timeout) THEN d ELSE ev.timeout
<1>3. ev'.timeouts = all /\ ev'.timeout = n
  BY <1>1, <1>2 DEF RearmTimeout, EventOf
<1>4. t \in TimersOf(Func) /\ d \in Initial
  BY <1>2, TimerTypes DEF WaitsInv
<1> HIDE DEF t
<1>5. timer.at = Time(d.sec, usec + d.usec)
  BY <1>4 DEF TimersOf
<1> HIDE DEF timer, d
<1>6. /\ Covered(n, timer, usec) /\ Proper(n)
      /\ Proper(ev.timeout) => Microseconds(n) <= Microseconds(ev.timeout)
  BY <1>1, <1>4, <1>5, ArmedCovered
<1> HIDE DEF n
<1>7. ASSUME NEW k \in DOMAIN all, k < i + 1
      PROVE  Covered(n, all[k], usec)
  <2>1. k \in DOMAIN ev.timeouts /\ all[k] = IF k = i THEN timer ELSE ev.timeouts[k]
    OBVIOUS
  <2>2. k = i \/ k < i
    <3>1. k \in Int
      BY <2>1, LenProperties DEF IInv, EventOf
    <3> QED
      BY <1>1, <1>7, <3>1
  <2>3. CASE k = i
    BY <1>6, <2>1, <2>3
  <2>4. CASE k # i
    <3>1. Seen(k)
      BY <2>1, <2>2, <2>4 DEF Seen
    <3> QED
      BY <1>6, <2>1, <2>4, <3>1, StillCovered
  <2> QED
    BY <2>3, <2>4
<1> HIDE DEF all
<1> QED
  BY <1>1, <1>3, <1>7 DEF SeenInv

\* The timers before the one removed do not move.
LEMMA DropsSeen ==
  ASSUME IInv, SeenInv, Drops
  PROVE  SeenInv'
<1>1. UNCHANGED <<pc, i, usec>> /\ pc = "timeouts" /\ ev \in EventOf(Func)
  BY DEF IInv, Drops
<1>2. i \in DOMAIN ev.timeouts /\ ev' = DropTimeout(ev, i)
  BY DEF Drops
<1>3. ev'.timeouts = Removed(ev.timeouts, i) /\ ev'.timeout = ev.timeout
  BY <1>1, <1>2 DEF DropTimeout, EventOf, Removed
<1>4. ASSUME NEW k \in DOMAIN ev'.timeouts, k < i
      PROVE  k \in DOMAIN ev.timeouts /\ ev'.timeouts[k] = ev.timeouts[k]
  <2>1. ev.timeouts \in Seq(TimersOf(Func))
    BY <1>1 DEF EventOf
  <2> QED
    BY <1>2, <1>3, <1>4, <2>1, RemovedTimers
<1> QED
  BY <1>1, <1>3, <1>4 DEF SeenInv

\* The end of _loop_timeout has seen every timer.
LEMMA SameSeen ==
  ASSUME IInv, SeenInv, SameWaits
  PROVE  SeenInv'
<1>1. DOMAIN ev.timeouts = 1 .. Len(ev.timeouts) /\ Len(ev.timeouts) \in Nat /\ i \in Nat
  BY LenProperties DEF IInv, EventOf, TypeOK
<1>2. ASSUME NEW k \in DOMAIN ev.timeouts, pc' = "timeouts" => k < i' PROVE pc = "timeouts" => k < i
  BY <1>1, <1>2 DEF SameWaits
<1> QED
  BY <1>2 DEF SeenInv, SameWaits

\* Nothing is seen when select() returns.
LEMMA WaitsSeen ==
  ASSUME IInv, Waits
  PROVE  SeenInv'
<1>1. pc' = "timeouts" /\ i' = 1
  BY DEF Waits
<1>2. PICK d \in Nat : ev' = [AfterWait(ev, d) EXCEPT !.timeout = NoTimeout]
  BY DEF Waits
<1>3. PICK all \in Seq(TimersOf(Func)) : AfterWait(ev, d) = [ev EXCEPT !.timeouts = all]
  <2>1. usec \in Nat /\ ev \in EventOf(Func)
    BY EventDataAssumption DEF IInv, TypeOK
  <2> QED
    BY <2>1, AfterWaitOK
<1>4. ev'.timeouts = all /\ DOMAIN all = 1 .. Len(all)
  BY <1>2, <1>3, LenProperties DEF IInv, EventOf
<1> QED
  BY <1>1, <1>4 DEF SeenInv

\* Every step keeps the timers seen covered, if none is cancelled.
LEMMA NextSeen ==
  ASSUME Cancellable = {}, IInv, WaitsInv, SeenInv, [Next]_vars
  PROVE  SeenInv'
<1>1. ~ Unregisters
  BY DEF Unregisters
<1> QED
  BY <1>1, TimerSteps, SameSeen, RegistersSeen, WaitsSeen, PassesSeen, RearmsSeen, DropsSeen

\* No timer waits a second or more beyond its time, though the waits are found
\* with a borrow that may lengthen them: if each delay is of the callers' kind
\* and no timer is cancelled, as event_unregister_timeout compares absolute
\* times with waits.
THEOREM NeverOversleeps ==
  ASSUME CallersDelays, Cancellable = {}
  PROVE  Spec => []NoOversleep
<1>1. IInv /\ WaitsInv /\ [Next]_vars => WaitsInv'
  BY NextWaits
<1>2. IInv /\ WaitsInv /\ SeenInv /\ [Next]_vars => SeenInv'
  BY NextSeen
<1>3. Init => SeenInv
  <2>1. Init => ev.timeouts = << >>
    BY DEF Init, NewEvent
  <2> QED
    BY <2>1 DEF SeenInv
<1>4. SeenInv => NoOversleep
  BY DEF SeenInv, NoOversleep, Covered
<1> QED
  BY <1>1, <1>2, <1>3, <1>4, InitWaits, Invariance, PTL DEF Spec
================================================================================
