--------------------------------- MODULE Event ---------------------------------
(***************************************************************************)
(* The event loop of libSystem (libSystem/src/event.c, event_loop) run by  *)
(* one thread, with callbacks about which nothing is known but what the    *)
(* interface lets them do: between its call and its return a callback may  *)
(* register and unregister descriptors and timers and ask the loop to      *)
(* stop, any number of times and in any order.                             *)
(*                                                                         *)
(* Bounds: MaxIO entries per array, MaxTimers timers, MaxLoop entries into *)
(* the loop without a quit, and MaxWait microseconds spent in a select()   *)
(* that has no timeout.                                                    *)
(***************************************************************************)
EXTENDS EventData

CONSTANTS Func,        \* the timer functions of the program
          Cancellable, \* the timer functions it unregisters
          Initial,     \* the delays it registers timers with
          MaxIO, MaxTimers, MaxLoop, MaxWait

ASSUME EventAssumption ==
  /\ Cancellable \subseteq Func
  /\ \A d \in Initial : /\ d = Time(d.sec, d.usec)
                        /\ d.sec \in 0 .. Epoch - 1
                        /\ d.usec \in 0 .. K - 1
  /\ MaxIO \in Nat /\ MaxTimers \in Nat /\ MaxLoop \in Nat /\ MaxWait \in Nat

VARIABLES ev,      \* the Event
          pc,      \* where event_loop is: "out" when it does not run
          i,       \* the index of _loop_timeout and _loop_io, from 1
          cb,      \* a callback (of entry i) is running
          fd,      \* the descriptor whose callback is running, otherwise -1
          sel,     \* what select() left in rfds and wfds
          usec     \* the microseconds of the clock

vars == <<ev, pc, i, cb, fd, sel, usec>>

Walks == {"timeouts", "reads", "writes"}

NothingSelected == [r |-> {}, w |-> {}]

Init ==
  /\ ev = NewEvent
  /\ pc = "out"
  /\ i = 1
  /\ cb = FALSE
  /\ fd = -1
  /\ sel = NothingSelected
  /\ usec = 0

--------------------------------------------------------------------------------
(***************************************************************************)
(* The interface, called from outside the loop or from a callback.  A      *)
(* timer function never unregisters timers: _loop_timeout still uses the   *)
(* entry after the call, and no timer function of the repository does it.  *)
(***************************************************************************)
CanCall == pc = "out" \/ cb

Call(e) == CanCall /\ ev' = e /\ UNCHANGED <<pc, i, cb, fd, sel, usec>>

CallRegisterRead(n) == Len(ev.reads) < MaxIO /\ Call(RegisterRead(ev, n))

CallRegisterWrite(n) == Len(ev.writes) < MaxIO /\ Call(RegisterWrite(ev, n))

CallUnregisterRead(n) == Call(UnregisterRead(ev, n))

CallUnregisterWrite(n) == Call(UnregisterWrite(ev, n))

CallRegisterTimeout(f, d) ==
  Len(ev.timeouts) < MaxTimers /\ Call(RegisterTimeout(ev, usec, f, d))

CallUnregisterTimeout(f) == pc # "timeouts" /\ Call(UnregisterTimeout(ev, usec, f))

CallQuit == Call(LoopQuit(ev))

Interface ==
  \/ \E n \in Fd : \/ CallRegisterRead(n) \/ CallUnregisterRead(n)
                    \/ CallRegisterWrite(n) \/ CallUnregisterWrite(n)
  \/ \E f \in Func, d \in Initial : CallRegisterTimeout(f, d)
  \/ \E f \in Cancellable : CallUnregisterTimeout(f)
  \/ CallQuit

--------------------------------------------------------------------------------
(***************************************************************************)
(* event_loop.  The clock advances in select() only: it is read once per   *)
(* round, by _loop_timeout, and callbacks take no time.                    *)
(***************************************************************************)
Enter ==
  /\ pc = "out"
  /\ ev.loop < MaxLoop
  /\ ev' = [ev EXCEPT !.loop = @ + 1]
  /\ pc' = "select"
  /\ UNCHANGED <<i, cb, fd, sel, usec>>

Leave ==
  /\ pc = "select"
  /\ ~ Continues(ev)
  /\ pc' = "out"
  /\ UNCHANGED <<ev, i, cb, fd, sel, usec>>

\* select() fails (a signal, a closed descriptor) and event_loop returns 1.
SelectFails ==
  /\ pc = "select"
  /\ Continues(ev)
  /\ pc' = "out"
  /\ UNCHANGED <<ev, i, cb, fd, sel, usec>>

Microseconds(t) == t.sec * K + t.usec

\* The end of a wait of d microseconds: the clock, and the timers which are
\* counted from the second it shows.
AfterWait(e, d) ==
  LET Nearer(t) == [t EXCEPT !.at.sec = @ - ((usec + d) \div K)]
  IN  [e EXCEPT !.timeouts = [k \in DOMAIN e.timeouts |-> Nearer(e.timeouts[k])]]

\* select() returns with the descriptors r and w after d microseconds, at the
\* latest when the wait is over; _loop_timeout starts.
Select(r, w, d) ==
  /\ pc = "select"
  /\ Continues(ev)
  /\ IF ev.timeout = NoTimeout
     THEN r \cup w # {} /\ d <= MaxWait
     ELSE /\ d <= Microseconds(ev.timeout)
          /\ r \cup w = {} => d = Microseconds(ev.timeout)
  /\ sel' = [r |-> r, w |-> w]
  /\ usec' = (usec + d) % K
  /\ ev' = [AfterWait(ev, d) EXCEPT !.timeout = NoTimeout]
  /\ pc' = "timeouts"
  /\ i' = 1
  /\ UNCHANGED <<cb, fd>>

LongestWait ==
  IF ev.timeout = NoTimeout THEN MaxWait ELSE Microseconds(ev.timeout)

SelectReturns ==
  \E r \in SUBSET Selectable(ev, ev.rfds), w \in SUBSET Selectable(ev, ev.wfds) :
    \E d \in 0 .. LongestWait : Select(r, w, d)

\* The array the index runs over.
Walked(e) == CASE pc = "timeouts" -> e.timeouts
               [] pc = "reads"    -> e.reads
               [] pc = "writes"   -> e.writes

WalkNext == CASE pc = "timeouts" -> "reads"
              [] pc = "reads"    -> "writes"
              [] pc = "writes"   -> "select"

EndOfWalk ==
  /\ pc \in Walks /\ ~ cb
  /\ i > Len(Walked(ev))
  /\ pc' = WalkNext
  /\ i' = 1
  /\ sel' = IF pc = "writes" THEN NothingSelected ELSE sel
  /\ UNCHANGED <<ev, cb, fd, usec>>

\* The entry at i is to be called.
Fires == CASE pc = "timeouts" -> Due(ev.timeouts[i].at, usec)
           [] pc = "reads"    -> IsReported(ev, ev.reads, i, sel.r)
           [] pc = "writes"   -> IsReported(ev, ev.writes, i, sel.w)

CallEntry ==
  /\ pc \in Walks /\ ~ cb
  /\ i <= Len(Walked(ev))
  /\ Fires
  /\ cb' = TRUE
  /\ fd' = IF pc = "timeouts" THEN fd ELSE Walked(ev)[i]
  /\ UNCHANGED <<ev, pc, i, sel, usec>>

PassEntry ==
  /\ pc \in Walks /\ ~ cb
  /\ i <= Len(Walked(ev))
  /\ ~ Fires
  /\ ev' = IF pc = "timeouts" THEN KeepTimeout(ev, usec, i) ELSE ev
  /\ i' = i + 1
  /\ UNCHANGED <<pc, cb, fd, sel, usec>>

\* The function of a timer returns: the timer is armed again or removed.
TimeoutReturns(ret) ==
  /\ pc = "timeouts" /\ cb
  /\ ev' = IF ret = 0 THEN RearmTimeout(ev, usec, i) ELSE DropTimeout(ev, i)
  /\ i' = IF ret = 0 THEN i + 1 ELSE i
  /\ cb' = FALSE
  /\ UNCHANGED <<pc, fd, sel, usec>>

\* The function of a descriptor returns: the next entry is the one at i + 1, or
\* the one at i once every entry of the descriptor is removed.
IoReturns(ret) ==
  /\ pc \in {"reads", "writes"} /\ cb
  /\ ev' = IF ret = 0 THEN ev
           ELSE IF pc = "reads" THEN UnregisterRead(ev, fd) ELSE UnregisterWrite(ev, fd)
  /\ i' = IF ret = 0 THEN i + 1 ELSE i
  /\ cb' = FALSE
  /\ fd' = -1
  /\ UNCHANGED <<pc, sel, usec>>

LoopStep == SelectReturns \/ EndOfWalk \/ CallEntry \/ PassEntry \/ Leave

CallbackReturns == \E ret \in {0, 1} : TimeoutReturns(ret) \/ IoReturns(ret)

Next == Interface \/ Enter \/ SelectFails \/ LoopStep \/ CallbackReturns

Spec == Init /\ [][Next]_vars

--------------------------------------------------------------------------------
(***************************************************************************)
(* Fairness: the thread runs, callbacks return, and the clock moves in     *)
(* select() again and again when it has something to wait for.  A callback *)
(* is "polite" when it does not register, in the array being walked, a     *)
(* descriptor that select() reported in this round: two callbacks that do  *)
(* can keep _loop_io walking for ever.  Every callback of the repository   *)
(* is polite.                                                              *)
(***************************************************************************)
TimePasses == \E r \in SUBSET Selectable(ev, ev.rfds), w \in SUBSET Selectable(ev, ev.wfds) :
                \E d \in 1 .. LongestWait : Select(r, w, d)

Polite ==
  /\ pc = "reads"  => \A n \in sel.r : Len(SelectSeq(ev'.reads, LAMBDA x : x = n))
                                        <= Len(SelectSeq(ev.reads, LAMBDA x : x = n))
  /\ pc = "writes" => \A n \in sel.w : Len(SelectSeq(ev'.writes, LAMBDA x : x = n))
                                        <= Len(SelectSeq(ev.writes, LAMBDA x : x = n))

FairSpec ==
  /\ Init /\ [][Next /\ Polite]_vars
  /\ WF_vars(LoopStep /\ Polite)
  /\ WF_vars(CallbackReturns /\ Polite)
  /\ SF_vars(TimePasses)

--------------------------------------------------------------------------------
\* The record holds values of the types of struct _Event, the index stays within
\* one of the end of the array it runs over, and a callback is running only
\* inside a walk.
TypeOK ==
  /\ ev.loop \in 0 .. MaxLoop
  /\ ev.fdmax \in Fd \cup {-1}
  /\ ev.rfds \subseteq Fd /\ ev.wfds \subseteq Fd
  /\ ev.reads \in Seq(Fd) /\ ev.writes \in Seq(Fd)
  /\ pc \in Walks \cup {"out", "select"}
  /\ i \in Nat \ {0}
  /\ cb \in BOOLEAN /\ (cb => pc \in Walks)
  /\ fd \in Fd \cup {-1} /\ (fd \in Fd <=> cb /\ pc # "timeouts")
  /\ sel.r \subseteq Fd /\ sel.w \subseteq Fd
  /\ usec \in 0 .. K - 1

\* The descriptor sets handed to select() are the descriptors of the two arrays
\* and fdmax is the largest of them, -1 when there is none: event_register_io_*
\* and event_unregister_io_* keep five fields in step, whatever a callback does
\* to the arrays while _loop_io walks them.
FdSetsMatch ==
  /\ ev.rfds = FdsOf(ev.reads)
  /\ ev.wfds = FdsOf(ev.writes)
  /\ ev.fdmax = MaxFd(FdsOf(ev.reads) \cup FdsOf(ev.writes))

\* When event_loop is about to decide whether to go on, a registered timer keeps
\* it going: event->timeout is not the "nothing to wait for" value that
\* _loop_timeout and event_unregister_timeout start from.
TimersKeepLoopAlive ==
  pc = "select" /\ ev.timeouts # << >> => ev.timeout # NoTimeout

\* The wait handed to select() is one it accepts (no negative field, less than
\* a second of microseconds), though timers are added up without a carry and
\* subtracted with two different borrows.
SelectArgumentValid ==
  pc = "select" /\ ev.timeout # NoTimeout =>
    ev.timeout.sec >= 0 /\ ev.timeout.usec \in 0 .. K - 1

\* No timer waits a second or more beyond its time: event->timeout never exceeds
\* what the earliest timer has left by a full second (the borrow of lines
\* 217-222 is why it may exceed it at all).
NoOversleep ==
  pc = "select" => \A k \in DOMAIN ev.timeouts :
    Microseconds(ev.timeout) < Larger(0, Microseconds(ev.timeouts[k].at) - usec) + K

\* event_loop returns 0 on its own, without event_loop_quit and without an error
\* of select(), only when nothing is registered any more.
ReturnsOnlyWhenIdle ==
  [][Leave /\ ev.loop > 0 =>
       ev.reads = << >> /\ ev.writes = << >> /\ ev.timeouts = << >>]_vars

\* A timer that stays registered while the loop runs is called, though other
\* timers are added, removed and called before it and the arrays shift under
\* the index.
TimerServed ==
  \A f \in Func :
    LET registered == \E k \in DOMAIN ev.timeouts : ev.timeouts[k].func = f
        called == pc = "timeouts" /\ cb /\ ev.timeouts[i].func = f
    IN  (pc # "out" /\ registered) ~> (called \/ ~ registered \/ pc = "out")

\* Once the last event_loop_quit is made, event_loop returns: the round in
\* progress ends whatever its callbacks register and unregister.
QuitReturns == (pc # "out" /\ ev.loop = 0) ~> (pc = "out")
================================================================================
