---------------------------- MODULE HayesProofs ----------------------------
(***************************************************************************)
(* What the modem plug-in keeps for every number of commands, faults and   *)
(* requests: a stop leaves nothing behind, the queue is at work, whatever  *)
(* waits has its source, a connection is reported during a data call only, *)
(* and as long as no command was given up the program and the modem agree  *)
(* on which command is being answered, and leave the line to pppd during a *)
(* data call.                                                              *)
(*                                                                         *)
(* The structure is changed by functions that call each other while it is  *)
(* not at rest: a callback queues commands while its own, concluded, is    *)
(* still the first.  `Shape' is what every function keeps, `Rest' what     *)
(* holds between two dispatches and between two lines, and `Concluding'    *)
(* what holds of the queue from the first handler of a line to the end of  *)
(* _parse_do.  The second half counts the commands and the lines under way *)
(* (`Under'): a function that queues commands is `Even', one that takes a  *)
(* line for an answer `Concludes', and `Aligned' says that what is under   *)
(* way is the active command.                                              *)
(***************************************************************************)
EXTENDS Hayes, SequenceTheorems, FiniteSetTheorems, WellFoundedInduction, TLAPS

\* A command kept while the SIM is busy, as _hayes_queue_command_full makes it.
Kept == {c \in Command : c.status = "QUEUED" /\ c.immediate = FALSE}

\* The type of h, with that of the commands kept.
Structure ==
  [active : BOOLEAN, mode : {"INIT", "COMMAND", "DATA"},
   queue : Seq(Command), queue_timeout : Seq(Kept),
   source : {"none", "reset", "repeat"}, live : SUBSET {"reset", "repeat"},
   timeout : BOOLEAN, channel : BOOLEAN, rd_source : BOOLEAN,
   wr_source : BOOLEAN, rd_buf : Seq(Line), wr_buf : Seq(Kind \union {"ppp"}),
   ppp : BOOLEAN, rd_ppp_source : BOOLEAN, wr_ppp_source : BOOLEAN,
   connected : BOOLEAN, authenticated : BOOLEAN, disabled : BOOLEAN,
   parsing : BOOLEAN]

\* The one source there is: to repeat commands, or to open the device.
Sources(s) ==
  /\ s.live = {s.source} \ {"none"}
  /\ s.queue_timeout # <<>> <=> s.source = "repeat"
  /\ s.source = "reset" => ~s.channel

\* The watch for writing, the device and the data call.
Modes(s) ==
  /\ s.wr_source <=> s.wr_buf # <<>>
  /\ s.mode # "INIT" => s.channel
  /\ s.connected => s.mode = "DATA"
  /\ s.rd_ppp_source => s.mode = "DATA"

Closed(s) ==
  /\ ~s.channel => s.queue = <<>> /\ ~s.rd_source /\ ~s.wr_source /\ ~s.parsing
  /\ ~s.active => ~s.channel /\ s.source = "none"

OnlyResets(s) == s.mode = "INIT" => \A i \in DOMAIN s.queue : s.queue[i].kind = "reset"

Inner(s) == Modes(s) /\ Closed(s) /\ OnlyResets(s)

Shape(s) == Sources(s) /\ Inner(s)

\* The commands behind the first one wait.
OthersWait(s) == s.mode # "DATA" => \A i \in DOMAIN s.queue : i # 1 => s.queue[i].status = "QUEUED"

Rest(s) ==
  /\ OthersWait(s)
  /\ s.mode # "DATA" => /\ s.queue # <<>> => s.queue[1].status = "ACTIVE"
                        /\ s.timeout <=> s.queue # <<>>
  /\ s.mode = "INIT" /\ s.channel => s.queue # <<>>

\* The first command is active or has been concluded; ATZ is concluded only
\* after another one was queued, or the mode left.
Concluding(s) ==
  /\ OthersWait(s)
  /\ s.queue # <<>>
  /\ s.mode # "DATA" => /\ s.queue[1].status \in {"ACTIVE"} \union Final
                        /\ s.queue[1].status = "ACTIVE" => s.timeout
  /\ s.mode = "INIT" /\ s.queue[1].status # "ACTIVE" => Len(s.queue) > 1

AtRest(s) == s \in Structure /\ Shape(s) /\ Rest(s)

Outside ==
  /\ toModem \in Seq(Kind) /\ fromModem \in Seq(Line)
  /\ online \in BOOLEAN /\ strayed \in BOOLEAN /\ lost \in BOOLEAN
  /\ budget \in 0 .. MaxEvents

HInv == AtRest(h) /\ Outside

\* The queue functions leave the rest of the structure alone.
Beside(s, t) ==
  /\ t.active = s.active /\ t.queue_timeout = s.queue_timeout
  /\ t.source = s.source /\ t.live = s.live /\ t.channel = s.channel
  /\ t.rd_source = s.rd_source /\ t.rd_buf = s.rd_buf
  /\ t.rd_ppp_source = s.rd_ppp_source /\ t.connected = s.connected
  /\ t.parsing = s.parsing

-----------------------------------------------------------------------------
(* Sequences *)

\* An element of a concatenation is one of the first or of the second part.
LEMMA ConcatElements ==
  ASSUME NEW S, NEW q \in Seq(S), NEW c \in Seq(S)
  PROVE  /\ q \o c \in Seq(S)
         /\ Len(q \o c) = Len(q) + Len(c)
         /\ q \o c = <<>> <=> q = <<>> /\ c = <<>>
         /\ q # <<>> => (q \o c)[1] = q[1]
         /\ c = <<>> => q \o c = q
         /\ q = <<>> => q \o c = c
         /\ \A i \in DOMAIN (q \o c) :
              \/ i \in DOMAIN q /\ (q \o c)[i] = q[i]
              \/ \E j \in DOMAIN c : /\ (q \o c)[i] = c[j]
                                    /\ i = Len(q) + j
<1>1. /\ q \o c \in Seq(S) /\ Len(q \o c) = Len(q) + Len(c)
      /\ Len(q) \in Nat /\ Len(c) \in Nat
      /\ DOMAIN q = 1 .. Len(q) /\ DOMAIN c = 1 .. Len(c)
      /\ DOMAIN (q \o c) = 1 .. Len(q) + Len(c)
  BY ConcatProperties, LenProperties
<1>2. \A i \in 1 .. Len(q) + Len(c) :
        (q \o c)[i] = IF i <= Len(q) THEN q[i] ELSE c[i - Len(q)]
  BY ConcatProperties
<1>3. ASSUME NEW i \in DOMAIN (q \o c)
      PROVE  \/ i \in DOMAIN q /\ (q \o c)[i] = q[i]
             \/ \E j \in DOMAIN c : /\ (q \o c)[i] = c[j]
                                   /\ i = Len(q) + j
  <2>1. CASE i <= Len(q)
    BY <1>1, <1>2, <2>1
  <2>2. CASE i > Len(q)
    <3>1. i - Len(q) \in DOMAIN c /\ i = Len(q) + (i - Len(q))
      BY <1>1, <2>2
    <3>2. (q \o c)[i] = c[i - Len(q)]
      BY <1>1, <1>2, <2>2
    <3> QED
      BY <3>1, <3>2
  <2> QED
    BY <2>1, <2>2, <1>1
<1>4. (q = <<>> <=> Len(q) = 0) /\ (c = <<>> <=> Len(c) = 0)
      /\ (q \o c = <<>> <=> Len(q \o c) = 0)
  BY <1>1, EmptySeq
<1>5. q # <<>> => (q \o c)[1] = q[1]
  BY <1>1, <1>2, <1>4
<1>6. c = <<>> => q \o c = q
  BY ConcatEmptySeq
<1>7. q = <<>> => q \o c = c
  BY ConcatEmptySeq
<1>8. q \o c = <<>> <=> q = <<>> /\ c = <<>>
  BY <1>1, <1>4
<1> QED
  BY <1>1, <1>3, <1>5, <1>6, <1>7, <1>8

\* What Tail leaves are the elements behind the first.
LEMMA TailElements ==
  ASSUME NEW S, NEW q \in Seq(S), q # <<>>
  PROVE  /\ Tail(q) \in Seq(S)
         /\ Len(Tail(q)) = Len(q) - 1
         /\ Tail(q) = <<>> <=> Len(q) = 1
         /\ 1 \in DOMAIN q /\ q[1] \in S
         /\ \A i \in DOMAIN Tail(q) : /\ i + 1 \in DOMAIN q /\ i + 1 # 1
                                       /\ Tail(q)[i] = q[i + 1]
<1>1. /\ Len(q) \in Nat /\ DOMAIN q = 1 .. Len(q) /\ (q = <<>> <=> Len(q) = 0)
  BY LenProperties, EmptySeq
<1>2. /\ Tail(q) \in Seq(S) /\ Len(Tail(q)) = Len(q) - 1
      /\ \A i \in 1 .. Len(Tail(q)) : Tail(q)[i] = q[i + 1]
  BY HeadTailProperties
<1>3. /\ DOMAIN Tail(q) = 1 .. Len(Tail(q)) /\ (Tail(q) = <<>> <=> Len(Tail(q)) = 0)
  BY <1>2, LenProperties, EmptySeq
<1>4. 1 \in DOMAIN q /\ q[1] \in S
  BY <1>1, ElementOfSeq
<1> QED
  BY <1>1, <1>2, <1>3, <1>4


\* Append adds an element at the end.
LEMMA AppendElements ==
  ASSUME NEW S, NEW q \in Seq(S), NEW x \in S
  PROVE  Append(q, x) \in Seq(S) /\ Append(q, x) # <<>>
<1>1. Append(q, x) \in Seq(S) /\ Len(Append(q, x)) = Len(q) + 1 /\ Len(q) \in Nat
  BY AppendProperties, LenProperties
<1> QED
  BY <1>1, EmptySeq

-----------------------------------------------------------------------------
(* The queue *)

\* The status of the first command is all SetHead changes.
LEMMA SetHeadQueue ==
  ASSUME NEW q \in Seq(Command), NEW c \in Command, q # <<>>
  PROVE  LET r == [q EXCEPT ![1] = c]
         IN /\ r \in Seq(Command) /\ r # <<>> /\ Len(r) = Len(q)
            /\ DOMAIN r = DOMAIN q /\ r[1] = c
            /\ \A i \in DOMAIN q : i # 1 => r[i] = q[i]
<1> DEFINE r == [q EXCEPT ![1] = c]
<1>1. /\ Len(q) \in Nat /\ DOMAIN q = 1 .. Len(q) /\ 1 \in 1 .. Len(q)
  BY LenProperties, EmptySeq
<1>2. /\ r \in Seq(Command) /\ Len(r) = Len(q)
      /\ \A j \in 1 .. Len(q) : r[j] = IF j = 1 THEN c ELSE q[j]
  BY <1>1, ExceptSeq
<1>3. DOMAIN r = 1 .. Len(q) /\ r # <<>>
  BY <1>1, <1>2, LenProperties, EmptySeq
<1> QED
  BY <1>1, <1>2, <1>3

\* _hayes_command_set_status, without the callback.
LEMMA SetHeadKeeps ==
  ASSUME NEW s \in Structure, NEW st \in Status, s.queue # <<>>
  PROVE  LET t == SetHead(s, st)
         IN /\ t = [s EXCEPT !.queue = t.queue]
            /\ t.queue \in Seq(Command) /\ t.queue # <<>>
            /\ Len(t.queue) = Len(s.queue) /\ DOMAIN t.queue = DOMAIN s.queue
            /\ t.queue[1].kind = s.queue[1].kind /\ t.queue[1].status = st
            /\ t.queue[1].data = s.queue[1].data
            /\ \A i \in DOMAIN s.queue : i # 1 => t.queue[i] = s.queue[i]
<1> DEFINE t == SetHead(s, st)
           c == [s.queue[1] EXCEPT !.status = st]
           r == [s.queue EXCEPT ![1] = c]
<1>1. s.queue \in Seq(Command) /\ s.queue[1] \in Command
  BY TailElements DEF Structure
<1>2. /\ c \in Command /\ c.kind = s.queue[1].kind /\ c.status = st
      /\ c.data = s.queue[1].data
  BY <1>1 DEF Command
<1>3. t = [s EXCEPT !.queue = r]
  BY DEF SetHead
<1>4. t.queue = r
  BY <1>3 DEF Structure
<1>5. t = [s EXCEPT !.queue = t.queue]
  BY <1>3, <1>4
<1> HIDE DEF t, c
<1>6. /\ r \in Seq(Command) /\ r # <<>> /\ Len(r) = Len(s.queue)
      /\ DOMAIN r = DOMAIN s.queue /\ r[1] = c
      /\ \A i \in DOMAIN s.queue : i # 1 => r[i] = s.queue[i]
  BY <1>1, <1>2, SetHeadQueue
<1> QED
  BY <1>2, <1>4, <1>5, <1>6 DEF t

\* _hayes_queue_push changes the first command, its timer and what is to be
\* written, and nothing if there is nothing to send.
LEMMA PushKeeps ==
  ASSUME NEW s \in Structure
  PROVE  LET t == Push(s)
         IN /\ t \in Structure /\ Beside(s, t) /\ t.mode = s.mode
            /\ s.queue = <<>> \/ s.mode = "DATA" => t = s
            /\ s.queue # <<>> /\ s.mode # "DATA" =>
                 /\ t.queue # <<>> /\ Len(t.queue) = Len(s.queue)
                 /\ DOMAIN t.queue = DOMAIN s.queue
                 /\ t.queue[1].kind = s.queue[1].kind /\ t.queue[1].status = "ACTIVE"
                 /\ \A i \in DOMAIN s.queue : i # 1 => t.queue[i] = s.queue[i]
                 /\ t.timeout /\ t.wr_buf # <<>>
                 /\ t.wr_source = (s.channel \/ s.wr_source)
<1> DEFINE t == Push(s)
<1>1. CASE s.queue = <<>> \/ s.mode = "DATA"
  BY <1>1 DEF Push, Beside
<1>2. CASE ~(s.queue = <<>> \/ s.mode = "DATA")
  <2> DEFINE u == SetHead(s, "ACTIVE")
             d == s.disabled /\ s.queue[1].kind # "automatic"
             w == Append(s.wr_buf, s.queue[1].kind)
             x == s.channel \/ s.wr_source
             q == u.queue
  <2>1. /\ u = [s EXCEPT !.queue = q]
        /\ q \in Seq(Command) /\ q # <<>>
        /\ Len(q) = Len(s.queue) /\ DOMAIN q = DOMAIN s.queue
        /\ q[1].kind = s.queue[1].kind /\ q[1].status = "ACTIVE"
        /\ \A i \in DOMAIN s.queue : i # 1 => q[i] = s.queue[i]
    BY <1>2, SetHeadKeeps DEF Status
  <2>2. w \in Seq(Kind \union {"ppp"}) /\ w # <<>>
    <3>1. s.queue[1] \in Command /\ s.wr_buf \in Seq(Kind \union {"ppp"})
      BY <1>2, TailElements DEF Structure
    <3>2. s.queue[1].kind \in Kind \union {"ppp"}
      BY <3>1 DEF Command
    <3> QED
      BY <3>1, <3>2, AppendElements
  <2>3. d \in BOOLEAN /\ x \in BOOLEAN
    OBVIOUS
  <2>4. t = [u EXCEPT !.disabled = u.disabled /\ s.queue[1].kind # "automatic",
                      !.wr_buf = Append(u.wr_buf, s.queue[1].kind),
                      !.wr_source = s.channel \/ u.wr_source, !.timeout = TRUE]
    BY <1>2 DEF Push
  <2>5. u.disabled = s.disabled /\ u.wr_buf = s.wr_buf /\ u.wr_source = s.wr_source
    BY <2>1 DEF Structure
  <2>6. t = [s EXCEPT !.queue = q, !.disabled = d, !.wr_buf = w, !.wr_source = x,
                      !.timeout = TRUE]
    BY <2>1, <2>4, <2>5 DEF Structure
  <2> HIDE DEF t, u, d, w, x, q
  <2>7. /\ t \in Structure /\ Beside(s, t) /\ t.mode = s.mode
        /\ t.queue = q /\ t.timeout /\ t.wr_buf = w /\ t.wr_source = x
    BY <2>1, <2>2, <2>3, <2>6 DEF Structure, Beside
  <2> QED
    BY <2>1, <2>2, <2>7, <1>2 DEF t, x
<1> QED
  BY <1>1, <1>2

\* _hayes_queue_pop
LEMMA PopKeeps ==
  ASSUME NEW s \in Structure, s.queue # <<>>
  PROVE  LET t == Pop(s)
         IN /\ t \in Structure /\ Beside(s, t) /\ t.mode = s.mode
            /\ t.queue = Tail(s.queue) /\ ~t.timeout
            /\ t.wr_buf = s.wr_buf /\ t.wr_source = s.wr_source
<1> DEFINE q == Tail(s.queue)
<1>1. q \in Seq(Command)
  BY TailElements DEF Structure
<1>2. Pop(s) = [s EXCEPT !.timeout = FALSE, !.queue = q]
  BY DEF Pop
<1> HIDE DEF q
<1>3. /\ Pop(s) \in Structure /\ Beside(s, Pop(s)) /\ Pop(s).mode = s.mode
      /\ Pop(s).queue = q /\ Pop(s).timeout = FALSE
      /\ Pop(s).wr_buf = s.wr_buf /\ Pop(s).wr_source = s.wr_source
  BY <1>1, <1>2 DEF Structure, Beside
<1> QED
  BY <1>3 DEF q


\* What may be handed to _hayes_queue_command: commands that wait, of which
\* only ATZ is immediate, and only while the device is open.
Queueable(s, cs) ==
  /\ cs \in Seq(Command)
  /\ \A i \in DOMAIN cs : /\ cs[i].status = "QUEUED"
                          /\ cs[i].immediate => cs[i].kind = "reset" /\ s.channel

\* The commands that _hayes_queue_command accepts.
Accepted(s, cs) ==
  IF s.mode = "INIT" /\ \E i \in DOMAIN cs : ~cs[i].immediate THEN <<>> ELSE cs

\* _hayes_queue_command is an extension of the queue, and a push if it was empty.
LEMMA QueueAllKeeps ==
  ASSUME NEW s \in Structure, NEW cs \in Seq(Command)
  PROVE  LET t == QueueAll(s, cs)
             q == [s EXCEPT !.queue = s.queue \o Accepted(s, cs)]
         IN /\ t \in Structure /\ Beside(s, t) /\ t.mode = s.mode
            /\ q \in Structure /\ Beside(s, q) /\ q.mode = s.mode
            /\ q.queue = s.queue \o Accepted(s, cs) /\ q.timeout = s.timeout
            /\ q.wr_buf = s.wr_buf /\ q.wr_source = s.wr_source
            /\ t = IF s.queue = <<>> THEN Push(q) ELSE q
            /\ s.queue # <<>> => t.queue = s.queue \o Accepted(s, cs)
            /\ s.queue # <<>> \/ (s.mode # "INIT" /\ cs # <<>>) => t.queue # <<>>
<1> DEFINE t == QueueAll(s, cs)
           a == Accepted(s, cs)
           c == s.queue \o a
           q == [s EXCEPT !.queue = c]
<1>1. a \in Seq(Command)
  BY EmptySeq DEF Accepted
<1>2. s.queue \in Seq(Command)
  BY DEF Structure
<1>3. c \in Seq(Command) /\ (c = <<>> <=> s.queue = <<>> /\ a = <<>>)
  BY <1>1, <1>2, ConcatElements
<1>4. t = IF s.queue = <<>> THEN Push(q) ELSE q
  BY DEF QueueAll, Accepted
<1>5. s.mode # "INIT" => a = cs
  BY DEF Accepted
<1> HIDE DEF c, a, t
<1>6. /\ q \in Structure /\ Beside(s, q) /\ q.mode = s.mode
      /\ q.queue = c /\ q.timeout = s.timeout
      /\ q.wr_buf = s.wr_buf /\ q.wr_source = s.wr_source
  BY <1>3 DEF Structure, Beside
<1> HIDE DEF q
<1>7. /\ Push(q) \in Structure /\ Beside(q, Push(q)) /\ Push(q).mode = q.mode
      /\ q.queue # <<>> => Push(q).queue # <<>>
  BY <1>6, PushKeeps
<1>8. /\ t \in Structure /\ Beside(s, t) /\ t.mode = s.mode
  BY <1>4, <1>6, <1>7 DEF Beside
<1>9. s.queue # <<>> \/ (s.mode # "INIT" /\ cs # <<>>) => t.queue # <<>>
  BY <1>3, <1>4, <1>5, <1>6, <1>7
<1>10. s.queue # <<>> => t.queue = c
  BY <1>4, <1>6
<1> QED
  BY <1>4, <1>6, <1>8, <1>9, <1>10 DEF t, q, c, a

LEMMA QueueAllExtends ==
  ASSUME NEW s \in Structure, NEW cs \in Seq(Command), s.queue # <<>>
  PROVE  QueueAll(s, cs).queue = s.queue \o Accepted(s, cs)
BY QueueAllKeeps

\* Whatever is queued, the structure keeps its shape, at rest and while a command
\* is being concluded.
LEMMA QueueAllInner ==
  ASSUME NEW s \in Structure, NEW cs, Queueable(s, cs), Inner(s)
  PROVE  LET t == QueueAll(s, cs)
         IN /\ Inner(t)
            /\ OthersWait(s) => OthersWait(t)
            /\ Rest(s) => Rest(t)
            /\ Concluding(s) => Concluding(t)
<1> DEFINE t == QueueAll(s, cs)
           a == Accepted(s, cs)
           q == [s EXCEPT !.queue = s.queue \o a]
<1>0. cs \in Seq(Command)
  BY DEF Queueable
<1>1. /\ t \in Structure /\ Beside(s, t) /\ t.mode = s.mode
      /\ q \in Structure /\ Beside(s, q) /\ q.mode = s.mode
      /\ q.queue = s.queue \o a /\ q.timeout = s.timeout
      /\ q.wr_buf = s.wr_buf /\ q.wr_source = s.wr_source
      /\ t = IF s.queue = <<>> THEN Push(q) ELSE q
  BY <1>0, QueueAllKeeps
<1>2. /\ a \in Seq(Command)
      /\ \A i \in DOMAIN a : a[i].status = "QUEUED"
      /\ s.mode = "INIT" => \A i \in DOMAIN a : a[i].kind = "reset" /\ s.channel
  <2>1. CASE a = <<>>
    BY <2>1, EmptySeq
  <2>2. CASE a # <<>>
    BY <2>2, <1>0 DEF Accepted, Queueable
  <2> QED
    BY <2>1, <2>2
<1>3. s.queue \in Seq(Command)
  BY DEF Structure
<1>4. /\ q.queue \in Seq(Command)
      /\ Len(q.queue) = Len(s.queue) + Len(a)
      /\ q.queue = <<>> <=> s.queue = <<>> /\ a = <<>>
      /\ s.queue # <<>> => q.queue[1] = s.queue[1]
      /\ a = <<>> => q.queue = s.queue
      /\ \A i \in DOMAIN q.queue :
           \/ i \in DOMAIN s.queue /\ q.queue[i] = s.queue[i]
           \/ \E j \in DOMAIN a : /\ q.queue[i] = a[j]
                                  /\ i = Len(s.queue) + j
  BY <1>1, <1>2, <1>3, ConcatElements
<1>5. s.mode = "INIT" => \A i \in DOMAIN q.queue : q.queue[i].kind = "reset"
  BY <1>2, <1>4 DEF Inner, OnlyResets
<1>6. s.queue = <<>> => \A i \in DOMAIN q.queue : q.queue[i].status = "QUEUED"
  <2>1. s.queue = <<>> => DOMAIN s.queue = {}
    BY <1>3, LenProperties, EmptySeq
  <2> QED
    BY <2>1, <1>2, <1>4
<1>7. OthersWait(s) => OthersWait(q)
  BY <1>1, <1>2, <1>4 DEF OthersWait
<1>8. Len(s.queue) \in Nat /\ Len(a) \in Nat
  BY <1>2, <1>3, LenProperties
<1>9. ~s.channel => a = <<>>
  <2>1. SUFFICES ASSUME ~s.channel, a # <<>> PROVE FALSE
    OBVIOUS
  <2>2. s.mode = "INIT"
    BY <2>1 DEF Inner, Modes
  <2>3. 1 \in DOMAIN a
    BY <2>1, <1>2, TailElements
  <2> QED
    BY <2>1, <2>2, <2>3, <1>2
<1> HIDE DEF q, t, a
<1>10. CASE s.queue # <<>>
  <2>1. t = q
    BY <1>10, <1>1
  <2>2. Modes(t)
    BY <2>1, <1>1 DEF Inner, Modes, Beside
  <2>3. Closed(t)
    BY <2>1, <1>1, <1>4, <1>9 DEF Inner, Closed, Beside
  <2>4. OnlyResets(t)
    BY <2>1, <1>1, <1>5 DEF OnlyResets
  <2>5. Rest(s) => Rest(t)
    BY <2>1, <1>10, <1>1, <1>4, <1>7 DEF Rest, Beside
  <2>6. Concluding(s) => Concluding(t)
    BY <2>1, <1>10, <1>1, <1>4, <1>7, <1>8 DEF Concluding
  <2>7. OthersWait(s) => OthersWait(t)
    BY <2>1, <1>7
  <2> QED
    BY <2>2, <2>3, <2>4, <2>5, <2>6, <2>7 DEF Inner, t
<1>11. CASE s.queue = <<>>
  <2>1. t = Push(q)
    BY <1>11, <1>1
  <2>0. /\ Push(q) \in Structure /\ Beside(q, Push(q)) /\ Push(q).mode = q.mode
        /\ q.queue = <<>> \/ q.mode = "DATA" => Push(q) = q
        /\ q.queue # <<>> /\ q.mode # "DATA" =>
             /\ Push(q).queue # <<>> /\ Len(Push(q).queue) = Len(q.queue)
             /\ DOMAIN Push(q).queue = DOMAIN q.queue
             /\ Push(q).queue[1].kind = q.queue[1].kind /\ Push(q).queue[1].status = "ACTIVE"
             /\ \A i \in DOMAIN q.queue : i # 1 => Push(q).queue[i] = q.queue[i]
             /\ Push(q).timeout /\ Push(q).wr_buf # <<>>
             /\ Push(q).wr_source = (q.channel \/ q.wr_source)
    BY <1>1, PushKeeps
  <2>2. /\ t \in Structure /\ Beside(q, t) /\ t.mode = q.mode
        /\ q.queue = <<>> \/ q.mode = "DATA" => t = q
        /\ q.queue # <<>> /\ q.mode # "DATA" =>
             /\ t.queue # <<>> /\ Len(t.queue) = Len(q.queue)
             /\ DOMAIN t.queue = DOMAIN q.queue
             /\ t.queue[1].kind = q.queue[1].kind /\ t.queue[1].status = "ACTIVE"
             /\ \A i \in DOMAIN q.queue : i # 1 => t.queue[i] = q.queue[i]
             /\ t.timeout /\ t.wr_buf # <<>>
             /\ t.wr_source = (q.channel \/ q.wr_source)
    BY <2>1, <2>0
  <2>3. CASE q.queue = <<>> \/ q.mode = "DATA"
    <3>1. t = q
      BY <2>2, <2>3
    <3>2. Modes(t)
      BY <3>1, <1>1 DEF Inner, Modes, Beside
    <3>3. Closed(t)
      BY <3>1, <1>1, <1>4, <1>9 DEF Inner, Closed, Beside
    <3>4. OnlyResets(t)
      BY <3>1, <1>1, <1>5 DEF OnlyResets
    <3>5. Rest(s) => Rest(t)
      BY <3>1, <2>3, <1>11, <1>1, <1>4, <1>7 DEF Rest, Beside
    <3>6. ~Concluding(s)
      BY <1>11 DEF Concluding
    <3>7. OthersWait(s) => OthersWait(t)
      BY <3>1, <1>7
    <3> QED
      BY <3>2, <3>3, <3>4, <3>5, <3>6, <3>7 DEF Inner, t
  <2>4. CASE q.queue # <<>> /\ q.mode # "DATA"
    <3>0. a # <<>> /\ s.channel
      BY <2>4, <1>4, <1>9, <1>11
    <3>1. 1 \in DOMAIN q.queue
      BY <1>4, <2>4, TailElements
    <3>3. Modes(t)
      BY <2>2, <2>4, <3>0, <1>1 DEF Inner, Modes, Beside
    <3>4. Closed(t)
      BY <2>2, <3>0, <1>1 DEF Inner, Closed, Beside
    <3>5. OnlyResets(t)
      <4>1. ASSUME t.mode = "INIT", NEW i \in DOMAIN t.queue
            PROVE  t.queue[i].kind = "reset"
        <5>1. \A k \in DOMAIN q.queue : q.queue[k].kind = "reset"
          BY <4>1, <1>1, <2>2, <1>5
        <5>2. i \in DOMAIN q.queue
          BY <4>1, <2>2, <2>4
        <5>3. CASE i = 1
          BY <5>1, <5>3, <3>1, <2>2, <2>4
        <5>4. CASE i # 1
          BY <5>1, <5>2, <5>4, <2>2, <2>4
        <5> QED
          BY <5>3, <5>4
      <4> QED
        BY <4>1 DEF OnlyResets
    <3>6. OthersWait(t)
      BY <2>2, <2>4, <1>6, <1>11 DEF OthersWait
    <3>7. Rest(t)
      BY <2>2, <2>4, <3>6 DEF Rest
    <3>8. ~Concluding(s)
      BY <1>11 DEF Concluding
    <3> QED
      BY <3>3, <3>4, <3>5, <3>6, <3>7, <3>8 DEF Inner, t
  <2> QED
    BY <2>3, <2>4
<1> QED
  BY <1>10, <1>11

LEMMA QueueAllShape ==
  ASSUME NEW s \in Structure, NEW cs, Queueable(s, cs), Shape(s)
  PROVE  Shape(QueueAll(s, cs))
<1> DEFINE t == QueueAll(s, cs)
<1>1. Beside(s, t)
  BY QueueAllKeeps DEF Queueable
<1>2. Inner(t)
  BY QueueAllInner DEF Shape
<1> HIDE DEF t
<1>3. Sources(t)
  BY <1>1 DEF Shape, Sources, Beside
<1> QED
  BY <1>2, <1>3 DEF Shape, t

\* What any queueing of commands keeps, once or several times over.
Queues(s, t) ==
  /\ t \in Structure /\ Beside(s, t) /\ t.mode = s.mode
  /\ s.queue # <<>> => /\ t.queue # <<>> /\ t.queue[1] = s.queue[1]
                       /\ Len(t.queue) >= Len(s.queue)
  /\ Shape(s) => Shape(t)
  /\ Inner(s) => /\ Inner(t)
                 /\ OthersWait(s) => OthersWait(t)
                 /\ Rest(s) => Rest(t)
                 /\ Concluding(s) => Concluding(t)

LEMMA QueuesTransitive ==
  ASSUME NEW s \in Structure, NEW t, NEW u, Queues(s, t), Queues(t, u)
  PROVE  Queues(s, u)
<1>1. Beside(s, u) /\ u.mode = s.mode /\ u \in Structure
  BY DEF Queues, Beside
<1>2. s.queue # <<>> => /\ u.queue # <<>> /\ u.queue[1] = s.queue[1]
                        /\ Len(u.queue) >= Len(s.queue)
  <2>1. Len(s.queue) \in Nat /\ Len(t.queue) \in Nat /\ Len(u.queue) \in Nat
    <3>1. /\ s.queue \in Seq(Command) /\ t.queue \in Seq(Command)
          /\ u.queue \in Seq(Command)
      BY DEF Queues, Structure
    <3> QED
      BY <3>1, LenProperties
  <2> QED
    BY <2>1 DEF Queues
<1>3. /\ Shape(s) => Shape(u)
      /\ Inner(s) => /\ Inner(u)
                     /\ OthersWait(s) => OthersWait(u)
                     /\ Rest(s) => Rest(u)
                     /\ Concluding(s) => Concluding(u)
  BY DEF Queues
<1> QED
  BY <1>1, <1>2, <1>3 DEF Queues

LEMMA QueuesReflexive ==
  ASSUME NEW s \in Structure
  PROVE  Queues(s, s)
<1>1. s.queue \in Seq(Command)
  BY DEF Structure
<1>2. Len(s.queue) \in Nat
  BY <1>1, LenProperties
<1> QED
  BY <1>2 DEF Queues, Beside

LEMMA QueueAllQueues ==
  ASSUME NEW s \in Structure, NEW cs, Queueable(s, cs)
  PROVE  LET t == QueueAll(s, cs)
         IN /\ Queues(s, t)
            /\ s.mode # "INIT" /\ cs # <<>> => t.queue # <<>>
<1> DEFINE t == QueueAll(s, cs)
           a == Accepted(s, cs)
           q == [s EXCEPT !.queue = s.queue \o a]
<1>1. cs \in Seq(Command)
  BY DEF Queueable
<1>2. /\ t \in Structure /\ Beside(s, t) /\ t.mode = s.mode
      /\ q.queue = s.queue \o a
      /\ t = IF s.queue = <<>> THEN Push(q) ELSE q
      /\ s.queue # <<>> \/ (s.mode # "INIT" /\ cs # <<>>) => t.queue # <<>>
  BY <1>1, QueueAllKeeps
<1>3. a \in Seq(Command) /\ s.queue \in Seq(Command)
  BY <1>1, EmptySeq DEF Accepted, Structure
<1>4. /\ Len(s.queue \o a) = Len(s.queue) + Len(a)
      /\ s.queue # <<>> => (s.queue \o a)[1] = s.queue[1]
      /\ Len(s.queue) \in Nat /\ Len(a) \in Nat
  BY <1>3, ConcatElements, LenProperties
<1>5. s.queue # <<>> => /\ t.queue # <<>> /\ t.queue[1] = s.queue[1]
                        /\ Len(t.queue) >= Len(s.queue)
  <2> HIDE DEF q, t, a
  <2> QED
    BY <1>2, <1>4
<1>6. Inner(s) => /\ Inner(t)
                  /\ OthersWait(s) => OthersWait(t)
                  /\ Rest(s) => Rest(t)
                  /\ Concluding(s) => Concluding(t)
  BY QueueAllInner
<1>7. Shape(s) => Shape(t)
  BY QueueAllShape
<1> QED
  BY <1>2, <1>5, <1>6, <1>7 DEF Queues

\* _request_do hands over commands that are not immediate.
LEMMA RequestsQueueable ==
  ASSUME NEW s, NEW ks \in Seq(Kind)
  PROVE  LET cs == [i \in DOMAIN ks |-> NewCommand(ks[i], FALSE)]
         IN Queueable(s, cs) /\ (ks # <<>> => cs # <<>>)
<1> DEFINE cs == [i \in DOMAIN ks |-> NewCommand(ks[i], FALSE)]
<1>1. Len(ks) \in Nat /\ DOMAIN ks = 1 .. Len(ks) /\ (ks # <<>> => Len(ks) # 0)
  BY LenProperties, EmptySeq
<1>2. ASSUME NEW i \in 1 .. Len(ks)
      PROVE  /\ NewCommand(ks[i], FALSE) \in Command
             /\ NewCommand(ks[i], FALSE).status = "QUEUED"
             /\ NewCommand(ks[i], FALSE).immediate = FALSE
  <2>1. ks[i] \in Kind
    BY <1>2, ElementOfSeq
  <2> QED
    BY <2>1 DEF NewCommand, Command, Status
<1>3. cs \in [1 .. Len(ks) -> Command]
  BY <1>1, <1>2
<1>4. cs \in Seq(Command) /\ DOMAIN cs = 1 .. Len(ks)
  <2> HIDE DEF cs
  <2> QED
    BY <1>1, <1>3, SeqDef
<1>5. ks # <<>> => cs # <<>>
  <2>1. DOMAIN cs = 1 .. Len(ks) /\ (ks # <<>> => 1 \in 1 .. Len(ks))
    BY <1>1, <1>4
  <2> HIDE DEF cs
  <2>2. cs = <<>> => DOMAIN cs = 1 .. 0
    BY <1>4, EmptySeq, LenProperties
  <2> QED
    BY <2>1, <2>2
<1>6. \A i \in DOMAIN cs : cs[i].status = "QUEUED" /\ cs[i].immediate = FALSE
  BY <1>1, <1>2
<1> QED
  BY <1>4, <1>5, <1>6 DEF Queueable

LEMMA RequestAllQueues ==
  ASSUME NEW s \in Structure, NEW ks \in Seq(Kind)
  PROVE  LET t == RequestAll(s, ks)
         IN /\ Queues(s, t)
            /\ s.mode # "INIT" /\ ks # <<>> => t.queue # <<>>
<1> DEFINE cs == [i \in DOMAIN ks |-> NewCommand(ks[i], FALSE)]
<1>1. Queueable(s, cs) /\ (ks # <<>> => cs # <<>>)
  BY RequestsQueueable
<1>2. RequestAll(s, ks) = QueueAll(s, cs)
  BY DEF RequestAll
<1> HIDE DEF cs
<1> QED
  BY <1>1, <1>2, QueueAllQueues

\* A sequence of one kind.
LEMMA OneKind ==
  ASSUME NEW k \in Kind
  PROVE  <<k>> \in Seq(Kind) /\ <<k>> # <<>>
OBVIOUS

LEMMA RegistrationQueues ==
  ASSUME NEW s \in Structure
  PROVE  Queues(s, RegistrationEvent(s))
<1>1. Queues(s, RequestAll(s, <<"automatic">>))
  <2>1. "automatic" \in Kind
    BY DEF Kind
  <2> QED
    BY <2>1, OneKind, RequestAllQueues
<1> QED
  BY <1>1, QueuesReflexive DEF RegistrationEvent


-----------------------------------------------------------------------------
(* Resets and modes *)

\* _hayes_reset_stop leaves nothing but what says that the plug-in is started.
LEMMA ResetStopClears ==
  ASSUME NEW s \in Structure
  PROVE  LET t == ResetStop(s)
         IN /\ t \in Structure /\ t.active = s.active /\ t.parsing = s.parsing
            /\ t.mode = "INIT" /\ t.queue = <<>> /\ t.queue_timeout = <<>>
            /\ t.live = s.live \ {s.source} /\ t.source = "none" /\ ~t.timeout
            /\ ~t.channel /\ ~t.rd_source /\ ~t.wr_source
            /\ t.rd_buf = <<>> /\ t.wr_buf = <<>>
            /\ ~t.rd_ppp_source /\ ~t.connected
<1>1. /\ <<>> \in Seq(Command) /\ <<>> \in Seq(Kept) /\ <<>> \in Seq(Line)
      /\ <<>> \in Seq(Kind \union {"ppp"})
  BY EmptySeq
<1> DEFINE l == s.live \ {s.source}
           t == [s EXCEPT
                  !.mode = "INIT", !.queue = <<>>, !.queue_timeout = <<>>,
                  !.live = l, !.source = "none", !.timeout = FALSE,
                  !.channel = FALSE, !.rd_source = FALSE, !.wr_source = FALSE,
                  !.rd_buf = <<>>, !.wr_buf = <<>>,
                  !.ppp = FALSE, !.rd_ppp_source = FALSE, !.wr_ppp_source = FALSE,
                  !.connected = FALSE, !.authenticated = FALSE, !.disabled = FALSE]
<1>2. ResetStop(s) = t
  BY DEF ResetStop
<1>3. l \in SUBSET {"reset", "repeat"}
  BY DEF Structure
<1> HIDE DEF l
<1>4. /\ t \in Structure /\ t.active = s.active /\ t.parsing = s.parsing
      /\ t.mode = "INIT" /\ t.queue = <<>> /\ t.queue_timeout = <<>>
      /\ t.live = l /\ t.source = "none" /\ t.timeout = FALSE
      /\ t.channel = FALSE /\ t.rd_source = FALSE /\ t.wr_source = FALSE
      /\ t.rd_buf = <<>> /\ t.wr_buf = <<>>
      /\ t.rd_ppp_source = FALSE /\ t.connected = FALSE
  BY <1>1, <1>3 DEF Structure
<1> HIDE DEF t
<1> QED
  BY <1>2, <1>4 DEF l

LEMMA AddSourceAdds ==
  ASSUME NEW s \in Structure, NEW k \in {"reset", "repeat"}
  PROVE  LET t == AddSource(s, k)
         IN /\ t \in Structure /\ t.live = s.live \union {k} /\ t.source = k
            /\ t.active = s.active /\ t.mode = s.mode /\ t.queue = s.queue
            /\ t.queue_timeout = s.queue_timeout /\ t.timeout = s.timeout
            /\ t.channel = s.channel /\ t.rd_source = s.rd_source
            /\ t.wr_source = s.wr_source /\ t.rd_buf = s.rd_buf
            /\ t.wr_buf = s.wr_buf /\ t.rd_ppp_source = s.rd_ppp_source
            /\ t.connected = s.connected /\ t.parsing = s.parsing
BY DEF AddSource, Structure

\* A structure with nothing in it is at rest.
LEMMA NothingThere ==
  ASSUME NEW s \in Structure, s.mode = "INIT", s.queue = <<>>,
         s.queue_timeout = <<>>, ~s.timeout, ~s.channel, ~s.rd_source,
         ~s.wr_source, s.wr_buf = <<>>, ~s.rd_ppp_source, ~s.connected,
         ~s.parsing, s.live = {s.source} \ {"none"}, s.source # "repeat",
         s.active \/ s.source = "none"
  PROVE  Shape(s) /\ Rest(s)
<1>1. DOMAIN s.queue = {}
  <2>1. s.queue \in Seq(Command)
    BY DEF Structure
  <2> QED
    BY <2>1, LenProperties, EmptySeq
<1>2. Sources(s) /\ Modes(s) /\ Closed(s)
  BY DEF Sources, Modes, Closed
<1>3. OnlyResets(s) /\ Rest(s)
  BY <1>1 DEF OnlyResets, Rest, OthersWait
<1> QED
  BY <1>2, <1>3 DEF Shape, Inner

\* _hayes_reset leaves one source, which will open the device again.
LEMMA ResetLeaves ==
  ASSUME NEW s \in Structure
  PROVE  LET t == Reset(s)
         IN /\ t \in Structure /\ t.rd_buf = <<>> /\ t.mode = "INIT"
            /\ t.queue = <<>> /\ t.parsing = s.parsing
            /\ Shape(s) /\ s.active /\ ~s.parsing => Shape(t) /\ Rest(t)
<1> DEFINE u == ResetStop(s)
           t == Reset(s)
<1>1. /\ u \in Structure /\ u.active = s.active /\ u.parsing = s.parsing
      /\ u.mode = "INIT" /\ u.queue = <<>> /\ u.queue_timeout = <<>>
      /\ u.live = s.live \ {s.source} /\ u.source = "none" /\ ~u.timeout
      /\ ~u.channel /\ ~u.rd_source /\ ~u.wr_source
      /\ u.rd_buf = <<>> /\ u.wr_buf = <<>>
      /\ ~u.rd_ppp_source /\ ~u.connected
  BY ResetStopClears
<1>2. t = AddSource(u, "reset")
  BY DEF Reset, ResetStart
<1> HIDE DEF u, t
<1>3. /\ t \in Structure /\ t.live = u.live \union {"reset"} /\ t.source = "reset"
      /\ t.active = u.active /\ t.mode = u.mode /\ t.queue = u.queue
      /\ t.queue_timeout = u.queue_timeout /\ t.timeout = u.timeout
      /\ t.channel = u.channel /\ t.rd_source = u.rd_source
      /\ t.wr_source = u.wr_source /\ t.rd_buf = u.rd_buf
      /\ t.wr_buf = u.wr_buf /\ t.rd_ppp_source = u.rd_ppp_source
      /\ t.connected = u.connected /\ t.parsing = u.parsing
  BY <1>1, <1>2, AddSourceAdds
<1>4. ASSUME Shape(s), s.active, ~s.parsing PROVE Shape(t) /\ Rest(t)
  <2>1. t.live = {t.source} \ {"none"}
    BY <1>1, <1>3, <1>4 DEF Shape, Inner, Sources
  <2> QED
    BY <1>1, <1>3, <1>4, <2>1, NothingThere
<1> QED
  BY <1>1, <1>3, <1>4 DEF t

\* A new mode is all that changes.
LEMMA ModeSet ==
  ASSUME NEW s \in Structure, NEW m \in {"INIT", "COMMAND", "DATA"}
  PROVE  LET t == [s EXCEPT !.mode = m]
         IN /\ t \in Structure /\ Beside(s, t) /\ t.mode = m
            /\ t.queue = s.queue /\ t.timeout = s.timeout
            /\ t.wr_source = s.wr_source /\ t.wr_buf = s.wr_buf
BY DEF Structure, Beside

\* _hayes_set_mode out of a data call frees what was read; it keeps a line that
\* is being parsed from being left there.
LEMMA LeavingData ==
  ASSUME NEW s \in Structure, s.mode = "DATA", NEW m \in {"INIT", "COMMAND"}
  PROVE  LET t == SetMode(s, m)
         IN /\ t \in Structure /\ t.rd_buf = <<>> /\ t.mode = m /\ t.queue = <<>>
            /\ m = "INIT" /\ Shape(s) /\ s.active /\ ~s.parsing => Shape(t) /\ Rest(t)
<1> DEFINE u == Reset(s)
           t == SetMode(s, m)
<1>1. t = [u EXCEPT !.mode = m]
  BY DEF SetMode
<1>2. /\ u \in Structure /\ u.rd_buf = <<>> /\ u.mode = "INIT"
      /\ u.queue = <<>> /\ u.parsing = s.parsing
      /\ Shape(s) /\ s.active /\ ~s.parsing => Shape(u) /\ Rest(u)
  BY ResetLeaves
<1> HIDE DEF u, t
<1>3. m = "INIT" => t = u
  BY <1>1, <1>2 DEF Structure
<1>4. /\ t \in Structure /\ Beside(u, t) /\ t.mode = m /\ t.queue = u.queue
  <2>1. m \in {"INIT", "COMMAND", "DATA"} /\ u \in Structure
    BY <1>2
  <2> QED
    BY <1>1, <2>1, ModeSet
<1> QED
  BY <1>2, <1>3, <1>4 DEF Beside, t

\* The modem is initialised: commands may be queued from now on.
LEMMA ModeInitialised ==
  ASSUME NEW s \in Structure, s.mode # "DATA"
  PROVE  LET t == SetMode(s, "COMMAND")
         IN /\ t \in Structure /\ Beside(s, t) /\ t.mode = "COMMAND"
            /\ t.queue = s.queue
            /\ s.channel /\ Shape(s) /\ OthersWait(s) => Shape(t) /\ OthersWait(t)
<1> DEFINE t == SetMode(s, "COMMAND")
<1>1. t = [s EXCEPT !.mode = "COMMAND"]
  BY DEF SetMode
<1> HIDE DEF t
<1>2. /\ t \in Structure /\ Beside(s, t) /\ t.mode = "COMMAND"
      /\ t.queue = s.queue /\ t.timeout = s.timeout
      /\ t.wr_source = s.wr_source /\ t.wr_buf = s.wr_buf
  BY <1>1, ModeSet
<1>3. ASSUME s.channel, Shape(s), OthersWait(s)
      PROVE  Shape(t) /\ OthersWait(t)
  <2>1. Sources(t) /\ Modes(t)
    BY <1>2, <1>3 DEF Shape, Inner, Sources, Modes, Beside
  <2>2. Closed(t)
    BY <1>2, <1>3 DEF Shape, Inner, Closed, Beside
  <2>3. OnlyResets(t) /\ OthersWait(t)
    BY <1>2, <1>3 DEF OnlyResets, OthersWait
  <2> QED
    BY <2>1, <2>2, <2>3 DEF Shape, Inner
<1> QED
  BY <1>2, <1>3 DEF t

\* Entering a data call: what is queued meanwhile waits until it has ended.
LEMMA EnteringData ==
  ASSUME NEW s \in Structure
  PROVE  LET t == SetMode(s, "DATA")
         IN /\ t \in Structure /\ Beside(s, t) /\ t.mode = "DATA"
            /\ s.queue # <<>> => t.queue # <<>>
            /\ Shape(s) /\ s.channel => Shape(t) /\ Rest(t)
            /\ Shape(s) /\ s.channel /\ s.queue # <<>> => Concluding(t)
<1> DEFINE u == IF s.mode = "DATA" THEN s ELSE RegistrationEvent(s)
           t == SetMode(s, "DATA")
<1>1. t = [u EXCEPT !.mode = "DATA"]
  <2> DEFINE c == CASE s.mode # "DATA" /\ s.mode = "DATA" -> Reset(s)
                    [] s.mode # "DATA" /\ "DATA" = "DATA" -> RegistrationEvent(s)
                    [] OTHER -> s
  <2>1. t = [c EXCEPT !.mode = "DATA"]
    BY DEF SetMode
  <2>2. c = u
    <3>1. CASE s.mode = "DATA"
      BY <3>1
    <3>2. CASE s.mode # "DATA"
      BY <3>2
    <3> QED
      BY <3>1, <3>2
  <2> HIDE DEF c, t, u
  <2> QED
    BY <2>1, <2>2
<1>2. Queues(s, u)
  BY RegistrationQueues, QueuesReflexive
<1> HIDE DEF t, u
<1>3. /\ t \in Structure /\ Beside(u, t) /\ t.mode = "DATA"
      /\ t.queue = u.queue /\ t.timeout = u.timeout
      /\ t.wr_source = u.wr_source /\ t.wr_buf = u.wr_buf
  BY <1>1, <1>2, ModeSet DEF Queues
<1>4. Beside(s, t) /\ (s.queue # <<>> => t.queue # <<>>)
  BY <1>2, <1>3 DEF Queues, Beside
<1>5. ASSUME Shape(s), s.channel PROVE Shape(t) /\ Rest(t)
  <2>1. Shape(u) /\ u.channel
    BY <1>2, <1>5 DEF Queues, Beside
  <2>2. Sources(t) /\ Modes(t)
    BY <2>1, <1>3 DEF Shape, Inner, Sources, Modes, Beside
  <2>3. Closed(t)
    BY <2>1, <1>3 DEF Shape, Inner, Closed, Beside
  <2>4. OnlyResets(t) /\ Rest(t)
    BY <1>3 DEF OnlyResets, Rest, OthersWait
  <2> QED
    BY <2>2, <2>3, <2>4 DEF Shape, Inner
<1>6. s.queue # <<>> => Concluding(t)
  BY <1>3, <1>4 DEF Concluding, OthersWait
<1> QED
  BY <1>3, <1>4, <1>5, <1>6 DEF t


-----------------------------------------------------------------------------
(* The callbacks of the commands *)

LEMMA SomeKinds ==
  ASSUME NEW k \in Kind, NEW n \in Nat
  PROVE  Some(k, n) \in Seq(Kind)
<1> DEFINE m == IF n < MaxPlain THEN n ELSE MaxPlain
           f == [i \in 1 .. m |-> k]
<1>1. m \in Nat
  BY BoundsAssumption
<1>2. f \in [1 .. m -> Kind]
  OBVIOUS
<1>3. Some(k, n) = f
  BY DEF Some
<1> HIDE DEF m, f
<1> QED
  BY <1>1, <1>2, <1>3, SeqDef

\* What a callback requests are commands, and some in any case after ATZ.
LEMMA FollowUpKinds ==
  ASSUME NEW k \in Kind, NEW st \in Status, NEW b \in BOOLEAN
  PROVE  /\ FollowUp(k, st, b) \in Seq(Kind)
         /\ k = "reset" /\ st = "SUCCESS" => FollowUp(k, st, b) # <<>>
         /\ k = "reset" /\ st # "SUCCESS" => FollowUp(k, st, b) = <<>>
<1>1. /\ <<"functional">> \in Seq(Kind) /\ <<"functional">> # <<>>
      /\ <<"enable">> \in Seq(Kind) /\ <<"pin">> \in Seq(Kind)
      /\ <<"registration", "contacts">> \in Seq(Kind)
      /\ <<"creg">> \in Seq(Kind) /\ <<"active">> \in Seq(Kind) /\ <<>> \in Seq(Kind)
      /\ "plain" \in Kind
  BY DEF Kind
<1>2. Some("plain", 4) \in Seq(Kind) /\ Some("plain", 7) \in Seq(Kind)
  BY <1>1, SomeKinds
<1> DEFINE a == Some("plain", 4) \o <<"functional">>
           c == Some("plain", 7) \o <<"registration", "contacts">>
<1>3. a \in Seq(Kind) /\ a # <<>> /\ c \in Seq(Kind)
  BY <1>1, <1>2, ConcatElements
<1>4. CASE k = "reset" /\ st = "SUCCESS"
  <2>1. FollowUp(k, st, b) = a
    BY <1>4 DEF FollowUp
  <2> QED
    BY <2>1, <1>3, <1>4
<1>5. CASE k = "reset" /\ st # "SUCCESS"
  <2>1. FollowUp(k, st, b) = <<>>
    BY <1>5 DEF FollowUp
  <2> QED
    BY <2>1, <1>1, <1>5
<1>6. CASE k = "pin"
  <2>1. FollowUp(k, st, b) = c \/ FollowUp(k, st, b) = <<>>
    BY <1>6 DEF FollowUp
  <2> QED
    BY <2>1, <1>1, <1>3, <1>6
<1>7. CASE k \notin {"reset", "pin"}
  <2>1. \/ FollowUp(k, st, b) = <<"enable">> \/ FollowUp(k, st, b) = <<"pin">>
        \/ FollowUp(k, st, b) = <<"creg">> \/ FollowUp(k, st, b) = <<"active">>
        \/ FollowUp(k, st, b) = <<>>
    BY <1>7 DEF FollowUp, OnOnline
  <2> QED
    BY <2>1, <1>1, <1>7
<1> QED
  BY <1>4, <1>5, <1>6, <1>7

\* The four folders are listed by commands that are not immediate.
LEMMA ListQueueable ==
  ASSUME NEW s
  PROVE  Queueable(s, ListAll)
<1>1. MaxLists \in Nat
  BY BoundsAssumption
<1>2. /\ NewCommand("list", TRUE) \in Command
      /\ NewCommand("list", TRUE).status = "QUEUED"
      /\ NewCommand("list", TRUE).immediate = FALSE
  BY DEF NewCommand, Command, Kind, Status
<1>3. ListAll \in [1 .. MaxLists -> Command]
  BY <1>2 DEF ListAll
<1>4. \A i \in DOMAIN ListAll : ListAll[i] = NewCommand("list", TRUE)
  BY DEF ListAll
<1>5. ListAll \in Seq(Command)
  BY <1>1, <1>3, SeqDef
<1> QED
  BY <1>2, <1>4, <1>5 DEF Queueable

\* A command by itself.
LEMMA OneQueueable ==
  ASSUME NEW s, NEW c \in Command, c.status = "QUEUED",
         c.immediate => c.kind = "reset" /\ s.channel
  PROVE  Queueable(s, <<c>>) /\ <<c>> # <<>>
<1>1. /\ <<c>> \in Seq(Command) /\ <<c>> # <<>>
      /\ \A i \in DOMAIN <<c>> : <<c>>[i] = c
  OBVIOUS
<1> QED
  BY <1>1 DEF Queueable

LEMMA ResetCommandIs ==
  /\ ResetCommand \in Command /\ ResetCommand.status = "QUEUED"
  /\ ResetCommand.kind = "reset" /\ ResetCommand.immediate = TRUE
BY DEF ResetCommand, NewCommand, Command, Kind, Status

\* The first command with its status, before anything else is queued.
Reported(s, t, st) ==
  /\ t \in Structure /\ Beside(s, t) /\ t.mode = s.mode
  /\ t.wr_source = s.wr_source /\ t.wr_buf = s.wr_buf
  /\ t.queue # <<>> /\ Len(t.queue) = Len(s.queue)
  /\ DOMAIN t.queue = DOMAIN s.queue
  /\ t.queue[1].kind = s.queue[1].kind /\ t.queue[1].status = st
  /\ \A i \in DOMAIN s.queue : i # 1 => t.queue[i] = s.queue[i]

\* The command, as Conclude changes it first.
ReportedOf(s, st) ==
  LET k == s.queue[1].kind
      freed == [SetHead(s, st) EXCEPT !.queue[1].data =
                  IF k \in {"list", "message"} THEN FALSE ELSE @]
  IN [freed EXCEPT
        !.authenticated = @ /\ (k = "pin" => st = "SUCCESS"),
        !.disabled = @ /\ (k = "automatic" => st = "SUCCESS")]

\* Changing the data of the first command.
LEMMA DataSet ==
  ASSUME NEW s \in Structure, NEW d \in BOOLEAN, s.queue # <<>>
  PROVE  LET t == [s EXCEPT !.queue[1].data = d]
         IN Reported(s, t, s.queue[1].status)
<1> DEFINE t == [s EXCEPT !.queue[1].data = d]
           c == [s.queue[1] EXCEPT !.data = d]
           r == [s.queue EXCEPT ![1] = c]
<1>1. s.queue \in Seq(Command) /\ s.queue[1] \in Command
  BY TailElements DEF Structure
<1>2. c \in Command /\ c.kind = s.queue[1].kind /\ c.status = s.queue[1].status
  BY <1>1 DEF Command
<1>3. t = [s EXCEPT !.queue = r]
  OBVIOUS
<1> HIDE DEF t, c
<1>6. /\ r \in Seq(Command) /\ r # <<>> /\ Len(r) = Len(s.queue)
      /\ DOMAIN r = DOMAIN s.queue /\ r[1] = c
      /\ \A i \in DOMAIN s.queue : i # 1 => r[i] = s.queue[i]
  BY <1>1, <1>2, SetHeadQueue
<1> HIDE DEF r
<1>7. /\ t \in Structure /\ Beside(s, t) /\ t.mode = s.mode
      /\ t.wr_source = s.wr_source /\ t.wr_buf = s.wr_buf /\ t.queue = r
  BY <1>3, <1>6 DEF Structure, Beside
<1> QED
  BY <1>2, <1>6, <1>7 DEF t, Reported

LEMMA ReportedTransitive ==
  ASSUME NEW s, NEW t, NEW u, NEW a, NEW b, Reported(s, t, a), Reported(t, u, b)
  PROVE  Reported(s, u, b)
BY DEF Reported, Beside

LEMMA ReportedHolds ==
  ASSUME NEW s \in Structure, NEW st \in Status, s.queue # <<>>
  PROVE  Reported(s, ReportedOf(s, st), st)
<1> DEFINE k == s.queue[1].kind
           u == SetHead(s, st)
           d == IF k \in {"list", "message"} THEN FALSE ELSE u.queue[1].data
           v == [u EXCEPT !.queue[1].data = d]
           a == v.authenticated /\ (k = "pin" => st = "SUCCESS")
           b == v.disabled /\ (k = "automatic" => st = "SUCCESS")
           t == [v EXCEPT !.authenticated = a, !.disabled = b]
<1>1. ReportedOf(s, st) = t
  BY DEF ReportedOf
<1>2. /\ u = [s EXCEPT !.queue = u.queue]
      /\ u.queue \in Seq(Command) /\ u.queue # <<>>
      /\ Len(u.queue) = Len(s.queue) /\ DOMAIN u.queue = DOMAIN s.queue
      /\ u.queue[1].kind = s.queue[1].kind /\ u.queue[1].status = st
      /\ u.queue[1].data = s.queue[1].data
      /\ \A i \in DOMAIN s.queue : i # 1 => u.queue[i] = s.queue[i]
  BY SetHeadKeeps
<1>3. s.queue[1].data \in BOOLEAN
  <2>1. s.queue[1] \in Command
    BY TailElements DEF Structure
  <2> QED
    BY <2>1 DEF Command
<1> HIDE DEF u
<1>4. /\ u \in Structure /\ Beside(s, u) /\ u.mode = s.mode
      /\ u.wr_source = s.wr_source /\ u.wr_buf = s.wr_buf
  <2> DEFINE q == u.queue
  <2>1. u = [s EXCEPT !.queue = q] /\ q \in Seq(Command)
    BY <1>2
  <2> HIDE DEF q
  <2> QED
    BY <2>1 DEF Structure, Beside
<1>5. Reported(s, u, st)
  BY <1>2, <1>4 DEF Reported
<1>6. d \in BOOLEAN
  BY <1>2, <1>3
<1> HIDE DEF d
<1>7. Reported(u, v, u.queue[1].status)
  BY <1>2, <1>4, <1>6, DataSet
<1>8. Reported(s, v, st)
  BY <1>2, <1>5, <1>7, ReportedTransitive
<1> HIDE DEF v
<1>9. a \in BOOLEAN /\ b \in BOOLEAN /\ v \in Structure
  BY <1>8 DEF Reported
<1> HIDE DEF a, b
<1>10. /\ t \in Structure /\ Beside(v, t) /\ t.mode = v.mode
       /\ t.wr_source = v.wr_source /\ t.wr_buf = v.wr_buf
       /\ t.queue = v.queue
  BY <1>9 DEF Structure, Beside
<1> HIDE DEF t
<1> QED
  BY <1>1, <1>8, <1>10 DEF Reported, Beside


\* The mode that a concluded ATZ leaves.
ModedOf(s, st) ==
  IF s.queue[1].kind = "reset" /\ st = "SUCCESS"
  THEN SetMode(ReportedOf(s, st), "COMMAND") ELSE ReportedOf(s, st)

AskedOf(s, st) ==
  RequestAll(ModedOf(s, st), FollowUp(s.queue[1].kind, st, s.authenticated))

\* Conclude, in steps.
LEMMA ConcludeIs ==
  ASSUME NEW s, NEW st
  PROVE  LET k == s.queue[1].kind
             asked == AskedOf(s, st)
         IN /\ k = "reset" /\ st # "SUCCESS" =>
                 Conclude(s, st) = QueueAll(asked, <<ResetCommand>>)
            /\ k = "pin" /\ st = "SUCCESS" /\ s.authenticated =>
                 Conclude(s, st) = QueueAll(asked, ListAll)
            /\ ~(k = "reset" /\ st # "SUCCESS")
                 /\ ~(k = "pin" /\ st = "SUCCESS" /\ s.authenticated) =>
                 Conclude(s, st) = asked
<1> DEFINE k == s.queue[1].kind
           asked == AskedOf(s, st)
           a == QueueAll(asked, <<ResetCommand>>)
           b == QueueAll(asked, ListAll)
<1>1. Conclude(s, st) =
        CASE k = "reset" /\ st # "SUCCESS" -> a
          [] k = "pin" /\ st = "SUCCESS" /\ s.authenticated -> b
          [] OTHER -> asked
  BY Zenon DEF Conclude, AskedOf, ModedOf, ReportedOf
<1> HIDE DEF k, asked, a, b
<1>2. /\ k = "reset" /\ st # "SUCCESS" => Conclude(s, st) = a
      /\ k = "pin" /\ st = "SUCCESS" /\ s.authenticated => Conclude(s, st) = b
      /\ ~(k = "reset" /\ st # "SUCCESS")
           /\ ~(k = "pin" /\ st = "SUCCESS" /\ s.authenticated) =>
           Conclude(s, st) = asked
  BY <1>1
<1> QED
  BY <1>2, Zenon DEF k, asked, a, b

\* The kind of the first command and what its callback requests.
LEMMA HeadKind ==
  ASSUME NEW s \in Structure, s.queue # <<>>, NEW st \in Status
  PROVE  LET ks == FollowUp(s.queue[1].kind, st, s.authenticated)
         IN /\ s.queue[1].kind \in Kind /\ 1 \in DOMAIN s.queue
            /\ ks \in Seq(Kind)
            /\ s.queue[1].kind = "reset" /\ st = "SUCCESS" => ks # <<>>
            /\ s.queue[1].kind = "reset" /\ st # "SUCCESS" => ks = <<>>
<1>1. s.queue[1] \in Command /\ 1 \in DOMAIN s.queue /\ s.authenticated \in BOOLEAN
  BY TailElements DEF Structure
<1>2. s.queue[1].kind \in Kind
  BY <1>1 DEF Command
<1> QED
  BY <1>1, <1>2, FollowUpKinds

\* ATZ that is answered during a data call: a command that was repeated late.
\* The modem is reset under the handler.
ResetsUnder(s, st) == s.mode = "DATA" /\ s.queue[1].kind = "reset" /\ st = "SUCCESS"

\* A concluded command stays the first of the queue, and what was read is kept,
\* unless it is freed with everything else.
LEMMA ConcludeTyped ==
  ASSUME NEW s \in Structure, NEW st \in Final, s.queue # <<>>
  PROVE  LET t == Conclude(s, st)
         IN /\ t \in Structure /\ t.queue # <<>>
            /\ t.rd_buf = s.rd_buf \/ t.rd_buf = <<>>
            /\ ResetsUnder(s, st) => t.rd_buf = <<>>
<1> DEFINE k == s.queue[1].kind
           r == ReportedOf(s, st)
           m == ModedOf(s, st)
           ks == FollowUp(k, st, s.authenticated)
           a == AskedOf(s, st)
           t == Conclude(s, st)
<1>1. st \in Status
  BY DEF Final, Status
<1>2. Reported(s, r, st)
  BY <1>1, ReportedHolds
<1>3. /\ ks \in Seq(Kind)
      /\ k = "reset" /\ st = "SUCCESS" => ks # <<>>
  BY <1>1, HeadKind
<1>4. /\ m = IF k = "reset" /\ st = "SUCCESS" THEN SetMode(r, "COMMAND") ELSE r
      /\ a = RequestAll(m, ks)
  BY DEF ModedOf, AskedOf
<1> HIDE DEF r, ks, m, a, k, t
<1>5. /\ m \in Structure
      /\ m.queue # <<>> \/ (m.mode = "COMMAND" /\ ks # <<>>)
      /\ m.rd_buf = s.rd_buf \/ m.rd_buf = <<>>
      /\ k = "reset" /\ st = "SUCCESS" /\ s.mode = "DATA" => m.rd_buf = <<>>
  <2>0. r \in Structure /\ r.queue # <<>> /\ r.mode = s.mode /\ r.rd_buf = s.rd_buf
    BY <1>2 DEF Reported, Beside
  <2>1. CASE k = "reset" /\ st = "SUCCESS" /\ s.mode = "DATA"
    <3>1. m = SetMode(r, "COMMAND")
      BY <1>4, <2>1
    <3>2. m \in Structure /\ m.rd_buf = <<>> /\ m.mode = "COMMAND"
      BY <3>1, <2>0, <2>1, LeavingData
    <3> QED
      BY <3>2, <1>3, <2>1
  <2>2. CASE k = "reset" /\ st = "SUCCESS" /\ s.mode # "DATA"
    <3>1. m = SetMode(r, "COMMAND")
      BY <1>4, <2>2
    <3>2. m \in Structure /\ Beside(r, m) /\ m.queue = r.queue
      BY <3>1, <2>0, <2>2, ModeInitialised
    <3> QED
      BY <3>2, <2>0, <2>2 DEF Beside
  <2>3. CASE ~(k = "reset" /\ st = "SUCCESS")
    BY <2>3, <2>0, <1>4
  <2> QED
    BY <2>1, <2>2, <2>3
<1>6. /\ a \in Structure /\ a.queue # <<>> /\ a.rd_buf = m.rd_buf
  <2>1. Queues(m, a) /\ (m.mode # "INIT" /\ ks # <<>> => a.queue # <<>>)
    BY <1>3, <1>4, <1>5, RequestAllQueues
  <2> QED
    BY <2>1, <1>5 DEF Queues, Beside
<1>7. \/ t = QueueAll(a, <<ResetCommand>>)
      \/ t = QueueAll(a, ListAll)
      \/ t = a
  <2>1. \/ Conclude(s, st) = QueueAll(AskedOf(s, st), <<ResetCommand>>)
        \/ Conclude(s, st) = QueueAll(AskedOf(s, st), ListAll)
        \/ Conclude(s, st) = AskedOf(s, st)
    BY ConcludeIs
  <2> QED
    BY <2>1 DEF t, a
<1>8. <<ResetCommand>> \in Seq(Command) /\ ListAll \in Seq(Command)
  BY ResetCommandIs, ListQueueable DEF Queueable
<1>9. t \in Structure /\ t.queue # <<>> /\ t.rd_buf = a.rd_buf
  <2>1. ASSUME NEW cs \in Seq(Command), t = QueueAll(a, cs)
        PROVE  t \in Structure /\ t.queue # <<>> /\ t.rd_buf = a.rd_buf
    <3>1. t \in Structure /\ Beside(a, t) /\ t.queue # <<>>
      BY <2>1, <1>6, QueueAllKeeps
    <3> QED
      BY <3>1 DEF Beside
  <2> QED
    BY <2>1, <1>6, <1>7, <1>8
<1>10. ResetsUnder(s, st) => t.rd_buf = <<>>
  BY <1>5, <1>6, <1>9 DEF ResetsUnder, k
<1> QED
  BY <1>5, <1>6, <1>9, <1>10 DEF t

\* Concluding the first command keeps the structure in shape, and never leaves
\* a modem that is not initialised without another ATZ.
LEMMA ConcludeHolds ==
  ASSUME NEW s \in Structure, NEW st \in Final, s.queue # <<>>,
         Shape(s), OthersWait(s), ~ResetsUnder(s, st)
  PROVE  LET t == Conclude(s, st)
         IN /\ t \in Structure /\ Beside(s, t) /\ t.queue # <<>>
            /\ t.queue[1].status = st
            /\ s.mode = "DATA" => t.mode = "DATA"
            /\ t.mode = "DATA" => s.mode = "DATA"
            /\ Shape(t) /\ OthersWait(t) /\ Concluding(t)
            /\ t.mode = "INIT" => Len(t.queue) > 1
<1> DEFINE k == s.queue[1].kind
           r == ReportedOf(s, st)
           m == ModedOf(s, st)
           ks == FollowUp(k, st, s.authenticated)
           a == AskedOf(s, st)
           t == Conclude(s, st)
<1>1. st \in Status
  BY DEF Final, Status
<1>2. Reported(s, r, st)
  BY <1>1, ReportedHolds
<1>3. ks \in Seq(Kind) /\ 1 \in DOMAIN s.queue
  BY <1>1, HeadKind
<1>4. /\ m = IF k = "reset" /\ st = "SUCCESS" THEN SetMode(r, "COMMAND") ELSE r
      /\ a = RequestAll(m, ks)
  BY DEF ModedOf, AskedOf
<1>5. ~(s.mode = "DATA" /\ k = "reset" /\ st = "SUCCESS")
  BY DEF ResetsUnder
<1>6. s.channel
  BY DEF Shape, Inner, Closed
<1>7. s.mode = "INIT" => k = "reset"
  BY <1>3 DEF Shape, Inner, OnlyResets
<1>8. /\ k = "reset" /\ st # "SUCCESS" => t = QueueAll(a, <<ResetCommand>>)
      /\ ~(k = "reset" /\ st # "SUCCESS") =>
           \/ t = QueueAll(a, ListAll) \/ t = a
  BY ConcludeIs, Zenon
<1> HIDE DEF r, ks, m, a, k, t
<1>9. /\ r \in Structure /\ r.queue # <<>> /\ r.mode = s.mode /\ Beside(s, r)
      /\ r.queue[1].status = st
      /\ Shape(r) /\ OthersWait(r)
  <2>1. Sources(r) /\ Modes(r)
    BY <1>2 DEF Reported, Shape, Inner, Sources, Modes, Beside
  <2>2. Closed(r)
    BY <1>2, <1>6 DEF Reported, Shape, Inner, Closed, Beside
  <2>3. OnlyResets(r)
    <3>1. ASSUME r.mode = "INIT", NEW i \in DOMAIN r.queue
          PROVE  r.queue[i].kind = "reset"
      <4>1. i \in DOMAIN s.queue /\ s.mode = "INIT"
        BY <3>1, <1>2 DEF Reported
      <4>2. \A j \in DOMAIN s.queue : s.queue[j].kind = "reset"
        BY <4>1 DEF Shape, Inner, OnlyResets
      <4>3. CASE i = 1
        BY <4>2, <4>3, <1>2, <1>3 DEF Reported
      <4>4. CASE i # 1
        BY <4>1, <4>2, <4>4, <1>2 DEF Reported
      <4> QED
        BY <4>3, <4>4
    <3> QED
      BY <3>1 DEF OnlyResets
  <2>4. OthersWait(r)
    BY <1>2 DEF Reported, OthersWait
  <2> QED
    BY <2>1, <2>2, <2>3, <2>4, <1>2 DEF Shape, Inner, Reported
<1>10. /\ m \in Structure /\ m.queue # <<>> /\ Beside(s, m)
       /\ m.queue[1].status = st
       /\ Shape(m) /\ OthersWait(m)
       /\ m.mode = IF k = "reset" /\ st = "SUCCESS" THEN "COMMAND" ELSE s.mode
  <2>1. CASE k = "reset" /\ st = "SUCCESS"
    <3>1. m = SetMode(r, "COMMAND")
      BY <1>4, <2>1
    <3>2. r.channel /\ r.mode # "DATA"
      BY <1>5, <1>6, <1>9, <2>1 DEF Beside
    <3>3. /\ m \in Structure /\ Beside(r, m) /\ m.queue = r.queue
          /\ m.mode = "COMMAND" /\ Shape(m) /\ OthersWait(m)
      BY <3>1, <3>2, <1>9, ModeInitialised
    <3> QED
      BY <3>3, <1>9, <2>1 DEF Beside
  <2>2. CASE ~(k = "reset" /\ st = "SUCCESS")
    BY <2>2, <1>4, <1>9
  <2> QED
    BY <2>1, <2>2
<1>11. Queues(m, a)
  BY <1>3, <1>4, <1>10, RequestAllQueues
<1>12. /\ a \in Structure /\ a.queue # <<>> /\ Beside(s, a)
       /\ a.queue[1].status = st /\ a.mode = m.mode
       /\ Shape(a) /\ OthersWait(a)
  BY <1>10, <1>11 DEF Queues, Beside, Shape
<1>13. Queues(a, t)
  <2>1. Queueable(a, <<ResetCommand>>)
    <3>1. a.channel
      BY <1>6, <1>12 DEF Beside
    <3> QED
      BY <3>1, ResetCommandIs, OneQueueable
  <2>2. Queueable(a, ListAll)
    BY ListQueueable
  <2>3. \/ t = QueueAll(a, <<ResetCommand>>)
        \/ t = QueueAll(a, ListAll)
        \/ t = a
    BY <1>8
  <2> QED
    BY <2>1, <2>2, <2>3, <1>12, QueueAllQueues, QueuesReflexive
<1>14. /\ t \in Structure /\ t.queue # <<>> /\ Beside(s, t)
       /\ t.queue[1].status = st /\ t.mode = m.mode
       /\ Shape(t) /\ OthersWait(t)
  BY <1>12, <1>13 DEF Queues, Beside, Shape
<1>15. t.mode = "INIT" => Len(t.queue) > 1
  <2>1. SUFFICES ASSUME t.mode = "INIT" PROVE Len(t.queue) > 1
    OBVIOUS
  <2>2. k = "reset" /\ st # "SUCCESS" /\ a.mode = "INIT"
    BY <2>1, <1>7, <1>10, <1>12, <1>14
  <2>3. t = QueueAll(a, <<ResetCommand>>)
    BY <2>2, <1>8
  <2>4. <<ResetCommand>> \in Seq(Command) /\ Len(<<ResetCommand>>) = 1
        /\ \A i \in DOMAIN <<ResetCommand>> : <<ResetCommand>>[i].immediate
    BY ResetCommandIs
  <2>5. Accepted(a, <<ResetCommand>>) = <<ResetCommand>>
    BY <2>4 DEF Accepted
  <2>6. t.queue = a.queue \o <<ResetCommand>>
    BY <2>3, <2>4, <2>5, <1>12, QueueAllExtends
  <2>7. a.queue \in Seq(Command) /\ a.queue # <<>>
    BY <1>12 DEF Structure
  <2>8. Len(t.queue) = Len(a.queue) + 1
    BY <2>4, <2>6, <2>7, ConcatElements
  <2>9. Len(a.queue) \in Nat \ {0}
    BY <2>7, EmptySeq
  <2> QED
    BY <2>8, <2>9
<1>16. Concluding(t)
  <2>1. t.queue[1].status \in Final /\ "ACTIVE" \notin Final
    BY <1>14 DEF Final
  <2> QED
    BY <2>1, <1>14, <1>15 DEF Concluding
<1>17. (s.mode = "DATA" => t.mode = "DATA") /\ (t.mode = "DATA" => s.mode = "DATA")
  BY <1>5, <1>10, <1>14
<1> QED
  BY <1>14, <1>15, <1>16, <1>17 DEF t


-----------------------------------------------------------------------------
(* The lines of the modem *)

LEMMA RestConcluding ==
  ASSUME NEW s, Rest(s), s.queue # <<>>
  PROVE  Concluding(s)
BY DEF Rest, Concluding

\* What a handler may do to a structure at rest: queue commands, conclude the
\* first one, or reset the modem, which leaves nothing of the line.
Handled(s, t) ==
  /\ t \in Structure
  /\ s.queue # <<>> => t.queue # <<>>
  /\ \/ t.rd_buf = <<>>
     \/ /\ t.rd_buf = s.rd_buf /\ t.channel = s.channel
        /\ t.active = s.active /\ t.parsing = s.parsing
        /\ s.mode = "DATA" => t.mode = "DATA"
        /\ Shape(t)
        /\ s.queue # <<>> => Concluding(t)
        /\ s.queue = <<>> => Rest(t)

LEMMA HandledSelf ==
  ASSUME NEW s \in Structure, Shape(s), Rest(s)
  PROVE  Handled(s, s)
BY RestConcluding DEF Handled

LEMMA HandledQueues ==
  ASSUME NEW s \in Structure, NEW t, NEW u, Handled(s, t), Queues(t, u)
  PROVE  Handled(s, u)
<1>1. u \in Structure /\ (s.queue # <<>> => u.queue # <<>>)
  BY DEF Handled, Queues
<1>2. CASE t.rd_buf = <<>>
  <2>1. u.rd_buf = <<>>
    BY <1>2 DEF Queues, Beside
  <2> QED
    BY <1>1, <2>1 DEF Handled
<1>3. CASE t.rd_buf # <<>>
  <2>1. /\ t.rd_buf = s.rd_buf /\ t.channel = s.channel
        /\ t.active = s.active /\ t.parsing = s.parsing
        /\ s.mode = "DATA" => t.mode = "DATA"
        /\ Shape(t)
        /\ s.queue # <<>> => Concluding(t)
        /\ s.queue = <<>> => Rest(t)
    BY <1>3 DEF Handled
  <2>2. /\ u.rd_buf = s.rd_buf /\ u.channel = s.channel
        /\ u.active = s.active /\ u.parsing = s.parsing
        /\ s.mode = "DATA" => u.mode = "DATA"
    BY <2>1 DEF Queues, Beside
  <2>3. /\ Shape(u)
        /\ s.queue # <<>> => Concluding(u)
        /\ s.queue = <<>> => Rest(u)
    BY <2>1 DEF Queues, Shape
  <2> QED
    BY <1>1, <2>2, <2>3 DEF Handled
<1> QED
  BY <1>2, <1>3

\* What Phone knows of the modem is not what the queue depends on.
LEMMA FlagsQueue ==
  ASSUME NEW s \in Structure, NEW b \in BOOLEAN
  PROVE  /\ Queues(s, [s EXCEPT !.authenticated = b])
         /\ Queues(s, [s EXCEPT !.disabled = b])
<1>1. ASSUME NEW t \in Structure, Beside(s, t), t.mode = s.mode,
             t.queue = s.queue, t.timeout = s.timeout,
             t.wr_source = s.wr_source, t.wr_buf = s.wr_buf
      PROVE  Queues(s, t)
  <2>1. Sources(s) => Sources(t)
    BY <1>1 DEF Sources, Beside
  <2>2. Modes(s) => Modes(t)
    BY <1>1 DEF Modes, Beside
  <2>3. Closed(s) => Closed(t)
    BY <1>1 DEF Closed, Beside
  <2>4. /\ OnlyResets(s) => OnlyResets(t)
        /\ OthersWait(s) => OthersWait(t)
    BY <1>1 DEF OnlyResets, OthersWait
  <2>5. Rest(s) => Rest(t)
    BY <1>1, <2>4 DEF Rest, Beside
  <2>6. Concluding(s) => Concluding(t)
    BY <1>1, <2>4 DEF Concluding
  <2>7. Len(t.queue) >= Len(s.queue)
    <3>1. s.queue \in Seq(Command)
      BY DEF Structure
    <3>2. Len(s.queue) \in Nat
      BY <3>1, LenProperties
    <3> QED
      BY <3>2, <1>1
  <2> QED
    BY <1>1, <2>1, <2>2, <2>3, <2>4, <2>5, <2>6, <2>7 DEF Queues, Shape, Inner
<1>2. LET t == [s EXCEPT !.authenticated = b]
      IN /\ t \in Structure /\ Beside(s, t) /\ t.mode = s.mode
         /\ t.queue = s.queue /\ t.timeout = s.timeout
         /\ t.wr_source = s.wr_source /\ t.wr_buf = s.wr_buf
  BY DEF Structure, Beside
<1>3. LET t == [s EXCEPT !.disabled = b]
      IN /\ t \in Structure /\ Beside(s, t) /\ t.mode = s.mode
         /\ t.queue = s.queue /\ t.timeout = s.timeout
         /\ t.wr_source = s.wr_source /\ t.wr_buf = s.wr_buf
  BY DEF Structure, Beside
<1> QED
  BY <1>1, <1>2, <1>3

LEMMA ConcludeHandled ==
  ASSUME NEW s \in Structure, Shape(s), Rest(s), NEW st \in Final
  PROVE  Handled(s, ConcludeHead(s, st))
<1>1. CASE s.queue = <<>>
  <2>1. ConcludeHead(s, st) = s
    BY <1>1 DEF ConcludeHead
  <2> QED
    BY <2>1, HandledSelf
<1>2. CASE s.queue # <<>> /\ ResetsUnder(s, st)
  <2> DEFINE t == Conclude(s, st)
  <2>1. ConcludeHead(s, st) = t
    BY <1>2 DEF ConcludeHead
  <2>2. t \in Structure /\ t.queue # <<>> /\ t.rd_buf = <<>>
    BY <1>2, ConcludeTyped
  <2> HIDE DEF t
  <2> QED
    BY <2>1, <2>2 DEF Handled
<1>3. CASE s.queue # <<>> /\ ~ResetsUnder(s, st)
  <2> DEFINE t == Conclude(s, st)
  <2>1. ConcludeHead(s, st) = t
    BY <1>3 DEF ConcludeHead
  <2>2. OthersWait(s)
    BY DEF Rest
  <2>3. /\ t \in Structure /\ Beside(s, t) /\ t.queue # <<>>
        /\ s.mode = "DATA" => t.mode = "DATA"
        /\ Shape(t) /\ Concluding(t)
    BY <1>3, <2>2, ConcludeHolds
  <2> HIDE DEF t
  <2> QED
    BY <1>3, <2>1, <2>3 DEF Handled, Beside
<1> QED
  BY <1>1, <1>2, <1>3

\* The SIM is busy: what is kept has its source, since the only source there can
\* be while the device is open is that of other commands kept.
LEMMA SimBusyHandled ==
  ASSUME NEW s \in Structure, Shape(s), Rest(s), s.channel
  PROVE  Handled(s, OnSimBusy(s))
<1>1. CASE s.queue = <<>>
  <2>1. OnSimBusy(s) = s
    BY <1>1 DEF OnSimBusy
  <2> QED
    BY <2>1, HandledSelf
<1>2. CASE s.queue # <<>>
  <2> DEFINE f == Conclude(s, "ERROR")
             c == NewCommand(f.queue[1].kind, f.queue[1].data)
             g == [f EXCEPT !.queue[1].data = FALSE]
             w == Append(f.queue_timeout, c)
             k == [g EXCEPT !.queue_timeout = w]
             t == OnSimBusy(s)
  <2>1. OthersWait(s) /\ ~ResetsUnder(s, "ERROR") /\ "ERROR" \in Final
    BY DEF Rest, ResetsUnder, Final
  <2>2. /\ f \in Structure /\ Beside(s, f) /\ f.queue # <<>>
        /\ s.mode = "DATA" => f.mode = "DATA"
        /\ Shape(f) /\ Concluding(f)
    BY <1>2, <2>1, ConcludeHolds
  <2>3. t = IF k.source = "none" THEN AddSource(k, "repeat") ELSE k
    <3> DEFINE e == [f EXCEPT !.queue_timeout = Append(@, c),
                              !.queue[1].data = FALSE]
    <3>1. t = IF e.source = "none" THEN AddSource(e, "repeat") ELSE e
      BY <1>2 DEF OnSimBusy
    <3>2. e = k
      <4>1. g.queue_timeout = f.queue_timeout
        BY <2>2 DEF Structure
      <4>2. e = [f EXCEPT !.queue_timeout = w, !.queue = g.queue]
        BY <2>2 DEF Structure
      <4>3. k = [f EXCEPT !.queue_timeout = w, !.queue = g.queue]
        BY <2>2 DEF Structure
      <4> QED
        BY <4>2, <4>3
    <3> HIDE DEF e, k, t
    <3> QED
      BY <3>1, <3>2
  <2> HIDE DEF f, t
  <2>4. c \in Kept
    <3>1. f.queue[1] \in Command
      BY <2>2, TailElements DEF Structure
    <3> QED
      BY <3>1 DEF NewCommand, Kept, Command, Status
  <2> HIDE DEF c
  <2>5. w \in Seq(Kept) /\ w # <<>>
    <3>1. f.queue_timeout \in Seq(Kept)
      BY <2>2 DEF Structure
    <3> QED
      BY <3>1, <2>4, AppendElements
  <2>6. Reported(f, g, f.queue[1].status)
    BY <2>2, DataSet
  <2> HIDE DEF w, g
  <2>7. /\ k \in Structure /\ k.queue_timeout = w
        /\ k.active = g.active /\ k.mode = g.mode /\ k.queue = g.queue
        /\ k.source = g.source /\ k.live = g.live /\ k.timeout = g.timeout
        /\ k.channel = g.channel /\ k.rd_source = g.rd_source
        /\ k.wr_source = g.wr_source /\ k.rd_buf = g.rd_buf
        /\ k.wr_buf = g.wr_buf /\ k.rd_ppp_source = g.rd_ppp_source
        /\ k.connected = g.connected /\ k.parsing = g.parsing
    BY <2>5, <2>6 DEF Structure, Reported
  <2>20. f.timeout = g.timeout
    BY <2>2, <2>6 DEF g, Structure
  <2> HIDE DEF k
  <2>8. f.channel /\ f.source # "reset" /\ f.active /\ f.source \in {"none", "repeat"}
    BY <2>2 DEF Beside, Shape, Inner, Sources, Closed, Structure
  <2>9. /\ t \in Structure /\ t.queue_timeout = w
        /\ t.active = f.active /\ t.mode = f.mode /\ t.queue = k.queue
        /\ t.source = "repeat" /\ t.live = {"repeat"} /\ t.timeout = f.timeout
        /\ t.channel = f.channel /\ t.rd_source = f.rd_source
        /\ t.wr_source = f.wr_source /\ t.rd_buf = f.rd_buf
        /\ t.wr_buf = f.wr_buf /\ t.rd_ppp_source = f.rd_ppp_source
        /\ t.connected = f.connected /\ t.parsing = f.parsing
    <3>1. /\ k.active = f.active /\ k.mode = f.mode
          /\ k.source = f.source /\ k.live = f.live
          /\ k.channel = f.channel /\ k.rd_source = f.rd_source
          /\ k.wr_source = f.wr_source /\ k.rd_buf = f.rd_buf
          /\ k.wr_buf = f.wr_buf /\ k.rd_ppp_source = f.rd_ppp_source
          /\ k.connected = f.connected /\ k.parsing = f.parsing
          /\ k.timeout = f.timeout
      BY <2>6, <2>7, <2>20 DEF Reported, Beside
    <3>2. f.live = {f.source} \ {"none"}
      BY <2>2 DEF Shape, Inner, Sources
    <3>3. CASE f.source = "none"
      <4>1. t = AddSource(k, "repeat")
        BY <2>3, <3>1, <3>3
      <4> QED
        BY <4>1, <2>7, <3>1, <3>2, <3>3, AddSourceAdds
    <3>4. CASE f.source = "repeat"
      <4>1. t = k
        BY <2>3, <3>1, <3>4
      <4> QED
        BY <4>1, <2>7, <3>1, <3>2, <3>4
    <3> QED
      BY <2>8, <3>3, <3>4
  <2>10. Sources(t) /\ Modes(t)
    BY <2>2, <2>5, <2>9 DEF Shape, Inner, Sources, Modes
  <2>11. Closed(t)
    BY <2>8, <2>9 DEF Closed
  <2>12. /\ t.queue # <<>> /\ Len(t.queue) = Len(f.queue)
         /\ DOMAIN t.queue = DOMAIN f.queue
         /\ t.queue[1].kind = f.queue[1].kind
         /\ t.queue[1].status = f.queue[1].status
         /\ \A i \in DOMAIN f.queue : i # 1 => t.queue[i] = f.queue[i]
    BY <2>6, <2>7, <2>9 DEF Reported
  <2>13. OnlyResets(t)
    <3>1. ASSUME t.mode = "INIT", NEW i \in DOMAIN t.queue
          PROVE  t.queue[i].kind = "reset"
      <4>1. \A j \in DOMAIN f.queue : f.queue[j].kind = "reset"
        BY <3>1, <2>2, <2>9 DEF Shape, Inner, OnlyResets
      <4>2. CASE i = 1
        BY <4>1, <4>2, <3>1, <2>12
      <4>3. CASE i # 1
        BY <4>1, <4>3, <3>1, <2>12
      <4> QED
        BY <4>2, <4>3
    <3> QED
      BY <3>1 DEF OnlyResets
  <2>14. Concluding(t)
    <3>1. OthersWait(t)
      BY <2>2, <2>9, <2>12 DEF Concluding, OthersWait
    <3> QED
      BY <3>1, <2>2, <2>9, <2>12 DEF Concluding
  <2>15. Handled(s, t)
    BY <1>2, <2>2, <2>9, <2>10, <2>11, <2>12, <2>13, <2>14 DEF Handled, Beside, Shape, Inner
  <2> QED
    BY <2>15 DEF t
<1> QED
  BY <1>1, <1>2


\* The device is given to pppd.
LEMMA ConnectHandled ==
  ASSUME NEW s \in Structure, Shape(s), Rest(s), s.channel
  PROVE  Handled(s, OnConnect(s))
<1> DEFINE f == ConcludeHead(s, "SUCCESS")
           d == SetMode(f, "DATA")
           t == OnConnect(s)
<1>1. t = [d EXCEPT !.ppp = TRUE, !.rd_ppp_source = TRUE, !.wr_ppp_source = FALSE,
                    !.connected = TRUE]
  BY DEF OnConnect
<1>2. Handled(s, f)
  BY ConcludeHandled DEF Final
<1>3. /\ d \in Structure /\ Beside(f, d) /\ d.mode = "DATA"
      /\ f.queue # <<>> => d.queue # <<>>
      /\ Shape(f) /\ f.channel => Shape(d) /\ Rest(d)
      /\ Shape(f) /\ f.channel /\ f.queue # <<>> => Concluding(d)
  BY <1>2, EnteringData DEF Handled
<1> HIDE DEF f, d, t
<1>4. /\ t \in Structure /\ t.active = d.active /\ t.mode = d.mode
      /\ t.queue = d.queue /\ t.queue_timeout = d.queue_timeout
      /\ t.source = d.source /\ t.live = d.live /\ t.timeout = d.timeout
      /\ t.channel = d.channel /\ t.rd_source = d.rd_source
      /\ t.wr_source = d.wr_source /\ t.rd_buf = d.rd_buf
      /\ t.wr_buf = d.wr_buf /\ t.parsing = d.parsing
  BY <1>1, <1>3 DEF Structure
<1>5. s.queue # <<>> => t.queue # <<>>
  BY <1>2, <1>3, <1>4 DEF Handled
<1>6. CASE f.rd_buf = <<>>
  BY <1>3, <1>4, <1>5, <1>6 DEF Handled, Beside, t
<1>7. CASE f.rd_buf # <<>>
  <2>1. /\ f.rd_buf = s.rd_buf /\ f.channel = s.channel
        /\ f.active = s.active /\ f.parsing = s.parsing /\ Shape(f)
    BY <1>2, <1>7 DEF Handled
  <2>2. Shape(d) /\ Rest(d) /\ d.channel
    BY <2>1, <1>3 DEF Beside
  <2>3. Sources(t) /\ Modes(t)
    BY <2>2, <1>3, <1>4 DEF Shape, Inner, Sources, Modes
  <2>4. Closed(t)
    BY <2>2, <1>4 DEF Shape, Inner, Closed
  <2>5. OnlyResets(t) /\ Rest(t)
    BY <1>3, <1>4 DEF OnlyResets, Rest, OthersWait
  <2>6. s.queue # <<>> => Concluding(t)
    BY <1>3, <1>4, <1>5 DEF Concluding, OthersWait
  <2>7. /\ t.rd_buf = s.rd_buf /\ t.channel = s.channel
        /\ t.active = s.active /\ t.parsing = s.parsing
    BY <2>1, <1>3, <1>4 DEF Beside
  <2> QED
    BY <1>3, <1>4, <1>5, <2>3, <2>4, <2>5, <2>6, <2>7 DEF Handled, Shape, Inner, t
<1> QED
  BY <1>6, <1>7

\* No call is left: all that changes is what was reported.
LEMMA CpasHandled ==
  ASSUME NEW s \in Structure, Shape(s), Rest(s)
  PROVE  Handled(s, OnCpas(s))
<1> DEFINE t == OnCpas(s)
<1>1. t = [s EXCEPT !.connected = FALSE]
  BY DEF OnCpas
<1> HIDE DEF t
<1>2. /\ t \in Structure /\ t.active = s.active /\ t.mode = s.mode
      /\ t.queue = s.queue /\ t.queue_timeout = s.queue_timeout
      /\ t.source = s.source /\ t.live = s.live /\ t.timeout = s.timeout
      /\ t.channel = s.channel /\ t.rd_source = s.rd_source
      /\ t.wr_source = s.wr_source /\ t.rd_buf = s.rd_buf
      /\ t.wr_buf = s.wr_buf /\ t.rd_ppp_source = s.rd_ppp_source
      /\ t.connected = FALSE /\ t.parsing = s.parsing
  BY <1>1 DEF Structure
<1>3. Sources(t) /\ Modes(t)
  BY <1>2 DEF Shape, Inner, Sources, Modes
<1>4. Closed(t)
  BY <1>2 DEF Shape, Inner, Closed
<1>5. OnlyResets(t)
  BY <1>2 DEF Shape, Inner, OnlyResets
<1>6. Rest(t)
  BY <1>2 DEF Rest, OthersWait
<1>7. s.queue # <<>> => Concluding(t)
  BY <1>2, <1>6, RestConcluding
<1> QED
  BY <1>2, <1>3, <1>4, <1>5, <1>6, <1>7 DEF Handled, Shape, Inner, t

\* The requests that handlers make are of these kinds.
LEMMA HandlerRequests ==
  ASSUME NEW s \in Structure, NEW k \in {"active", "pin", "enable", "cops",
           "registration", "plain", "creg", "hangup"}
  PROVE  Queues(s, RequestAll(s, <<k>>))
<1>1. k \in Kind
  BY DEF Kind
<1> QED
  BY <1>1, OneKind, RequestAllQueues

LEMMA CmeHandled ==
  ASSUME NEW s \in Structure, Shape(s), Rest(s), NEW c
  PROVE  Handled(s, OnCmeError(s, c))
<1> DEFINE f == ConcludeHead(s, "ERROR")
<1>1. Handled(s, f)
  BY ConcludeHandled DEF Final
<1>2. CASE c = "CME PIN"
  <2> DEFINE g == [f EXCEPT !.authenticated = FALSE]
  <2>1. OnCmeError(s, c) = RequestAll(g, <<"pin">>)
    BY <1>2 DEF OnCmeError
  <2> HIDE DEF f
  <2>2. Queues(f, g)
    BY <1>1, FlagsQueue DEF Handled
  <2> HIDE DEF g
  <2>3. Handled(s, g) /\ g \in Structure
    BY <1>1, <2>2, HandledQueues DEF Handled
  <2> QED
    BY <2>1, <2>3, HandlerRequests, HandledQueues
<1>3. CASE c = "CME SOS"
  <2> DEFINE g == RegistrationEvent(f)
  <2>1. OnCmeError(s, c) = RequestAll(g, <<"pin">>)
    BY <1>3 DEF OnCmeError
  <2> HIDE DEF f
  <2>2. Queues(f, g)
    BY <1>1, RegistrationQueues DEF Handled
  <2> HIDE DEF g
  <2>3. Handled(s, g) /\ g \in Structure
    BY <1>1, <2>2, HandledQueues DEF Handled
  <2> QED
    BY <2>1, <2>3, HandlerRequests, HandledQueues
<1>4. CASE c \notin {"CME PIN", "CME SOS"}
  <2>1. OnCmeError(s, c) = f
    BY <1>4 DEF OnCmeError
  <2> QED
    BY <1>1, <2>1
<1> QED
  BY <1>2, <1>3, <1>4

LEMMA CallErrorHandled ==
  ASSUME NEW s \in Structure, Shape(s), Rest(s)
  PROVE  Handled(s, OnCallError(s))
<1> DEFINE f == ConcludeHead(s, "ERROR")
<1>1. Handled(s, f)
  BY ConcludeHandled DEF Final
<1>2. OnCallError(s) = RequestAll(f, <<"active">>)
  BY DEF OnCallError
<1> HIDE DEF f
<1>3. Queues(f, RequestAll(f, <<"active">>))
  BY <1>1, HandlerRequests DEF Handled
<1> QED
  BY <1>1, <1>2, <1>3, HandledQueues

\* The handlers that only queue commands.
LEMMA CregQueues ==
  ASSUME NEW s \in Structure, NEW c
  PROVE  Queues(s, OnCreg(s, c))
<1> DEFINE b == (c = "CREG 0")
           t == [s EXCEPT !.disabled = b]
           u == IF c = "CREG 1" THEN RequestAll(t, <<"cops">>) ELSE t
<1>1. OnCreg(s, c) = RegistrationEvent(u)
  BY DEF OnCreg
<1>2. b \in BOOLEAN
  OBVIOUS
<1> HIDE DEF b
<1>3. Queues(s, t)
  BY <1>2, FlagsQueue
<1> HIDE DEF t
<1>4. t \in Structure
  BY <1>3 DEF Queues
<1>5. Queues(t, u)
  BY <1>4, HandlerRequests, QueuesReflexive
<1> HIDE DEF u
<1>6. u \in Structure
  BY <1>5 DEF Queues
<1>7. Queues(u, RegistrationEvent(u))
  BY <1>6, RegistrationQueues
<1> QED
  BY <1>1, <1>3, <1>4, <1>5, <1>7, QueuesTransitive

LEMMA CopsQueues ==
  ASSUME NEW s \in Structure, NEW c
  PROVE  Queues(s, OnCops(s, c))
<1> DEFINE b == (c = "COPS 2")
           t == [s EXCEPT !.disabled = b]
           ks == (IF c = "COPS n" THEN <<"registration">> ELSE <<>>) \o Some("plain", 2)
           u == RequestAll(t, ks)
<1>1. OnCops(s, c) = RegistrationEvent(u)
  BY DEF OnCops
<1>2. b \in BOOLEAN
  OBVIOUS
<1>3. ks \in Seq(Kind)
  <2>1. "plain" \in Kind /\ "registration" \in Kind
    BY DEF Kind
  <2>2. Some("plain", 2) \in Seq(Kind)
    BY <2>1, SomeKinds
  <2>3. <<"registration">> \in Seq(Kind) /\ <<>> \in Seq(Kind)
    BY <2>1, OneKind, EmptySeq
  <2> QED
    BY <2>2, <2>3, ConcatElements
<1> HIDE DEF b, ks
<1>4. Queues(s, t)
  BY <1>2, FlagsQueue
<1> HIDE DEF t
<1>5. t \in Structure
  BY <1>4 DEF Queues
<1>6. Queues(t, u)
  BY <1>3, <1>5, RequestAllQueues
<1> HIDE DEF u
<1>7. u \in Structure
  BY <1>6 DEF Queues
<1>8. Queues(u, RegistrationEvent(u))
  BY <1>7, RegistrationQueues
<1> QED
  BY <1>1, <1>4, <1>5, <1>6, <1>8, QueuesTransitive

LEMMA MessageQueues ==
  ASSUME NEW s \in Structure
  PROVE  Queues(s, OnCmgl(s)) /\ Queues(s, OnCmti(s))
<1>1. ASSUME NEW d \in BOOLEAN
      PROVE  Queues(s, QueueAll(s, <<NewCommand("message", d)>>))
  <2> DEFINE c == NewCommand("message", d)
  <2>1. c \in Command /\ c.status = "QUEUED" /\ c.immediate = FALSE
    BY DEF NewCommand, Command, Kind, Status
  <2> HIDE DEF c
  <2>2. Queueable(s, <<c>>)
    BY <2>1, OneQueueable
  <2> QED
    BY <2>2, QueueAllQueues DEF c
<1> QED
  BY <1>1 DEF OnCmgl, OnCmti

LEMMA OtherHandlersQueue ==
  ASSUME NEW s \in Structure, NEW c
  PROVE  Queues(s, OnCfun(s, c)) /\ Queues(s, OnCpin(s, c)) /\ Queues(s, OnCpbr(s))
<1>1. Queues(s, OnCfun(s, c))
  <2>1. OnCfun(s, c) = RequestAll(s, <<"pin">>) \/ OnCfun(s, c) = RequestAll(s, <<"enable">>)
    BY DEF OnCfun, OnOnline
  <2> QED
    BY <2>1, HandlerRequests
<1>2. Queues(s, OnCpin(s, c))
  <2> DEFINE b == (c = "CPIN READY")
  <2>1. OnCpin(s, c) = [s EXCEPT !.authenticated = b] /\ b \in BOOLEAN
    BY DEF OnCpin
  <2> HIDE DEF b
  <2> QED
    BY <2>1, FlagsQueue
<1>3. Queues(s, OnCpbr(s))
  BY HandlerRequests DEF OnCpbr
<1> QED
  BY <1>1, <1>2, <1>3

\* Every handler of a line.
LEMMA TriggerHandled ==
  ASSUME NEW s \in Structure, Shape(s), Rest(s), s.channel, NEW c
  PROVE  Handled(s, Trigger(s, c))
<1> DEFINE t == Trigger(s, c)
<1>1. \/ t \in {OnCallError(s), OnCmeError(s, c), OnSimBusy(s), OnConnect(s), OnCpas(s), s}
      \/ t \in {OnCfun(s, c), OnCpin(s, c), OnCreg(s, c), OnCops(s, c), OnCpbr(s),
                OnCmgl(s), OnCmti(s)}
  BY DEF Trigger
<1> HIDE DEF t
<1>2. CASE t \in {OnCallError(s), OnCmeError(s, c), OnSimBusy(s), OnConnect(s), OnCpas(s), s}
  <2>1. /\ Handled(s, OnCallError(s)) /\ Handled(s, OnCmeError(s, c))
        /\ Handled(s, OnSimBusy(s)) /\ Handled(s, OnConnect(s))
        /\ Handled(s, OnCpas(s)) /\ Handled(s, s)
    BY CallErrorHandled, CmeHandled, SimBusyHandled, ConnectHandled, CpasHandled,
       HandledSelf
  <2> QED
    BY <1>2, <2>1 DEF t
<1>3. CASE t \in {OnCfun(s, c), OnCpin(s, c), OnCreg(s, c), OnCops(s, c), OnCpbr(s),
                  OnCmgl(s), OnCmti(s)}
  <2>1. Queues(s, t)
    BY <1>3, CregQueues, CopsQueues, MessageQueues, OtherHandlersQueue
  <2>2. Handled(s, s)
    BY HandledSelf
  <2> QED
    BY <2>1, <2>2, HandledQueues DEF t
<1> QED
  BY <1>1, <1>2, <1>3


\* The concluded command leaves and the next one is sent.
LEMMA NextCommand ==
  ASSUME NEW s \in Structure, s.queue # <<>>
  PROVE  LET t == Push(Pop(s))
         IN /\ t \in Structure /\ Beside(s, t) /\ t.mode = s.mode
            /\ Shape(s) /\ OthersWait(s) /\ (s.mode = "INIT" => Len(s.queue) > 1)
                 => Shape(t) /\ Rest(t)
<1> DEFINE p == Pop(s)
           t == Push(p)
<1>1. /\ p \in Structure /\ Beside(s, p) /\ p.mode = s.mode
      /\ p.queue = Tail(s.queue) /\ ~p.timeout
      /\ p.wr_buf = s.wr_buf /\ p.wr_source = s.wr_source
  BY PopKeeps
<1> HIDE DEF p
<1>2. /\ t \in Structure /\ Beside(p, t) /\ t.mode = p.mode
      /\ p.queue = <<>> \/ p.mode = "DATA" => t = p
      /\ p.queue # <<>> /\ p.mode # "DATA" =>
           /\ t.queue # <<>> /\ Len(t.queue) = Len(p.queue)
           /\ DOMAIN t.queue = DOMAIN p.queue
           /\ t.queue[1].kind = p.queue[1].kind /\ t.queue[1].status = "ACTIVE"
           /\ \A i \in DOMAIN p.queue : i # 1 => t.queue[i] = p.queue[i]
           /\ t.timeout /\ t.wr_buf # <<>>
           /\ t.wr_source = (p.channel \/ p.wr_source)
  BY <1>1, PushKeeps
<1> HIDE DEF t
<1>3. Beside(s, t) /\ t.mode = s.mode
  BY <1>1, <1>2 DEF Beside
<1>4. ASSUME Shape(s), OthersWait(s), s.mode = "INIT" => Len(s.queue) > 1
      PROVE  Shape(t) /\ Rest(t)
  <2>1. s.queue \in Seq(Command)
    BY DEF Structure
  <2>2. /\ Tail(s.queue) \in Seq(Command)
        /\ Len(Tail(s.queue)) = Len(s.queue) - 1
        /\ Tail(s.queue) = <<>> <=> Len(s.queue) = 1
        /\ \A i \in DOMAIN Tail(s.queue) : /\ i + 1 \in DOMAIN s.queue /\ i + 1 # 1
                                           /\ Tail(s.queue)[i] = s.queue[i + 1]
    BY <2>1, TailElements
  <2>3. Len(s.queue) \in Nat
    BY <2>1, LenProperties
  <2>4. s.mode # "DATA" => \A i \in DOMAIN p.queue : p.queue[i].status = "QUEUED"
    BY <1>1, <1>4, <2>2 DEF OthersWait
  <2>5. s.mode = "INIT" => \A i \in DOMAIN p.queue : p.queue[i].kind = "reset"
    BY <1>1, <1>4, <2>2 DEF Shape, Inner, OnlyResets
  <2>6. s.mode = "INIT" => p.queue # <<>>
    <3>1. s.mode = "INIT" => Len(s.queue) # 1
      <4>1. \A n \in Nat : n > 1 => n # 1
        OBVIOUS
      <4>2. s.mode = "INIT" => Len(s.queue) > 1
        BY <1>4
      <4> QED
        BY <4>1, <4>2, <2>3
    <3>2. Tail(s.queue) = <<>> => Len(s.queue) = 1
      BY <2>2
    <3> QED
      BY <3>1, <3>2, <1>1
  <2>7. s.channel
    BY <1>4 DEF Shape, Inner, Closed
  <2>8. CASE p.queue = <<>> \/ p.mode = "DATA"
    <3>1. t = p
      BY <1>2, <2>8
    <3>2. Sources(t) /\ Modes(t)
      BY <3>1, <1>1, <1>4 DEF Shape, Inner, Sources, Modes, Beside
    <3>3. Closed(t)
      BY <3>1, <1>1, <1>4, <2>7 DEF Shape, Inner, Closed, Beside
    <3>4. OnlyResets(t)
      BY <3>1, <1>1, <2>5 DEF OnlyResets
    <3>5. Rest(t)
      BY <3>1, <1>1, <2>4, <2>6, <2>8 DEF Rest, OthersWait
    <3> QED
      BY <3>2, <3>3, <3>4, <3>5 DEF Shape, Inner
  <2>9. CASE p.queue # <<>> /\ p.mode # "DATA"
    <3>1. 1 \in DOMAIN p.queue
      BY <2>2, <2>9, <1>1, TailElements
    <3>2. Sources(t) /\ Modes(t)
      BY <1>2, <1>3, <1>1, <1>4, <2>7, <2>9 DEF Shape, Inner, Sources, Modes, Beside
    <3>3. Closed(t)
      BY <1>3, <1>4, <2>7 DEF Shape, Inner, Closed, Beside
    <3>4. OnlyResets(t)
      <4>1. ASSUME t.mode = "INIT", NEW i \in DOMAIN t.queue
            PROVE  t.queue[i].kind = "reset"
        <5>1. \A k \in DOMAIN p.queue : p.queue[k].kind = "reset"
          BY <4>1, <1>3, <2>5
        <5>2. i \in DOMAIN p.queue
          BY <4>1, <1>2, <2>9
        <5>3. CASE i = 1
          BY <5>1, <5>3, <3>1, <1>2, <2>9
        <5>4. CASE i # 1
          BY <5>1, <5>2, <5>4, <1>2, <2>9
        <5> QED
          BY <5>3, <5>4
      <4> QED
        BY <4>1 DEF OnlyResets
    <3>5. OthersWait(t)
      <4>1. ASSUME t.mode # "DATA", NEW i \in DOMAIN t.queue, i # 1
            PROVE  t.queue[i].status = "QUEUED"
        <5>1. i \in DOMAIN p.queue /\ t.queue[i] = p.queue[i]
          BY <4>1, <1>2, <2>9
        <5>2. \A k \in DOMAIN p.queue : p.queue[k].status = "QUEUED"
          BY <4>1, <1>3, <2>4
        <5> QED
          BY <5>1, <5>2
      <4> QED
        BY <4>1 DEF OthersWait
    <3>6. Rest(t)
      BY <3>5, <1>2, <2>9 DEF Rest
    <3> QED
      BY <3>2, <3>3, <3>4, <3>6 DEF Shape, Inner
  <2> QED
    BY <2>8, <2>9
<1> QED
  BY <1>2, <1>3, <1>4 DEF t, p

\* _parse_do leaves the structure at rest, or nothing to go on with.
LEMMA ParseDoRests ==
  ASSUME NEW s \in Structure, Shape(s), Rest(s), s.channel, NEW c
  PROVE  LET t == ParseDo(s, c)
         IN /\ t \in Structure
            /\ \/ t.rd_buf = <<>>
               \/ /\ t.rd_buf = s.rd_buf /\ t.active = s.active /\ t.channel
                  /\ t.parsing = s.parsing /\ Shape(t) /\ Rest(t)
<1> DEFINE t == Trigger(s, c)
           b == StatusOf(c)
           u == IF t.queue[1].status = "ACTIVE" /\ b # "ACTIVE"
                THEN Conclude(t, b) ELSE t
           v == Push(Pop(u))
           w == ParseDo(s, c)
<1>1. Handled(s, t)
  BY TriggerHandled
<1>2. ~Head1(s) => w = t
  BY DEF ParseDo
<1>3. Head1(s) => w = IF u.queue[1].status \in Final THEN v ELSE u
  BY DEF ParseDo
<1>4. b # "ACTIVE" => b \in Final
  BY DEF StatusOf, Final
<1> HIDE DEF t, b, v, w
<1>5. CASE ~Head1(s)
  <2>1. w = t
    BY <1>2, <1>5
  <2>2. ASSUME t.rd_buf # <<>> PROVE Rest(t)
    <3>1. CASE s.queue = <<>>
      BY <3>1, <2>2, <1>1 DEF Handled
    <3>2. CASE s.queue # <<>>
      <4>1. s.mode = "DATA"
        BY <3>2, <1>5 DEF Rest, Head1
      <4>2. t.mode = "DATA"
        BY <4>1, <2>2, <1>1 DEF Handled
      <4> QED
        BY <4>2 DEF Rest, OthersWait
    <3> QED
      BY <3>1, <3>2
  <2> QED
    BY <2>1, <2>2, <1>1 DEF Handled, w
<1>6. CASE Head1(s)
  <2>1. s.queue # <<>> /\ t \in Structure /\ t.queue # <<>>
    BY <1>1, <1>6 DEF Head1, Handled
  <2>2. /\ u \in Structure /\ u.queue # <<>>
        /\ u.rd_buf = t.rd_buf \/ u.rd_buf = <<>>
    <3>1. b # "ACTIVE" => LET x == Conclude(t, b)
                          IN /\ x \in Structure /\ x.queue # <<>>
                             /\ x.rd_buf = t.rd_buf \/ x.rd_buf = <<>>
      BY <1>4, <2>1, ConcludeTyped
    <3> QED
      BY <3>1, <2>1
  <2>3. ASSUME u.rd_buf # <<>>
        PROVE  /\ u.rd_buf = s.rd_buf /\ u.active = s.active /\ u.channel
               /\ u.parsing = s.parsing /\ Shape(u) /\ Concluding(u)
    <3>1. t.rd_buf # <<>>
      BY <2>2, <2>3
    <3>2. /\ t.rd_buf = s.rd_buf /\ t.active = s.active /\ t.channel
          /\ t.parsing = s.parsing /\ Shape(t) /\ Concluding(t) /\ OthersWait(t)
      BY <3>1, <2>1, <1>1 DEF Handled, Concluding
    <3>3. CASE t.queue[1].status = "ACTIVE" /\ b # "ACTIVE"
      <4>1. u = Conclude(t, b) /\ b \in Final
        BY <3>3, <1>4
      <4>2. ~ResetsUnder(t, b)
        BY <4>1, <2>1, <2>3, ConcludeTyped
      <4>3. Beside(t, u) /\ Shape(u) /\ Concluding(u)
        BY <4>1, <4>2, <3>2, <2>1, ConcludeHolds
      <4> HIDE DEF u
      <4> QED
        BY <4>3, <3>2 DEF Beside
    <3>4. CASE ~(t.queue[1].status = "ACTIVE" /\ b # "ACTIVE")
      BY <3>4, <3>2
    <3> QED
      BY <3>3, <3>4
  <2> HIDE DEF u
  <2>4. CASE u.queue[1].status \in Final
    <3>1. w = v
      BY <1>3, <1>6, <2>4
    <3>2. /\ v \in Structure /\ Beside(u, v)
          /\ Shape(u) /\ OthersWait(u) /\ (u.mode = "INIT" => Len(u.queue) > 1)
               => Shape(v) /\ Rest(v)
      BY <2>2, NextCommand DEF v
    <3>3. "ACTIVE" \notin Final
      BY DEF Final
    <3>4. u.rd_buf # <<>> => Shape(v) /\ Rest(v)
      BY <3>2, <3>3, <2>3, <2>4 DEF Concluding
    <3>5. v.rd_buf = u.rd_buf /\ v.active = u.active /\ v.channel = u.channel
          /\ v.parsing = u.parsing
      BY <3>2 DEF Beside
    <3> QED
      BY <3>1, <3>2, <3>4, <3>5, <2>3 DEF w
  <2>5. CASE u.queue[1].status \notin Final
    <3>1. w = u
      BY <1>3, <1>6, <2>5
    <3>2. Concluding(u) => Rest(u)
      BY <2>5 DEF Concluding, Rest
    <3> QED
      BY <3>1, <3>2, <2>2, <2>3 DEF w
  <2> QED
    BY <2>4, <2>5
<1> QED
  BY <1>5, <1>6

-----------------------------------------------------------------------------
(* What is written *)

\* f is the function that the LET of Commands defines, up to n.
IsCommands(f, buf, n) ==
  f = [i \in 0 .. n |->
        IF i = 0 THEN <<>>
        ELSE IF buf[i] # "ppp" THEN Append(f[i - 1], buf[i]) ELSE f[i - 1]]

\* Every nonempty set of natural numbers has a least element.
LEMMA LeastNat ==
  ASSUME NEW T \in SUBSET Nat, T # {}
  PROVE  \E m \in T : \A n \in T : m <= n
<1>1. PICK m \in T : \A n \in T : ~(<<n, m>> \in OpToRel(<, Nat))
  BY NatLessThanWellFounded, WFMin
<1>2. ASSUME NEW n \in T, ~(m <= n) PROVE FALSE
  <2>1. <<n, m>> \in OpToRel(<, Nat)
    BY <1>2 DEF OpToRel
  <2> QED
    BY <2>1, <1>1
<1> QED
  BY <1>1, <1>2

\* The recursive definition in Commands has a solution.
LEMMA CommandsExists ==
  ASSUME NEW buf
  PROVE  \A n \in Nat : \E f : IsCommands(f, buf, n)
<1> DEFINE T == {n \in Nat : ~ \E f : IsCommands(f, buf, n)}
<1> SUFFICES ASSUME T # {} PROVE FALSE
  OBVIOUS
<1>1. PICK m \in T : \A n \in T : m <= n
  BY LeastNat
<1>2. CASE m = 0
  <2> DEFINE f == [i \in 0 .. 0 |-> <<>>]
  <2>1. IsCommands(f, buf, 0)
    BY DEF IsCommands
  <2> QED
    BY <2>1, <1>2
<1>3. CASE m # 0
  <2>1. m - 1 \in Nat /\ m - 1 \notin T
    BY <1>1, <1>3
  <2>2. PICK g : IsCommands(g, buf, m - 1)
    BY <2>1
  <2> DEFINE f == [i \in 0 .. m |-> IF i < m THEN g[i]
                     ELSE IF buf[i] # "ppp" THEN Append(g[i - 1], buf[i]) ELSE g[i - 1]]
  <2>3. IsCommands(f, buf, m)
    <3>1. ASSUME NEW i \in 0 .. m
          PROVE  f[i] = IF i = 0 THEN <<>>
                        ELSE IF buf[i] # "ppp" THEN Append(f[i - 1], buf[i]) ELSE f[i - 1]
      <4>1. CASE i = m
        <5>1. f[i - 1] = g[i - 1]
          BY <4>1, <1>3
        <5> QED
          BY <4>1, <1>3, <5>1
      <4>2. CASE i < m
        <5>1. i \in 0 .. (m - 1) /\ f[i] = g[i]
          BY <4>2
        <5>2. CASE i = 0
          BY <5>1, <5>2, <2>2 DEF IsCommands
        <5>3. CASE i # 0
          <6>1. f[i - 1] = g[i - 1]
            BY <5>3, <4>2
          <6>2. g[i] = IF buf[i] # "ppp" THEN Append(g[i - 1], buf[i]) ELSE g[i - 1]
            BY <5>1, <5>3, <2>2 DEF IsCommands
          <6> HIDE DEF f
          <6> QED
            BY <6>1, <6>2, <5>1, <5>3
        <5> QED
          BY <5>2, <5>3
      <4> QED
        BY <4>1, <4>2
    <3> QED
      BY <3>1 DEF IsCommands
  <2> QED
    BY <2>3
<1> QED
  BY <1>2, <1>3

\* What is written to the modem, without the bytes of pppd, is commands.
LEMMA CommandsKinds ==
  ASSUME NEW buf \in Seq(Kind \union {"ppp"})
  PROVE  Commands(buf) \in Seq(Kind)
<1> DEFINE F == CHOOSE f : IsCommands(f, buf, Len(buf))
<1>1. Len(buf) \in Nat
  BY LenProperties
<1>2. IsCommands(F, buf, Len(buf))
  <2>1. \E f : IsCommands(f, buf, Len(buf))
    BY <1>1, CommandsExists
  <2> QED
    BY <2>1
<1>3. Commands(buf) = F[Len(buf)]
  BY Zenon DEF Commands, IsCommands
<1> HIDE DEF F
<1> DEFINE T == {n \in 0 .. Len(buf) : F[n] \notin Seq(Kind)}
<1>4. T = {}
  <2>1. SUFFICES ASSUME T # {} PROVE FALSE
    OBVIOUS
  <2>2. PICK m \in T : \A n \in T : m <= n
    <3>1. T \in SUBSET Nat
      BY <1>1
    <3> HIDE DEF T
    <3> QED
      BY <2>1, <3>1, LeastNat
  <2>3. m \in 0 .. Len(buf) /\ F[m] \notin Seq(Kind)
    BY <2>2
  <2>4. CASE m = 0
    <3>1. F[m] = <<>>
      BY <2>3, <2>4, <1>2 DEF IsCommands
    <3> QED
      BY <3>1, <2>3, EmptySeq
  <2>5. CASE m # 0
    <3>1. m - 1 \in 0 .. Len(buf) /\ m - 1 \notin T /\ m \in 1 .. Len(buf)
      BY <1>1, <2>2, <2>3, <2>5
    <3>2. F[m - 1] \in Seq(Kind)
      BY <3>1
    <3>3. F[m] = IF buf[m] # "ppp" THEN Append(F[m - 1], buf[m]) ELSE F[m - 1]
      BY <2>3, <2>5, <1>2 DEF IsCommands
    <3>4. buf[m] \in Kind \union {"ppp"}
      BY <3>1, ElementOfSeq
    <3>5. buf[m] \in Kind => Append(F[m - 1], buf[m]) \in Seq(Kind)
      BY <3>2, AppendElements
    <3> QED
      BY <2>3, <3>2, <3>3, <3>4, <3>5
  <2> QED
    BY <2>4, <2>5
<1> QED
  BY <1>1, <1>3, <1>4


-----------------------------------------------------------------------------
(* The dispatches *)

\* What is read, what is still to be written and what was reported to Phone do
\* not disturb the queue, as long as the device is open.
LEMMA AroundRest ==
  ASSUME NEW s, AtRest(s), NEW t \in Structure,
         t.active = s.active, t.mode = s.mode, t.queue = s.queue,
         t.queue_timeout = s.queue_timeout, t.source = s.source,
         t.live = s.live, t.timeout = s.timeout, t.channel = s.channel,
         t.rd_source = s.rd_source, t.rd_ppp_source = s.rd_ppp_source,
         t.connected => t.mode = "DATA",
         t.wr_source <=> t.wr_buf # <<>>,
         t.wr_source \/ t.parsing => t.channel
  PROVE  AtRest(t)
<1>1. Sources(t)
  BY DEF AtRest, Shape, Sources
<1>2. Modes(t)
  BY DEF AtRest, Shape, Inner, Modes
<1>3. Closed(t)
  BY DEF AtRest, Shape, Inner, Closed
<1>4. OnlyResets(t) /\ Rest(t)
  BY DEF AtRest, Shape, Inner, OnlyResets, Rest, OthersWait
<1> QED
  BY <1>1, <1>2, <1>3, <1>4 DEF AtRest, Shape, Inner

LEMMA QueuesRest ==
  ASSUME NEW s, AtRest(s), NEW t, Queues(s, t)
  PROVE  AtRest(t)
BY DEF AtRest, Queues, Shape

\* The device is open while a source reads, writes or parses, and during a data
\* call; then the plug-in is started.
LEMMA OpenActive ==
  ASSUME NEW s, AtRest(s)
  PROVE  /\ s.rd_source \/ s.wr_source \/ s.parsing => s.channel
         /\ s.rd_ppp_source => s.mode = "DATA"
         /\ s.mode = "DATA" => s.channel
         /\ s.channel => s.active
BY DEF AtRest, Shape, Inner, Modes, Closed

\* A data call that ends is not reported any more, and the modem is reset.
LEMMA DataCallEnds ==
  ASSUME NEW s, AtRest(s), s.mode = "DATA", ~s.parsing
  PROVE  AtRest(SetMode([s EXCEPT !.connected = FALSE], "INIT"))
<1> DEFINE g == [s EXCEPT !.connected = FALSE]
<1>0. s \in Structure /\ (s.wr_source <=> s.wr_buf # <<>>)
  BY DEF AtRest, Shape, Inner, Modes
<1>1. /\ g \in Structure /\ g.active = s.active /\ g.mode = s.mode
      /\ g.queue = s.queue /\ g.queue_timeout = s.queue_timeout
      /\ g.source = s.source /\ g.live = s.live /\ g.timeout = s.timeout
      /\ g.channel = s.channel /\ g.rd_source = s.rd_source
      /\ g.wr_source = s.wr_source /\ g.wr_buf = s.wr_buf
      /\ g.rd_ppp_source = s.rd_ppp_source /\ g.connected = FALSE
      /\ g.parsing = s.parsing
  BY <1>0 DEF Structure
<1> HIDE DEF g
<1>2. AtRest(g)
  <2>1. g.wr_source \/ g.parsing => g.channel
    BY <1>1, OpenActive
  <2> QED
    BY <1>0, <1>1, <2>1, AroundRest
<1>3. g.active /\ ~g.parsing
  BY <1>1, OpenActive
<1>4. SetMode(g, "INIT") \in Structure
      /\ Shape(SetMode(g, "INIT")) /\ Rest(SetMode(g, "INIT"))
  BY <1>1, <1>2, <1>3, LeavingData DEF AtRest
<1> QED
  BY <1>4 DEF AtRest, g

LEMMA StartRests ==
  ASSUME AtRest(h), Start
  PROVE  AtRest(h')
<1> DEFINE u == AddSource(h, "reset")
           t == [u EXCEPT !.active = TRUE]
<1>1. h' = t /\ ~h.active /\ ~h.parsing
  BY DEF Start, ResetStart
<1>2. h \in Structure
  BY DEF AtRest
<1>3. ~h.channel /\ h.source = "none" /\ h.queue = <<>> /\ ~h.rd_source /\ ~h.wr_source
  BY <1>1 DEF AtRest, Shape, Inner, Closed
<1>4. /\ h.mode = "INIT" /\ h.wr_buf = <<>> /\ ~h.rd_ppp_source /\ ~h.connected
  BY <1>3 DEF AtRest, Shape, Inner, Modes
<1>5. h.live = {} /\ h.queue_timeout = <<>>
  BY <1>3 DEF AtRest, Shape, Sources
<1>6. ~h.timeout
  BY <1>3, <1>4 DEF AtRest, Rest
<1>7. /\ u \in Structure /\ u.live = h.live \union {"reset"} /\ u.source = "reset"
      /\ u.mode = h.mode /\ u.queue = h.queue
      /\ u.queue_timeout = h.queue_timeout /\ u.timeout = h.timeout
      /\ u.channel = h.channel /\ u.rd_source = h.rd_source
      /\ u.wr_source = h.wr_source /\ u.wr_buf = h.wr_buf
      /\ u.rd_ppp_source = h.rd_ppp_source
      /\ u.connected = h.connected /\ u.parsing = h.parsing
  BY <1>2, AddSourceAdds
<1> HIDE DEF u
<1>8. /\ t \in Structure /\ t.live = u.live /\ t.source = u.source
      /\ t.active = TRUE /\ t.mode = u.mode /\ t.queue = u.queue
      /\ t.queue_timeout = u.queue_timeout /\ t.timeout = u.timeout
      /\ t.channel = u.channel /\ t.rd_source = u.rd_source
      /\ t.wr_source = u.wr_source /\ t.wr_buf = u.wr_buf
      /\ t.rd_ppp_source = u.rd_ppp_source
      /\ t.connected = u.connected /\ t.parsing = u.parsing
  BY <1>7 DEF Structure
<1> HIDE DEF t
<1>9. t.live = {t.source} \ {"none"}
  BY <1>5, <1>7, <1>8
<1>10. Shape(t) /\ Rest(t)
  BY <1>1, <1>3, <1>4, <1>5, <1>6, <1>7, <1>8, <1>9, NothingThere
<1> QED
  BY <1>1, <1>8, <1>10 DEF AtRest

LEMMA StopRests ==
  ASSUME AtRest(h), Stop
  PROVE  AtRest(h')
<1> DEFINE u == ResetStop(h)
           t == [u EXCEPT !.active = FALSE]
<1>1. h' = t /\ ~h.parsing
  BY DEF Stop
<1>2. h \in Structure /\ h.live = {h.source} \ {"none"}
  BY DEF AtRest, Shape, Sources
<1>3. /\ u \in Structure /\ u.parsing = h.parsing
      /\ u.mode = "INIT" /\ u.queue = <<>> /\ u.queue_timeout = <<>>
      /\ u.live = h.live \ {h.source} /\ u.source = "none" /\ ~u.timeout
      /\ ~u.channel /\ ~u.rd_source /\ ~u.wr_source
      /\ u.rd_buf = <<>> /\ u.wr_buf = <<>>
      /\ ~u.rd_ppp_source /\ ~u.connected
  BY <1>2, ResetStopClears
<1> HIDE DEF u
<1>4. /\ t \in Structure /\ t.live = u.live /\ t.source = u.source
      /\ t.mode = u.mode /\ t.queue = u.queue
      /\ t.queue_timeout = u.queue_timeout /\ t.timeout = u.timeout
      /\ t.channel = u.channel /\ t.rd_source = u.rd_source
      /\ t.wr_source = u.wr_source /\ t.wr_buf = u.wr_buf
      /\ t.rd_ppp_source = u.rd_ppp_source
      /\ t.connected = u.connected /\ t.parsing = u.parsing
  BY <1>3 DEF Structure
<1> HIDE DEF t
<1>5. t.live = {t.source} \ {"none"}
  BY <1>2, <1>3, <1>4
<1>6. Shape(t) /\ Rest(t)
  BY <1>1, <1>3, <1>4, <1>5, NothingThere
<1> QED
  BY <1>1, <1>4, <1>6 DEF AtRest

LEMMA UserRequestRests ==
  ASSUME AtRest(h), NEW k \in UserKinds, UserRequest(k)
  PROVE  AtRest(h')
<1>1. h \in Structure
  BY DEF AtRest
<1>2. k \in Kind
  BY UserAssumption
<1>3. Queues(h, RequestAll(h, <<k>>)) /\ Queues(h, QueueAll(h, ListAll))
  BY <1>1, <1>2, OneKind, RequestAllQueues, ListQueueable, QueueAllQueues
<1>4. h' = QueueAll(h, ListAll) \/ h' = RequestAll(h, <<k>>)
  BY DEF UserRequest
<1> QED
  BY <1>3, <1>4, QueuesRest

LEMMA HangUpRests ==
  ASSUME AtRest(h), HangUp
  PROVE  AtRest(h')
<1>1. CASE h.mode = "DATA"
  <2>1. h' = SetMode([h EXCEPT !.connected = FALSE], "INIT") /\ ~h.parsing
    BY <1>1 DEF HangUp
  <2> QED
    BY <1>1, <2>1, DataCallEnds
<1>2. CASE h.mode # "DATA"
  <2>1. h' = RequestAll(h, <<"hangup">>) /\ h \in Structure
    BY <1>2 DEF HangUp, AtRest
  <2>2. Queues(h, RequestAll(h, <<"hangup">>))
    BY <2>1, HandlerRequests
  <2> QED
    BY <2>1, <2>2, QueuesRest
<1> QED
  BY <1>1, <1>2

LEMMA PppExitsRests ==
  ASSUME AtRest(h), PppExits
  PROVE  AtRest(h')
<1>1. h' = SetMode([h EXCEPT !.connected = FALSE], "INIT") /\ ~h.parsing /\ h.rd_ppp_source
  BY DEF PppExits
<1>2. h.mode = "DATA"
  BY <1>1, OpenActive
<1> QED
  BY <1>1, <1>2, DataCallEnds

LEMMA LineFailsRests ==
  ASSUME AtRest(h), LineFails
  PROVE  AtRest(h')
<1>1. h' = Reset(h) /\ ~h.parsing /\ h \in Structure /\ Shape(h)
  BY DEF LineFails, AtRest
<1>2. h.active
  BY OpenActive DEF LineFails
<1> QED
  BY <1>1, <1>2, ResetLeaves DEF AtRest


\* The device has been opened, or will be tried again: the source that ran was
\* the only one, and nothing of the time before is left.
LEMMA OnResetRests ==
  ASSUME AtRest(h), NEW opened \in BOOLEAN, OnReset(opened)
  PROVE  AtRest(h')
<1> DEFINE l == h.live \ {"reset"}
           d == [h EXCEPT !.live = l]
           s == ResetStop(d)
           u == [s EXCEPT !.channel = TRUE, !.rd_source = TRUE]
           t == QueueAll(u, <<ResetCommand>>)
<1>1. /\ ~h.parsing /\ "reset" \in h.live
      /\ h' = IF opened THEN t ELSE AddSource(s, "reset")
  BY DEF OnReset, Dispatched
<1>2. h \in Structure /\ h.live = {h.source} \ {"none"}
  BY DEF AtRest, Shape, Sources
<1>3. h.source = "reset" /\ l = {}
  BY <1>1, <1>2
<1>4. h.active
  BY <1>3 DEF AtRest, Shape, Inner, Closed
<1> HIDE DEF l
<1>5. /\ d \in Structure /\ d.live = {} /\ d.active = h.active
      /\ d.parsing = h.parsing
  BY <1>2, <1>3 DEF Structure
<1> HIDE DEF d
<1>6. /\ s \in Structure /\ s.active = d.active /\ s.parsing = d.parsing
      /\ s.mode = "INIT" /\ s.queue = <<>> /\ s.queue_timeout = <<>>
      /\ s.live = d.live \ {d.source} /\ s.source = "none" /\ ~s.timeout
      /\ ~s.channel /\ ~s.rd_source /\ ~s.wr_source
      /\ s.rd_buf = <<>> /\ s.wr_buf = <<>>
      /\ ~s.rd_ppp_source /\ ~s.connected
  BY <1>5, ResetStopClears
<1>7. s.live = {}
  BY <1>5, <1>6
<1> HIDE DEF s
<1>8. CASE ~opened
  <2> DEFINE a == AddSource(s, "reset")
  <2>1. /\ a \in Structure /\ a.live = s.live \union {"reset"} /\ a.source = "reset"
        /\ a.active = s.active /\ a.mode = s.mode /\ a.queue = s.queue
        /\ a.queue_timeout = s.queue_timeout /\ a.timeout = s.timeout
        /\ a.channel = s.channel /\ a.rd_source = s.rd_source
        /\ a.wr_source = s.wr_source /\ a.wr_buf = s.wr_buf
        /\ a.rd_ppp_source = s.rd_ppp_source
        /\ a.connected = s.connected /\ a.parsing = s.parsing
    BY <1>6, AddSourceAdds
  <2> HIDE DEF a
  <2>2. a.live = {a.source} \ {"none"}
    BY <2>1, <1>7
  <2>3. Shape(a) /\ Rest(a)
    BY <2>1, <2>2, <1>1, <1>4, <1>5, <1>6, NothingThere
  <2>4. h' = a
    BY <1>1, <1>8 DEF a
  <2> QED
    BY <2>1, <2>3, <2>4 DEF AtRest
<1>9. CASE opened
  <2>1. /\ u \in Structure /\ u.active = s.active /\ u.mode = s.mode
        /\ u.queue = s.queue /\ u.queue_timeout = s.queue_timeout
        /\ u.source = s.source /\ u.live = s.live /\ u.timeout = s.timeout
        /\ u.channel = TRUE /\ u.wr_source = s.wr_source
        /\ u.wr_buf = s.wr_buf /\ u.rd_ppp_source = s.rd_ppp_source
        /\ u.connected = s.connected /\ u.parsing = s.parsing
    BY <1>6 DEF Structure
  <2> HIDE DEF u
  <2>2. Sources(u)
    BY <2>1, <1>6, <1>7 DEF Sources
  <2>3. Inner(u)
    <3>1. Modes(u)
      BY <2>1, <1>6 DEF Modes
    <3>2. Closed(u)
      BY <2>1, <1>4, <1>5, <1>6 DEF Closed
    <3>3. DOMAIN u.queue = {}
      BY <2>1, <1>6, LenProperties, EmptySeq
    <3>4. OnlyResets(u)
      BY <3>3 DEF OnlyResets
    <3> QED
      BY <3>1, <3>2, <3>4 DEF Inner
  <2>4. Queueable(u, <<ResetCommand>>) /\ <<ResetCommand>> # <<>>
    BY <2>1, ResetCommandIs, OneQueueable
  <2>5. Shape(t) /\ t \in Structure
    BY <2>1, <2>2, <2>3, <2>4, QueueAllQueues DEF Shape, Queues
  <2>6. <<ResetCommand>> \in Seq(Command)
        /\ \A i \in DOMAIN <<ResetCommand>> : <<ResetCommand>>[i].immediate
    BY ResetCommandIs
  <2>7. Accepted(u, <<ResetCommand>>) = <<ResetCommand>>
    BY <2>6 DEF Accepted
  <2> DEFINE q == [u EXCEPT !.queue = u.queue \o Accepted(u, <<ResetCommand>>)]
  <2>8. /\ q \in Structure /\ q.mode = u.mode
        /\ q.queue = u.queue \o Accepted(u, <<ResetCommand>>)
        /\ t = IF u.queue = <<>> THEN Push(q) ELSE q
    BY <2>1, <2>6, QueueAllKeeps
  <2>9. q.queue # <<>>
    BY <2>1, <2>4, <2>6, <2>7, <2>8, <1>6, ConcatEmptySeq
  <2> HIDE DEF q, t
  <2>10. /\ Push(q).queue # <<>> /\ Push(q).queue[1].status = "ACTIVE"
         /\ Push(q).timeout /\ DOMAIN Push(q).queue = DOMAIN q.queue
         /\ Push(q).mode = q.mode
    BY <2>1, <2>8, <2>9, <1>6, PushKeeps
  <2>11. t = Push(q)
    BY <2>1, <2>8, <1>6
  <2>12. DOMAIN q.queue = {1}
    <3>1. q.queue = <<ResetCommand>>
      BY <2>1, <2>6, <2>7, <2>8, <1>6, ConcatEmptySeq
    <3> QED
      BY <3>1
  <2>13. Rest(t)
    BY <2>10, <2>11, <2>12 DEF Rest, OthersWait
  <2> QED
    BY <1>1, <1>9, <2>5, <2>13 DEF AtRest, t
<1> QED
  BY <1>8, <1>9

LEMMA OnTimeoutRests ==
  ASSUME AtRest(h), OnTimeout
  PROVE  AtRest(h')
<1> DEFINE s == [h EXCEPT !.timeout = FALSE]
           f == Conclude(s, "TIMEOUT")
           t == Push(Pop(f))
<1>1. h' = IF s.queue = <<>> THEN s ELSE t
  BY DEF OnTimeout
<1>2. h.timeout /\ h \in Structure /\ Shape(h) /\ Rest(h)
  BY DEF OnTimeout, AtRest
<1>3. /\ s \in Structure /\ s.active = h.active /\ s.mode = h.mode
      /\ s.queue = h.queue /\ s.queue_timeout = h.queue_timeout
      /\ s.source = h.source /\ s.live = h.live /\ s.channel = h.channel
      /\ s.rd_source = h.rd_source /\ s.wr_source = h.wr_source
      /\ s.wr_buf = h.wr_buf /\ s.rd_ppp_source = h.rd_ppp_source
      /\ s.connected = h.connected /\ s.parsing = h.parsing
  BY <1>2 DEF Structure
<1> HIDE DEF s
<1>4. Sources(s) /\ Modes(s)
  BY <1>2, <1>3 DEF Shape, Inner, Sources, Modes
<1>5. Closed(s)
  BY <1>2, <1>3 DEF Shape, Inner, Closed
<1>6. OnlyResets(s) /\ OthersWait(s)
  BY <1>2, <1>3 DEF Shape, Inner, OnlyResets, Rest, OthersWait
<1>7. Shape(s)
  BY <1>4, <1>5, <1>6 DEF Shape, Inner
<1>8. CASE s.queue = <<>>
  <2>1. s.mode = "DATA"
    BY <1>2, <1>3, <1>8 DEF Rest
  <2> QED
    BY <2>1, <1>1, <1>3, <1>6, <1>7, <1>8 DEF AtRest, Rest
<1>9. CASE s.queue # <<>>
  <2>1. ~ResetsUnder(s, "TIMEOUT") /\ "TIMEOUT" \in Final
    BY DEF ResetsUnder, Final
  <2>2. /\ f \in Structure /\ f.queue # <<>> /\ Shape(f) /\ OthersWait(f)
        /\ f.mode = "INIT" => Len(f.queue) > 1
    BY <1>3, <1>6, <1>7, <1>9, <2>1, ConcludeHolds
  <2> HIDE DEF f
  <2>3. t \in Structure /\ Shape(t) /\ Rest(t)
    BY <2>2, NextCommand
  <2> QED
    BY <1>1, <1>9, <2>3 DEF AtRest
<1> QED
  BY <1>8, <1>9

\* A command kept is queued again; its source is there as long as others are.
LEMMA OnQueueTimeoutRests ==
  ASSUME AtRest(h), OnQueueTimeout
  PROVE  AtRest(h')
<1> DEFINE l == h.live \ {"repeat"}
           w == Tail(h.queue_timeout)
           c == h.queue_timeout[1]
           s == [[h EXCEPT !.live = l] EXCEPT !.source = "none"]
           v == [s EXCEPT !.queue_timeout = Tail(s.queue_timeout)]
           t == QueueAll(v, <<s.queue_timeout[1]>>)
<1>1. /\ "repeat" \in h.live
      /\ h' = CASE s.queue_timeout = <<>> -> s
                [] Len(s.queue_timeout) > 1 -> AddSource(t, "repeat")
                [] OTHER -> RequestAll(t, <<"creg">>)
  BY DEF OnQueueTimeout, Dispatched
<1>2. h \in Structure /\ Shape(h) /\ Rest(h) /\ h.live = {h.source} \ {"none"}
  BY DEF AtRest, Shape, Sources
<1>3. h.source = "repeat" /\ l = {}
  BY <1>1, <1>2
<1>4. h.queue_timeout \in Seq(Kept) /\ h.queue_timeout # <<>> /\ h.active
  BY <1>2, <1>3 DEF Shape, Inner, Sources, Closed, Structure
<1>5. /\ w \in Seq(Kept) /\ Len(w) = Len(h.queue_timeout) - 1
      /\ w = <<>> <=> Len(h.queue_timeout) = 1
      /\ c \in Kept
  BY <1>4, TailElements
<1>6. s.queue_timeout = h.queue_timeout
  BY <1>2 DEF Structure
<1>7. v = [h EXCEPT !.live = l, !.source = "none", !.queue_timeout = w]
  BY <1>2, <1>6 DEF Structure
<1>8. /\ t = QueueAll(v, <<c>>)
      /\ Len(h.queue_timeout) > 1 => h' = AddSource(t, "repeat")
      /\ ~(Len(h.queue_timeout) > 1) => h' = RequestAll(t, <<"creg">>)
  <2>1. t = QueueAll(v, <<c>>)
    BY <1>6
  <2> HIDE DEF s, t
  <2> QED
    BY <2>1, <1>1, <1>4, <1>6
<1> HIDE DEF s, v, t, l, w, c
<1>9. /\ v \in Structure /\ v.active = h.active /\ v.mode = h.mode
      /\ v.queue = h.queue /\ v.queue_timeout = w /\ v.source = "none"
      /\ v.live = {} /\ v.timeout = h.timeout /\ v.channel = h.channel
      /\ v.rd_source = h.rd_source /\ v.wr_source = h.wr_source
      /\ v.wr_buf = h.wr_buf /\ v.rd_ppp_source = h.rd_ppp_source
      /\ v.connected = h.connected /\ v.parsing = h.parsing
  BY <1>2, <1>3, <1>5, <1>7 DEF Structure
<1>10. Inner(v)
  <2>1. Modes(v)
    BY <1>2, <1>9 DEF Shape, Inner, Modes
  <2>2. Closed(v)
    BY <1>2, <1>4, <1>9 DEF Shape, Inner, Closed
  <2>3. OnlyResets(v)
    BY <1>2, <1>9 DEF Shape, Inner, OnlyResets
  <2> QED
    BY <2>1, <2>2, <2>3 DEF Inner
<1>11. Rest(v)
  BY <1>2, <1>9 DEF Rest, OthersWait
<1>12. Queueable(v, <<c>>)
  BY <1>5, OneQueueable DEF Kept
<1>13. Queues(v, t)
  BY <1>8, <1>9, <1>12, QueueAllQueues
<1>14. /\ t \in Structure /\ Inner(t) /\ Rest(t)
       /\ t.queue_timeout = w /\ t.source = "none" /\ t.live = {}
       /\ t.active = h.active
  BY <1>9, <1>10, <1>11, <1>13 DEF Queues, Beside
<1>15. CASE Len(h.queue_timeout) > 1
  <2> DEFINE a == AddSource(t, "repeat")
  <2>1. /\ a \in Structure /\ a.live = t.live \union {"repeat"} /\ a.source = "repeat"
        /\ a.active = t.active /\ a.mode = t.mode /\ a.queue = t.queue
        /\ a.queue_timeout = t.queue_timeout /\ a.timeout = t.timeout
        /\ a.channel = t.channel /\ a.rd_source = t.rd_source
        /\ a.wr_source = t.wr_source /\ a.rd_buf = t.rd_buf
        /\ a.wr_buf = t.wr_buf /\ a.rd_ppp_source = t.rd_ppp_source
        /\ a.connected = t.connected /\ a.parsing = t.parsing
    BY <1>14, AddSourceAdds
  <2> HIDE DEF a
  <2>2. w # <<>>
    <3>1. Len(h.queue_timeout) \in Nat
      BY <1>4, LenProperties
    <3>2. \A n \in Nat : n > 1 => n # 1
      OBVIOUS
    <3>3. Len(h.queue_timeout) # 1
      BY <3>1, <3>2, <1>15, Zenon
    <3> QED
      BY <3>3, <1>5
  <2>3. Sources(a)
    BY <2>1, <2>2, <1>14 DEF Sources
  <2>4. Modes(a)
    BY <2>1, <1>14 DEF Inner, Modes
  <2>5. Closed(a)
    BY <2>1, <1>4, <1>14 DEF Inner, Closed
  <2>6. OnlyResets(a) /\ Rest(a)
    BY <2>1, <1>14 DEF Inner, OnlyResets, Rest, OthersWait
  <2>7. h' = a
    BY <1>8, <1>15 DEF a
  <2> QED
    BY <2>1, <2>3, <2>4, <2>5, <2>6, <2>7 DEF AtRest, Shape, Inner
<1>16. CASE ~(Len(h.queue_timeout) > 1)
  <2>1. w = <<>>
    <3>1. Len(h.queue_timeout) \in Nat /\ Len(h.queue_timeout) # 0
      BY <1>4, EmptySeq
    <3>2. \A n \in Nat : n # 0 /\ ~(n > 1) => n = 1
      OBVIOUS
    <3>3. Len(h.queue_timeout) = 1
      BY <3>1, <3>2, <1>16, Zenon
    <3> QED
      BY <3>3, <1>5
  <2>2. Sources(t)
    BY <2>1, <1>14 DEF Sources
  <2>3. AtRest(t)
    BY <2>2, <1>14 DEF AtRest, Shape
  <2>4. Queues(t, RequestAll(t, <<"creg">>))
    BY <1>14, HandlerRequests
  <2> QED
    BY <2>3, <2>4, <1>8, <1>16, QueuesRest
<1> QED
  BY <1>15, <1>16


\* What SubSeq leaves of a sequence after its first n elements.
LEMMA AfterElements ==
  ASSUME NEW S, NEW q \in Seq(S), NEW n \in 1 .. Len(q)
  PROVE  /\ SubSeq(q, 1, n) \in Seq(S) /\ SubSeq(q, n + 1, Len(q)) \in Seq(S)
         /\ SubSeq(q, n + 1, Len(q)) # <<>> <=> n < Len(q)
<1>1. Len(q) \in Nat /\ DOMAIN q = 1 .. Len(q) /\ n \in Nat
  BY LenProperties
<1>2. \A i \in 1 .. Len(q) : q[i] \in S
  BY ElementOfSeq
<1> DEFINE l == Len(q)
<1>6. /\ 1 \in Int /\ n \in Int /\ n + 1 \in Int /\ l \in Int /\ n <= l
      /\ \A i \in 1 .. n : q[i] \in S
      /\ \A i \in n + 1 .. l : q[i] \in S
  BY <1>1, <1>2
<1>7. Len(SubSeq(q, n + 1, l)) = IF n + 1 <= l THEN l - (n + 1) + 1 ELSE 0
  <2> HIDE DEF l
  <2> QED
    BY <1>6, SubSeqProperties
<1>3. SubSeq(q, 1, n) \in Seq(S)
  <2> HIDE DEF l
  <2> QED
    BY <1>6, SubSeqProperties
<1>4. /\ SubSeq(q, n + 1, Len(q)) \in Seq(S)
      /\ Len(SubSeq(q, n + 1, Len(q))) = Len(q) - n
  <2> DEFINE x == SubSeq(q, n + 1, l)
  <2> HIDE DEF l
  <2>1. x \in Seq(S)
    BY <1>6, SubSeqProperties
  <2> HIDE DEF x
  <2>2. Len(x) = l - n
    BY <1>6, <1>7 DEF x
  <2> QED
    BY <2>1, <2>2 DEF l, x
<1>5. SubSeq(q, n + 1, l) # <<>> <=> n < l
  <2> DEFINE x == SubSeq(q, n + 1, l)
  <2>1. x \in Seq(S) /\ Len(x) = l - n
    BY <1>4
  <2> HIDE DEF x, l
  <2>2. x # <<>> <=> Len(x) # 0
    BY <2>1, EmptySeq
  <2>3. l - n # 0 <=> n < l
    BY <1>6
  <2> QED
    BY <2>1, <2>2, <2>3 DEF x
<1> QED
  BY <1>3, <1>4, <1>5

LEMMA ReadRests ==
  ASSUME AtRest(h), fromModem \in Seq(Line), NEW n \in 1 .. Len(fromModem), Read(n)
  PROVE  AtRest(h') /\ fromModem' \in Seq(Line)
<1> DEFINE r == h.rd_buf \o SubSeq(fromModem, 1, n)
           p == (h.mode # "DATA")
           w == (h.wr_ppp_source \/ (h.mode = "DATA" /\ h.ppp))
           t == [h EXCEPT !.rd_buf = r, !.parsing = p, !.wr_ppp_source = w]
<1>0. h \in Structure /\ Modes(h)
  BY DEF AtRest, Shape, Inner
<1>1. /\ h' = t /\ h.rd_source
      /\ fromModem' = SubSeq(fromModem, n + 1, Len(fromModem))
  BY DEF Read
<1>2. /\ SubSeq(fromModem, 1, n) \in Seq(Line)
      /\ SubSeq(fromModem, n + 1, Len(fromModem)) \in Seq(Line)
  BY AfterElements
<1>3. r \in Seq(Line) /\ p \in BOOLEAN /\ w \in BOOLEAN
  BY <1>0, <1>2, ConcatElements DEF Structure
<1> HIDE DEF r, p, w
<1>4. /\ t \in Structure /\ t.active = h.active /\ t.mode = h.mode
      /\ t.queue = h.queue /\ t.queue_timeout = h.queue_timeout
      /\ t.source = h.source /\ t.live = h.live /\ t.timeout = h.timeout
      /\ t.channel = h.channel /\ t.rd_source = h.rd_source
      /\ t.wr_source = h.wr_source /\ t.wr_buf = h.wr_buf
      /\ t.rd_ppp_source = h.rd_ppp_source /\ t.connected = h.connected
  BY <1>0, <1>3 DEF Structure
<1> HIDE DEF t
<1>5. h.channel
  BY <1>1, OpenActive
<1>6. AtRest(t)
  BY <1>0, <1>4, <1>5, AroundRest DEF Modes
<1> QED
  BY <1>1, <1>2, <1>6

LEMMA ParseLineRests ==
  ASSUME AtRest(h), ParseLine
  PROVE  AtRest(h')
<1> DEFINE s == ParseDo(h, h.rd_buf[1].code)
           r == Tail(s.rd_buf)
           t == [s EXCEPT !.rd_buf = r]
<1>1. h' = t /\ h.parsing /\ s.rd_buf # <<>>
  BY DEF ParseLine
<1>2. h.channel
  BY <1>1, OpenActive
<1>3. /\ s \in Structure
      /\ \/ s.rd_buf = <<>>
         \/ s.channel /\ Shape(s) /\ Rest(s)
  BY <1>2, ParseDoRests DEF AtRest
<1>4. AtRest(s) /\ s.channel
  BY <1>1, <1>3 DEF AtRest
<1> HIDE DEF s
<1>5. r \in Seq(Line)
  BY <1>1, <1>3, TailElements DEF Structure
<1> HIDE DEF r
<1>6. /\ t \in Structure /\ t.active = s.active /\ t.mode = s.mode
      /\ t.queue = s.queue /\ t.queue_timeout = s.queue_timeout
      /\ t.source = s.source /\ t.live = s.live /\ t.timeout = s.timeout
      /\ t.channel = s.channel /\ t.rd_source = s.rd_source
      /\ t.wr_source = s.wr_source /\ t.wr_buf = s.wr_buf
      /\ t.rd_ppp_source = s.rd_ppp_source /\ t.connected = s.connected
  BY <1>3, <1>5 DEF Structure
<1> HIDE DEF t
<1>7. Modes(s)
  BY <1>4 DEF AtRest, Shape, Inner
<1>8. AtRest(t)
  BY <1>4, <1>6, <1>7, AroundRest DEF Modes
<1> QED
  BY <1>1, <1>8

LEMMA ParseEndsRests ==
  ASSUME AtRest(h), ParseEnds
  PROVE  AtRest(h')
<1> DEFINE t == [h EXCEPT !.parsing = FALSE]
<1>1. h' = t /\ h \in Structure /\ Modes(h)
  BY DEF ParseEnds, AtRest, Shape, Inner
<1>2. /\ t \in Structure /\ t.active = h.active /\ t.mode = h.mode
      /\ t.queue = h.queue /\ t.queue_timeout = h.queue_timeout
      /\ t.source = h.source /\ t.live = h.live /\ t.timeout = h.timeout
      /\ t.channel = h.channel /\ t.rd_source = h.rd_source
      /\ t.wr_source = h.wr_source /\ t.wr_buf = h.wr_buf
      /\ t.rd_ppp_source = h.rd_ppp_source /\ t.connected = h.connected
      /\ t.parsing = FALSE
  BY <1>1 DEF Structure
<1> HIDE DEF t
<1>3. h.wr_source => h.channel
  BY OpenActive
<1>4. AtRest(t)
  BY <1>1, <1>2, <1>3, AroundRest DEF Modes
<1> QED
  BY <1>1, <1>4

LEMMA WriteRests ==
  ASSUME AtRest(h), toModem \in Seq(Kind), NEW n \in 1 .. Len(h.wr_buf), Write(n)
  PROVE  AtRest(h') /\ toModem' \in Seq(Kind)
<1> DEFINE w == SubSeq(h.wr_buf, n + 1, Len(h.wr_buf))
           b == (n < Len(h.wr_buf))
           t == [h EXCEPT !.wr_buf = w, !.wr_source = b]
<1>0. h \in Structure /\ Modes(h)
  BY DEF AtRest, Shape, Inner
<1>1. /\ h' = t /\ h.wr_source /\ ~h.parsing
      /\ toModem' = IF online THEN toModem
                    ELSE toModem \o Commands(SubSeq(h.wr_buf, 1, n))
  BY DEF Write
<1>2. h.wr_buf \in Seq(Kind \union {"ppp"})
  BY <1>0 DEF Structure
<1>3. /\ SubSeq(h.wr_buf, 1, n) \in Seq(Kind \union {"ppp"})
      /\ w \in Seq(Kind \union {"ppp"}) /\ (w # <<>> <=> b) /\ b \in BOOLEAN
  BY <1>2, AfterElements
<1> HIDE DEF w, b
<1>4. /\ t \in Structure /\ t.active = h.active /\ t.mode = h.mode
      /\ t.queue = h.queue /\ t.queue_timeout = h.queue_timeout
      /\ t.source = h.source /\ t.live = h.live /\ t.timeout = h.timeout
      /\ t.channel = h.channel /\ t.rd_source = h.rd_source
      /\ t.wr_source = b /\ t.wr_buf = w /\ t.parsing = h.parsing
      /\ t.rd_ppp_source = h.rd_ppp_source /\ t.connected = h.connected
  BY <1>0, <1>3 DEF Structure
<1> HIDE DEF t
<1>5. h.channel
  BY <1>1, OpenActive
<1>6. AtRest(t)
  BY <1>0, <1>3, <1>4, <1>5, AroundRest DEF Modes
<1>7. toModem \o Commands(SubSeq(h.wr_buf, 1, n)) \in Seq(Kind)
  BY <1>3, CommandsKinds, ConcatElements
<1> QED
  BY <1>1, <1>6, <1>7

LEMMA ReadPppRests ==
  ASSUME AtRest(h), ReadPpp
  PROVE  AtRest(h')
<1> DEFINE w == Append(h.wr_buf, "ppp")
           b == (h.wr_source \/ h.channel)
           t == [h EXCEPT !.wr_buf = w, !.wr_source = b]
<1>0. h \in Structure /\ Modes(h)
  BY DEF AtRest, Shape, Inner
<1>1. h' = t /\ h.rd_ppp_source /\ ~h.parsing
  BY DEF ReadPpp
<1>2. h.channel
  BY <1>1, OpenActive
<1>3. w \in Seq(Kind \union {"ppp"}) /\ w # <<>> /\ b = TRUE
  <2>1. h.wr_buf \in Seq(Kind \union {"ppp"}) /\ "ppp" \in Kind \union {"ppp"}
    BY <1>0 DEF Structure
  <2> QED
    BY <2>1, <1>2, AppendElements
<1> HIDE DEF w, b
<1>4. /\ t \in Structure /\ t.active = h.active /\ t.mode = h.mode
      /\ t.queue = h.queue /\ t.queue_timeout = h.queue_timeout
      /\ t.source = h.source /\ t.live = h.live /\ t.timeout = h.timeout
      /\ t.channel = h.channel /\ t.rd_source = h.rd_source
      /\ t.wr_source = TRUE /\ t.wr_buf = w /\ t.parsing = h.parsing
      /\ t.rd_ppp_source = h.rd_ppp_source /\ t.connected = h.connected
  BY <1>0, <1>3 DEF Structure
<1> HIDE DEF t
<1>5. AtRest(t)
  BY <1>0, <1>2, <1>3, <1>4, AroundRest DEF Modes
<1> QED
  BY <1>1, <1>5

LEMMA WritePppRests ==
  ASSUME AtRest(h), NEW n \in 1 .. Len(h.rd_buf), WritePpp(n)
  PROVE  AtRest(h')
<1> DEFINE r == SubSeq(h.rd_buf, n + 1, Len(h.rd_buf))
           b == (n < Len(h.rd_buf))
           t == [h EXCEPT !.rd_buf = r, !.wr_ppp_source = b]
<1>0. h \in Structure /\ Modes(h) /\ h.rd_buf \in Seq(Line)
  BY DEF AtRest, Shape, Inner, Structure
<1>1. h' = t /\ ~h.parsing
  BY DEF WritePpp
<1>2. r \in Seq(Line) /\ b \in BOOLEAN
  BY <1>0, AfterElements
<1> HIDE DEF r, b
<1>3. /\ t \in Structure /\ t.active = h.active /\ t.mode = h.mode
      /\ t.queue = h.queue /\ t.queue_timeout = h.queue_timeout
      /\ t.source = h.source /\ t.live = h.live /\ t.timeout = h.timeout
      /\ t.channel = h.channel /\ t.rd_source = h.rd_source
      /\ t.wr_source = h.wr_source /\ t.wr_buf = h.wr_buf
      /\ t.rd_ppp_source = h.rd_ppp_source /\ t.connected = h.connected
      /\ t.parsing = h.parsing
  BY <1>0, <1>2 DEF Structure
<1> HIDE DEF t
<1>4. h.wr_source => h.channel
  BY OpenActive
<1>5. AtRest(t)
  BY <1>0, <1>1, <1>3, <1>4, AroundRest DEF Modes
<1> QED
  BY <1>1, <1>5


-----------------------------------------------------------------------------
(* The modem *)

LEMMA TrackBoolean ==
  ASSUME NEW g \in BOOLEAN, Track(g)
  PROVE  strayed' \in BOOLEAN
<1> DEFINE b == ((g /\ ~InStep') \/ (strayed /\ ~Idle'))
<1>1. strayed' = b
  BY DEF Track
<1>2. b \in BOOLEAN
  OBVIOUS
<1> QED
  BY <1>1, <1>2

LEMMA SpendBounded ==
  ASSUME budget \in 0 .. MaxEvents, Spend \/ UNCHANGED budget
  PROVE  budget' \in 0 .. MaxEvents
BY BoundsAssumption DEF Spend

LEMMA DeviceTyped ==
  ASSUME Outside, Device
  PROVE  fromModem' \in Seq(Line) /\ online' \in BOOLEAN
<1>1. <<>> \in Seq(Line)
  BY EmptySeq
<1> QED
  BY <1>1 DEF Outside, Device

LEMMA LocalOutside ==
  ASSUME Outside, NEW g \in BOOLEAN, Local(g), Spend \/ UNCHANGED budget
  PROVE  Outside'
<1>1. fromModem' \in Seq(Line) /\ online' \in BOOLEAN
  BY DeviceTyped DEF Local
<1>2. strayed' \in BOOLEAN
  BY TrackBoolean DEF Local
<1>3. budget' \in 0 .. MaxEvents
  BY SpendBounded DEF Outside
<1> QED
  BY <1>1, <1>2, <1>3 DEF Outside, Local

\* The modem sends lines.
LEMMA AnswersAreCodes ==
  ASSUME NEW k, NEW codes \in Answers(k) \union Troubles(k)
  PROVE  codes \in Seq(Code)
<1>1. /\ <<"CFUN 1", "OK">> \in Seq(Code) /\ <<"CPIN READY", "OK">> \in Seq(Code)
      /\ <<"CREG 1", "OK">> \in Seq(Code) /\ <<"COPS", "OK">> \in Seq(Code)
      /\ <<"CPBR", "OK">> \in Seq(Code) /\ <<"OK">> \in Seq(Code)
      /\ <<"CMGL", "OK">> \in Seq(Code) /\ <<"TEXT", "OK">> \in Seq(Code)
      /\ <<"CPAS 0", "OK">> \in Seq(Code) /\ <<"CONNECT">> \in Seq(Code)
  BY DEF Code
<1>2. /\ <<"ERROR">> \in Seq(Code) /\ <<"CFUN 0", "OK">> \in Seq(Code)
      /\ <<"CPIN PIN", "OK">> \in Seq(Code) /\ <<"CME PIN">> \in Seq(Code)
      /\ <<"CREG 0", "OK">> \in Seq(Code) /\ <<"COPS n", "OK">> \in Seq(Code)
      /\ <<"COPS 2", "OK">> \in Seq(Code) /\ <<"CME SOS">> \in Seq(Code)
      /\ <<"CME">> \in Seq(Code) /\ <<"SIM BUSY">> \in Seq(Code)
      /\ <<"NO CARRIER">> \in Seq(Code)
  BY DEF Code
<1>3. CASE codes \in Answers(k)
  <2>1. \/ codes \in {<<"CFUN 1", "OK">>, <<"CPIN READY", "OK">>, <<"CREG 1", "OK">>}
        \/ codes \in {<<"COPS", "OK">>, <<"CPBR", "OK">>, <<"OK">>}
        \/ codes \in {<<"CMGL", "OK">>, <<"TEXT", "OK">>}
        \/ codes \in {<<"CPAS 0", "OK">>, <<"CONNECT">>}
    BY <1>3, Zenon DEF Answers
  <2> QED
    BY <1>1, <2>1, Zenon
<1>4. CASE codes \in Troubles(k)
  <2>1. \/ codes \in {<<"ERROR">>, <<"CFUN 0", "OK">>, <<"CPIN PIN", "OK">>}
        \/ codes \in {<<"CME PIN">>, <<"CREG 0", "OK">>, <<"COPS n", "OK">>}
        \/ codes \in {<<"COPS 2", "OK">>, <<"CME SOS">>, <<"CME">>}
        \/ codes \in {<<"SIM BUSY">>, <<"NO CARRIER">>}
    BY <1>4, Zenon DEF Troubles
  <2> QED
    BY <1>2, <2>1, Zenon
<1> QED
  BY <1>3, <1>4

LEMMA LinesSent ==
  ASSUME fromModem \in Seq(Line), NEW ls \in Seq(Line), Send(ls)
  PROVE  fromModem' \in Seq(Line)
BY ConcatElements DEF Send

LEMMA ReplyOutside ==
  ASSUME Outside, toModem # <<>>, Spend \/ UNCHANGED budget,
         NEW codes \in Seq(Code), Reply(codes)
  PROVE  Outside' /\ UNCHANGED h
<1> DEFINE ls == [i \in DOMAIN codes |-> Sollicited(codes[i], i = Len(codes))]
<1>1. Send(ls) /\ UNCHANGED <<h, lost>> /\ Track(FALSE)
      /\ toModem' = (IF codes = <<"CONNECT">> THEN <<>> ELSE Tail(toModem))
      /\ online' = (codes = <<"CONNECT">> /\ h.channel)
  BY DEF Reply
<1>2. Len(codes) \in Nat /\ DOMAIN codes = 1 .. Len(codes)
  BY LenProperties
<1>3. ASSUME NEW i \in 1 .. Len(codes)
      PROVE  Sollicited(codes[i], i = Len(codes)) \in Line
  <2>1. codes[i] \in Code
    BY <1>3, ElementOfSeq
  <2> QED
    BY <2>1 DEF Sollicited, Line
<1>4. ls \in [1 .. Len(codes) -> Line]
  BY <1>2, <1>3
<1> HIDE DEF ls
<1>5. ls \in Seq(Line)
  BY <1>2, <1>4, SeqDef
<1>6. fromModem' \in Seq(Line)
  BY <1>1, <1>5, LinesSent DEF Outside
<1>7. toModem' \in Seq(Kind)
  BY <1>1, TailElements, EmptySeq DEF Outside
<1>8. online' \in BOOLEAN
  BY <1>1
<1>9. strayed' \in BOOLEAN
  BY <1>1, TrackBoolean
<1>10. budget' \in 0 .. MaxEvents
  BY SpendBounded DEF Outside
<1> QED
  BY <1>1, <1>6, <1>7, <1>8, <1>9, <1>10 DEF Outside

LEMMA UnsollicitedOutside ==
  ASSUME Outside, NEW c \in Code, Send(<<Unsollicited(c)>>)
  PROVE  fromModem' \in Seq(Line)
<1> DEFINE l == Unsollicited(c)
<1>1. l \in Line
  BY DEF Unsollicited, Line
<1> HIDE DEF l
<1>2. <<l>> \in Seq(Line)
  BY <1>1
<1> QED
  BY <1>2, LinesSent DEF Outside, l

-----------------------------------------------------------------------------
(* The invariant *)

LEMMA HInvInit ==
  ASSUME Init
  PROVE  HInv
<1>1. /\ <<>> \in Seq(Command) /\ <<>> \in Seq(Kept) /\ <<>> \in Seq(Line)
      /\ <<>> \in Seq(Kind \union {"ppp"}) /\ <<>> \in Seq(Kind)
  BY EmptySeq
<1>2. h \in Structure
  BY <1>1 DEF Init, Structure
<1>3. /\ h.mode = "INIT" /\ h.queue = <<>> /\ h.queue_timeout = <<>>
      /\ ~h.timeout /\ ~h.channel /\ ~h.rd_source /\ ~h.wr_source
      /\ h.wr_buf = <<>> /\ ~h.rd_ppp_source /\ ~h.connected /\ ~h.parsing
      /\ h.live = {} /\ h.source = "none"
  BY DEF Init
<1>4. Shape(h) /\ Rest(h)
  <2>1. h.live = {h.source} \ {"none"}
    BY <1>3
  <2> QED
    BY <1>2, <1>3, <2>1, NothingThere
<1>5. Outside
  <2>1. /\ toModem = <<>> /\ fromModem = <<>> /\ online = FALSE
        /\ strayed = FALSE /\ lost = FALSE /\ budget = MaxEvents
    BY DEF Init
  <2>2. MaxEvents \in 0 .. MaxEvents
    BY BoundsAssumption
  <2>3. /\ toModem \in Seq(Kind) /\ fromModem \in Seq(Line)
        /\ budget \in 0 .. MaxEvents
    BY <1>1, <2>1, <2>2
  <2> QED
    BY <2>1, <2>3 DEF Outside
<1> QED
  BY <1>2, <1>4, <1>5 DEF HInv, AtRest

\* Every dispatch of the main loop and every step of the modem.
LEMMA HInvNext ==
  ASSUME HInv, [Next]_vars
  PROVE  HInv'
<1>0. AtRest(h) /\ Outside
  BY DEF HInv
<1>1. CASE Start
  <2>1. Local(FALSE) /\ UNCHANGED budget
    BY <1>1 DEF Start
  <2> QED
    BY <1>0, <1>1, <2>1, StartRests, LocalOutside DEF HInv
<1>2. CASE Stop
  <2>1. Local(TRUE) /\ Spend
    BY <1>2 DEF Stop
  <2> QED
    BY <1>0, <1>2, <2>1, StopRests, LocalOutside DEF HInv
<1>3. CASE HangUp
  <2>1. Local(h.mode = "DATA") /\ Spend
    BY <1>3 DEF HangUp
  <2>2. (h.mode = "DATA") \in BOOLEAN
    OBVIOUS
  <2>3. Outside'
    BY <1>0, <2>1, <2>2, LocalOutside
  <2> QED
    BY <1>0, <1>3, <2>3, HangUpRests DEF HInv
<1>4. ASSUME NEW k \in UserKinds, UserRequest(k) PROVE HInv'
  <2>1. Local(FALSE) /\ Spend
    BY <1>4 DEF UserRequest
  <2> QED
    BY <1>0, <1>4, <2>1, UserRequestRests, LocalOutside DEF HInv
<1>5. ASSUME NEW o \in BOOLEAN, OnReset(o) PROVE HInv'
  <2>1. fromModem' = <<>> /\ UNCHANGED <<toModem, online, lost, budget>> /\ Track(TRUE)
    BY <1>5 DEF OnReset
  <2>2. strayed' \in BOOLEAN /\ fromModem' \in Seq(Line)
    BY <2>1, TrackBoolean, EmptySeq
  <2>3. Outside'
    BY <1>0, <2>1, <2>2 DEF Outside
  <2> QED
    BY <1>0, <1>5, <2>3, OnResetRests DEF HInv
<1>6. CASE OnTimeout
  <2>1. Local(TRUE) /\ UNCHANGED budget
    BY <1>6 DEF OnTimeout
  <2> QED
    BY <1>0, <1>6, <2>1, OnTimeoutRests, LocalOutside DEF HInv
<1>7. CASE OnQueueTimeout
  <2>1. Local(FALSE) /\ UNCHANGED budget
    BY <1>7 DEF OnQueueTimeout
  <2> QED
    BY <1>0, <1>7, <2>1, OnQueueTimeoutRests, LocalOutside DEF HInv
<1>8. ASSUME NEW n \in 1 .. Len(fromModem), Read(n) PROVE HInv'
  <2>1. UNCHANGED <<toModem, online, lost, budget>> /\ Track(FALSE)
    BY <1>8 DEF Read
  <2>2. AtRest(h') /\ fromModem' \in Seq(Line)
    BY <1>0, <1>8, ReadRests DEF Outside
  <2>3. strayed' \in BOOLEAN
    BY <2>1, TrackBoolean
  <2> QED
    BY <1>0, <2>1, <2>2, <2>3 DEF HInv, Outside
<1>9. CASE ParseLine
  <2> DEFINE l == h.rd_buf[1]
             a == (lost \/ (l.code = "TEXT" /\
                       ~(h.queue # <<>> /\ h.queue[1].kind = "message"
                           /\ h.queue[1].data)))
             g == (l.code = "NO CARRIER" /\ ~l.final)
  <2>1. Device /\ UNCHANGED <<toModem, budget>> /\ Track(g) /\ lost' = a
    BY <1>9 DEF ParseLine
  <2>2. a \in BOOLEAN /\ g \in BOOLEAN
    OBVIOUS
  <2> HIDE DEF a, g
  <2>3. strayed' \in BOOLEAN
    BY <2>1, <2>2, TrackBoolean
  <2>4. fromModem' \in Seq(Line) /\ online' \in BOOLEAN
    BY <1>0, <2>1, DeviceTyped
  <2>5. Outside'
    BY <1>0, <2>1, <2>2, <2>3, <2>4 DEF Outside
  <2> QED
    BY <1>0, <1>9, <2>5, ParseLineRests DEF HInv
<1>10. CASE ParseEnds
  <2>1. UNCHANGED <<toModem, fromModem, online, lost, budget>> /\ Track(FALSE)
    BY <1>10 DEF ParseEnds
  <2>2. strayed' \in BOOLEAN
    BY <2>1, TrackBoolean
  <2>3. Outside'
    BY <1>0, <2>1, <2>2 DEF Outside
  <2> QED
    BY <1>0, <1>10, <2>3, ParseEndsRests DEF HInv
<1>11. ASSUME NEW n \in 1 .. Len(h.wr_buf), Write(n) PROVE HInv'
  <2>1. UNCHANGED <<fromModem, online, lost, budget>> /\ Track(FALSE)
    BY <1>11 DEF Write
  <2>2. AtRest(h') /\ toModem' \in Seq(Kind)
    BY <1>0, <1>11, WriteRests DEF Outside
  <2>3. strayed' \in BOOLEAN
    BY <2>1, TrackBoolean
  <2> QED
    BY <1>0, <2>1, <2>2, <2>3 DEF HInv, Outside
<1>12. CASE LineFails
  <2>1. Local(TRUE) /\ Spend
    BY <1>12 DEF LineFails
  <2> QED
    BY <1>0, <1>12, <2>1, LineFailsRests, LocalOutside DEF HInv
<1>13. CASE ReadPpp
  <2>1. Local(FALSE) /\ UNCHANGED budget
    BY <1>13 DEF ReadPpp
  <2> QED
    BY <1>0, <1>13, <2>1, ReadPppRests, LocalOutside DEF HInv
<1>14. CASE PppExits
  <2>1. Local(TRUE) /\ UNCHANGED budget
    BY <1>14 DEF PppExits
  <2> QED
    BY <1>0, <1>14, <2>1, PppExitsRests, LocalOutside DEF HInv
<1>15. ASSUME NEW n \in 1 .. Len(h.rd_buf), WritePpp(n) PROVE HInv'
  <2>1. Local(FALSE) /\ UNCHANGED budget
    BY <1>15 DEF WritePpp
  <2> QED
    BY <1>0, <1>15, <2>1, WritePppRests, LocalOutside DEF HInv
<1>16. CASE Answer \/ Trouble
  <2>1. PICK codes \in Answers(toModem[1]) \union Troubles(toModem[1]) : Reply(codes)
    BY <1>16 DEF Answer, Trouble
  <2>2. codes \in Seq(Code)
    BY AnswersAreCodes
  <2>3. toModem # <<>> /\ (Spend \/ UNCHANGED budget)
    BY <1>16 DEF Answer, Trouble
  <2>4. Outside' /\ UNCHANGED h
    BY <1>0, <2>1, <2>2, <2>3, ReplyOutside
  <2> QED
    BY <1>0, <2>4 DEF HInv
<1>17. CASE Ignore
  <2>1. /\ toModem # <<>> /\ Spend /\ toModem' = Tail(toModem)
        /\ UNCHANGED <<h, fromModem, online, lost>> /\ Track(TRUE)
    BY <1>17 DEF Ignore
  <2>2. strayed' \in BOOLEAN /\ budget' \in 0 .. MaxEvents
    BY <1>0, <2>1, TrackBoolean, SpendBounded DEF Outside
  <2>3. toModem' \in Seq(Kind)
    BY <1>0, <2>1, TailElements DEF Outside
  <2> QED
    BY <1>0, <2>1, <2>2, <2>3 DEF HInv, Outside
<1>18. CASE News
  <2>1. PICK c \in {"CMTI", "NO CARRIER"} :
          /\ Send(<<Unsollicited(c)>>) /\ online' = (online /\ c # "NO CARRIER")
          /\ Spend /\ UNCHANGED <<h, toModem, lost>> /\ Track(FALSE)
    BY <1>18 DEF News
  <2>2. fromModem' \in Seq(Line)
    <3>1. c \in Code
      BY DEF Code
    <3> QED
      BY <1>0, <2>1, <3>1, UnsollicitedOutside
  <2>3. strayed' \in BOOLEAN /\ budget' \in 0 .. MaxEvents
    BY <1>0, <2>1, TrackBoolean, SpendBounded DEF Outside
  <2>4. online' \in BOOLEAN
    BY <2>1
  <2> QED
    BY <1>0, <2>1, <2>2, <2>3, <2>4 DEF HInv, Outside
<1>19. CASE Data
  <2>1. /\ Send(<<Unsollicited("ppp")>>)
        /\ UNCHANGED <<h, toModem, online, lost, budget>> /\ Track(FALSE)
    BY <1>19 DEF Data
  <2>2. fromModem' \in Seq(Line)
    <3>1. "ppp" \in Code
      BY DEF Code
    <3> QED
      BY <1>0, <2>1, <3>1, UnsollicitedOutside
  <2>3. strayed' \in BOOLEAN
    BY <2>1, TrackBoolean
  <2> QED
    BY <1>0, <2>1, <2>2, <2>3 DEF HInv, Outside
<1>20. CASE UNCHANGED vars
  BY <1>0, <1>20 DEF vars, HInv, Outside
<1> QED
  BY <1>1, <1>2, <1>3, <1>4, <1>5, <1>6, <1>7, <1>8, <1>9, <1>10, <1>11, <1>12, <1>13,
     <1>14, <1>15, <1>16, <1>17, <1>18, <1>19, <1>20 DEF Next, Program

\* What the plug-in keeps at every dispatch of the main loop and at every step
\* of the modem, with its types, for any number of events, commands kept, folders
\* and faults.
THEOREM HayesInvAlways == Spec => []HInv
<1>1. Init => HInv
  BY HInvInit
<1>2. HInv /\ [Next]_vars => HInv'
  BY HInvNext
<1> QED
  BY <1>1, <1>2, PTL DEF Spec

\* The queue neither stalls nor holds what the modem cannot take yet: every way a
\* command ends (an answer in _parse_do, its timer in _on_timeout, a reset) sends
\* the next one, and a modem that is not initialised always has an ATZ under way.
THEOREM HayesQueueAtWork == Spec => []QueueAtWork
<1>1. HInv => QueueAtWork
  <2>1. SUFFICES ASSUME HInv PROVE QueueAtWork
    OBVIOUS
  <2>2. h \in Structure /\ Shape(h) /\ Rest(h)
    BY <2>1 DEF HInv, AtRest
  <2>3. h.queue \in Seq(Command)
    BY <2>2 DEF Structure
  <2>4. h.queue = <<>> => DOMAIN h.queue = {}
    BY <2>3, LenProperties, EmptySeq
  <2>5. HeadActive
    BY <2>2, <2>4 DEF HeadActive, Rest, OthersWait
  <2>6. InitHasReset
    BY <2>2 DEF InitHasReset, Shape, Inner, Closed, OnlyResets, Rest
  <2> QED
    BY <2>5, <2>6 DEF QueueAtWork
<1> QED
  BY <1>1, HayesInvAlways, PTL

\* Whatever order resets, openings and SIM busy errors come in, hayes->source is
\* the one idle or timeout source there is, so that modem_stop leaves nothing
\* that could call the plug-in back.
THEOREM HayesNothingOutlivesStop == Spec => []NothingOutlivesStop
<1>1. HInv => NothingOutlivesStop
  <2>1. SUFFICES ASSUME HInv PROVE NothingOutlivesStop
    OBVIOUS
  <2>2. Shape(h) /\ Rest(h)
    BY <2>1 DEF HInv, AtRest
  <2>3. h.live = {h.source} \ {"none"}
    BY <2>2 DEF Shape, Sources
  <2>4. ASSUME ~h.active
        PROVE  /\ h.live = {} /\ ~h.timeout /\ ~h.channel
               /\ ~h.rd_source /\ ~h.wr_source /\ ~h.rd_ppp_source
               /\ h.queue = <<>>
    <3>1. ~h.channel /\ h.source = "none" /\ h.queue = <<>> /\ ~h.rd_source /\ ~h.wr_source
      BY <2>2, <2>4 DEF Shape, Inner, Closed
    <3>2. h.mode = "INIT" /\ ~h.rd_ppp_source
      BY <2>2, <3>1 DEF Shape, Inner, Modes
    <3>3. ~h.timeout
      BY <2>2, <3>1, <3>2 DEF Rest
    <3> QED
      BY <2>3, <3>1, <3>2, <3>3
  <2> QED
    BY <2>3, <2>4 DEF NothingOutlivesStop
<1> QED
  BY <1>1, HayesInvAlways, PTL

\* Whatever waits has the source that will fetch it: the commands kept while the
\* SIM is busy their timer, and the bytes to be written their watch.
THEOREM HayesArmed == Spec => []Armed
<1>1. HInv => Armed
  <2>1. SUFFICES ASSUME HInv PROVE Armed
    OBVIOUS
  <2>2. h \in Structure /\ Shape(h) /\ Outside
    BY <2>1 DEF HInv, AtRest
  <2>3. h.queue_timeout \in Seq(Command)
    <3>1. h.queue_timeout \in Seq(Kept)
      BY <2>2 DEF Structure
    <3>2. Seq(Kept) \subseteq Seq(Command)
      <4>1. Kept \subseteq Command
        BY DEF Kept
      <4> QED
        BY <4>1, SeqMonotonic
    <3> QED
      BY <3>1, <3>2
  <2>4. TypeOK
    <3>1. h \in [active : BOOLEAN, mode : {"INIT", "COMMAND", "DATA"},
            queue : Seq(Command), queue_timeout : Seq(Command),
            source : {"none", "reset", "repeat"}, live : SUBSET {"reset", "repeat"},
            timeout : BOOLEAN, channel : BOOLEAN, rd_source : BOOLEAN,
            wr_source : BOOLEAN, rd_buf : Seq(Line), wr_buf : Seq(Kind \union {"ppp"}),
            ppp : BOOLEAN, rd_ppp_source : BOOLEAN, wr_ppp_source : BOOLEAN,
            connected : BOOLEAN, authenticated : BOOLEAN, disabled : BOOLEAN,
            parsing : BOOLEAN]
      BY <2>2, <2>3 DEF Structure
    <3> QED
      BY <2>2, <3>1 DEF TypeOK, Outside
  <2>5. RepeatsScheduled /\ WriteArmed
    BY <2>2 DEF RepeatsScheduled, WriteArmed, Shape, Inner, Sources, Modes
  <2> QED
    BY <2>4, <2>5 DEF Armed
<1> QED
  BY <1>1, HayesInvAlways, PTL

\* Phone is told that it is connected during a data call only: whether pppd ends,
\* the device fails, the user hangs up or the modem is stopped, its end is told.
THEOREM HayesConnectionReported == Spec => []ConnectionReported
<1>1. HInv => ConnectionReported
  BY DEF HInv, AtRest, Shape, Inner, Modes, ConnectionReported
<1> QED
  BY <1>1, HayesInvAlways, PTL

-----------------------------------------------------------------------------
(* Counting *)

\* How many elements of a sequence are in P.
Count(b, P) == Cardinality({i \in DOMAIN b : b[i] \in P})

LEMMA CountBounds ==
  ASSUME NEW S, NEW b \in Seq(S), NEW P
  PROVE  /\ IsFiniteSet({i \in DOMAIN b : b[i] \in P})
         /\ Count(b, P) \in Nat
         /\ Count(b, P) = 0 <=> \A i \in DOMAIN b : b[i] \notin P
<1> DEFINE A == {i \in DOMAIN b : b[i] \in P}
<1>1. Len(b) \in Nat /\ DOMAIN b = 1 .. Len(b)
  BY LenProperties
<1>2. IsFiniteSet(1 .. Len(b))
  BY <1>1, FS_Interval
<1>3. A \in SUBSET (1 .. Len(b))
  BY <1>1
<1>4. IsFiniteSet(A)
  BY <1>2, <1>3, FS_Subset
<1>5. Cardinality(A) \in Nat /\ (Cardinality(A) = 0 <=> A = {})
  BY <1>4, FS_CardinalityType, FS_EmptySet
<1> QED
  BY <1>4, <1>5 DEF Count

\* How many of the first n elements.
CountUpTo(b, P, n) == Cardinality({i \in 1 .. n : b[i] \in P})

\* What one element adds to the count.
One(x, P) == IF x \in P THEN 1 ELSE 0

LEMMA CountStep ==
  ASSUME NEW b, NEW P, NEW n \in Nat
  PROVE  /\ CountUpTo(b, P, n) \in Nat
         /\ CountUpTo(b, P, n + 1) = CountUpTo(b, P, n) + One(b[n + 1], P)
<1> DEFINE A == {i \in 1 .. n : b[i] \in P}
           B == {i \in 1 .. n + 1 : b[i] \in P}
<1>1. IsFiniteSet(A)
  <2>1. IsFiniteSet(1 .. n) /\ A \in SUBSET (1 .. n)
    BY FS_Interval
  <2> HIDE DEF A
  <2> QED
    BY <2>1, FS_Subset
<1>2. B = IF b[n + 1] \in P THEN A \union {n + 1} ELSE A
  OBVIOUS
<1>3. n + 1 \notin A
  OBVIOUS
<1>4. CountUpTo(b, P, n) = Cardinality(A) /\ CountUpTo(b, P, n + 1) = Cardinality(B)
  BY Zenon DEF CountUpTo
<1> HIDE DEF A, B
<1>5. Cardinality(A) \in Nat /\ Cardinality(A \union {n + 1}) = Cardinality(A) + 1
  BY <1>1, <1>3, FS_CardinalityType, FS_AddElement
<1>6. CASE b[n + 1] \in P
  BY <1>2, <1>4, <1>5, <1>6 DEF One
<1>7. CASE b[n + 1] \notin P
  BY <1>2, <1>4, <1>5, <1>7 DEF One
<1> QED
  BY <1>6, <1>7

LEMMA CountNone ==
  ASSUME NEW b, NEW P
  PROVE  CountUpTo(b, P, 0) = 0
<1>1. {i \in 1 .. 0 : b[i] \in P} = {}
  OBVIOUS
<1> QED
  BY <1>1, FS_EmptySet DEF CountUpTo

LEMMA CountAll ==
  ASSUME NEW S, NEW b \in Seq(S), NEW P
  PROVE  CountUpTo(b, P, Len(b)) = Count(b, P)
<1>1. DOMAIN b = 1 .. Len(b)
  BY LenProperties
<1> QED
  BY <1>1, Zenon DEF CountUpTo, Count

\* The elements of a concatenation are those of its parts.
LEMMA CountConcat ==
  ASSUME NEW S, NEW a \in Seq(S), NEW b \in Seq(S), NEW P
  PROVE  Count(a \o b, P) = Count(a, P) + Count(b, P)
<1> DEFINE c == a \o b
           U(n) == CountUpTo(c, P, Len(a) + n)
           V(n) == CountUpTo(b, P, n)
           T == {n \in 0 .. Len(b) : U(n) # Count(a, P) + V(n)}
<1>1. Len(a) \in Nat /\ Len(b) \in Nat /\ DOMAIN a = 1 .. Len(a)
  BY LenProperties
<1>2. /\ c \in Seq(S) /\ Len(c) = Len(a) + Len(b)
      /\ \A i \in 1 .. Len(a) + Len(b) : c[i] = IF i <= Len(a) THEN a[i] ELSE b[i - Len(a)]
  BY ConcatProperties
<1>3. Count(a, P) \in Nat
  BY CountBounds
<1> HIDE DEF c
<1>4. U(0) = Count(a, P) + V(0)
  <2>1. {i \in 1 .. Len(a) : c[i] \in P} = {i \in DOMAIN a : a[i] \in P}
    BY <1>1, <1>2
  <2>2. CountUpTo(c, P, Len(a)) = Count(a, P)
    BY <2>1, Zenon DEF CountUpTo, Count
  <2>3. Len(a) + 0 = Len(a)
    BY <1>1
  <2>4. U(0) = Count(a, P)
    BY <2>2, <2>3, Zenon
  <2>5. V(0) = 0
    BY CountNone
  <2> HIDE DEF U, V
  <2> QED
    BY <1>3, <2>4, <2>5
<1>5. ASSUME NEW n \in 0 .. Len(b) - 1, U(n) = Count(a, P) + V(n)
      PROVE  U(n + 1) = Count(a, P) + V(n + 1)
  <2> DEFINE m == Len(a) + n
             d == One(b[n + 1], P)
  <2>1. n \in Nat /\ m \in Nat /\ c[m + 1] = b[n + 1] /\ Len(a) + (n + 1) = m + 1
    BY <1>1, <1>2
  <2> HIDE DEF m, T
  <2>2. V(n) \in Nat /\ V(n + 1) = V(n) + d
    BY <2>1, CountStep, Zenon
  <2>3. CountUpTo(c, P, m + 1) = CountUpTo(c, P, m) + d
    <3>1. CountUpTo(c, P, m + 1) = CountUpTo(c, P, m) + One(c[m + 1], P)
      BY <2>1, CountStep, Zenon
    <3> QED
      BY <2>1, <3>1, Zenon
  <2>4. U(n + 1) = CountUpTo(c, P, m + 1) /\ U(n) = CountUpTo(c, P, m)
    BY <2>1, Zenon DEF m
  <2>5. d \in Nat
    BY DEF One
  <2> HIDE DEF U, V, d
  <2> QED
    BY <1>3, <1>5, <2>2, <2>3, <2>4, <2>5
<1>6. T = {}
  <2>1. SUFFICES ASSUME T # {} PROVE FALSE
    OBVIOUS
  <2>2. T \in SUBSET Nat
    OBVIOUS
  <2> HIDE DEF U, V
  <2>3. PICK m \in T : \A n \in T : m <= n
    <3> HIDE DEF T
    <3> QED
      BY <2>1, <2>2, LeastNat
  <2>4. m # 0 /\ m \in 0 .. Len(b)
    BY <2>3, <1>4
  <2>5. m - 1 \in 0 .. Len(b) - 1 /\ m - 1 \notin T /\ (m - 1) + 1 = m
    BY <1>1, <2>3, <2>4
  <2> QED
    BY <1>5, <2>3, <2>5
<1>7. U(Len(b)) = Count(a, P) + V(Len(b))
  <2>1. Len(b) \in 0 .. Len(b)
    BY <1>1
  <2> HIDE DEF U, V
  <2> QED
    BY <1>6, <2>1
<1>8. U(Len(b)) = Count(c, P) /\ V(Len(b)) = Count(b, P)
  <2>1. CountUpTo(c, P, Len(c)) = Count(c, P) /\ CountUpTo(b, P, Len(b)) = Count(b, P)
    BY <1>2, CountAll
  <2> QED
    BY <1>2, <2>1, Zenon
<1> HIDE DEF U, V
<1> QED
  BY <1>7, <1>8 DEF c

\* The elements of a sequence of one.
LEMMA CountOne ==
  ASSUME NEW x, NEW P
  PROVE  Count(<<x>>, P) = IF x \in P THEN 1 ELSE 0
<1>1. {i \in DOMAIN <<x>> : <<x>>[i] \in P} = IF x \in P THEN {1} ELSE {}
  OBVIOUS
<1> QED
  BY <1>1, FS_EmptySet, FS_Singleton DEF Count

\* What Append adds and what Tail takes away.
LEMMA CountAppend ==
  ASSUME NEW S, NEW b \in Seq(S), NEW x \in S, NEW P
  PROVE  Count(Append(b, x), P) = Count(b, P) + IF x \in P THEN 1 ELSE 0
<1> DEFINE y == <<x>>
<1>1. Append(b, x) = b \o y
  BY AppendIsConcat
<1>2. y \in Seq(S) /\ Count(y, P) = IF x \in P THEN 1 ELSE 0
  BY CountOne
<1> HIDE DEF y
<1>3. Count(b \o y, P) = Count(b, P) + Count(y, P)
  BY <1>2, CountConcat
<1> QED
  BY <1>1, <1>2, <1>3

LEMMA CountTail ==
  ASSUME NEW S, NEW b \in Seq(S), b # <<>>, NEW P
  PROVE  Count(b, P) = Count(Tail(b), P) + IF b[1] \in P THEN 1 ELSE 0
<1>1. Len(b) \in Nat \ {0} /\ 1 \in 1 .. Len(b) /\ Len(b) \in 1 .. Len(b)
  BY EmptySeq
<1>2. SubSeq(b, 1, Len(b)) = b /\ Tail(b) = SubSeq(b, 2, Len(b))
  BY SubSeqFull, TailIsSubSeq
<1>3. SubSeq(b, 1, Len(b)) = <<b[1]>> \o SubSeq(b, 1 + 1, Len(b))
  BY <1>1, SubSeqRecursiveFirst
<1> DEFINE y == <<b[1]>>
           t == Tail(b)
<1>4. b = y \o t
  BY <1>2, <1>3
<1>5. t \in Seq(S) /\ b[1] \in S
  BY <1>1, HeadTailProperties, ElementOfSeq
<1>6. y \in Seq(S) /\ Count(y, P) = IF b[1] \in P THEN 1 ELSE 0
  BY <1>5, CountOne
<1> HIDE DEF y, t
<1>7. Count(y \o t, P) = Count(y, P) + Count(t, P)
  BY <1>5, <1>6, CountConcat
<1>8. Count(t, P) \in Nat
  BY <1>5, CountBounds
<1>9. Count(b, P) = Count(y, P) + Count(t, P)
  BY <1>4, <1>7
<1> QED
  BY <1>6, <1>8, <1>9 DEF t

\* What is taken from the front and what is left.
LEMMA CountSplit ==
  ASSUME NEW S, NEW b \in Seq(S), NEW n \in 1 .. Len(b), NEW P
  PROVE  /\ SubSeq(b, 1, n) \in Seq(S) /\ SubSeq(b, n + 1, Len(b)) \in Seq(S)
         /\ Count(b, P) = Count(SubSeq(b, 1, n), P) + Count(SubSeq(b, n + 1, Len(b)), P)
<1>1. Len(b) \in Nat /\ n \in Int /\ n + 1 \in Int /\ 1 \in Int
  BY LenProperties
<1>2. \A i \in 1 .. Len(b) : b[i] \in S
  BY ElementOfSeq
<1>3. SubSeq(b, 1, n) \in Seq(S)
  BY <1>1, <1>2, SubSeqProperties
<1>4. SubSeq(b, n + 1, Len(b)) \in Seq(S)
  BY <1>1, <1>2, SubSeqProperties
<1>5. /\ 1 \in 1 .. Len(b) + 1 /\ n \in 1 - 1 .. Len(b) /\ Len(b) \in n .. Len(b)
  BY <1>1
<1>6. SubSeq(b, 1, n) \o SubSeq(b, n + 1, Len(b)) = SubSeq(b, 1, Len(b))
  BY <1>5, ConcatAdjacentSubSeq
<1>7. SubSeq(b, 1, n) \o SubSeq(b, n + 1, Len(b)) = b
  BY <1>6, SubSeqFull
<1> DEFINE x == SubSeq(b, 1, n)
           y == SubSeq(b, n + 1, Len(b))
<1>8. x \in Seq(S) /\ y \in Seq(S) /\ x \o y = b
  BY <1>3, <1>4, <1>7
<1> HIDE DEF x, y
<1>9. Count(x \o y, P) = Count(x, P) + Count(y, P)
  BY <1>8, CountConcat
<1>10. Count(b, P) = Count(x, P) + Count(y, P)
  BY <1>8, <1>9
<1> QED
  BY <1>8, <1>10 DEF x, y

\* Commands leaves out the bytes of pppd.
LEMMA CommandsCount ==
  ASSUME NEW buf \in Seq(Kind \union {"ppp"})
  PROVE  Len(Commands(buf)) = Count(buf, Kind)
<1> DEFINE F == CHOOSE f : IsCommands(f, buf, Len(buf))
           V(n) == CountUpTo(buf, Kind, n)
           T == {n \in 0 .. Len(buf) : ~(F[n] \in Seq(Kind) /\ Len(F[n]) = V(n))}
<1>1. Len(buf) \in Nat /\ DOMAIN buf = 1 .. Len(buf)
  BY LenProperties
<1>2. IsCommands(F, buf, Len(buf))
  <2>1. \E f : IsCommands(f, buf, Len(buf))
    BY <1>1, CommandsExists
  <2> QED
    BY <2>1
<1>3. Commands(buf) = F[Len(buf)]
  BY Zenon DEF Commands, IsCommands
<1> HIDE DEF F
<1>4. F[0] \in Seq(Kind) /\ Len(F[0]) = V(0)
  <2>1. 0 \in 0 .. Len(buf)
    BY <1>1
  <2>2. F[0] = <<>>
    BY <2>1, <1>2 DEF IsCommands
  <2>3. V(0) = 0
    BY CountNone
  <2> HIDE DEF V
  <2> QED
    BY <2>2, <2>3, EmptySeq
<1>5. ASSUME NEW n \in 0 .. Len(buf) - 1, F[n] \in Seq(Kind), Len(F[n]) = V(n)
      PROVE  F[n + 1] \in Seq(Kind) /\ Len(F[n + 1]) = V(n + 1)
  <2>1. n \in Nat /\ n + 1 \in 1 .. Len(buf) /\ n + 1 \in 0 .. Len(buf) /\ n + 1 # 0 /\ (n + 1) - 1 = n
    BY <1>1
  <2>2. F[n + 1] = IF buf[n + 1] # "ppp" THEN Append(F[n], buf[n + 1]) ELSE F[n]
    BY <2>1, <1>2 DEF IsCommands
  <2>3. buf[n + 1] \in Kind \union {"ppp"}
    BY <2>1, ElementOfSeq
  <2>4. /\ V(n) \in Nat
        /\ V(n + 1) = V(n) + One(buf[n + 1], Kind)
    BY <2>1, CountStep, Zenon
  <2> HIDE DEF V
  <2>5. CASE buf[n + 1] \in Kind
    <3>1. buf[n + 1] # "ppp"
      BY <2>5 DEF Kind
    <3> QED
      BY <1>5, <2>2, <2>4, <2>5, <3>1, AppendProperties DEF One
  <2>6. CASE buf[n + 1] = "ppp"
    <3>1. "ppp" \notin Kind
      BY DEF Kind
    <3> QED
      BY <1>5, <2>2, <2>4, <2>6, <3>1 DEF One
  <2> QED
    BY <2>3, <2>5, <2>6
<1>6. T = {}
  <2>1. SUFFICES ASSUME T # {} PROVE FALSE
    OBVIOUS
  <2>2. T \in SUBSET Nat
    OBVIOUS
  <2> HIDE DEF V
  <2>3. PICK m \in T : \A n \in T : m <= n
    <3> HIDE DEF T
    <3> QED
      BY <2>1, <2>2, LeastNat
  <2>4. m # 0 /\ m \in 0 .. Len(buf)
    BY <2>3, <1>4
  <2>5. m - 1 \in 0 .. Len(buf) - 1 /\ m - 1 \notin T /\ (m - 1) + 1 = m
    BY <1>1, <2>3, <2>4
  <2> QED
    BY <1>5, <2>3, <2>5
<1>7. Len(F[Len(buf)]) = V(Len(buf))
  <2>1. Len(buf) \in 0 .. Len(buf)
    BY <1>1
  <2> HIDE DEF V
  <2> QED
    BY <1>6, <2>1
<1>8. V(Len(buf)) = Count(buf, Kind)
  BY CountAll
<1> HIDE DEF V
<1> QED
  BY <1>3, <1>7, <1>8

-----------------------------------------------------------------------------
(* What the functions of the queue do to the count *)

\* Only the first command is ever sent or concluded.
Waiting(s) == \A i \in DOMAIN s.queue : i # 1 => s.queue[i].status = "QUEUED"

\* The timer is that of the active command.
Timed(s) == s.timeout <=> Head1(s)

Active(s) == IF Head1(s) THEN 1 ELSE 0

\* The commands still to be written.
Written(s) == Count(s.wr_buf, Kind)

\* Commands are queued: at most the first one is sent, and is active then.
Even(s, t) ==
  /\ t \in Structure /\ t.mode = s.mode
  /\ t.rd_buf = s.rd_buf /\ t.wr_ppp_source = s.wr_ppp_source
  /\ t.channel = s.channel
  /\ s.queue # <<>> => /\ t.queue # <<>> /\ t.queue[1].status = s.queue[1].status
                       /\ t.wr_buf = s.wr_buf /\ t.timeout = s.timeout
  /\ Waiting(s) => Waiting(t)
  /\ Timed(s) => Timed(t)
  /\ Written(t) + Active(s) = Written(s) + Active(t)
  /\ s.mode = "DATA" => Active(t) = Active(s)

LEMMA WrittenNat ==
  ASSUME NEW s \in Structure
  PROVE  Written(s) \in Nat /\ Active(s) \in {0, 1}
<1>1. s.wr_buf \in Seq(Kind \union {"ppp"})
  BY DEF Structure
<1> QED
  BY <1>1, CountBounds DEF Written, Active

LEMMA EvenTransitive ==
  ASSUME NEW s \in Structure, NEW t, NEW u, Even(s, t), Even(t, u)
  PROVE  Even(s, u)
<1>1. t \in Structure /\ u \in Structure
  BY DEF Even
<1>2. /\ Written(s) \in Nat /\ Written(t) \in Nat /\ Written(u) \in Nat
      /\ Active(s) \in {0, 1} /\ Active(t) \in {0, 1} /\ Active(u) \in {0, 1}
  BY <1>1, WrittenNat
<1>3. Written(u) + Active(s) = Written(s) + Active(u)
  <2>1. /\ Written(t) + Active(s) = Written(s) + Active(t)
        /\ Written(u) + Active(t) = Written(t) + Active(u)
    BY DEF Even
  <2> QED
    BY <1>2, <2>1
<1> QED
  BY <1>1, <1>3 DEF Even

\* A structure with the same queue, timer and bytes to write.
LEMMA EvenSame ==
  ASSUME NEW s \in Structure, NEW t \in Structure,
         t.mode = s.mode, t.rd_buf = s.rd_buf, t.wr_ppp_source = s.wr_ppp_source,
         t.channel = s.channel,
         t.queue = s.queue, t.wr_buf = s.wr_buf, t.timeout = s.timeout
  PROVE  Even(s, t)
<1>1. Active(t) = Active(s) /\ Written(t) = Written(s)
  BY DEF Active, Head1, Written
<1>2. (Waiting(s) => Waiting(t)) /\ (Timed(s) => Timed(t))
  BY DEF Waiting, Timed, Head1
<1>3. Written(s) \in Nat /\ Active(s) \in {0, 1}
  BY WrittenNat
<1> QED
  BY <1>1, <1>2, <1>3 DEF Even

\* _hayes_queue_push copies the first command to what is to be written.
LEMMA PushSends ==
  ASSUME NEW s \in Structure, s.queue # <<>>, s.mode # "DATA"
  PROVE  LET t == Push(s)
         IN /\ t.wr_buf = Append(s.wr_buf, s.queue[1].kind)
            /\ t.wr_ppp_source = s.wr_ppp_source
            /\ Head1(t) /\ t.timeout
            /\ Written(t) = Written(s) + 1
<1> DEFINE t == Push(s)
           u == SetHead(s, "ACTIVE")
<1>1. u = [s EXCEPT !.queue = u.queue]
  BY SetHeadKeeps DEF Status
<1>2. t = [u EXCEPT !.disabled = u.disabled /\ s.queue[1].kind # "automatic",
                    !.wr_buf = Append(u.wr_buf, s.queue[1].kind),
                    !.wr_source = s.channel \/ u.wr_source, !.timeout = TRUE]
  BY DEF Push
<1>3. t.queue # <<>> /\ t.queue[1].status = "ACTIVE" /\ t.timeout
  BY PushKeeps
<1> DEFINE q == u.queue
<1>4. u = [s EXCEPT !.queue = q]
  BY <1>1
<1> HIDE DEF t, u, q
<1>5. /\ u.wr_buf = s.wr_buf /\ u.wr_ppp_source = s.wr_ppp_source
      /\ t.wr_buf = Append(u.wr_buf, s.queue[1].kind)
      /\ t.wr_ppp_source = u.wr_ppp_source
  BY <1>2, <1>4 DEF Structure
<1>6. s.wr_buf \in Seq(Kind \union {"ppp"}) /\ s.queue[1].kind \in Kind
  <2>1. s.queue[1] \in Command /\ s.wr_buf \in Seq(Kind \union {"ppp"})
    BY TailElements DEF Structure
  <2> QED
    BY <2>1 DEF Command
<1>7. Written(t) = Written(s) + 1
  <2>1. Count(Append(s.wr_buf, s.queue[1].kind), Kind) = Count(s.wr_buf, Kind) + 1
    BY <1>6, CountAppend
  <2> QED
    BY <2>1, <1>5 DEF Written
<1> QED
  BY <1>3, <1>5, <1>7 DEF Head1, t

\* The accepted commands wait.
LEMMA AcceptedWait ==
  ASSUME NEW s \in Structure, NEW cs, Queueable(s, cs)
  PROVE  /\ cs \in Seq(Command) /\ Accepted(s, cs) \in Seq(Command)
         /\ \A i \in DOMAIN Accepted(s, cs) : Accepted(s, cs)[i].status = "QUEUED"
<1>1. cs \in Seq(Command) /\ \A i \in DOMAIN cs : cs[i].status = "QUEUED"
  BY DEF Queueable
<1>2. <<>> \in Seq(Command) /\ DOMAIN <<>> = {}
  BY EmptySeq
<1> QED
  BY <1>1, <1>2 DEF Accepted

LEMMA QueueAllEven ==
  ASSUME NEW s \in Structure, NEW cs, Queueable(s, cs)
  PROVE  Even(s, QueueAll(s, cs))
<1> DEFINE t == QueueAll(s, cs)
           a == Accepted(s, cs)
           c == s.queue \o a
           q == [s EXCEPT !.queue = c]
<1>1. a \in Seq(Command) /\ \A i \in DOMAIN a : a[i].status = "QUEUED"
  BY AcceptedWait
<1>2. s.queue \in Seq(Command)
  BY DEF Structure
<1>3. /\ t \in Structure /\ Beside(s, t) /\ t.mode = s.mode
      /\ q \in Structure /\ Beside(s, q) /\ q.mode = s.mode
      /\ q.queue = c /\ q.timeout = s.timeout /\ q.wr_buf = s.wr_buf
      /\ t = IF s.queue = <<>> THEN Push(q) ELSE q
  BY AcceptedWait, QueueAllKeeps
<1>4. q.wr_ppp_source = s.wr_ppp_source
  BY DEF Structure
<1>5. /\ c \in Seq(Command)
      /\ c = <<>> <=> s.queue = <<>> /\ a = <<>>
      /\ s.queue # <<>> => c[1] = s.queue[1]
      /\ \A i \in DOMAIN c : \/ i \in DOMAIN s.queue /\ c[i] = s.queue[i]
                             \/ \E j \in DOMAIN a : c[i] = a[j] /\ i = Len(s.queue) + j
  BY <1>1, <1>2, ConcatElements
<1>6. Written(s) \in Nat /\ Active(s) \in {0, 1}
  BY WrittenNat
<1> HIDE DEF t, a, c, q
<1>7. Waiting(s) => \A i \in DOMAIN c : i # 1 => c[i].status = "QUEUED"
  BY <1>1, <1>5 DEF Waiting
<1>8. /\ t.rd_buf = s.rd_buf /\ q.rd_buf = s.rd_buf
      /\ t.channel = s.channel /\ q.channel = s.channel
  BY <1>3 DEF Beside
<1>9. CASE s.queue # <<>>
  <2>1. t = q /\ t.queue # <<>> /\ t.queue[1].status = s.queue[1].status
    BY <1>3, <1>5, <1>9
  <2>2. Active(t) = Active(s) /\ Written(t) = Written(s) /\ (Timed(s) => Timed(t))
    BY <2>1, <1>3, <1>9 DEF Active, Head1, Written, Timed
  <2>3. Waiting(s) => Waiting(t)
    BY <2>1, <1>3, <1>7 DEF Waiting
  <2> QED
    BY <2>1, <2>2, <2>3, <1>3, <1>4, <1>6, <1>8 DEF Even, t
<1>10. CASE s.queue = <<>>
  <2>1. t = Push(q) /\ ~Head1(s) /\ Active(s) = 0
    BY <1>3, <1>10 DEF Head1, Active
  <2>2. /\ \A i \in DOMAIN q.queue : q.queue[i].status = "QUEUED"
    <3>1. c = a
      BY <1>1, <1>2, <1>10, ConcatElements DEF c
    <3> QED
      BY <3>1, <1>1, <1>3
  <2>3. q.queue # <<>> => q.queue[1].status = "QUEUED"
    <3>1. q.queue # <<>> => 1 \in DOMAIN q.queue
      BY <1>3, <1>5, TailElements
    <3> QED
      BY <3>1, <2>2
  <2>4. CASE q.queue = <<>> \/ q.mode = "DATA"
    <3>1. t = q
      BY <2>1, <2>4, <1>3, PushKeeps
    <3>2. ~Head1(t) /\ Active(t) = 0
      BY <3>1, <2>3 DEF Head1, Active
    <3>3. Waiting(t) /\ Written(t) = Written(s) /\ (Timed(s) => Timed(t))
      BY <3>1, <3>2, <2>1, <2>2, <1>3 DEF Waiting, Written, Timed
    <3> QED
      BY <3>1, <3>2, <3>3, <2>1, <1>3, <1>4, <1>6, <1>8, <1>10 DEF Even, t
  <2>5. CASE q.queue # <<>> /\ q.mode # "DATA"
    <3>1. /\ t.wr_ppp_source = q.wr_ppp_source /\ Head1(t) /\ t.timeout
          /\ Written(t) = Written(q) + 1
      BY <2>1, <2>5, <1>3, PushSends
    <3>2. DOMAIN t.queue = DOMAIN q.queue
          /\ \A i \in DOMAIN q.queue : i # 1 => t.queue[i] = q.queue[i]
      BY <2>1, <2>5, <1>3, PushKeeps
    <3>3. Waiting(t)
      BY <3>2, <2>2 DEF Waiting
    <3>4. Written(q) = Written(s) /\ Active(t) = 1 /\ Timed(t)
      BY <3>1, <1>3 DEF Written, Active, Timed
    <3> QED
      BY <3>1, <3>3, <3>4, <2>1, <2>5, <1>3, <1>4, <1>6, <1>8, <1>10 DEF Even, t
  <2> QED
    BY <2>4, <2>5
<1> QED
  BY <1>9, <1>10

LEMMA RequestAllEven ==
  ASSUME NEW s \in Structure, NEW ks \in Seq(Kind)
  PROVE  Even(s, RequestAll(s, ks))
<1> DEFINE cs == [i \in DOMAIN ks |-> NewCommand(ks[i], FALSE)]
<1>1. Queueable(s, cs)
  BY RequestsQueueable
<1>2. RequestAll(s, ks) = QueueAll(s, cs)
  BY DEF RequestAll
<1> HIDE DEF cs
<1> QED
  BY <1>1, <1>2, QueueAllEven

LEMMA RequestEven ==
  ASSUME NEW s \in Structure, NEW k \in Kind
  PROVE  Even(s, RequestAll(s, <<k>>))
BY OneKind, RequestAllEven

LEMMA EvenReflexive ==
  ASSUME NEW s \in Structure
  PROVE  Even(s, s)
BY EvenSame

LEMMA RegistrationEven ==
  ASSUME NEW s \in Structure
  PROVE  Even(s, RegistrationEvent(s))
<1>1. "automatic" \in Kind
  BY DEF Kind
<1> QED
  BY <1>1, RequestEven, EvenReflexive DEF RegistrationEvent

LEMMA FlagsEven ==
  ASSUME NEW s \in Structure, NEW b \in BOOLEAN
  PROVE  /\ Even(s, [s EXCEPT !.authenticated = b])
         /\ Even(s, [s EXCEPT !.disabled = b])
<1>1. LET t == [s EXCEPT !.authenticated = b]
      IN /\ t \in Structure /\ t.mode = s.mode /\ t.rd_buf = s.rd_buf
         /\ t.wr_ppp_source = s.wr_ppp_source /\ t.channel = s.channel
         /\ t.queue = s.queue /\ t.timeout = s.timeout /\ t.wr_buf = s.wr_buf
  BY DEF Structure
<1>2. LET t == [s EXCEPT !.disabled = b]
      IN /\ t \in Structure /\ t.mode = s.mode /\ t.rd_buf = s.rd_buf
         /\ t.wr_ppp_source = s.wr_ppp_source /\ t.channel = s.channel
         /\ t.queue = s.queue /\ t.timeout = s.timeout /\ t.wr_buf = s.wr_buf
  BY DEF Structure
<1> QED
  BY <1>1, <1>2, EvenSame

LEMMA CpasEven ==
  ASSUME NEW s \in Structure
  PROVE  Even(s, OnCpas(s))
<1> DEFINE t == OnCpas(s)
<1>1. /\ t \in Structure /\ t.mode = s.mode /\ t.rd_buf = s.rd_buf
      /\ t.wr_ppp_source = s.wr_ppp_source /\ t.channel = s.channel
      /\ t.queue = s.queue /\ t.timeout = s.timeout /\ t.wr_buf = s.wr_buf
  BY DEF Structure, OnCpas
<1> HIDE DEF t
<1> QED
  BY <1>1, EvenSame DEF t

LEMMA CregEven ==
  ASSUME NEW s \in Structure, NEW c
  PROVE  Even(s, OnCreg(s, c))
<1> DEFINE b == (c = "CREG 0")
           t == [s EXCEPT !.disabled = b]
           u == IF c = "CREG 1" THEN RequestAll(t, <<"cops">>) ELSE t
<1>1. OnCreg(s, c) = RegistrationEvent(u)
  BY DEF OnCreg
<1>2. b \in BOOLEAN /\ "cops" \in Kind
  BY DEF Kind
<1> HIDE DEF b
<1>3. Even(s, t) /\ t \in Structure
  BY <1>2, FlagsEven DEF Even
<1> HIDE DEF t
<1>4. Even(t, u) /\ u \in Structure
  BY <1>2, <1>3, RequestEven, EvenReflexive DEF Even
<1> HIDE DEF u
<1>5. Even(u, RegistrationEvent(u))
  BY <1>4, RegistrationEven
<1> QED
  BY <1>1, <1>3, <1>4, <1>5, EvenTransitive

LEMMA CopsEven ==
  ASSUME NEW s \in Structure, NEW c
  PROVE  Even(s, OnCops(s, c))
<1> DEFINE b == (c = "COPS 2")
           t == [s EXCEPT !.disabled = b]
           ks == (IF c = "COPS n" THEN <<"registration">> ELSE <<>>) \o Some("plain", 2)
           u == RequestAll(t, ks)
<1>1. OnCops(s, c) = RegistrationEvent(u)
  BY DEF OnCops
<1>2. b \in BOOLEAN
  OBVIOUS
<1>3. ks \in Seq(Kind)
  <2>1. "plain" \in Kind /\ "registration" \in Kind
    BY DEF Kind
  <2>2. Some("plain", 2) \in Seq(Kind)
    BY <2>1, SomeKinds
  <2>3. <<"registration">> \in Seq(Kind) /\ <<>> \in Seq(Kind)
    BY <2>1, OneKind, EmptySeq
  <2> QED
    BY <2>2, <2>3, ConcatElements
<1> HIDE DEF b, ks
<1>4. Even(s, t) /\ t \in Structure
  BY <1>2, FlagsEven DEF Even
<1> HIDE DEF t
<1>5. Even(t, u) /\ u \in Structure
  BY <1>3, <1>4, RequestAllEven DEF Even
<1> HIDE DEF u
<1>6. Even(u, RegistrationEvent(u))
  BY <1>5, RegistrationEven
<1> QED
  BY <1>1, <1>4, <1>5, <1>6, EvenTransitive

LEMMA MessageEven ==
  ASSUME NEW s \in Structure
  PROVE  Even(s, OnCmgl(s)) /\ Even(s, OnCmti(s))
<1>1. ASSUME NEW d \in BOOLEAN
      PROVE  Even(s, QueueAll(s, <<NewCommand("message", d)>>))
  <2> DEFINE c == NewCommand("message", d)
  <2>1. c \in Command /\ c.status = "QUEUED" /\ c.immediate = FALSE
    BY DEF NewCommand, Command, Kind, Status
  <2> HIDE DEF c
  <2>2. Queueable(s, <<c>>)
    BY <2>1, OneQueueable
  <2> QED
    BY <2>2, QueueAllEven DEF c
<1> QED
  BY <1>1 DEF OnCmgl, OnCmti

LEMMA OtherHandlersEven ==
  ASSUME NEW s \in Structure, NEW c
  PROVE  Even(s, OnCfun(s, c)) /\ Even(s, OnCpin(s, c)) /\ Even(s, OnCpbr(s))
<1>0. "pin" \in Kind /\ "enable" \in Kind /\ "plain" \in Kind
  BY DEF Kind
<1>1. Even(s, OnCfun(s, c))
  <2>1. OnCfun(s, c) = RequestAll(s, <<"pin">>) \/ OnCfun(s, c) = RequestAll(s, <<"enable">>)
    BY DEF OnCfun, OnOnline
  <2> QED
    BY <1>0, <2>1, RequestEven
<1>2. Even(s, OnCpin(s, c))
  <2> DEFINE b == (c = "CPIN READY")
  <2>1. OnCpin(s, c) = [s EXCEPT !.authenticated = b] /\ b \in BOOLEAN
    BY DEF OnCpin
  <2> HIDE DEF b
  <2> QED
    BY <2>1, FlagsEven
<1>3. Even(s, OnCpbr(s))
  BY <1>0, RequestEven DEF OnCpbr
<1> QED
  BY <1>1, <1>2, <1>3

-----------------------------------------------------------------------------
(* What the end of a command does to the count *)

\* The first command has been concluded, and nothing else was sent.
Ended(s, t) ==
  /\ t \in Structure
  /\ t.queue # <<>> /\ t.queue[1].status \in Final
  /\ t.wr_buf = s.wr_buf /\ t.timeout = s.timeout /\ t.rd_buf = s.rd_buf
  /\ t.channel = s.channel
  /\ t.wr_ppp_source => s.wr_ppp_source
  /\ Waiting(s) => Waiting(t)

LEMMA EndedEven ==
  ASSUME NEW s, NEW t, NEW u, Ended(s, t), Even(t, u)
  PROVE  Ended(s, u) /\ u.mode = t.mode
BY DEF Ended, Even

\* The first command with its status.
LEMMA ReportedEnds ==
  ASSUME NEW s \in Structure, NEW st \in Final, s.queue # <<>>
  PROVE  /\ Ended(s, ReportedOf(s, st)) /\ ReportedOf(s, st).mode = s.mode
         /\ ReportedOf(s, st).wr_ppp_source = s.wr_ppp_source
<1> DEFINE k == s.queue[1].kind
           u == SetHead(s, st)
           d == IF k \in {"list", "message"} THEN FALSE ELSE u.queue[1].data
           v == [u EXCEPT !.queue[1].data = d]
           a == v.authenticated /\ (k = "pin" => st = "SUCCESS")
           b == v.disabled /\ (k = "automatic" => st = "SUCCESS")
           t == [v EXCEPT !.authenticated = a, !.disabled = b]
<1>0. st \in Status
  BY DEF Final, Status
<1>1. ReportedOf(s, st) = t
  BY DEF ReportedOf
<1>2. Reported(s, t, st)
  BY <1>0, <1>1, ReportedHolds
<1>3. u = [s EXCEPT !.queue = u.queue]
  BY <1>0, SetHeadKeeps
<1> DEFINE q == u.queue
<1>4. u = [s EXCEPT !.queue = q]
  BY <1>3
<1> DEFINE r == [q EXCEPT ![1].data = d]
<1>5. v = [u EXCEPT !.queue = r]
  BY <1>4 DEF Structure
<1> HIDE DEF q, r, d, u, v, a, b, t
<1>6. /\ u.timeout = s.timeout /\ u.wr_ppp_source = s.wr_ppp_source
      /\ v.timeout = u.timeout /\ v.wr_ppp_source = u.wr_ppp_source
      /\ t.timeout = v.timeout /\ t.wr_ppp_source = v.wr_ppp_source
  BY <1>4, <1>5 DEF Structure, t
<1>7. Waiting(s) => Waiting(t)
  BY <1>2 DEF Reported, Waiting
<1> QED
  BY <1>1, <1>2, <1>6, <1>7 DEF Ended, Reported, Beside

LEMMA ConcludeEnds ==
  ASSUME NEW s \in Structure, NEW st \in Final, s.queue # <<>>, s.channel,
         ~ResetsUnder(s, st)
  PROVE  LET t == Conclude(s, st)
         IN Ended(s, t) /\ (t.mode = "DATA" <=> s.mode = "DATA")
<1> DEFINE k == s.queue[1].kind
           r == ReportedOf(s, st)
           m == ModedOf(s, st)
           ks == FollowUp(k, st, s.authenticated)
           a == AskedOf(s, st)
           t == Conclude(s, st)
<1>1. st \in Status
  BY DEF Final, Status
<1>2. /\ Ended(s, r) /\ r.mode = s.mode /\ r \in Structure
      /\ r.channel
  BY ReportedEnds DEF Ended
<1>3. ks \in Seq(Kind)
  BY <1>1, HeadKind
<1>4. /\ m = IF k = "reset" /\ st = "SUCCESS" THEN SetMode(r, "COMMAND") ELSE r
      /\ a = RequestAll(m, ks)
  BY DEF ModedOf, AskedOf
<1>5. ~(s.mode = "DATA" /\ k = "reset" /\ st = "SUCCESS")
  BY DEF ResetsUnder
<1>6. /\ k = "reset" /\ st # "SUCCESS" => t = QueueAll(a, <<ResetCommand>>)
      /\ ~(k = "reset" /\ st # "SUCCESS") => t = QueueAll(a, ListAll) \/ t = a
  BY ConcludeIs, Zenon
<1> HIDE DEF r, ks, m, a, k, t
<1>7. /\ m \in Structure /\ m.channel /\ Ended(s, m) /\ (m.mode = "DATA" <=> s.mode = "DATA")
  <2>1. CASE k = "reset" /\ st = "SUCCESS"
    <3>1. m = SetMode(r, "COMMAND") /\ r.mode # "DATA"
      BY <1>2, <1>4, <1>5, <2>1
    <3>2. m = [r EXCEPT !.mode = "COMMAND"]
      BY <3>1 DEF SetMode
    <3>3. /\ m \in Structure /\ m.mode = "COMMAND" /\ m.queue = r.queue
          /\ m.timeout = r.timeout /\ m.wr_buf = r.wr_buf /\ m.rd_buf = r.rd_buf
          /\ m.channel = r.channel /\ m.wr_ppp_source = r.wr_ppp_source
      BY <3>2, <1>2 DEF Structure
    <3> QED
      BY <3>1, <3>3, <1>2 DEF Ended, Waiting
  <2>2. CASE ~(k = "reset" /\ st = "SUCCESS")
    BY <2>2, <1>2, <1>4
  <2> QED
    BY <2>1, <2>2
<1>8. Even(m, a) /\ a \in Structure
  BY <1>3, <1>4, <1>7, RequestAllEven DEF Even
<1>9. a.channel
  BY <1>7, <1>8 DEF Even
<1>10. Even(a, t)
  <2>1. Queueable(a, <<ResetCommand>>)
    BY <1>9, ResetCommandIs, OneQueueable
  <2>2. Queueable(a, ListAll)
    BY ListQueueable
  <2>3. \/ t = QueueAll(a, <<ResetCommand>>)
        \/ t = QueueAll(a, ListAll)
        \/ t = a
    BY <1>6
  <2> QED
    BY <2>1, <2>2, <2>3, <1>8, QueueAllEven, EvenReflexive
<1>11. Ended(s, a) /\ a.mode = m.mode
  BY <1>7, <1>8, EndedEven
<1>12. Ended(s, t) /\ t.mode = a.mode
  BY <1>10, <1>11, EndedEven
<1> QED
  BY <1>7, <1>11, <1>12 DEF t

\* The command that leaves makes room for the next one, which is sent and is the
\* active one; during a data call none is.
LEMMA NextSent ==
  ASSUME NEW s \in Structure, s.queue # <<>>, Waiting(s)
  PROVE  LET t == Push(Pop(s))
         IN /\ t \in Structure /\ t.mode = s.mode /\ t.rd_buf = s.rd_buf
            /\ t.wr_ppp_source = s.wr_ppp_source /\ t.channel = s.channel
            /\ Waiting(t) /\ Timed(t)
            /\ Written(t) = Written(s) + Active(t)
            /\ t.mode = "DATA" => ~Head1(t)
<1> DEFINE p == Pop(s)
           t == Push(p)
<1>1. /\ p \in Structure /\ Beside(s, p) /\ p.mode = s.mode
      /\ p.queue = Tail(s.queue) /\ ~p.timeout /\ p.wr_buf = s.wr_buf
  BY PopKeeps
<1>2. p.wr_ppp_source = s.wr_ppp_source
  <2> DEFINE q == Tail(s.queue)
  <2>1. p = [s EXCEPT !.timeout = FALSE, !.queue = q]
    BY DEF Pop
  <2> HIDE DEF q, p
  <2> QED
    BY <2>1 DEF Structure
<1>3. \A i \in DOMAIN p.queue : p.queue[i].status = "QUEUED"
  <2>1. s.queue \in Seq(Command)
    BY DEF Structure
  <2>2. \A i \in DOMAIN Tail(s.queue) : /\ i + 1 \in DOMAIN s.queue /\ i + 1 # 1
                                        /\ Tail(s.queue)[i] = s.queue[i + 1]
    BY <2>1, TailElements
  <2> HIDE DEF p
  <2> QED
    BY <2>2, <1>1 DEF Waiting
<1>4. p.queue # <<>> => p.queue[1].status = "QUEUED"
  <2>1. p.queue \in Seq(Command)
    BY <1>1 DEF Structure
  <2>2. p.queue # <<>> => 1 \in DOMAIN p.queue
    BY <2>1, TailElements
  <2> QED
    BY <2>2, <1>3
<1> HIDE DEF p
<1>5. /\ t \in Structure /\ Beside(p, t) /\ t.mode = p.mode
      /\ p.queue = <<>> \/ p.mode = "DATA" => t = p
      /\ p.queue # <<>> /\ p.mode # "DATA" =>
           /\ DOMAIN t.queue = DOMAIN p.queue
           /\ \A i \in DOMAIN p.queue : i # 1 => t.queue[i] = p.queue[i]
  BY <1>1, PushKeeps
<1>6. p.queue # <<>> /\ p.mode # "DATA" =>
        /\ t.wr_ppp_source = p.wr_ppp_source /\ Head1(t) /\ t.timeout
        /\ Written(t) = Written(p) + 1
  BY <1>1, PushSends
<1> HIDE DEF t
<1>7. Written(p) = Written(s) /\ Written(s) \in Nat
  BY <1>1, WrittenNat DEF Written
<1> DEFINE Goal ==
      /\ t \in Structure /\ t.mode = s.mode /\ t.rd_buf = s.rd_buf
      /\ t.wr_ppp_source = s.wr_ppp_source /\ t.channel = s.channel
      /\ Waiting(t) /\ Timed(t)
      /\ Written(t) = Written(s) + Active(t)
      /\ t.mode = "DATA" => ~Head1(t)
<1>8. ASSUME p.queue = <<>> \/ p.mode = "DATA" PROVE Goal
  <2>1. t = p /\ ~Head1(t)
    BY <1>4, <1>5, <1>8 DEF Head1
  <2>2. Waiting(t) /\ Timed(t) /\ Active(t) = 0
    BY <2>1, <1>1, <1>3 DEF Waiting, Timed, Active
  <2> QED
    BY <2>1, <2>2, <1>1, <1>2, <1>7 DEF Beside
<1>9. ASSUME p.queue # <<>> /\ p.mode # "DATA" PROVE Goal
  <2>1. Waiting(t) /\ Timed(t) /\ Active(t) = 1
    BY <1>3, <1>5, <1>6, <1>9 DEF Waiting, Timed, Active
  <2> QED
    BY <2>1, <1>1, <1>2, <1>5, <1>6, <1>7, <1>9 DEF Beside
<1>10. Goal
  BY <1>8, <1>9
<1> QED
  BY <1>10 DEF t, p

-----------------------------------------------------------------------------
(* What the handlers do to the count *)

\* From an empty queue: nothing is concluded, and a command that is sent is active.
Begun(s, t) ==
  /\ t \in Structure /\ t.rd_buf = s.rd_buf /\ t.channel = s.channel
  /\ t.wr_ppp_source => s.wr_ppp_source
  /\ Waiting(t)
  /\ Timed(s) => Timed(t)
  /\ Written(t) = Written(s) + Active(t)

LEMMA EvenBegins ==
  ASSUME NEW s \in Structure, NEW t, Even(s, t), s.queue = <<>>, Waiting(s)
  PROVE  Begun(s, t)
<1>1. Active(s) = 0
  BY DEF Active, Head1
<1>2. t \in Structure
  BY DEF Even
<1>3. /\ Written(t) \in Nat /\ Written(s) \in Nat
      /\ Active(t) \in {0, 1}
  BY <1>2, WrittenNat
<1> QED
  BY <1>1, <1>2, <1>3 DEF Even, Begun

\* What a handler that concludes the first command, if there is one, leaves.
Concludes(s, t) ==
  /\ s.queue # <<>> => Ended(s, t)
  /\ s.queue = <<>> => Even(s, t)
  /\ t.mode = "DATA" <=> s.mode = "DATA"
  /\ t \in Structure /\ t.channel = s.channel

LEMMA ConcludesEven ==
  ASSUME NEW s \in Structure, NEW t, NEW u, Concludes(s, t), Even(t, u)
  PROVE  Concludes(s, u)
<1>1. t \in Structure /\ u \in Structure /\ u.mode = t.mode /\ u.channel = s.channel
  BY DEF Concludes, Even
<1>2. s.queue # <<>> => Ended(s, u)
  BY EndedEven DEF Concludes
<1>3. s.queue = <<>> => Even(s, u)
  BY <1>1, EvenTransitive DEF Concludes
<1> QED
  BY <1>1, <1>2, <1>3 DEF Concludes

LEMMA ConcludeHeadConcludes ==
  ASSUME NEW s \in Structure, NEW st \in Final, s.channel,
         s.queue # <<>> => ~ResetsUnder(s, st)
  PROVE  Concludes(s, ConcludeHead(s, st))
<1>1. CASE s.queue = <<>>
  <2>1. ConcludeHead(s, st) = s
    BY <1>1 DEF ConcludeHead
  <2> QED
    BY <2>1, <1>1, EvenReflexive DEF Concludes
<1>2. CASE s.queue # <<>>
  <2> DEFINE t == Conclude(s, st)
  <2>1. ConcludeHead(s, st) = t
    BY <1>2 DEF ConcludeHead
  <2>2. Ended(s, t) /\ (t.mode = "DATA" <=> s.mode = "DATA")
    BY <1>2, ConcludeEnds
  <2> HIDE DEF t
  <2> QED
    BY <2>1, <2>2, <1>2 DEF Concludes, Ended
<1> QED
  BY <1>1, <1>2

\* The requests that a handler makes after it.
LEMMA RequestConcludes ==
  ASSUME NEW s \in Structure, NEW t, Concludes(s, t), NEW k \in Kind
  PROVE  Concludes(s, RequestAll(t, <<k>>))
<1>1. t \in Structure
  BY DEF Concludes
<1>2. Even(t, RequestAll(t, <<k>>))
  BY <1>1, RequestEven
<1> QED
  BY <1>2, ConcludesEven

LEMMA CmeConcludes ==
  ASSUME NEW s \in Structure, s.channel, NEW c
  PROVE  Concludes(s, OnCmeError(s, c))
<1> DEFINE f == ConcludeHead(s, "ERROR")
<1>1. Concludes(s, f)
  BY ConcludeHeadConcludes DEF Final, ResetsUnder
<1>2. "pin" \in Kind
  BY DEF Kind
<1>3. f \in Structure
  BY <1>1 DEF Concludes
<1>4. CASE c = "CME PIN"
  <2> DEFINE g == [f EXCEPT !.authenticated = FALSE]
  <2>1. OnCmeError(s, c) = RequestAll(g, <<"pin">>)
    BY <1>4 DEF OnCmeError
  <2> HIDE DEF f
  <2>2. Even(f, g)
    BY <1>3, FlagsEven
  <2> HIDE DEF g
  <2>3. Concludes(s, g)
    BY <1>1, <2>2, ConcludesEven
  <2> QED
    BY <1>2, <2>1, <2>3, RequestConcludes
<1>5. CASE c = "CME SOS"
  <2> DEFINE g == RegistrationEvent(f)
  <2>1. OnCmeError(s, c) = RequestAll(g, <<"pin">>)
    BY <1>5 DEF OnCmeError
  <2> HIDE DEF f
  <2>2. Even(f, g)
    BY <1>3, RegistrationEven
  <2> HIDE DEF g
  <2>3. Concludes(s, g)
    BY <1>1, <2>2, ConcludesEven
  <2> QED
    BY <1>2, <2>1, <2>3, RequestConcludes
<1>6. CASE c \notin {"CME PIN", "CME SOS"}
  <2>1. OnCmeError(s, c) = f
    BY <1>6 DEF OnCmeError
  <2> QED
    BY <1>1, <2>1
<1> QED
  BY <1>4, <1>5, <1>6

LEMMA CallErrorConcludes ==
  ASSUME NEW s \in Structure, s.channel
  PROVE  Concludes(s, OnCallError(s))
<1> DEFINE f == ConcludeHead(s, "ERROR")
<1>1. Concludes(s, f)
  BY ConcludeHeadConcludes DEF Final, ResetsUnder
<1>2. OnCallError(s) = RequestAll(f, <<"active">>)
  BY DEF OnCallError
<1>3. "active" \in Kind
  BY DEF Kind
<1> HIDE DEF f
<1> QED
  BY <1>1, <1>2, <1>3, RequestConcludes

\* What is kept while the SIM is busy is no command of the queue.
LEMMA SimBusyConcludes ==
  ASSUME NEW s \in Structure, Shape(s), Rest(s), s.channel
  PROVE  Concludes(s, OnSimBusy(s))
<1>1. CASE s.queue = <<>>
  <2>1. OnSimBusy(s) = s
    BY <1>1 DEF OnSimBusy
  <2> QED
    BY <2>1, <1>1, EvenReflexive DEF Concludes
<1>2. CASE s.queue # <<>>
  <2> DEFINE f == Conclude(s, "ERROR")
             q == [f.queue EXCEPT ![1].data = FALSE]
             w == Append(f.queue_timeout, NewCommand(f.queue[1].kind, f.queue[1].data))
             e == [f EXCEPT !.queue_timeout = w, !.queue[1].data = FALSE]
             k == [f EXCEPT !.queue_timeout = w, !.queue = q]
             g == [f EXCEPT !.queue[1].data = FALSE]
             t == OnSimBusy(s)
  <2>1. ~ResetsUnder(s, "ERROR") /\ "ERROR" \in Final
    BY DEF ResetsUnder, Final
  <2>2. Ended(s, f) /\ (f.mode = "DATA" <=> s.mode = "DATA")
    BY <1>2, <2>1, ConcludeEnds
  <2>3. f \in Structure /\ f.queue # <<>>
    BY <2>2 DEF Ended
  <2>4. t = IF e.source = "none" THEN AddSource(e, "repeat") ELSE e
    <3> DEFINE x == [f EXCEPT !.queue_timeout = Append(@, NewCommand(f.queue[1].kind, f.queue[1].data)),
                              !.queue[1].data = FALSE]
    <3>1. t = IF x.source = "none" THEN AddSource(x, "repeat") ELSE x
      BY <1>2 DEF OnSimBusy
    <3> QED
      BY <3>1
  <2> HIDE DEF f, t, w
  <2>5. e = k
    BY <2>3 DEF Structure
  <2>6. t = IF k.source = "none" THEN AddSource(k, "repeat") ELSE k
    BY <2>4, <2>5
  <2>7. Reported(f, g, f.queue[1].status)
    BY <2>3, DataSet
  <2>8. g.queue = q
    BY <2>3 DEF Structure
  <2> HIDE DEF e, g, q
  <2>9. /\ k.mode = f.mode /\ k.queue = q /\ k.timeout = f.timeout
        /\ k.channel = f.channel /\ k.rd_buf = f.rd_buf /\ k.wr_buf = f.wr_buf
        /\ k.wr_ppp_source = f.wr_ppp_source
    BY <2>3 DEF Structure
  <2>10. k = [f EXCEPT !.queue_timeout = k.queue_timeout, !.queue = q]
    BY <2>3 DEF Structure
  <2>11. LET a == AddSource(k, "repeat")
         IN /\ a.mode = f.mode /\ a.queue = q /\ a.timeout = f.timeout
            /\ a.channel = f.channel /\ a.rd_buf = f.rd_buf /\ a.wr_buf = f.wr_buf
            /\ a.wr_ppp_source = f.wr_ppp_source
    BY <2>3 DEF Structure, AddSource
  <2>12. t = k \/ t = AddSource(k, "repeat")
    BY <2>6
  <2> HIDE DEF k
  <2>13. /\ t.mode = f.mode /\ t.queue = q /\ t.timeout = f.timeout
         /\ t.channel = f.channel /\ t.rd_buf = f.rd_buf /\ t.wr_buf = f.wr_buf
         /\ t.wr_ppp_source = f.wr_ppp_source
    BY <2>9, <2>11, <2>12
  <2>14. /\ q # <<>> /\ q[1].status = f.queue[1].status
         /\ DOMAIN q = DOMAIN f.queue
         /\ \A i \in DOMAIN f.queue : i # 1 => q[i] = f.queue[i]
    BY <2>7, <2>8 DEF Reported
  <2>15. t \in Structure
    BY SimBusyHandled DEF Handled, t
  <2>16. Waiting(f) => Waiting(t)
    BY <2>13, <2>14 DEF Waiting
  <2>17. Ended(s, t)
    BY <2>2, <2>13, <2>14, <2>15, <2>16 DEF Ended
  <2> QED
    BY <1>2, <2>2, <2>13, <2>17 DEF Concludes, Ended, t
<1> QED
  BY <1>1, <1>2

\* The command that dialled has ended, and nothing is sent from then on.
LEMMA ConnectEnds ==
  ASSUME NEW s \in Structure, s.channel, Waiting(s)
  PROVE  LET t == OnConnect(s)
         IN \/ t.rd_buf = <<>>
            \/ /\ t.mode = "DATA"
               /\ s.queue # <<>> => Ended(s, t)
               /\ s.queue = <<>> => Begun(s, t)
<1> DEFINE f == ConcludeHead(s, "SUCCESS")
           u == IF f.mode = "DATA" THEN f ELSE RegistrationEvent(f)
           d == SetMode(f, "DATA")
           t == OnConnect(s)
<1>1. t = [d EXCEPT !.ppp = TRUE, !.rd_ppp_source = TRUE, !.wr_ppp_source = FALSE,
                    !.connected = TRUE]
  BY DEF OnConnect
<1>2. d = [u EXCEPT !.mode = "DATA"]
  <2> DEFINE c == CASE f.mode # "DATA" /\ f.mode = "DATA" -> Reset(f)
                    [] f.mode # "DATA" /\ "DATA" = "DATA" -> RegistrationEvent(f)
                    [] OTHER -> f
  <2> HIDE DEF f
  <2>1. d = [c EXCEPT !.mode = "DATA"]
    BY DEF SetMode
  <2>2. c = u
    <3>1. CASE f.mode = "DATA"
      BY <3>1
    <3>2. CASE f.mode # "DATA"
      BY <3>2
    <3> QED
      BY <3>1, <3>2
  <2> HIDE DEF c, d, u
  <2> QED
    BY <2>1, <2>2
<1>3. f \in Structure
  <2>1. "SUCCESS" \in Final
    BY DEF Final
  <2>2. s.queue # <<>> => Conclude(s, "SUCCESS") \in Structure
    BY <2>1, ConcludeTyped
  <2> QED
    BY <2>2 DEF ConcludeHead
<1> HIDE DEF f
<1>4. Even(f, u) /\ u \in Structure
  BY <1>3, RegistrationEven, EvenReflexive DEF Even
<1> HIDE DEF d, u
<1>5. /\ d \in Structure /\ d.mode = "DATA" /\ d.queue = u.queue
      /\ d.timeout = u.timeout /\ d.channel = u.channel
      /\ d.rd_buf = u.rd_buf /\ d.wr_buf = u.wr_buf
  BY <1>2, <1>4 DEF Structure
<1>6. /\ t \in Structure /\ t.mode = "DATA" /\ t.queue = u.queue
      /\ t.timeout = u.timeout /\ t.channel = u.channel
      /\ t.rd_buf = u.rd_buf /\ t.wr_buf = u.wr_buf /\ t.wr_ppp_source = FALSE
  <2> HIDE DEF t
  <2> QED
    BY <1>1, <1>5 DEF Structure
<1> HIDE DEF t
<1>7. ASSUME s.queue # <<>>, ResetsUnder(s, "SUCCESS")
      PROVE  t.rd_buf = <<>>
  <2>1. "SUCCESS" \in Final
    BY DEF Final
  <2>2. Conclude(s, "SUCCESS").rd_buf = <<>>
    BY <1>7, <2>1, ConcludeTyped
  <2>3. f.rd_buf = <<>>
    BY <2>2, <1>7 DEF f, ConcludeHead
  <2> QED
    BY <2>3, <1>4, <1>6 DEF Even
<1>8. ASSUME s.queue # <<>>, ~ResetsUnder(s, "SUCCESS")
      PROVE  Ended(s, t)
  <2>1. "SUCCESS" \in Final
    BY DEF Final
  <2>2. Ended(s, f)
    BY <1>8, <2>1, ConcludeEnds DEF f, ConcludeHead
  <2>3. Ended(s, u)
    BY <2>2, <1>4, EndedEven
  <2> QED
    BY <2>3, <1>6 DEF Ended, Waiting
<1>9. ASSUME s.queue = <<>>
      PROVE  Begun(s, t)
  <2>1. f = s
    BY <1>9 DEF f, ConcludeHead
  <2>2. Begun(s, u)
    BY <2>1, <1>4, <1>9, EvenBegins
  <2> QED
    BY <2>2, <1>6 DEF Begun, Waiting, Timed, Head1, Active, Written
<1> QED
  BY <1>6, <1>7, <1>8, <1>9 DEF t

-----------------------------------------------------------------------------
(* A line *)

\* The lines that conclude the active command, by their handlers, and by
\* _on_request_generic.
Ending == {"NO CARRIER", "CME", "CME PIN", "CME SOS", "SIM BUSY", "CONNECT"}
Generic == {"OK", "ERROR"}

LEMMA TriggerEven ==
  ASSUME NEW s \in Structure, NEW c, c \notin Ending
  PROVE  Even(s, Trigger(s, c))
<1> DEFINE t == Trigger(s, c)
<1>1. t \in {OnCfun(s, c), OnCpin(s, c), OnCreg(s, c), OnCops(s, c), OnCpas(s),
             OnCpbr(s), OnCmgl(s), OnCmti(s), s}
  BY DEF Trigger, Ending
<1> HIDE DEF t
<1>2. /\ Even(s, OnCfun(s, c)) /\ Even(s, OnCpin(s, c)) /\ Even(s, OnCpbr(s))
      /\ Even(s, OnCreg(s, c)) /\ Even(s, OnCops(s, c)) /\ Even(s, OnCpas(s))
      /\ Even(s, OnCmgl(s)) /\ Even(s, OnCmti(s)) /\ Even(s, s)
  BY OtherHandlersEven, CregEven, CopsEven, CpasEven, MessageEven, EvenReflexive
<1> QED
  BY <1>1, <1>2 DEF t

LEMMA TriggerConcludes ==
  ASSUME NEW s \in Structure, Shape(s), Rest(s), s.channel,
         NEW c \in Ending \ {"CONNECT"}
  PROVE  Concludes(s, Trigger(s, c))
<1>1. Trigger(s, c) \in {OnCallError(s), OnCmeError(s, c), OnSimBusy(s)}
  BY DEF Trigger, Ending
<1>2. /\ Concludes(s, OnCallError(s)) /\ Concludes(s, OnCmeError(s, c))
      /\ Concludes(s, OnSimBusy(s))
  BY CallErrorConcludes, CmeConcludes, SimBusyConcludes
<1> QED
  BY <1>1, <1>2

\* What _parse_do leaves, besides being at rest: a line that concludes a command
\* takes it out of the count, whatever the next one adds.
Parsed(s, t, c) ==
  /\ Waiting(t) /\ Timed(t)
  /\ Written(t) + Active(s) = Written(s) + Active(t)
       + IF Head1(s) /\ c \in Ending \union Generic THEN 1 ELSE 0
  /\ t.wr_ppp_source => s.wr_ppp_source
  /\ c = "CONNECT" => t.mode = "DATA"
  /\ s.mode = "DATA" => t.mode = "DATA"
  /\ t.mode = "DATA" => \/ ~Head1(t)
                        \/ s.mode = "DATA" /\ Head1(s)
                        \/ c = "CONNECT" /\ ~Head1(s)

\* The command that was active leaves, and the next one is sent.
LEMMA EndedParsed ==
  ASSUME NEW s \in Structure, NEW t, NEW c \in Ending \union Generic,
         Head1(s), Waiting(s), Ended(s, t),
         c = "CONNECT" => t.mode = "DATA", s.mode = "DATA" => t.mode = "DATA"
  PROVE  Parsed(s, Push(Pop(t)), c)
<1> DEFINE w == Push(Pop(t))
<1>1. t \in Structure /\ t.queue # <<>> /\ Waiting(t)
  BY DEF Ended
<1>2. /\ w \in Structure /\ w.mode = t.mode /\ w.wr_ppp_source = t.wr_ppp_source
      /\ Waiting(w) /\ Timed(w)
      /\ Written(w) = Written(t) + Active(w)
      /\ w.mode = "DATA" => ~Head1(w)
  BY <1>1, NextSent
<1> HIDE DEF w
<1>3. Written(t) = Written(s) /\ Active(s) = 1
  BY DEF Ended, Written, Active
<1>4. Written(s) \in Nat /\ Active(w) \in {0, 1}
  BY <1>2, WrittenNat
<1>5. Written(w) + Active(s) = Written(s) + Active(w) + 1
  BY <1>2, <1>3, <1>4
<1>6. w.wr_ppp_source => s.wr_ppp_source
  BY <1>2 DEF Ended
<1> QED
  BY <1>2, <1>5, <1>6 DEF Parsed, w

LEMMA EvenParsed ==
  ASSUME NEW s \in Structure, NEW t, NEW c, Even(s, t), Waiting(s), Timed(s),
         ~(Head1(s) /\ c \in Ending \union Generic), c # "CONNECT"
  PROVE  Parsed(s, t, c)
<1>1. t \in Structure
  BY DEF Even
<1>2. /\ Written(s) \in Nat /\ Written(t) \in Nat
      /\ Active(s) \in {0, 1} /\ Active(t) \in {0, 1}
  BY <1>1, WrittenNat
<1>3. Written(t) + Active(s) = Written(s) + Active(t) + 0
  BY <1>2 DEF Even
<1>4. t.mode = "DATA" => ~Head1(t) \/ (s.mode = "DATA" /\ Head1(s))
  <2>1. Active(t) = 1 => Head1(t)
    BY DEF Active
  <2>2. Active(s) = 1 <=> Head1(s)
    BY DEF Active
  <2> QED
    BY <2>1, <2>2 DEF Even, Active
<1> QED
  BY <1>3, <1>4 DEF Parsed, Even

LEMMA ParseDoSteps ==
  ASSUME NEW s \in Structure, Shape(s), Rest(s), s.channel, Waiting(s), Timed(s),
         NEW c, ParseDo(s, c).rd_buf # <<>>
  PROVE  Parsed(s, ParseDo(s, c), c)
<1> DEFINE t == Trigger(s, c)
           b == StatusOf(c)
           u == IF t.queue[1].status = "ACTIVE" /\ b # "ACTIVE"
                THEN Conclude(t, b) ELSE t
           v == Push(Pop(u))
           w == ParseDo(s, c)
<1>1. ~Head1(s) => w = t
  BY DEF ParseDo
<1>2. Head1(s) => w = IF u.queue[1].status \in Final THEN v ELSE u
  BY DEF ParseDo
<1>3. /\ b = "ACTIVE" <=> c \notin Generic
      /\ b # "ACTIVE" => b \in Final
  BY DEF StatusOf, Generic, Final
<1>4. "ACTIVE" \notin Final /\ "CONNECT" \in Ending
  BY DEF Final, Ending
<1>5. c \notin Ending => Even(s, t)
  BY TriggerEven
<1>6. c \in Ending \ {"CONNECT"} => Concludes(s, t)
  BY TriggerConcludes
<1>7. c = "CONNECT" => \/ t.rd_buf = <<>>
                       \/ /\ t.mode = "DATA"
                          /\ s.queue # <<>> => Ended(s, t)
                          /\ s.queue = <<>> => Begun(s, t)
  <2>1. c = "CONNECT" => t = OnConnect(s)
    BY DEF Trigger
  <2> HIDE DEF t
  <2>2. OnConnect(s).rd_buf = <<>> \/
          (/\ OnConnect(s).mode = "DATA"
           /\ s.queue # <<>> => Ended(s, OnConnect(s))
           /\ s.queue = <<>> => Begun(s, OnConnect(s)))
    BY ConnectEnds
  <2> QED
    BY <2>1, <2>2, Zenon
<1>8. t \in Structure /\ (s.queue # <<>> => t.queue # <<>>)
  BY TriggerHandled DEF Handled
<1>9. w.rd_buf # <<>>
  OBVIOUS
<1> DEFINE Goal == Parsed(s, w, c)
<1> HIDE DEF t, b, v, w
<1>10. ASSUME ~Head1(s) PROVE Goal
  <2>1. w = t /\ ~s.timeout /\ Active(s) = 0
    BY <1>1, <1>10 DEF Timed, Active
  <2>2. CASE c \notin Ending
    BY <2>1, <2>2, <1>4, <1>5, <1>10, EvenParsed
  <2>3. CASE c \in Ending /\ s.queue # <<>>
    <3>1. Ended(s, t)
      BY <2>1, <2>3, <1>6, <1>7, <1>9 DEF Concludes
    <3>2. ~Head1(t)
      BY <3>1, <1>4 DEF Ended, Head1
    <3>3. s.mode = "DATA"
      BY <2>3, <1>10 DEF Rest, Head1
    <3>4. t.mode = "DATA"
      BY <3>3, <2>1, <2>3, <1>6, <1>7, <1>9 DEF Concludes
    <3>5. Written(t) = Written(s) /\ Active(t) = 0 /\ Written(s) \in Nat
      BY <3>1, <3>2, WrittenNat DEF Ended, Written, Active
    <3>6. Written(t) + Active(s) = Written(s) + Active(t) + 0
      BY <3>5, <2>1
    <3>7. Waiting(t) /\ Timed(t) /\ (t.wr_ppp_source => s.wr_ppp_source)
      BY <3>1, <3>2, <2>1 DEF Ended, Timed
    <3> QED
      BY <3>2, <3>3, <3>4, <3>6, <3>7, <2>1, <1>10 DEF Parsed
  <2>4. CASE c \in Ending \ {"CONNECT"} /\ s.queue = <<>>
    <3>1. Even(s, t)
      BY <2>4, <1>6 DEF Concludes
    <3> QED
      BY <3>1, <2>1, <2>4, <1>10, EvenParsed
  <2>5. CASE c = "CONNECT" /\ s.queue = <<>>
    <3>1. Begun(s, t) /\ t.mode = "DATA"
      BY <2>1, <2>5, <1>7, <1>9
    <3>2. Written(s) \in Nat /\ Written(t) \in Nat /\ Active(t) \in {0, 1}
      BY <1>8, WrittenNat
    <3>3. Written(t) + Active(s) = Written(s) + Active(t) + 0
      BY <3>1, <3>2, <2>1 DEF Begun
    <3> QED
      BY <3>1, <3>3, <2>1, <2>5, <1>10 DEF Begun, Parsed
  <2> QED
    BY <2>2, <2>3, <2>4, <2>5
<1>11. ASSUME Head1(s), c \in Ending PROVE Goal
  <2>1. s.queue # <<>>
    BY <1>11 DEF Head1
  <2>2. ASSUME t.rd_buf # <<>> PROVE Ended(s, t) /\ (c = "CONNECT" => t.mode = "DATA")
                                     /\ (s.mode = "DATA" => t.mode = "DATA")
    BY <2>1, <2>2, <1>6, <1>7, <1>11 DEF Concludes
  <2>3. t.rd_buf # <<>>
    <3>1. SUFFICES ASSUME t.rd_buf = <<>> PROVE FALSE
      OBVIOUS
    <3>2. u \in Structure /\ u.queue # <<>> /\ u.rd_buf = <<>>
      <4>1. b # "ACTIVE" => LET x == Conclude(t, b)
                            IN /\ x \in Structure /\ x.queue # <<>>
                               /\ x.rd_buf = t.rd_buf \/ x.rd_buf = <<>>
        BY <1>3, <1>8, <2>1, ConcludeTyped
      <4> QED
        BY <4>1, <3>1, <1>8, <2>1
    <3> HIDE DEF u
    <3>3. Beside(u, v)
      BY <3>2, NextCommand DEF v
    <3> QED
      BY <3>2, <3>3, <1>2, <1>9, <1>11 DEF Beside
  <2>4. u = t /\ w = Push(Pop(t))
    <3>1. t.queue[1].status \in Final
      BY <2>2, <2>3 DEF Ended
    <3>2. u = t
      BY <3>1, <1>4
    <3> HIDE DEF u
    <3> QED
      BY <3>1, <3>2, <1>2, <1>11 DEF v
  <2> QED
    BY <2>2, <2>3, <2>4, <1>11, EndedParsed
<1>12. ASSUME Head1(s), c \notin Ending, c \notin Generic PROVE Goal
  <2>1. t.queue[1].status = "ACTIVE"
    BY <1>5, <1>12 DEF Even, Head1
  <2>2. w = t
    BY <2>1, <1>2, <1>3, <1>4, <1>12
  <2> QED
    BY <2>2, <1>4, <1>5, <1>12, EvenParsed
<1>13. ASSUME Head1(s), c \notin Ending, c \in Generic PROVE Goal
  <2>1. /\ Even(s, t) /\ t.queue # <<>> /\ t.queue[1].status = "ACTIVE"
        /\ t.channel /\ Waiting(t) /\ t.mode = s.mode /\ t.rd_buf = s.rd_buf
    BY <1>5, <1>13 DEF Even, Head1
  <2>2. b \in Final /\ u = Conclude(t, b)
    BY <2>1, <1>3, <1>13
  <2>3. u \in Structure /\ u.queue # <<>>
    BY <2>1, <2>2, <1>8, ConcludeTyped
  <2>4. ASSUME ResetsUnder(t, b) PROVE u.rd_buf = <<>>
    BY <2>1, <2>2, <2>4, <1>8, ConcludeTyped
  <2> HIDE DEF u
  <2>5. ~ResetsUnder(t, b)
    <3>1. Beside(u, v)
      BY <2>3, NextCommand DEF v
    <3> QED
      BY <3>1, <2>4, <1>2, <1>9, <1>13 DEF Beside
  <2>6. Ended(t, u) /\ (u.mode = "DATA" <=> s.mode = "DATA")
    BY <2>1, <2>2, <2>5, <1>8, ConcludeEnds
  <2>7. Head1(t) /\ Active(t) = 1 /\ Active(s) = 1
    BY <2>1, <1>13 DEF Head1, Active
  <2>8. w = Push(Pop(u))
    BY <2>6, <1>2, <1>13 DEF Ended, v
  <2>9. Parsed(t, w, c)
    BY <2>1, <2>6, <2>7, <2>8, <1>4, <1>8, <1>13, EndedParsed
  <2>10. Written(s) = Written(t)
    <3>1. Written(s) \in Nat /\ Written(t) \in Nat
      BY <1>8, WrittenNat
    <3>2. Written(t) + Active(s) = Written(s) + Active(t)
      BY <2>1 DEF Even
    <3> QED
      BY <3>1, <3>2, <2>7
  <2>11. t.wr_ppp_source = s.wr_ppp_source
    BY <2>1 DEF Even
  <2> QED
    BY <2>1, <2>7, <2>9, <2>10, <2>11, <1>13 DEF Parsed
<1>14. Goal
  BY <1>10, <1>11, <1>12, <1>13
<1> QED
  BY <1>14 DEF w

-----------------------------------------------------------------------------
(* Commands and lines under way *)

\* The lines that end an answer; the ones that only do that, and NO CARRIER,
\* which the modem also sends by itself.
Finals == {l \in Line : l.final}
Proper ==
  {l \in Line : /\ l.code \in (Ending \ {"NO CARRIER"}) \union Generic => l.final
                /\ l.final => l.code \in Ending \union Generic}

Connects == {l \in Line : l.code = "CONNECT"}

\* The commands the modem has not concluded yet, counted from the structure s,
\* what the modem has and what it has sent.
Under(s, m, f) == Written(s) + Len(m) + Count(f, Finals) + Count(s.rd_buf, Finals)

\* What holds whether or not a command was given up: the modem is in a data call
\* only if the plug-in is, or is about to learn it.
Stepping(s, f, o) ==
  /\ Waiting(s) /\ Timed(s)
  /\ s.wr_ppp_source => s.mode = "DATA"
  /\ f \in Seq(Proper) /\ s.rd_buf \in Seq(Proper)
  /\ o => /\ s.channel
          /\ \/ s.mode = "DATA"
             \/ Count(f, Connects) # 0
             \/ Count(s.rd_buf, Connects) # 0

\* What holds until then: what is under way is the active command, and a data
\* call leaves nothing under way.
Aligned(s, m, f) ==
  /\ Under(s, m, f) = Active(s)
  /\ s.mode = "DATA" => ~Head1(s)

StepInv ==
  /\ HInv
  /\ Stepping(h, fromModem, online)
  /\ strayed \/ Aligned(h, toModem, fromModem)

\* The model counts the same things.
LEMMA OutstandingCounts ==
  ASSUME NEW s \in Structure, NEW f \in Seq(Line)
  PROVE  /\ Cardinality({i \in DOMAIN s.wr_buf : s.wr_buf[i] # "ppp"}) = Written(s)
         /\ Cardinality({i \in DOMAIN f : f[i].final}) = Count(f, Finals)
         /\ Cardinality({i \in DOMAIN s.rd_buf : s.rd_buf[i].final}) = Count(s.rd_buf, Finals)
<1>1. s.wr_buf \in Seq(Kind \union {"ppp"}) /\ s.rd_buf \in Seq(Line)
  BY DEF Structure
<1>2. "ppp" \notin Kind
  BY DEF Kind
<1>3. \A i \in DOMAIN s.wr_buf : s.wr_buf[i] # "ppp" <=> s.wr_buf[i] \in Kind
  <2>1. \A i \in DOMAIN s.wr_buf : s.wr_buf[i] \in Kind \union {"ppp"}
    BY <1>1, ElementOfSeq, LenProperties
  <2> QED
    BY <2>1, <1>2
<1>4. ASSUME NEW b \in Seq(Line)
      PROVE  Cardinality({i \in DOMAIN b : b[i].final}) = Count(b, Finals)
  <2>1. \A i \in DOMAIN b : b[i] \in Line
    BY ElementOfSeq, LenProperties
  <2>2. {i \in DOMAIN b : b[i].final} = {i \in DOMAIN b : b[i] \in Finals}
    BY <2>1 DEF Finals
  <2> QED
    BY <2>2, Zenon DEF Count
<1>5. {i \in DOMAIN s.wr_buf : s.wr_buf[i] # "ppp"} = {i \in DOMAIN s.wr_buf : s.wr_buf[i] \in Kind}
  BY <1>3
<1>6. Cardinality({i \in DOMAIN s.wr_buf : s.wr_buf[i] # "ppp"}) = Written(s)
  BY <1>5, Zenon DEF Count, Written
<1> QED
  BY <1>1, <1>4, <1>6

LEMMA OutstandingIs ==
  HInv => /\ Outstanding = Under(h, toModem, fromModem)
          /\ InStep <=> Under(h, toModem, fromModem) = Active(h)
          /\ Idle <=> Under(h, toModem, fromModem) = 0 /\ ~Head1(h)
<1>1. SUFFICES ASSUME HInv
      PROVE  /\ Outstanding = Under(h, toModem, fromModem)
             /\ InStep <=> Under(h, toModem, fromModem) = Active(h)
             /\ Idle <=> Under(h, toModem, fromModem) = 0 /\ ~Head1(h)
  OBVIOUS
<1>2. h \in Structure /\ fromModem \in Seq(Line)
  BY <1>1 DEF HInv, AtRest, Outside
<1>3. Outstanding = Under(h, toModem, fromModem)
  BY <1>2, OutstandingCounts, Zenon DEF Outstanding, Under
<1>4. InStep <=> Under(h, toModem, fromModem) = Active(h)
  BY <1>3 DEF InStep, Active
<1>5. Idle <=> Under(h, toModem, fromModem) = 0 /\ ~Head1(h)
  BY <1>3 DEF Idle
<1> QED
  BY <1>3, <1>4, <1>5, Zenon

\* The parts of the count are numbers, and a part that is not zero is all of it.
LEMMA UnderParts ==
  ASSUME NEW s \in Structure, NEW m \in Seq(Kind), NEW f \in Seq(Line)
  PROVE  /\ Written(s) \in Nat /\ Len(m) \in Nat
         /\ Count(f, Finals) \in Nat /\ Count(s.rd_buf, Finals) \in Nat
         /\ Active(s) \in {0, 1}
<1>1. s.rd_buf \in Seq(Line)
  BY DEF Structure
<1> QED
  BY <1>1, WrittenNat, CountBounds, LenProperties

LEMMA ProperLines ==
  ASSUME NEW b \in Seq(Proper)
  PROVE  b \in Seq(Line)
<1>1. Len(b) \in Nat /\ DOMAIN b = 1 .. Len(b) /\ b \in [1 .. Len(b) -> Proper]
  BY LenProperties
<1>2. Proper \subseteq Line
  BY DEF Proper
<1>3. b \in [1 .. Len(b) -> Line]
  BY <1>1, <1>2
<1> QED
  BY <1>1, <1>3, SeqDef

\* A CONNECT ends an answer.
LEMMA ConnectsFinal ==
  ASSUME NEW b \in Seq(Proper), Count(b, Connects) # 0
  PROVE  Count(b, Finals) # 0
<1>1. PICK i \in DOMAIN b : b[i] \in Connects
  BY CountBounds
<1>2. b[i] \in Proper
  BY <1>1, ElementOfSeq, LenProperties
<1>3. b[i] \in Finals
  BY <1>1, <1>2 DEF Connects, Proper, Finals, Ending
<1> QED
  BY <1>1, <1>3, CountBounds

\* What Track makes of a step.
LEMMA AlignedTracks ==
  ASSUME HInv', NEW g, Track(g),
         strayed \/ Aligned(h, toModem, fromModem),
         Aligned(h, toModem, fromModem) /\ ~g => Aligned(h', toModem', fromModem'),
         Aligned(h, toModem, fromModem) /\ h'.mode = "DATA" => ~Head1(h')
  PROVE  strayed' \/ Aligned(h', toModem', fromModem')
<1>1. strayed' = ((g /\ ~InStep') \/ (strayed /\ ~Idle'))
  BY DEF Track
<1>2. /\ InStep' <=> Under(h', toModem', fromModem') = Active(h')
      /\ Idle' <=> Under(h', toModem', fromModem') = 0 /\ ~Head1(h')
  <2>1. h' \in Structure /\ fromModem' \in Seq(Line)
    BY DEF HInv, AtRest, Outside
  <2>2. Outstanding' = Under(h', toModem', fromModem')
    BY <2>1, OutstandingCounts, Zenon DEF Outstanding, Under
  <2> QED
    BY <2>2 DEF InStep, Idle, Active
<1>3. ASSUME ~strayed' PROVE Aligned(h', toModem', fromModem')
  <2>1. CASE strayed
    <3>1. Idle'
      BY <1>1, <1>3, <2>1
    <3> QED
      BY <3>1, <1>2 DEF Aligned, Active
  <2>2. CASE ~strayed
    <3>1. Aligned(h, toModem, fromModem)
      BY <2>2
    <3>2. CASE g
      <4>1. InStep'
        BY <1>1, <1>3, <3>2
      <4> QED
        BY <4>1, <3>1, <1>2 DEF Aligned
    <3>3. CASE ~g
      BY <3>1, <3>3
    <3> QED
      BY <3>2, <3>3
  <2> QED
    BY <2>1, <2>2
<1> QED
  BY <1>3

-----------------------------------------------------------------------------
(* The actions *)

\* Outside a data call the structure at rest says it all.
LEMMA RestWaits ==
  ASSUME NEW s, AtRest(s), s.mode # "DATA"
  PROVE  Waiting(s) /\ Timed(s)
<1>1. Waiting(s)
  BY DEF AtRest, Rest, OthersWait, Waiting
<1>2. Timed(s)
  BY DEF AtRest, Rest, Timed, Head1
<1> QED
  BY <1>1, <1>2

\* What steps that queue commands do.
LEMMA EvenSteps ==
  ASSUME HInv, Stepping(h, fromModem, online), Even(h, h'),
         UNCHANGED <<toModem, fromModem, online>>
  PROVE  /\ Stepping(h', fromModem', online')
         /\ Aligned(h, toModem, fromModem) => Aligned(h', toModem', fromModem')
<1>1. /\ h \in Structure /\ h' \in Structure
      /\ toModem \in Seq(Kind) /\ fromModem \in Seq(Line)
  BY DEF HInv, AtRest, Outside, Even
<1>2. Stepping(h', fromModem', online')
  BY DEF Stepping, Even
<1>3. ASSUME Aligned(h, toModem, fromModem)
      PROVE  Aligned(h', toModem', fromModem')
  <2>1. /\ Written(h) \in Nat /\ Written(h') \in Nat /\ Len(toModem) \in Nat
        /\ Count(fromModem, Finals) \in Nat /\ Count(h.rd_buf, Finals) \in Nat
        /\ Active(h) \in {0, 1} /\ Active(h') \in {0, 1}
    BY <1>1, UnderParts
  <2>2. Written(h') + Active(h) = Written(h) + Active(h') /\ h'.rd_buf = h.rd_buf
    BY DEF Even
  <2> DEFINE a == Count(fromModem, Finals)
             b == Count(h.rd_buf, Finals)
             n == Len(toModem)
  <2>3. Written(h) + n + a + b = Active(h)
    BY <1>3 DEF Aligned, Under
  <2>4. a \in Nat /\ b \in Nat /\ n \in Nat
    BY <2>1
  <2>5. Under(h', toModem', fromModem') = Written(h') + n + a + b
    BY <2>2 DEF Under
  <2> HIDE DEF a, b, n
  <2>6. Under(h', toModem', fromModem') = Active(h')
    BY <2>1, <2>2, <2>3, <2>4, <2>5
  <2>7. h'.mode = "DATA" => ~Head1(h')
    BY <1>3 DEF Aligned, Even, Active
  <2> QED
    BY <2>6, <2>7 DEF Aligned
<1> QED
  BY <1>2, <1>3

\* What steps that close the device, or open it, do.
Cleared(s) == s.rd_buf = <<>> /\ ~s.wr_ppp_source /\ s.mode = "INIT"

LEMMA ResetStopCleared ==
  ASSUME NEW s \in Structure
  PROVE  Cleared(ResetStop(s)) /\ ResetStop(s) \in Structure /\ ~ResetStop(s).channel
<1>1. ResetStop(s).wr_ppp_source = FALSE
  <2> DEFINE l == s.live \ {s.source}
             t == [s EXCEPT
                  !.mode = "INIT", !.queue = <<>>, !.queue_timeout = <<>>,
                  !.live = l, !.source = "none", !.timeout = FALSE,
                  !.channel = FALSE, !.rd_source = FALSE, !.wr_source = FALSE,
                  !.rd_buf = <<>>, !.wr_buf = <<>>,
                  !.ppp = FALSE, !.rd_ppp_source = FALSE, !.wr_ppp_source = FALSE,
                  !.connected = FALSE, !.authenticated = FALSE, !.disabled = FALSE]
  <2>1. ResetStop(s) = t
    BY DEF ResetStop
  <2> HIDE DEF l
  <2>2. t.wr_ppp_source = FALSE
    BY DEF Structure
  <2> HIDE DEF t
  <2> QED
    BY <2>1, <2>2
<1> QED
  BY <1>1, ResetStopClears DEF Cleared

LEMMA AddSourceCleared ==
  ASSUME NEW s \in Structure, Cleared(s), NEW k \in {"reset", "repeat"}
  PROVE  /\ Cleared(AddSource(s, k)) /\ AddSource(s, k) \in Structure
         /\ AddSource(s, k).channel = s.channel
BY DEF Cleared, AddSource, Structure

LEMMA ResetCleared ==
  ASSUME NEW s \in Structure
  PROVE  Cleared(Reset(s)) /\ Reset(s) \in Structure /\ ~Reset(s).channel
<1> DEFINE u == ResetStop(s)
<1>1. Cleared(u) /\ u \in Structure /\ ~u.channel
  BY ResetStopCleared
<1>2. Reset(s) = AddSource(u, "reset")
  BY DEF Reset, ResetStart
<1> HIDE DEF u
<1> QED
  BY <1>1, <1>2, AddSourceCleared

LEMMA DataCallCleared ==
  ASSUME NEW s \in Structure, s.mode = "DATA"
  PROVE  LET t == SetMode([s EXCEPT !.connected = FALSE], "INIT")
         IN Cleared(t) /\ ~t.channel
<1> DEFINE g == [s EXCEPT !.connected = FALSE]
           u == Reset(g)
           t == SetMode(g, "INIT")
<1>1. g \in Structure /\ g.mode = "DATA"
  BY DEF Structure
<1> HIDE DEF g
<1>2. t = [u EXCEPT !.mode = "INIT"]
  BY <1>1 DEF SetMode
<1>3. Cleared(u) /\ u \in Structure /\ ~u.channel
  BY <1>1, ResetCleared
<1> HIDE DEF u, t
<1>4. t.rd_buf = <<>> /\ t.wr_ppp_source = u.wr_ppp_source /\ t.mode = "INIT" /\ t.channel = u.channel
  BY <1>2, <1>3 DEF Cleared, Structure
<1> QED
  BY <1>3, <1>4 DEF Cleared, t, g

LEMMA ClearedSteps ==
  ASSUME HInv, Stepping(h, fromModem, online), AtRest(h'), Cleared(h'),
         fromModem' = <<>> \/ fromModem' = fromModem,
         ~online'
  PROVE  /\ Stepping(h', fromModem', online')
         /\ h'.mode # "DATA"
<1>1. Waiting(h') /\ Timed(h') /\ h'.mode # "DATA"
  BY RestWaits DEF Cleared
<1>2. fromModem' \in Seq(Proper) /\ h'.rd_buf \in Seq(Proper)
  BY EmptySeq DEF Stepping, Cleared
<1> QED
  BY <1>1, <1>2 DEF Stepping, Cleared

\* The device is closed: what was not read is lost, and the call.
LEMMA ClosedSteps ==
  ASSUME HInv, Stepping(h, fromModem, online), AtRest(h'), Cleared(h'), ~h'.channel, Device
  PROVE  /\ Stepping(h', fromModem', online')
         /\ h'.mode # "DATA"
<1>1. ~online'
  <2>1. CASE h.channel
    BY <2>1 DEF Device
  <2>2. CASE ~h.channel
    BY <2>2 DEF Device, Stepping
  <2> QED
    BY <2>1, <2>2
<1>2. fromModem' = <<>> \/ fromModem' = fromModem
  BY DEF Device
<1> QED
  BY <1>1, <1>2, ClearedSteps

LEMMA EvenLocal ==
  ASSUME HInv, Stepping(h, fromModem, online), Even(h, h'), NEW g, Local(g)
  PROVE  /\ Stepping(h', fromModem', online')
         /\ Aligned(h, toModem, fromModem) => Aligned(h', toModem', fromModem')
<1>1. h'.channel = h.channel
  BY DEF Even
<1>2. UNCHANGED <<toModem, fromModem, online>>
  BY <1>1 DEF Local, Device
<1> QED
  BY <1>2, EvenSteps

LEMMA StartEven ==
  ASSUME HInv, Start
  PROVE  Even(h, h')
<1> DEFINE u == AddSource(h, "reset")
           t == [u EXCEPT !.active = TRUE]
<1>1. h' = t /\ h \in Structure
  BY DEF Start, ResetStart, HInv, AtRest
<1>2. /\ u \in Structure /\ u.mode = h.mode /\ u.rd_buf = h.rd_buf
      /\ u.wr_ppp_source = h.wr_ppp_source /\ u.channel = h.channel
      /\ u.queue = h.queue /\ u.wr_buf = h.wr_buf /\ u.timeout = h.timeout
  BY <1>1 DEF AddSource, Structure
<1> HIDE DEF u
<1>3. /\ t \in Structure /\ t.mode = u.mode /\ t.rd_buf = u.rd_buf
      /\ t.wr_ppp_source = u.wr_ppp_source /\ t.channel = u.channel
      /\ t.queue = u.queue /\ t.wr_buf = u.wr_buf /\ t.timeout = u.timeout
  BY <1>2 DEF Structure
<1> HIDE DEF t
<1> QED
  BY <1>1, <1>2, <1>3, EvenSame

LEMMA UserRequestEven ==
  ASSUME HInv, NEW k \in UserKinds, UserRequest(k)
  PROVE  Even(h, h')
<1>1. h \in Structure /\ k \in Kind
  BY UserAssumption DEF HInv, AtRest
<1>2. Even(h, RequestAll(h, <<k>>)) /\ Even(h, QueueAll(h, ListAll))
  BY <1>1, RequestEven, ListQueueable, QueueAllEven
<1>3. h' = QueueAll(h, ListAll) \/ h' = RequestAll(h, <<k>>)
  BY DEF UserRequest
<1> QED
  BY <1>2, <1>3

LEMMA HangUpEven ==
  ASSUME HInv, HangUp, h.mode # "DATA"
  PROVE  Even(h, h')
<1>1. h \in Structure /\ "hangup" \in Kind
  BY DEF HInv, AtRest, Kind
<1>2. h' = RequestAll(h, <<"hangup">>)
  BY DEF HangUp
<1> QED
  BY <1>1, <1>2, RequestEven

LEMMA OnQueueTimeoutEven ==
  ASSUME HInv, OnQueueTimeout
  PROVE  Even(h, h')
<1> DEFINE l == h.live \ {"repeat"}
           w == Tail(h.queue_timeout)
           c == h.queue_timeout[1]
           s == [[h EXCEPT !.live = l] EXCEPT !.source = "none"]
           v == [s EXCEPT !.queue_timeout = Tail(s.queue_timeout)]
           t == QueueAll(v, <<s.queue_timeout[1]>>)
<1>1. /\ "repeat" \in h.live
      /\ h' = CASE s.queue_timeout = <<>> -> s
                [] Len(s.queue_timeout) > 1 -> AddSource(t, "repeat")
                [] OTHER -> RequestAll(t, <<"creg">>)
  BY DEF OnQueueTimeout, Dispatched
<1>2. h \in Structure /\ Shape(h) /\ h.live = {h.source} \ {"none"}
  BY DEF HInv, AtRest, Shape, Sources
<1>3. h.source = "repeat" /\ l = {}
  BY <1>1, <1>2
<1>4. h.queue_timeout \in Seq(Kept) /\ h.queue_timeout # <<>>
  BY <1>2, <1>3 DEF Shape, Sources, Structure
<1>5. w \in Seq(Kept) /\ c \in Kept
  BY <1>4, TailElements
<1>6. s.queue_timeout = h.queue_timeout
  BY <1>2 DEF Structure
<1>7. v = [h EXCEPT !.live = l, !.source = "none", !.queue_timeout = w]
  BY <1>2, <1>6 DEF Structure
<1>8. /\ t = QueueAll(v, <<c>>)
      /\ h' = AddSource(t, "repeat") \/ h' = RequestAll(t, <<"creg">>)
  <2>1. t = QueueAll(v, <<c>>)
    BY <1>6
  <2> HIDE DEF s, t
  <2> QED
    BY <2>1, <1>1, <1>4, <1>6
<1> HIDE DEF s, v, t, l, w, c
<1>9. /\ v \in Structure /\ v.mode = h.mode /\ v.rd_buf = h.rd_buf
      /\ v.wr_ppp_source = h.wr_ppp_source /\ v.channel = h.channel
      /\ v.queue = h.queue /\ v.wr_buf = h.wr_buf /\ v.timeout = h.timeout
  BY <1>2, <1>3, <1>5, <1>7 DEF Structure
<1>10. Even(h, v)
  BY <1>2, <1>9, EvenSame
<1>11. Queueable(v, <<c>>)
  BY <1>5, OneQueueable DEF Kept
<1>12. Even(v, t) /\ t \in Structure
  BY <1>8, <1>9, <1>11, QueueAllEven DEF Even
<1>13. Even(h, t)
  BY <1>2, <1>10, <1>12, EvenTransitive
<1>14. Even(t, AddSource(t, "repeat"))
  <2> DEFINE a == AddSource(t, "repeat")
  <2>1. /\ a \in Structure /\ a.mode = t.mode /\ a.rd_buf = t.rd_buf
        /\ a.wr_ppp_source = t.wr_ppp_source /\ a.channel = t.channel
        /\ a.queue = t.queue /\ a.wr_buf = t.wr_buf /\ a.timeout = t.timeout
    BY <1>12 DEF AddSource, Structure
  <2> HIDE DEF a
  <2> QED
    BY <1>12, <2>1, EvenSame DEF a
<1>15. Even(t, RequestAll(t, <<"creg">>))
  BY <1>12, RequestEven DEF Kind
<1> QED
  BY <1>2, <1>8, <1>13, <1>14, <1>15, EvenTransitive

LEMMA ParseEndsEven ==
  ASSUME HInv, ParseEnds
  PROVE  Even(h, h')
<1> DEFINE t == [h EXCEPT !.parsing = FALSE]
<1>1. h' = t /\ h \in Structure
  BY DEF ParseEnds, HInv, AtRest
<1>2. /\ t \in Structure /\ t.mode = h.mode /\ t.rd_buf = h.rd_buf
      /\ t.wr_ppp_source = h.wr_ppp_source /\ t.channel = h.channel
      /\ t.queue = h.queue /\ t.wr_buf = h.wr_buf /\ t.timeout = h.timeout
  BY <1>1 DEF Structure
<1> HIDE DEF t
<1> QED
  BY <1>1, <1>2, EvenSame

\* The steps that give up the commands under way with the device.
LEMMA StopSteps ==
  ASSUME HInv, HInv', Stepping(h, fromModem, online), Stop
  PROVE  Stepping(h', fromModem', online') /\ h'.mode # "DATA"
<1> DEFINE u == ResetStop(h)
           t == [u EXCEPT !.active = FALSE]
<1>1. h' = t /\ h \in Structure /\ Device /\ AtRest(h')
  BY DEF Stop, Local, HInv, AtRest
<1>2. Cleared(u) /\ u \in Structure /\ ~u.channel
  BY <1>1, ResetStopCleared
<1> HIDE DEF u
<1>3. Cleared(t) /\ t.channel = u.channel
  BY <1>2 DEF Cleared, Structure
<1> HIDE DEF t
<1> QED
  BY <1>1, <1>2, <1>3, ClosedSteps

LEMMA DataCallSteps ==
  ASSUME HInv, HInv', Stepping(h, fromModem, online), Device, h.mode = "DATA",
         h' = SetMode([h EXCEPT !.connected = FALSE], "INIT")
  PROVE  Stepping(h', fromModem', online') /\ h'.mode # "DATA"
<1>1. h \in Structure /\ AtRest(h')
  BY DEF HInv, AtRest
<1>2. Cleared(h') /\ ~h'.channel
  BY <1>1, DataCallCleared
<1> QED
  BY <1>1, <1>2, ClosedSteps

LEMMA LineFailsSteps ==
  ASSUME HInv, HInv', Stepping(h, fromModem, online), LineFails
  PROVE  Stepping(h', fromModem', online') /\ h'.mode # "DATA"
<1>1. h' = Reset(h) /\ h \in Structure /\ Device /\ AtRest(h')
  BY DEF LineFails, Local, HInv, AtRest
<1>2. Cleared(h') /\ ~h'.channel
  BY <1>1, ResetCleared
<1> QED
  BY <1>1, <1>2, ClosedSteps

LEMMA OnResetSteps ==
  ASSUME HInv, HInv', Stepping(h, fromModem, online),
         NEW opened \in BOOLEAN, OnReset(opened)
  PROVE  Stepping(h', fromModem', online') /\ h'.mode # "DATA"
<1> DEFINE d == [h EXCEPT !.live = @ \ {"reset"}]
           s == ResetStop(d)
           u == [s EXCEPT !.channel = TRUE, !.rd_source = TRUE]
           t == QueueAll(u, <<ResetCommand>>)
<1>1. /\ "reset" \in h.live /\ fromModem' = <<>> /\ online' = online
      /\ h' = IF opened THEN t ELSE AddSource(s, "reset")
  BY DEF OnReset, Dispatched
<1>2. h \in Structure /\ AtRest(h') /\ Sources(h)
  BY DEF HInv, AtRest, Shape
<1>3. ~online
  <2>1. h.source = "reset"
    BY <1>1, <1>2 DEF Sources
  <2> QED
    BY <2>1, <1>2 DEF Sources, Stepping
<1>4. d \in Structure
  BY <1>2 DEF Structure
<1> HIDE DEF d
<1>5. Cleared(s) /\ s \in Structure
  BY <1>4, ResetStopCleared
<1> HIDE DEF s
<1>6. Cleared(AddSource(s, "reset"))
  BY <1>5, AddSourceCleared
<1>7. Cleared(t)
  <2>1. Cleared(u) /\ u \in Structure /\ u.channel
    BY <1>5 DEF Cleared, Structure
  <2> HIDE DEF u
  <2>2. Queueable(u, <<ResetCommand>>)
    BY <2>1, ResetCommandIs, OneQueueable
  <2>3. Even(u, t)
    BY <2>1, <2>2, QueueAllEven
  <2> HIDE DEF t
  <2> QED
    BY <2>1, <2>3 DEF Even, Cleared
<1> HIDE DEF t
<1>8. Cleared(h')
  BY <1>1, <1>6, <1>7
<1> QED
  BY <1>1, <1>2, <1>3, <1>8, ClearedSteps

\* A command that is given up makes room for the next one.
LEMMA OnTimeoutSteps ==
  ASSUME HInv, Stepping(h, fromModem, online), OnTimeout
  PROVE  /\ Stepping(h', fromModem', online')
         /\ h'.mode = "DATA" => ~Head1(h')
<1> DEFINE s == [h EXCEPT !.timeout = FALSE]
           f == Conclude(s, "TIMEOUT")
           t == Push(Pop(f))
<1>1. h' = (IF s.queue = <<>> THEN s ELSE t) /\ Device
  BY DEF OnTimeout, Local
<1>2. h.timeout /\ h \in Structure /\ Closed(h)
  BY DEF OnTimeout, HInv, AtRest, Shape, Inner
<1>3. h.queue # <<>> /\ h.channel
  BY <1>2 DEF Stepping, Timed, Head1, Closed
<1>4. /\ s \in Structure /\ s.mode = h.mode /\ s.queue = h.queue
      /\ s.channel = h.channel /\ s.rd_buf = h.rd_buf
      /\ s.wr_ppp_source = h.wr_ppp_source
  BY <1>2 DEF Structure
<1> HIDE DEF s
<1>5. Waiting(s)
  BY <1>4 DEF Stepping, Waiting
<1>6. Ended(s, f) /\ (f.mode = "DATA" <=> s.mode = "DATA")
  BY <1>3, <1>4, ConcludeEnds DEF ResetsUnder, Final
<1> HIDE DEF f
<1>7. f \in Structure /\ f.queue # <<>> /\ Waiting(f)
  BY <1>5, <1>6 DEF Ended
<1>8. /\ t \in Structure /\ t.mode = f.mode /\ t.rd_buf = f.rd_buf
      /\ t.wr_ppp_source = f.wr_ppp_source /\ t.channel = f.channel
      /\ Waiting(t) /\ Timed(t)
      /\ t.mode = "DATA" => ~Head1(t)
  BY <1>7, NextSent
<1> HIDE DEF t
<1>9. h' = t
  BY <1>1, <1>3, <1>4
<1>10. /\ t.rd_buf = h.rd_buf /\ t.channel = h.channel
       /\ t.wr_ppp_source => h.wr_ppp_source
       /\ t.mode = "DATA" <=> h.mode = "DATA"
  BY <1>4, <1>6, <1>8 DEF Ended
<1>11. UNCHANGED <<fromModem, online>>
  BY <1>1, <1>9, <1>10 DEF Device
<1> QED
  BY <1>8, <1>9, <1>10, <1>11 DEF Stepping

\* What is read moves from the modem to the plug-in.
LEMMA ReadSteps ==
  ASSUME HInv, Stepping(h, fromModem, online), NEW n \in 1 .. Len(fromModem), Read(n)
  PROVE  /\ Stepping(h', fromModem', online')
         /\ Aligned(h, toModem, fromModem) => Aligned(h', toModem', fromModem')
<1> DEFINE x == SubSeq(fromModem, 1, n)
           y == SubSeq(fromModem, n + 1, Len(fromModem))
           r == h.rd_buf \o x
           p == (h.mode # "DATA")
           w == (h.wr_ppp_source \/ (h.mode = "DATA" /\ h.ppp))
           t == [h EXCEPT !.rd_buf = r, !.parsing = p, !.wr_ppp_source = w]
<1>1. h' = t /\ fromModem' = y /\ UNCHANGED <<toModem, online>>
  BY DEF Read
<1>2. /\ h \in Structure /\ fromModem \in Seq(Proper) /\ h.rd_buf \in Seq(Proper)
      /\ toModem \in Seq(Kind) /\ fromModem \in Seq(Line)
  BY DEF HInv, AtRest, Stepping, Outside
<1>3. x \in Seq(Proper) /\ y \in Seq(Proper)
  BY <1>2, CountSplit
<1>4. \A P : /\ Count(fromModem, P) = Count(x, P) + Count(y, P)
             /\ Count(x, P) \in Nat /\ Count(y, P) \in Nat
  <2>1. SUFFICES ASSUME NEW P
                 PROVE  /\ Count(fromModem, P) = Count(x, P) + Count(y, P)
                        /\ Count(x, P) \in Nat /\ Count(y, P) \in Nat
    OBVIOUS
  <2>2. Count(fromModem, P) = Count(x, P) + Count(y, P)
    BY <1>2, CountSplit
  <2> HIDE DEF x, y
  <2> QED
    BY <2>2, <1>3, CountBounds
<1> HIDE DEF x, y
<1>5. \A P : /\ Count(r, P) = Count(h.rd_buf, P) + Count(x, P)
             /\ Count(h.rd_buf, P) \in Nat
  <2>1. SUFFICES ASSUME NEW P
                 PROVE  /\ Count(r, P) = Count(h.rd_buf, P) + Count(x, P)
                        /\ Count(h.rd_buf, P) \in Nat
    OBVIOUS
  <2>2. Count(h.rd_buf \o x, P) = Count(h.rd_buf, P) + Count(x, P)
    BY <1>2, <1>3, CountConcat
  <2> QED
    BY <2>2, <1>2, CountBounds
<1>6. r \in Seq(Proper) /\ r \in Seq(Line)
  <2>1. r \in Seq(Proper)
    BY <1>2, <1>3, ConcatProperties
  <2> QED
    BY <2>1, ProperLines
<1>7. p \in BOOLEAN /\ w \in BOOLEAN
  BY <1>2 DEF Structure
<1>8. w => h.mode = "DATA"
  BY DEF Stepping
<1> HIDE DEF r, p, w
<1>9. /\ t \in Structure /\ t.mode = h.mode /\ t.queue = h.queue
      /\ t.timeout = h.timeout /\ t.channel = h.channel /\ t.wr_buf = h.wr_buf
      /\ t.rd_buf = r /\ t.wr_ppp_source = w
  BY <1>2, <1>6, <1>7 DEF Structure
<1> HIDE DEF t
<1>10. Stepping(h', fromModem', online')
  <2>1. Waiting(t) /\ Timed(t)
    BY <1>9 DEF Stepping, Waiting, Timed, Head1
  <2>2. Count(fromModem, Connects) # 0 \/ Count(h.rd_buf, Connects) # 0
          => Count(y, Connects) # 0 \/ Count(r, Connects) # 0
    <3> DEFINE a == Count(x, Connects)
               b == Count(y, Connects)
               c == Count(h.rd_buf, Connects)
    <3>1. /\ a \in Nat /\ b \in Nat /\ c \in Nat
          /\ Count(fromModem, Connects) = a + b /\ Count(r, Connects) = c + a
      BY <1>4, <1>5
    <3>2. a + b # 0 \/ c # 0 => b # 0 \/ c + a # 0
      <4> HIDE DEF a, b, c
      <4> QED
        BY <3>1
    <3> QED
      BY <3>1, <3>2
  <2> QED
    BY <2>1, <2>2, <1>1, <1>3, <1>6, <1>8, <1>9 DEF Stepping
<1>11. ASSUME Aligned(h, toModem, fromModem)
       PROVE  Aligned(h', toModem', fromModem')
  <2> DEFINE a == Count(x, Finals)
             b == Count(y, Finals)
             c == Count(h.rd_buf, Finals)
             k == Written(h)
             m == Len(toModem)
  <2>1. /\ a \in Nat /\ b \in Nat /\ c \in Nat
        /\ Count(fromModem, Finals) = a + b /\ Count(r, Finals) = c + a
    BY <1>4, <1>5
  <2>2. k \in Nat /\ m \in Nat
    BY <1>2, UnderParts
  <2>3. Under(h, toModem, fromModem) = k + m + Count(fromModem, Finals) + c
    BY DEF Under
  <2>4. Under(h', toModem', fromModem') = k + m + b + Count(r, Finals)
    BY <1>1, <1>9 DEF Under, Written
  <2> HIDE DEF a, b, c, k, m
  <2>5. Under(h', toModem', fromModem') = Under(h, toModem, fromModem)
    BY <2>1, <2>2, <2>3, <2>4
  <2>6. Active(h') = Active(h) /\ (h'.mode = "DATA" => ~Head1(h'))
    BY <1>1, <1>9, <1>11 DEF Aligned, Active, Head1
  <2> QED
    BY <2>5, <2>6, <1>11 DEF Aligned
<1> QED
  BY <1>10, <1>11

\* A line that ends an answer takes the active command with it; the next one is
\* written and is the active one.
LEMMA ParseLineSteps ==
  ASSUME HInv, Stepping(h, fromModem, online), ParseLine
  PROVE  LET l == h.rd_buf[1]
             g == (l.code = "NO CARRIER" /\ ~l.final)
         IN /\ Track(g)
            /\ Stepping(h', fromModem', online')
            /\ Aligned(h, toModem, fromModem) /\ ~g => Aligned(h', toModem', fromModem')
            /\ Aligned(h, toModem, fromModem) /\ h'.mode = "DATA" => ~Head1(h')
<1> DEFINE l == h.rd_buf[1]
           c == l.code
           g == (l.code = "NO CARRIER" /\ ~l.final)
           s == ParseDo(h, l.code)
           r == Tail(s.rd_buf)
           t == [s EXCEPT !.rd_buf = r]
<1>1. /\ h' = t /\ h.parsing /\ s.rd_buf # <<>> /\ h.rd_buf # <<>>
      /\ Device /\ UNCHANGED toModem /\ Track(g)
  BY DEF ParseLine, HasLine
<1>2. h \in Structure /\ Shape(h) /\ Rest(h) /\ h.channel
  BY <1>1, OpenActive DEF HInv, AtRest
<1>3. /\ toModem \in Seq(Kind) /\ fromModem \in Seq(Line)
      /\ fromModem \in Seq(Proper) /\ h.rd_buf \in Seq(Proper)
      /\ Waiting(h) /\ Timed(h)
  BY DEF HInv, Outside, Stepping
<1>4. s \in Structure /\ s.rd_buf = h.rd_buf /\ s.channel
  BY <1>1, <1>2, ParseDoRests
<1>5. Parsed(h, s, c)
  BY <1>1, <1>2, <1>3, ParseDoSteps
<1>6. l \in Proper
  <2>1. 1 \in 1 .. Len(h.rd_buf)
    <3>1. Len(h.rd_buf) \in Nat \ {0}
      BY <1>1, <1>3, EmptySeq, LenProperties
    <3> QED
      BY <3>1
  <2> QED
    BY <2>1, <1>3, ElementOfSeq
<1>7. r = Tail(h.rd_buf) /\ r \in Seq(Proper) /\ r \in Seq(Line)
  BY <1>1, <1>3, <1>4, HeadTailProperties, ProperLines
<1>8. \A P : /\ Count(h.rd_buf, P) = Count(r, P) + IF l \in P THEN 1 ELSE 0
             /\ Count(r, P) \in Nat
  <2>1. SUFFICES ASSUME NEW P
                 PROVE  /\ Count(h.rd_buf, P) = Count(r, P) + IF l \in P THEN 1 ELSE 0
                        /\ Count(r, P) \in Nat
    OBVIOUS
  <2> HIDE DEF s, r
  <2>2. Count(r, P) \in Nat
    BY <1>7, CountBounds
  <2>3. Count(h.rd_buf, P) = Count(Tail(h.rd_buf), P) + IF h.rd_buf[1] \in P THEN 1 ELSE 0
    BY <1>1, <1>3, CountTail
  <2>4. Count(h.rd_buf, P) = Count(r, P) + IF l \in P THEN 1 ELSE 0
    BY <2>3, <1>7, Zenon
  <2> QED
    BY <2>2, <2>4
<1>9. l \in Finals <=> l.final
  BY <1>6 DEF Proper, Finals
<1>10. l \in Connects <=> c = "CONNECT"
  BY <1>6 DEF Proper, Connects
<1>11. /\ l.final => c \in Ending \union Generic
       /\ c \in Ending \union Generic /\ ~g => l.final
       /\ c = "CONNECT" => l.final
  BY <1>6 DEF Proper, Ending
<1>12. l.final \in BOOLEAN
  BY <1>6 DEF Proper, Line
<1> HIDE DEF l, s, r, c, g
<1>13. /\ t \in Structure /\ t.mode = s.mode /\ t.queue = s.queue
       /\ t.timeout = s.timeout /\ t.channel = s.channel /\ t.wr_buf = s.wr_buf
       /\ t.rd_buf = r /\ t.wr_ppp_source = s.wr_ppp_source
  BY <1>4, <1>7 DEF Structure
<1> HIDE DEF t
<1>14. UNCHANGED <<fromModem, online>>
  BY <1>1, <1>2, <1>4, <1>13 DEF Device
<1>15. /\ Waiting(t) <=> Waiting(s)
       /\ Timed(t) <=> Timed(s)
       /\ Head1(t) <=> Head1(s)
       /\ Active(t) = Active(s) /\ Written(t) = Written(s)
  BY <1>13 DEF Waiting, Timed, Head1, Active, Written
<1>16. Stepping(h', fromModem', online')
  <2>1. Waiting(t) /\ Timed(t)
    BY <1>5, <1>15 DEF Parsed
  <2>2. t.wr_ppp_source => t.mode = "DATA"
    BY <1>5, <1>13 DEF Parsed, Stepping
  <2>3. online => t.mode = "DATA" \/ Count(fromModem, Connects) # 0 \/ Count(r, Connects) # 0
    <3>1. CASE h.mode = "DATA" \/ Count(fromModem, Connects) # 0
      BY <3>1, <1>5, <1>13 DEF Parsed
    <3>2. CASE Count(h.rd_buf, Connects) # 0
      <4>1. CASE c = "CONNECT"
        BY <4>1, <1>5, <1>13 DEF Parsed
      <4>2. CASE c # "CONNECT"
        BY <4>2, <3>2, <1>8, <1>10
      <4> QED
        BY <4>1, <4>2
    <3> QED
      BY <3>1, <3>2 DEF Stepping
  <2> QED
    BY <2>1, <2>2, <2>3, <1>1, <1>3, <1>4, <1>7, <1>13, <1>14 DEF Stepping
<1> DEFINE k == Written(h)
           w == Written(s)
           m == Len(toModem)
           a == Count(fromModem, Finals)
           b == Count(r, Finals)
<1>17. /\ k \in Nat /\ w \in Nat /\ m \in Nat /\ a \in Nat /\ b \in Nat
       /\ Active(h) \in {0, 1} /\ Active(s) \in {0, 1}
  BY <1>2, <1>3, <1>4, <1>8, UnderParts
<1>18. Under(h', toModem', fromModem') = w + m + a + b
  BY <1>1, <1>13, <1>14, <1>15 DEF Under
<1>19. Under(h, toModem, fromModem) = k + m + a + (b + IF l \in Finals THEN 1 ELSE 0)
  BY <1>8 DEF Under
<1>20. w + Active(h) = k + Active(s) + IF Head1(h) /\ c \in Ending \union Generic THEN 1 ELSE 0
  BY <1>5 DEF Parsed
<1> HIDE DEF k, w, m, a, b
<1>21. ASSUME Aligned(h, toModem, fromModem), l.final
       PROVE  Head1(h) /\ Under(h', toModem', fromModem') = Active(s)
  <2>1. k + m + a + (b + 1) = Active(h)
    BY <1>9, <1>19, <1>21 DEF Aligned
  <2>2. Active(h) = 1 /\ k = 0 /\ m = 0 /\ a = 0 /\ b = 0
    BY <2>1, <1>17
  <2>3. Head1(h)
    BY <2>2 DEF Active
  <2>4. w + Active(h) = k + Active(s) + 1
    BY <2>3, <1>11, <1>20, <1>21
  <2> QED
    BY <2>2, <2>3, <2>4, <1>17, <1>18
<1>22. ASSUME Aligned(h, toModem, fromModem), ~g, ~l.final
       PROVE  Under(h', toModem', fromModem') = Active(s)
  <2>1. k + m + a + (b + 0) = Active(h)
    BY <1>9, <1>19, <1>22 DEF Aligned
  <2>2. w + Active(h) = k + Active(s) + 0
    BY <1>11, <1>20, <1>22
  <2> DEFINE x == Active(h)
             y == Active(s)
  <2>3. x \in Nat /\ y \in Nat /\ k + m + a + b = x /\ w + x = k + y
    BY <2>1, <2>2, <1>17
  <2> HIDE DEF x, y
  <2>4. w + m + a + b = y
    BY <2>3, <1>17
  <2> QED
    BY <2>4, <1>18 DEF y
<1>23. ASSUME Aligned(h, toModem, fromModem), h'.mode = "DATA"
       PROVE  ~Head1(h')
  <2>1. ~(h.mode = "DATA" /\ Head1(h))
    BY <1>23 DEF Aligned
  <2>2. c = "CONNECT" => Head1(h)
    BY <1>11, <1>21, <1>23
  <2>3. s.mode = "DATA"
    BY <1>1, <1>13, <1>23
  <2>4. ~Head1(s)
    BY <2>1, <2>2, <2>3, <1>5 DEF Parsed
  <2>5. ~Head1(t)
    BY <2>4, <1>15
  <2> QED
    BY <2>5, <1>1, Zenon
<1>24. ASSUME Aligned(h, toModem, fromModem), ~g
       PROVE  Aligned(h', toModem', fromModem')
  <2>1. Under(h', toModem', fromModem') = Active(h')
    BY <1>1, <1>12, <1>15, <1>21, <1>22, <1>24
  <2> QED
    BY <2>1, <1>23, <1>24 DEF Aligned
<1> QED
  BY <1>1, <1>16, <1>23, <1>24 DEF g, l

\* A modem in a data call has been sent every command: what is under way is the
\* CONNECT it has answered, at most.
LEMMA OnlineWritten ==
  ASSUME HInv, Stepping(h, fromModem, online), Aligned(h, toModem, fromModem), online
  PROVE  Written(h) = 0
<1> DEFINE k == Written(h)
           m == Len(toModem)
           a == Count(fromModem, Finals)
           b == Count(h.rd_buf, Finals)
           v == Active(h)
<1>1. /\ h \in Structure /\ toModem \in Seq(Kind) /\ fromModem \in Seq(Line)
      /\ fromModem \in Seq(Proper) /\ h.rd_buf \in Seq(Proper)
  BY DEF HInv, AtRest, Outside, Stepping
<1>2. k \in Nat /\ m \in Nat /\ a \in Nat /\ b \in Nat /\ v \in {0, 1}
  BY <1>1, UnderParts
<1>3. k + m + a + b = v
  BY DEF Aligned, Under
<1>4. h.mode = "DATA" => v = 0
  BY DEF Aligned, Active
<1>5. Count(fromModem, Connects) # 0 => a # 0
  BY <1>1, ConnectsFinal
<1>6. Count(h.rd_buf, Connects) # 0 => b # 0
  BY <1>1, ConnectsFinal
<1>7. v = 0 \/ a # 0 \/ b # 0
  BY <1>4, <1>5, <1>6 DEF Stepping
<1> HIDE DEF k, m, a, b, v
<1>8. k = 0
  BY <1>2, <1>3, <1>7
<1> QED
  BY <1>8 DEF k

\* What is written reaches the modem; during a data call nothing of it is a command.
LEMMA WriteSteps ==
  ASSUME HInv, Stepping(h, fromModem, online), NEW n \in 1 .. Len(h.wr_buf), Write(n)
  PROVE  /\ Stepping(h', fromModem', online')
         /\ Aligned(h, toModem, fromModem) => Aligned(h', toModem', fromModem')
<1> DEFINE x == SubSeq(h.wr_buf, 1, n)
           w == SubSeq(h.wr_buf, n + 1, Len(h.wr_buf))
           b == (n < Len(h.wr_buf))
           t == [h EXCEPT !.wr_buf = w, !.wr_source = b]
<1>1. /\ h' = t /\ UNCHANGED <<fromModem, online>>
      /\ toModem' = IF online THEN toModem ELSE toModem \o Commands(x)
  BY DEF Write
<1>2. /\ h \in Structure /\ toModem \in Seq(Kind) /\ fromModem \in Seq(Line)
      /\ h.wr_buf \in Seq(Kind \union {"ppp"})
  BY DEF HInv, AtRest, Outside, Structure
<1>3. /\ x \in Seq(Kind \union {"ppp"}) /\ w \in Seq(Kind \union {"ppp"})
      /\ Count(h.wr_buf, Kind) = Count(x, Kind) + Count(w, Kind)
  BY <1>2, CountSplit
<1>4. b \in BOOLEAN
  OBVIOUS
<1> HIDE DEF x, w, b
<1>5. /\ t \in Structure /\ t.mode = h.mode /\ t.queue = h.queue
      /\ t.timeout = h.timeout /\ t.channel = h.channel
      /\ t.rd_buf = h.rd_buf /\ t.wr_ppp_source = h.wr_ppp_source /\ t.wr_buf = w
  BY <1>2, <1>3, <1>4 DEF Structure
<1> HIDE DEF t
<1>6. Stepping(h', fromModem', online')
  BY <1>1, <1>5 DEF Stepping, Waiting, Timed, Head1
<1>7. Count(x, Kind) \in Nat /\ Count(w, Kind) \in Nat
  BY <1>3, CountBounds
<1>8. Len(toModem \o Commands(x)) = Len(toModem) + Count(x, Kind)
  <2>1. Commands(x) \in Seq(Kind) /\ Len(Commands(x)) = Count(x, Kind)
    BY <1>3, CommandsKinds, CommandsCount
  <2> QED
    BY <2>1, <1>2, ConcatProperties
<1>9. ASSUME Aligned(h, toModem, fromModem)
      PROVE  Aligned(h', toModem', fromModem')
  <2> DEFINE i == Count(x, Kind)
             j == Count(w, Kind)
             m == Len(toModem)
             p == Len(toModem')
             a == Count(fromModem, Finals)
             c == Count(h.rd_buf, Finals)
  <2>1. i \in Nat /\ j \in Nat /\ m \in Nat /\ a \in Nat /\ c \in Nat
    BY <1>2, <1>7, UnderParts
  <2>2. online => i + j = 0
    <3>1. online => Written(h) = 0
      BY <1>9, OnlineWritten
    <3> QED
      BY <3>1, <1>3 DEF Written
  <2>3. p = IF online THEN m ELSE m + i
    BY <1>1, <1>8
  <2>4. Under(h, toModem, fromModem) = (i + j) + m + a + c
    BY <1>3 DEF Under, Written
  <2>5. Under(h', toModem', fromModem') = j + p + a + c
    BY <1>1, <1>5 DEF Under, Written
  <2> HIDE DEF i, j, m, p, a, c
  <2>6. j + p + a + c = (i + j) + m + a + c
    <3>1. CASE online
      BY <3>1, <2>1, <2>2, <2>3
    <3>2. CASE ~online
      BY <3>2, <2>1, <2>3
    <3> QED
      BY <3>1, <3>2
  <2>7. Active(h') = Active(h) /\ (h'.mode = "DATA" => ~Head1(h'))
    BY <1>1, <1>5, <1>9 DEF Aligned, Active, Head1
  <2> QED
    BY <2>4, <2>5, <2>6, <2>7, <1>9 DEF Aligned
<1> QED
  BY <1>6, <1>9

\* What pppd sends is no command.
LEMMA ReadPppSteps ==
  ASSUME HInv, Stepping(h, fromModem, online), ReadPpp
  PROVE  /\ Stepping(h', fromModem', online')
         /\ Aligned(h, toModem, fromModem) => Aligned(h', toModem', fromModem')
<1> DEFINE w == Append(h.wr_buf, "ppp")
           b == (h.wr_source \/ h.channel)
           t == [h EXCEPT !.wr_buf = w, !.wr_source = b]
<1>1. h' = t /\ Device /\ UNCHANGED toModem
  BY DEF ReadPpp, Local
<1>2. /\ h \in Structure /\ h.wr_buf \in Seq(Kind \union {"ppp"})
      /\ "ppp" \in Kind \union {"ppp"} /\ "ppp" \notin Kind
  BY DEF HInv, AtRest, Structure, Kind
<1>3. w \in Seq(Kind \union {"ppp"}) /\ b \in BOOLEAN
  BY <1>2, AppendElements DEF Structure
<1>4. Count(w, Kind) = Count(h.wr_buf, Kind)
  <2>1. Count(w, Kind) = Count(h.wr_buf, Kind) + IF "ppp" \in Kind THEN 1 ELSE 0
    BY <1>2, CountAppend
  <2>2. Count(h.wr_buf, Kind) \in Nat
    BY <1>2, CountBounds
  <2> HIDE DEF w
  <2> QED
    BY <2>1, <2>2, <1>2
<1> HIDE DEF w, b
<1>5. /\ t \in Structure /\ t.mode = h.mode /\ t.queue = h.queue
      /\ t.timeout = h.timeout /\ t.channel = h.channel
      /\ t.rd_buf = h.rd_buf /\ t.wr_ppp_source = h.wr_ppp_source /\ t.wr_buf = w
  BY <1>2, <1>3 DEF Structure
<1> HIDE DEF t
<1>6. UNCHANGED <<fromModem, online>>
  BY <1>1, <1>5 DEF Device
<1>7. Stepping(h', fromModem', online')
  BY <1>1, <1>5, <1>6 DEF Stepping, Waiting, Timed, Head1
<1>8. Under(h', toModem', fromModem') = Under(h, toModem, fromModem)
  BY <1>1, <1>4, <1>5, <1>6 DEF Under, Written
<1>9. Active(h') = Active(h) /\ (Head1(h') <=> Head1(h)) /\ h'.mode = h.mode
  BY <1>1, <1>5 DEF Active, Head1
<1> QED
  BY <1>7, <1>8, <1>9 DEF Aligned

\* What goes to pppd ends no answer: during a data call no command is under way.
LEMMA WritePppSteps ==
  ASSUME HInv, Stepping(h, fromModem, online), NEW n \in 1 .. Len(h.rd_buf), WritePpp(n)
  PROVE  /\ Stepping(h', fromModem', online')
         /\ Aligned(h, toModem, fromModem) => Aligned(h', toModem', fromModem')
<1> DEFINE x == SubSeq(h.rd_buf, 1, n)
           r == SubSeq(h.rd_buf, n + 1, Len(h.rd_buf))
           b == (n < Len(h.rd_buf))
           t == [h EXCEPT !.rd_buf = r, !.wr_ppp_source = b]
<1>1. h' = t /\ Device /\ UNCHANGED toModem /\ h.wr_ppp_source
  BY DEF WritePpp, Local
<1>2. /\ h \in Structure /\ h.rd_buf \in Seq(Proper) /\ h.mode = "DATA"
      /\ toModem \in Seq(Kind) /\ fromModem \in Seq(Line)
  BY <1>1 DEF HInv, AtRest, Outside, Stepping
<1>3. /\ x \in Seq(Proper) /\ r \in Seq(Proper)
      /\ Count(h.rd_buf, Finals) = Count(x, Finals) + Count(r, Finals)
  BY <1>2, CountSplit
<1>4. b \in BOOLEAN
  OBVIOUS
<1> HIDE DEF x, r, b
<1>5. r \in Seq(Line)
  BY <1>3, ProperLines
<1>6. /\ t \in Structure /\ t.mode = h.mode /\ t.queue = h.queue
      /\ t.timeout = h.timeout /\ t.channel = h.channel
      /\ t.rd_buf = r /\ t.wr_buf = h.wr_buf
  BY <1>2, <1>4, <1>5 DEF Structure
<1> HIDE DEF t
<1>7. UNCHANGED <<fromModem, online>>
  BY <1>1, <1>6 DEF Device
<1>8. Stepping(h', fromModem', online')
  BY <1>1, <1>2, <1>3, <1>6, <1>7 DEF Stepping, Waiting, Timed, Head1
<1>9. ASSUME Aligned(h, toModem, fromModem)
      PROVE  Aligned(h', toModem', fromModem')
  <2> DEFINE k == Written(h)
             m == Len(toModem)
             a == Count(fromModem, Finals)
             i == Count(x, Finals)
             j == Count(r, Finals)
  <2>1. k \in Nat /\ m \in Nat /\ a \in Nat /\ i \in Nat /\ j \in Nat
    BY <1>2, <1>3, UnderParts, CountBounds
  <2>2. Active(h) = 0
    BY <1>2, <1>9 DEF Aligned, Active
  <2>3. k + m + a + (i + j) = 0
    BY <2>2, <1>3, <1>9 DEF Aligned, Under
  <2>4. Under(h', toModem', fromModem') = k + m + a + j
    BY <1>1, <1>6, <1>7 DEF Under, Written
  <2> HIDE DEF k, m, a, i, j
  <2>5. Under(h', toModem', fromModem') = 0
    BY <2>1, <2>3, <2>4
  <2>6. Active(h') = Active(h) /\ (h'.mode = "DATA" => ~Head1(h'))
    BY <1>1, <1>6, <1>9 DEF Aligned, Active, Head1
  <2> QED
    BY <2>2, <2>5, <2>6 DEF Aligned
<1> QED
  BY <1>8, <1>9

-----------------------------------------------------------------------------
(* The modem and the commands under way *)

\* An answer ends with the one line that concludes the command.
Ends(codes) ==
  /\ codes \in Seq(Code) /\ Len(codes) \in {1, 2}
  /\ codes[Len(codes)] \in Ending \union Generic
  /\ Len(codes) = 2 => codes[1] \notin Ending \union Generic

LEMMA AnswersEnd ==
  ASSUME NEW k, NEW codes \in Answers(k) \union Troubles(k)
  PROVE  Ends(codes)
<1>1. codes \in Seq(Code)
  BY AnswersAreCodes
<1>2. ASSUME NEW a, codes = <<a>>,
             a \in {"OK", "ERROR", "CME PIN", "CME SOS", "CME", "SIM BUSY", "NO CARRIER", "CONNECT"}
      PROVE  Ends(codes)
  <2>1. Len(codes) = 1 /\ codes[1] = a
    BY <1>2
  <2>2. a \in Ending \union Generic
    BY <1>2 DEF Ending, Generic
  <2>3. Len(codes) \in {1, 2} /\ Len(codes) # 2
    <3>1. 1 \in {1, 2} /\ 1 # 2
      OBVIOUS
    <3> QED
      BY <2>1, <3>1, Zenon
  <2>4. codes[Len(codes)] \in Ending \union Generic
    BY <2>1, <2>2, Zenon
  <2> QED
    BY <1>1, <2>3, <2>4, Zenon DEF Ends
<1>3. ASSUME NEW a, codes = <<a, "OK">>,
             a \in {"CFUN 1", "CPIN READY", "CREG 1", "COPS", "CPBR", "CMGL", "TEXT", "CPAS 0",
                    "CFUN 0", "CPIN PIN", "CREG 0", "COPS n", "COPS 2"}
      PROVE  Ends(codes)
  <2>1. Len(codes) = 2 /\ codes[1] = a /\ codes[2] = "OK"
    BY <1>3
  <2>2. a \notin Ending \union Generic /\ "OK" \in Ending \union Generic
    BY <1>3 DEF Ending, Generic
  <2> QED
    BY <1>1, <2>1, <2>2 DEF Ends
<1>4. CASE codes \in Answers(k)
  <2>1. \/ codes \in {<<"CFUN 1", "OK">>, <<"CPIN READY", "OK">>, <<"CREG 1", "OK">>}
        \/ codes \in {<<"COPS", "OK">>, <<"CPBR", "OK">>, <<"OK">>}
        \/ codes \in {<<"CMGL", "OK">>, <<"TEXT", "OK">>}
        \/ codes \in {<<"CPAS 0", "OK">>, <<"CONNECT">>}
    BY <1>4, Zenon DEF Answers
  <2>2. \/ \E a \in {"CFUN 1", "CPIN READY", "CREG 1", "COPS", "CPBR", "CMGL", "TEXT", "CPAS 0"} :
             codes = <<a, "OK">>
        \/ codes = <<"OK">> \/ codes = <<"CONNECT">>
    BY <2>1, Zenon
  <2> QED
    BY <1>2, <1>3, <2>2
<1>5. CASE codes \in Troubles(k)
  <2>1. \/ codes \in {<<"ERROR">>, <<"CFUN 0", "OK">>, <<"CPIN PIN", "OK">>}
        \/ codes \in {<<"CME PIN">>, <<"CREG 0", "OK">>, <<"COPS n", "OK">>}
        \/ codes \in {<<"COPS 2", "OK">>, <<"CME SOS">>, <<"CME">>}
        \/ codes \in {<<"SIM BUSY">>, <<"NO CARRIER">>}
    BY <1>5, Zenon DEF Troubles
  <2>2. \/ \E a \in {"CFUN 0", "CPIN PIN", "CREG 0", "COPS n", "COPS 2"} : codes = <<a, "OK">>
        \/ codes = <<"ERROR">> \/ codes = <<"CME PIN">> \/ codes = <<"CME SOS">>
        \/ codes = <<"CME">> \/ codes = <<"SIM BUSY">> \/ codes = <<"NO CARRIER">>
    BY <2>1, Zenon
  <2> QED
    BY <1>2, <1>3, <2>2
<1> QED
  BY <1>4, <1>5

\* The lines that are sent for it.
LEMMA ReplyLines ==
  ASSUME NEW codes, Ends(codes)
  PROVE  LET ls == [i \in DOMAIN codes |-> Sollicited(codes[i], i = Len(codes))]
         IN /\ ls \in Seq(Proper)
            /\ Count(ls, Finals) = 1
            /\ codes = <<"CONNECT">> => Count(ls, Connects) # 0
<1> DEFINE n == Len(codes)
           e(i) == Sollicited(codes[i], i = n)
           ls == [i \in 1 .. n |-> e(i)]
<1>1. /\ codes \in Seq(Code) /\ n \in {1, 2} /\ DOMAIN codes = 1 .. n
      /\ codes[n] \in Ending \union Generic
      /\ n = 2 => codes[1] \notin Ending \union Generic
  BY LenProperties DEF Ends
<1> HIDE DEF n
<1>2. ASSUME NEW i \in 1 .. n
      PROVE  /\ e(i) \in Proper
             /\ e(i) \in Finals <=> i = n
             /\ e(i) \in Connects <=> codes[i] = "CONNECT"
  <2>1. codes[i] \in Code
    BY <1>1, ElementOfSeq
  <2>2. e(i) \in Line /\ e(i).code = codes[i] /\ (e(i).final <=> i = n)
    <3> DEFINE c == codes[i]
               f == (i = n)
    <3>1. c \in Code /\ f \in BOOLEAN /\ e(i) = [code |-> c, final |-> f]
      BY <2>1, Zenon DEF Sollicited
    <3> HIDE DEF c, f
    <3>2. e(i) \in Line /\ e(i).code = c /\ e(i).final = f
      BY <3>1 DEF Line
    <3> QED
      BY <3>2, Zenon DEF c, f
  <2>3. i # n => n = 2 /\ i = 1
    BY <1>1
  <2>4. codes[i] \in Ending \union Generic <=> i = n
    BY <1>1, <2>3
  <2>5. "CONNECT" \in Ending \union Generic
    BY DEF Ending
  <2> HIDE DEF e
  <2> QED
    BY <2>2, <2>4, <2>5 DEF Proper, Finals, Connects
<1> HIDE DEF e, n
<1>3. ls \in Seq(Proper) /\ DOMAIN ls = 1 .. n /\ \A i \in 1 .. n : ls[i] = e(i)
  <2>1. ls \in [1 .. n -> Proper] /\ n \in Nat
    BY <1>1, <1>2
  <2> QED
    BY <2>1, SeqDef
<1> HIDE DEF ls
<1>4. Count(ls, Finals) = 1
  <2>1. {i \in DOMAIN ls : ls[i] \in Finals} = {n}
    BY <1>1, <1>2, <1>3
  <2>2. Cardinality({n}) = 1
    BY FS_Singleton
  <2> QED
    BY <2>1, <2>2, Zenon DEF Count
<1>5. ASSUME codes = <<"CONNECT">> PROVE Count(ls, Connects) # 0
  <2>1. n = 1 /\ codes[1] = "CONNECT"
    BY <1>5 DEF n
  <2>2. 1 \in DOMAIN ls /\ ls[1] \in Connects
    BY <2>1, <1>2, <1>3
  <2> QED
    BY <2>2, <1>3, CountBounds
<1> QED
  BY <1>1, <1>3, <1>4, <1>5, Zenon DEF ls, e, n

\* Lines are sent: they are read as what they are.
LEMMA SendCounts ==
  ASSUME fromModem \in Seq(Proper), NEW ls \in Seq(Proper), Send(ls)
  PROVE  /\ fromModem' \in Seq(Proper)
         /\ h.channel => \A P : Count(fromModem', P) = Count(fromModem, P) + Count(ls, P)
         /\ ~h.channel => fromModem' = fromModem
<1>1. h.channel => fromModem' = fromModem \o ls
  BY DEF Send
<1>2. ~h.channel => fromModem' = fromModem
  BY DEF Send
<1>3. fromModem \o ls \in Seq(Proper)
  BY ConcatProperties
<1>4. ASSUME h.channel, NEW P
      PROVE  Count(fromModem', P) = Count(fromModem, P) + Count(ls, P)
  <2>1. Count(fromModem \o ls, P) = Count(fromModem, P) + Count(ls, P)
    BY CountConcat, Zenon
  <2> QED
    BY <1>1, <1>4, <2>1, Zenon
<1> QED
  BY <1>1, <1>2, <1>3, <1>4

LEMMA ReplySteps ==
  ASSUME HInv, Stepping(h, fromModem, online), toModem # <<>>,
         NEW codes, Ends(codes), Reply(codes)
  PROVE  /\ Stepping(h', fromModem', online')
         /\ Aligned(h, toModem, fromModem) => Aligned(h', toModem', fromModem')
<1> DEFINE ls == [i \in DOMAIN codes |-> Sollicited(codes[i], i = Len(codes))]
<1>1. /\ Send(ls) /\ UNCHANGED h
      /\ online' = (codes = <<"CONNECT">> /\ h.channel)
      /\ toModem' = IF codes = <<"CONNECT">> THEN <<>> ELSE Tail(toModem)
  BY DEF Reply
<1>2. /\ ls \in Seq(Proper) /\ Count(ls, Finals) = 1
      /\ codes = <<"CONNECT">> => Count(ls, Connects) # 0
  BY ReplyLines
<1> HIDE DEF ls
<1>3. /\ h \in Structure /\ Closed(h) /\ toModem \in Seq(Kind)
      /\ fromModem \in Seq(Line) /\ fromModem \in Seq(Proper)
  BY DEF HInv, AtRest, Shape, Inner, Outside, Stepping
<1>4. /\ fromModem' \in Seq(Proper)
      /\ h.channel => \A P : Count(fromModem', P) = Count(fromModem, P) + Count(ls, P)
  BY <1>1, <1>2, <1>3, SendCounts
<1>5. Stepping(h', fromModem', online')
  <2>1. ASSUME online' PROVE h.channel /\ Count(fromModem', Connects) # 0
    <3>1. h.channel /\ Count(ls, Connects) # 0
      BY <2>1, <1>1, <1>2
    <3>2. Count(fromModem', Connects) = Count(fromModem, Connects) + Count(ls, Connects)
      BY <3>1, <1>4
    <3>3. Count(fromModem, Connects) \in Nat /\ Count(ls, Connects) \in Nat
      BY <1>2, <1>3, CountBounds
    <3> QED
      BY <3>1, <3>2, <3>3
  <2> QED
    BY <2>1, <1>1, <1>4 DEF Stepping
<1>6. ASSUME Aligned(h, toModem, fromModem)
      PROVE  Aligned(h', toModem', fromModem')
  <2> DEFINE k == Written(h)
             m == Len(toModem)
             a == Count(fromModem, Finals)
             b == Count(h.rd_buf, Finals)
  <2>1. k \in Nat /\ m \in Nat /\ a \in Nat /\ b \in Nat /\ Active(h) \in {0, 1} /\ m # 0
    BY <1>3, UnderParts, EmptySeq
  <2>2. k + m + a + b = Active(h)
    BY <1>6 DEF Aligned, Under
  <2> HIDE DEF k, m, a, b
  <2>3. Active(h) = 1 /\ k = 0 /\ m = 1 /\ a = 0 /\ b = 0
    BY <2>1, <2>2
  <2>4. h.channel
    <3>1. h.queue # <<>>
      BY <2>3 DEF Active, Head1
    <3> QED
      BY <3>1, <1>3 DEF Closed
  <2>5. Count(fromModem', Finals) = 1
    BY <2>3, <2>4, <1>2, <1>4 DEF a
  <2>6. Len(toModem') = 0
    <3>1. Len(Tail(toModem)) = 0
      BY <2>3, <1>3, HeadTailProperties DEF m
    <3> QED
      BY <3>1, <1>1
  <2>7. Under(h', toModem', fromModem') = k + 0 + 1 + b
    BY <2>5, <2>6, <1>1 DEF Under, k, b
  <2>8. Under(h', toModem', fromModem') = Active(h')
    BY <2>3, <2>7, <1>1
  <2>9. h'.mode = "DATA" => ~Head1(h')
    BY <1>1, <1>6 DEF Aligned
  <2> QED
    BY <2>8, <2>9 DEF Aligned
<1> QED
  BY <1>5, <1>6

\* A line on its own.
LEMMA OneLine ==
  ASSUME NEW S, NEW x \in S
  PROVE  <<x>> \in Seq(S)
OBVIOUS

LEMMA ZeroAdded == \A n \in Nat : n + 0 = n
OBVIOUS

\* What the modem sends by itself ends no answer.
LEMMA UnsollicitedSteps ==
  ASSUME HInv, Stepping(h, fromModem, online),
         NEW c \in {"CMTI", "NO CARRIER", "ppp"}, Send(<<Unsollicited(c)>>),
         UNCHANGED <<h, toModem>>, online' => online
  PROVE  /\ Stepping(h', fromModem', online')
         /\ Aligned(h, toModem, fromModem) => Aligned(h', toModem', fromModem')
<1> DEFINE l == Unsollicited(c)
           ls == <<l>>
<1>1. l \in Proper /\ l \notin Finals /\ l \notin Connects
  <2>1. l \in Line /\ l.code = c /\ l.final = FALSE
    BY DEF Unsollicited, Line, Code
  <2> HIDE DEF l
  <2> QED
    BY <2>1 DEF Proper, Finals, Connects, Ending, Generic
<1> HIDE DEF l
<1>2. /\ ls \in Seq(Proper) /\ Count(ls, Finals) = 0 /\ Count(ls, Connects) = 0
  <2>1. ls \in Seq(Proper)
    BY <1>1, OneLine, Zenon
  <2>2. Count(ls, Finals) = IF l \in Finals THEN 1 ELSE 0
    BY CountOne, Zenon
  <2>3. Count(ls, Connects) = IF l \in Connects THEN 1 ELSE 0
    BY CountOne, Zenon
  <2> QED
    BY <1>1, <2>1, <2>2, <2>3, Zenon
<1>3. Send(ls)
  BY DEF l
<1> HIDE DEF ls
<1>4. fromModem \in Seq(Proper) /\ fromModem \in Seq(Line)
  BY DEF HInv, Outside, Stepping
<1>5. /\ fromModem' \in Seq(Proper)
      /\ h.channel => \A P : Count(fromModem', P) = Count(fromModem, P) + Count(ls, P)
      /\ ~h.channel => fromModem' = fromModem
  BY <1>2, <1>3, <1>4, SendCounts
<1>6. Count(fromModem, Finals) \in Nat /\ Count(fromModem, Connects) \in Nat
  BY <1>4, CountBounds
<1>7. /\ Count(fromModem', Finals) = Count(fromModem, Finals)
      /\ Count(fromModem', Connects) = Count(fromModem, Connects)
  <2>1. CASE h.channel
    <3>1. /\ Count(fromModem', Finals) = Count(fromModem, Finals) + 0
          /\ Count(fromModem', Connects) = Count(fromModem, Connects) + 0
      BY <1>2, <1>5, <2>1, Zenon
    <3> QED
      BY <3>1, <1>6, ZeroAdded, Zenon
  <2>2. CASE ~h.channel
    BY <1>5, <2>2, Zenon
  <2> QED
    BY <2>1, <2>2
<1>8. Stepping(h', fromModem', online')
  BY <1>5, <1>7 DEF Stepping
<1>9. Under(h', toModem', fromModem') = Under(h, toModem, fromModem)
  BY <1>7 DEF Under
<1> QED
  BY <1>8, <1>9 DEF Aligned

-----------------------------------------------------------------------------
(* The invariant of the commands under way *)

LEMMA StepInvInit == Init => StepInv
<1> SUFFICES ASSUME Init PROVE StepInv
  OBVIOUS
<1>1. HInv
  BY HInvInit
<1>2. /\ h.queue = <<>> /\ h.rd_buf = <<>> /\ h.wr_buf = <<>> /\ h.mode = "INIT"
      /\ toModem = <<>> /\ fromModem = <<>> /\ online = FALSE
  BY DEF Init
<1>3. <<>> \in Seq(Proper) /\ Len(<<>>) = 0 /\ DOMAIN <<>> = {}
  BY EmptySeq, LenProperties
<1>4. ASSUME NEW P PROVE Count(<<>>, P) = 0
  BY <1>3, CountBounds, Zenon
<1>5. Written(h) = 0 /\ Len(toModem) = 0 /\ Count(fromModem, Finals) = 0
      /\ Count(h.rd_buf, Finals) = 0
  BY <1>2, <1>3, <1>4, Zenon DEF Written
<1>6. Stepping(h, fromModem, online)
  <2>1. /\ h.mode # "DATA" /\ ~h.wr_ppp_source /\ ~online
        /\ h.rd_buf \in Seq(Proper) /\ fromModem \in Seq(Proper)
    BY <1>2, <1>3 DEF Init
  <2>2. Waiting(h) /\ Timed(h)
    BY <1>1, <2>1, RestWaits DEF HInv
  <2> QED
    BY <2>1, <2>2 DEF Stepping
<1>7. Under(h, toModem, fromModem) = 0
  BY <1>5 DEF Under
<1>8. Active(h) = 0
  BY <1>2 DEF Active, Head1
<1>9. Aligned(h, toModem, fromModem)
  BY <1>2, <1>7, <1>8 DEF Aligned
<1> QED
  BY <1>1, <1>6, <1>9 DEF StepInv

LEMMA StepInvNext ==
  ASSUME StepInv, [Next]_vars
  PROVE  StepInv'
<1>0. /\ HInv /\ HInv' /\ Stepping(h, fromModem, online)
      /\ strayed \/ Aligned(h, toModem, fromModem)
  BY HInvNext DEF StepInv
<1> HIDE DEF HInv, Stepping, Aligned
\* A step that strays nothing, one that gives commands up, and one that does
\* what concerns no command at all.
<1>a. ASSUME Stepping(h', fromModem', online'), NEW g, Track(g),
             Aligned(h, toModem, fromModem) => Aligned(h', toModem', fromModem')
      PROVE  StepInv'
  <2>1. Aligned(h', toModem', fromModem') /\ h'.mode = "DATA" => ~Head1(h')
    BY DEF Aligned
  <2>2. strayed' \/ Aligned(h', toModem', fromModem')
    BY <1>0, <1>a, <2>1, AlignedTracks
  <2> QED
    BY <1>0, <1>a, <2>2 DEF StepInv
<1>b. ASSUME Stepping(h', fromModem', online'), Track(TRUE),
             h'.mode = "DATA" => ~Head1(h')
      PROVE  StepInv'
  <2>1. strayed' \/ Aligned(h', toModem', fromModem')
    BY <1>0, <1>b, AlignedTracks
  <2> QED
    BY <1>0, <1>b, <2>1 DEF StepInv
<1>1. CASE Start
  <2>1. Local(FALSE) /\ Even(h, h')
    BY <1>0, <1>1, StartEven DEF Start
  <2> QED
    BY <1>0, <1>a, <2>1, EvenLocal DEF Local
<1>2. CASE Stop
  <2>1. Track(TRUE)
    BY <1>2 DEF Stop, Local
  <2> QED
    BY <1>0, <1>b, <1>2, <2>1, StopSteps
<1>3. CASE HangUp
  <2>1. Local(h.mode = "DATA")
    BY <1>3 DEF HangUp
  <2>2. CASE h.mode = "DATA"
    <3>1. Device /\ h' = SetMode([h EXCEPT !.connected = FALSE], "INIT")
      BY <1>3, <2>2 DEF HangUp, Local
    <3>2. Local(TRUE)
      <4>1. (h.mode = "DATA") = TRUE
        BY <2>2
      <4> QED
        BY <2>1, <4>1, Zenon
    <3> QED
      BY <1>0, <1>b, <2>2, <3>1, <3>2, DataCallSteps DEF Local
  <2>3. CASE h.mode # "DATA"
    <3>1. Even(h, h')
      BY <1>0, <1>3, <2>3, HangUpEven
    <3> DEFINE g == (h.mode = "DATA")
    <3>2. Local(g)
      BY <2>1
    <3> HIDE DEF g
    <3> QED
      BY <1>0, <1>a, <3>1, <3>2, EvenLocal DEF Local
  <2> QED
    BY <2>2, <2>3
<1>4. ASSUME NEW k \in UserKinds, UserRequest(k) PROVE StepInv'
  <2>1. Local(FALSE) /\ Even(h, h')
    BY <1>0, <1>4, UserRequestEven DEF UserRequest
  <2> QED
    BY <1>0, <1>a, <2>1, EvenLocal DEF Local
<1>5. ASSUME NEW o \in BOOLEAN, OnReset(o) PROVE StepInv'
  <2>1. Track(TRUE)
    BY <1>5 DEF OnReset
  <2> QED
    BY <1>0, <1>b, <1>5, <2>1, OnResetSteps
<1>6. CASE OnTimeout
  <2>1. Track(TRUE)
    BY <1>6 DEF OnTimeout, Local
  <2> QED
    BY <1>0, <1>b, <1>6, <2>1, OnTimeoutSteps
<1>7. CASE OnQueueTimeout
  <2>1. Local(FALSE) /\ Even(h, h')
    BY <1>0, <1>7, OnQueueTimeoutEven DEF OnQueueTimeout
  <2> QED
    BY <1>0, <1>a, <2>1, EvenLocal DEF Local
<1>8. ASSUME NEW n \in 1 .. Len(fromModem), Read(n) PROVE StepInv'
  <2>1. Track(FALSE)
    BY <1>8 DEF Read
  <2> QED
    BY <1>0, <1>a, <1>8, <2>1, ReadSteps
<1>9. CASE ParseLine
  <2> DEFINE l == h.rd_buf[1]
             g == (l.code = "NO CARRIER" /\ ~l.final)
  <2>1. /\ Track(g) /\ Stepping(h', fromModem', online')
        /\ Aligned(h, toModem, fromModem) /\ ~g => Aligned(h', toModem', fromModem')
        /\ Aligned(h, toModem, fromModem) /\ h'.mode = "DATA" => ~Head1(h')
    BY <1>0, <1>9, ParseLineSteps
  <2> HIDE DEF g
  <2>2. strayed' \/ Aligned(h', toModem', fromModem')
    BY <1>0, <2>1, AlignedTracks
  <2> QED
    BY <1>0, <2>1, <2>2 DEF StepInv
<1>10. CASE ParseEnds
  <2>1. /\ Even(h, h') /\ UNCHANGED <<toModem, fromModem, online>> /\ Track(FALSE)
    BY <1>0, <1>10, ParseEndsEven DEF ParseEnds
  <2> QED
    BY <1>0, <1>a, <2>1, EvenSteps
<1>11. ASSUME NEW n \in 1 .. Len(h.wr_buf), Write(n) PROVE StepInv'
  <2>1. Track(FALSE)
    BY <1>11 DEF Write
  <2> QED
    BY <1>0, <1>a, <1>11, <2>1, WriteSteps
<1>12. CASE LineFails
  <2>1. Track(TRUE)
    BY <1>12 DEF LineFails, Local
  <2> QED
    BY <1>0, <1>b, <1>12, <2>1, LineFailsSteps
<1>13. CASE ReadPpp
  <2>1. Track(FALSE)
    BY <1>13 DEF ReadPpp, Local
  <2> QED
    BY <1>0, <1>a, <1>13, <2>1, ReadPppSteps
<1>14. CASE PppExits
  <2>1. h.rd_ppp_source /\ Local(TRUE) /\ h' = SetMode([h EXCEPT !.connected = FALSE], "INIT")
    BY <1>14 DEF PppExits
  <2>2. h.mode = "DATA"
    BY <1>0, <2>1 DEF HInv, AtRest, Shape, Inner, Modes
  <2> QED
    BY <1>0, <1>b, <2>1, <2>2, DataCallSteps DEF Local
<1>15. ASSUME NEW n \in 1 .. Len(h.rd_buf), WritePpp(n) PROVE StepInv'
  <2>1. Track(FALSE)
    BY <1>15 DEF WritePpp, Local
  <2> QED
    BY <1>0, <1>a, <1>15, <2>1, WritePppSteps
<1>16. CASE Answer \/ Trouble
  <2>1. PICK codes \in Answers(toModem[1]) \union Troubles(toModem[1]) : Reply(codes)
    BY <1>16 DEF Answer, Trouble
  <2>2. toModem # <<>> /\ Ends(codes)
    BY <1>16, <2>1, AnswersEnd DEF Answer, Trouble
  <2>3. Track(FALSE)
    BY <2>1 DEF Reply
  <2> QED
    BY <1>0, <1>a, <2>1, <2>2, <2>3, ReplySteps
<1>17. CASE Ignore
  <2>1. UNCHANGED <<h, fromModem, online>> /\ Track(TRUE)
    BY <1>17 DEF Ignore
  <2>2. strayed' \/ Aligned(h', toModem', fromModem')
    <3>1. Aligned(h, toModem, fromModem) /\ h'.mode = "DATA" => ~Head1(h')
      BY <2>1 DEF Aligned
    <3> QED
      BY <1>0, <2>1, <3>1, AlignedTracks
  <2> QED
    BY <1>0, <2>1, <2>2 DEF StepInv
<1>18. CASE News
  <2>1. PICK c \in {"CMTI", "NO CARRIER"} :
          /\ Send(<<Unsollicited(c)>>) /\ online' = (online /\ c # "NO CARRIER")
          /\ UNCHANGED <<h, toModem>> /\ Track(FALSE)
    BY <1>18 DEF News
  <2>2. c \in {"CMTI", "NO CARRIER", "ppp"} /\ (online' => online)
    BY <2>1
  <2> QED
    BY <1>0, <1>a, <2>1, <2>2, UnsollicitedSteps
<1>19. CASE Data
  <2>1. /\ Send(<<Unsollicited("ppp")>>)
        /\ UNCHANGED <<h, toModem, online>> /\ Track(FALSE)
    BY <1>19 DEF Data
  <2> QED
    BY <1>0, <1>a, <2>1, UnsollicitedSteps
<1>20. CASE UNCHANGED vars
  <2>1. UNCHANGED <<h, toModem, fromModem, online, strayed>>
    BY <1>20 DEF vars
  <2> QED
    BY <1>0, <2>1 DEF StepInv
<1> QED
  BY <1>1, <1>2, <1>3, <1>4, <1>5, <1>6, <1>7, <1>8, <1>9, <1>10, <1>11, <1>12, <1>13,
     <1>14, <1>15, <1>16, <1>17, <1>18, <1>19, <1>20 DEF Next, Program

\* The invariant behind the two theorems that follow, for any number of events,
\* commands kept, folders and faults.
THEOREM HayesStepInv == Spec => []StepInv
<1>1. Init => StepInv
  BY StepInvInit
<1>2. StepInv /\ [Next]_vars => StepInv'
  BY StepInvNext
<1> QED
  BY <1>1, <1>2, PTL DEF Spec

\* Until a command is given up (a timer, a reset, a line that is cut, an answer
\* that never comes) every line _parse_do takes for the answer to the first
\* command of the queue is one: what is written, at the modem or not parsed yet
\* is that command alone.
THEOREM HayesInStepUnlessStrayed == Spec => []InStepUnlessStrayed
<1>1. StepInv => InStepUnlessStrayed
  BY OutstandingIs DEF StepInv, Aligned, InStepUnlessStrayed
<1> QED
  BY <1>1, HayesStepInv, PTL

\* The line belongs to pppd during a data call: no command is active, no timer
\* runs, and nothing but its data is left to be written.
THEOREM HayesDataCallUndisturbed == Spec => []DataCallUndisturbed
<1>1. StepInv => DataCallUndisturbed
  <2>1. SUFFICES ASSUME StepInv, h.mode = "DATA", ~strayed
                 PROVE  ~h.timeout /\ ~Head1(h)
                        /\ \A i \in DOMAIN h.wr_buf : h.wr_buf[i] = "ppp"
    BY DEF DataCallUndisturbed
  <2>2. /\ h \in Structure /\ toModem \in Seq(Kind) /\ fromModem \in Seq(Line)
        /\ Timed(h) /\ Aligned(h, toModem, fromModem)
    BY <2>1 DEF StepInv, HInv, AtRest, Outside, Stepping
  <2>3. ~Head1(h) /\ ~h.timeout
    BY <2>1, <2>2 DEF Aligned, Timed
  <2>4. Written(h) = 0
    <3> DEFINE k == Written(h)
               m == Len(toModem)
               a == Count(fromModem, Finals)
               b == Count(h.rd_buf, Finals)
    <3>1. k \in Nat /\ m \in Nat /\ a \in Nat /\ b \in Nat
      BY <2>2, UnderParts
    <3>2. k + m + a + b = 0
      BY <2>2, <2>3 DEF Aligned, Under, Active
    <3> HIDE DEF k, m, a, b
    <3>3. k = 0
      BY <3>1, <3>2
    <3> QED
      BY <3>3 DEF k
  <2>5. h.wr_buf \in Seq(Kind \union {"ppp"})
    BY <2>2 DEF Structure
  <2>6. \A i \in DOMAIN h.wr_buf : h.wr_buf[i] \notin Kind
    BY <2>4, <2>5, CountBounds DEF Written
  <2>7. \A i \in DOMAIN h.wr_buf : h.wr_buf[i] \in Kind \union {"ppp"}
    BY <2>5, ElementOfSeq, LenProperties
  <2> QED
    BY <2>3, <2>6, <2>7
<1> QED
  BY <1>1, HayesStepInv, PTL
================================================================================
