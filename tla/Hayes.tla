------------------------------- MODULE Hayes -------------------------------
(***************************************************************************)
(* The modem of Phone: the Hayes plug-in (modems/hayes.c), the wrapper     *)
(* that starts and stops it (modem.c) and the requests Phone makes when an *)
(* event reaches it (phone.c).                                             *)
(*                                                                         *)
(* The plug-in lives in a GLib main loop.  It opens the serial device,     *)
(* initialises the modem, and sends the commands of its queue one at a     *)
(* time; each has a timer and a callback that the lines read from the      *)
(* modem, or the timer, conclude.  A data call hands the device to pppd.   *)
(* Every action below is one dispatch of the main loop: one of the         *)
(* plug-in's callbacks, or a call of Phone.  `h' is the structure Hayes;   *)
(* the operators that take and return it are the functions of hayes.c.     *)
(*                                                                         *)
(* What is outside the program is the modem (toModem, fromModem, online)   *)
(* and pppd.  A command is known by the callback it has, a line by the     *)
(* handler it reaches.                                                     *)
(***************************************************************************)
EXTENDS Naturals, Sequences, FiniteSets

CONSTANTS
  MaxPlain,    \* bound: settings commands kept of each run of them
  MaxLists,    \* bound: folders of messages listed, of four
  MaxEvents,   \* bound: requests of the user, failures of the device and
               \* troubles of the modem in one behaviour, without the timeouts
  MaxLate,     \* bound: commands the modem has yet to answer
  MaxData,     \* bound: pieces of data under way in each direction
  UserKinds,   \* the requests the user makes
  Faults       \* what may go wrong: see FaultKinds

FaultKinds == {"open",    \* open() of the device fails
               "line",    \* reading or writing the device fails
               "late",    \* the modem answers after the timer of the command
               "carrier", \* the modem reports NO CARRIER by itself
               "sim"}     \* the modem answers that the SIM is busy

ASSUME BoundsAssumption ==
  /\ MaxPlain \in Nat \ {0} /\ MaxLists \in 1 .. 4 /\ MaxEvents \in Nat
  /\ MaxLate \in Nat \ {0} /\ MaxData \in Nat
ASSUME FaultsAssumption == Faults \subseteq FaultKinds

VARIABLES
  h,          \* the Hayes structure, with modem->active
  toModem,    \* the commands the modem has not answered yet
  fromModem,  \* the lines and the data of the modem not read yet
  online,     \* the modem is in a data call
  strayed,    \* history: a command was given up and its answer may still come
  lost,       \* history: the text of a message was read and not reported
  budget      \* what is left of MaxEvents

vars == <<h, toModem, fromModem, online, strayed, lost, budget>>

-----------------------------------------------------------------------------
(* Commands and lines *)

\* HayesCommand: the callbacks that differ in what they do to the queue.
Kind == {"reset", "plain", "functional", "enable", "pin", "registration",
         "automatic", "creg", "cops", "contacts", "list", "message", "dial",
         "hangup", "active"}
ASSUME UserAssumption == UserKinds \subseteq Kind
Status == {"QUEUED", "ACTIVE", "TIMEOUT", "ERROR", "SUCCESS"}
Final == {"TIMEOUT", "ERROR", "SUCCESS"}
Command == [kind : Kind, status : Status, data : BOOLEAN, immediate : BOOLEAN]

\* _hayes_command_new: a command as it is handed to the queue; data tells
\* whether it carries a HayesRequestMessageData, immediate whether its priority
\* was raised to HCP_IMMEDIATE.
NewCommand(k, d) == [kind |-> k, status |-> "QUEUED", data |-> d, immediate |-> FALSE]

\* _reset_settle: the command that initialises the modem.
ResetCommand == [NewCommand("reset", FALSE) EXCEPT !.immediate = TRUE]

\* The lines, by the handler of _hayes_code_handlers they reach; "ppp" stands
\* for bytes of the data call.  `final' marks the last line of an answer: it is
\* history, the plug-in cannot see it.
Code == {"OK", "ERROR", "CME", "CME PIN", "CME SOS", "SIM BUSY", "NO CARRIER", "CONNECT",
         "CFUN 0", "CFUN 1", "CPIN READY", "CPIN PIN", "CREG 0", "CREG 1",
         "COPS", "COPS n", "COPS 2", "CPAS 0", "CPBR", "CMGL", "CMTI", "TEXT", "ppp"}
Line == [code : Code, final : BOOLEAN]
Sollicited(c, f) == [code |-> c, final |-> f]
Unsollicited(c) == [code |-> c, final |-> FALSE]

\* At most MaxPlain of n commands of the kind k.
Some(k, n) == [i \in 1 .. (IF n < MaxPlain THEN n ELSE MaxPlain) |-> k]

-----------------------------------------------------------------------------
(* The queue *)

Head1(s) == s.queue # <<>> /\ s.queue[1].status = "ACTIVE"
SetHead(s, st) == [s EXCEPT !.queue[1].status = st]

\* Mutant: commands are sent during a data call too.
PushInData(s) ==
  IF s.queue = <<>> THEN s
  ELSE [SetHead(s, "ACTIVE") EXCEPT
          !.wr_buf = Append(@, s.queue[1].kind),
          !.wr_source = s.channel \/ @,
          !.timeout = TRUE]

\* _hayes_queue_push: the first command becomes active, is copied to wr_buf and
\* gets its timer; nothing is sent during a data call.  The callback of
\* "automatic" then reports that the modem registers.
Push(s) ==
  IF s.queue = <<>> \/ s.mode = "DATA" THEN s
  ELSE [SetHead(s, "ACTIVE") EXCEPT
          !.disabled = @ /\ s.queue[1].kind # "automatic",
          !.wr_buf = Append(@, s.queue[1].kind),
          !.wr_source = s.channel \/ @,
          !.timeout = TRUE]

\* _hayes_queue_pop: the first command is freed and its timer removed.
Pop(s) ==
  [s EXCEPT !.timeout = FALSE,
            !.queue = IF @ = <<>> THEN @ ELSE Tail(@)]

\* Mutant: the first command is sent again for each command queued.
QueueAllAndPush(s, cs) ==
  IF s.mode = "INIT" /\ \E i \in DOMAIN cs : ~cs[i].immediate THEN s
  ELSE Push([s EXCEPT !.queue = @ \o cs])

\* _hayes_queue_command for each command of cs, in order: until the modem is
\* initialised only immediate commands are accepted, and a command is sent at
\* once only if the queue was empty.
QueueAll(s, cs) ==
  LET accepted == IF s.mode = "INIT" /\ \E i \in DOMAIN cs : ~cs[i].immediate
                  THEN <<>> ELSE cs
      queued == [s EXCEPT !.queue = @ \o accepted]
  IN IF s.queue = <<>> THEN Push(queued) ELSE queued

\* _request_do for a sequence of requests without data.
RequestAll(s, ks) == QueueAll(s, [i \in DOMAIN ks |-> NewCommand(ks[i], FALSE)])

\* Mutant: the source is forgotten, not removed.
ResetStopKeepsSource(s) ==
  [s EXCEPT !.mode = "INIT", !.queue = <<>>, !.queue_timeout = <<>>,
            !.source = "none", !.timeout = FALSE,
            !.channel = FALSE, !.rd_source = FALSE, !.wr_source = FALSE,
            !.rd_buf = <<>>, !.wr_buf = <<>>,
            !.ppp = FALSE, !.rd_ppp_source = FALSE, !.wr_ppp_source = FALSE,
            !.connected = FALSE, !.authenticated = FALSE, !.disabled = FALSE]

\* Mutant: the end of the connection is not reported.
ResetStopStaysConnected(s) ==
  [s EXCEPT !.mode = "INIT", !.queue = <<>>, !.queue_timeout = <<>>,
            !.live = @ \ {s.source}, !.source = "none", !.timeout = FALSE,
            !.channel = FALSE, !.rd_source = FALSE, !.wr_source = FALSE,
            !.rd_buf = <<>>, !.wr_buf = <<>>,
            !.ppp = FALSE, !.rd_ppp_source = FALSE, !.wr_ppp_source = FALSE,
            !.authenticated = FALSE, !.disabled = FALSE]

\* _hayes_queue_flush with the rest of _hayes_reset_stop: everything is freed,
\* closed and removed, and the connection is no longer reported.
ResetStop(s) ==
  [s EXCEPT !.mode = "INIT", !.queue = <<>>, !.queue_timeout = <<>>,
            !.live = @ \ {s.source}, !.source = "none", !.timeout = FALSE,
            !.channel = FALSE, !.rd_source = FALSE, !.wr_source = FALSE,
            !.rd_buf = <<>>, !.wr_buf = <<>>,
            !.ppp = FALSE, !.rd_ppp_source = FALSE, !.wr_ppp_source = FALSE,
            !.connected = FALSE, !.authenticated = FALSE, !.disabled = FALSE]

\* g_idle_add or g_timeout_add of k, kept in hayes->source.
AddSource(s, k) == [s EXCEPT !.live = @ \union {k}, !.source = k]

\* _hayes_reset_start: an idle source will run _on_reset.
ResetStart(s) == AddSource(s, "reset")

\* _hayes_reset
Reset(s) == ResetStart(ResetStop(s))

\* The registration is reported: Phone registers when the modem is not to.
RegistrationEvent(s) == IF s.disabled THEN RequestAll(s, <<"automatic">>) ELSE s

\* _hayes_set_mode: leaving a data call is always a reset, entering one is
\* reported before the mode changes.
SetMode(s, m) ==
  LET t == CASE s.mode # m /\ s.mode = "DATA" -> Reset(s)
             [] s.mode # m /\ m = "DATA" -> RegistrationEvent(s)
             [] OTHER -> s
  IN [t EXCEPT !.mode = m]

-----------------------------------------------------------------------------
(* The callbacks of the commands *)

\* What Phone requests when the modem is reported online: the SIM is checked.
OnOnline == <<"pin">>

\* What the callback of a command of kind k requests once it has concluded with
\* the status st.  authenticated is what the last +CPIN line said.
FollowUp(k, st, authenticated) ==
  CASE k = "reset" /\ st = "SUCCESS" -> Some("plain", 4) \o <<"functional">>
    [] k = "functional" /\ st = "ERROR" -> <<"enable">>
    [] k = "enable" /\ st = "SUCCESS" -> OnOnline
    [] k = "enable" /\ st = "TIMEOUT" -> <<"enable">>
    [] k = "pin" /\ st = "SUCCESS" /\ authenticated ->
         Some("plain", 7) \o <<"registration", "contacts">>
    [] k \in {"registration", "automatic"} /\ st = "SUCCESS" -> <<"creg">>
    [] k = "hangup" /\ st # "TIMEOUT" -> <<"active">>
    [] OTHER -> <<>>

\* The four requests of _request_attention_message_list, MaxLists of them, each
\* with its data.
ListAll == [i \in 1 .. MaxLists |-> NewCommand("list", TRUE)]

\* _hayes_command_set_status of the first command to a final status: the
\* callback runs while the command is still the first of the queue.
Conclude(s, st) ==
  LET k == s.queue[1].kind
      freed == [SetHead(s, st) EXCEPT !.queue[1].data =
                  IF k \in {"list", "message"} THEN FALSE ELSE @]
      reported == [freed EXCEPT
                     !.authenticated = @ /\ (k = "pin" => st = "SUCCESS"),
                     !.disabled = @ /\ (k = "automatic" => st = "SUCCESS")]
      moded == IF k = "reset" /\ st = "SUCCESS" THEN SetMode(reported, "COMMAND")
               ELSE reported
      asked == RequestAll(moded, FollowUp(k, st, s.authenticated))
  IN CASE k = "reset" /\ st # "SUCCESS" -> QueueAll(asked, <<ResetCommand>>)
       [] k = "pin" /\ st = "SUCCESS" /\ s.authenticated -> QueueAll(asked, ListAll)
       [] OTHER -> asked

ConcludeHead(s, st) == IF s.queue = <<>> THEN s ELSE Conclude(s, st)

-----------------------------------------------------------------------------
(* The lines of the modem *)

\* _on_code_cme_error and _on_code_cms_error, SIM busy: the command has failed,
\* and a copy of it is kept for later.
OnSimBusy(s) ==
  IF s.queue = <<>> THEN s
  ELSE LET failed == Conclude(s, "ERROR")
           command == failed.queue[1]
           kept == [failed EXCEPT
                      !.queue_timeout = Append(@, NewCommand(command.kind,
                                                             command.data)),
                      !.queue[1].data = FALSE]
       IN IF kept.source = "none" THEN AddSource(kept, "repeat") ELSE kept

\* _on_code_connect: the active command has succeeded, pppd is started and the
\* device is its own until the modem is reset.  pppd can be started: when it
\* cannot, the code resets the modem and goes on with the command it has freed.
OnConnect(s) ==
  [SetMode(ConcludeHead(s, "SUCCESS"), "DATA") EXCEPT
     !.ppp = TRUE, !.rd_ppp_source = TRUE, !.wr_ppp_source = FALSE,
     !.connected = TRUE]

\* _on_code_call_error: the call has ended, its status is asked for.
OnCallError(s) == RequestAll(ConcludeHead(s, "ERROR"), <<"active">>)

\* _on_code_cme_error and _on_code_cms_error, any other error: the SIM is checked
\* after "CME PIN", when it wants its PIN, and after "CME SOS", when there are
\* emergency calls only.
OnCmeError(s, c) ==
  LET failed == ConcludeHead(s, "ERROR")
  IN CASE c = "CME PIN" -> RequestAll([failed EXCEPT !.authenticated = FALSE], <<"pin">>)
       [] c = "CME SOS" -> RequestAll(RegistrationEvent(failed), <<"pin">>)
       [] OTHER -> failed

\* _on_code_cfun: the modem is reported online, or offline and Phone enables it.
OnCfun(s, c) == RequestAll(s, IF c = "CFUN 1" THEN OnOnline ELSE <<"enable">>)

\* _on_code_cpin
OnCpin(s, c) == [s EXCEPT !.authenticated = c = "CPIN READY"]

\* _on_code_creg: registered, and the operator is asked for, or not to register.
OnCreg(s, c) ==
  LET told == [s EXCEPT !.disabled = c = "CREG 0"]
  IN RegistrationEvent(IF c = "CREG 1" THEN RequestAll(told, <<"cops">>) ELSE told)

\* _on_code_cops: "COPS n" is an operator given by its number, which is asked for
\* in another format, and "COPS 2" a modem that is not to register.
OnCops(s, c) ==
  LET told == [s EXCEPT !.disabled = c = "COPS 2"]
      format == IF c = "COPS n" THEN <<"registration">> ELSE <<>>
  IN RegistrationEvent(RequestAll(told, format \o Some("plain", 2)))

\* _on_code_cpas: no call is left, and so no connection.
OnCpas(s) == [s EXCEPT !.connected = FALSE]

\* _on_code_cpbr: the contacts in the range that was reported are listed.
OnCpbr(s) == RequestAll(s, <<"plain">>)

\* _on_code_cmgl: a message of the list is fetched, with its data.
OnCmgl(s) == QueueAll(s, <<NewCommand("message", TRUE)>>)

\* _on_code_cmti: a new message is fetched, without.
OnCmti(s) == QueueAll(s, <<NewCommand("message", FALSE)>>)

\* _hayes_parse_trigger: the handler of a line, with what Phone requests when
\* the event of the handler reaches it.
Trigger(s, c) ==
  CASE c = "NO CARRIER" -> OnCallError(s)
    [] c \in {"CME", "CME PIN", "CME SOS"} -> OnCmeError(s, c)
    [] c = "SIM BUSY" -> OnSimBusy(s)
    [] c = "CONNECT" -> OnConnect(s)
    [] c \in {"CFUN 0", "CFUN 1"} -> OnCfun(s, c)
    [] c \in {"CPIN READY", "CPIN PIN"} -> OnCpin(s, c)
    [] c \in {"CREG 0", "CREG 1"} -> OnCreg(s, c)
    [] c \in {"COPS", "COPS n", "COPS 2"} -> OnCops(s, c)
    [] c = "CPAS 0" -> OnCpas(s)
    [] c = "CPBR" -> OnCpbr(s)
    [] c = "CMGL" -> OnCmgl(s)
    [] c = "CMTI" -> OnCmti(s)
    [] OTHER -> s

\* _on_request_generic: the lines that conclude any command.
StatusOf(c) == CASE c = "OK" -> "SUCCESS" [] c = "ERROR" -> "ERROR" [] OTHER -> "ACTIVE"

\* Mutant: the next command is not sent when one ends.
ParseDoNoPush(s, c) ==
  IF ~Head1(s) THEN Trigger(s, c)
  ELSE LET t == Trigger(s, c)
           u == IF t.queue[1].status = "ACTIVE" /\ StatusOf(c) # "ACTIVE"
                THEN Conclude(t, StatusOf(c)) ELSE t
       IN IF u.queue[1].status \in Final THEN Pop(u) ELSE u

\* _parse_do: the handler, then the callback of the active command, which leaves
\* the queue if one of them has concluded it.
ParseDo(s, c) ==
  IF ~Head1(s) THEN Trigger(s, c)
  ELSE LET t == Trigger(s, c)
           u == IF t.queue[1].status = "ACTIVE" /\ StatusOf(c) # "ACTIVE"
                THEN Conclude(t, StatusOf(c)) ELSE t
       IN IF u.queue[1].status \in Final THEN Push(Pop(u)) ELSE u

\* A whole line is in the buffer.
HasLine(buf) == buf # <<>> /\ buf[1].code # "ppp"

-----------------------------------------------------------------------------
(* Commands and answers on the line *)

\* The commands the modem has not concluded yet: still to be written, with the
\* modem, or answered by a line that has not been parsed.
Outstanding ==
  Cardinality({i \in DOMAIN h.wr_buf : h.wr_buf[i] # "ppp"}) + Len(toModem)
    + Cardinality({i \in DOMAIN fromModem : fromModem[i].final})
    + Cardinality({i \in DOMAIN h.rd_buf : h.rd_buf[i].final})

\* What is under way is the active command, and nothing else.
InStep == Outstanding = IF Head1(h) THEN 1 ELSE 0

Idle == Outstanding = 0 /\ ~Head1(h)

\* History: once a command was given up with its answer to come, the answers may
\* belong to other commands until neither side has anything under way.
Track(givenup) == strayed' = ((givenup /\ ~InStep') \/ (strayed /\ ~Idle'))

\* The program leaves what is outside alone, unless it closes the device: then
\* what was not read is lost and the modem hangs up.
Device ==
  IF h.channel /\ ~h'.channel
  THEN fromModem' = <<>> /\ online' = FALSE
  ELSE UNCHANGED <<fromModem, online>>

Local(givenup) == Device /\ UNCHANGED <<toModem, lost>> /\ Track(givenup)

Spend == budget > 0 /\ budget' = budget - 1

-----------------------------------------------------------------------------
(* Phone *)

\* hayes_init: nothing is open, nothing is queued.
Init ==
  /\ h = [active |-> FALSE, mode |-> "INIT", queue |-> <<>>,
          queue_timeout |-> <<>>, source |-> "none", live |-> {},
          timeout |-> FALSE, channel |-> FALSE, rd_source |-> FALSE,
          wr_source |-> FALSE, rd_buf |-> <<>>, wr_buf |-> <<>>, ppp |-> FALSE,
          rd_ppp_source |-> FALSE, wr_ppp_source |-> FALSE, connected |-> FALSE,
          authenticated |-> FALSE, disabled |-> FALSE, parsing |-> FALSE]
  /\ toModem = <<>> /\ fromModem = <<>> /\ online = FALSE
  /\ strayed = FALSE /\ lost = FALSE
  /\ budget = MaxEvents

\* modem_start, for PHONE_EVENT_TYPE_STARTING.
Start ==
  /\ ~h.parsing /\ ~h.active
  /\ h' = [ResetStart(h) EXCEPT !.active = TRUE]
  /\ UNCHANGED budget /\ Local(FALSE)

\* modem_stop, for PHONE_EVENT_TYPE_STOPPING and when the settings change.
Stop ==
  /\ ~h.parsing /\ h.active /\ Spend
  /\ h' = [ResetStop(h) EXCEPT !.active = FALSE]
  /\ Local(TRUE)

\* modem_request of a command that is sent as it is; the messages are listed by
\* four requests.
UserRequest(k) ==
  /\ ~h.parsing /\ Spend
  /\ h' = IF k = "list" THEN QueueAll(h, ListAll) ELSE RequestAll(h, <<k>>)
  /\ Local(FALSE)

\* MODEM_REQUEST_CALL_HANGUP: a data call ends with a reset, no command is sent.
HangUp ==
  /\ ~h.parsing /\ Spend
  /\ h' = IF h.mode = "DATA" THEN SetMode([h EXCEPT !.connected = FALSE], "INIT")
          ELSE RequestAll(h, <<"hangup">>)
  /\ Local(h.mode = "DATA")

-----------------------------------------------------------------------------
(* The callbacks of the main loop *)

\* The source k is dispatched: it returns FALSE, which removes it.
Dispatched(k) == [h EXCEPT !.live = @ \ {k}]

\* Mutant: a device that cannot be opened is not tried again.
OnResetOnce(opened) ==
  /\ ~h.parsing /\ "reset" \in h.live
  /\ opened \/ "open" \in Faults
  /\ LET s == ResetStop(Dispatched("reset"))
     IN h' = IF opened
             THEN QueueAll([s EXCEPT !.channel = TRUE, !.rd_source = TRUE],
                           <<ResetCommand>>)
             ELSE s
  /\ fromModem' = <<>>
  /\ UNCHANGED <<toModem, online, lost, budget>>
  /\ Track(TRUE)

\* _on_reset: the device is opened and the modem initialised, or it is tried
\* again later.  Opening it discards what the modem has sent meanwhile.
OnReset(opened) ==
  /\ ~h.parsing /\ "reset" \in h.live
  /\ opened \/ "open" \in Faults
  /\ LET s == ResetStop(Dispatched("reset"))
     IN h' = IF opened
             THEN QueueAll([s EXCEPT !.channel = TRUE, !.rd_source = TRUE],
                           <<ResetCommand>>)
             ELSE AddSource(s, "reset")
  /\ fromModem' = <<>>
  /\ UNCHANGED <<toModem, online, lost, budget>>
  /\ Track(TRUE)

\* _on_timeout: the first command has not been concluded in time.
OnTimeout ==
  /\ ~h.parsing /\ h.timeout
  /\ "late" \in Faults /\ Outstanding <= MaxLate
  /\ h' = LET s == [h EXCEPT !.timeout = FALSE]
          IN IF s.queue = <<>> THEN s ELSE Push(Pop(Conclude(s, "TIMEOUT")))
  /\ UNCHANGED budget /\ Local(TRUE)

\* Mutant: only the first of the commands kept is queued again.
OnQueueTimeoutOnce ==
  /\ ~h.parsing /\ "repeat" \in h.live
  /\ h' = LET s == [Dispatched("repeat") EXCEPT !.source = "none"]
          IN IF s.queue_timeout = <<>> THEN s
             ELSE QueueAll([s EXCEPT !.queue_timeout = Tail(@)],
                           <<s.queue_timeout[1]>>)
  /\ UNCHANGED budget /\ Local(FALSE)

\* _on_queue_timeout: one of the commands kept while the SIM was busy is queued
\* again, and the registration is checked after the last one.
OnQueueTimeout ==
  /\ ~h.parsing /\ "repeat" \in h.live
  /\ h' = LET s == [Dispatched("repeat") EXCEPT !.source = "none"]
              t == QueueAll([s EXCEPT !.queue_timeout = Tail(@)],
                            <<s.queue_timeout[1]>>)
          IN CASE s.queue_timeout = <<>> -> s
               [] Len(s.queue_timeout) > 1 -> AddSource(t, "repeat")
               [] OTHER -> RequestAll(t, <<"creg">>)
  /\ UNCHANGED budget /\ Local(FALSE)

\* _on_watch_can_read: up to n lines or pieces of data are read.  They are
\* parsed at once, or kept for pppd during a data call.
Read(n) ==
  /\ ~h.parsing /\ h.rd_source /\ n \in 1 .. Len(fromModem)
  /\ h' = [h EXCEPT !.rd_buf = @ \o SubSeq(fromModem, 1, n),
                    !.parsing = h.mode # "DATA",
                    !.wr_ppp_source = @ \/ (h.mode = "DATA" /\ h.ppp)]
  /\ fromModem' = SubSeq(fromModem, n + 1, Len(fromModem))
  /\ UNCHANGED <<toModem, online, lost, budget>>
  /\ Track(FALSE)

\* _hayes_parse, one turn of its loop: the first line is handled, then removed.
\* The text of a message is reported if the active command carries its data.
\* When the handler has reset the modem the loop takes the length of the line
\* from a count that is zero, and moves that much of a buffer that was freed:
\* the program does not survive that, and nothing follows.
ParseLine ==
  /\ h.parsing /\ HasLine(h.rd_buf)
  /\ LET l == h.rd_buf[1]
     IN \E s \in {ParseDo(h, l.code)} :
          /\ s.rd_buf # <<>>
          /\ h' = [s EXCEPT !.rd_buf = Tail(@)]
          /\ lost' = (lost \/ (l.code = "TEXT" /\
                         ~(h.queue # <<>> /\ h.queue[1].kind = "message"
                             /\ h.queue[1].data)))
          /\ Device /\ UNCHANGED <<toModem, budget>>
          /\ Track(l.code = "NO CARRIER" /\ ~l.final)

\* _hayes_parse returns: no whole line is left.
ParseEnds ==
  /\ h.parsing /\ ~HasLine(h.rd_buf)
  /\ h' = [h EXCEPT !.parsing = FALSE]
  /\ UNCHANGED <<toModem, fromModem, online, lost, budget>>
  /\ Track(FALSE)

\* The commands among what is written, in their order.
Commands(buf) ==
  LET f[i \in 0 .. Len(buf)] ==
        IF i = 0 THEN <<>>
        ELSE IF buf[i] # "ppp" THEN Append(f[i - 1], buf[i]) ELSE f[i - 1]
  IN f[Len(buf)]

\* _on_watch_can_write: n commands or pieces of data are written.  Those of
\* pppd, and anything written during a data call, are not commands to the modem.
Write(n) ==
  /\ ~h.parsing /\ h.wr_source /\ n \in 1 .. Len(h.wr_buf)
  /\ h' = [h EXCEPT !.wr_buf = SubSeq(@, n + 1, Len(@)),
                    !.wr_source = n < Len(h.wr_buf)]
  /\ toModem' = IF online THEN toModem
                ELSE toModem \o Commands(SubSeq(h.wr_buf, 1, n))
  /\ UNCHANGED <<fromModem, online, lost, budget>>
  /\ Track(FALSE)

\* _on_watch_can_read or _on_watch_can_write fails.
LineFails ==
  /\ ~h.parsing /\ "line" \in Faults /\ (h.rd_source \/ h.wr_source)
  /\ Spend
  /\ h' = Reset(h)
  /\ Local(TRUE)

\* _on_watch_can_read_ppp: data of pppd for the line.
ReadPpp ==
  /\ ~h.parsing /\ h.rd_ppp_source /\ Len(h.wr_buf) < MaxData
  /\ h' = [h EXCEPT !.wr_buf = Append(@, "ppp"), !.wr_source = @ \/ h.channel]
  /\ UNCHANGED budget /\ Local(FALSE)

\* _on_watch_can_write_ppp: n pieces of data go to pppd.
WritePpp(n) ==
  /\ ~h.parsing /\ h.wr_ppp_source /\ n \in 1 .. Len(h.rd_buf)
  /\ h' = [h EXCEPT !.rd_buf = SubSeq(@, n + 1, Len(@)),
                    !.wr_ppp_source = n < Len(h.rd_buf)]
  /\ UNCHANGED budget /\ Local(FALSE)

\* pppd has ended: its pipes fail in _on_watch_can_read_ppp or
\* _on_watch_can_write_ppp, and the data call is over.
PppExits ==
  /\ ~h.parsing /\ h.rd_ppp_source
  /\ h' = SetMode([h EXCEPT !.connected = FALSE], "INIT")
  /\ UNCHANGED budget /\ Local(TRUE)

-----------------------------------------------------------------------------
(* The modem.  What it does while a read is being parsed commutes with the *)
(* parsing, which touches neither toModem nor fromModem: it acts between   *)
(* two dispatches of the main loop.                                        *)

\* The answers a command gets when all is well, and the ones that report that
\* something is not.  An answer ends with the line that concludes the command.
Answers(k) ==
  CASE k = "functional" -> {<<"CFUN 1", "OK">>}
    [] k = "pin" -> {<<"CPIN READY", "OK">>}
    [] k = "creg" -> {<<"CREG 1", "OK">>}
    [] k = "cops" -> {<<"COPS", "OK">>}
    [] k = "contacts" -> {<<"CPBR", "OK">>}
    [] k = "list" -> {<<"OK">>, <<"CMGL", "OK">>}
    [] k = "message" -> {<<"TEXT", "OK">>}
    [] k = "active" -> {<<"CPAS 0", "OK">>}
    [] k = "dial" -> {<<"CONNECT">>}
    [] OTHER -> {<<"OK">>}

Troubles(k) ==
  {<<"ERROR">>} \union
  CASE k = "functional" -> {<<"CFUN 0", "OK">>}
    [] k = "pin" -> {<<"CPIN PIN", "OK">>, <<"CME PIN">>}
    [] k = "creg" -> {<<"CREG 0", "OK">>}
    [] k = "cops" -> {<<"COPS n", "OK">>, <<"COPS 2", "OK">>, <<"CME SOS">>}
    [] k \in {"list", "message"} ->
         {<<"CME">>} \union (IF "sim" \in Faults THEN {<<"SIM BUSY">>} ELSE {})
    [] k = "dial" -> {<<"NO CARRIER">>}
    [] OTHER -> {}

\* The lines ls are sent; they are lost if the device is closed.
Send(ls) == fromModem' = IF h.channel THEN fromModem \o ls ELSE fromModem

Reply(codes) ==
  /\ Send([i \in DOMAIN codes |-> Sollicited(codes[i], i = Len(codes))])
  /\ online' = (codes = <<"CONNECT">> /\ h.channel)
  /\ toModem' = IF codes = <<"CONNECT">> THEN <<>> ELSE Tail(toModem)
  /\ UNCHANGED <<h, lost>>
  /\ Track(FALSE)

\* The modem carries out the first command it has.
Answer ==
  /\ ~h.parsing /\ toModem # <<>> /\ UNCHANGED budget
  /\ \E codes \in Answers(toModem[1]) : Reply(codes)

Trouble ==
  /\ ~h.parsing /\ toModem # <<>> /\ Spend
  /\ \E codes \in Troubles(toModem[1]) : Reply(codes)

\* The modem never answers a command.
Ignore ==
  /\ ~h.parsing /\ toModem # <<>> /\ "late" \in Faults /\ Spend
  /\ toModem' = Tail(toModem)
  /\ UNCHANGED <<h, fromModem, online, lost>>
  /\ Track(TRUE)

\* The modem reports something by itself: a new message, or that the line was
\* cut.
News ==
  /\ ~h.parsing /\ h.channel /\ Spend
  /\ \E c \in {"CMTI"} \union (IF "carrier" \in Faults THEN {"NO CARRIER"} ELSE {}) :
       /\ c = "CMTI" => ~online
       /\ Send(<<Unsollicited(c)>>)
       /\ online' = (online /\ c # "NO CARRIER")
  /\ UNCHANGED <<h, toModem, lost>>
  /\ Track(FALSE)

\* Data of the other end of the data call.
Data ==
  /\ ~h.parsing /\ online /\ Len(fromModem) + Len(h.rd_buf) < MaxData
  /\ Send(<<Unsollicited("ppp")>>)
  /\ UNCHANGED <<h, toModem, online, lost, budget>>
  /\ Track(FALSE)

Program ==
  \/ Start \/ Stop \/ HangUp \/ \E k \in UserKinds : UserRequest(k)
  \/ \E o \in BOOLEAN : OnReset(o)
  \/ OnTimeout \/ OnQueueTimeout
  \/ \E n \in 1 .. Len(fromModem) : Read(n)
  \/ ParseLine \/ ParseEnds
  \/ \E n \in 1 .. Len(h.wr_buf) : Write(n)
  \/ LineFails \/ ReadPpp \/ PppExits
  \/ \E n \in 1 .. Len(h.rd_buf) : WritePpp(n)

Next == Program \/ Answer \/ Trouble \/ Ignore \/ News \/ Data

Spec == Init /\ [][Next]_vars

\* The main loop dispatches every source that stays ready, a device that is
\* there can be opened, and the modem answers what it does not ignore.
Fairness ==
  /\ WF_vars(OnReset(TRUE))
  /\ WF_vars(OnTimeout)
  /\ WF_vars(OnQueueTimeout)
  /\ WF_vars((\E n \in 1 .. Len(fromModem) : Read(n)) \/ ParseLine \/ ParseEnds)
  /\ WF_vars(\E n \in 1 .. Len(h.wr_buf) : Write(n))
  /\ WF_vars(Answer)

FairSpec == Spec /\ Fairness

-----------------------------------------------------------------------------
(* Properties *)

TypeOK ==
  /\ h \in [active : BOOLEAN, mode : {"INIT", "COMMAND", "DATA"},
            queue : Seq(Command), queue_timeout : Seq(Command),
            source : {"none", "reset", "repeat"}, live : SUBSET {"reset", "repeat"},
            timeout : BOOLEAN, channel : BOOLEAN, rd_source : BOOLEAN,
            wr_source : BOOLEAN, rd_buf : Seq(Line), wr_buf : Seq(Kind \union {"ppp"}),
            ppp : BOOLEAN, rd_ppp_source : BOOLEAN, wr_ppp_source : BOOLEAN,
            connected : BOOLEAN, authenticated : BOOLEAN, disabled : BOOLEAN,
            parsing : BOOLEAN]
  /\ toModem \in Seq(Kind) /\ fromModem \in Seq(Line)
  /\ online \in BOOLEAN /\ strayed \in BOOLEAN /\ lost \in BOOLEAN
  /\ budget \in 0 .. MaxEvents

\* Between two dispatches, outside a data call, the queue is at work: its first
\* command is active with a timer running, and the others wait.  Every way a
\* command ends (_parse_do, _on_timeout, a reset) has to send the next one.
HeadActive ==
  ~h.parsing /\ h.mode # "DATA" =>
    /\ \A i \in DOMAIN h.queue :
         h.queue[i].status = IF i = 1 THEN "ACTIVE" ELSE "QUEUED"
    /\ h.timeout <=> h.queue # <<>>

\* _parse_do takes every line for the answer to the first command.  It is right
\* as long as no command was given up: what is written, at the modem or not yet
\* parsed is the active command alone, whatever the callbacks have queued.
InStepUnlessStrayed == strayed \/ InStep

\* Until the modem is initialised the queue holds ATZ alone, and holds it for as
\* long as the device is open: _hayes_queue_command refuses everything else, and
\* _on_reset_callback sends another when one fails.
InitHasReset ==
  h.mode = "INIT" =>
    /\ \A i \in DOMAIN h.queue : h.queue[i].kind = "reset"
    /\ h.channel <=> h.queue # <<>>

\* The queue neither stalls nor holds what the modem cannot take yet.
QueueAtWork == HeadActive /\ InitHasReset

\* hayes->source holds the only idle or timeout source there is, whichever of
\* _hayes_reset_start, _on_reset and the SIM busy handlers added it: once
\* modem_stop has run, no callback of the plug-in is left.
NothingOutlivesStop ==
  /\ h.live = {h.source} \ {"none"}
  /\ ~h.active => /\ h.live = {} /\ ~h.timeout /\ ~h.channel
                  /\ ~h.rd_source /\ ~h.wr_source /\ ~h.rd_ppp_source
                  /\ h.queue = <<>>

\* A command kept while the SIM is busy has a timer that queues it again.
RepeatsScheduled == h.queue_timeout # <<>> <=> h.source = "repeat"

\* There is a watch for writing exactly when there is something to write, so no
\* command waits in wr_buf unnoticed.
WriteArmed == h.wr_source <=> h.wr_buf # <<>>

\* Whatever waits has the source that will fetch it, after any number of resets.
Armed == TypeOK /\ RepeatsScheduled /\ WriteArmed

\* Phone is told that it is connected during a data call only: every way out of
\* it (pppd ends, the device fails, the user hangs up) reports the end.
ConnectionReported == h.connected => h.mode = "DATA"

\* During a data call no command is active, no timer runs and no command goes
\* down the line into the data, unless a command had been given up before.
DataCallUndisturbed ==
  h.mode = "DATA" =>
    \/ strayed
    \/ /\ ~h.timeout /\ ~Head1(h)
       /\ \A i \in DOMAIN h.wr_buf : h.wr_buf[i] = "ppp"

\* A modem that is started comes to rest again and again, whatever fails
\* meanwhile (the device, the line, answers that are late or never come): it is
\* initialised and no command is left in either queue, or a data call holds them.
Settles ==
  []<>(\/ ~h.active
       \/ h.mode = "DATA"
       \/ h.mode = "COMMAND" /\ h.queue = <<>> /\ h.queue_timeout = <<>>)

\* "fetch the new message directly", says _on_code_cmti: the text of a message
\* that was asked for reaches Phone.
NoMessageLost == ~lost
====
