----------------------------- MODULE AppInterface -----------------------------
(***************************************************************************)
(* The wire format of the RPC of libApp (libApp/src/appinterface.c) and    *)
(* what each side makes of a message that arrives in pieces: one call of   *)
(* one function, from the arguments on the client to the values it gets    *)
(* back.                                                                   *)
(*                                                                         *)
(* A byte is 0 or 1.  Integers of 8 and 32 bits are one and Wide bytes,    *)
(* the most significant first; a string is its bytes and a 0; a buffer is  *)
(* its size, an integer of Wide bytes, and its bytes.  An argument is a    *)
(* type and a direction; the interface files know the directions IN and,   *)
(* for strings and buffers, OUT (_string_type).                            *)
(*                                                                         *)
(* Bounds: strings and buffers of at most MaxLen bytes, MaxArgs arguments. *)
(***************************************************************************)
EXTENDS Integers, Sequences

CONSTANTS Wide,     \* bytes of an INT32
          BufSize,  \* bytes of the buffers of both sides
          MaxLen, MaxArgs,
          Types     \* the types of arguments the interface declares

Byte == {0, 1}

\* ntohl: the integer that some bytes are, most significant first.
Number(bytes) ==
  LET sum[k \in 0 .. Len(bytes)] == IF k = 0 THEN 0 ELSE 2 * sum[k - 1] + bytes[k]
  IN  sum[Len(bytes)]

\* htonl: the bytes of an integer, which is shifted to the right by one byte after
\* the other.
Bytes(v, width) ==
  LET rest[k \in 0 .. width] == IF k = 0 THEN v ELSE rest[k - 1] \div 2
  IN  [k \in 1 .. width |-> rest[width - k] % 2]

\* The integers there are of a width.
Numbers(width) == {Number(bytes) : bytes \in [1 .. width -> Byte]}

\* The size of a buffer can be sent.
ASSUME AppInterfaceAssumption ==
  /\ Wide \in Nat \ {0} /\ BufSize \in Nat /\ MaxLen \in Nat /\ MaxArgs \in Nat
  /\ 0 .. MaxLen \subseteq Numbers(Wide)
  /\ Types \subseteq {"int8", "int32", "int64", "string", "buffer", "string_out", "buffer_out"}

IsOut(t) == t \in {"string_out", "buffer_out"}

Texts(B) == UNION {[1 .. n -> B] : n \in 0 .. MaxLen}

\* The values of the arguments of a type.
Values(t) ==
  CASE t = "int8"  -> Numbers(1)
    [] t \in {"int32", "int64"} -> Numbers(Wide)
    [] t \in {"string", "string_out"} -> Texts({1})
    [] t \in {"buffer", "buffer_out"} -> Texts(Byte)

\* An argument is its type and its value.
Arguments == UNION {{<<t, v>> : v \in Values(t)} : t \in Types}
TypeOf(a) == a[1]
ValueOf(a) == a[2]

\* The name of the function called.
Name == <<1>>

VARIABLES args,  \* the arguments: IN from the client, OUT from the function
          phase, \* where the call is, or how it ended (Ends)
          wire,  \* the bytes under way to the other side
          buf,   \* the bytes that arrived there: its buf_read
          seen,  \* the IN arguments of each execution of the function
          got    \* the OUT arguments and the return value the client was given

vars == <<args, phase, wire, buf, seen, got>>

--------------------------------------------------------------------------------
\* The bytes _send_bytes and _send_string are given for a value.
Encoded(t, v) ==
  CASE t = "int8"  -> Bytes(v, 1)
    [] t = "int32" -> Bytes(v, Wide)
    [] t = "int64" -> Bytes(v, 2 * Wide)
    [] t \in {"string", "string_out"} -> Append(v, 0)
    [] t \in {"buffer", "buffer_out"} -> Bytes(Len(v), Wide) \o v

\* The arguments of one direction, encoded one after the other.
EncodedAll(out) ==
  LET bytes[k \in 0 .. Len(args)] ==
        IF k = 0 THEN << >>
        ELSE IF IsOut(TypeOf(args[k])) = out
        THEN bytes[k - 1] \o Encoded(TypeOf(args[k]), ValueOf(args[k]))
        ELSE bytes[k - 1]
  IN  bytes[Len(args)]

\* appinterface_call: the name and the IN arguments.
Request == Append(Name, 0) \o EncodedAll(FALSE)

\* _args_post_exec and _read_logged: the OUT arguments and the return value.
ReturnValue == 1
ReplySwapped == Bytes(ReturnValue, Wide) \o EncodedAll(TRUE)
Reply == EncodedAll(TRUE) \o Bytes(ReturnValue, Wide)

--------------------------------------------------------------------------------
(***************************************************************************)
(* Decoding.  A reader moves a position over the bytes that arrived and    *)
(* collects values, until it fails or asks for more data.                  *)
(***************************************************************************)
Read(pos, values) == [status |-> "ok", pos |-> pos, values |-> values]
Error == [status |-> "error", pos |-> 0, values |-> << >>]
More == [status |-> "more", pos |-> 0, values |-> << >>]

BytesAt(b, pos, n) == SubSeq(b, pos + 1, pos + n)

\* Off by one: the last byte is not seen.
HasBytesAlmost(b, pos, n) == pos + n < Len(b)

\* _read_bytes, and the test of its twin in appinterface_call_receive.
HasBytes(b, pos, n) == pos + n <= Len(b)

\* _read_string: the bytes up to the next 0, which has to be there.
ReadString(b, r) ==
  LET ends == {k \in r.pos + 1 .. Len(b) : b[k] = 0}
      end == CHOOSE k \in ends : \A n \in ends : k <= n
  IN  IF ends = {} THEN Error
      ELSE Read(end, Append(r.values, SubSeq(b, r.pos + 1, end - 1)))

\* An integer of n bytes.
ReadNumber(b, r, n, short) ==
  IF ~ HasBytes(b, r.pos, n) THEN short
  ELSE Read(r.pos + n, Append(r.values, Number(BytesAt(b, r.pos, n))))

\* A buffer: its size, then as many bytes.  "short" is what a side makes of a
\* message that ends too early.
ReadBuffer(b, r, short) ==
  LET n == Number(BytesAt(b, r.pos, Wide))
      data == r.pos + Wide
  IN  IF ~ HasBytes(b, r.pos, Wide) \/ ~ HasBytes(b, data, n) THEN short
      ELSE Read(data + n, Append(r.values, BytesAt(b, data, n)))

\* A server that goes on with the arguments it could read.
PreExecLenient(b, t, r) ==
  CASE t = "int8"   -> ReadNumber(b, r, 1, r)
    [] t = "int32"  -> ReadNumber(b, r, Wide, r)
    [] t = "int64"  -> Error
    [] t = "string" -> ReadString(b, r)
    [] t = "buffer" -> ReadBuffer(b, r, r)
    [] IsOut(t)     -> r

\* _pre_exec_in and _pre_exec_out, on the server: a message that ends too early
\* is an error, and so is a 64-bit integer.
PreExec(b, t, r) ==
  CASE t = "int8"   -> ReadNumber(b, r, 1, Error)
    [] t = "int32"  -> ReadNumber(b, r, Wide, Error)
    [] t = "int64"  -> Error
    [] t = "string" -> ReadString(b, r)
    [] t = "buffer" -> ReadBuffer(b, r, Error)
    [] IsOut(t)     -> r

\* The arguments of appinterface_call_receive, on the client: a buffer that is not
\* all there asks for more, a string without its end is an error.
CallRead(b, t, r) ==
  CASE t = "string_out" -> ReadString(b, r)
    [] t = "buffer_out" -> ReadBuffer(b, r, More)
    [] OTHER            -> r

\* The arguments in order, read by one side until one does not succeed.
ReadAll(side, b, start) ==
  LET arg[k \in 0 .. Len(args)] ==
        IF k = 0 THEN start
        ELSE IF arg[k - 1].status # "ok" THEN arg[k - 1]
        ELSE IF side = "server" THEN PreExec(b, TypeOf(args[k]), arg[k - 1])
        ELSE CallRead(b, TypeOf(args[k]), arg[k - 1])
  IN  arg[Len(args)]

\* appinterface_receive, up to the call: the name, then the arguments.
Receive(b) ==
  LET name == ReadString(b, Read(0, << >>))
      known == name.status = "ok" /\ name.values = <<Name>>
  IN  IF known THEN ReadAll("server", b, Read(name.pos, << >>)) ELSE Error

\* appinterface_call_receive: the arguments, then the return value.
CallReceive(b) ==
  LET all == ReadAll("client", b, Read(0, << >>))
  IN  IF all.status # "ok" THEN all ELSE ReadNumber(b, all, Wide, More)

--------------------------------------------------------------------------------
Init == /\ args \in UNION {[1 .. n -> Arguments] : n \in 0 .. MaxArgs}
        /\ phase = "new"
        /\ wire = << >> /\ buf = << >> /\ seen = << >> /\ got = << >>

\* appclient_call: the request is encoded whole before anything is sent.
Call == /\ phase = "new"
        /\ IF Len(Request) <= BufSize
           THEN phase' = "request" /\ wire' = Request
           ELSE phase' = "refused" /\ UNCHANGED wire
        /\ UNCHANGED <<args, buf, seen, got>>

\* _appserver_read: whatever read returned is taken for a whole request; if it
\* is not one the client is dropped.  The function runs before its results are
\* known to fit, and the client is dropped as well if they do not.
ServerReads(n) ==
  LET b == buf \o SubSeq(wire, 1, n)
      r == Receive(b)
      Drop == phase' = "dropped" /\ wire' = << >> /\ buf' = << >>
  IN  /\ phase = "request" /\ n \in 1 .. Len(wire)
      /\ \/ r.status = "error" /\ Drop /\ UNCHANGED seen
         \/ /\ r.status = "ok"
            /\ seen' = Append(seen, r.values)
            /\ \/ Len(Reply) > BufSize /\ Drop
               \/ /\ Len(Reply) <= BufSize
                  /\ phase' = "answer" /\ wire' = Reply
                  /\ buf' = SubSeq(b, r.pos + 1, Len(b))
      /\ UNCHANGED <<args, got>>

\* _appclient_read: the answer is decoded from its first byte on each time more
\* of it arrives.
ClientReads(n) ==
  LET b == buf \o SubSeq(wire, 1, n)
      r == CallReceive(b)
  IN  /\ phase = "answer" /\ n \in 1 .. Len(wire)
      /\ wire' = SubSeq(wire, n + 1, Len(wire))
      /\ \/ r.status = "more"  /\ buf' = b /\ UNCHANGED <<phase, got>>
         \/ r.status = "error" /\ buf' = b /\ phase' = "failed" /\ UNCHANGED got
         \/ /\ r.status = "ok"
            /\ phase' = "returned" /\ got' = r.values
            /\ buf' = SubSeq(b, r.pos + 1, Len(b))
      /\ UNCHANGED <<args, seen>>

Next == \/ Call
        \/ \E n \in 1 .. BufSize : ServerReads(n)
        \/ \E n \in 1 .. BufSize : ClientReads(n)

Spec == Init /\ [][Next]_vars

\* What is written to a socket is read from it, and both loops go on selecting.
FairSpec == Spec /\ WF_vars(Next)

--------------------------------------------------------------------------------
\* A call that was not sent, one the server closed the connection on, one whose
\* answer the client could not make sense of, and one that returned.
Ends == {"refused", "dropped", "failed", "returned"}

\* The values of the arguments of one direction, in order.
ValuesOf(out) ==
  LET values[k \in 0 .. Len(args)] ==
        IF k = 0 THEN << >>
        ELSE IF IsOut(TypeOf(args[k])) = out THEN Append(values[k - 1], ValueOf(args[k]))
        ELSE values[k - 1]
  IN  values[Len(args)]

\* The messages are bytes that fit the buffers of both sides.
TypeOK == /\ args \in Seq(Arguments) /\ Len(args) <= MaxArgs
          /\ phase \in {"new", "request", "answer"} \cup Ends
          /\ Len(wire) + Len(buf) <= BufSize
          /\ \A k \in DOMAIN wire : wire[k] \in Byte
          /\ \A k \in DOMAIN buf : buf[k] \in Byte

\* Messages fit the buffers, and however read cuts a request, the function is executed at most
\* once and only with the arguments the client passed: never on the beginning of
\* a request (_args_pre_exec, _receive_args).
ExecutedAsCalled == TypeOK /\ seen \in {<< >>, <<ValuesOf(FALSE)>>}

\* A call that returns gives the client what the function left in its OUT
\* arguments and its return value, and leaves no byte behind for the next call
\* to take for its own answer (appinterface_call_receive, _appclient_read).
\* It gives up on an answer that is still arriving only if there is a STRING_OUT
\* argument: whatever else has not all arrived, the size of a buffer or the
\* return value cut in two included, it asks for more.
ReturnsWhatWasAnswered ==
  /\ phase = "returned" => /\ got = Append(ValuesOf(TRUE), ReturnValue)
                           /\ Len(seen) = 1
                           /\ buf = << >> /\ wire = << >>
  /\ phase = "failed" => \E k \in DOMAIN args : TypeOf(args[k]) = "string_out"

\* Every call ends: no side waits for bytes that the other has already sent.
CallEnds == <>(phase \in Ends)
================================================================================
