-------------------------- MODULE AppInterfaceProofs --------------------------
(***************************************************************************)
(* Proofs about the wire format of libApp, for every set of types, every   *)
(* size of the buffers and of an INT32, and however read cuts a message:   *)
(* the function is executed at most once and as it was called, and a call  *)
(* that returns was given what the function answered.                      *)
(*                                                                         *)
(* The argument.  (1) What is sent for one value is read back: an integer  *)
(* of w bytes is the number of its bytes (NumberOfBytes), a string ends at *)
(* its own 0 (ReadsString), the size of a buffer is what it was            *)
(* (ReadsBuffer).  (2) A reader on a part of a stream takes all of an      *)
(* argument or does not succeed (OneArgument), so that after k arguments   *)
(* its position is the end of the k-th in the stream and its values are    *)
(* the first k that were sent, or it has failed (Reads).  (3) A side that  *)
(* succeeds on the beginning of a message therefore has all of it          *)
(* (ServerReceives, ClientReceives), which makes WireInv inductive: what   *)
(* has arrived and what is under way are together the request or the       *)
(* answer.                                                                 *)
(*                                                                         *)
(* The recursive functions of the model are handled by their prefixes:     *)
(* each exists (Recursion), so that CHOOSE picks one, and what holds of    *)
(* its first value and of each next one holds up to the last (UpTo).       *)
(***************************************************************************)
EXTENDS AppInterface, SequenceTheorems, WellFoundedInduction, TLAPS

\* Every nonempty set of natural numbers has a least element.
LEMMA Least ==
  ASSUME NEW T \in SUBSET Nat, T # {}
  PROVE  \E m \in T : \A n \in T : m <= n
<1>1. PICK m \in T : \A n \in T : ~(<<n, m>> \in OpToRel(<, Nat))
  BY NatLessThanWellFounded, WFMin
<1>2. ASSUME NEW n \in T, ~(m <= n) PROVE FALSE
  <2>1. <<n, m>> \in OpToRel(<, Nat)
    BY <1>2 DEF OpToRel
  <2> QED
    BY <2>1, <1>1
<1> QED
  BY <1>1, <1>2

\* What holds of 0 and of the successor of every number up to n holds up to n.
LEMMA UpTo ==
  ASSUME NEW n \in Nat, NEW P, 0 \in P, \A k \in 0 .. n - 1 : k \in P => k + 1 \in P
  PROVE  \A k \in 0 .. n : k \in P
<1> DEFINE T == {k \in 0 .. n : k \notin P}
<1> SUFFICES ASSUME T # {} PROVE FALSE
  OBVIOUS
<1>1. T \in SUBSET Nat
  OBVIOUS
<1> HIDE DEF T
<1>2. PICK m \in T : \A k \in T : m <= k
  BY <1>1, Least
<1> USE DEF T
<1>3. m # 0 /\ m \in 0 .. n /\ m \notin P
  BY <1>2
<1>4. m - 1 \in 0 .. n - 1 /\ m - 1 \notin T /\ (m - 1) + 1 = m
  BY <1>2, <1>3
<1> QED
  BY <1>3, <1>4

\* A function can be defined by recursion, one value after the other.
Recursive(f, a, n, G) == f[0] = a /\ \A k \in 1 .. n : f[k] = G[k][f[k - 1]]

LEMMA Recursion ==
  ASSUME NEW S, NEW a \in S, NEW n \in Nat, NEW G \in [1 .. n -> [S -> S]]
  PROVE  \E f \in [0 .. n -> S] : Recursive(f, a, n, G)
<1> DEFINE Upto(m, f) == f \in [0 .. m -> S] /\ f[0] = a /\ \A k \in 1 .. m : f[k] = G[k][f[k - 1]]
           P == {m \in 0 .. n : \E f : Upto(m, f)}
<1>1. 0 \in P
  <2> DEFINE f == [k \in 0 .. 0 |-> a]
  <2>1. Upto(0, f)
    OBVIOUS
  <2>2. 0 \in 0 .. n
    OBVIOUS
  <2> HIDE DEF f
  <2> QED
    BY <2>1, <2>2
<1>2. ASSUME NEW m \in 0 .. n - 1, m \in P PROVE m + 1 \in P
  <2>1. PICK g : Upto(m, g)
    BY <1>2
  <2> DEFINE x == G[m + 1][g[m]]
             f == [k \in 0 .. m + 1 |-> IF k = m + 1 THEN x ELSE g[k]]
  <2>2. x \in S
    <3>1. g[m] \in S
      BY <2>1
    <3> QED
      BY <3>1
  <2> HIDE DEF x
  <2>3. f \in [0 .. m + 1 -> S] /\ f[0] = a /\ f[m + 1] = x
    BY <2>1, <2>2
  <2>4. \A k \in 0 .. m : f[k] = g[k]
    OBVIOUS
  <2> HIDE DEF f
  <2>5. ASSUME NEW k \in 1 .. m + 1 PROVE f[k] = G[k][f[k - 1]]
    <3>1. CASE k = m + 1
      <4>1. f[k - 1] = g[m]
        BY <3>1, <2>4
      <4> QED
        BY <4>1, <3>1, <2>3 DEF x
    <3>2. CASE k # m + 1
      <4>1. k \in 1 .. m /\ k \in 0 .. m /\ k - 1 \in 0 .. m
        BY <3>2
      <4>2. f[k] = g[k] /\ f[k - 1] = g[k - 1] /\ g[k] = G[k][g[k - 1]]
        BY <4>1, <2>1, <2>4
      <4> QED
        BY <4>2
    <3> QED
      BY <3>1, <3>2
  <2>6. Upto(m + 1, f)
    BY <2>3, <2>5
  <2> QED
    BY <2>6
<1> HIDE DEF P
<1>3. n \in P
  <2>1. \A k \in 0 .. n : k \in P
    BY <1>1, <1>2, UpTo
  <2> QED
    BY <2>1
<1> QED
  BY <1>3 DEF P, Recursive

-------------------------------------------------------------------------------
(* Integers *)

\* f is the function of the LET of Number.
IsSum(f, b) ==
  f = [k \in 0 .. Len(b) |-> IF k = 0 THEN 0 ELSE 2 * f[k - 1] + b[k]]

\* There is such a function.
LEMMA SumExists ==
  ASSUME NEW b \in Seq(Byte)
  PROVE  \E f : IsSum(f, b)
<1> DEFINE n == Len(b)
           G == [k \in 1 .. n |-> [x \in Nat |-> 2 * x + b[k]]]
<1>1. n \in Nat /\ \A k \in 1 .. n : b[k] \in Nat
  BY ElementOfSeq, LenProperties DEF Byte
<1>2. G \in [1 .. n -> [Nat -> Nat]]
  BY <1>1
<1>3. PICK f \in [0 .. n -> Nat] : Recursive(f, 0, n, G)
  <2> HIDE DEF G, n
  <2> QED
    BY <1>1, <1>2, Recursion
<1>4. \A k \in 1 .. n : f[k] = 2 * f[k - 1] + b[k]
  <2> SUFFICES ASSUME NEW k \in 1 .. n PROVE f[k] = 2 * f[k - 1] + b[k]
    OBVIOUS
  <2> HIDE DEF n
  <2>1. f[k - 1] \in Nat
    <3> HIDE DEF G
    <3> QED
      BY <1>1, <1>3
  <2>2. f[k] = G[k][f[k - 1]]
    <3> HIDE DEF G
    <3> QED
      BY <1>3 DEF Recursive
  <2>3. G[k] = [x \in Nat |-> 2 * x + b[k]]
    OBVIOUS
  <2> QED
    BY <2>1, <2>2, <2>3
<1>5. f = [k \in 0 .. n |-> IF k = 0 THEN 0 ELSE 2 * f[k - 1] + b[k]]
  BY <1>3, <1>4 DEF Recursive
<1> QED
  BY <1>5 DEF IsSum

\* Number, from its prefixes.
Sum(b) == CHOOSE f : IsSum(f, b)

\* Number(b) is the last value of that function, which starts at 0.
LEMMA SumUnfold ==
  ASSUME NEW b \in Seq(Byte)
  PROVE  /\ Number(b) = Sum(b)[Len(b)]
         /\ Sum(b)[0] = 0
         /\ \A k \in 1 .. Len(b) : Sum(b)[k] = 2 * Sum(b)[k - 1] + b[k]
         /\ \A k \in 0 .. Len(b) : Sum(b)[k] \in Nat
<1> DEFINE f == Sum(b)
           n == Len(b)
<1>1. IsSum(f, b)
  <2>1. \E g : IsSum(g, b)
    BY SumExists
  <2> QED
    BY <2>1 DEF Sum
<1>2. Number(b) = f[n]
  BY Zenon DEF Number, Sum, IsSum
<1>3. n \in Nat /\ \A k \in 1 .. n : b[k] \in Nat
  BY ElementOfSeq, LenProperties DEF Byte
<1> HIDE DEF f, n
<1>4. f[0] = 0 /\ \A k \in 1 .. n : f[k] = 2 * f[k - 1] + b[k]
  BY <1>1, <1>3 DEF IsSum, n
<1> DEFINE P == {k \in 0 .. n : f[k] \in Nat}
<1>5. 0 \in P
  BY <1>3, <1>4
<1>6. ASSUME NEW k \in 0 .. n - 1, k \in P PROVE k + 1 \in P
  <2>1. f[k + 1] = 2 * f[k] + b[k + 1] /\ b[k + 1] \in Nat /\ f[k] \in Nat
    BY <1>3, <1>4, <1>6
  <2>2. f[k + 1] \in Nat
    BY <2>1
  <2>3. k + 1 \in 0 .. n
    BY <1>3
  <2> QED
    BY <2>2, <2>3
<1> HIDE DEF P
<1>7. \A k \in 0 .. n : k \in P
  BY <1>3, <1>5, <1>6, UpTo
<1>8. \A k \in 0 .. n : f[k] \in Nat
  BY <1>7 DEF P
<1> QED
  BY <1>2, <1>4, <1>8 DEF f, n

\* f is the function of the LET of Bytes.
IsRest(f, v, w) == f = [k \in 0 .. w |-> IF k = 0 THEN v ELSE f[k - 1] \div 2]

Rest(v, w) == CHOOSE f : IsRest(f, v, w)

\* Bytes(v, w) are the last bits of what is left of v after each shift.
LEMMA RestUnfold ==
  ASSUME NEW v \in Nat, NEW w \in Nat
  PROVE  /\ Bytes(v, w) = [k \in 1 .. w |-> Rest(v, w)[w - k] % 2]
         /\ Rest(v, w) \in [0 .. w -> Nat] /\ Rest(v, w)[0] = v
         /\ \A k \in 1 .. w : Rest(v, w)[k] = Rest(v, w)[k - 1] \div 2
<1> DEFINE G == [k \in 1 .. w |-> [x \in Nat |-> x \div 2]]
<1>1. G \in [1 .. w -> [Nat -> Nat]]
  OBVIOUS
<1>2. PICK g \in [0 .. w -> Nat] : Recursive(g, v, w, G)
  <2> HIDE DEF G
  <2> QED
    BY <1>1, Recursion
<1>3. \A k \in 1 .. w : g[k] = g[k - 1] \div 2
  <2> SUFFICES ASSUME NEW k \in 1 .. w PROVE g[k] = g[k - 1] \div 2
    OBVIOUS
  <2>1. g[k - 1] \in Nat
    BY <1>2
  <2> QED
    BY <1>2, <2>1 DEF Recursive
<1>4. IsRest(g, v, w)
  <2>1. g = [k \in 0 .. w |-> IF k = 0 THEN v ELSE g[k - 1] \div 2]
    BY <1>2, <1>3 DEF Recursive
  <2> QED
    BY <2>1 DEF IsRest
<1> DEFINE f == Rest(v, w)
<1>5. IsRest(f, v, w)
  BY <1>4 DEF Rest
<1>6. Bytes(v, w) = [k \in 1 .. w |-> f[w - k] % 2]
  BY Zenon DEF Bytes, Rest, IsRest
<1> HIDE DEF f
<1>7. DOMAIN f = 0 .. w /\ f[0] = v /\ \A k \in 1 .. w : f[k] = f[k - 1] \div 2
  BY <1>5 DEF IsRest
<1> DEFINE P == {k \in 0 .. w : f[k] \in Nat}
<1>8. 0 \in P
  BY <1>7
<1>9. ASSUME NEW k \in 0 .. w - 1, k \in P PROVE k + 1 \in P
  <2>1. f[k + 1] = f[k] \div 2 /\ f[k] \in Nat
    BY <1>7, <1>9
  <2> QED
    BY <2>1
<1> HIDE DEF P
<1>10. \A k \in 0 .. w : k \in P
  BY <1>8, <1>9, UpTo
<1>11. f \in [0 .. w -> Nat]
  <2>1. \A k \in 0 .. w : f[k] \in Nat
    BY <1>10 DEF P
  <2> QED
    BY <1>5, <2>1 DEF IsRest
<1> QED
  BY <1>6, <1>7, <1>11 DEF f

\* Any integer is sent as as many bytes as its width.
LEMMA BytesAreBytes ==
  ASSUME NEW v \in Nat, NEW w \in Nat
  PROVE  Bytes(v, w) \in Seq(Byte) /\ Len(Bytes(v, w)) = w
<1> DEFINE b == Bytes(v, w)
           f == Rest(v, w)
<1>1. b = [k \in 1 .. w |-> f[w - k] % 2] /\ f \in [0 .. w -> Nat]
  BY RestUnfold
<1> HIDE DEF b, f
<1>2. ASSUME NEW k \in 1 .. w PROVE f[w - k] % 2 \in Byte
  <2>1. f[w - k] \in Nat
    BY <1>1
  <2> QED
    BY <2>1 DEF Byte
<1>3. b \in [1 .. w -> Byte]
  BY <1>1, <1>2
<1>4. b \in Seq(Byte)
  BY <1>3, SeqDef
<1>5. Len(b) = w
  BY <1>3, <1>4, LenProperties
<1> QED
  BY <1>4, <1>5 DEF b

\* What is sent for an integer is read back.
LEMMA NumberOfBytes ==
  ASSUME NEW w \in Nat, NEW v \in Numbers(w)
  PROVE  v \in Nat /\ Bytes(v, w) \in Seq(Byte) /\ Len(Bytes(v, w)) = w /\ Number(Bytes(v, w)) = v
<1>1. PICK b \in [1 .. w -> Byte] : v = Number(b)
  BY DEF Numbers
<1>2. b \in Seq(Byte) /\ Len(b) = w
  <2>1. b \in Seq(Byte)
    BY SeqDef
  <2> QED
    BY <2>1, LenProperties
<1> DEFINE f == Sum(b)
           g == Rest(v, w)
<1>3. /\ v = f[w] /\ f[0] = 0
      /\ \A k \in 1 .. w : f[k] = 2 * f[k - 1] + b[k]
      /\ \A k \in 0 .. w : f[k] \in Nat
  BY <1>1, <1>2, SumUnfold
<1>4. v \in Nat
  BY <1>3
<1>5. /\ Bytes(v, w) = [k \in 1 .. w |-> g[w - k] % 2]
      /\ g[0] = v /\ \A k \in 1 .. w : g[k] = g[k - 1] \div 2
  BY <1>4, RestUnfold
<1> HIDE DEF f, g
<1> DEFINE P == {k \in 0 .. w : g[k] = f[w - k]}
<1>6. 0 \in P
  BY <1>3, <1>5
<1>7. ASSUME NEW k \in 0 .. w - 1, k \in P PROVE k + 1 \in P
  <2>1. g[k + 1] = f[w - k] \div 2
    BY <1>5, <1>7
  <2>2. w - k \in 1 .. w /\ (w - k) - 1 = w - (k + 1)
    OBVIOUS
  <2>3. f[w - k] = 2 * f[w - (k + 1)] + b[w - k] /\ f[w - (k + 1)] \in Nat
    BY <2>2, <1>3
  <2>4. b[w - k] \in {0, 1}
    BY <2>2, <1>1 DEF Byte
  <2>5. f[w - k] \div 2 = f[w - (k + 1)]
    BY <2>3, <2>4
  <2> QED
    BY <2>1, <2>5
<1> HIDE DEF P
<1>8. \A k \in 0 .. w : k \in P
  BY <1>6, <1>7, UpTo
<1>9. ASSUME NEW k \in 1 .. w PROVE g[w - k] % 2 = b[k]
  <2>1. g[w - k] = f[k]
    BY <1>8 DEF P
  <2>2. f[k] = 2 * f[k - 1] + b[k] /\ f[k - 1] \in Nat
    BY <1>3
  <2>3. b[k] \in {0, 1}
    BY <1>1 DEF Byte
  <2> QED
    BY <2>1, <2>2, <2>3
<1>10. Bytes(v, w) = b
  BY <1>1, <1>5, <1>9
<1> QED
  BY <1>1, <1>2, <1>4, <1>10

\* The result of the function fits.
LEMMA OneIsNumber ==
  ASSUME NEW w \in Nat \ {0}
  PROVE  1 \in Numbers(w)
<1> DEFINE b == [k \in 1 .. w |-> IF k = w THEN 1 ELSE 0]
           f == Sum(b)
<1>1. b \in [1 .. w -> Byte] /\ b[w] = 1 /\ \A k \in 1 .. w - 1 : b[k] = 0
  BY DEF Byte
<1> HIDE DEF b
<1>2. b \in Seq(Byte) /\ Len(b) = w
  <2>1. b \in Seq(Byte)
    BY <1>1, SeqDef
  <2> QED
    BY <1>1, <2>1, LenProperties
<1>3. /\ Number(b) = f[w] /\ f[0] = 0
      /\ \A k \in 1 .. w : f[k] = 2 * f[k - 1] + b[k]
  BY <1>2, SumUnfold
<1> HIDE DEF f
<1> DEFINE P == {k \in 0 .. w - 1 : f[k] = 0}
<1>4. 0 \in P
  BY <1>3
<1>5. ASSUME NEW k \in 0 .. (w - 1) - 1, k \in P PROVE k + 1 \in P
  <2>1. f[k + 1] = 2 * f[k] + b[k + 1] /\ f[k] = 0 /\ b[k + 1] = 0
    BY <1>1, <1>3, <1>5
  <2>2. k + 1 \in 0 .. w - 1
    OBVIOUS
  <2> QED
    BY <2>1, <2>2
<1> HIDE DEF P
<1>6. \A k \in 0 .. w - 1 : k \in P
  BY <1>4, <1>5, UpTo
<1>7. f[w - 1] = 0
  BY <1>6 DEF P
<1>8. f[w] = 2 * f[w - 1] + b[w]
  BY <1>3
<1>9. Number(b) = 1
  BY <1>1, <1>3, <1>7, <1>8
<1> QED
  BY <1>1, <1>9 DEF Numbers

-------------------------------------------------------------------------------
(* Messages *)

\* The arguments of one direction among the first ones, encoded; and their values.
IsEncoding(f, xs, out) ==
  f = [k \in 0 .. Len(xs) |->
        IF k = 0 THEN << >>
        ELSE IF IsOut(TypeOf(xs[k])) = out
        THEN f[k - 1] \o Encoded(TypeOf(xs[k]), ValueOf(xs[k]))
        ELSE f[k - 1]]

IsValues(f, xs, out) ==
  f = [k \in 0 .. Len(xs) |->
        IF k = 0 THEN << >>
        ELSE IF IsOut(TypeOf(xs[k])) = out THEN Append(f[k - 1], ValueOf(xs[k]))
        ELSE f[k - 1]]

Encoding(xs, out) == CHOOSE f : IsEncoding(f, xs, out)
ValuesIn(xs, out) == CHOOSE f : IsValues(f, xs, out)

\* An argument is a type and a value of it.
LEMMA ArgumentParts ==
  ASSUME NEW xs \in Seq(Arguments), NEW k \in 1 .. Len(xs)
  PROVE  TypeOf(xs[k]) \in Types /\ ValueOf(xs[k]) \in Values(TypeOf(xs[k]))
<1>1. xs[k] \in Arguments
  BY ElementOfSeq
<1>2. PICK t \in Types : xs[k] \in {<<t, v>> : v \in Values(t)}
  BY <1>1, Zenon DEF Arguments
<1>3. PICK v \in Values(t) : xs[k] = <<t, v>>
  BY <1>2
<1>4. TypeOf(xs[k]) = t /\ ValueOf(xs[k]) = v
  BY <1>3 DEF TypeOf, ValueOf
<1> QED
  BY <1>4

\* A text is a sequence of at most MaxLen bytes.
LEMMA TextsAreSeqs ==
  ASSUME NEW B, NEW v \in Texts(B)
  PROVE  v \in Seq(B) /\ Len(v) \in 0 .. MaxLen
<1>1. PICK n \in 0 .. MaxLen : v \in [1 .. n -> B]
  BY DEF Texts
<1>2. n \in Nat
  BY <1>1
<1>3. v \in Seq(B)
  BY <1>1, <1>2, SeqDef
<1>4. Len(v) = n
  BY <1>1, <1>2, <1>3, LenProperties
<1> QED
  BY <1>1, <1>3, <1>4

\* The types and their values, case by case.
LEMMA TypesAre ==
  /\ Types \subseteq {"int8", "int32", "int64", "string", "buffer", "string_out", "buffer_out"}
  /\ Values("int8") = Numbers(1)
  /\ Values("int32") = Numbers(Wide) /\ Values("int64") = Numbers(Wide)
  /\ Values("string") = Texts({1}) /\ Values("string_out") = Texts({1})
  /\ Values("buffer") = Texts(Byte) /\ Values("buffer_out") = Texts(Byte)
BY AppInterfaceAssumption DEF Values

\* What is sent for a value, case by case.
LEMMA EncodedAre ==
  \A v : /\ Encoded("int8", v) = Bytes(v, 1)
         /\ Encoded("int32", v) = Bytes(v, Wide)
         /\ Encoded("int64", v) = Bytes(v, 2 * Wide)
         /\ Encoded("string", v) = Append(v, 0) /\ Encoded("string_out", v) = Append(v, 0)
         /\ Encoded("buffer", v) = Bytes(Len(v), Wide) \o v
         /\ Encoded("buffer_out", v) = Bytes(Len(v), Wide) \o v
BY DEF Encoded

\* What is sent for a value is bytes: those of an integer, the text and its end,
\* the size and the bytes.
LEMMA IntegerBytes ==
  ASSUME NEW w \in Nat, NEW v \in Numbers(w), NEW n \in Nat
  PROVE  Bytes(v, n) \in Seq(Byte) /\ Len(Bytes(v, n)) = n
BY NumberOfBytes, BytesAreBytes

LEMMA StringBytes ==
  ASSUME NEW v \in Seq({1})
  PROVE  /\ Append(v, 0) \in Seq(Byte) /\ Len(v) \in Nat /\ Len(Append(v, 0)) = Len(v) + 1
         /\ \A k \in 1 .. Len(v) : Append(v, 0)[k] = v[k] /\ v[k] = 1
         /\ Append(v, 0)[Len(v) + 1] = 0
<1>1. v \in Seq(Byte)
  <2>1. {1} \subseteq Byte
    BY DEF Byte
  <2> QED
    BY <2>1, SeqMonotonic
<1>2. 0 \in Byte
  BY DEF Byte
<1>3. \A k \in 1 .. Len(v) : v[k] = 1
  BY ElementOfSeq
<1>4. Len(v) \in Nat
  BY LenProperties
<1> QED
  BY <1>1, <1>2, <1>3, <1>4, AppendProperties

LEMMA BufferBytes ==
  ASSUME NEW v \in Texts(Byte)
  PROVE  LET e == Bytes(Len(v), Wide) \o v
         IN /\ e \in Seq(Byte) /\ Len(v) \in Nat /\ Wide \in Nat /\ Len(e) = Wide + Len(v)
            /\ Len(Bytes(Len(v), Wide)) = Wide /\ Number(Bytes(Len(v), Wide)) = Len(v)
            /\ \A k \in 1 .. Wide : e[k] = Bytes(Len(v), Wide)[k]
            /\ \A k \in 1 .. Len(v) : e[Wide + k] = v[k]
<1> DEFINE size == Bytes(Len(v), Wide)
           e == size \o v
<1>1. v \in Seq(Byte) /\ Len(v) \in Nat /\ Len(v) \in Numbers(Wide) /\ Wide \in Nat
  BY TextsAreSeqs, LenProperties, AppInterfaceAssumption
<1>2. size \in Seq(Byte) /\ Len(size) = Wide /\ Number(size) = Len(v)
  BY <1>1, NumberOfBytes
<1> HIDE DEF size
<1>3. /\ e \in Seq(Byte) /\ Len(e) = Wide + Len(v)
      /\ \A k \in 1 .. Wide + Len(v) : e[k] = IF k <= Wide THEN size[k] ELSE v[k - Wide]
  BY <1>1, <1>2, ConcatProperties
<1> HIDE DEF e
<1>4. \A k \in 1 .. Wide : e[k] = size[k]
  BY <1>1, <1>3
<1>5. \A k \in 1 .. Len(v) : e[Wide + k] = v[k]
  <2> SUFFICES ASSUME NEW k \in 1 .. Len(v) PROVE e[Wide + k] = v[k]
    OBVIOUS
  <2>1. Wide + k \in 1 .. Wide + Len(v) /\ ~(Wide + k <= Wide) /\ (Wide + k) - Wide = k
    BY <1>1
  <2> QED
    BY <1>3, <2>1
<1> QED
  BY <1>1, <1>2, <1>3, <1>4, <1>5 DEF e, size

\* What is sent for an argument is bytes.
LEMMA EncodedBytes ==
  ASSUME NEW t \in Types, NEW v \in Values(t)
  PROVE  Encoded(t, v) \in Seq(Byte)
<1>1. /\ Wide \in Nat /\ 2 * Wide \in Nat /\ 1 \in Nat
  BY AppInterfaceAssumption
<1>2. CASE t = "int8"
  BY <1>1, <1>2, TypesAre, EncodedAre, IntegerBytes
<1>3. CASE t = "int32"
  BY <1>1, <1>3, TypesAre, EncodedAre, IntegerBytes
<1>4. CASE t = "int64"
  <2>1. v \in Numbers(Wide)
    BY <1>4, TypesAre
  <2>2. Bytes(v, 2 * Wide) \in Seq(Byte)
    BY <1>1, <2>1, IntegerBytes
  <2> QED
    BY <1>4, <2>2, EncodedAre
<1>5. CASE t \in {"string", "string_out"}
  <2>1. v \in Seq({1})
    BY <1>5, TypesAre, TextsAreSeqs
  <2> QED
    BY <1>5, <2>1, EncodedAre, StringBytes
<1>6. CASE t \in {"buffer", "buffer_out"}
  <2>1. v \in Texts(Byte)
    BY <1>6, TypesAre
  <2> QED
    BY <1>6, <2>1, EncodedAre, BufferBytes
<1> QED
  BY <1>2, <1>3, <1>4, <1>5, <1>6, TypesAre

\* There are such functions.
LEMMA EncodingExists ==
  ASSUME NEW xs \in Seq(Arguments), NEW out \in BOOLEAN
  PROVE  \E f \in [0 .. Len(xs) -> Seq(Byte)] : IsEncoding(f, xs, out)
<1> DEFINE n == Len(xs)
           has(k) == IsOut(TypeOf(xs[k])) = out
           e(k) == Encoded(TypeOf(xs[k]), ValueOf(xs[k]))
           G == [k \in 1 .. n |-> [x \in Seq(Byte) |-> IF has(k) THEN x \o e(k) ELSE x]]
<1>1. n \in Nat /\ \A k \in 1 .. n : e(k) \in Seq(Byte)
  BY LenProperties, ArgumentParts, EncodedBytes
<1>2. G \in [1 .. n -> [Seq(Byte) -> Seq(Byte)]]
  <2> HIDE DEF e, has, n
  <2>1. \A k \in 1 .. n : \A x \in Seq(Byte) : x \o e(k) \in Seq(Byte)
    BY <1>1, ConcatProperties
  <2> QED
    BY <2>1
<1>3. << >> \in Seq(Byte)
  BY EmptySeq
<1> HIDE DEF n
<1>4. PICK f \in [0 .. n -> Seq(Byte)] : Recursive(f, << >>, n, G)
  <2> HIDE DEF G
  <2> QED
    BY <1>1, <1>2, <1>3, Recursion
<1>5. ASSUME NEW k \in 1 .. n
      PROVE  f[k] = IF has(k) THEN f[k - 1] \o e(k) ELSE f[k - 1]
  <2>1. f[k - 1] \in Seq(Byte) /\ f[k] = G[k][f[k - 1]]
    <3> HIDE DEF G
    <3> QED
      BY <1>1, <1>4 DEF Recursive
  <2> HIDE DEF e, has
  <2>2. G[k] = [x \in Seq(Byte) |-> IF has(k) THEN x \o e(k) ELSE x]
    OBVIOUS
  <2> HIDE DEF G
  <2> QED
    BY <2>1, <2>2
<1> HIDE DEF G, e, has
<1>6. f = [k \in 0 .. n |-> IF k = 0 THEN << >> ELSE IF has(k) THEN f[k - 1] \o e(k) ELSE f[k - 1]]
  <2> DEFINE g(k) == IF k = 0 THEN << >> ELSE IF has(k) THEN f[k - 1] \o e(k) ELSE f[k - 1]
  <2>1. f[0] = << >>
    BY <1>4 DEF Recursive
  <2>2. \A k \in 0 .. n : f[k] = g(k)
    <3>1. \A k \in 0 .. n : k # 0 => k \in 1 .. n
      BY <1>1
    <3> QED
      BY <1>5, <2>1, <3>1
  <2> HIDE DEF g
  <2>3. f = [k \in 0 .. n |-> g(k)]
    BY <2>2
  <2> QED
    BY <2>3 DEF g
<1>7. IsEncoding(f, xs, out)
  BY <1>6, Zenon DEF IsEncoding, n, has, e
<1> QED
  BY <1>4, <1>7 DEF n

\* The stream of the arguments of one direction, argument by argument.
LEMMA EncodingUnfold ==
  ASSUME NEW xs \in Seq(Arguments), NEW out \in BOOLEAN
  PROVE  LET f == Encoding(xs, out)
         IN /\ f[0] = << >>
            /\ \A k \in 1 .. Len(xs) :
                 f[k] = IF IsOut(TypeOf(xs[k])) = out
                        THEN f[k - 1] \o Encoded(TypeOf(xs[k]), ValueOf(xs[k]))
                        ELSE f[k - 1]
            /\ \A k \in 0 .. Len(xs) : f[k] \in Seq(Byte)
<1> DEFINE f == Encoding(xs, out)
           n == Len(xs)
           has(k) == IsOut(TypeOf(xs[k])) = out
           e(k) == Encoded(TypeOf(xs[k]), ValueOf(xs[k]))
<1>1. IsEncoding(f, xs, out)
  BY EncodingExists DEF Encoding
<1> HIDE DEF f
<1>2. n \in Nat /\ \A k \in 1 .. n : e(k) \in Seq(Byte)
  BY LenProperties, ArgumentParts, EncodedBytes
<1>3. f = [k \in 0 .. n |-> IF k = 0 THEN << >> ELSE IF has(k) THEN f[k - 1] \o e(k) ELSE f[k - 1]]
  BY <1>1, Zenon DEF IsEncoding
<1> HIDE DEF n, has, e
<1>4. f[0] = << >> /\ \A k \in 1 .. n : f[k] = IF has(k) THEN f[k - 1] \o e(k) ELSE f[k - 1]
  <2>1. 0 \in 0 .. n /\ \A k \in 1 .. n : k \in 0 .. n /\ k # 0
    BY <1>2
  <2> QED
    BY <1>3, <2>1
<1> DEFINE P == {k \in 0 .. n : f[k] \in Seq(Byte)}
<1>5. 0 \in P
  <2>1. << >> \in Seq(Byte) /\ 0 \in 0 .. n
    BY <1>2, EmptySeq
  <2> QED
    BY <2>1, <1>4
<1>6. ASSUME NEW k \in 0 .. n - 1, k \in P PROVE k + 1 \in P
  <2>1. /\ k + 1 \in 0 .. n /\ f[k] \in Seq(Byte) /\ e(k + 1) \in Seq(Byte)
        /\ f[k + 1] = IF has(k + 1) THEN f[k] \o e(k + 1) ELSE f[k]
    BY <1>2, <1>4, <1>6
  <2>2. f[k] \o e(k + 1) \in Seq(Byte)
    BY <2>1, ConcatProperties
  <2> QED
    BY <2>1, <2>2
<1> HIDE DEF P
<1>7. \A k \in 0 .. n : k \in P
  BY <1>2, <1>5, <1>6, UpTo
<1>8. \A k \in 0 .. n : f[k] \in Seq(Byte)
  BY <1>7 DEF P
<1> QED
  BY <1>4, <1>8 DEF f, n, has, e

\* The same for the values.
LEMMA ValuesExists ==
  ASSUME NEW xs \in Seq(Arguments), NEW out \in BOOLEAN
  PROVE  \E f : IsValues(f, xs, out)
<1> DEFINE n == Len(xs)
           W == UNION {Values(t) : t \in Types}
           has(k) == IsOut(TypeOf(xs[k])) = out
           v(k) == ValueOf(xs[k])
           G == [k \in 1 .. n |-> [x \in Seq(W) |-> IF has(k) THEN Append(x, v(k)) ELSE x]]
<1>1. n \in Nat /\ \A k \in 1 .. n : v(k) \in W
  <2>1. n \in Nat
    BY LenProperties
  <2>2. ASSUME NEW k \in 1 .. n PROVE v(k) \in W
    BY ArgumentParts
  <2> HIDE DEF n, v, W
  <2> QED
    BY <2>1, <2>2
<1> HIDE DEF n, W
<1>2. G \in [1 .. n -> [Seq(W) -> Seq(W)]]
  <2> HIDE DEF v, has
  <2>1. \A k \in 1 .. n : \A x \in Seq(W) : Append(x, v(k)) \in Seq(W)
    BY <1>1, AppendProperties
  <2> QED
    BY <2>1
<1>3. << >> \in Seq(W)
  BY EmptySeq
<1>4. PICK f \in [0 .. n -> Seq(W)] : Recursive(f, << >>, n, G)
  <2> HIDE DEF G
  <2> QED
    BY <1>1, <1>2, <1>3, Recursion
<1>5. ASSUME NEW k \in 1 .. n
      PROVE  f[k] = IF has(k) THEN Append(f[k - 1], v(k)) ELSE f[k - 1]
  <2>1. f[k - 1] \in Seq(W) /\ f[k] = G[k][f[k - 1]]
    <3> HIDE DEF G
    <3> QED
      BY <1>1, <1>4 DEF Recursive
  <2> HIDE DEF v, has
  <2>2. G[k] = [x \in Seq(W) |-> IF has(k) THEN Append(x, v(k)) ELSE x]
    OBVIOUS
  <2> HIDE DEF G
  <2> QED
    BY <2>1, <2>2
<1> HIDE DEF G, v, has
<1>6. f = [k \in 0 .. n |-> IF k = 0 THEN << >> ELSE IF has(k) THEN Append(f[k - 1], v(k)) ELSE f[k - 1]]
  <2> DEFINE g(k) == IF k = 0 THEN << >> ELSE IF has(k) THEN Append(f[k - 1], v(k)) ELSE f[k - 1]
  <2>1. f[0] = << >>
    BY <1>4 DEF Recursive
  <2>2. \A k \in 0 .. n : f[k] = g(k)
    <3>1. \A k \in 0 .. n : k # 0 => k \in 1 .. n
      BY <1>1
    <3> QED
      BY <1>5, <2>1, <3>1
  <2> HIDE DEF g
  <2>3. f = [k \in 0 .. n |-> g(k)]
    BY <2>2
  <2> QED
    BY <2>3 DEF g
<1>7. IsValues(f, xs, out)
  BY <1>6, Zenon DEF IsValues, n, has, v
<1> QED
  BY <1>7

\* The values of the arguments of one direction, argument by argument.
LEMMA ValuesUnfold ==
  ASSUME NEW xs \in Seq(Arguments), NEW out \in BOOLEAN
  PROVE  LET f == ValuesIn(xs, out)
         IN /\ f[0] = << >>
            /\ \A k \in 1 .. Len(xs) :
                 f[k] = IF IsOut(TypeOf(xs[k])) = out THEN Append(f[k - 1], ValueOf(xs[k]))
                        ELSE f[k - 1]
<1> DEFINE f == ValuesIn(xs, out)
           n == Len(xs)
           has(k) == IsOut(TypeOf(xs[k])) = out
           v(k) == ValueOf(xs[k])
<1>1. IsValues(f, xs, out)
  BY ValuesExists DEF ValuesIn
<1> HIDE DEF f
<1>2. n \in Nat
  BY LenProperties
<1>3. f = [k \in 0 .. n |-> IF k = 0 THEN << >> ELSE IF has(k) THEN Append(f[k - 1], v(k)) ELSE f[k - 1]]
  BY <1>1, Zenon DEF IsValues
<1> HIDE DEF n, has, v
<1>4. f[0] = << >> /\ \A k \in 1 .. n : f[k] = IF has(k) THEN Append(f[k - 1], v(k)) ELSE f[k - 1]
  <2>1. 0 \in 0 .. n /\ \A k \in 1 .. n : k \in 0 .. n /\ k # 0
    BY <1>2
  <2> QED
    BY <1>3, <2>1
<1> QED
  BY <1>4 DEF f, n, has, v

\* The positions of the arguments in their stream.
LEMMA Positions ==
  ASSUME NEW xs \in Seq(Arguments), NEW out \in BOOLEAN
  PROVE  LET f == Encoding(xs, out)
             n == Len(xs)
         IN /\ n \in Nat
            /\ \A k \in 0 .. n : /\ f[k] \in Seq(Byte) /\ Len(f[k]) \in Nat
                                 /\ Len(f[k]) <= Len(f[n])
                                 /\ \A i \in 1 .. Len(f[k]) : f[n][i] = f[k][i]
<1> DEFINE f == Encoding(xs, out)
           n == Len(xs)
           has(k) == IsOut(TypeOf(xs[k])) = out
           e(k) == Encoded(TypeOf(xs[k]), ValueOf(xs[k]))
<1>1. n \in Nat /\ \A k \in 1 .. n : e(k) \in Seq(Byte)
  BY LenProperties, ArgumentParts, EncodedBytes
<1>2. /\ \A k \in 1 .. n : f[k] = IF has(k) THEN f[k - 1] \o e(k) ELSE f[k - 1]
      /\ \A k \in 0 .. n : f[k] \in Seq(Byte)
  BY EncodingUnfold
<1> HIDE DEF f, n, has, e
<1>3. \A k \in 0 .. n : Len(f[k]) \in Nat
  BY <1>2, LenProperties
<1> DEFINE Begins(k) == /\ Len(f[k]) <= Len(f[n])
                        /\ \A i \in 1 .. Len(f[k]) : f[n][i] = f[k][i]
           P == {j \in 0 .. n : Begins(n - j)}
<1>4. 0 \in P
  <2>1. n - 0 = n /\ n \in 0 .. n /\ 0 \in 0 .. n
    BY <1>1
  <2>2. Begins(n)
    BY <1>3, <2>1
  <2> HIDE DEF Begins
  <2> QED
    BY <2>1, <2>2
<1>5. ASSUME NEW j \in 0 .. n - 1, j \in P PROVE j + 1 \in P
  <2> DEFINE k == n - j
  <2>1. k \in 1 .. n /\ k \in 0 .. n /\ k - 1 \in 0 .. n /\ n - (j + 1) = k - 1 /\ j + 1 \in 0 .. n
        /\ n \in 0 .. n
    BY <1>1
  <2>2. Begins(k)
    BY <1>5
  <2> HIDE DEF k
  <2>3. CASE has(k)
    <3> DEFINE a == f[k - 1]
               b == e(k)
               c == f[k]
    <3>1. a \in Seq(Byte) /\ b \in Seq(Byte) /\ c = a \o b
      BY <1>1, <1>2, <2>1, <2>3
    <3> HIDE DEF a, b, c
    <3>2. /\ Len(c) = Len(a) + Len(b) /\ Len(a) \in Nat /\ Len(b) \in Nat
          /\ \A i \in 1 .. Len(a) : c[i] = a[i]
      <4>1. /\ Len(c) = Len(a) + Len(b) /\ Len(a) \in Nat /\ Len(b) \in Nat
            /\ \A i \in 1 .. Len(a) + Len(b) : c[i] = IF i <= Len(a) THEN a[i] ELSE b[i - Len(a)]
        BY <3>1, ConcatProperties, LenProperties
      <4> QED
        BY <4>1
    <3>3. Len(c) <= Len(f[n]) /\ \A i \in 1 .. Len(c) : f[n][i] = c[i]
      BY <2>2 DEF c
    <3>4. Len(f[n]) \in Nat
      BY <1>3, <2>1
    <3>5. Len(a) <= Len(f[n]) /\ \A i \in 1 .. Len(a) : f[n][i] = a[i]
      BY <3>2, <3>3, <3>4
    <3>6. Begins(k - 1)
      BY <3>5 DEF a
    <3> HIDE DEF Begins
    <3> QED
      BY <2>1, <3>6
  <2>4. CASE ~has(k)
    <3>1. f[k] = f[k - 1]
      BY <1>2, <2>1, <2>4
    <3>2. Begins(k - 1)
      BY <2>2, <3>1
    <3> HIDE DEF Begins
    <3> QED
      BY <2>1, <3>2
  <2> QED
    BY <2>3, <2>4
<1> HIDE DEF P
<1>6. \A j \in 0 .. n : j \in P
  BY <1>1, <1>4, <1>5, UpTo
<1>7. ASSUME NEW k \in 0 .. n PROVE Begins(k)
  <2>1. n - k \in 0 .. n /\ n - (n - k) = k
    BY <1>1
  <2>2. Begins(n - (n - k))
    <3> HIDE DEF Begins
    <3> QED
      BY <1>6, <2>1 DEF P
  <2> HIDE DEF Begins
  <2> QED
    BY <2>1, <2>2
<1> QED
  BY <1>1, <1>2, <1>3, <1>7 DEF f, n

\* What the bytes of the k-th argument are in the stream.
LEMMA ArgumentAt ==
  ASSUME NEW xs \in Seq(Arguments), NEW out \in BOOLEAN, NEW k \in 1 .. Len(xs),
         IsOut(TypeOf(xs[k])) = out
  PROVE  LET f == Encoding(xs, out)
             n == Len(xs)
             e == Encoded(TypeOf(xs[k]), ValueOf(xs[k]))
         IN /\ e \in Seq(Byte) /\ Len(e) \in Nat /\ Len(f[k - 1]) \in Nat
            /\ Len(f[k]) = Len(f[k - 1]) + Len(e)
            /\ \A j \in 1 .. Len(e) : f[n][Len(f[k - 1]) + j] = e[j]
<1> DEFINE f == Encoding(xs, out)
           n == Len(xs)
           e == Encoded(TypeOf(xs[k]), ValueOf(xs[k]))
           a == f[k - 1]
           c == f[k]
           s == f[n]
<1>1. e \in Seq(Byte) /\ n \in Nat
  BY LenProperties, ArgumentParts, EncodedBytes
<1>2. k \in 0 .. n /\ k - 1 \in 0 .. n
  <2> HIDE DEF f, e, a, c, s
  <2>1. k \in 1 .. n
    OBVIOUS
  <2> HIDE DEF n
  <2> QED
    BY <1>1, <2>1
<1>3. c = a \o e
  <2>1. f[k] = IF IsOut(TypeOf(xs[k])) = out
               THEN f[k - 1] \o Encoded(TypeOf(xs[k]), ValueOf(xs[k]))
               ELSE f[k - 1]
    BY EncodingUnfold
  <2> HIDE DEF f
  <2> QED
    BY <2>1
<1>4. a \in Seq(Byte) /\ Len(c) \in Nat /\ \A i \in 1 .. Len(c) : s[i] = c[i]
  BY <1>2, Positions
<1> HIDE DEF a, c, s, e
<1>5. /\ Len(c) = Len(a) + Len(e) /\ Len(a) \in Nat /\ Len(e) \in Nat
      /\ \A i \in 1 .. Len(a) + Len(e) : c[i] = IF i <= Len(a) THEN a[i] ELSE e[i - Len(a)]
  BY <1>1, <1>3, <1>4, ConcatProperties, LenProperties
<1>6. ASSUME NEW j \in 1 .. Len(e) PROVE s[Len(a) + j] = e[j]
  <2>1. Len(a) + j \in 1 .. Len(c) /\ ~(Len(a) + j <= Len(a)) /\ (Len(a) + j) - Len(a) = j
    BY <1>5
  <2> QED
    BY <1>4, <1>5, <2>1
<1> QED
  BY <1>1, <1>5, <1>6 DEF a, c, s, e

-------------------------------------------------------------------------------
(* Readers *)

\* From a position on the bytes b that arrived are those of e, as far as they go.
Carries(b, pos, e) == \A j \in 1 .. Len(e) : pos + j <= Len(b) => b[pos + j] = e[j]

\* All of e arrived, and was read as the value v.
Took(r, b, pos, values, e, v) ==
  pos + Len(e) <= Len(b) /\ r = Read(pos + Len(e), Append(values, v))

\* The parts of what was read.
LEMMA ReadParts ==
  ASSUME NEW pos, NEW values
  PROVE  /\ Read(pos, values).status = "ok"
         /\ Read(pos, values).pos = pos /\ Read(pos, values).values = values
BY DEF Read

\* Bytes cut out of those that arrived.
LEMMA BytesOf ==
  ASSUME NEW b \in Seq(Byte), NEW pos \in Nat, NEW v \in Seq(Byte), pos + Len(v) <= Len(b),
         \A j \in 1 .. Len(v) : b[pos + j] = v[j]
  PROVE  SubSeq(b, pos + 1, pos + Len(v)) = v
<1> DEFINE n == Len(v)
           s == SubSeq(b, pos + 1, pos + n)
<1>1. n \in Nat /\ Len(b) \in Nat /\ pos + n <= Len(b)
  BY LenProperties
<1>2. \A i \in pos + 1 .. pos + n : i \in 1 .. Len(b)
  <2> HIDE DEF n
  <2> QED
    BY <1>1
<1>3. s \in Seq(Byte) /\ Len(s) = n /\ \A i \in 1 .. n : s[i] = b[pos + i]
  <2> HIDE DEF n
  <2>1. pos + 1 \in Int /\ pos + n \in Int /\ pos + 1 <= pos + n + 1
        /\ \A i \in pos + 1 .. pos + n : b[i] \in Byte
    BY <1>1, <1>2, ElementOfSeq
  <2> DEFINE lo == pos + 1
             hi == pos + n
  <2>2. /\ s \in Seq(Byte)
        /\ Len(s) = IF pos + 1 <= pos + n THEN (pos + n) - (pos + 1) + 1 ELSE 0
        /\ \A i \in 1 .. (pos + n) - (pos + 1) + 1 : s[i] = b[pos + 1 + i - 1]
    <3>1. lo \in Int /\ hi \in Int /\ \A i \in lo .. hi : b[i] \in Byte
      BY <2>1
    <3> HIDE DEF lo, hi
    <3>2. /\ SubSeq(b, lo, hi) \in Seq(Byte)
          /\ Len(SubSeq(b, lo, hi)) = IF lo <= hi THEN hi - lo + 1 ELSE 0
          /\ \A i \in 1 .. hi - lo + 1 : SubSeq(b, lo, hi)[i] = b[lo + i - 1]
      BY <3>1, SubSeqProperties
    <3> QED
      BY <3>2, Zenon DEF lo, hi, s
  <2> HIDE DEF s
  <2>3. Len(s) = n
    BY <1>1, <2>2
  <2>4. ASSUME NEW i \in 1 .. n PROVE s[i] = b[pos + i]
    <3>1. pos + 1 + i - 1 = pos + i /\ i \in 1 .. (pos + n) - (pos + 1) + 1
      BY <1>1
    <3> QED
      BY <2>2, <3>1
  <2> QED
    BY <2>2, <2>3, <2>4
<1> HIDE DEF s
<1>4. \A i \in 1 .. n : s[i] = v[i]
  BY <1>3
<1>5. s = v
  BY <1>3, <1>4, SeqEqual
<1> QED
  BY <1>5 DEF s

\* An integer is read whole or not at all.
LEMMA ReadsNumber ==
  ASSUME NEW b \in Seq(Byte), NEW pos \in Nat, NEW values, NEW short,
         NEW w \in Nat, NEW v \in Numbers(w), Carries(b, pos, Bytes(v, w))
  PROVE  LET r == ReadNumber(b, Read(pos, values), w, short)
         IN  r = short \/ Took(r, b, pos, values, Bytes(v, w), v)
<1> DEFINE e == Bytes(v, w)
           r == ReadNumber(b, Read(pos, values), w, short)
<1>1. e \in Seq(Byte) /\ Len(e) = w /\ Number(e) = v
  BY NumberOfBytes
<1>2. r = IF ~ HasBytes(b, pos, w) THEN short
          ELSE Read(pos + w, Append(values, Number(BytesAt(b, pos, w))))
  BY ReadParts DEF ReadNumber
<1> HIDE DEF e, r
<1>3. CASE ~(pos + w <= Len(b))
  BY <1>2, <1>3 DEF HasBytes, e, r
<1>4. CASE pos + w <= Len(b)
  <2>1. \A j \in 1 .. w : pos + j <= Len(b)
    BY <1>4, LenProperties
  <2>2. \A j \in 1 .. Len(e) : b[pos + j] = e[j]
    BY <1>1, <2>1 DEF Carries, e
  <2>3. BytesAt(b, pos, w) = e
    BY <1>1, <1>4, <2>2, BytesOf DEF BytesAt
  <2> QED
    BY <1>1, <1>2, <1>4, <2>3 DEF HasBytes, Took, e, r
<1> QED
  BY <1>3, <1>4 DEF e, r

\* A string is read up to its own end or not at all.
LEMMA ReadsString ==
  ASSUME NEW b \in Seq(Byte), NEW pos \in Nat, NEW values,
         NEW v \in Seq({1}), Carries(b, pos, Append(v, 0))
  PROVE  LET r == ReadString(b, Read(pos, values))
         IN  r = Error \/ Took(r, b, pos, values, Append(v, 0), v)
<1> DEFINE e == Append(v, 0)
           n == Len(v)
           q == Read(pos, values)
           ends == {k \in q.pos + 1 .. Len(b) : b[k] = 0}
           end == CHOOSE k \in ends : \A i \in ends : k <= i
           r == ReadString(b, q)
<1>1. /\ e \in Seq(Byte) /\ n \in Nat /\ Len(e) = n + 1
      /\ \A k \in 1 .. n : e[k] = 1
      /\ e[n + 1] = 0
  BY StringBytes
<1>2. r = IF ends = {} THEN Error ELSE Read(end, Append(values, SubSeq(b, pos + 1, end - 1)))
  <2>1. r = IF ends = {} THEN Error
            ELSE Read(end, Append(q.values, SubSeq(b, q.pos + 1, end - 1)))
    BY Zenon DEF ReadString
  <2>2. q.pos = pos /\ q.values = values
    BY ReadParts
  <2> HIDE DEF r, end, ends, q
  <2> QED
    BY <2>1, <2>2
<1>3. Len(b) \in Nat
  BY LenProperties
<1> HIDE DEF r
<1>4. CASE ends = {}
  BY <1>2, <1>4 DEF r
<1>5. CASE ends # {}
  <2> HIDE DEF e, n
  <2>1. \A i : i \in ends <=> i \in pos + 1 .. Len(b) /\ i \in Nat /\ b[i] = 0
    <3>1. q.pos = pos
      BY ReadParts
    <3> HIDE DEF q
    <3> QED
      BY <1>3, <3>1
  <2> HIDE DEF ends
  <2>2. ASSUME NEW i \in ends PROVE pos + n + 1 <= i
    <3> SUFFICES ASSUME i < pos + n + 1 PROVE FALSE
      BY <1>1, <2>1
    <3> DEFINE j == i - pos
    <3>1. j \in 1 .. n /\ j \in 1 .. Len(e) /\ pos + j = i /\ i <= Len(b)
      BY <1>1, <2>1
    <3>2. b[i] = 0
      BY <2>1
    <3> HIDE DEF j
    <3>3. b[pos + j] = e[j]
      BY <3>1 DEF Carries, e
    <3> QED
      BY <1>1, <3>1, <3>2, <3>3
  <2>3. PICK i \in ends : TRUE
    BY <1>5
  <2>4. pos + n + 1 <= Len(b)
    <3>1. pos + n + 1 <= i /\ i \in Nat /\ i <= Len(b)
      BY <2>1, <2>2
    <3> QED
      BY <1>1, <1>3, <3>1
  <2>5. pos + n + 1 \in ends
    <3>1. pos + (n + 1) <= Len(b) /\ n + 1 \in 1 .. Len(e) /\ pos + (n + 1) = pos + n + 1
      BY <1>1, <2>4
    <3>2. b[pos + (n + 1)] = e[n + 1]
      BY <3>1 DEF Carries, e
    <3> QED
      BY <1>1, <1>3, <2>1, <2>4, <3>1, <3>2
  <2>6. end \in ends /\ \A k \in ends : end <= k
    BY <2>5, <2>2
  <2> HIDE DEF end
  <2>7. end = pos + n + 1
    <3>1. end <= pos + n + 1 /\ pos + n + 1 <= end /\ end \in Nat
      BY <2>1, <2>2, <2>5, <2>6
    <3> QED
      BY <1>1, <3>1
  <2>8. v \in Seq(Byte)
    <3>1. {1} \subseteq Byte
      BY DEF Byte
    <3> QED
      BY <3>1, SeqMonotonic
  <2>9. \A j \in 1 .. n : b[pos + j] = v[j]
    <3> SUFFICES ASSUME NEW j \in 1 .. n PROVE b[pos + j] = v[j]
      OBVIOUS
    <3>1. pos + j <= Len(b) /\ j \in 1 .. Len(e)
      BY <1>1, <1>3, <2>4
    <3>2. b[pos + j] = e[j]
      BY <3>1 DEF Carries, e
    <3>3. e[j] = v[j]
      BY StringBytes DEF e, n
    <3> QED
      BY <3>2, <3>3
  <2>10. SubSeq(b, pos + 1, end - 1) = v
    <3>1. pos + Len(v) <= Len(b) /\ end - 1 = pos + Len(v)
      BY <1>1, <1>3, <2>4, <2>7 DEF n
    <3>2. SubSeq(b, pos + 1, pos + Len(v)) = v
      BY <2>8, <2>9, <3>1, BytesOf DEF n
    <3> QED
      BY <3>1, <3>2
  <2>11. r = Read(end, Append(values, v))
    BY <1>2, <1>5, <2>10
  <2>12. end = pos + Len(e) /\ pos + Len(e) <= Len(b)
    BY <1>1, <2>4, <2>7
  <2> QED
    BY <2>11, <2>12 DEF Took, e, r, q
<1> QED
  BY <1>4, <1>5

\* A buffer is read whole or not at all.
LEMMA ReadsBuffer ==
  ASSUME NEW b \in Seq(Byte), NEW pos \in Nat, NEW values, NEW short,
         NEW v \in Texts(Byte), Carries(b, pos, Bytes(Len(v), Wide) \o v)
  PROVE  LET r == ReadBuffer(b, Read(pos, values), short)
         IN  r = short \/ Took(r, b, pos, values, Bytes(Len(v), Wide) \o v, v)
<1> DEFINE size == Bytes(Len(v), Wide)
           e == size \o v
           data == pos + Wide
           m == Number(BytesAt(b, pos, Wide))
           r == ReadBuffer(b, Read(pos, values), short)
<1>1. /\ e \in Seq(Byte) /\ Len(v) \in Nat /\ Wide \in Nat /\ Len(e) = Wide + Len(v)
      /\ Len(size) = Wide /\ Number(size) = Len(v)
      /\ \A k \in 1 .. Wide : e[k] = size[k]
      /\ \A k \in 1 .. Len(v) : e[Wide + k] = v[k]
  BY BufferBytes
<1>2. r = IF ~ HasBytes(b, pos, Wide) \/ ~ HasBytes(b, data, m) THEN short
          ELSE Read(data + m, Append(values, BytesAt(b, data, m)))
  BY ReadParts, Zenon DEF ReadBuffer
<1>3. size \in Seq(Byte) /\ v \in Seq(Byte)
  BY <1>1, BytesAreBytes, TextsAreSeqs
<1>4. Carries(b, pos, e)
  OBVIOUS
<1>5. Len(b) \in Nat
  BY LenProperties
<1> HIDE DEF size, e, r
<1>6. CASE ~ HasBytes(b, pos, Wide) \/ ~ HasBytes(b, data, m)
  BY <1>2, <1>6, Zenon DEF e, r, size
<1>7. CASE HasBytes(b, pos, Wide) /\ HasBytes(b, data, m)
  <2>1. pos + Wide <= Len(b)
    BY <1>7 DEF HasBytes
  <2>2. \A j \in 1 .. Len(size) : b[pos + j] = size[j]
    <3> SUFFICES ASSUME NEW j \in 1 .. Wide PROVE b[pos + j] = size[j]
      BY <1>1
    <3>1. pos + j <= Len(b) /\ j \in 1 .. Len(e)
      BY <1>1, <1>5, <2>1
    <3> QED
      BY <1>1, <1>4, <3>1 DEF Carries
  <2>3. BytesAt(b, pos, Wide) = size
    BY <1>1, <1>3, <2>1, <2>2, BytesOf DEF BytesAt
  <2>4. m = Len(v)
    BY <1>1, <2>3
  <2>5. data + Len(v) <= Len(b) /\ data \in Nat
    BY <1>1, <1>7, <2>4 DEF HasBytes
  <2>6. \A j \in 1 .. Len(v) : b[data + j] = v[j]
    <3> SUFFICES ASSUME NEW j \in 1 .. Len(v) PROVE b[data + j] = v[j]
      OBVIOUS
    <3>1. pos + (Wide + j) <= Len(b) /\ Wide + j \in 1 .. Len(e) /\ pos + (Wide + j) = data + j
      BY <1>1, <1>5, <2>5
    <3>2. b[pos + (Wide + j)] = e[Wide + j]
      BY <1>4, <3>1 DEF Carries
    <3> QED
      BY <1>1, <3>1, <3>2
  <2>7. BytesAt(b, data, m) = v
    <3> HIDE DEF data, m
    <3> QED
      BY <1>3, <2>4, <2>5, <2>6, BytesOf DEF BytesAt
  <2>8. r = Read(data + Len(v), Append(values, v))
    BY <1>2, <1>7, <2>4, <2>7, Zenon
  <2>9. data + Len(v) = pos + Len(e)
    BY <1>1
  <2> QED
    BY <2>5, <2>8, <2>9 DEF Took, e, r, size
<1> QED
  BY <1>6, <1>7

\* The side that reads the arguments of a direction.
Side(out) == IF out THEN "client" ELSE "server"

\* How a side may end before it has them all.
Failed(xs, out, r) ==
  \/ r = Error /\ (~out \/ \E j \in 1 .. Len(xs) : TypeOf(xs[j]) = "string_out")
  \/ r = More /\ out

\* One argument after what was read so far.
NextRead(side, b, t, r) ==
  IF r.status # "ok" THEN r
  ELSE IF side = "server" THEN PreExec(b, t, r)
  ELSE CallRead(b, t, r)

\* The readers of the server and of the client, type by type.
LEMMA PreExecs ==
  \A b, r : /\ PreExec(b, "int8", r) = ReadNumber(b, r, 1, Error)
            /\ PreExec(b, "int32", r) = ReadNumber(b, r, Wide, Error)
            /\ PreExec(b, "int64", r) = Error
            /\ PreExec(b, "string", r) = ReadString(b, r)
            /\ PreExec(b, "buffer", r) = ReadBuffer(b, r, Error)
            /\ PreExec(b, "string_out", r) = r /\ PreExec(b, "buffer_out", r) = r
BY DEF PreExec, IsOut

LEMMA CallReads ==
  \A b, r : /\ CallRead(b, "string_out", r) = ReadString(b, r)
            /\ CallRead(b, "buffer_out", r) = ReadBuffer(b, r, More)
            /\ CallRead(b, "int8", r) = r /\ CallRead(b, "int32", r) = r
            /\ CallRead(b, "int64", r) = r
            /\ CallRead(b, "string", r) = r /\ CallRead(b, "buffer", r) = r
BY DEF CallRead

\* The server takes an IN argument whole, or fails.
LEMMA ServerArgument ==
  ASSUME NEW t \in Types, ~IsOut(t), NEW v \in Values(t), NEW b \in Seq(Byte),
         NEW pos \in Nat, NEW values, Carries(b, pos, Encoded(t, v))
  PROVE  LET r == PreExec(b, t, Read(pos, values))
         IN  r = Error \/ Took(r, b, pos, values, Encoded(t, v), v)
<1>1. t \in {"int8", "int32", "int64", "string", "buffer"}
  BY TypesAre DEF IsOut
<1>2. 1 \in Nat /\ Wide \in Nat
  BY AppInterfaceAssumption
<1>3. CASE t = "int8"
  <2>1. v \in Numbers(1) /\ Encoded(t, v) = Bytes(v, 1)
    BY <1>3, TypesAre, EncodedAre
  <2>2. PreExec(b, t, Read(pos, values)) = ReadNumber(b, Read(pos, values), 1, Error)
    BY <1>3, PreExecs
  <2> QED
    BY <1>2, <2>1, <2>2, ReadsNumber
<1>4. CASE t = "int32"
  <2>1. v \in Numbers(Wide) /\ Encoded(t, v) = Bytes(v, Wide)
    BY <1>4, TypesAre, EncodedAre
  <2>2. PreExec(b, t, Read(pos, values)) = ReadNumber(b, Read(pos, values), Wide, Error)
    BY <1>4, PreExecs
  <2> QED
    BY <1>2, <2>1, <2>2, ReadsNumber
<1>5. CASE t = "int64"
  BY <1>5, PreExecs
<1>6. CASE t = "string"
  <2>1. v \in Seq({1}) /\ Encoded(t, v) = Append(v, 0)
    BY <1>6, TypesAre, TextsAreSeqs, EncodedAre
  <2>2. PreExec(b, t, Read(pos, values)) = ReadString(b, Read(pos, values))
    BY <1>6, PreExecs
  <2> QED
    BY <2>1, <2>2, ReadsString
<1>7. CASE t = "buffer"
  <2>1. v \in Texts(Byte) /\ Encoded(t, v) = Bytes(Len(v), Wide) \o v
    BY <1>7, TypesAre, EncodedAre
  <2>2. PreExec(b, t, Read(pos, values)) = ReadBuffer(b, Read(pos, values), Error)
    BY <1>7, PreExecs
  <2> QED
    BY <2>1, <2>2, ReadsBuffer
<1> QED
  BY <1>1, <1>3, <1>4, <1>5, <1>6, <1>7

\* The client takes an OUT argument whole, asks for more or fails on a string.
LEMMA ClientArgument ==
  ASSUME NEW t \in Types, IsOut(t), NEW v \in Values(t), NEW b \in Seq(Byte),
         NEW pos \in Nat, NEW values, Carries(b, pos, Encoded(t, v))
  PROVE  LET r == CallRead(b, t, Read(pos, values))
         IN  \/ r = More
             \/ r = Error /\ t = "string_out"
             \/ Took(r, b, pos, values, Encoded(t, v), v)
<1>1. t \in {"string_out", "buffer_out"}
  BY DEF IsOut
<1>2. CASE t = "string_out"
  <2>1. v \in Seq({1}) /\ Encoded(t, v) = Append(v, 0)
    BY <1>2, TypesAre, TextsAreSeqs, EncodedAre
  <2>2. CallRead(b, t, Read(pos, values)) = ReadString(b, Read(pos, values))
    BY <1>2, CallReads
  <2> QED
    BY <1>2, <2>1, <2>2, ReadsString
<1>3. CASE t = "buffer_out"
  <2>1. v \in Texts(Byte) /\ Encoded(t, v) = Bytes(Len(v), Wide) \o v
    BY <1>3, TypesAre, EncodedAre
  <2>2. CallRead(b, t, Read(pos, values)) = ReadBuffer(b, Read(pos, values), More)
    BY <1>3, CallReads
  <2> QED
    BY <2>1, <2>2, ReadsBuffer
<1> QED
  BY <1>1, <1>2, <1>3

\* A side takes one of its arguments whole or does not succeed, and passes over those
\* of the other direction.
LEMMA OneArgument ==
  ASSUME NEW values, NEW r, NEW xs \in Seq(Arguments), NEW out \in BOOLEAN,
         NEW k \in 1 .. Len(xs), NEW b \in Seq(Byte), NEW pos \in Nat,
         IsOut(TypeOf(xs[k])) = out
           => Carries(b, pos, Encoded(TypeOf(xs[k]), ValueOf(xs[k]))),
         r = NextRead(Side(out), b, TypeOf(xs[k]), Read(pos, values))
  PROVE  LET t == TypeOf(xs[k])
             v == ValueOf(xs[k])
         IN /\ IsOut(t) = out => Failed(xs, out, r) \/ Took(r, b, pos, values, Encoded(t, v), v)
            /\ IsOut(t) # out => r = Read(pos, values)
<1> DEFINE t == TypeOf(xs[k])
           v == ValueOf(xs[k])
           q == Read(pos, values)
<1>1. t \in Types /\ v \in Values(t)
  BY ArgumentParts
<1>2. k \in 1 .. Len(xs) /\ r = NextRead(Side(out), b, t, q)
  OBVIOUS
<1>3. q.status = "ok"
  BY ReadParts
<1>4. IsOut(t) = out => Carries(b, pos, Encoded(t, v))
  OBVIOUS
<1>5. IsOut(t) \in BOOLEAN
  BY DEF IsOut
<1>6. CASE out
  <2>1. r = CallRead(b, t, q)
    <3> HIDE DEF q, t
    <3> QED
      BY <1>2, <1>3, <1>6 DEF NextRead, Side
  <2>2. CASE IsOut(t)
    <3>1. \/ r = More
          \/ r = Error /\ t = "string_out"
          \/ Took(r, b, pos, values, Encoded(t, v), v)
      <4>1. Carries(b, pos, Encoded(t, v))
        BY <1>4, <1>6, <2>2
      <4> HIDE DEF t, v
      <4> QED
        BY <1>1, <2>1, <2>2, <4>1, ClientArgument DEF q
    <3>2. t = "string_out" => \E j \in 1 .. Len(xs) : TypeOf(xs[j]) = "string_out"
      BY <1>2
    <3> QED
      BY <1>6, <2>2, <3>1, <3>2, Zenon DEF Failed, q
  <2>3. CASE ~IsOut(t)
    <3>1. t \in {"int8", "int32", "int64", "string", "buffer"}
      <4> HIDE DEF t
      <4> QED
        BY <1>1, <2>3, TypesAre DEF IsOut
    <3>2. CallRead(b, t, q) = q
      <4> HIDE DEF t, q
      <4> QED
        BY <3>1, CallReads
    <3> QED
      BY <1>6, <2>1, <2>3, <3>2
  <2> QED
    BY <1>5, <2>2, <2>3
<1>7. CASE ~out
  <2>1. r = PreExec(b, t, q)
    <3> HIDE DEF q, t
    <3> QED
      BY <1>2, <1>3, <1>7 DEF NextRead, Side
  <2>2. CASE ~IsOut(t)
    <3>1. r = Error \/ Took(r, b, pos, values, Encoded(t, v), v)
      <4>1. Carries(b, pos, Encoded(t, v))
        BY <1>4, <1>5, <1>7, <2>2
      <4> HIDE DEF t, v
      <4> QED
        BY <1>1, <2>1, <2>2, <4>1, ServerArgument DEF q
    <3> QED
      BY <1>5, <1>7, <2>2, <3>1 DEF Failed, q
  <2>3. CASE IsOut(t)
    <3>1. t \in {"string_out", "buffer_out"}
      BY <2>3 DEF IsOut
    <3>2. PreExec(b, t, q) = q
      <4> HIDE DEF t, q
      <4> QED
        BY <3>1, PreExecs
    <3> QED
      BY <1>7, <2>1, <2>3, <3>2
  <2> QED
    BY <1>5, <2>2, <2>3
<1> QED
  BY <1>6, <1>7

\* f is the function of the LET of ReadAll.
IsReading(f, xs, side, b, start) ==
  f = [k \in 0 .. Len(xs) |->
        IF k = 0 THEN start
        ELSE IF f[k - 1].status # "ok" THEN f[k - 1]
        ELSE IF side = "server" THEN PreExec(b, TypeOf(xs[k]), f[k - 1])
        ELSE CallRead(b, TypeOf(xs[k]), f[k - 1])]

Reading(xs, side, b, start) == CHOOSE f : IsReading(f, xs, side, b, start)

\* There is such a function.
LEMMA ReadingExists ==
  ASSUME NEW xs \in Seq(Arguments), NEW side, NEW b, NEW start
  PROVE  \E f : IsReading(f, xs, side, b, start)
<1> DEFINE n == Len(xs)
           step(k, r) == NextRead(side, b, TypeOf(xs[k]), r)
           Upto(m, f) == /\ f = [k \in 0 .. m |-> f[k]]
                         /\ f[0] = start
                         /\ \A k \in 1 .. m : f[k] = step(k, f[k - 1])
           P == {m \in 0 .. n : \E f : Upto(m, f)}
<1>0. n \in Nat
  BY LenProperties
<1> HIDE DEF n, step
<1>1. 0 \in P
  <2> DEFINE f == [k \in 0 .. 0 |-> start]
  <2>1. Upto(0, f)
    OBVIOUS
  <2>2. 0 \in 0 .. n
    BY <1>0
  <2> HIDE DEF f, Upto
  <2> QED
    BY <2>1, <2>2
<1>2. ASSUME NEW m \in 0 .. n - 1, m \in P PROVE m + 1 \in P
  <2>1. PICK g : Upto(m, g)
    BY <1>2
  <2> DEFINE x == step(m + 1, g[m])
             f == [k \in 0 .. m + 1 |-> IF k = m + 1 THEN x ELSE g[k]]
  <2> HIDE DEF x
  <2>2. f = [k \in 0 .. m + 1 |-> f[k]] /\ f[0] = start /\ f[m + 1] = x
    BY <2>1
  <2>3. \A k \in 0 .. m : f[k] = g[k]
    OBVIOUS
  <2> HIDE DEF f
  <2>4. ASSUME NEW k \in 1 .. m + 1 PROVE f[k] = step(k, f[k - 1])
    <3>1. CASE k = m + 1
      <4>1. f[k - 1] = g[m]
        BY <3>1, <2>3
      <4> QED
        BY <4>1, <3>1, <2>2 DEF x
    <3>2. CASE k # m + 1
      <4>1. k \in 1 .. m /\ k \in 0 .. m /\ k - 1 \in 0 .. m
        BY <3>2
      <4>2. f[k] = g[k] /\ f[k - 1] = g[k - 1] /\ g[k] = step(k, g[k - 1])
        BY <4>1, <2>1, <2>3
      <4> QED
        BY <4>2
    <3> QED
      BY <3>1, <3>2
  <2>5. Upto(m + 1, f) /\ m + 1 \in 0 .. n
    BY <1>0, <2>2, <2>4
  <2> HIDE DEF Upto
  <2> QED
    BY <2>5
<1> HIDE DEF P
<1>3. \A k \in 0 .. n : k \in P
  BY <1>0, <1>1, <1>2, UpTo
<1>4. PICK f : Upto(n, f)
  <2>1. n \in P
    BY <1>0, <1>3
  <2> HIDE DEF Upto
  <2> QED
    BY <2>1 DEF P
<1>5. f = [k \in 0 .. n |-> IF k = 0 THEN start ELSE step(k, f[k - 1])]
  <2> DEFINE g(k) == IF k = 0 THEN start ELSE step(k, f[k - 1])
  <2>1. \A k \in 0 .. n : f[k] = g(k)
    <3>1. \A k \in 0 .. n : k # 0 => k \in 1 .. n
      BY <1>0
    <3> QED
      BY <1>4, <3>1
  <2> HIDE DEF g
  <2>2. f = [k \in 0 .. n |-> g(k)]
    BY <1>4, <2>1
  <2> QED
    BY <2>2 DEF g
<1>6. IsReading(f, xs, side, b, start)
  BY <1>5, Zenon DEF IsReading, n, step, NextRead
<1> QED
  BY <1>6

\* ReadAll, argument by argument.
LEMMA ReadingUnfold ==
  ASSUME NEW side, NEW b, NEW start, NEW f, NEW xs \in Seq(Arguments),
         f = Reading(xs, side, b, start)
  PROVE  /\ f[0] = start
         /\ \A k \in 1 .. Len(xs) : f[k] = NextRead(side, b, TypeOf(xs[k]), f[k - 1])
<1> DEFINE n == Len(xs)
           step(k, r) == NextRead(side, b, TypeOf(xs[k]), r)
<1>1. IsReading(f, xs, side, b, start)
  BY ReadingExists DEF Reading
<1>2. n \in Nat
  BY LenProperties
<1>3. f = [k \in 0 .. n |-> IF k = 0 THEN start ELSE step(k, f[k - 1])]
  BY <1>1, Zenon DEF IsReading, NextRead
<1> HIDE DEF n, step
<1>4. f[0] = start /\ \A k \in 1 .. n : f[k] = step(k, f[k - 1])
  <2>1. 0 \in 0 .. n /\ \A k \in 1 .. n : k \in 0 .. n /\ k # 0
    BY <1>2
  <2> QED
    BY <1>3, <2>1
<1> QED
  BY <1>4 DEF n, step

\* Argument after argument, the values are those that were sent and the position
\* is the end of their bytes, unless the side failed before.
LEMMA Reads ==
  ASSUME NEW xs \in Seq(Arguments), NEW out \in BOOLEAN, NEW b \in Seq(Byte),
         NEW pos \in Nat, pos <= Len(b), Carries(b, pos, Encoding(xs, out)[Len(xs)])
  PROVE  LET n == Len(xs)
             r == Reading(xs, Side(out), b, Read(pos, << >>))[n]
             e == Encoding(xs, out)[n]
         IN \/ Failed(xs, out, r)
            \/ r = Read(pos + Len(e), ValuesIn(xs, out)[n]) /\ pos + Len(e) <= Len(b)
<1> DEFINE n == Len(xs)
           f == Reading(xs, Side(out), b, Read(pos, << >>))
           s == Encoding(xs, out)
           m == ValuesIn(xs, out)
           Stage(k) == \/ Failed(xs, out, f[k])
                       \/ f[k] = Read(pos + Len(s[k]), m[k]) /\ pos + Len(s[k]) <= Len(b)
           P == {k \in 0 .. n : Stage(k)}
<1>1. n \in Nat /\ Len(b) \in Nat /\ \A k \in 0 .. n : Len(s[k]) \in Nat /\ Len(s[k]) <= Len(s[n])
  BY LenProperties, Positions
<1>2. \A r : Failed(xs, out, r) => r.status # "ok"
  <2>1. Error.status # "ok" /\ More.status # "ok"
    BY DEF Error, More
  <2> QED
    BY <2>1, Zenon DEF Failed
<1>3. /\ f[0] = Read(pos, << >>)
      /\ \A k \in 1 .. n : f[k] = NextRead(Side(out), b, TypeOf(xs[k]), f[k - 1])
  <2> DEFINE side == Side(out)
             start == Read(pos, << >>)
  <2>1. f = Reading(xs, side, b, start)
    OBVIOUS
  <2> HIDE DEF f, side, start
  <2>2. f[0] = start /\ \A k \in 1 .. Len(xs) : f[k] = NextRead(side, b, TypeOf(xs[k]), f[k - 1])
    BY <2>1, ReadingUnfold
  <2> QED
    BY <2>2, Zenon DEF side, start
<1>4. 0 \in P
  <2>1. f[0] = Read(pos, << >>)
    BY <1>3
  <2>2. s[0] = << >> /\ m[0] = << >>
    BY EncodingUnfold, ValuesUnfold
  <2> HIDE DEF f, s, m
  <2>3. pos + Len(s[0]) = pos
    BY <2>2
  <2>4. Stage(0)
    BY <2>1, <2>2, <2>3
  <2> HIDE DEF Stage, n
  <2> QED
    BY <1>1, <2>4
<1>5. ASSUME NEW j \in 0 .. n - 1, j \in P PROVE j + 1 \in P
  <2> DEFINE k == j + 1
             t == TypeOf(xs[k])
             v == ValueOf(xs[k])
             e == Encoded(t, v)
             p == pos + Len(s[j])
  <2>1. k \in 1 .. n /\ k \in 0 .. n /\ k - 1 = j /\ j \in 0 .. n
    <3> HIDE DEF n
    <3> QED
      BY <1>1
  <2> SUFFICES Stage(k)
    <3> HIDE DEF Stage
    <3> QED
      BY <2>1
  <2>2. f[k] = NextRead(Side(out), b, t, f[j])
    <3> HIDE DEF f, n
    <3> QED
      BY <1>3, <2>1
  <2>3. Stage(j)
    BY <1>5
  <2>4. CASE Failed(xs, out, f[j])
    <3>1. f[k] = f[j]
      <4> HIDE DEF f, t
      <4> QED
        BY <1>2, <2>2, <2>4 DEF NextRead
    <3> QED
      BY <2>4, <3>1
  <2>5. CASE f[j] = Read(p, m[j]) /\ p <= Len(b)
    <3>1. p \in Nat
      <4> HIDE DEF s, n, k
      <4> QED
        BY <1>1, <2>1
    <3>2. f[k] = NextRead(Side(out), b, t, Read(p, m[j]))
      BY <2>2, <2>5
    <3>3. IsOut(t) = out
            => /\ Len(e) \in Nat /\ Len(s[k]) = Len(s[j]) + Len(e)
               /\ \A i \in 1 .. Len(e) : s[n][Len(s[j]) + i] = e[i]
      <4> SUFFICES ASSUME IsOut(t) = out
                   PROVE  /\ Len(e) \in Nat /\ Len(s[k]) = Len(s[j]) + Len(e)
                          /\ \A i \in 1 .. Len(e) : s[n][Len(s[j]) + i] = e[i]
        OBVIOUS
      <4>1. /\ Len(e) \in Nat /\ Len(s[k]) = Len(s[k - 1]) + Len(e)
            /\ \A i \in 1 .. Len(e) : s[n][Len(s[k - 1]) + i] = e[i]
        <5> HIDE DEF k
        <5> QED
          BY <2>1, ArgumentAt
      <4> HIDE DEF k, s, n, e
      <4> QED
        BY <2>1, <4>1
    <3>4. IsOut(t) = out => Carries(b, p, e)
      <4> SUFFICES ASSUME IsOut(t) = out, NEW i \in 1 .. Len(e), p + i <= Len(b)
                   PROVE  b[p + i] = e[i]
        BY DEF Carries
      <4> DEFINE c == s[n]
                 l == Len(s[j]) + i
      <4>1. l \in 1 .. Len(c) /\ pos + l = p + i
        <5>1. Len(e) \in Nat /\ Len(s[k]) = Len(s[j]) + Len(e)
          BY <3>3
        <5>2. Len(s[j]) \in Nat /\ Len(s[k]) <= Len(c) /\ Len(c) \in Nat
          <6> HIDE DEF s, n, k
          <6> QED
            BY <1>1, <2>1
        <5> HIDE DEF c, s, e, k
        <5> QED
          BY <5>1, <5>2
      <4>2. c[l] = e[i]
        BY <3>3
      <4>3. Carries(b, pos, c)
        OBVIOUS
      <4> HIDE DEF c, l, p, e
      <4>4. b[pos + l] = c[l]
        BY <4>1, <4>3 DEF Carries
      <4> QED
        BY <4>1, <4>2, <4>4
    <3>5. /\ IsOut(t) = out => Failed(xs, out, f[k]) \/ Took(f[k], b, p, m[j], e, v)
          /\ IsOut(t) # out => f[k] = Read(p, m[j])
      <4> DEFINE q == m[j]
      <4>1. f[k] = NextRead(Side(out), b, t, Read(p, q)) /\ p \in Nat /\ k \in 1 .. Len(xs)
        BY <2>1, <3>1, <3>2
      <4>2. IsOut(t) = out => Carries(b, p, e)
        BY <3>4
      <4>0. xs \in Seq(Arguments) /\ out \in BOOLEAN /\ b \in Seq(Byte)
        OBVIOUS
      <4> HIDE DEF q, p, k, f
      <4>3. /\ IsOut(t) = out => Failed(xs, out, f[k]) \/ Took(f[k], b, p, q, e, v)
            /\ IsOut(t) # out => f[k] = Read(p, q)
        BY <4>0, <4>1, <4>2, OneArgument
      <4> QED
        BY <4>3 DEF q
    <3>6. /\ IsOut(t) = out => m[k] = Append(m[j], v)
          /\ IsOut(t) # out => m[k] = m[j] /\ s[k] = s[j]
      <4>1. /\ m[k] = IF IsOut(t) = out THEN Append(m[k - 1], v) ELSE m[k - 1]
            /\ s[k] = IF IsOut(t) = out THEN s[k - 1] \o e ELSE s[k - 1]
        <5> HIDE DEF k
        <5> QED
          BY <2>1, EncodingUnfold, ValuesUnfold
      <4> HIDE DEF k, m, s, t, v, e
      <4> QED
        BY <2>1, <4>1
    <3>7. CASE IsOut(t) = out
      <4>1. CASE Failed(xs, out, f[k])
        BY <4>1
      <4>2. CASE Took(f[k], b, p, m[j], e, v)
        <5>1. p + Len(e) = pos + Len(s[k])
          <6>1. Len(e) \in Nat /\ Len(s[k]) = Len(s[j]) + Len(e) /\ Len(s[j]) \in Nat
            <7>1. Len(s[j]) \in Nat
              <8> HIDE DEF s, n
              <8> QED
                BY <1>1, <2>1
            <7> QED
              BY <3>3, <3>7, <7>1
          <6> HIDE DEF e, s, k
          <6> QED
            BY <6>1
        <5>2. f[k] = Read(p + Len(e), m[k]) /\ p + Len(e) <= Len(b)
          BY <3>6, <3>7, <4>2 DEF Took
        <5> HIDE DEF p, e, s, k, f, m
        <5> QED
          BY <5>1, <5>2
      <4> HIDE DEF Stage
      <4> QED
        BY <3>5, <3>7, <4>1, <4>2
    <3>8. CASE IsOut(t) # out
      <4>1. f[k] = Read(p, m[j]) /\ m[k] = m[j] /\ s[k] = s[j]
        BY <3>5, <3>6, <3>8
      <4> HIDE DEF f, k, m, s
      <4> QED
        BY <2>5, <4>1
    <3> QED
      BY <3>7, <3>8
  <2> QED
    BY <2>3, <2>4, <2>5
<1> HIDE DEF P
<1>6. \A k \in 0 .. n : k \in P
  BY <1>1, <1>4, <1>5, UpTo
<1>7. Stage(n)
  <2>1. n \in P
    <3> HIDE DEF n
    <3> QED
      BY <1>1, <1>6
  <2> HIDE DEF Stage
  <2> QED
    BY <2>1 DEF P
<1> QED
  BY <1>7

-------------------------------------------------------------------------------
(* The request and the answer *)

\* The messages, as functions of the arguments.
RequestOf(xs) == Append(Name, 0) \o Encoding(xs, FALSE)[Len(xs)]
ReplyOf(xs) == Encoding(xs, TRUE)[Len(xs)] \o Bytes(ReturnValue, Wide)

\* The messages and values of the model are those of its arguments.
LEMMA Messages ==
  /\ Request = RequestOf(args) /\ Reply = ReplyOf(args)
  /\ \A out \in BOOLEAN : ValuesOf(out) = ValuesIn(args, out)[Len(args)]
<1>1. \A out : EncodedAll(out) = Encoding(args, out)[Len(args)]
  BY Zenon DEF EncodedAll, Encoding, IsEncoding
<1>2. \A out : ValuesOf(out) = ValuesIn(args, out)[Len(args)]
  BY Zenon DEF ValuesOf, ValuesIn, IsValues
<1> QED
  BY <1>1, <1>2, Zenon DEF Request, RequestOf, Reply, ReplyOf

\* ReadAll is the last value of that function.
LEMMA Readings ==
  ASSUME NEW side, NEW b, NEW start
  PROVE  ReadAll(side, b, start) = Reading(args, side, b, start)[Len(args)]
BY Zenon DEF ReadAll, Reading, IsReading

\* The request is the name and the IN arguments.
LEMMA RequestParts ==
  ASSUME NEW xs \in Seq(Arguments)
  PROVE  LET e == Append(Name, 0)
             s == Encoding(xs, FALSE)[Len(xs)]
         IN /\ RequestOf(xs) \in Seq(Byte) /\ Len(e) \in Nat /\ Len(s) \in Nat
            /\ Len(RequestOf(xs)) = Len(e) + Len(s) /\ Len(e) > 0
            /\ \A k \in 1 .. Len(e) : RequestOf(xs)[k] = e[k]
            /\ \A k \in 1 .. Len(s) : RequestOf(xs)[Len(e) + k] = s[k]
<1> DEFINE e == Append(Name, 0)
           s == Encoding(xs, FALSE)[Len(xs)]
           r == RequestOf(xs)
<1>1. Len(xs) \in 0 .. Len(xs)
  <2>1. Len(xs) \in Nat
    BY LenProperties
  <2>2. \A n \in Nat : n \in 0 .. n
    OBVIOUS
  <2> QED
    BY <2>1, <2>2, Zenon
<1>2. s \in Seq(Byte)
  BY <1>1, Positions
<1>3. e \in Seq(Byte) /\ Len(e) > 0
  BY DEF Name, Byte
<1>4. r = e \o s
  BY DEF RequestOf
<1> HIDE DEF e, s, r
<1>5. /\ r \in Seq(Byte) /\ Len(r) = Len(e) + Len(s) /\ Len(e) \in Nat /\ Len(s) \in Nat
      /\ \A k \in 1 .. Len(e) + Len(s) : r[k] = IF k <= Len(e) THEN e[k] ELSE s[k - Len(e)]
  BY <1>2, <1>3, <1>4, ConcatProperties, LenProperties
<1>6. \A k \in 1 .. Len(e) : r[k] = e[k]
  BY <1>5
<1>7. ASSUME NEW k \in 1 .. Len(s) PROVE r[Len(e) + k] = s[k]
  <2>1. Len(e) + k \in 1 .. Len(e) + Len(s) /\ ~(Len(e) + k <= Len(e)) /\ (Len(e) + k) - Len(e) = k
    BY <1>5
  <2> QED
    BY <1>5, <2>1
<1> QED
  BY <1>3, <1>5, <1>6, <1>7 DEF e, s, r

\* The answer is the OUT arguments and the result.
LEMMA ReplyParts ==
  ASSUME NEW xs \in Seq(Arguments)
  PROVE  LET s == Encoding(xs, TRUE)[Len(xs)]
             e == Bytes(ReturnValue, Wide)
         IN /\ ReplyOf(xs) \in Seq(Byte) /\ Len(e) \in Nat /\ Len(s) \in Nat
            /\ Len(ReplyOf(xs)) = Len(s) + Len(e)
            /\ \A k \in 1 .. Len(s) : ReplyOf(xs)[k] = s[k]
            /\ \A k \in 1 .. Len(e) : ReplyOf(xs)[Len(s) + k] = e[k]
            /\ Wide \in Nat /\ ReturnValue \in Numbers(Wide)
<1> DEFINE s == Encoding(xs, TRUE)[Len(xs)]
           e == Bytes(ReturnValue, Wide)
           r == ReplyOf(xs)
<1>1. Len(xs) \in 0 .. Len(xs)
  <2>1. Len(xs) \in Nat
    BY LenProperties
  <2>2. \A n \in Nat : n \in 0 .. n
    OBVIOUS
  <2> QED
    BY <2>1, <2>2, Zenon
<1>2. s \in Seq(Byte)
  BY <1>1, Positions
<1>3. Wide \in Nat /\ ReturnValue \in Numbers(Wide)
  BY AppInterfaceAssumption, OneIsNumber DEF ReturnValue
<1>4. e \in Seq(Byte)
  BY <1>3, NumberOfBytes
<1>5. r = s \o e
  BY DEF ReplyOf
<1> HIDE DEF e, s, r
<1>6. /\ r \in Seq(Byte) /\ Len(r) = Len(s) + Len(e) /\ Len(e) \in Nat /\ Len(s) \in Nat
      /\ \A k \in 1 .. Len(s) + Len(e) : r[k] = IF k <= Len(s) THEN s[k] ELSE e[k - Len(s)]
  BY <1>2, <1>4, <1>5, ConcatProperties, LenProperties
<1>7. \A k \in 1 .. Len(s) : r[k] = s[k]
  BY <1>6
<1>8. ASSUME NEW k \in 1 .. Len(e) PROVE r[Len(s) + k] = e[k]
  <2>1. Len(s) + k \in 1 .. Len(s) + Len(e) /\ ~(Len(s) + k <= Len(s)) /\ (Len(s) + k) - Len(s) = k
    BY <1>6
  <2> QED
    BY <1>6, <2>1
<1> QED
  BY <1>3, <1>6, <1>7, <1>8 DEF e, s, r

\* The values a side has to read.
SentValues(xs, out) == ValuesIn(xs, out)[Len(xs)]

LEMMA Sent ==
  ValuesOf(FALSE) = SentValues(args, FALSE) /\ ValuesOf(TRUE) = SentValues(args, TRUE)
BY Messages DEF SentValues

\* Whatever part of the request arrived, the server fails or has all of it and the
\* values of the client.
LEMMA ServerReceives ==
  ASSUME NEW b \in Seq(Byte), args \in Seq(Arguments), Len(b) <= Len(RequestOf(args)),
         \A i \in 1 .. Len(b) : b[i] = RequestOf(args)[i]
  PROVE  \/ Receive(b) = Error
         \/ /\ Receive(b) = Read(Len(b), SentValues(args, FALSE))
            /\ Len(b) = Len(RequestOf(args))
<1> DEFINE e == Append(Name, 0)
           s == Encoding(args, FALSE)[Len(args)]
           m == RequestOf(args)
           none == << >>
           name == ReadString(b, Read(0, none))
           all == ReadAll("server", b, Read(name.pos, none))
           known == name.status = "ok" /\ name.values = <<Name>>
           end == Len(e)
<1>1. /\ end \in Nat /\ Len(s) \in Nat /\ Len(m) = end + Len(s)
      /\ \A k \in 1 .. end : m[k] = e[k]
      /\ \A k \in 1 .. Len(s) : m[end + k] = s[k]
  BY RequestParts
<1>2. Len(b) \in Nat /\ Len(b) <= Len(m) /\ \A i \in 1 .. Len(b) : b[i] = m[i]
  BY LenProperties
<1>3. Receive(b) = IF known THEN all ELSE Error
  BY Zenon DEF Receive
<1>4. name = Error \/ (name = Read(end, <<Name>>) /\ end <= Len(b))
  <2>1. Name \in Seq({1}) /\ 0 \in Nat
    BY DEF Name
  <2>2. Carries(b, 0, e)
    <3> HIDE DEF e, m
    <3> QED
      BY <1>1, <1>2 DEF Carries
  <2>3. name = Error \/ Took(name, b, 0, none, e, Name)
    <3> HIDE DEF none
    <3> QED
      BY <2>1, <2>2, ReadsString
  <2>4. Append(none, Name) = <<Name>> /\ 0 + end = end
    <3>1. Append(none, Name) = <<Name>>
      OBVIOUS
    <3>2. 0 + end = end
      <4> HIDE DEF end
      <4> QED
        BY <1>1
    <3> QED
      BY <3>1, <3>2
  <2>5. Took(name, b, 0, none, e, Name)
          => (name = Read(0 + end, Append(none, Name)) /\ 0 + end <= Len(b))
    BY Zenon DEF Took
  <2> DEFINE names == <<Name>>
             full == Append(none, Name)
  <2>6. full = names /\ 0 + end = end
    BY <2>4
  <2> HIDE DEF name, end, names, full
  <2>7. Took(name, b, 0, none, e, Name) => (name = Read(0 + end, full) /\ 0 + end <= Len(b))
    BY <2>5, Zenon DEF full
  <2> HIDE DEF none, e
  <2>8. name = Error \/ (name = Read(end, names) /\ end <= Len(b))
    BY <2>3, <2>6, <2>7
  <2> QED
    BY <2>8 DEF names
<1>5. CASE name = Error
  <2>1. ~known
    <3>1. Error.status # "ok"
      BY DEF Error
    <3> HIDE DEF name
    <3> QED
      BY <1>5, <3>1
  <2> HIDE DEF known, all
  <2> QED
    BY <1>3, <2>1
<1>6. CASE name = Read(end, <<Name>>) /\ end <= Len(b)
  <2>1. known /\ name.pos = end
    <3> HIDE DEF name, end
    <3> QED
      BY <1>6, ReadParts
  <2>2. Receive(b) = ReadAll("server", b, Read(end, none))
    <3> HIDE DEF known, end, name, none
    <3> QED
      BY <1>3, <2>1
  <2>3. Carries(b, end, s)
    <3> SUFFICES ASSUME NEW j \in 1 .. Len(s), end + j <= Len(b) PROVE b[end + j] = s[j]
      BY DEF Carries
    <3> HIDE DEF s, m, end
    <3>1. end + j \in 1 .. Len(b)
      BY <1>1, <1>2
    <3> QED
      BY <1>1, <1>2, <3>1
  <2>4. Side(FALSE) = "server" /\ FALSE \in BOOLEAN
    BY DEF Side
  <2> DEFINE r == Reading(args, "server", b, Read(end, none))[Len(args)]
  <2>5. Receive(b) = r
    BY <2>2, Readings
  <2>6. \/ Failed(args, FALSE, r)
        \/ r = Read(end + Len(s), SentValues(args, FALSE)) /\ end + Len(s) <= Len(b)
    <3>1. /\ end \in Nat /\ end <= Len(b) /\ Carries(b, end, Encoding(args, FALSE)[Len(args)])
      BY <1>1, <1>6, <2>3
    <3> HIDE DEF end
    <3>2. \/ Failed(args, FALSE, Reading(args, Side(FALSE), b, Read(end, << >>))[Len(args)])
          \/ /\ Reading(args, Side(FALSE), b, Read(end, << >>))[Len(args)]
                  = Read(end + Len(Encoding(args, FALSE)[Len(args)]), ValuesIn(args, FALSE)[Len(args)])
             /\ end + Len(Encoding(args, FALSE)[Len(args)]) <= Len(b)
      BY <2>4, <3>1, Reads
    <3> QED
      BY <2>4, <3>2, Zenon DEF SentValues
  <2> HIDE DEF r, end, s, m
  <2>7. CASE Failed(args, FALSE, r)
    BY <2>5, <2>7 DEF Failed
  <2>8. CASE r = Read(end + Len(s), SentValues(args, FALSE)) /\ end + Len(s) <= Len(b)
    <3>1. end + Len(s) = Len(b) /\ Len(b) = Len(m)
      BY <1>1, <1>2, <2>8
    <3> QED
      BY <2>5, <2>8, <3>1 DEF m
  <2> QED
    BY <2>6, <2>7, <2>8
<1> QED
  BY <1>4, <1>5, <1>6

\* Whatever part of the answer arrived, the client asks for more, has all of it and
\* the values of the server, or fails in front of a string.
LEMMA ClientReceives ==
  ASSUME NEW b \in Seq(Byte), args \in Seq(Arguments), Len(b) <= Len(ReplyOf(args)),
         \A i \in 1 .. Len(b) : b[i] = ReplyOf(args)[i]
  PROVE  \/ CallReceive(b) = More
         \/ /\ CallReceive(b) = Error
            /\ \E j \in 1 .. Len(args) : TypeOf(args[j]) = "string_out"
         \/ /\ CallReceive(b) = Read(Len(b), Append(SentValues(args, TRUE), ReturnValue))
            /\ Len(b) = Len(ReplyOf(args))
<1> DEFINE s == Encoding(args, TRUE)[Len(args)]
           e == Bytes(ReturnValue, Wide)
           m == ReplyOf(args)
           v == SentValues(args, TRUE)
           none == << >>
           all == Reading(args, "client", b, Read(0, none))[Len(args)]
           c == CallReceive(b)
<1>1. /\ Len(e) \in Nat /\ Len(s) \in Nat /\ Len(m) = Len(s) + Len(e)
      /\ \A k \in 1 .. Len(s) : m[k] = s[k]
      /\ \A k \in 1 .. Len(e) : m[Len(s) + k] = e[k]
      /\ Wide \in Nat /\ ReturnValue \in Numbers(Wide)
  BY ReplyParts
<1>2. Len(b) \in Nat /\ Len(b) <= Len(m) /\ \A i \in 1 .. Len(b) : b[i] = m[i]
  BY LenProperties
<1>3. c = IF all.status # "ok" THEN all ELSE ReadNumber(b, all, Wide, More)
  BY Readings, Zenon DEF CallReceive
<1>4. \/ Failed(args, TRUE, all)
      \/ all = Read(Len(s), v) /\ Len(s) <= Len(b)
  <2>1. 0 \in Nat /\ 0 <= Len(b) /\ TRUE \in BOOLEAN /\ Side(TRUE) = "client"
    BY <1>2 DEF Side
  <2>2. Carries(b, 0, s)
    <3> HIDE DEF s, m
    <3> QED
      BY <1>1, <1>2 DEF Carries
  <2>3. \/ Failed(args, TRUE, Reading(args, Side(TRUE), b, Read(0, << >>))[Len(args)])
        \/ /\ Reading(args, Side(TRUE), b, Read(0, << >>))[Len(args)]
                = Read(0 + Len(Encoding(args, TRUE)[Len(args)]), ValuesIn(args, TRUE)[Len(args)])
           /\ 0 + Len(Encoding(args, TRUE)[Len(args)]) <= Len(b)
    BY <2>1, <2>2, Reads
  <2>4. 0 + Len(s) = Len(s)
    <3> HIDE DEF s
    <3> QED
      BY <1>1
  <2> QED
    BY <2>1, <2>3, <2>4, Zenon DEF SentValues
<1>5. CASE Failed(args, TRUE, all)
  <2>1. Error.status # "ok" /\ More.status # "ok"
    BY DEF Error, More
  <2>2. all.status # "ok"
    BY <1>5, <2>1, Zenon DEF Failed
  <2>3. c = all
    BY <1>3, <2>2, Zenon
  <2> HIDE DEF all, c
  <2> QED
    BY <1>5, <2>3, Zenon DEF Failed, c
<1>6. CASE all = Read(Len(s), v) /\ Len(s) <= Len(b)
  <2> DEFINE pos == Len(s)
  <2>1. c = ReadNumber(b, Read(pos, v), Wide, More)
    <3>1. all.status = "ok"
      <4> HIDE DEF all, v, s
      <4> QED
        BY <1>6, ReadParts
    <3> QED
      BY <1>3, <1>6, <3>1, Zenon
  <2>2. Carries(b, pos, e)
    <3> SUFFICES ASSUME NEW j \in 1 .. Len(e), pos + j <= Len(b) PROVE b[pos + j] = e[j]
      BY DEF Carries
    <3> HIDE DEF s, m, e
    <3>1. pos + j \in 1 .. Len(b)
      BY <1>1, <1>2
    <3> QED
      BY <1>1, <1>2, <3>1
  <2>3. c = More \/ Took(c, b, pos, v, e, ReturnValue)
    <3>1. pos \in Nat
      BY <1>1
    <3> HIDE DEF pos, v, c
    <3>2. \A short : LET r == ReadNumber(b, Read(pos, v), Wide, short)
                     IN  r = short \/ Took(r, b, pos, v, e, ReturnValue)
      BY <1>1, <2>2, <3>1, ReadsNumber
    <3> QED
      BY <2>1, <3>2
  <2>4. CASE c = More
    BY <2>4
  <2>5. CASE Took(c, b, pos, v, e, ReturnValue)
    <3>1. pos + Len(e) <= Len(b) /\ c = Read(pos + Len(e), Append(v, ReturnValue))
      BY <2>5, Zenon DEF Took
    <3> HIDE DEF c, v, s, e, m
    <3>2. pos + Len(e) = Len(b) /\ Len(b) = Len(m)
      BY <1>1, <1>2, <3>1
    <3> QED
      BY <3>1, <3>2, Zenon DEF c, v, m
  <2> QED
    BY <2>3, <2>4, <2>5
<1> QED
  BY <1>4, <1>5, <1>6

-------------------------------------------------------------------------------
(* The call *)

\* A read takes the first n bytes and leaves the others.
LEMMA Cut ==
  ASSUME NEW s \in Seq(Byte), NEW n \in 1 .. Len(s)
  PROVE  LET a == SubSeq(s, 1, n)
             c == SubSeq(s, n + 1, Len(s))
         IN  a \in Seq(Byte) /\ c \in Seq(Byte) /\ Len(a) = n /\ a \o c = s
<1> DEFINE l == Len(s)
           a == SubSeq(s, 1, n)
           c == SubSeq(s, n + 1, l)
           o == n + 1
<1>1. l \in Nat /\ \A i \in 1 .. l : s[i] \in Byte
  BY LenProperties, ElementOfSeq
<1>2. n \in Int /\ 1 <= n /\ n <= l /\ 1 \in Int /\ o \in Int /\ n \in 0 .. l
      /\ (\A i \in 1 .. n : i \in 1 .. l) /\ (\A i \in o .. l : i \in 1 .. l)
  <2>1. n \in 1 .. l
    OBVIOUS
  <2> HIDE DEF l
  <2> QED
    BY <1>1, <2>1
<1> HIDE DEF l, o
<1>3. SubSeq(s, 1, n) \in Seq(Byte) /\ Len(SubSeq(s, 1, n)) = n
  <2>1. /\ SubSeq(s, 1, n) \in Seq(Byte)
        /\ Len(SubSeq(s, 1, n)) = IF 1 <= n THEN n - 1 + 1 ELSE 0
    BY <1>1, <1>2, SubSeqProperties
  <2> QED
    BY <1>2, <2>1
<1>4. SubSeq(s, o, l) \in Seq(Byte)
  BY <1>1, <1>2, SubSeqProperties
<1>5. a \o c = s
  <2>1. 1 \in 1 .. Len(s) + 1 /\ n \in 1 - 1 .. Len(s) /\ Len(s) \in n .. Len(s)
    BY <1>1, <1>2 DEF l
  <2>2. SubSeq(s, 1, n) \o SubSeq(s, n + 1, Len(s)) = SubSeq(s, 1, Len(s))
    BY <2>1, ConcatAdjacentSubSeq
  <2>3. SubSeq(s, 1, Len(s)) = s
    BY SubSeqFull
  <2> QED
    BY <2>2, <2>3, Zenon DEF l
<1> QED
  BY <1>3, <1>4, <1>5, Zenon DEF l, o

\* The beginning of a message.
LEMMA Beginning ==
  ASSUME NEW a \in Seq(Byte), NEW c \in Seq(Byte)
  PROVE  /\ a \o c \in Seq(Byte)
         /\ Len(a) \in Nat /\ Len(c) \in Nat /\ Len(a \o c) = Len(a) + Len(c)
         /\ Len(a) <= Len(a \o c)
         /\ \A i \in 1 .. Len(a) : a[i] = (a \o c)[i]
<1> DEFINE m == a \o c
<1>1. /\ m \in Seq(Byte) /\ Len(m) = Len(a) + Len(c) /\ Len(a) \in Nat /\ Len(c) \in Nat
      /\ \A k \in 1 .. Len(a) + Len(c) : m[k] = IF k <= Len(a) THEN a[k] ELSE c[k - Len(a)]
  BY ConcatProperties, LenProperties
<1> HIDE DEF m
<1>2. Len(a) <= Len(m) /\ \A i \in 1 .. Len(a) : a[i] = m[i]
  BY <1>1
<1> QED
  BY <1>1, <1>2 DEF m

\* The bytes of three reads, one after the other.
LEMMA Association ==
  ASSUME NEW x, x \in Seq(Byte), NEW y, y \in Seq(Byte), NEW z, z \in Seq(Byte)
  PROVE  (x \o y) \o z = x \o (y \o z)
<1> DEFINE B == Byte
<1>1. x \in Seq(B) /\ y \in Seq(B) /\ z \in Seq(B)
  OBVIOUS
<1> HIDE DEF B
<1> QED
  BY <1>1, ConcatAssociative

\* What a side keeps of a message it has read to its end.
LEMMA NothingLeft ==
  ASSUME NEW b \in Seq(Byte)
  PROVE  SubSeq(b, Len(b) + 1, Len(b)) = << >>
<1>1. Len(b) \in Nat
  BY LenProperties
<1> DEFINE n == Len(b)
<1>2. n + 1 \in Int /\ n \in Int /\ n < n + 1
  <2> HIDE DEF n
  <2> QED
    BY <1>1 DEF n
<1> QED
  BY <1>2, SubSeqEmpty

\* The phases in which the request is under way, and the answer, or no byte is.
OnItsWay(xs, w, b) ==
  w = RequestOf(xs) /\ Len(RequestOf(xs)) <= BufSize /\ b = << >>
Answered(xs, w, b) == b \o w = ReplyOf(xs) /\ Len(ReplyOf(xs)) <= BufSize
NoByte(w, b) == w = << >> /\ b = << >>
Executed(xs, s) == s = <<SentValues(xs, FALSE)>>
HasString(xs) == \E j \in 1 .. Len(xs) : TypeOf(xs[j]) = "string_out"
Results(xs) == Append(SentValues(xs, TRUE), ReturnValue)

\* The messages in each phase of the call.
WireInv ==
  /\ args \in Seq(Arguments) /\ Len(args) <= MaxArgs
  /\ wire \in Seq(Byte) /\ buf \in Seq(Byte)
  /\ phase \in {"new", "request", "answer", "refused", "dropped", "failed", "returned"}
  /\ phase \in {"new", "refused"} => NoByte(wire, buf) /\ seen = << >>
  /\ phase = "request" => OnItsWay(args, wire, buf) /\ seen = << >>
  /\ phase = "dropped" => NoByte(wire, buf) /\ (seen = << >> \/ Executed(args, seen))
  /\ phase \in {"answer", "failed"} => Answered(args, wire, buf) /\ Executed(args, seen)
  /\ phase = "failed" => HasString(args)
  /\ phase = "returned" => NoByte(wire, buf) /\ Executed(args, seen) /\ got = Results(args)

\* The invariant holds at first, and every action preserves it.
LEMMA WireInit == Init => WireInv
<1> SUFFICES ASSUME Init PROVE WireInv
  OBVIOUS
<1>1. PICK n \in 0 .. MaxArgs : args \in [1 .. n -> Arguments]
  BY DEF Init
<1>2. n \in Nat /\ n <= MaxArgs
  BY <1>1, AppInterfaceAssumption
<1>3. args \in Seq(Arguments)
  BY <1>1, <1>2, SeqDef
<1>4. Len(args) = n
  BY <1>1, <1>2, <1>3, LenProperties
<1>5. phase = "new" /\ wire = << >> /\ buf = << >> /\ seen = << >>
  BY DEF Init
<1>6. << >> \in Seq(Byte)
  BY EmptySeq
<1>7. NoByte(wire, buf)
  BY <1>5, Zenon DEF NoByte
<1>8. wire \in Seq(Byte) /\ buf \in Seq(Byte)
  BY <1>5, <1>6, Zenon
<1> QED
  BY <1>2, <1>3, <1>4, <1>5, <1>7, <1>8 DEF WireInv

LEMMA WireCall ==
  ASSUME WireInv, Call
  PROVE  WireInv'
<1>1. /\ args' = args /\ buf' = buf /\ seen' = seen
      /\ phase = "new" /\ NoByte(wire, buf) /\ seen = << >>
      /\ args \in Seq(Arguments) /\ Len(args) <= MaxArgs
      /\ wire \in Seq(Byte) /\ buf \in Seq(Byte)
  BY DEF WireInv, Call
<1>2. CASE Len(Request) <= BufSize /\ phase' = "request" /\ wire' = Request
  <2>1. Request = RequestOf(args)
    BY Messages
  <2>2. RequestOf(args) \in Seq(Byte)
    BY <1>1, RequestParts
  <2>3. OnItsWay(args, wire', buf') /\ wire' \in Seq(Byte)
    BY <1>1, <1>2, <2>1, <2>2, Zenon DEF OnItsWay, NoByte
  <2> QED
    BY <1>1, <1>2, <2>3 DEF WireInv
<1>3. CASE phase' = "refused" /\ wire' = wire
  BY <1>1, <1>3 DEF WireInv
<1> QED
  BY <1>2, <1>3 DEF Call

LEMMA WireServer ==
  ASSUME WireInv, NEW n, ServerReads(n)
  PROVE  WireInv'
<1> DEFINE a == SubSeq(wire, 1, n)
           c == SubSeq(wire, n + 1, Len(wire))
           b == buf \o a
           r == Receive(b)
           Drop == phase' = "dropped" /\ wire' = << >> /\ buf' = << >>
<1>1. /\ args' = args /\ got' = got /\ phase = "request" /\ n \in 1 .. Len(wire)
      /\ \/ r.status = "error" /\ Drop /\ UNCHANGED seen
         \/ /\ r.status = "ok"
            /\ seen' = Append(seen, r.values)
            /\ \/ Len(Reply) > BufSize /\ Drop
               \/ /\ Len(Reply) <= BufSize
                  /\ phase' = "answer" /\ wire' = Reply
                  /\ buf' = SubSeq(b, r.pos + 1, Len(b))
  BY Zenon DEF ServerReads
<1>2. /\ args \in Seq(Arguments) /\ Len(args) <= MaxArgs
      /\ wire \in Seq(Byte) /\ buf \in Seq(Byte)
      /\ OnItsWay(args, wire, buf) /\ seen = << >>
  BY <1>1 DEF WireInv
<1>3. a \in Seq(Byte) /\ c \in Seq(Byte) /\ a \o c = wire
  BY <1>1, <1>2, Cut
<1>4. b = a
  <2>1. buf = << >>
    BY <1>2 DEF OnItsWay
  <2> HIDE DEF a
  <2> QED
    BY <1>3, <2>1, ConcatEmptySeq
<1>5. wire = RequestOf(args) /\ Reply = ReplyOf(args)
  BY <1>2, Messages DEF OnItsWay
<1> HIDE DEF a, b, c, r
<1>6. \/ r = Error
      \/ r = Read(Len(b), SentValues(args, FALSE)) /\ Len(b) = Len(RequestOf(args))
  <2>1. b \in Seq(Byte) /\ Len(b) <= Len(wire) /\ \A i \in 1 .. Len(b) : b[i] = wire[i]
    BY <1>3, <1>4, Beginning
  <2>2. Len(b) <= Len(RequestOf(args)) /\ \A i \in 1 .. Len(b) : b[i] = RequestOf(args)[i]
    BY <1>5, <2>1
  <2> QED
    BY <1>2, <2>1, <2>2, ServerReceives DEF r
<1>7. << >> \in Seq(Byte)
  BY EmptySeq
<1>8. CASE r.status = "error" /\ Drop /\ UNCHANGED seen
  <2>1. NoByte(wire', buf') /\ wire' \in Seq(Byte) /\ buf' \in Seq(Byte)
    BY <1>7, <1>8, Zenon DEF NoByte
  <2>2. phase' = "dropped" /\ seen' = << >>
    BY <1>2, <1>8
  <2> QED
    BY <1>1, <1>2, <2>1, <2>2 DEF WireInv
<1>9. CASE r.status = "ok" /\ seen' = Append(seen, r.values)
  <2>1. r = Read(Len(b), SentValues(args, FALSE))
    <3>1. Error.status # "ok"
      BY DEF Error
    <3> QED
      BY <1>6, <1>9, <3>1
  <2>2. r.values = SentValues(args, FALSE) /\ r.pos = Len(b)
    BY <2>1, ReadParts
  <2>3. Executed(args, seen')
    <3> DEFINE v == SentValues(args, FALSE)
    <3>1. seen' = Append(<< >>, v)
      BY <1>2, <1>9, <2>2
    <3> HIDE DEF v
    <3>2. Append(<< >>, v) = <<v>>
      OBVIOUS
    <3> QED
      BY <3>1, <3>2, Zenon DEF Executed, v
  <2>4. CASE Drop
    <3>1. NoByte(wire', buf') /\ wire' \in Seq(Byte) /\ buf' \in Seq(Byte)
      BY <1>7, <2>4, Zenon DEF NoByte
    <3>2. phase' = "dropped"
      BY <2>4
    <3> QED
      BY <1>1, <1>2, <2>3, <3>1, <3>2 DEF WireInv
  <2>5. CASE /\ Len(Reply) <= BufSize
             /\ phase' = "answer" /\ wire' = Reply
             /\ buf' = SubSeq(b, r.pos + 1, Len(b))
    <3>1. buf' = << >>
      <4>1. SubSeq(b, Len(b) + 1, Len(b)) = << >>
        BY <1>3, <1>4, NothingLeft
      <4> QED
        BY <2>2, <2>5, <4>1
    <3>2. ReplyOf(args) \in Seq(Byte)
      BY <1>2, ReplyParts
    <3>3. buf' \o wire' = ReplyOf(args)
      <4>1. << >> \o ReplyOf(args) = ReplyOf(args)
        BY <3>2, ConcatEmptySeq
      <4> QED
        BY <1>5, <2>5, <3>1, <4>1, Zenon
    <3>4. Answered(args, wire', buf') /\ wire' \in Seq(Byte) /\ buf' \in Seq(Byte)
      BY <1>5, <1>7, <2>5, <3>1, <3>2, <3>3, Zenon DEF Answered
    <3>5. phase' = "answer"
      BY <2>5
    <3> QED
      BY <1>1, <1>2, <2>3, <3>4, <3>5 DEF WireInv
  <2> QED
    BY <1>1, <1>9, <2>4, <2>5, Zenon DEF Error
<1> QED
  BY <1>1, <1>8, <1>9, Zenon

LEMMA WireClient ==
  ASSUME WireInv, NEW n, ClientReads(n)
  PROVE  WireInv'
<1> DEFINE a == SubSeq(wire, 1, n)
           c == SubSeq(wire, n + 1, Len(wire))
           b == buf \o a
           r == CallReceive(b)
<1>1. /\ args' = args /\ seen' = seen /\ phase = "answer" /\ n \in 1 .. Len(wire)
      /\ wire' = c
      /\ \/ r.status = "more"  /\ buf' = b /\ UNCHANGED <<phase, got>>
         \/ r.status = "error" /\ buf' = b /\ phase' = "failed" /\ UNCHANGED got
         \/ /\ r.status = "ok"
            /\ phase' = "returned" /\ got' = r.values
            /\ buf' = SubSeq(b, r.pos + 1, Len(b))
  BY Zenon DEF ClientReads
<1>2. /\ args \in Seq(Arguments) /\ Len(args) <= MaxArgs
      /\ wire \in Seq(Byte) /\ buf \in Seq(Byte)
      /\ Answered(args, wire, buf) /\ Executed(args, seen)
  BY <1>1 DEF WireInv
<1>3. a \in Seq(Byte) /\ c \in Seq(Byte) /\ a \o c = wire
  BY <1>1, <1>2, Cut
<1>4. b \in Seq(Byte) /\ b \o c = ReplyOf(args)
  <2>1. buf \o wire = ReplyOf(args)
    BY <1>2 DEF Answered
  <2> HIDE DEF a, c
  <2>2. (buf \o a) \o c = buf \o (a \o c) /\ buf \o a \in Seq(Byte)
    <3>0. buf \in Seq(Byte) /\ a \in Seq(Byte) /\ c \in Seq(Byte)
      BY <1>2, <1>3
    <3>1. (buf \o a) \o c = buf \o (a \o c)
      BY <3>0, Association
    <3>2. buf \o a \in Seq(Byte)
      BY <1>2, <1>3, ConcatProperties
    <3> QED
      BY <3>1, <3>2, Zenon
  <2>3. (buf \o a) \o c = buf \o wire
    BY <1>3, <2>2, Zenon
  <2> QED
    BY <2>1, <2>2, <2>3, Zenon
<1> HIDE DEF a, b, c, r
<1>5. Len(b) \in Nat /\ Len(c) \in Nat /\ Len(ReplyOf(args)) = Len(b) + Len(c)
  BY <1>3, <1>4, Beginning
<1>6. \/ r = More
      \/ r = Error /\ HasString(args)
      \/ r = Read(Len(b), Results(args)) /\ Len(b) = Len(ReplyOf(args))
  <2>1. Len(b) <= Len(ReplyOf(args)) /\ \A i \in 1 .. Len(b) : b[i] = ReplyOf(args)[i]
    BY <1>3, <1>4, Beginning
  <2>2. \/ CallReceive(b) = More
        \/ /\ CallReceive(b) = Error
           /\ \E j \in 1 .. Len(args) : TypeOf(args[j]) = "string_out"
        \/ /\ CallReceive(b) = Read(Len(b), Append(SentValues(args, TRUE), ReturnValue))
           /\ Len(b) = Len(ReplyOf(args))
    BY <1>2, <1>4, <2>1, ClientReceives
  <2> QED
    BY <2>2, Zenon DEF r, HasString, Results
<1>7. Answered(args, c, b)
  BY <1>2, <1>4, Zenon DEF Answered
<1>8. CASE r.status = "more" /\ buf' = b /\ UNCHANGED <<phase, got>>
  <2>1. phase' = "answer" /\ wire' = c /\ buf' = b
    BY <1>1, <1>8
  <2>2. Answered(args, wire', buf') /\ wire' \in Seq(Byte) /\ buf' \in Seq(Byte)
    BY <1>3, <1>4, <1>7, <2>1, Zenon
  <2> QED
    BY <1>1, <1>2, <2>1, <2>2 DEF WireInv
<1>9. CASE r.status = "error" /\ buf' = b /\ phase' = "failed" /\ UNCHANGED got
  <2>1. phase' = "failed" /\ wire' = c /\ buf' = b
    BY <1>1, <1>9
  <2>2. Answered(args, wire', buf') /\ wire' \in Seq(Byte) /\ buf' \in Seq(Byte)
    BY <1>3, <1>4, <1>7, <2>1, Zenon
  <2>3. HasString(args)
    <3>1. More.status # "error" /\ Read(Len(b), Results(args)).status # "error"
      BY ReadParts DEF More
    <3> QED
      BY <1>6, <1>9, <3>1, Zenon
  <2> QED
    BY <1>1, <1>2, <2>1, <2>2, <2>3 DEF WireInv
<1>10. CASE /\ r.status = "ok"
            /\ phase' = "returned" /\ got' = r.values
            /\ buf' = SubSeq(b, r.pos + 1, Len(b))
  <2>1. r = Read(Len(b), Results(args)) /\ Len(b) = Len(ReplyOf(args))
    <3>1. More.status # "ok" /\ Error.status # "ok"
      BY DEF More, Error
    <3> QED
      BY <1>6, <1>10, <3>1, Zenon
  <2>2. r.values = Results(args) /\ r.pos = Len(b)
    BY <2>1, ReadParts
  <2>3. buf' = << >>
    <3>1. SubSeq(b, Len(b) + 1, Len(b)) = << >>
      BY <1>4, NothingLeft
    <3> QED
      BY <1>10, <2>2, <3>1
  <2>4. wire' = << >>
    <3>1. Len(c) = 0
      BY <1>5, <2>1
    <3>2. c = << >>
      BY <1>3, <3>1, EmptySeq
    <3> QED
      BY <1>1, <3>2
  <2>5. NoByte(wire', buf') /\ wire' \in Seq(Byte) /\ buf' \in Seq(Byte)
    <3>1. << >> \in Seq(Byte)
      BY EmptySeq
    <3> QED
      BY <2>3, <2>4, <3>1, Zenon DEF NoByte
  <2>6. phase' = "returned" /\ got' = Results(args)
    BY <1>10, <2>2
  <2> QED
    BY <1>1, <1>2, <2>5, <2>6 DEF WireInv
<1> QED
  BY <1>1, <1>8, <1>9, <1>10, Zenon

LEMMA WireStutter ==
  ASSUME WireInv, UNCHANGED vars
  PROVE  WireInv'
BY DEF WireInv, vars

\* Every state of the call is one of those WireInv describes.
THEOREM WireInvariant == Spec => []WireInv
<1>1. WireInv /\ [Next]_vars => WireInv'
  BY WireCall, WireServer, WireClient, WireStutter DEF Next
<1> QED
  BY WireInit, <1>1, PTL DEF Spec

\* It implies the properties of the call.
LEMMA WireMessages == WireInv => ExecutedAsCalled /\ ReturnsWhatWasAnswered
<1> SUFFICES ASSUME WireInv PROVE ExecutedAsCalled /\ ReturnsWhatWasAnswered
  OBVIOUS
<1>1. /\ args \in Seq(Arguments) /\ Len(args) <= MaxArgs
      /\ wire \in Seq(Byte) /\ buf \in Seq(Byte)
  BY DEF WireInv
<1>2. ValuesOf(FALSE) = SentValues(args, FALSE) /\ ValuesOf(TRUE) = SentValues(args, TRUE)
  BY Sent
<1>3. phase \in {"new", "request", "answer"} \cup Ends
  BY DEF WireInv, Ends
<1>4. Len(wire) + Len(buf) <= BufSize
  <2>1. BufSize \in Nat /\ Len(<< >>) = 0
    BY AppInterfaceAssumption
  <2>2. CASE NoByte(wire, buf)
    BY <2>1, <2>2 DEF NoByte
  <2>3. CASE OnItsWay(args, wire, buf)
    <3>1. Len(wire) <= BufSize /\ Len(buf) = 0
      BY <2>1, <2>3 DEF OnItsWay
    <3>2. Len(wire) \in Nat
      BY <1>1, LenProperties
    <3> QED
      BY <3>1, <3>2
  <2>4. CASE Answered(args, wire, buf)
    <3>1. /\ Len(buf \o wire) = Len(buf) + Len(wire)
          /\ Len(buf) \in Nat /\ Len(wire) \in Nat
      BY <1>1, Beginning
    <3>2. Len(buf \o wire) <= BufSize
      BY <2>4 DEF Answered
    <3> DEFINE m == buf \o wire
    <3> HIDE DEF m
    <3>3. Len(m) = Len(buf) + Len(wire) /\ Len(m) <= BufSize
      BY <3>1, <3>2, Zenon DEF m
    <3> QED
      BY <3>1, <3>3
  <2> QED
    BY <2>2, <2>3, <2>4 DEF WireInv
<1>5. (\A k \in DOMAIN wire : wire[k] \in Byte) /\ (\A k \in DOMAIN buf : buf[k] \in Byte)
  BY <1>1, LenProperties, ElementOfSeq
<1>6. TypeOK
  BY <1>1, <1>3, <1>4, <1>5 DEF TypeOK
<1>7. seen = << >> \/ seen = <<SentValues(args, FALSE)>>
  BY DEF WireInv, Executed
<1>8. ExecutedAsCalled
  BY <1>2, <1>6, <1>7, Zenon DEF ExecutedAsCalled
<1>9. ASSUME phase = "returned"
      PROVE  got = Append(ValuesOf(TRUE), ReturnValue) /\ Len(seen) = 1 /\ buf = << >> /\ wire = << >>
  <2>1. NoByte(wire, buf) /\ Executed(args, seen) /\ got = Results(args)
    BY <1>9 DEF WireInv
  <2>2. Len(seen) = 1
    <3> DEFINE v == SentValues(args, FALSE)
    <3> HIDE DEF v
    <3>1. seen = <<v>>
      BY <2>1 DEF Executed, v
    <3> QED
      BY <3>1
  <2>3. buf = << >> /\ wire = << >>
    BY <2>1 DEF NoByte
  <2>4. got = Append(ValuesOf(TRUE), ReturnValue)
    BY <1>2, <2>1, Zenon DEF Results
  <2> QED
    BY <2>2, <2>3, <2>4
<1>10. ASSUME phase = "failed" PROVE \E k \in DOMAIN args : TypeOf(args[k]) = "string_out"
  <2>1. HasString(args)
    BY <1>10 DEF WireInv
  <2>2. DOMAIN args = 1 .. Len(args)
    BY <1>1, LenProperties
  <2> QED
    BY <2>1, <2>2, Zenon DEF HasString
<1>11. ReturnsWhatWasAnswered
  BY <1>9, <1>10, Zenon DEF ReturnsWhatWasAnswered
<1> QED
  BY <1>8, <1>11

\* However read cuts a request, the messages fit the buffers of both sides and the
\* function is executed at most once, with the IN arguments the client passed and
\* never with those of the beginning of a request (_args_pre_exec, _receive_args).
THEOREM WireExecutedAsCalled == Spec => []ExecutedAsCalled
BY WireInvariant, WireMessages, PTL

\* However the answer arrives, a call that returns gives the client exactly what the
\* function left in its OUT arguments and its return value and leaves no byte behind;
\* only a call with a STRING_OUT argument gives up on an answer that is still
\* arriving (appinterface_call_receive, _appclient_read).
THEOREM WireReturnsWhatWasAnswered == Spec => []ReturnsWhatWasAnswered
BY WireInvariant, WireMessages, PTL
===============================================================================
