---------------------------- MODULE EventDataProofs ----------------------------
(***************************************************************************)
(* What the operators of EventData.tla return, for arrays of any length:   *)
(* the facts the proofs about the event loop rest on.  A property of the   *)
(* n-th value of a recursive function is proved by contradiction at the    *)
(* least n for which it fails (NatMin).                                    *)
(***************************************************************************)
EXTENDS EventData, WellFoundedInduction, SequenceTheorems, TLAPS

\* Every nonempty set of natural numbers has a least element.
LEMMA NatMin ==
  ASSUME NEW T \in SUBSET Nat, T # {}
  PROVE  \E m \in T : \A n \in T : m <= n
<1>1. PICK m \in T : \A n \in T : ~(<<n, m>> \in OpToRel(<, Nat))
  BY NatLessThanWellFounded, WFMin
<1>2. ASSUME NEW n \in T, ~(m <= n) PROVE FALSE
  <2>1. n < m
    BY <1>2
  <2>2. <<n, m>> \in OpToRel(<, Nat)
    BY <2>1 DEF OpToRel
  <2> QED
    BY <2>2, <1>1
<1> QED
  BY <1>2

--------------------------------------------------------------------------------
\* f is the function that the LET of Kept defines, up to n.
IsKept(f, s, I, n) ==
  f = [k \in 0 .. n |->
        IF k = 0 THEN << >>
        ELSE IF k \in I THEN Append(f[k - 1], s[k]) ELSE f[k - 1]]

\* The recursive definition in Kept has a solution.
LEMMA KeptExists ==
  ASSUME NEW s, NEW I
  PROVE  \A n \in Nat : \E f : IsKept(f, s, I, n)
<1> DEFINE T == {n \in Nat : ~ \E f : IsKept(f, s, I, n)}
<1> SUFFICES ASSUME T # {} PROVE FALSE
  OBVIOUS
<1>1. PICK m \in T : \A n \in T : m <= n
  BY NatMin
<1>2. CASE m = 0
  <2> DEFINE f == [k \in 0 .. 0 |-> << >>]
  <2>1. IsKept(f, s, I, 0)
    BY DEF IsKept
  <2> QED
    BY <2>1, <1>2
<1>3. CASE m # 0
  <2>1. m - 1 \in Nat /\ m - 1 \notin T
    BY <1>1, <1>3
  <2>2. PICK g : IsKept(g, s, I, m - 1)
    BY <2>1
  <2> DEFINE f == [k \in 0 .. m |-> IF k < m THEN g[k]
                     ELSE IF k \in I THEN Append(g[k - 1], s[k]) ELSE g[k - 1]]
  <2>3. IsKept(f, s, I, m)
    <3>1. ASSUME NEW k \in 0 .. m
          PROVE  f[k] = IF k = 0 THEN << >>
                        ELSE IF k \in I THEN Append(f[k - 1], s[k]) ELSE f[k - 1]
      <4>1. CASE k = m
        <5>1. f[k - 1] = g[k - 1]
          BY <4>1, <1>3
        <5> QED
          BY <4>1, <1>3, <5>1
      <4>2. CASE k < m
        <5>1. k \in 0 .. (m - 1) /\ f[k] = g[k]
          BY <4>2
        <5>2. CASE k = 0
          BY <5>1, <5>2, <2>2 DEF IsKept
        <5>3. CASE k # 0
          <6>1. f[k - 1] = g[k - 1]
            BY <5>3, <4>2
          <6>2. g[k] = IF k \in I THEN Append(g[k - 1], s[k]) ELSE g[k - 1]
            BY <5>1, <5>3, <2>2 DEF IsKept
          <6> HIDE DEF f
          <6> QED
            BY <6>1, <6>2, <5>1, <5>3
        <5> QED
          BY <5>2, <5>3
      <4> QED
        BY <4>1, <4>2
    <3> QED
      BY <3>1 DEF IsKept
  <2> QED
    BY <2>3
<1> QED
  BY <1>2, <1>3

\* Kept returns the last value of that solution.
LEMMA KeptUnfold ==
  ASSUME NEW S, NEW s \in Seq(S), NEW I
  PROVE  \E f : IsKept(f, s, I, Len(s)) /\ Kept(s, I) = f[Len(s)]
<1> DEFINE F == CHOOSE f : IsKept(f, s, I, Len(s))
<1>1. \E f : IsKept(f, s, I, Len(s))
  BY KeptExists, LenProperties
<1>2. IsKept(F, s, I, Len(s))
  BY <1>1
<1>3. Kept(s, I) = F[Len(s)]
  BY Zenon DEF Kept, IsKept
<1> QED
  BY <1>2, <1>3

\* Append adds one element to the elements of a sequence.
LEMMA AppendElements ==
  ASSUME NEW S, NEW s \in Seq(S), NEW x \in S
  PROVE  /\ Append(s, x) \in Seq(S)
         /\ FdsOf(Append(s, x)) = FdsOf(s) \cup {x}
<1>1. /\ Append(s, x) \in Seq(S)
      /\ Len(Append(s, x)) = Len(s) + 1
      /\ Len(s) \in Nat
      /\ DOMAIN s = 1 .. Len(s) /\ DOMAIN Append(s, x) = 1 .. Len(s) + 1
  BY LenProperties
<1>2. \A k \in 1 .. Len(s) : Append(s, x)[k] = s[k]
  BY <1>1
<1>3. Append(s, x)[Len(s) + 1] = x
  BY <1>1
<1> QED
  BY <1>1, <1>2, <1>3 DEF FdsOf

\* Kept returns a sequence of the elements found at the indices in I.
LEMMA KeptElements ==
  ASSUME NEW S, NEW s \in Seq(S), NEW I
  PROVE  /\ Kept(s, I) \in Seq(S)
         /\ FdsOf(Kept(s, I)) = {s[k] : k \in DOMAIN s \cap I}
<1>1. PICK f : IsKept(f, s, I, Len(s)) /\ Kept(s, I) = f[Len(s)]
  BY KeptUnfold
<1>2. Len(s) \in Nat /\ DOMAIN s = 1 .. Len(s)
  BY LenProperties
<1> DEFINE Good(n) == f[n] \in Seq(S) /\ FdsOf(f[n]) = {s[k] : k \in (1 .. n) \cap I}
<1>3. Good(0)
  <2>1. f[0] = << >>
    BY <1>1, <1>2 DEF IsKept
  <2> QED
    BY <2>1 DEF FdsOf
<1>4. ASSUME NEW n \in 1 .. Len(s), Good(n - 1) PROVE Good(n)
  <2>1. f[n] = IF n \in I THEN Append(f[n - 1], s[n]) ELSE f[n - 1]
    <3>1. n \in 0 .. Len(s) /\ n # 0
      BY <1>2
    <3> QED
      BY <1>1, <3>1 DEF IsKept
  <2>2. s[n] \in S
    BY <1>2
  <2>3. 1 .. n = (1 .. n - 1) \cup {n}
    BY <1>2
  <2>4. CASE n \in I
    <3>1. f[n] = Append(f[n - 1], s[n])
      BY <2>1, <2>4
    <3>2. f[n] \in Seq(S) /\ FdsOf(f[n]) = FdsOf(f[n - 1]) \cup {s[n]}
      BY <3>1, <2>2, <1>4, AppendElements
    <3> QED
      BY <3>2, <2>3, <2>4, <1>4
  <2>5. CASE n \notin I
    BY <2>1, <2>3, <2>5, <1>4
  <2> QED
    BY <2>4, <2>5
<1> HIDE DEF Good
<1> DEFINE T == {n \in 0 .. Len(s) : ~ Good(n)}
<1>5. T = {}
  <2> SUFFICES ASSUME T # {} PROVE FALSE
    OBVIOUS
  <2>1. PICK m \in T : \A n \in T : m <= n
    <3>1. T \in SUBSET Nat
      BY <1>2
    <3> HIDE DEF T
    <3> QED
      BY <3>1, NatMin
  <2>2. m \in 1 .. Len(s)
    BY <1>2, <1>3, <2>1
  <2>3. Good(m - 1)
    BY <1>2, <2>1, <2>2
  <2> QED
    BY <1>4, <2>2, <2>3
<1>6. Good(Len(s))
  BY <1>2, <1>5
<1> QED
  BY <1>1, <1>2, <1>6 DEF Good

\* _unregister_io moves the entries behind the one it removes by one place, when
\* the descriptor has one entry.
LEMMA WithoutOnce ==
  ASSUME NEW S, NEW s \in Seq(S), NEW j \in DOMAIN s,
         \A k \in DOMAIN s : s[k] = s[j] => k = j
  PROVE  /\ Len(Without(s, s[j])) = Len(s) - 1
         /\ \A k \in 1 .. Len(s) - 1 :
              Without(s, s[j])[k] = IF k < j THEN s[k] ELSE s[k + 1]
<1> DEFINE I == {k \in DOMAIN s : s[k] # s[j]}
<1>1. PICK f : IsKept(f, s, I, Len(s)) /\ Kept(s, I) = f[Len(s)]
  BY KeptUnfold
<1>2. Len(s) \in Nat /\ DOMAIN s = 1 .. Len(s)
  BY LenProperties
<1>3. \A k \in 1 .. Len(s) : k \in I <=> k # j
  BY <1>2
<1> HIDE DEF I
<1> DEFINE len(n) == IF n < j THEN n ELSE n - 1
<1> DEFINE Good(n) == /\ f[n] \in Seq(S) /\ Len(f[n]) = len(n)
                      /\ \A k \in 1 .. len(n) : f[n][k] = IF k < j THEN s[k] ELSE s[k + 1]
<1>4. Good(0)
  <2>1. f[0] = << >>
    BY <1>1, <1>2 DEF IsKept
  <2>2. len(0) = 0
    BY <1>2
  <2> QED
    BY <2>1, <2>2
<1>5. ASSUME NEW n \in 1 .. Len(s), Good(n - 1) PROVE Good(n)
  <2>1. f[n] = IF n \in I THEN Append(f[n - 1], s[n]) ELSE f[n - 1]
    <3>1. n \in 0 .. Len(s) /\ n # 0
      BY <1>2
    <3> QED
      BY <1>1, <3>1 DEF IsKept
  <2>2. s[n] \in S
    BY <1>2
  <2>3. CASE n # j
    <3>1. f[n] = Append(f[n - 1], s[n])
      BY <1>3, <2>1, <2>3
    <3>2. len(n) = len(n - 1) + 1 /\ len(n - 1) \in Nat
      BY <1>2, <2>3
    <3>3. len(n) = IF n < j THEN n ELSE n - 1
      OBVIOUS
    <3> HIDE DEF len
    <3>4. /\ f[n] \in Seq(S) /\ Len(f[n]) = len(n) /\ f[n][len(n)] = s[n]
          /\ \A k \in 1 .. len(n - 1) : f[n][k] = f[n - 1][k]
      BY <3>1, <3>2, <2>2, <1>5
    <3>5. \A k \in 1 .. len(n) : k \in 1 .. len(n - 1) \/ k = len(n)
      BY <3>2
    <3>6. s[n] = IF len(n) < j THEN s[len(n)] ELSE s[len(n) + 1]
      BY <3>3, <2>3, <1>2
    <3> QED
      BY <3>4, <3>5, <3>6, <1>5
  <2>4. CASE n = j
    <3>1. f[n] = f[n - 1]
      BY <1>3, <2>1, <2>4
    <3>2. len(n) = len(n - 1)
      BY <1>2, <2>4
    <3> QED
      BY <3>1, <3>2, <1>5
  <2> QED
    BY <2>3, <2>4
<1>6. len(Len(s)) = Len(s) - 1
  <2>1. j \in 1 .. Len(s)
    BY <1>2
  <2>2. ~(Len(s) < j)
    BY <1>2, <2>1
  <2> QED
    BY <2>2
<1> HIDE DEF Good
<1> DEFINE T == {n \in 0 .. Len(s) : ~ Good(n)}
<1>7. T = {}
  <2> SUFFICES ASSUME T # {} PROVE FALSE
    OBVIOUS
  <2>1. PICK m \in T : \A n \in T : m <= n
    <3>1. T \in SUBSET Nat
      BY <1>2
    <3> HIDE DEF T
    <3> QED
      BY <3>1, NatMin
  <2>2. m \in 1 .. Len(s)
    BY <1>2, <1>4, <2>1
  <2>3. Good(m - 1)
    BY <1>2, <2>1, <2>2
  <2> QED
    BY <1>5, <2>2, <2>3
<1>8. Good(Len(s))
  BY <1>2, <1>7
<1>9. Without(s, s[j]) = f[Len(s)]
  BY <1>1 DEF Without, I
<1> QED
  BY <1>6, <1>8, <1>9 DEF Good

\* _unregister_io leaves the other descriptors of the array.
LEMMA WithoutElements ==
  ASSUME NEW S, NEW s \in Seq(S), NEW x
  PROVE  /\ Without(s, x) \in Seq(S)
         /\ FdsOf(Without(s, x)) = FdsOf(s) \ {x}
<1> DEFINE I == {k \in DOMAIN s : s[k] # x}
<1>1. Kept(s, I) \in Seq(S) /\ FdsOf(Kept(s, I)) = {s[k] : k \in DOMAIN s \cap I}
  BY KeptElements
<1>2. {s[k] : k \in DOMAIN s \cap I} = FdsOf(s) \ {x}
  BY DEF FdsOf
<1> QED
  BY <1>1, <1>2 DEF Without
--------------------------------------------------------------------------------
\* Descriptors are natural numbers.
LEMMA FdNat == \A n \in Fd : n \in Nat
BY EventDataAssumption DEF Fd

\* MaxFd is the largest descriptor of a set, -1 for the empty set.
LEMMA MaxFdLargest ==
  ASSUME NEW A \in SUBSET Fd
  PROVE  /\ MaxFd(A) \in Fd \cup {-1}
         /\ A # {} => MaxFd(A) \in A
         /\ \A n \in A : n <= MaxFd(A)
<1> DEFINE T == {b \in Nat : \A n \in A : n <= b}
<1>1. Fd \subseteq Nat /\ FdSetSize \in Nat \ {0}
  BY EventDataAssumption DEF Fd
<1>2. CASE A = {}
  BY <1>2 DEF MaxFd
<1>3. CASE A # {}
  <2>1. FdSetSize \in T
    BY <1>1 DEF Fd
  <2>2. PICK m \in T : \A b \in T : m <= b
    <3>1. T \in SUBSET Nat /\ T # {}
      BY <2>1
    <3> HIDE DEF T
    <3> QED
      BY <3>1, NatMin
  <2>3. m \in A
    <3> SUFFICES ASSUME m \notin A PROVE FALSE
      OBVIOUS
    <3>1. PICK a : a \in A
      BY <1>3
    <3>2. m \in Nat /\ \A n \in A : n \in Nat /\ n <= m /\ n # m
      BY <1>1
    <3>3. m - 1 \in Nat
      BY <3>1, <3>2
    <3>4. \A n \in A : n <= m - 1
      BY <3>2
    <3>5. m - 1 \in T
      BY <3>3, <3>4
    <3> QED
      BY <3>2, <3>5, <2>2
  <2>4. \A n \in A : n <= m
    OBVIOUS
  <2>5. /\ MaxFd(A) \in A
        /\ \A n \in A : n <= MaxFd(A)
    BY <1>3, <2>3, <2>4 DEF MaxFd
  <2> QED
    BY <2>5
<1> QED
  BY <1>2, <1>3

\* Nothing else is the largest descriptor of a set.
LEMMA MaxFdUnique ==
  ASSUME NEW A \in SUBSET Fd, NEW m \in A, \A n \in A : n <= m
  PROVE  MaxFd(A) = m
<1>1. MaxFd(A) \in A /\ m <= MaxFd(A) /\ MaxFd(A) <= m
  BY MaxFdLargest
<1>2. m \in Nat /\ MaxFd(A) \in Nat
  <2>1. m \in Fd /\ MaxFd(A) \in Fd
    BY <1>1
  <2> QED
    BY <2>1, FdNat
<1> QED
  BY <1>1, <1>2

\* The two passes of _unregister_io over the arrays find the largest descriptor
\* of both.
LEMMA MaxFdUnion ==
  ASSUME NEW A \in SUBSET Fd, NEW B \in SUBSET Fd
  PROVE  Larger(MaxFd(A), MaxFd(B)) = MaxFd(A \cup B)
<1>1. /\ MaxFd({}) = -1
      /\ MaxFd(A) = -1 \/ MaxFd(A) \in Nat
      /\ MaxFd(B) = -1 \/ MaxFd(B) \in Nat
  <2>1. MaxFd(A) \in Fd \cup {-1} /\ MaxFd(B) \in Fd \cup {-1}
    BY MaxFdLargest
  <2> QED
    BY <2>1, FdNat DEF MaxFd
<1>2. CASE A = {} \/ B = {}
  <2>1. CASE A = {}
    <3>1. A \cup B = B
      BY <2>1
    <3> QED
      BY <1>1, <2>1, <3>1 DEF Larger
  <2>2. CASE B = {}
    <3>1. A \cup B = A
      BY <2>2
    <3> QED
      BY <1>1, <2>2, <3>1 DEF Larger
  <2> QED
    BY <1>2, <2>1, <2>2
<1>3. CASE A # {} /\ B # {}
  <2> DEFINE m == Larger(MaxFd(A), MaxFd(B))
  <2>1. /\ MaxFd(A) \in A /\ MaxFd(B) \in B
        /\ \A n \in A : n <= MaxFd(A)
        /\ \A n \in B : n <= MaxFd(B)
    BY <1>3, MaxFdLargest
  <2>2. m \in A \cup B
    BY <2>1 DEF Larger
  <2>3. ASSUME NEW n \in A \cup B PROVE n <= m
    <3>1. n \in Nat /\ MaxFd(A) \in Nat /\ MaxFd(B) \in Nat
      BY <2>1, FdNat
    <3>2. n <= MaxFd(A) \/ n <= MaxFd(B)
      BY <2>1
    <3> QED
      BY <3>1, <3>2 DEF Larger
  <2> HIDE DEF m
  <2>4. MaxFd(A \cup B) = m
    BY <2>2, <2>3, MaxFdUnique
  <2> QED
    BY <2>4 DEF m
<1> QED
  BY <1>2, <1>3

\* A registration raises fdmax to the largest descriptor of the larger set.
LEMMA MaxFdAdded ==
  ASSUME NEW A \in SUBSET Fd, NEW n \in Fd
  PROVE  Larger(MaxFd(A), n) = MaxFd(A \cup {n})
<1>1. n \in Nat
  BY FdNat
<1>2. MaxFd({n}) = n
  BY <1>1, MaxFdUnique
<1> QED
  BY <1>2, MaxFdUnion
--------------------------------------------------------------------------------
Timeval == [sec : Int, usec : Int]

\* The timers of functions F, their delays and times less than Epoch seconds
\* away: the only thing that sets a timer's wait apart from NoTimeout.
TimersOf(F) == {t \in [func : F, initial : Timeval, at : Timeval] :
                  t.initial.sec < Epoch /\ t.at.sec < Epoch}

\* f is the function that the LET of WaitForAll defines, up to n.
IsWait(f, left, u, n) ==
  f = [k \in 0 .. n |->
        IF k = 0 THEN NoTimeout
        ELSE IF Earlier(Time(Epoch + left[k].at.sec, left[k].at.usec), f[k - 1])
        THEN WaitAfterUnregister(left[k].at, u) ELSE f[k - 1]]

\* The recursive definition in WaitForAll has a solution.
LEMMA WaitExists ==
  ASSUME NEW left, NEW u
  PROVE  \A n \in Nat : \E f : IsWait(f, left, u, n)
<1> DEFINE T == {n \in Nat : ~ \E f : IsWait(f, left, u, n)}
<1> DEFINE W(k, before) ==
      IF Earlier(Time(Epoch + left[k].at.sec, left[k].at.usec), before)
      THEN WaitAfterUnregister(left[k].at, u) ELSE before
<1>0. ASSUME NEW f, NEW n
      PROVE  IsWait(f, left, u, n) <=>
               f = [k \in 0 .. n |-> IF k = 0 THEN NoTimeout ELSE W(k, f[k - 1])]
  BY DEF IsWait
<1> HIDE DEF W
<1> SUFFICES ASSUME T # {} PROVE FALSE
  OBVIOUS
<1>1. PICK m \in T : \A n \in T : m <= n
  BY NatMin
<1>2. CASE m = 0
  <2> DEFINE f == [k \in 0 .. 0 |-> NoTimeout]
  <2>1. f = [k \in 0 .. 0 |-> IF k = 0 THEN NoTimeout ELSE W(k, f[k - 1])]
    OBVIOUS
  <2>2. IsWait(f, left, u, 0)
    BY <1>0, <2>1
  <2> QED
    BY <1>2, <2>2
<1>3. CASE m # 0
  <2>1. m - 1 \in Nat /\ m - 1 \notin T
    BY <1>1, <1>3
  <2>2. PICK g : IsWait(g, left, u, m - 1)
    BY <2>1
  <2>3. g = [k \in 0 .. m - 1 |-> IF k = 0 THEN NoTimeout ELSE W(k, g[k - 1])]
    BY <1>0, <2>2
  <2> DEFINE f == [k \in 0 .. m |-> IF k < m THEN g[k] ELSE W(k, g[k - 1])]
  <2>4. ASSUME NEW k \in 0 .. m
        PROVE  f[k] = IF k = 0 THEN NoTimeout ELSE W(k, f[k - 1])
    <3>1. CASE k = m
      <4>1. f[k - 1] = g[k - 1]
        BY <3>1, <1>3
      <4> QED
        BY <3>1, <1>3, <4>1
    <3>2. CASE k < m
      <4>1. k \in 0 .. m - 1 /\ f[k] = g[k]
        BY <3>2
      <4>2. CASE k = 0
        BY <4>1, <4>2, <2>3
      <4>3. CASE k # 0
        <5>1. f[k - 1] = g[k - 1]
          BY <4>3, <3>2
        <5>2. g[k] = W(k, g[k - 1])
          BY <4>1, <4>3, <2>3
        <5> HIDE DEF f
        <5> QED
          BY <5>1, <5>2, <4>1, <4>3
      <4> QED
        BY <4>2, <4>3
    <3> QED
      BY <3>1, <3>2
  <2>5. f = [k \in 0 .. m |-> IF k = 0 THEN NoTimeout ELSE W(k, f[k - 1])]
    BY <2>4
  <2>6. IsWait(f, left, u, m)
    <3> HIDE DEF f
    <3> QED
      BY <1>0, <2>5
  <2> QED
    BY <2>6
<1> QED
  BY <1>2, <1>3

\* event_unregister_timeout leaves a wait that is not NoTimeout when it leaves a
\* timer.
LEMMA WaitForAllAlive ==
  ASSUME NEW F, NEW left \in Seq(TimersOf(F)), NEW u \in Int
  PROVE  /\ WaitForAll(left, u) \in Timeval
         /\ left # << >> => WaitForAll(left, u).sec < LongMax
<1> DEFINE f == CHOOSE f : IsWait(f, left, u, Len(left))
<1>1. Len(left) \in Nat /\ DOMAIN left = 1 .. Len(left)
  BY LenProperties
<1>2. IsWait(f, left, u, Len(left))
  <2>1. \E g : IsWait(g, left, u, Len(left))
    BY <1>1, WaitExists
  <2> QED
    BY <2>1
<1>3. WaitForAll(left, u) = f[Len(left)]
  BY Zenon DEF WaitForAll, IsWait
<1> HIDE DEF f
<1> DEFINE Good(n) == f[n] \in Timeval /\ (IF n = 0 THEN f[n] = NoTimeout ELSE f[n].sec < LongMax)
<1>4. Good(0)
  <2>1. f[0] = NoTimeout
    BY <1>1, <1>2 DEF IsWait
  <2> QED
    BY <2>1, EventDataAssumption DEF NoTimeout, Time, Timeval
<1>5. ASSUME NEW n \in 1 .. Len(left), Good(n - 1) PROVE Good(n)
  <2> DEFINE at == left[n].at
  <2>1. at \in Timeval /\ at.sec < Epoch
    BY <1>1 DEF TimersOf
  <2>2. f[n] = IF Earlier(Time(Epoch + at.sec, at.usec), f[n - 1])
               THEN WaitAfterUnregister(at, u) ELSE f[n - 1]
    <3>1. n \in 0 .. Len(left) /\ n # 0
      BY <1>1
    <3> QED
      BY <1>2, <3>1 DEF IsWait
  <2> HIDE DEF at
  <2>3. at.sec \in Int /\ at.usec \in Int
    BY <2>1 DEF Timeval
  <2>4. WaitAfterUnregister(at, u) \in Timeval /\ WaitAfterUnregister(at, u).sec < LongMax
    BY <2>1, <2>3, EventDataAssumption DEF WaitAfterUnregister, Timeval, Time, Larger
  <2>5. Earlier(Time(Epoch + at.sec, at.usec), NoTimeout)
    BY <2>1, <2>3, EventDataAssumption DEF Earlier, NoTimeout, Time
  <2>6. n # 0
    BY <1>1
  <2>7. CASE n - 1 = 0
    BY <1>5, <2>2, <2>4, <2>5, <2>6, <2>7
  <2>8. CASE n - 1 # 0
    BY <1>5, <2>2, <2>4, <2>6, <2>8
  <2> QED
    BY <2>7, <2>8
<1> HIDE DEF Good
<1> DEFINE T == {n \in 0 .. Len(left) : ~ Good(n)}
<1>6. T = {}
  <2> SUFFICES ASSUME T # {} PROVE FALSE
    OBVIOUS
  <2>1. PICK m \in T : \A n \in T : m <= n
    <3>1. T \in SUBSET Nat
      BY <1>1
    <3> HIDE DEF T
    <3> QED
      BY <3>1, NatMin
  <2>2. m \in 1 .. Len(left)
    BY <1>1, <1>4, <2>1
  <2>3. Good(m - 1)
    BY <1>1, <2>1, <2>2
  <2> QED
    BY <1>5, <2>2, <2>3
<1>7. Good(Len(left))
  BY <1>1, <1>6
<1>8. left # << >> => Len(left) # 0
  BY EmptySeq, LenProperties
<1> QED
  BY <1>3, <1>7, <1>8 DEF Good
--------------------------------------------------------------------------------
\* The values a struct _Event takes, with timers of functions F.
EventOf(F) ==
  [loop : Nat, fdmax : Fd \cup {-1}, rfds : SUBSET Fd, wfds : SUBSET Fd,
   reads : Seq(Fd), writes : Seq(Fd), timeouts : Seq(TimersOf(F)), timeout : Timeval]

\* The five fields about descriptors agree.
IoMatch(e) ==
  /\ e.rfds = FdsOf(e.reads)
  /\ e.wfds = FdsOf(e.writes)
  /\ e.fdmax = MaxFd(FdsOf(e.reads) \cup FdsOf(e.writes))

\* Two Events that differ in the fields about descriptors only.
SameTimers(e, d) == e.loop = d.loop /\ e.timeouts = d.timeouts /\ e.timeout = d.timeout

\* Two Events that do not differ in the fields about descriptors.
SameIo(e, d) ==
  /\ e.fdmax = d.fdmax /\ e.rfds = d.rfds /\ e.wfds = d.wfds
  /\ e.reads = d.reads /\ e.writes = d.writes

\* The elements of an array of descriptors are descriptors.
LEMMA FdsOfType == ASSUME NEW s \in Seq(Fd) PROVE FdsOf(s) \in SUBSET Fd
BY LenProperties DEF FdsOf

\* event_register_io_read keeps the descriptor fields in step.
LEMMA RegisterReadOK ==
  ASSUME NEW F, NEW e \in EventOf(F), IoMatch(e), NEW n \in Fd
  PROVE  /\ RegisterRead(e, n) \in EventOf(F)
         /\ IoMatch(RegisterRead(e, n))
         /\ SameTimers(RegisterRead(e, n), e)
<1> DEFINE added == Append(e.reads, n)
<1> DEFINE m == Larger(e.fdmax, n)
<1>1. /\ e.reads \in Seq(Fd) /\ e.writes \in Seq(Fd)
      /\ FdsOf(e.reads) \in SUBSET Fd /\ FdsOf(e.writes) \in SUBSET Fd
  BY FdsOfType DEF EventOf
<1>2. added \in Seq(Fd) /\ FdsOf(added) = FdsOf(e.reads) \cup {n}
  BY <1>1, AppendElements
<1>3. m = MaxFd(FdsOf(added) \cup FdsOf(e.writes)) /\ m \in Fd \cup {-1}
  <2>1. (FdsOf(e.reads) \cup FdsOf(e.writes)) \cup {n} = FdsOf(added) \cup FdsOf(e.writes)
    BY <1>2
  <2>2. m = MaxFd((FdsOf(e.reads) \cup FdsOf(e.writes)) \cup {n})
    BY <1>1, MaxFdAdded DEF IoMatch
  <2> QED
    BY <1>1, <2>1, <2>2, MaxFdLargest
<1> HIDE DEF added, m
<1>4. RegisterRead(e, n) =
        [e EXCEPT !.fdmax = m, !.rfds = e.rfds \cup {n}, !.reads = added]
  BY DEF RegisterRead, added, m
<1>5. RegisterRead(e, n) \in EventOf(F)
  <2> DEFINE set == e.rfds \cup {n}
  <2>1. set \in SUBSET Fd
    BY DEF EventOf
  <2> HIDE DEF set
  <2>2. [e EXCEPT !.fdmax = m, !.rfds = set, !.reads = added] \in EventOf(F)
    BY <1>2, <1>3, <2>1 DEF EventOf
  <2> QED
    BY <1>4, <2>2 DEF set
<1>6. IoMatch(RegisterRead(e, n))
  BY <1>2, <1>3, <1>4 DEF EventOf, IoMatch
<1>7. SameTimers(RegisterRead(e, n), e)
  BY <1>4 DEF EventOf, SameTimers
<1> QED
  BY <1>5, <1>6, <1>7

\* event_register_io_write does too.
LEMMA RegisterWriteOK ==
  ASSUME NEW F, NEW e \in EventOf(F), IoMatch(e), NEW n \in Fd
  PROVE  /\ RegisterWrite(e, n) \in EventOf(F)
         /\ IoMatch(RegisterWrite(e, n))
         /\ SameTimers(RegisterWrite(e, n), e)
<1> DEFINE added == Append(e.writes, n)
<1> DEFINE m == Larger(e.fdmax, n)
<1>1. /\ e.reads \in Seq(Fd) /\ e.writes \in Seq(Fd)
      /\ FdsOf(e.reads) \in SUBSET Fd /\ FdsOf(e.writes) \in SUBSET Fd
  BY FdsOfType DEF EventOf
<1>2. added \in Seq(Fd) /\ FdsOf(added) = FdsOf(e.writes) \cup {n}
  BY <1>1, AppendElements
<1>3. m = MaxFd(FdsOf(added) \cup FdsOf(e.reads)) /\ m \in Fd \cup {-1}
  <2>1. (FdsOf(e.reads) \cup FdsOf(e.writes)) \cup {n} = FdsOf(added) \cup FdsOf(e.reads)
    BY <1>2
  <2>2. m = MaxFd((FdsOf(e.reads) \cup FdsOf(e.writes)) \cup {n})
    BY <1>1, MaxFdAdded DEF IoMatch
  <2> QED
    BY <1>1, <2>1, <2>2, MaxFdLargest
<1> HIDE DEF added, m
<1>4. RegisterWrite(e, n) =
        [e EXCEPT !.fdmax = m, !.wfds = e.wfds \cup {n}, !.writes = added]
  BY DEF RegisterWrite, added, m
<1>5. RegisterWrite(e, n) \in EventOf(F)
  <2> DEFINE set == e.wfds \cup {n}
  <2>1. set \in SUBSET Fd
    BY DEF EventOf
  <2> HIDE DEF set
  <2>2. [e EXCEPT !.fdmax = m, !.wfds = set, !.writes = added] \in EventOf(F)
    BY <1>2, <1>3, <2>1 DEF EventOf
  <2> QED
    BY <1>4, <2>2 DEF set
<1>6. IoMatch(RegisterWrite(e, n))
  BY <1>2, <1>3, <1>4 DEF EventOf, IoMatch
<1>7. SameTimers(RegisterWrite(e, n), e)
  BY <1>4 DEF EventOf, SameTimers
<1> QED
  BY <1>5, <1>6, <1>7

\* Clearing the bit when the descriptor is met clears it when it is set.
LEMMA ClearedOfMatch ==
  ASSUME NEW s, NEW n
  PROVE  ClearedOf(FdsOf(s), s, n) = FdsOf(s) \ {n}
BY DEF ClearedOf

\* event_unregister_io_read keeps them in step, whatever it is asked to remove.
LEMMA UnregisterReadOK ==
  ASSUME NEW F, NEW e \in EventOf(F), IoMatch(e), NEW n
  PROVE  /\ UnregisterRead(e, n) \in EventOf(F)
         /\ IoMatch(UnregisterRead(e, n))
         /\ SameTimers(UnregisterRead(e, n), e)
<1> DEFINE left == Without(e.reads, n)
<1> DEFINE m == Larger(MaxFd(FdsOf(left)), MaxFd(FdsOf(e.writes)))
<1> DEFINE set == FdsOf(e.reads) \ {n}
<1>1. /\ e.reads \in Seq(Fd) /\ e.writes \in Seq(Fd)
      /\ FdsOf(e.reads) \in SUBSET Fd /\ FdsOf(e.writes) \in SUBSET Fd
  BY FdsOfType DEF EventOf
<1>2. left \in Seq(Fd) /\ FdsOf(left) = set /\ set \in SUBSET Fd
  BY <1>1, WithoutElements
<1>3. m = MaxFd(set \cup FdsOf(e.writes)) /\ m \in Fd \cup {-1}
  <2>1. m = MaxFd(set \cup FdsOf(e.writes))
    <3> HIDE DEF left, set
    <3> QED
      BY <1>1, <1>2, MaxFdUnion
  <2>2. set \cup FdsOf(e.writes) = set \cup FdsOf(e.writes)
    OBVIOUS
  <2>3. MaxFd(set \cup FdsOf(e.writes)) \in Fd \cup {-1}
    <3>1. (set \cup FdsOf(e.writes)) \in SUBSET Fd
      BY <1>1, <1>2
    <3> HIDE DEF set
    <3> QED
      BY <3>1, MaxFdLargest
  <2> HIDE DEF m
  <2> QED
    BY <2>1, <2>2, <2>3
<1>4. UnregisterRead(e, n) = [e EXCEPT !.reads = left, !.rfds = set, !.fdmax = m]
  BY ClearedOfMatch DEF UnregisterRead, IoMatch, EventOf
<1> HIDE DEF left, m, set
<1>5. UnregisterRead(e, n) \in EventOf(F)
  BY <1>2, <1>3, <1>4 DEF EventOf
<1>6. IoMatch(UnregisterRead(e, n))
  BY <1>2, <1>3, <1>4 DEF EventOf, IoMatch
<1>7. SameTimers(UnregisterRead(e, n), e)
  BY <1>4 DEF EventOf, SameTimers
<1> QED
  BY <1>5, <1>6, <1>7

\* event_unregister_io_write does too.
LEMMA UnregisterWriteOK ==
  ASSUME NEW F, NEW e \in EventOf(F), IoMatch(e), NEW n
  PROVE  /\ UnregisterWrite(e, n) \in EventOf(F)
         /\ IoMatch(UnregisterWrite(e, n))
         /\ SameTimers(UnregisterWrite(e, n), e)
<1> DEFINE left == Without(e.writes, n)
<1> DEFINE m == Larger(MaxFd(FdsOf(left)), MaxFd(FdsOf(e.reads)))
<1> DEFINE set == FdsOf(e.writes) \ {n}
<1>1. /\ e.reads \in Seq(Fd) /\ e.writes \in Seq(Fd)
      /\ FdsOf(e.reads) \in SUBSET Fd /\ FdsOf(e.writes) \in SUBSET Fd
  BY FdsOfType DEF EventOf
<1>2. left \in Seq(Fd) /\ FdsOf(left) = set /\ set \in SUBSET Fd
  BY <1>1, WithoutElements
<1>3. m = MaxFd(FdsOf(e.reads) \cup set) /\ m \in Fd \cup {-1}
  <2>1. m = MaxFd(set \cup FdsOf(e.reads))
    <3> HIDE DEF left, set
    <3> QED
      BY <1>1, <1>2, MaxFdUnion
  <2>2. set \cup FdsOf(e.reads) = FdsOf(e.reads) \cup set
    OBVIOUS
  <2>3. MaxFd(FdsOf(e.reads) \cup set) \in Fd \cup {-1}
    <3>1. (FdsOf(e.reads) \cup set) \in SUBSET Fd
      BY <1>1, <1>2
    <3> HIDE DEF set
    <3> QED
      BY <3>1, MaxFdLargest
  <2> HIDE DEF m
  <2> QED
    BY <2>1, <2>2, <2>3
<1>4. UnregisterWrite(e, n) = [e EXCEPT !.writes = left, !.wfds = set, !.fdmax = m]
  BY ClearedOfMatch DEF UnregisterWrite, IoMatch, EventOf
<1> HIDE DEF left, m, set
<1>5. UnregisterWrite(e, n) \in EventOf(F)
  BY <1>2, <1>3, <1>4 DEF EventOf
<1>6. IoMatch(UnregisterWrite(e, n))
  BY <1>2, <1>3, <1>4 DEF EventOf, IoMatch
<1>7. SameTimers(UnregisterWrite(e, n), e)
  BY <1>4 DEF EventOf, SameTimers
<1> QED
  BY <1>5, <1>6, <1>7

--------------------------------------------------------------------------------
\* Taking the shorter of two waits leaves one that is not NoTimeout.
LEMMA ShorterWaits ==
  ASSUME NEW d \in Timeval, d.sec < Epoch, NEW t \in Timeval, NEW w \in Timeval, w.sec < Epoch
  PROVE  LET s == IF Earlier(d, t) THEN w ELSE t IN s \in Timeval /\ s.sec < LongMax
BY EventDataAssumption DEF Earlier, Timeval

\* event_register_timeout: select() will have something to wait for.
LEMMA RegisterTimeoutOK ==
  ASSUME NEW F, NEW e \in EventOf(F), NEW u \in Int, NEW f \in F,
         NEW d \in Timeval, d.sec < Epoch
  PROVE  /\ RegisterTimeout(e, u, f, d) \in EventOf(F)
         /\ RegisterTimeout(e, u, f, d).loop = e.loop
         /\ RegisterTimeout(e, u, f, d).timeout.sec < LongMax
         /\ SameIo(RegisterTimeout(e, u, f, d), e)
<1> DEFINE timer == [func |-> f, initial |-> d, at |-> Time(d.sec, u + d.usec)]
<1> DEFINE wait == IF Earlier(d, e.timeout) THEN d ELSE e.timeout
<1> DEFINE all == Append(e.timeouts, timer)
<1>1. timer \in TimersOf(F)
  BY DEF TimersOf, Timeval, Time
<1>2. wait \in Timeval /\ wait.sec < LongMax
  BY ShorterWaits DEF EventOf
<1>3. all \in Seq(TimersOf(F))
  <2> HIDE DEF timer
  <2> QED
    BY <1>1 DEF EventOf
<1>4. RegisterTimeout(e, u, f, d) = [e EXCEPT !.timeouts = all, !.timeout = wait]
  BY DEF RegisterTimeout
<1> HIDE DEF wait, all
<1> QED
  BY <1>2, <1>3, <1>4 DEF EventOf, SameIo

\* event_unregister_timeout: it has as long as a timer is left.
LEMMA UnregisterTimeoutOK ==
  ASSUME NEW F, NEW e \in EventOf(F), NEW u \in Int, NEW f
  PROVE  LET d == UnregisterTimeout(e, u, f)
         IN  /\ d \in EventOf(F)
             /\ d.loop = e.loop
             /\ d.timeouts # << >> => d.timeout.sec < LongMax
             /\ SameIo(d, e)
<1> DEFINE left == Kept(e.timeouts, {k \in DOMAIN e.timeouts : e.timeouts[k].func # f})
<1> DEFINE wait == WaitForAll(left, u)
<1>1. left \in Seq(TimersOf(F))
  BY KeptElements DEF EventOf
<1>2. wait \in Timeval /\ (left # << >> => wait.sec < LongMax)
  BY <1>1, WaitForAllAlive
<1>3. UnregisterTimeout(e, u, f) = [e EXCEPT !.timeouts = left, !.timeout = wait]
  BY DEF UnregisterTimeout
<1> HIDE DEF left, wait
<1> QED
  BY <1>1, <1>2, <1>3 DEF EventOf, SameIo

\* _loop_timeout passes a timer: it is waited for.
LEMMA KeepTimeoutOK ==
  ASSUME NEW F, NEW e \in EventOf(F), NEW u \in Int, NEW k \in DOMAIN e.timeouts
  PROVE  LET d == KeepTimeout(e, u, k)
         IN  /\ d \in EventOf(F)
             /\ d.loop = e.loop
             /\ d.timeouts = e.timeouts
             /\ d.timeout.sec < LongMax
             /\ SameIo(d, e)
<1> DEFINE at == e.timeouts[k].at
<1> DEFINE left == Time(at.sec, at.usec - u)
<1> DEFINE wait == IF Earlier(left, e.timeout) THEN WaitUntil(at, u) ELSE e.timeout
<1>1. at \in Timeval /\ at.sec < Epoch
  <2>1. e.timeouts[k] \in TimersOf(F)
    BY ElementOfSeq, LenProperties DEF EventOf
  <2> QED
    BY <2>1 DEF TimersOf
<1>2. left \in Timeval /\ left.sec < Epoch
  BY <1>1 DEF Timeval, Time
<1>3. WaitUntil(at, u) \in Timeval /\ WaitUntil(at, u).sec < Epoch
  BY <1>1, EventDataAssumption DEF Timeval, Time, WaitUntil
<1>4. wait \in Timeval /\ wait.sec < LongMax
  BY <1>2, <1>3, ShorterWaits DEF EventOf
<1>5. KeepTimeout(e, u, k) = [e EXCEPT !.timeout = wait]
  BY DEF KeepTimeout
<1> HIDE DEF wait
<1> QED
  BY <1>4, <1>5 DEF EventOf, SameIo

\* _loop_timeout arms a timer again: it is waited for.
LEMMA RearmTimeoutOK ==
  ASSUME NEW F, NEW e \in EventOf(F), NEW u \in Int, NEW k \in DOMAIN e.timeouts
  PROVE  LET d == RearmTimeout(e, u, k)
         IN  /\ d \in EventOf(F)
             /\ d.loop = e.loop
             /\ Len(d.timeouts) = Len(e.timeouts)
             /\ d.timeout.sec < LongMax
             /\ SameIo(d, e)
<1> DEFINE initial == e.timeouts[k].initial
<1> DEFINE timer == [e.timeouts[k] EXCEPT !.at = Time(initial.sec, u + initial.usec)]
<1> DEFINE wait == IF Earlier(initial, e.timeout) THEN initial ELSE e.timeout
<1> DEFINE all == [e.timeouts EXCEPT ![k] = timer]
<1>1. e.timeouts[k] \in TimersOf(F)
  BY ElementOfSeq, LenProperties DEF EventOf
<1>2. initial \in Timeval /\ initial.sec < Epoch
  BY <1>1 DEF TimersOf
<1>3. timer \in TimersOf(F)
  <2>1. Time(initial.sec, u + initial.usec) \in Timeval
        /\ Time(initial.sec, u + initial.usec).sec < Epoch
    BY <1>2 DEF Timeval, Time
  <2> QED
    BY <1>1, <2>1 DEF TimersOf
<1>4. wait \in Timeval /\ wait.sec < LongMax
  BY <1>2, ShorterWaits DEF EventOf
<1>5. all \in Seq(TimersOf(F)) /\ Len(all) = Len(e.timeouts)
  <2> HIDE DEF timer
  <2> QED
    BY <1>3, ExceptSeq, LenProperties DEF EventOf
<1>6. RearmTimeout(e, u, k) = [e EXCEPT !.timeouts = all, !.timeout = wait]
  BY DEF RearmTimeout, EventOf
<1> HIDE DEF wait, all
<1> QED
  BY <1>4, <1>5, <1>6 DEF EventOf, SameIo

\* _loop_timeout removes a timer.
LEMMA DropTimeoutOK ==
  ASSUME NEW F, NEW e \in EventOf(F), NEW k \in DOMAIN e.timeouts
  PROVE  LET d == DropTimeout(e, k)
         IN  /\ d \in EventOf(F)
             /\ d.loop = e.loop
             /\ d.timeout = e.timeout
             /\ SameIo(d, e)
<1> DEFINE left == SubSeq(e.timeouts, 1, k - 1) \o SubSeq(e.timeouts, k + 1, Len(e.timeouts))
<1>1. e.timeouts \in Seq(TimersOf(F)) /\ k \in 1 .. Len(e.timeouts) /\ Len(e.timeouts) \in Nat
  BY LenProperties DEF EventOf
<1>2. /\ SubSeq(e.timeouts, 1, k - 1) \in Seq(TimersOf(F))
      /\ SubSeq(e.timeouts, k + 1, Len(e.timeouts)) \in Seq(TimersOf(F))
  BY <1>1, SubSeqProperties
<1>3. left \in Seq(TimersOf(F))
  BY <1>2, ConcatProperties
<1>4. DropTimeout(e, k) = [e EXCEPT !.timeouts = left]
  BY DEF DropTimeout
<1> HIDE DEF left
<1> QED
  BY <1>3, <1>4 DEF EventOf, SameIo

\* event_loop_quit
LEMMA LoopQuitOK ==
  ASSUME NEW F, NEW e \in EventOf(F)
  PROVE  LET d == LoopQuit(e)
         IN  /\ d \in EventOf(F)
             /\ d.loop <= e.loop
             /\ d.timeouts = e.timeouts /\ d.timeout = e.timeout
             /\ SameIo(d, e)
<1> DEFINE n == IF e.loop > 0 THEN e.loop - 1 ELSE e.loop
<1>1. n \in Nat /\ n <= e.loop
  BY DEF EventOf
<1>2. LoopQuit(e) = [e EXCEPT !.loop = n]
  BY DEF LoopQuit
<1> HIDE DEF n
<1> QED
  BY <1>1, <1>2 DEF EventOf, SameIo
================================================================================
