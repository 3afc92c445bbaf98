---------------------------- MODULE StringProofs ---------------------------
(***************************************************************************)
(* TLAPS proofs about the string helpers and the configuration file, for   *)
(* strings, commands and files of any length.  What the loops of the code  *)
(* compute is written as folds; a fold is unrolled into the sequence of    *)
(* its intermediate values, its trace, and facts about traces are proved   *)
(* by induction over their length.                                         *)
(***************************************************************************)
EXTENDS PropertiesConfig, SequenceTheorems, FiniteSetTheorems, WellFoundedInduction, TLAPS

-----------------------------------------------------------------------------
(* Induction, and what a fold computes *)

LEMMA Least ==
    ASSUME NEW T \in SUBSET Nat, T # {}
    PROVE  \E x \in T : \A y \in T : x <= y
<1>1. PICK x \in T : \A y \in T : ~(<<y, x>> \in OpToRel(<, Nat))
  BY WFMin, NatLessThanWellFounded
<1>2. \A y \in T : ~(y < x)
  BY <1>1 DEF OpToRel
<1> QED BY <1>2

\* Induction up to n.
LEMMA UpTo ==
    ASSUME NEW n \in Nat, NEW S, 0 \in S, \A k \in 0..(n - 1) : k \in S => k + 1 \in S
    PROVE  \A k \in 0..n : k \in S
<1> DEFINE T == (0..n) \ S
<1>1. SUFFICES ASSUME T # {} PROVE FALSE
  OBVIOUS
<1>2. PICK x \in T : \A y \in T : x <= y
  <2>1. T \in SUBSET Nat
    OBVIOUS
  <2> QED BY <1>1, <2>1, Least
<1>3. x \in 1..n
  BY <1>2
<1>4. x - 1 \in 0..(n - 1) /\ x - 1 \notin T
  BY <1>2, <1>3
<1>5. x \in S
  BY <1>3, <1>4
<1> QED BY <1>2, <1>5

LEMMA UpToEnd ==
    ASSUME NEW n \in Nat, NEW S, 0 \in S, \A k \in 0..(n - 1) : k \in S => k + 1 \in S
    PROVE  n \in S
<1>1. n \in 0..n
  OBVIOUS
<1> QED BY <1>1, UpTo

LEMMA MaxOf ==
    ASSUME NEW n \in Nat, NEW S \in SUBSET (1..n), S # {}
    PROVE  Max(S) \in S /\ \A j \in S : j <= Max(S)
<1> DEFINE T == {n - k : k \in S}
<1>1. T \in SUBSET Nat /\ T # {}
  <2>1. \A k \in S : n - k \in Nat
    OBVIOUS
  <2>2. \E k \in S : n - k \in T
    OBVIOUS
  <2> QED BY <2>1, <2>2
<1>2. PICK x \in T : \A y \in T : x <= y
  BY <1>1, Least
<1>3. PICK k \in S : x = n - k
  BY <1>2
<1>4. \A j \in S : n - j \in T
  OBVIOUS
<1>5. \A j \in S : k >= j
  BY <1>2, <1>3, <1>4
<1>6. Max(S) \in S /\ \A j \in S : Max(S) >= j
  <2>1. \E m \in S : \A j \in S : m >= j
    BY <1>3, <1>5
  <2> QED BY <2>1, Zenon DEF Max
<1> QED BY <1>6

LEMMA MaxInterval ==
    ASSUME NEW k \in Nat, k >= 1
    PROVE  Max(1..k) = k /\ (1..k) \ {Max(1..k)} = 1..(k - 1) /\ 1..k # {}
<1>1. Max(1..k) \in 1..k /\ \A j \in 1..k : j <= Max(1..k)
  <2>1. 1..k \in SUBSET (1..k) /\ 1..k # {}
    OBVIOUS
  <2> QED BY <2>1, MaxOf
<1> DEFINE m == Max(1..k)
<1>2. m \in 1..k /\ k <= m
  <2>1. k \in 1..k
    OBVIOUS
  <2> QED BY <1>1, <2>1
<1> HIDE DEF m
<1>3. m = k
  BY <1>2
<1>4. (1..k) \ {k} = 1..(k - 1) /\ 1..k # {}
  <2>1. \A j \in 1..k : j # k <=> j \in 1..(k - 1)
    OBVIOUS
  <2>2. 1..(k - 1) \subseteq 1..k /\ k \in 1..k
    OBVIOUS
  <2> QED BY <2>1, <2>2
<1> QED BY <1>3, <1>4 DEF m

\* F folds every set of positions up to k, the largest last, from the value b
\* with the operation g.
Folds(F, V, b, g, k) ==
    /\ F \in [SUBSET (1..k) -> V]
    /\ \A s \in SUBSET (1..k) :
          F[s] = IF s = {} THEN b ELSE g[<<F[s \ {Max(s)}], Max(s)>>]

\* What FoldLeft is defined by exists.
LEMMA FoldExists ==
    ASSUME NEW V, NEW b \in V, NEW n \in Nat, NEW g \in [V \X (1..n) -> V]
    PROVE  \E F : Folds(F, V, b, g, n)
<1> DEFINE S == {k \in 0..n : \E F : Folds(F, V, b, g, k)}
<1>1. 0 \in S
  <2> DEFINE F == [s \in SUBSET (1..0) |-> b]
  <2>1. F \in [SUBSET (1..0) -> V]
    OBVIOUS
  <2>2. \A s \in SUBSET (1..0) : s = {}
    OBVIOUS
  <2>3. Folds(F, V, b, g, 0)
    BY <2>1, <2>2 DEF Folds
  <2> QED BY <2>3
<1>2. ASSUME NEW k \in 0..(n - 1), k \in S PROVE k + 1 \in S
  <2>1. PICK F : Folds(F, V, b, g, k)
    BY <1>2
  <2>f. F \in [SUBSET (1..k) -> V]
    BY <2>1 DEF Folds
  <2> DEFINE G == [s \in SUBSET (1..(k + 1)) |->
                     IF k + 1 \in s THEN g[<<F[s \ {k + 1}], k + 1>>] ELSE F[s]]
  <2>2. \A s \in SUBSET (1..(k + 1)) :
           IF k + 1 \in s THEN s \ {k + 1} \in SUBSET (1..k) ELSE s \in SUBSET (1..k)
    OBVIOUS
  <2>3. G \in [SUBSET (1..(k + 1)) -> V]
    <3> SUFFICES ASSUME NEW s \in SUBSET (1..(k + 1)) PROVE G[s] \in V
      OBVIOUS
    <3>1. CASE k + 1 \in s
      <4>1. F[s \ {k + 1}] \in V /\ k + 1 \in 1..n
        BY <2>2, <2>f, <3>1
      <4> QED BY <3>1, <4>1
    <3>2. CASE k + 1 \notin s
      BY <2>2, <2>f, <3>2
    <3> QED BY <3>1, <3>2
  <2>4. ASSUME NEW s \in SUBSET (1..k) PROVE G[s] = F[s]
    OBVIOUS
  <2>5. ASSUME NEW s \in SUBSET (1..(k + 1))
        PROVE  G[s] = IF s = {} THEN b ELSE g[<<G[s \ {Max(s)}], Max(s)>>]
    <3>1. CASE k + 1 \in s
      <4>1. Max(s) = k + 1
        <5>1. k + 1 \in Nat /\ s # {}
          BY <3>1
        <5>2. Max(s) \in s /\ k + 1 <= Max(s)
          BY <3>1, <5>1, MaxOf
        <5>3. Max(s) \in 1..(k + 1)
          BY <5>2
        <5> HIDE DEF G
        <5> QED BY <5>2, <5>3
      <4>2. G[s \ {k + 1}] = F[s \ {k + 1}]
        BY <2>2, <2>4, <3>1
      <4> QED BY <3>1, <4>1, <4>2
    <3>2. CASE k + 1 \notin s
      <4>1. s \in SUBSET (1..k) /\ s \ {Max(s)} \in SUBSET (1..k)
        BY <2>2, <3>2
      <4>2. F[s] = IF s = {} THEN b ELSE g[<<F[s \ {Max(s)}], Max(s)>>]
        BY <2>1, <4>1 DEF Folds
      <4> QED BY <2>4, <4>1, <4>2
    <3> QED BY <3>1, <3>2
  <2> HIDE DEF G
  <2>6. Folds(G, V, b, g, k + 1)
    BY <2>3, <2>5 DEF Folds
  <2> QED BY <2>6
<1> HIDE DEF S
<1>3. n \in S
  BY <1>1, <1>2, UpTo
<1> QED BY <1>3 DEF S

\* iter folds like g as long as it stays in V.
Iterates(iter, V, b, g, n) ==
    /\ n \in Nat /\ b \in V /\ g \in [V \X (1..n) -> V]
    /\ iter[{}] = b
    /\ \A s \in SUBSET (1..n) : s # {} /\ iter[s \ {Max(s)}] \in V =>
          iter[s] = g[<<iter[s \ {Max(s)}], Max(s)>>]

\* The values a fold passes through, one per position.
Traces(h, iter, V, b, g, n) ==
    /\ h \in [0..n -> V]
    /\ h[0] = b
    /\ \A k \in 1..n : h[k] = g[<<h[k - 1], k>>]
    /\ h[n] = iter[1..n]

\* A fold over the positions 1..n passes through the folds of 1..k.
LEMMA TraceOf ==
    ASSUME NEW V, NEW b, NEW n, NEW g, NEW iter, Iterates(iter, V, b, g, n)
    PROVE  \E h : Traces(h, iter, V, b, g, n)
<1>0. n \in Nat /\ b \in V /\ g \in [V \X (1..n) -> V]
  BY DEF Iterates
<1> DEFINE h == [k \in 0..n |-> iter[1..k]]
           S == {k \in 0..n : h[k] \in V}
<1>1. h[0] = b
  <2>1. 1..0 = {}
    OBVIOUS
  <2> QED BY <2>1 DEF Iterates
<1> USE <1>0
<1>2. ASSUME NEW k \in 1..n, h[k - 1] \in V PROVE h[k] = g[<<h[k - 1], k>>] /\ h[k] \in V
  <2>1. /\ k \in Nat /\ k >= 1 /\ 1..k \in SUBSET (1..n) /\ k - 1 \in 0..n
        /\ h[k] = iter[1..k] /\ h[k - 1] = iter[1..(k - 1)]
    OBVIOUS
  <2>2. Max(1..k) = k /\ (1..k) \ {Max(1..k)} = 1..(k - 1) /\ 1..k # {}
    BY <2>1, MaxInterval
  <2> HIDE DEF h
  <2>3. iter[1..k] = g[<<iter[1..(k - 1)], k>>]
    BY <1>2, <2>1, <2>2 DEF Iterates
  <2>4. <<h[k - 1], k>> \in V \X (1..n)
    BY <1>2
  <2> QED BY <2>1, <2>3, <2>4
<1> HIDE DEF h
<1>3. 0 \in S
  BY <1>1
<1>4. ASSUME NEW k \in 0..(n - 1), k \in S PROVE k + 1 \in S
  <2>1. k + 1 \in 1..n /\ (k + 1) - 1 = k
    OBVIOUS
  <2>2. h[(k + 1) - 1] \in V
    BY <1>4, <2>1
  <2>3. h[k + 1] \in V
    BY <1>2, <2>1, <2>2
  <2> QED BY <2>1, <2>3
<1> HIDE DEF S
<1>5. \A k \in 0..n : k \in S
  BY <1>3, <1>4, UpTo
<1>6. \A k \in 0..n : h[k] \in V
  BY <1>5 DEF S
<1>7. h \in [0..n -> V]
  BY <1>6 DEF h
<1>8. \A k \in 1..n : h[k] = g[<<h[k - 1], k>>]
  <2>1. \A k \in 1..n : k - 1 \in 0..n
    OBVIOUS
  <2> QED BY <1>2, <1>6, <2>1
<1>9. h[n] = iter[1..n]
  BY DEF h
<1> QED BY <1>1, <1>7, <1>8, <1>9 DEF Traces

LEMMA SizeTrace ==
    ASSUME NEW A, NEW arr \in Seq(Seq(A))
    PROVE  \E h \in [0..Len(arr) -> Nat] :
              /\ h[0] = 0
              /\ \A k \in 1..Len(arr) : h[k] = h[k - 1] + Len(arr[k])
              /\ Size(arr) = h[Len(arr)]
<1> DEFINE n == Len(arr)
           g == [p \in Nat \X (1..n) |-> p[1] + Len(arr[p[2]])]
<1>1. n \in Nat /\ DOMAIN arr = 1..n /\ \A k \in 1..n : Len(arr[k]) \in Nat
  <2>1. \A k \in 1..n : arr[k] \in Seq(A)
    OBVIOUS
  <2> QED BY <2>1
<1> HIDE DEF n
<1>2. g \in [Nat \X (1..n) -> Nat] /\ \A v \in Nat, k \in 1..n : g[<<v, k>>] = v + Len(arr[k])
  BY <1>1
<1> HIDE DEF g
<1>3. PICK F : Folds(F, Nat, 0, g, n)
  BY <1>1, <1>2, FoldExists
<1>4. F = [s \in SUBSET DOMAIN arr |->
              IF s = {} THEN 0 ELSE F[s \ {Max(s)}] + Len(arr[Max(s)])]
  <2>1. ASSUME NEW s \in SUBSET (1..n), s # {}
        PROVE  F[s] = F[s \ {Max(s)}] + Len(arr[Max(s)])
    <3>1. Max(s) \in 1..n /\ F[s \ {Max(s)}] \in Nat
      BY <1>1, <1>3, <2>1, MaxOf DEF Folds
    <3> QED BY <1>2, <1>3, <2>1, <3>1 DEF Folds
  <2> QED BY <1>1, <1>3, <2>1 DEF Folds
<1>5. PICK iter :
        /\ iter = [s \in SUBSET DOMAIN arr |->
                      IF s = {} THEN 0 ELSE iter[s \ {Max(s)}] + Len(arr[Max(s)])]
        /\ Size(arr) = iter[DOMAIN arr]
  BY <1>4 DEF Size, FoldLeft, MapThenFoldSet
<1>6. iter[{}] = 0
  BY <1>5
<1>7. ASSUME NEW s \in SUBSET (1..n), s # {}, iter[s \ {Max(s)}] \in Nat
      PROVE  iter[s] = g[<<iter[s \ {Max(s)}], Max(s)>>]
  <2>1. Max(s) \in 1..n
    BY <1>1, <1>7, MaxOf
  <2>2. iter[s] = iter[s \ {Max(s)}] + Len(arr[Max(s)])
    BY <1>1, <1>5, <1>7
  <2> QED BY <1>2, <1>7, <2>1, <2>2
<1>8. Iterates(iter, Nat, 0, g, n)
  BY <1>1, <1>2, <1>6, <1>7 DEF Iterates
<1>9. PICK h : Traces(h, iter, Nat, 0, g, n)
  BY <1>8, TraceOf
<1>10. \A k \in 1..n : k - 1 \in 0..n
  BY <1>1
<1>11. \A k \in 1..n : h[k] = h[k - 1] + Len(arr[k])
  BY <1>2, <1>9, <1>10 DEF Traces
<1> QED BY <1>1, <1>5, <1>9, <1>11 DEF n, Traces

-----------------------------------------------------------------------------
(* The loops of array_join, str_join and str_split, round by round *)

\* The rest of a sequence.
LEMMA TailFacts ==
    ASSUME NEW E, NEW arr \in Seq(E), arr # <<>>
    PROVE  /\ Head(arr) = arr[1] /\ arr[1] \in E
           /\ Tail(arr) \in Seq(E) /\ Len(Tail(arr)) = Len(arr) - 1 /\ Len(arr) \in Nat \ {0}
           /\ \A k \in 1..(Len(arr) - 1) : Tail(arr)[k] = arr[k + 1]
  OBVIOUS

\* array_join appends a separator and an argument in each round.
LEMMA JoinTrace ==
    ASSUME NEW A, NEW arr \in Seq(Seq(A)), arr # <<>>, Size(arr) # 0, NEW separator \in Seq(A)
    PROVE  \E h \in [0..Len(Tail(arr)) -> Seq(A)] :
              /\ h[0] = Head(arr)
              /\ \A k \in 1..Len(Tail(arr)) : h[k] = Join(h[k - 1], separator, Tail(arr)[k])
              /\ array_join(arr, separator) = h[Len(Tail(arr))]
<1> DEFINE n == Len(Tail(arr))
           g == [p \in Seq(A) \X (1..n) |-> Join(p[1], separator, Tail(arr)[p[2]])]
<1>1. /\ n \in Nat /\ DOMAIN Tail(arr) = 1..n
      /\ Head(arr) \in Seq(A) /\ \A k \in 1..n : Tail(arr)[k] \in Seq(A)
  BY TailFacts
<1> HIDE DEF n
<1>2. /\ g \in [Seq(A) \X (1..n) -> Seq(A)]
      /\ \A v \in Seq(A), k \in 1..n : g[<<v, k>>] = Join(v, separator, Tail(arr)[k])
  <2>1. \A v, e \in Seq(A) : Join(v, separator, e) \in Seq(A)
    BY DEF Join
  <2> QED BY <1>1, <2>1
<1> HIDE DEF g
<1>3. PICK F : Folds(F, Seq(A), Head(arr), g, n)
  BY <1>1, <1>2, FoldExists
<1>4. F = [s \in SUBSET DOMAIN Tail(arr) |->
              IF s = {} THEN Head(arr) ELSE Join(F[s \ {Max(s)}], separator, Tail(arr)[Max(s)])]
  <2>1. ASSUME NEW s \in SUBSET (1..n), s # {}
        PROVE  F[s] = Join(F[s \ {Max(s)}], separator, Tail(arr)[Max(s)])
    <3>1. Max(s) \in 1..n /\ F[s \ {Max(s)}] \in Seq(A)
      BY <1>1, <1>3, <2>1, MaxOf DEF Folds
    <3>2. F[s] = g[<<F[s \ {Max(s)}], Max(s)>>]
      BY <1>3, <2>1 DEF Folds
    <3> QED BY <1>2, <3>1, <3>2
  <2> QED BY <1>1, <1>3, <2>1 DEF Folds
<1>5. PICK iter :
        /\ iter = [s \in SUBSET DOMAIN Tail(arr) |->
                      IF s = {} THEN Head(arr) ELSE Join(iter[s \ {Max(s)}], separator, Tail(arr)[Max(s)])]
        /\ array_join(arr, separator) = iter[DOMAIN Tail(arr)]
  BY <1>4 DEF array_join, FoldLeft, MapThenFoldSet
<1>6. iter[{}] = Head(arr)
  BY <1>5
<1>7. ASSUME NEW s \in SUBSET (1..n), s # {}, iter[s \ {Max(s)}] \in Seq(A)
      PROVE  iter[s] = g[<<iter[s \ {Max(s)}], Max(s)>>]
  <2>1. Max(s) \in 1..n
    BY <1>1, <1>7, MaxOf
  <2>2. iter[s] = Join(iter[s \ {Max(s)}], separator, Tail(arr)[Max(s)])
    BY <1>1, <1>5, <1>7
  <2> QED BY <1>2, <1>7, <2>1, <2>2
<1>8. Iterates(iter, Seq(A), Head(arr), g, n)
  BY <1>1, <1>2, <1>6, <1>7 DEF Iterates
<1>9. PICK h : Traces(h, iter, Seq(A), Head(arr), g, n)
  BY <1>8, TraceOf
<1>10. \A k \in 1..n : k - 1 \in 0..n
  BY <1>1
<1>11. \A k \in 1..n : h[k] = Join(h[k - 1], separator, Tail(arr)[k])
  BY <1>2, <1>9, <1>10 DEF Traces
<1> QED BY <1>1, <1>5, <1>9, <1>11 DEF n, Traces

Buffers(A) == [text : Seq(A), size : Nat, fits : BOOLEAN]

\* The buffer of str_join before its first round.
Started(arr) ==
    [text |-> Head(arr), size |-> Fitting(PathSize, Len(Head(arr))), fits |-> TRUE]

\* str_join enlarges its buffer as it goes.
LEMMA StrJoinTrace ==
    ASSUME NEW A, NEW arr \in Seq(Seq(A)), arr # <<>>, NEW separator \in Seq(A)
    PROVE  \E h \in [0..Len(Tail(arr)) -> Buffers(A)] :
              /\ h[0] = Started(arr)
              /\ \A k \in 1..Len(Tail(arr)) : h[k] = Joined(h[k - 1], separator, Tail(arr)[k])
              /\ str_join(separator, arr) = h[Len(Tail(arr))]
<1> DEFINE n == Len(Tail(arr))
           g == [p \in Buffers(A) \X (1..n) |-> Joined(p[1], separator, Tail(arr)[p[2]])]
<1>1. /\ n \in Nat /\ DOMAIN Tail(arr) = 1..n
      /\ Head(arr) \in Seq(A) /\ \A k \in 1..n : Tail(arr)[k] \in Seq(A)
      /\ Started(arr) \in Buffers(A)
  <2>1. Head(arr) \in Seq(A) /\ Len(Head(arr)) \in Nat
    BY TailFacts
  <2>2. Fitting(PathSize, Len(Head(arr))) \in Nat
    BY <2>1, StringsAssumption DEF Fitting
  <2> QED BY <2>1, <2>2, TailFacts DEF Buffers, Started
<1> HIDE DEF n
<1>2. /\ g \in [Buffers(A) \X (1..n) -> Buffers(A)]
      /\ \A v \in Buffers(A), k \in 1..n : g[<<v, k>>] = Joined(v, separator, Tail(arr)[k])
  <2>1. ASSUME NEW v \in Buffers(A), NEW e \in Seq(A) PROVE Joined(v, separator, e) \in Buffers(A)
    <3>1. /\ v.text \in Seq(A) /\ v.size \in Nat
          /\ Len(v.text) \in Nat /\ Len(separator) \in Nat
          /\ Join(v.text, separator, e) \in Seq(A) /\ Len(Join(v.text, separator, e)) \in Nat
      BY DEF Buffers, Join
    <3>2. \A size, len \in Nat : Fitting(size, len) \in Nat
      BY DEF Fitting
    <3> DEFINE first  == Fitting(v.size, Len(v.text) + Len(separator))
               text   == Join(v.text, separator, e)
               second == Fitting(first, Len(text))
               fits   == v.fits /\ Len(v.text) + Len(separator) < first /\ Len(text) < second
    <3>3. Joined(v, separator, e) = [text |-> text, size |-> second, fits |-> fits]
      BY DEF Joined
    <3>4. fits \in BOOLEAN
      OBVIOUS
    <3>5. first \in Nat /\ second \in Nat
      <4>1. Len(v.text) + Len(separator) \in Nat
        BY <3>1
      <4>2. first \in Nat
        BY <3>1, <3>2, <4>1
      <4> HIDE DEF first
      <4> QED BY <3>1, <3>2, <4>2
    <3> HIDE DEF first, text, second, fits
    <3>6. text \in Seq(A)
      BY <3>1 DEF text
    <3> QED BY <3>3, <3>4, <3>5, <3>6 DEF Buffers
  <2> QED BY <1>1, <2>1
<1> HIDE DEF g
<1>3. PICK F : Folds(F, Buffers(A), Started(arr), g, n)
  BY <1>1, <1>2, FoldExists
<1>4. F = [s \in SUBSET DOMAIN Tail(arr) |->
              IF s = {} THEN Started(arr) ELSE Joined(F[s \ {Max(s)}], separator, Tail(arr)[Max(s)])]
  <2>1. ASSUME NEW s \in SUBSET (1..n), s # {}
        PROVE  F[s] = Joined(F[s \ {Max(s)}], separator, Tail(arr)[Max(s)])
    <3>1. Max(s) \in 1..n /\ F[s \ {Max(s)}] \in Buffers(A)
      BY <1>1, <1>3, <2>1, MaxOf DEF Folds
    <3>2. F[s] = g[<<F[s \ {Max(s)}], Max(s)>>]
      BY <1>3, <2>1 DEF Folds
    <3> QED BY <1>2, <3>1, <3>2
  <2> QED BY <1>1, <1>3, <2>1 DEF Folds
<1>5. PICK iter :
        /\ iter = [s \in SUBSET DOMAIN Tail(arr) |->
                      IF s = {} THEN Started(arr) ELSE Joined(iter[s \ {Max(s)}], separator, Tail(arr)[Max(s)])]
        /\ str_join(separator, arr) = iter[DOMAIN Tail(arr)]
  BY <1>4 DEF str_join, Started, FoldLeft, MapThenFoldSet
<1>6. iter[{}] = Started(arr)
  BY <1>5
<1>7. ASSUME NEW s \in SUBSET (1..n), s # {}, iter[s \ {Max(s)}] \in Buffers(A)
      PROVE  iter[s] = g[<<iter[s \ {Max(s)}], Max(s)>>]
  <2>1. Max(s) \in 1..n
    BY <1>1, <1>7, MaxOf
  <2>2. iter[s] = Joined(iter[s \ {Max(s)}], separator, Tail(arr)[Max(s)])
    BY <1>1, <1>5, <1>7
  <2> QED BY <1>2, <1>7, <2>1, <2>2
<1>8. Iterates(iter, Buffers(A), Started(arr), g, n)
  BY <1>1, <1>2, <1>6, <1>7 DEF Iterates
<1>9. PICK h : Traces(h, iter, Buffers(A), Started(arr), g, n)
  BY <1>8, TraceOf
<1>10. \A k \in 1..n : k - 1 \in 0..n
  BY <1>1
<1>11. \A k \in 1..n : h[k] = Joined(h[k - 1], separator, Tail(arr)[k])
  BY <1>2, <1>9, <1>10 DEF Traces
<1> QED BY <1>1, <1>5, <1>9, <1>11 DEF n, Traces

\* What strtok has found so far; a token that may grow is there.
Splits(A) ==
    {split \in [tokens : Seq(Seq(A)), open : BOOLEAN] : split.open => split.tokens # <<>>}

NoTokens == [tokens |-> <<>>, open |-> FALSE]

LEMMA TokenType ==
    ASSUME NEW A, NEW split \in Splits(A), NEW c \in A, NEW delimiter
    PROVE  Token(split, c, delimiter) \in Splits(A)
<1>1. CASE c = delimiter
  BY <1>1 DEF Token, Splits
<1>2. CASE c # delimiter /\ split.open
  <2> DEFINE toks == split.tokens
             last == Append(Last(toks), c)
  <2>1. toks \in Seq(Seq(A)) /\ toks # <<>> /\ Len(toks) \in Nat \ {0}
    BY <1>2 DEF Splits
  <2>2. Front(toks) \in Seq(Seq(A))
    BY <2>1 DEF Front
  <2>3. last \in Seq(A)
    BY <2>1 DEF Last
  <2>4. Front(toks) \o <<last>> \in Seq(Seq(A)) /\ Front(toks) \o <<last>> # <<>>
    BY <2>2, <2>3
  <2>5. Token(split, c, delimiter) = [split EXCEPT !.tokens = Front(toks) \o <<last>>]
    BY <1>2 DEF Token
  <2> HIDE DEF last, toks
  <2> QED BY <2>4, <2>5 DEF Splits
<1>3. CASE c # delimiter /\ ~split.open
  <2>1. <<c>> \in Seq(A)
    OBVIOUS
  <2>2. Append(split.tokens, <<c>>) \in Seq(Seq(A)) /\ Append(split.tokens, <<c>>) # <<>>
    <3>1. split.tokens \in Seq(Seq(A))
      BY DEF Splits
    <3>2. \A t \in Seq(Seq(A)), u \in Seq(A) : Append(t, u) \in Seq(Seq(A)) /\ Append(t, u) # <<>>
      OBVIOUS
    <3> QED BY <2>1, <3>1, <3>2
  <2>3. Token(split, c, delimiter) = [tokens |-> Append(split.tokens, <<c>>), open |-> TRUE]
    BY <1>3 DEF Token
  <2> QED BY <2>2, <2>3 DEF Splits
<1> QED BY <1>1, <1>2, <1>3 DEF Splits

\* str_split takes one character in each round.
LEMMA SplitTrace ==
    ASSUME NEW A, NEW str \in Seq(A), NEW delimiter
    PROVE  \E h \in [0..Len(str) -> Splits(A)] :
              /\ h[0] = NoTokens
              /\ \A k \in 1..Len(str) : h[k] = Token(h[k - 1], str[k], delimiter)
              /\ str_split(str, delimiter) = h[Len(str)].tokens
<1> DEFINE n == Len(str)
           g == [p \in Splits(A) \X (1..n) |-> Token(p[1], str[p[2]], delimiter)]
<1>1. n \in Nat /\ DOMAIN str = 1..n /\ NoTokens \in Splits(A) /\ \A k \in 1..n : str[k] \in A
  BY DEF Splits, NoTokens
<1> HIDE DEF n
<1>2. /\ g \in [Splits(A) \X (1..n) -> Splits(A)]
      /\ \A v \in Splits(A), k \in 1..n : g[<<v, k>>] = Token(v, str[k], delimiter)
  BY <1>1, TokenType
<1> HIDE DEF g
<1>3. PICK F : Folds(F, Splits(A), NoTokens, g, n)
  BY <1>1, <1>2, FoldExists
<1>4. F = [s \in SUBSET DOMAIN str |->
              IF s = {} THEN NoTokens ELSE Token(F[s \ {Max(s)}], str[Max(s)], delimiter)]
  <2>1. ASSUME NEW s \in SUBSET (1..n), s # {}
        PROVE  F[s] = Token(F[s \ {Max(s)}], str[Max(s)], delimiter)
    <3>1. Max(s) \in 1..n /\ F[s \ {Max(s)}] \in Splits(A)
      BY <1>1, <1>3, <2>1, MaxOf DEF Folds
    <3>2. F[s] = g[<<F[s \ {Max(s)}], Max(s)>>]
      BY <1>3, <2>1 DEF Folds
    <3> QED BY <1>2, <3>1, <3>2
  <2> QED BY <1>1, <1>3, <2>1 DEF Folds
<1>5. PICK iter :
        /\ iter = [s \in SUBSET DOMAIN str |->
                      IF s = {} THEN NoTokens ELSE Token(iter[s \ {Max(s)}], str[Max(s)], delimiter)]
        /\ str_split(str, delimiter) = iter[DOMAIN str].tokens
  BY <1>4 DEF str_split, NoTokens, FoldLeft, MapThenFoldSet
<1>6. iter[{}] = NoTokens
  BY <1>5
<1>7. ASSUME NEW s \in SUBSET (1..n), s # {}, iter[s \ {Max(s)}] \in Splits(A)
      PROVE  iter[s] = g[<<iter[s \ {Max(s)}], Max(s)>>]
  <2>1. Max(s) \in 1..n
    BY <1>1, <1>7, MaxOf
  <2>2. iter[s] = Token(iter[s \ {Max(s)}], str[Max(s)], delimiter)
    BY <1>1, <1>5, <1>7
  <2> QED BY <1>2, <1>7, <2>1, <2>2
<1>8. Iterates(iter, Splits(A), NoTokens, g, n)
  BY <1>1, <1>2, <1>6, <1>7 DEF Iterates
<1>9. PICK h : Traces(h, iter, Splits(A), NoTokens, g, n)
  BY <1>8, TraceOf
<1>10. \A k \in 1..n : k - 1 \in 0..n
  BY <1>1
<1>11. \A k \in 1..n : h[k] = Token(h[k - 1], str[k], delimiter)
  BY <1>2, <1>9, <1>10 DEF Traces
<1> QED BY <1>1, <1>5, <1>9, <1>11 DEF n, Traces

LEMMA SplitType ==
    ASSUME NEW A, NEW str \in Seq(A), NEW delimiter
    PROVE  str_split(str, delimiter) \in Seq(Seq(A))
<1>1. PICK h \in [0..Len(str) -> Splits(A)] : str_split(str, delimiter) = h[Len(str)].tokens
  BY SplitTrace
<1>2. Len(str) \in 0..Len(str)
  OBVIOUS
<1>3. h[Len(str)] \in Splits(A)
  BY <1>1, <1>2
<1> QED BY <1>1, <1>3 DEF Splits

-----------------------------------------------------------------------------
(* The array of str_split, which doubles *)

Doubles(f, m) ==
    /\ f \in [0..m -> Nat]
    /\ f[0] = Grown(SplitLen, 0)
    /\ \A k \in 1..m : f[k] = Grown(f[k - 1], k)

LEMMA GrownType == \A len, m \in Nat : Grown(len, m) \in Nat
  BY DEF Grown

LEMMA DoublesExist ==
    ASSUME NEW m \in Nat
    PROVE  \E f : Doubles(f, m)
<1> DEFINE S == {k \in 0..m : \E f : Doubles(f, k)}
<1>1. 0 \in S
  <2> DEFINE f == [k \in 0..0 |-> Grown(SplitLen, 0)]
  <2>1. Grown(SplitLen, 0) \in Nat
    BY GrownType, StringsAssumption
  <2>2. Doubles(f, 0)
    BY <2>1 DEF Doubles
  <2> QED BY <2>2
<1>2. ASSUME NEW k \in 0..(m - 1), k \in S PROVE k + 1 \in S
  <2>1. PICK f : Doubles(f, k)
    BY <1>2
  <2> DEFINE e == [j \in 0..(k + 1) |-> IF j = k + 1 THEN Grown(f[k], k + 1) ELSE f[j]]
  <2>2. f \in [0..k -> Nat] /\ Grown(f[k], k + 1) \in Nat
    <3>1. f \in [0..k -> Nat] /\ f[k] \in Nat /\ k + 1 \in Nat
      BY <2>1 DEF Doubles
    <3> QED BY <3>1, GrownType
  <2>3. e \in [0..(k + 1) -> Nat]
    BY <2>2
  <2>4. e[0] = Grown(SplitLen, 0)
    BY <2>1 DEF Doubles
  <2>5. ASSUME NEW j \in 1..(k + 1) PROVE e[j] = Grown(e[j - 1], j)
    <3>1. CASE j = k + 1
      BY <3>1
    <3>2. CASE j \in 1..k
      <4>1. e[j] = f[j] /\ e[j - 1] = f[j - 1]
        BY <3>2
      <4> QED BY <2>1, <3>2, <4>1 DEF Doubles
    <3> QED BY <3>1, <3>2
  <2> HIDE DEF e
  <2>6. Doubles(e, k + 1)
    BY <2>3, <2>4, <2>5 DEF Doubles
  <2> QED BY <2>6
<1> HIDE DEF S
<1>3. m \in S
  BY <1>1, <1>2, UpTo
<1> QED BY <1>3 DEF S

LEMMA DoublesAgree ==
    ASSUME NEW m \in Nat, NEW l \in 0..m, NEW f, NEW e, Doubles(f, l), Doubles(e, m)
    PROVE  e[l] = f[l]
<1> DEFINE S == {k \in 0..l : e[k] = f[k]}
<1>1. 0 \in S
  BY DEF Doubles
<1>2. ASSUME NEW k \in 0..(l - 1), k \in S PROVE k + 1 \in S
  <2>1. k + 1 \in 1..l /\ k + 1 \in 1..m /\ (k + 1) - 1 = k
    OBVIOUS
  <2>2. e[k + 1] = Grown(e[(k + 1) - 1], k + 1) /\ f[k + 1] = Grown(f[(k + 1) - 1], k + 1)
    BY <2>1 DEF Doubles
  <2> QED BY <1>2, <2>1, <2>2
<1> HIDE DEF S
<1>3. l \in S
  BY <1>1, <1>2, UpTo
<1> QED BY <1>3 DEF S

\* The recursive definition of split_len defines a function.
LEMMA SplitLenDef ==
    split_len = [m \in Nat |->
        IF m = 0 THEN Grown(SplitLen, 0) ELSE Grown(split_len[m - 1], m)]
<1> DEFINE D(m) == CHOOSE f : Doubles(f, m)
           F == [m \in Nat |-> D(m)[m]]
<1>1. ASSUME NEW m \in Nat PROVE Doubles(D(m), m)
  BY DoublesExist
<1> HIDE DEF D
<1>2. ASSUME NEW m \in Nat
      PROVE  F[m] = IF m = 0 THEN Grown(SplitLen, 0) ELSE Grown(F[m - 1], m)
  <2>1. CASE m = 0
    BY <1>1, <2>1 DEF Doubles
  <2>2. CASE m # 0
    <3>1. m - 1 \in Nat /\ m - 1 \in 0..m /\ m \in 1..m
      BY <2>2
    <3>2. D(m)[m] = Grown(D(m)[m - 1], m)
      BY <1>1, <3>1 DEF Doubles
    <3>3. D(m)[m - 1] = D(m - 1)[m - 1]
      BY <1>1, <3>1, DoublesAgree
    <3> QED BY <2>2, <3>1, <3>2, <3>3
  <2> QED BY <2>1, <2>2
<1>3. F = [m \in Nat |-> IF m = 0 THEN Grown(SplitLen, 0) ELSE Grown(F[m - 1], m)]
  <2>1. F = [m \in Nat |-> F[m]]
    OBVIOUS
  <2> HIDE DEF F
  <2> QED BY <1>2, <2>1
<1> HIDE DEF F
<1> QED BY <1>3 DEF split_len

\* When a token is stored the array is longer than the tokens before it, and
\* when the final NULL is stored there is room for it.
LEMMA SplitFits ==
    ASSUME NEW m \in Nat
    PROVE  m < split_len[m] /\ m < split_end(m)
<1> DEFINE S == {k \in 0..m : split_len[k] \in Nat /\ k < split_len[k]}
<1>1. 0 \in S
  <2>1. split_len[0] = Grown(SplitLen, 0)
    BY SplitLenDef
  <2> QED BY <2>1, StringsAssumption DEF Grown
<1>2. ASSUME NEW k \in 0..(m - 1), k \in S PROVE k + 1 \in S
  <2>1. k + 1 \in Nat /\ k + 1 # 0 /\ (k + 1) - 1 = k
    OBVIOUS
  <2>2. split_len[k + 1] = Grown(split_len[k], k + 1)
    BY <2>1, SplitLenDef
  <2>3. split_len[k] \in Nat /\ k < split_len[k]
    BY <1>2
  <2>4. Grown(split_len[k], k + 1) \in Nat /\ k + 1 < Grown(split_len[k], k + 1)
    BY <2>3 DEF Grown
  <2> QED BY <2>2, <2>4
<1> HIDE DEF S
<1>3. \A k \in 0..m : k \in S
  BY <1>1, <1>2, UpTo
<1>4. \A k \in 0..m : split_len[k] \in Nat /\ k < split_len[k]
  BY <1>3 DEF S
<1>5. m < split_end(m)
  <2>1. CASE m = 0
    BY <2>1, StringsAssumption DEF split_end
  <2>2. CASE m # 0
    <3>1. m - 1 \in 0..m
      BY <2>2
    <3>2. split_len[m - 1] \in Nat /\ m - 1 < split_len[m - 1]
      BY <1>4, <3>1
    <3> QED BY <2>2, <3>2 DEF split_end
  <2> QED BY <2>1, <2>2
<1> QED BY <1>4, <1>5

-----------------------------------------------------------------------------
(* What is allocated is enough *)

LEMMA JoinType ==
    ASSUME NEW A, NEW u \in Seq(A), NEW v \in Seq(A), NEW w \in Seq(A)
    PROVE  Join(u, v, w) \in Seq(A) /\ Len(Join(u, v, w)) = Len(u) + Len(v) + Len(w)
  BY DEF Join

LEMMA SeparatedLen ==
    ASSUME NEW A, BLANK \in A
    PROVE  \A x, y \in Seq(A) : Len(Join(x, Separator, y)) = Len(x) + 1 + Len(y)
<1>1. Separator \in Seq(A)
  BY DEF Separator
<1>2. Len(Separator) = 1
  BY DEF Separator
<1> SUFFICES ASSUME NEW x \in Seq(A), NEW y \in Seq(A)
             PROVE  Len(Join(x, Separator, y)) = Len(x) + 1 + Len(y)
  OBVIOUS
<1>3. Len(Join(x, Separator, y)) = Len(x) + Len(Separator) + Len(y)
  BY <1>1, JoinType
<1> QED BY <1>2, <1>3

LEMMA FittingFits ==
    ASSUME NEW size \in Nat \ {0}, NEW len \in Nat
    PROVE  Fitting(size, len) \in Nat \ {0} /\ len < Fitting(size, len)
  BY DEF Fitting

\* array_join writes exactly what it has computed beforehand.
LEMMA ArrayJoinFits ==
    ASSUME NEW A, NEW arr \in Seq(Seq(A)), arr # <<>>, Size(arr) # 0, BLANK \in A
    PROVE  /\ array_join(arr, Separator) \in Seq(A)
           /\ Len(array_join(arr, Separator)) + 1 = array_join_malloc(arr, Separator)
<1> DEFINE m == Len(arr) - 1
<1>1. Separator \in Seq(A) /\ Len(Separator) = 1
  BY DEF Separator
<1>2. PICK t \in [0..Len(Tail(arr)) -> Seq(A)] :
        /\ t[0] = Head(arr)
        /\ \A k \in 1..Len(Tail(arr)) : t[k] = Join(t[k - 1], Separator, Tail(arr)[k])
        /\ array_join(arr, Separator) = t[Len(Tail(arr))]
  BY <1>1, JoinTrace
<1>3. PICK z \in [0..Len(arr) -> Nat] :
        /\ z[0] = 0
        /\ \A k \in 1..Len(arr) : z[k] = z[k - 1] + Len(arr[k])
        /\ Size(arr) = z[Len(arr)]
  BY SizeTrace
<1>4. /\ Len(Tail(arr)) = m /\ m \in Nat /\ Len(arr) = m + 1 /\ Head(arr) = arr[1]
      /\ \A k \in 1..m : Tail(arr)[k] = arr[k + 1]
      /\ \A k \in 1..(m + 1) : arr[k] \in Seq(A) /\ Len(arr[k]) \in Nat
  <2>1. \A k \in 1..Len(arr) : arr[k] \in Seq(A) /\ Len(arr[k]) \in Nat
    <3>1. \A k \in 1..Len(arr) : arr[k] \in Seq(A)
      OBVIOUS
    <3> QED BY <3>1
  <2> QED BY <2>1, TailFacts
<1> HIDE DEF m
<1> DEFINE S == {k \in 0..m : Len(t[k]) = z[k + 1] + k}
<1>5. 0 \in S
  <2>1. 1 \in 1..Len(arr) /\ 1 - 1 = 0
    BY <1>4
  <2>2. z[1] = z[1 - 1] + Len(arr[1])
    BY <1>3, <2>1
  <2> QED BY <1>2, <1>3, <1>4, <2>1, <2>2
<1>6. ASSUME NEW k \in 0..(m - 1), k \in S PROVE k + 1 \in S
  <2>1. /\ k + 1 \in 1..m /\ (k + 1) - 1 = k /\ k + 2 \in 1..(m + 1) /\ (k + 2) - 1 = k + 1
        /\ (k + 1) + 1 = k + 2
    BY <1>4
  <2>2. t[k + 1] = Join(t[k], Separator, arr[k + 2])
    BY <1>2, <1>4, <2>1
  <2>3. z[k + 2] = z[k + 1] + Len(arr[k + 2])
    BY <1>3, <1>4, <2>1
  <2>4. t[k] \in Seq(A) /\ arr[k + 2] \in Seq(A) /\ z[k + 1] \in Nat
    <3>1. k \in 0..m /\ k + 1 \in 0..(m + 1)
      BY <1>4, <2>1
    <3> QED BY <1>2, <1>3, <1>4, <2>1, <3>1
  <2>5. Len(t[k + 1]) = Len(t[k]) + 1 + Len(arr[k + 2])
    BY <2>2, <2>4, SeparatedLen
  <2>6. Len(t[k]) = z[k + 1] + k /\ Len(arr[k + 2]) \in Nat
    BY <1>4, <1>6, <2>1
  <2>7. Len(t[k + 1]) = z[k + 2] + (k + 1)
    <3> DEFINE a == z[k + 1]
               b == Len(arr[k + 2])
    <3>1. a \in Nat /\ b \in Nat
      BY <2>4, <2>6
    <3>2. Len(t[k + 1]) = (a + k) + 1 + b /\ z[k + 2] = a + b
      BY <2>3, <2>5, <2>6
    <3> HIDE DEF a, b
    <3>3. (a + k) + 1 + b = (a + b) + (k + 1)
      BY <3>1
    <3> QED BY <3>2, <3>3
  <2> QED BY <2>1, <2>7
<1> HIDE DEF S
<1>7. m \in S
  <2>1. m \in Nat
    BY <1>4
  <2> QED BY <1>5, <1>6, <2>1, UpToEnd
<1>8. Len(t[m]) = z[m + 1] + m /\ z[m + 1] \in Nat
  BY <1>3, <1>4, <1>7 DEF S
<1>9. array_join_malloc(arr, Separator) = z[m + 1] + 1 * m + 1
  <2>1. Size(arr) = z[m + 1] /\ Len(arr) - 1 = m
    BY <1>3, <1>4
  <2> QED BY <1>1, <2>1 DEF array_join_malloc
<1>10. array_join(arr, Separator) = t[m] /\ t[m] \in Seq(A) /\ m \in Nat
  <2>1. Len(Tail(arr)) = m /\ m \in Nat
    BY <1>4
  <2>2. m \in 0..m
    BY <2>1
  <2> QED BY <1>2, <2>1, <2>2
<1> QED BY <1>8, <1>9, <1>10

\* str_join enlarges its buffer in time, and makes the text of array_join.
LEMMA StrJoinFits ==
    ASSUME NEW A, NEW arr \in Seq(Seq(A)), arr # <<>>, BLANK \in A
    PROVE  LET joined == str_join(Separator, arr)
           IN  /\ joined.fits /\ Len(joined.text) < joined.size
               /\ Size(arr) # 0 => joined.text = array_join(arr, Separator)
<1> DEFINE m == Len(Tail(arr))
<1>1. Separator \in Seq(A) /\ Len(Separator) \in Nat
  BY DEF Separator
<1>2. PICK b \in [0..m -> Buffers(A)] :
        /\ b[0] = Started(arr)
        /\ \A k \in 1..m : b[k] = Joined(b[k - 1], Separator, Tail(arr)[k])
        /\ str_join(Separator, arr) = b[m]
  BY <1>1, StrJoinTrace
<1>3. /\ m \in Nat /\ Head(arr) \in Seq(A) /\ Len(Head(arr)) \in Nat
      /\ \A k \in 1..m : Tail(arr)[k] \in Seq(A)
  BY TailFacts
<1> HIDE DEF m
<1> DEFINE S == {k \in 0..m : b[k].fits /\ Len(b[k].text) < b[k].size}
<1>4. 0 \in S
  <2>1. Len(Head(arr)) < Fitting(PathSize, Len(Head(arr)))
    BY <1>3, FittingFits, StringsAssumption
  <2> QED BY <1>2, <1>3, <2>1 DEF Started
<1>5. ASSUME NEW k \in 0..(m - 1), k \in S PROVE k + 1 \in S
  <2>1. k + 1 \in 1..m /\ (k + 1) - 1 = k
    BY <1>3
  <2> DEFINE buf == b[k]
             str == Tail(arr)[k + 1]
             first == Fitting(buf.size, Len(buf.text) + Len(Separator))
             text == Join(buf.text, Separator, str)
             second == Fitting(first, Len(text))
  <2>2. b[k + 1] = Joined(buf, Separator, str)
    BY <1>2, <2>1
  <2>3. /\ buf.text \in Seq(A) /\ buf.size \in Nat /\ buf.fits /\ Len(buf.text) < buf.size
        /\ str \in Seq(A) /\ Len(buf.text) \in Nat
    <3>1. buf \in Buffers(A) /\ str \in Seq(A)
      <4>1. k \in 0..m
        BY <1>3
      <4> QED BY <1>2, <1>3, <2>1, <4>1
    <3>2. buf.fits /\ Len(buf.text) < buf.size
      BY <1>5
    <3> HIDE DEF buf, str
    <3> QED BY <3>1, <3>2 DEF Buffers
  <2> HIDE DEF buf, str
  <2>4. first \in Nat \ {0} /\ Len(buf.text) + Len(Separator) < first
    <3>1. buf.size \in Nat \ {0} /\ Len(buf.text) + Len(Separator) \in Nat
      BY <1>1, <2>3
    <3> QED BY <3>1, FittingFits
  <2>5. text \in Seq(A) /\ Len(text) \in Nat
    BY <1>1, <2>3 DEF Join
  <2> HIDE DEF first, text
  <2>6. Len(text) < second
    BY <2>4, <2>5, FittingFits
  <2>7. Joined(buf, Separator, str) =
          [text |-> text, size |-> second,
           fits |-> buf.fits /\ Len(buf.text) + Len(Separator) < first /\ Len(text) < second]
    BY DEF Joined, first, text
  <2> HIDE DEF second
  <2>8. b[k + 1].text = text /\ b[k + 1].size = second /\ b[k + 1].fits
    <3> DEFINE fits == buf.fits /\ Len(buf.text) + Len(Separator) < first /\ Len(text) < second
    <3>1. fits
      BY <2>3, <2>4, <2>6
    <3>2. b[k + 1] = [text |-> text, size |-> second, fits |-> fits]
      BY <2>2, <2>7
    <3> HIDE DEF fits
    <3> QED BY <3>1, <3>2
  <2> QED BY <2>1, <2>6, <2>8
<1> HIDE DEF S
<1>6. m \in S
  <2>1. m \in Nat
    BY <1>3
  <2> QED BY <1>4, <1>5, <2>1, UpToEnd
<1>7. b[m].fits /\ Len(b[m].text) < b[m].size
  BY <1>6 DEF S
<1>8. ASSUME Size(arr) # 0 PROVE b[m].text = array_join(arr, Separator)
  <2>1. PICK t \in [0..m -> Seq(A)] :
          /\ t[0] = Head(arr)
          /\ \A k \in 1..m : t[k] = Join(t[k - 1], Separator, Tail(arr)[k])
          /\ array_join(arr, Separator) = t[m]
    BY <1>1, <1>8, JoinTrace DEF m
  <2> DEFINE E == {k \in 0..m : b[k].text = t[k]}
  <2>2. 0 \in E
    BY <1>2, <1>3, <2>1 DEF Started
  <2>3. ASSUME NEW k \in 0..(m - 1), k \in E PROVE k + 1 \in E
    <3>1. k + 1 \in 1..m /\ (k + 1) - 1 = k
      BY <1>3
    <3>2. b[k + 1] = Joined(b[k], Separator, Tail(arr)[k + 1])
      BY <1>2, <3>1
    <3>3. t[k + 1] = Join(t[k], Separator, Tail(arr)[k + 1])
      BY <2>1, <3>1
    <3>4. b[k + 1].text = Join(b[k].text, Separator, Tail(arr)[k + 1])
      <4>1. \A x, y : Joined(x, Separator, y).text = Join(x.text, Separator, y)
        BY DEF Joined
      <4> QED BY <3>2, <4>1
    <3>5. b[k + 1].text = t[k + 1]
      BY <2>3, <3>3, <3>4
    <3> QED BY <3>1, <3>5
  <2> HIDE DEF E
  <2>4. m \in E
    <3>1. m \in Nat
      BY <1>3
    <3> QED BY <2>2, <2>3, <3>1, UpToEnd
  <2> QED BY <2>1, <2>4 DEF E
<1> QED BY <1>2, <1>7, <1>8

LEMMA BoundedType ==
    ASSUME NEW E, NEW m \in Nat
    PROVE  BoundedSeq(E, m) \subseteq Seq(E)
<1> SUFFICES ASSUME NEW s \in BoundedSeq(E, m) PROVE s \in Seq(E)
  OBVIOUS
<1>1. PICK l \in 0..m : s \in [1..l -> E]
  BY DEF BoundedSeq, SeqOf
<1> QED BY <1>1

LEMMA StringsType == Strings \subseteq Seq(Chars) /\ Argvs \subseteq Seq(Seq(Chars))
<1>1. Strings \subseteq Seq(Chars)
  BY BoundedType, StringsAssumption DEF Strings
<1>2. Argvs \subseteq Seq(Strings)
  BY BoundedType, StringsAssumption DEF Argvs
<1>3. Seq(Strings) \subseteq Seq(Seq(Chars))
  BY <1>1
<1> QED BY <1>1, <1>2, <1>3

LEMMA SpanType ==
    ASSUME NEW A, NEW str \in Seq(A), NEW sep
    PROVE  strspn(str, sep) \in 0..Len(str)
<1> DEFINE T == {k \in 1..Len(str) : \A j \in 1..k : str[j] = sep}
<1>1. Len(str) \in Nat
  OBVIOUS
<1>2. IsFiniteSet(1..Len(str)) /\ Cardinality(1..Len(str)) = Len(str)
  BY <1>1, FS_Interval
<1>3. T \subseteq 1..Len(str)
  OBVIOUS
<1> HIDE DEF T
<1>4. IsFiniteSet(T) /\ Cardinality(T) <= Len(str)
  BY <1>2, <1>3, FS_Subset
<1>5. Cardinality(T) \in Nat
  BY <1>4, FS_CardinalityType
<1> QED BY <1>1, <1>4, <1>5 DEF strspn, T

LEMMA PathType ==
    ASSUME NEW A, PATH_SEPERATOR \in A, NEW dir \in Seq(A), NEW str \in Seq(A)
    PROVE  /\ WithoutLast(dir) \in Seq(A) /\ WithoutFirst(str) \in Seq(A)
           /\ path_join(dir, str) \in Seq(A)
<1>1. WithoutLast(dir) \in Seq(A)
  <2>1. CASE EndsWithSeparator(dir)
    <3>1. dir # <<>> /\ WithoutLast(dir) = SubSeq(dir, 1, Len(dir) - 1)
      BY <2>1 DEF EndsWithSeparator, WithoutLast, Front
    <3> QED BY <3>1
  <2>2. CASE ~EndsWithSeparator(dir)
    BY <2>2 DEF WithoutLast
  <2> QED BY <2>1, <2>2
<1>2. WithoutFirst(str) \in Seq(A)
  <2>1. strspn(str, PATH_SEPERATOR) \in 0..Len(str)
    BY SpanType
  <2>2. \A m \in 0..Len(str) : SubSeq(str, m + 1, Len(str)) \in Seq(A)
    OBVIOUS
  <2> QED BY <2>1, <2>2 DEF WithoutFirst
<1>3. <<PATH_SEPERATOR>> \in Seq(A)
  OBVIOUS
<1>4. path_join(dir, str) \in Seq(A)
  BY <1>1, <1>2, <1>3, JoinType DEF path_join
<1> QED BY <1>1, <1>2, <1>4

\* path_join tests its buffer before the copy of the directory, of the
\* separator and of the name.
LEMMA PathJoinFits ==
    ASSUME NEW A, PATH_SEPERATOR \in A, NEW dir \in Seq(A), NEW str \in Seq(A)
    PROVE  LET sizes == path_join_sizes(dir, str)
           IN  /\ Len(dir) + 1 <= sizes[1]
               /\ Len(WithoutLast(dir)) + 2 <= sizes[2]
               /\ Len(path_join(dir, str)) + 1 <= sizes[3]
<1> DEFINE a == Len(dir)
           b == Len(WithoutLast(dir)) + 1
           c == Len(path_join(dir, str))
           first == Fitting(PathSize, a)
           second == Fitting(first, b)
           third == Fitting(second, c)
<1>1. a \in Nat /\ b \in Nat /\ c \in Nat
  BY PathType
<1>2. path_join_sizes(dir, str) = <<first, second, third>>
  BY DEF path_join_sizes
<1>3. b + 1 = Len(WithoutLast(dir)) + 2
  BY PathType
<1> HIDE DEF a, b, c
<1>4. first \in Nat \ {0} /\ a < first
  BY <1>1, FittingFits, StringsAssumption
<1> HIDE DEF first
<1>5. second \in Nat \ {0} /\ b < second
  BY <1>1, <1>4, FittingFits
<1> HIDE DEF second
<1>6. third \in Nat \ {0} /\ c < third
  BY <1>1, <1>5, FittingFits
<1> HIDE DEF third
<1>7. a + 1 <= first /\ b + 1 <= second /\ c + 1 <= third
  BY <1>1, <1>4, <1>5, <1>6
<1> QED BY <1>2, <1>3, <1>7 DEF a, c

-----------------------------------------------------------------------------
(* The steps *)

\* The command that is recorded is the one that was given, the one executed
\* the one recorded, and a volume is where path_join puts it.
Derived ==
    /\ \/ argv = <<>> /\ command = NULL
       \/ argv \in Argvs \ {<<>>} /\ command = array_join(argv, Separator)
    /\ \/ cmd = <<>>
       \/ command # NULL /\ cmd = str_split(command, BLANK)
    /\ \/ target = NULL
       \/ path \in Strings /\ dest \in Strings /\ target = path_join(path, dest)

LEMMA DerivedAlways == StringsSpec => []Derived
<1>1. StringsInit => Derived
  BY DEF StringsInit, Derived
<1>2. Derived /\ [StringsNext]_stringVars => Derived'
  <2> SUFFICES ASSUME Derived, [StringsNext]_stringVars PROVE Derived'
    OBVIOUS
  <2>1. CASE RunRecords
    <3>1. argv = <<>> /\ command = NULL /\ cmd = <<>>
      BY <2>1 DEF RunRecords, Untouched, Derived, Argvs
    <3> QED BY <2>1, <3>1 DEF RunRecords, Derived, volumeVars
  <2>2. CASE StartSplits
    BY <2>2 DEF StartSplits, Derived, volumeVars
  <2>3. CASE VolumePlaced
    BY <2>3 DEF VolumePlaced, Derived, commandVars
  <2>4. CASE UNCHANGED stringVars
    BY <2>4 DEF Derived, stringVars, commandVars, volumeVars
  <2> QED BY <2>1, <2>2, <2>3, <2>4 DEF StringsNext
<1> QED BY <1>1, <1>2, PTL DEF StringsSpec

\* What is recorded and executed.
LEMMA CommandFacts ==
    ASSUME Derived, command # NULL
    PROVE  /\ argv \in Seq(Seq(Chars)) /\ argv # <<>> /\ Size(argv) # 0
           /\ command = array_join(argv, Separator) /\ command \in Seq(Chars)
<1>1. argv \in Argvs \ {<<>>} /\ command = array_join(argv, Separator)
  BY DEF Derived
<1>2. argv \in Seq(Seq(Chars))
  BY <1>1, StringsType
<1>3. Size(argv) # 0
  BY <1>1 DEF array_join
<1>4. BLANK \in Chars
  BY StringsAssumption
<1> QED BY <1>1, <1>2, <1>3, <1>4, ArrayJoinFits

\* Neither a recorded command, nor the words it is split into, nor the place
\* of a volume is ever written beyond what was allocated for it, by the helper
\* that computes the size first and by those that enlarge as they go; for
\* strings and commands of any length.
THEOREM StringBuffersFit == StringsSpec => []BuffersFit
<1>1. Derived => BuffersFit
  <2> SUFFICES ASSUME Derived PROVE BuffersFit
    OBVIOUS
  <2>c. BLANK \in Chars /\ PATH_SEPERATOR \in Chars
    BY StringsAssumption
  <2>1. command # NULL => Len(command) + 1 <= array_join_malloc(argv, Separator)
    <3> SUFFICES ASSUME command # NULL PROVE Len(command) + 1 <= array_join_malloc(argv, Separator)
      OBVIOUS
    <3>1. Len(command) + 1 = array_join_malloc(argv, Separator)
      BY <2>c, CommandFacts, ArrayJoinFits
    <3>2. Len(command) + 1 \in Nat
      BY CommandFacts
    <3> QED BY <3>1, <3>2
  <2>2. \A k \in 0..Len(cmd) : k < split_end(k) /\ (k < Len(cmd) => k < split_len[k])
    <3>1. Len(cmd) \in Nat
      <4>1. CASE cmd = <<>>
        BY <4>1
      <4>2. CASE cmd # <<>>
        <5>1. command # NULL /\ cmd = str_split(command, BLANK)
          BY <4>2 DEF Derived
        <5>2. cmd \in Seq(Seq(Chars))
          BY <5>1, CommandFacts, SplitType
        <5> QED BY <5>2
      <4> QED BY <4>1, <4>2
    <3> QED BY <3>1, SplitFits
  <2>3. target # NULL =>
          LET sizes == path_join_sizes(path, dest)
          IN  /\ Len(path) + 1 <= sizes[1]
              /\ Len(WithoutLast(path)) + 2 <= sizes[2]
              /\ Len(target) + 1 <= sizes[3]
    <3> SUFFICES ASSUME target # NULL
                 PROVE  LET sizes == path_join_sizes(path, dest)
                        IN  /\ Len(path) + 1 <= sizes[1]
                            /\ Len(WithoutLast(path)) + 2 <= sizes[2]
                            /\ Len(target) + 1 <= sizes[3]
      OBVIOUS
    <3>1. path \in Seq(Chars) /\ dest \in Seq(Chars) /\ target = path_join(path, dest)
      BY StringsType DEF Derived
    <3> QED BY <2>c, <3>1, PathJoinFits
  <2>4. argv # <<>> =>
          LET joined == str_join(Separator, argv)
          IN  /\ joined.fits /\ Len(joined.text) < joined.size
              /\ command # NULL => joined.text = command
    <3> SUFFICES ASSUME argv # <<>>
                 PROVE  LET joined == str_join(Separator, argv)
                        IN  /\ joined.fits /\ Len(joined.text) < joined.size
                            /\ command # NULL => joined.text = command
      OBVIOUS
    <3>1. argv \in Seq(Seq(Chars))
      BY StringsType DEF Derived
    <3> QED BY <2>c, <3>1, StrJoinFits, CommandFacts
  <2> QED BY <2>1, <2>2, <2>3, <2>4 DEF BuffersFit
<1> QED BY <1>1, DerivedAlways, PTL

-----------------------------------------------------------------------------
(* Splitting what was joined *)

\* x is what str_split has found after each character of str.
SplitRun(x, A, str, delimiter) ==
    /\ x \in [0..Len(str) -> Splits(A)]
    /\ x[0] = NoTokens
    /\ \A k \in 1..Len(str) : x[k] = Token(x[k - 1], str[k], delimiter)
    /\ str_split(str, delimiter) = x[Len(str)].tokens

LEMMA SplitRuns ==
    ASSUME NEW A, NEW str, str \in Seq(A), NEW delimiter
    PROVE  \E x : SplitRun(x, A, str, delimiter)
  BY SplitTrace DEF SplitRun

\* What was found before, followed by what is found now.
Behind(t, split) == [tokens |-> t \o split.tokens, open |-> split.open]

LEMMA SubSeqFacts ==
    ASSUME NEW E, NEW u \in Seq(E), NEW i \in Nat, NEW j \in Nat, 1 <= i, i <= j + 1, j <= Len(u)
    PROVE  /\ SubSeq(u, i, j) \in Seq(E)
           /\ Len(SubSeq(u, i, j)) = (j - i) + 1
           /\ \A k \in 1..((j - i) + 1) : SubSeq(u, i, j)[k] = u[(i + k) - 1]
<1>1. \A k \in i..j : u[k] \in E
  OBVIOUS
<1>2. i \in Int /\ j \in Int
  OBVIOUS
<1>3. /\ SubSeq(u, i, j) \in Seq(E)
      /\ Len(SubSeq(u, i, j)) = IF i <= j THEN j - i + 1 ELSE 0
      /\ \A k \in 1..(j - i + 1) : SubSeq(u, i, j)[k] = u[i + k - 1]
  BY <1>1, <1>2, SubSeqProperties
<1>4. Len(SubSeq(u, i, j)) = (j - i) + 1
  BY <1>3
<1> QED BY <1>3, <1>4

LEMMA FrontFacts ==
    ASSUME NEW E, NEW u \in Seq(E), u # <<>>
    PROVE  /\ Front(u) \in Seq(E) /\ Len(Front(u)) = Len(u) - 1
           /\ \A k \in 1..(Len(u) - 1) : Front(u)[k] = u[k]
<1>1. Len(u) \in Nat \ {0}
  OBVIOUS
<1> DEFINE l == Len(u) - 1
<1>2. l \in Nat /\ 1 <= l + 1 /\ l <= Len(u)
  BY <1>1
<1>3. Front(u) = SubSeq(u, 1, l)
  BY DEF Front
<1> HIDE DEF l
<1>4. Front(u) \in Seq(E) /\ Len(Front(u)) = (l - 1) + 1 /\ \A k \in 1..((l - 1) + 1) : Front(u)[k] = u[(1 + k) - 1]
  BY <1>2, <1>3, SubSeqFacts
<1>5. (l - 1) + 1 = l /\ \A k \in 1..l : (1 + k) - 1 = k
  BY <1>2
<1> QED BY <1>4, <1>5 DEF l

LEMMA FrontLast ==
    ASSUME NEW E, NEW t \in Seq(E), NEW w \in Seq(E), w # <<>>
    PROVE  Front(t \o w) = t \o Front(w) /\ Last(t \o w) = Last(w)
<1>1. /\ t \o w \in Seq(E) /\ Len(t \o w) = Len(t) + Len(w) /\ Len(t) \in Nat /\ Len(w) \in Nat \ {0}
      /\ \A k \in 1..(Len(t) + Len(w)) : (t \o w)[k] = IF k <= Len(t) THEN t[k] ELSE w[k - Len(t)]
  BY ConcatProperties, EmptySeq
<1>2. Last(t \o w) = Last(w)
  <2>1. Len(t) + Len(w) \in 1..(Len(t) + Len(w)) /\ ~(Len(t) + Len(w) <= Len(t))
        /\ (Len(t) + Len(w)) - Len(t) = Len(w)
    BY <1>1
  <2> QED BY <1>1, <2>1 DEF Last
<1> DEFINE f == Front(w)
           g == Front(t \o w)
           l == Len(t) + Len(w) - 1
<1>3. f \in Seq(E) /\ Len(f) = Len(w) - 1 /\ \A k \in 1..(Len(w) - 1) : f[k] = w[k]
  BY FrontFacts
<1>4. g \in Seq(E) /\ Len(g) = l /\ \A k \in 1..l : g[k] = (t \o w)[k]
  <2>1. t \o w # <<>> /\ Len(t \o w) - 1 = l
    BY <1>1
  <2> QED BY <1>1, <2>1, FrontFacts
<1> HIDE DEF f, g
<1>5. /\ t \o f \in Seq(E) /\ Len(t \o f) = l
      /\ \A k \in 1..l : (t \o f)[k] = IF k <= Len(t) THEN t[k] ELSE f[k - Len(t)]
  <2>1. Len(t) + Len(f) = l
    BY <1>1, <1>3
  <2>2. /\ t \o f \in Seq(E) /\ Len(t \o f) = Len(t) + Len(f)
        /\ \A k \in 1..(Len(t) + Len(f)) : (t \o f)[k] = IF k <= Len(t) THEN t[k] ELSE f[k - Len(t)]
    BY <1>3, ConcatProperties
  <2> HIDE DEF l
  <2> QED BY <2>1, <2>2
<1>6. \A k \in 1..l : g[k] = (t \o f)[k]
  <2> SUFFICES ASSUME NEW k \in 1..l PROVE g[k] = (t \o f)[k]
    OBVIOUS
  <2>1. k \in 1..(Len(t) + Len(w)) /\ l \in Nat
    BY <1>1
  <2>2. CASE k <= Len(t)
    BY <1>1, <1>4, <1>5, <2>1, <2>2
  <2>3. CASE ~(k <= Len(t))
    <3>1. k - Len(t) \in 1..(Len(w) - 1)
      BY <1>1, <2>1, <2>3
    <3> QED BY <1>1, <1>3, <1>4, <1>5, <2>1, <2>3, <3>1
  <2> QED BY <2>2, <2>3
<1>7. g = t \o f
  <2> DEFINE u == t \o f
  <2>1. u \in Seq(E) /\ Len(u) = Len(g) /\ \A k \in 1..Len(g) : g[k] = u[k]
    BY <1>4, <1>5, <1>6
  <2> HIDE DEF u
  <2>2. g = u
    BY <1>4, <2>1, SeqEqual
  <2> QED BY <2>2 DEF u
<1> QED BY <1>2, <1>7 DEF f, g

\* strtok works on the last token only.
LEMMA TokenBehind ==
    ASSUME NEW A, NEW t \in Seq(Seq(A)), NEW split \in Splits(A), NEW c \in A, NEW delimiter
    PROVE  Token(Behind(t, split), c, delimiter) = Behind(t, Token(split, c, delimiter))
<1> DEFINE w == split.tokens
<1>0. w \in Seq(Seq(A)) /\ split = [tokens |-> w, open |-> split.open]
      /\ (split.open => w # <<>>) /\ split.open \in BOOLEAN
  BY DEF Splits
<1>1. CASE c = delimiter
  <2>1. Token(split, c, delimiter) = [tokens |-> w, open |-> FALSE]
    BY <1>0, <1>1 DEF Token
  <2>2. Token(Behind(t, split), c, delimiter) = [tokens |-> t \o w, open |-> FALSE]
    BY <1>1 DEF Token, Behind
  <2> QED BY <2>1, <2>2 DEF Behind
<1>2. CASE c # delimiter /\ split.open
  <2> DEFINE e == Append(Last(w), c)
  <2>1. w # <<>>
    BY <1>0, <1>2
  <2>2. Token(split, c, delimiter) = [tokens |-> Front(w) \o <<e>>, open |-> split.open]
    <3>1. Token(split, c, delimiter) = [split EXCEPT !.tokens = Front(w) \o <<e>>]
      BY <1>2 DEF Token
    <3> HIDE DEF w, e
    <3> QED BY <1>0, <3>1
  <2>3. Token(Behind(t, split), c, delimiter) =
          [tokens |-> Front(t \o w) \o <<Append(Last(t \o w), c)>>, open |-> split.open]
    <3> DEFINE u == t \o w
               b == [tokens |-> u, open |-> split.open]
    <3>1. Behind(t, split) = b
      BY DEF Behind
    <3>2. b.open /\ b.tokens = u
      BY <1>2
    <3>3. Token(b, c, delimiter) = [b EXCEPT !.tokens = Front(u) \o <<Append(Last(u), c)>>]
      <4> HIDE DEF b
      <4> QED BY <1>2, <3>2 DEF Token
    <3> HIDE DEF u
    <3>4. Token(b, c, delimiter) = [tokens |-> Front(u) \o <<Append(Last(u), c)>>, open |-> split.open]
      BY <3>3
    <3> QED BY <3>1, <3>4 DEF u
  <2>4. Front(t \o w) = t \o Front(w) /\ Last(t \o w) = Last(w)
    BY <1>0, <2>1, FrontLast
  <2>5. Front(w) \in Seq(Seq(A)) /\ <<e>> \in Seq(Seq(A))
    <3>1. Len(w) \in Nat \ {0}
      BY <1>0, <2>1, EmptySeq
    <3>2. Last(w) \in Seq(A)
      BY <1>0, <3>1 DEF Last
    <3>3. e \in Seq(A)
      BY <3>2, AppendProperties
    <3>4. Front(w) \in Seq(Seq(A))
      BY <1>0, <3>1 DEF Front
    <3> HIDE DEF e
    <3> QED BY <3>3, <3>4
  <2> HIDE DEF w, e
  <2>6. (t \o Front(w)) \o <<e>> = t \o (Front(w) \o <<e>>)
    BY <2>5, ConcatAssociative
  <2>7. Token(Behind(t, split), c, delimiter) = [tokens |-> t \o (Front(w) \o <<e>>), open |-> split.open]
    BY <2>3, <2>4, <2>6 DEF e
  <2> QED BY <2>2, <2>7 DEF Behind
<1>3. CASE c # delimiter /\ ~split.open
  <2> DEFINE u == t \o w
  <2>1. Token(split, c, delimiter) = [tokens |-> Append(w, <<c>>), open |-> TRUE]
    BY <1>3 DEF Token
  <2>2. Token(Behind(t, split), c, delimiter) = [tokens |-> Append(u, <<c>>), open |-> TRUE]
    BY <1>3 DEF Token, Behind
  <2>3. <<c>> \in Seq(A) /\ <<(<<c>>)>> \in Seq(Seq(A)) /\ u \in Seq(Seq(A))
    BY <1>0, ConcatProperties
  <2>4. Append(u, <<c>>) = u \o <<(<<c>>)>> /\ Append(w, <<c>>) = w \o <<(<<c>>)>>
    BY <1>0, <2>3, AppendIsConcat
  <2>5. u \o <<(<<c>>)>> = t \o (w \o <<(<<c>>)>>)
    BY <1>0, <2>3, ConcatAssociative
  <2>6. Append(u, <<c>>) = t \o Append(w, <<c>>)
    BY <2>4, <2>5
  <2>7. Behind(t, Token(split, c, delimiter)) = [tokens |-> t \o Append(w, <<c>>), open |-> TRUE]
    <3> DEFINE v == Append(w, <<c>>)
    <3> HIDE DEF w, v
    <3>1. Token(split, c, delimiter) = [tokens |-> v, open |-> TRUE]
      BY <2>1 DEF v
    <3>2. Behind(t, Token(split, c, delimiter)) = [tokens |-> t \o v, open |-> TRUE]
      BY <3>1 DEF Behind
    <3> QED BY <3>2 DEF v
  <2> HIDE DEF u, w
  <2> QED BY <2>2, <2>6, <2>7
<1> QED BY <1>0, <1>1, <1>2, <1>3

LEMMA BehindFacts ==
    ASSUME NEW A, NEW split \in Splits(A), NEW delimiter
    PROVE  /\ Behind(<<>>, split) = split
           /\ Behind(split.tokens, NoTokens) = Token(split, delimiter, delimiter)
<1> DEFINE w == split.tokens
<1>1. w \in Seq(Seq(A)) /\ split = [tokens |-> w, open |-> split.open] /\ split.open \in BOOLEAN
  BY DEF Splits
<1>2. <<>> \o w = w /\ w \o <<>> = w
  BY <1>1, ConcatEmptySeq
<1>3. Behind(<<>>, split) = [tokens |-> w, open |-> split.open]
  BY <1>2 DEF Behind
<1>4. Behind(w, NoTokens) = [tokens |-> w, open |-> FALSE]
  BY <1>2 DEF Behind, NoTokens
<1>5. Token(split, delimiter, delimiter) = [tokens |-> w, open |-> FALSE]
  BY <1>1 DEF Token
<1> HIDE DEF w
<1> QED BY <1>1, <1>3, <1>4, <1>5 DEF w

\* After o characters s goes on like b.
GoesOn(s, o, b) == o + Len(b) <= Len(s) /\ \A k \in 1..Len(b) : s[o + k] = b[k]

\* x and z split s and b, and x has found the tokens t where s goes on like b.
Continues(A, s, b, delimiter, x, z, o, t) ==
    /\ s \in Seq(A) /\ SplitRun(x, A, s, delimiter)
    /\ b \in Seq(A) /\ SplitRun(z, A, b, delimiter)
    /\ o \in Nat /\ GoesOn(s, o, b)
    /\ t \in Seq(Seq(A)) /\ x[o] = Behind(t, NoTokens)

\* Where a string goes on like b, after the tokens t, the tokens of b follow.
LEMMA RunContinues ==
    ASSUME NEW A, NEW s, NEW b, NEW delimiter, NEW x, NEW z, NEW o, NEW t,
           Continues(A, s, b, delimiter, x, z, o, t)
    PROVE  x[o + Len(b)] = Behind(t, z[Len(b)])
<1>0. /\ s \in Seq(A) /\ b \in Seq(A) /\ SplitRun(x, A, s, delimiter) /\ SplitRun(z, A, b, delimiter)
      /\ o \in Nat /\ GoesOn(s, o, b) /\ t \in Seq(Seq(A)) /\ x[o] = Behind(t, NoTokens)
  BY DEF Continues
<1> USE <1>0
<1> DEFINE n == Len(b)
           S == {k \in 0..n : x[o + k] = Behind(t, z[k])}
<1>1. n \in Nat /\ Len(s) \in Nat /\ o + n <= Len(s)
  BY DEF GoesOn
<1>2. 0 \in S
  <2>1. z[0] = NoTokens /\ o + 0 = o
    BY DEF SplitRun
  <2> QED BY <1>1, <2>1
<1>3. ASSUME NEW k \in 0..(n - 1), k \in S PROVE k + 1 \in S
  <2>1. /\ k + 1 \in 1..n /\ (k + 1) - 1 = k /\ o + k + 1 \in 1..Len(s) /\ (o + k + 1) - 1 = o + k
        /\ o + (k + 1) = o + k + 1 /\ k \in 0..n
    BY <1>1
  <2>2. z[k + 1] = Token(z[k], b[k + 1], delimiter) /\ z[k] \in Splits(A)
    BY <2>1 DEF SplitRun
  <2>3. x[o + k + 1] = Token(x[o + k], s[o + k + 1], delimiter)
    BY <2>1 DEF SplitRun
  <2>4. s[o + k + 1] = b[k + 1] /\ b[k + 1] \in A
    BY <2>1 DEF GoesOn
  <2>5. x[o + k] = Behind(t, z[k])
    BY <1>3
  <2>6. x[o + k + 1] = Behind(t, z[k + 1])
    BY <2>2, <2>3, <2>4, <2>5, TokenBehind
  <2> QED BY <2>1, <2>6
<1> HIDE DEF S
<1>4. n \in S
  BY <1>1, <1>2, <1>3, UpToEnd
<1> QED BY <1>4 DEF S

\* A string that only begins differently, with as many delimiters as it likes,
\* has the same tokens.
LEMMA SplitLeading ==
    ASSUME NEW A, NEW s \in Seq(A), NEW delimiter, NEW m \in 0..Len(s),
           \A k \in 1..m : s[k] = delimiter
    PROVE  str_split(SubSeq(s, m + 1, Len(s)), delimiter) = str_split(s, delimiter)
<1> DEFINE b == SubSeq(s, m + 1, Len(s))
<1>0. Len(s) \in Nat /\ m \in Nat /\ m + 1 \in Nat
  OBVIOUS
<1>1. b \in Seq(A) /\ Len(b) = Len(s) - m /\ \A k \in 1..(Len(s) - m) : b[k] = s[m + k]
  <2>1. /\ b \in Seq(A) /\ Len(b) = (Len(s) - (m + 1)) + 1
        /\ \A k \in 1..((Len(s) - (m + 1)) + 1) : b[k] = s[((m + 1) + k) - 1]
    BY <1>0, SubSeqFacts
  <2>2. (Len(s) - (m + 1)) + 1 = Len(s) - m /\ \A k \in 1..(Len(s) - m) : ((m + 1) + k) - 1 = m + k
    BY <1>0
  <2> HIDE DEF b
  <2> QED BY <2>1, <2>2
<1> HIDE DEF b
<1>2. PICK x : SplitRun(x, A, s, delimiter)
  BY SplitRuns
<1>3. PICK z : SplitRun(z, A, b, delimiter)
  BY <1>1, SplitRuns
<1>4. x[m] = NoTokens
  <2> DEFINE S == {k \in 0..m : x[k] = NoTokens}
  <2>1. 0 \in S
    BY <1>2 DEF SplitRun
  <2>2. ASSUME NEW k \in 0..(m - 1), k \in S PROVE k + 1 \in S
    <3>1. k + 1 \in 1..Len(s) /\ k + 1 \in 1..m /\ (k + 1) - 1 = k
      BY <1>0
    <3>2. x[k + 1] = Token(NoTokens, delimiter, delimiter)
      BY <1>2, <2>2, <3>1 DEF SplitRun
    <3>3. Token(NoTokens, delimiter, delimiter) = NoTokens
      BY DEF Token, NoTokens
    <3> QED BY <3>1, <3>2, <3>3
  <2> HIDE DEF S
  <2>3. m \in S
    BY <1>0, <2>1, <2>2, UpToEnd
  <2> QED BY <2>3 DEF S
<1>5. NoTokens = Behind(<<>>, NoTokens) /\ <<>> \in Seq(Seq(A))
  BY DEF Behind, NoTokens
<1>6. GoesOn(s, m, b) /\ m + Len(b) = Len(s) /\ b \in Seq(A)
  BY <1>0, <1>1 DEF GoesOn
<1>7. x[m] = Behind(<<>>, NoTokens)
  BY <1>4, <1>5
<1>8. x[m + Len(b)] = Behind(<<>>, z[Len(b)])
  <2>1. Continues(A, s, b, delimiter, x, z, m, <<>>)
    BY <1>0, <1>2, <1>3, <1>5, <1>6, <1>7 DEF Continues
  <2> QED BY <2>1, RunContinues
<1>9. Len(b) \in 0..Len(b)
  BY <1>1
<1>10. x[Len(s)] = z[Len(b)]
  BY <1>3, <1>6, <1>8, <1>9, BehindFacts DEF SplitRun
<1> QED BY <1>2, <1>3, <1>10 DEF SplitRun, b

LEMMA SplitNothing ==
    ASSUME NEW delimiter
    PROVE  str_split(<<>>, delimiter) = <<>>
<1>0. <<>> \in Seq({}) /\ Len(<<>>) = 0
  OBVIOUS
<1>1. PICK x : SplitRun(x, {}, <<>>, delimiter)
  BY <1>0, SplitRuns
<1> QED BY <1>1 DEF SplitRun, NoTokens

\* s is u, the character c and v.
Between(s, A, u, c, v) ==
    /\ s \in Seq(A) /\ Len(s) = Len(u) + 1 + Len(v)
    /\ \A k \in 1..Len(u) : s[k] = u[k]
    /\ s[Len(u) + 1] = c
    /\ \A k \in 1..Len(v) : s[Len(u) + 1 + k] = v[k]

LEMMA JoinFacts ==
    ASSUME NEW A, NEW u \in Seq(A), NEW v \in Seq(A), NEW c \in A
    PROVE  Between(Join(u, <<c>>, v), A, u, c, v)
<1> DEFINE w == u \o <<c>>
           n == Len(u)
<1>1. n \in Nat /\ Len(v) \in Nat
  OBVIOUS
<1>2. <<c>> \in Seq(A) /\ Len(<<c>>) = 1 /\ <<c>>[1] = c
  OBVIOUS
<1>3. /\ w \in Seq(A) /\ Len(w) = n + Len(<<c>>)
      /\ \A k \in 1..(n + Len(<<c>>)) : w[k] = IF k <= n THEN u[k] ELSE <<c>>[k - n]
  BY <1>2, ConcatProperties
<1> HIDE DEF w
<1>4. Len(w) = n + 1 /\ (\A k \in 1..n : w[k] = u[k]) /\ w[n + 1] = c
  <2>1. n + 1 \in 1..(n + 1) /\ ~(n + 1 <= n) /\ (n + 1) - n = 1 /\ \A k \in 1..n : k \in 1..(n + 1) /\ k <= n
    BY <1>1
  <2> HIDE DEF n
  <2> QED BY <1>2, <1>3, <2>1
<1>5. /\ w \o v \in Seq(A) /\ Len(w \o v) = Len(w) + Len(v)
      /\ \A k \in 1..(Len(w) + Len(v)) : (w \o v)[k] = IF k <= Len(w) THEN w[k] ELSE v[k - Len(w)]
  <2>1. w \in Seq(A)
    BY <1>3
  <2> QED BY <2>1, ConcatProperties
<1>6. Join(u, <<c>>, v) = w \o v
  BY DEF Join, w
<1> DEFINE s == Join(u, <<c>>, v)
<1> HIDE DEF s, n
<1>7. s \in Seq(A) /\ Len(s) = n + 1 + Len(v)
  BY <1>4, <1>5, <1>6 DEF s
<1>8. \A k \in 1..(n + 1 + Len(v)) : s[k] = IF k <= n + 1 THEN w[k] ELSE v[k - (n + 1)]
  BY <1>4, <1>5, <1>6 DEF s
<1>9. ASSUME NEW k \in 1..n PROVE s[k] = u[k]
  <2>1. k \in 1..(n + 1 + Len(v)) /\ k <= n + 1
    BY <1>1
  <2> QED BY <1>4, <1>8, <2>1
<1>10. s[n + 1] = c
  <2>1. n + 1 \in 1..(n + 1 + Len(v)) /\ n + 1 <= n + 1
    BY <1>1
  <2> QED BY <1>4, <1>8, <2>1
<1>11. ASSUME NEW k \in 1..Len(v) PROVE s[n + 1 + k] = v[k]
  <2>1. n + 1 + k \in 1..(n + 1 + Len(v)) /\ ~(n + 1 + k <= n + 1) /\ (n + 1 + k) - (n + 1) = k
    BY <1>1
  <2> QED BY <1>8, <2>1
<1> QED BY <1>7, <1>9, <1>10, <1>11 DEF s, n, Between

\* Two texts with a delimiter between them have the tokens of the one and then
\* those of the other.
LEMMA SplitBetween ==
    ASSUME NEW A, NEW u \in Seq(A), NEW v \in Seq(A), NEW delimiter,
           NEW s, Between(s, A, u, delimiter, v)
    PROVE  str_split(s, delimiter) = str_split(u, delimiter) \o str_split(v, delimiter)
<1> DEFINE n == Len(u)
           m == Len(v)
<1>1. /\ s \in Seq(A) /\ Len(s) = n + 1 + m /\ n \in Nat /\ m \in Nat
      /\ \A k \in 1..n : s[k] = u[k]
      /\ s[n + 1] = delimiter
      /\ \A k \in 1..m : s[n + 1 + k] = v[k]
  <2>1. n \in Nat /\ m \in Nat
    OBVIOUS
  <2> QED BY <2>1 DEF Between
<1>2. PICK x : SplitRun(x, A, s, delimiter)
  BY <1>1, SplitRuns
<1>3. PICK y : SplitRun(y, A, u, delimiter)
  BY SplitRuns
<1>4. PICK z : SplitRun(z, A, v, delimiter)
  BY SplitRuns
<1>5. y[n] \in Splits(A) /\ z[m] \in Splits(A)
  <2>1. n \in 0..n /\ m \in 0..m
    BY <1>1
  <2> QED BY <1>3, <1>4, <2>1 DEF SplitRun
<1>6. x[n] = y[n]
  <2>1. NoTokens = Behind(<<>>, NoTokens) /\ <<>> \in Seq(Seq(A))
    BY DEF Behind, NoTokens
  <2>2. GoesOn(s, 0, u) /\ 0 \in Nat /\ 0 + n = n /\ s \in Seq(A)
    <3>1. 0 + n <= Len(s) /\ 0 + n = n
      BY <1>1
    <3>2. \A k \in 1..n : 0 + k = k
      BY <1>1
    <3> QED BY <1>1, <3>1, <3>2 DEF GoesOn
  <2>3. x[0] = Behind(<<>>, NoTokens)
    BY <1>2, <2>1 DEF SplitRun
  <2>4. x[0 + n] = Behind(<<>>, y[n])
    <3>1. Continues(A, s, u, delimiter, x, y, 0, <<>>)
      BY <1>2, <1>3, <2>1, <2>2, <2>3 DEF Continues
    <3> QED BY <3>1, RunContinues
  <2> QED BY <1>5, <2>2, <2>4, BehindFacts
<1> DEFINE t == y[n].tokens
<1>7. t \in Seq(Seq(A))
  BY <1>5 DEF Splits
<1>8. x[n + 1] = Behind(t, NoTokens)
  <2>1. n + 1 \in 1..Len(s) /\ (n + 1) - 1 = n
    BY <1>1
  <2>2. x[n + 1] = Token(y[n], delimiter, delimiter)
    BY <1>1, <1>2, <1>6, <2>1 DEF SplitRun
  <2> QED BY <1>5, <2>2, BehindFacts
<1>9. x[n + 1 + m] = Behind(t, z[m])
  <2>1. n + 1 \in Nat /\ GoesOn(s, n + 1, v) /\ s \in Seq(A)
    BY <1>1 DEF GoesOn
  <2> HIDE DEF t
  <2>2. Continues(A, s, v, delimiter, x, z, n + 1, t)
    BY <1>2, <1>4, <1>7, <1>8, <2>1 DEF Continues
  <2> QED BY <2>2, RunContinues
<1> HIDE DEF t
<1>10. x[Len(s)].tokens = t \o z[m].tokens
  BY <1>1, <1>9 DEF Behind
<1> QED BY <1>2, <1>3, <1>4, <1>10 DEF SplitRun, t

-----------------------------------------------------------------------------
(* The names of a path *)

\* strspn is where the characters sep end.
LEMMA SpanFacts ==
    ASSUME NEW A, NEW str \in Seq(A), NEW sep, NEW m, m = strspn(str, sep)
    PROVE  /\ m \in 0..Len(str) /\ \A k \in 1..m : str[k] = sep
           /\ m < Len(str) => str[m + 1] # sep
<1> DEFINE n == Len(str)
           T == {k \in 1..n : \A j \in 1..k : str[j] = sep}
           U == {k \in 1..n : str[k] # sep}
<1>0. n \in Nat /\ m = Cardinality(T)
  BY DEF strspn
<1>1. ASSUME NEW l \in 0..n, \A k \in 1..l : str[k] = sep, l < n => str[l + 1] # sep
      PROVE  m = l
  <2>1. T = 1..l
    <3>1. ASSUME NEW k \in T PROVE k \in 1..l
      <4>1. CASE k <= l
        BY <4>1
      <4>2. CASE k > l
        <5>1. l < n /\ l + 1 \in 1..k
          BY <4>2
        <5> QED BY <1>1, <5>1
      <4> QED BY <4>1, <4>2
    <3>2. ASSUME NEW k \in 1..l PROVE k \in T
      BY <1>1
    <3> HIDE DEF T
    <3> QED BY <3>1, <3>2
  <2>2. Cardinality(1..l) = l
    BY FS_Interval
  <2> HIDE DEF T
  <2> QED BY <1>0, <2>1, <2>2
<1>2. CASE U = {}
  <2>1. n \in 0..n /\ (\A k \in 1..n : str[k] = sep) /\ ~(n < n)
    BY <1>0, <1>2
  <2>2. m = n
    BY <1>1, <2>1
  <2> QED BY <2>1, <2>2
<1>3. CASE U # {}
  <2>1. PICK x \in U : \A y \in U : x <= y
    <3>1. U \in SUBSET Nat
      BY <1>0
    <3> HIDE DEF U
    <3> QED BY <1>3, <3>1, Least
  <2>2. x \in 1..n /\ str[x] # sep
    BY <2>1
  <2> DEFINE l == x - 1
  <2>3. l \in 0..n /\ l + 1 = x /\ l < n
    BY <1>0, <2>2
  <2>4. ASSUME NEW k \in 1..l PROVE str[k] = sep
    BY <1>0, <2>1, <2>2
  <2> HIDE DEF l
  <2>5. m = l
    BY <1>1, <2>2, <2>3, <2>4
  <2> QED BY <2>2, <2>3, <2>4, <2>5
<1> QED BY <1>2, <1>3

LEMMA WithoutFirstFacts ==
    ASSUME NEW A, NEW str \in Seq(A)
    PROVE  /\ WithoutFirst(str) \in Seq(A)
           /\ WithoutFirst(str) # <<>> => WithoutFirst(str)[1] # PATH_SEPERATOR
           /\ str_split(WithoutFirst(str), PATH_SEPERATOR) = str_split(str, PATH_SEPERATOR)
<1> DEFINE m == strspn(str, PATH_SEPERATOR)
<1>1. m \in 0..Len(str) /\ (\A k \in 1..m : str[k] = PATH_SEPERATOR) /\ (m < Len(str) => str[m + 1] # PATH_SEPERATOR)
  BY SpanFacts
<1>2. WithoutFirst(str) = SubSeq(str, m + 1, Len(str))
  BY DEF WithoutFirst
<1> HIDE DEF m
<1>3. str_split(WithoutFirst(str), PATH_SEPERATOR) = str_split(str, PATH_SEPERATOR)
  BY <1>1, <1>2, SplitLeading
<1> DEFINE b == SubSeq(str, m + 1, Len(str))
<1>4. /\ b \in Seq(A) /\ Len(b) = (Len(str) - (m + 1)) + 1
      /\ \A k \in 1..((Len(str) - (m + 1)) + 1) : b[k] = str[((m + 1) + k) - 1]
  <2>1. Len(str) \in Nat /\ m + 1 \in Nat /\ 1 <= m + 1 /\ m + 1 <= Len(str) + 1 /\ Len(str) <= Len(str)
    BY <1>1
  <2> QED BY <2>1, SubSeqFacts
<1> HIDE DEF b
<1>5. ASSUME b # <<>> PROVE b[1] # PATH_SEPERATOR
  <2>1. Len(b) \in Nat /\ Len(b) # 0
    BY <1>4, <1>5, EmptySeq
  <2>2. m < Len(str) /\ 1 \in 1..((Len(str) - (m + 1)) + 1) /\ ((m + 1) + 1) - 1 = m + 1
    BY <1>1, <1>4, <2>1
  <2> QED BY <1>1, <1>4, <2>2
<1> QED BY <1>2, <1>3, <1>4, <1>5 DEF b

LEMMA WithoutLastFacts ==
    ASSUME NEW A, NEW str \in Seq(A)
    PROVE  /\ WithoutLast(str) \in Seq(A)
           /\ str_split(WithoutLast(str), PATH_SEPERATOR) = str_split(str, PATH_SEPERATOR)
           /\ \/ WithoutLast(str) = str /\ (str # <<>> => str[Len(str)] # PATH_SEPERATOR)
              \/ Between(str, A, WithoutLast(str), PATH_SEPERATOR, <<>>)
<1>1. CASE EndsWithSeparator(str)
  <2> DEFINE f == Front(str)
  <2>1. str # <<>> /\ str[Len(str)] = PATH_SEPERATOR /\ WithoutLast(str) = f
    BY <1>1 DEF EndsWithSeparator, Last, WithoutLast
  <2>2. f \in Seq(A) /\ Len(f) = Len(str) - 1 /\ \A k \in 1..(Len(str) - 1) : f[k] = str[k]
    BY <2>1, FrontFacts
  <2>3. Len(str) \in Nat /\ <<>> \in Seq(A) /\ Len(<<>>) = 0
    OBVIOUS
  <2> HIDE DEF f
  <2>4. Len(f) + 1 = Len(str) /\ Len(str) = Len(f) + 1 + 0
    BY <2>2, <2>3
  <2>5. Between(str, A, f, PATH_SEPERATOR, <<>>)
    BY <2>1, <2>2, <2>3, <2>4 DEF Between
  <2>6. str_split(str, PATH_SEPERATOR) = str_split(f, PATH_SEPERATOR) \o str_split(<<>>, PATH_SEPERATOR)
    <3> DEFINE e == <<>>
    <3>1. f \in Seq(A) /\ e \in Seq(A) /\ Between(str, A, f, PATH_SEPERATOR, e)
      BY <2>2, <2>3, <2>5
    <3> HIDE DEF e
    <3>2. str_split(str, PATH_SEPERATOR) = str_split(f, PATH_SEPERATOR) \o str_split(e, PATH_SEPERATOR)
      BY <3>1, SplitBetween
    <3> QED BY <3>2 DEF e
  <2>7. str_split(f, PATH_SEPERATOR) \in Seq(Seq(A)) /\ str_split(<<>>, PATH_SEPERATOR) = <<>>
    BY <2>2, SplitType, SplitNothing
  <2>8. str_split(str, PATH_SEPERATOR) = str_split(f, PATH_SEPERATOR)
    BY <2>6, <2>7, ConcatEmptySeq
  <2> QED BY <2>1, <2>2, <2>5, <2>8
<1>2. CASE ~EndsWithSeparator(str)
  BY <1>2 DEF EndsWithSeparator, Last, WithoutLast
<1> QED BY <1>1, <1>2

\* Two separators next to each other.
Twice(s) == \E k \in 1..(Len(s) - 1) : s[k] = PATH_SEPERATOR /\ s[k + 1] = PATH_SEPERATOR

LEMMA PathJoinTwice ==
    ASSUME NEW A, PATH_SEPERATOR \in A, NEW dir \in Seq(A), NEW str \in Seq(A),
           Twice(path_join(dir, str))
    PROVE  Twice(dir) \/ Twice(WithoutFirst(str))
<1> DEFINE u == WithoutLast(dir)
           v == WithoutFirst(str)
           s == path_join(dir, str)
           n == Len(u)
<1>1. u \in Seq(A) /\ v \in Seq(A) /\ (v # <<>> => v[1] # PATH_SEPERATOR)
  BY WithoutFirstFacts, WithoutLastFacts
<1>2. Between(s, A, u, PATH_SEPERATOR, v)
  BY <1>1, JoinFacts DEF path_join
<1>3. \/ u = dir /\ (dir # <<>> => dir[Len(dir)] # PATH_SEPERATOR)
      \/ Between(dir, A, u, PATH_SEPERATOR, <<>>)
  BY WithoutLastFacts
<1>4. PICK k \in 1..(Len(s) - 1) : s[k] = PATH_SEPERATOR /\ s[k + 1] = PATH_SEPERATOR
  BY DEF Twice
<1> HIDE DEF u, v, s
<1>5. n \in Nat /\ Len(v) \in Nat /\ Len(s) = n + 1 + Len(v) /\ k \in Nat /\ k >= 1
  BY <1>1, <1>2 DEF Between
<1>6. CASE k + 1 <= n
  <2>1. k \in 1..n /\ k + 1 \in 1..n
    BY <1>5, <1>6
  <2>2. u[k] = PATH_SEPERATOR /\ u[k + 1] = PATH_SEPERATOR
    BY <1>2, <1>4, <2>1 DEF Between
  <2>3. dir[k] = PATH_SEPERATOR /\ dir[k + 1] = PATH_SEPERATOR
    BY <1>3, <2>1, <2>2 DEF Between
  <2>4. Len(dir) >= n /\ Len(dir) \in Nat
    <3>1. Len(<<>>) = 0
      OBVIOUS
    <3> QED BY <1>3, <1>5, <3>1 DEF Between
  <2>5. k \in 1..(Len(dir) - 1)
    BY <1>5, <1>6, <2>4
  <2> QED BY <2>3, <2>5 DEF Twice
<1>7. CASE k = n
  <2>1. n \in 1..n
    BY <1>5, <1>7
  <2>2. u[n] = PATH_SEPERATOR /\ u # <<>>
    BY <1>2, <1>4, <1>7, <2>1 DEF Between
  <2>3. Between(dir, A, u, PATH_SEPERATOR, <<>>)
    BY <1>3, <2>2
  <2>4. dir[n] = PATH_SEPERATOR /\ dir[n + 1] = PATH_SEPERATOR
    BY <2>1, <2>2, <2>3 DEF Between
  <2>5. Len(dir) = n + 1
    <3>1. Len(<<>>) = 0
      OBVIOUS
    <3> QED BY <1>5, <2>3, <3>1 DEF Between
  <2>6. n \in 1..(Len(dir) - 1)
    BY <1>5, <2>1, <2>5
  <2> QED BY <2>4, <2>6 DEF Twice
<1>8. CASE k = n + 1
  <2>1. 1 \in 1..Len(v) /\ k + 1 = n + 1 + 1
    BY <1>5, <1>8
  <2>2. v[1] = PATH_SEPERATOR
    BY <1>2, <1>4, <2>1 DEF Between
  <2>3. v # <<>>
    BY <2>1
  <2> QED BY <1>1, <2>2, <2>3
<1>9. CASE k > n + 1
  <2> DEFINE j == k - (n + 1)
  <2>1. j \in 1..(Len(v) - 1) /\ j \in 1..Len(v) /\ j + 1 \in 1..Len(v) /\ n + 1 + j = k /\ n + 1 + (j + 1) = k + 1
    BY <1>5, <1>9
  <2> HIDE DEF j
  <2>2. v[j] = PATH_SEPERATOR /\ v[j + 1] = PATH_SEPERATOR
    BY <1>2, <1>4, <2>1 DEF Between
  <2>3. Twice(v)
    BY <2>1, <2>2 DEF Twice
  <2> QED BY <2>3 DEF v
<1>10. k + 1 <= n \/ k = n \/ k = n + 1 \/ k > n + 1
  BY <1>5
<1> QED BY <1>6, <1>7, <1>8, <1>9, <1>10

\* However the directory ends and the destination of a volume begins, the
\* volume lies below the directory name by name, and path_join brings no empty
\* name in between.
THEOREM VolumePathNames == StringsSpec => []PathNames
<1>1. Derived => PathNames
  <2> SUFFICES ASSUME Derived, target # NULL
               PROVE  /\ str_split(target, PATH_SEPERATOR)
                           = str_split(path, PATH_SEPERATOR) \o str_split(dest, PATH_SEPERATOR)
                      /\ Twice(target) => Twice(path) \/ Twice(WithoutFirst(dest))
    BY DEF PathNames, Twice
  <2>1. path \in Seq(Chars) /\ dest \in Seq(Chars) /\ target = path_join(path, dest)
    BY StringsType DEF Derived
  <2>2. PATH_SEPERATOR \in Chars
    BY StringsAssumption
  <2> DEFINE u == WithoutLast(path)
             v == WithoutFirst(dest)
  <2>3. u \in Seq(Chars) /\ v \in Seq(Chars)
    BY <2>1, WithoutFirstFacts, WithoutLastFacts
  <2>4. Between(target, Chars, u, PATH_SEPERATOR, v)
    BY <2>1, <2>2, <2>3, JoinFacts DEF path_join
  <2>5. /\ str_split(u, PATH_SEPERATOR) = str_split(path, PATH_SEPERATOR)
        /\ str_split(v, PATH_SEPERATOR) = str_split(dest, PATH_SEPERATOR)
    BY <2>1, WithoutFirstFacts, WithoutLastFacts
  <2>6. Twice(target) => Twice(path) \/ Twice(WithoutFirst(dest))
    BY <2>1, <2>2, PathJoinTwice
  <2> HIDE DEF u, v
  <2>7. str_split(target, PATH_SEPERATOR) = str_split(u, PATH_SEPERATOR) \o str_split(v, PATH_SEPERATOR)
    BY <2>3, <2>4, SplitBetween
  <2> QED BY <2>5, <2>6, <2>7
<1> QED BY <1>1, DerivedAlways, PTL

-----------------------------------------------------------------------------
(* The words of a command *)

\* Between the words of str, and around them.
Gap(str, d, k) == k \notin DOMAIN str \/ str[k] = d

WordStarts(str, d) == {k \in DOMAIN str : ~Gap(str, d, k) /\ Gap(str, d, k - 1)}

Before(str, d, p) == {k \in WordStarts(str, d) : k <= p}

\* The word is what str has from k on, and the t-th to begin.
WordAt(word, t, k, str, d) ==
    /\ k \in WordStarts(str, d)
    /\ Cardinality(Before(str, d, k)) = t
    /\ \A i \in 1..Len(word) : word[i] = str[(k + i) - 1] /\ ~Gap(str, d, (k + i) - 1)

\* After p characters, a word ends in a gap unless it is still open.
EndsAt(end, open, p, str, d) ==
    IF open THEN end = p + 1 ELSE end <= p /\ Gap(str, d, end)

\* The tokens are the words that begin in the first p characters.
AreWords(tokens, open, p, str, d) ==
    /\ Len(tokens) = Cardinality(Before(str, d, p))
    /\ open <=> ~Gap(str, d, p)
    /\ \A t \in 1..Len(tokens) : \E k \in Nat :
          /\ WordAt(tokens[t], t, k, str, d)
          /\ EndsAt(k + Len(tokens[t]), open /\ t = Len(tokens), p, str, d)

LEMMA CountStarts ==
    ASSUME NEW A, NEW str \in Seq(A), NEW d, NEW p \in 0..Len(str)
    PROVE  /\ Cardinality(Before(str, d, p)) \in Nat
           /\ p = 0 => Cardinality(Before(str, d, p)) = 0
           /\ p < Len(str) =>
                 Cardinality(Before(str, d, p + 1)) =
                    IF p + 1 \in WordStarts(str, d) THEN Cardinality(Before(str, d, p)) + 1
                    ELSE Cardinality(Before(str, d, p))
<1> DEFINE W == WordStarts(str, d)
           B == Before(str, d, p)
<1>0. Len(str) \in Nat /\ W \subseteq 1..Len(str)
  BY DEF WordStarts
<1> HIDE DEF W
<1>1. B \subseteq 1..p
  BY <1>0 DEF Before, W
<1>2. IsFiniteSet(B) /\ Cardinality(B) \in Nat
  <2>1. IsFiniteSet(1..p)
    BY FS_Interval
  <2> QED BY <1>1, <2>1, FS_Subset, FS_CardinalityType
<1>3. p = 0 => Cardinality(B) = 0
  <2>1. p = 0 => B = {}
    BY <1>1
  <2> QED BY <2>1, FS_EmptySet
<1>4. ASSUME p < Len(str), p + 1 \in W PROVE Cardinality(Before(str, d, p + 1)) = Cardinality(B) + 1
  <2>1. Before(str, d, p + 1) = B \cup {p + 1}
    BY <1>0, <1>4 DEF Before, W
  <2>2. p + 1 \notin B
    BY <1>1
  <2> QED BY <1>2, <2>1, <2>2, FS_AddElement
<1>5. ASSUME p < Len(str), p + 1 \notin W PROVE Cardinality(Before(str, d, p + 1)) = Cardinality(B)
  <2>1. Before(str, d, p + 1) = B
    BY <1>0, <1>5 DEF Before, W
  <2> QED BY <2>1
<1> QED BY <1>2, <1>3, <1>4, <1>5 DEF W

LEMMA LastReplaced ==
    ASSUME NEW E, NEW w \in Seq(E), w # <<>>, NEW e \in E
    PROVE  /\ Front(w) \o <<e>> \in Seq(E) /\ Len(Front(w) \o <<e>>) = Len(w)
           /\ \A t \in 1..Len(w) : (Front(w) \o <<e>>)[t] = IF t = Len(w) THEN e ELSE w[t]
<1> DEFINE f == Front(w)
           v == f \o <<e>>
           n == Len(w)
<1>1. f \in Seq(E) /\ Len(f) = n - 1 /\ \A k \in 1..(n - 1) : f[k] = w[k]
  BY FrontFacts
<1>2. n \in Nat \ {0}
  OBVIOUS
<1> HIDE DEF f
<1>3. /\ v \in Seq(E) /\ Len(v) = Len(f) + 1 /\ v[Len(f) + 1] = e
      /\ \A k \in 1..Len(f) : v[k] = f[k]
  <2>1. f \in Seq(E)
    BY <1>1
  <2>2. v = Append(f, e)
    BY <2>1
  <2> HIDE DEF v
  <2> QED BY <2>1, <2>2, AppendProperties
<1> HIDE DEF v, n
<1>4. Len(v) = n /\ Len(f) + 1 = n /\ Len(f) \in Nat
  BY <1>1, <1>2, <1>3
<1>5. ASSUME NEW t \in 1..n PROVE v[t] = IF t = n THEN e ELSE w[t]
  <2>1. t # n => t \in 1..(n - 1) /\ t \in 1..Len(f)
    BY <1>2, <1>4
  <2> QED BY <1>1, <1>3, <1>4, <2>1
<1> QED BY <1>3, <1>4, <1>5 DEF f, v, n

\* A character between words closes the word before it.
LEMMA WordsClose ==
    ASSUME NEW A, NEW str \in Seq(A), NEW d, NEW p \in Nat, p < Len(str), str[p + 1] = d,
           NEW w \in Seq(Seq(A)), NEW o \in BOOLEAN, AreWords(w, o, p, str, d)
    PROVE  AreWords(w, FALSE, p + 1, str, d)
<1>0. Len(str) \in Nat /\ p \in 0..Len(str) /\ p + 1 \in 1..Len(str) /\ DOMAIN str = 1..Len(str)
  OBVIOUS
<1>1. Gap(str, d, p + 1) /\ p + 1 \notin WordStarts(str, d)
  BY DEF Gap, WordStarts
<1>2. Len(w) = Cardinality(Before(str, d, p + 1))
  BY <1>0, <1>1, CountStarts DEF AreWords
<1>3. ASSUME NEW t \in 1..Len(w)
      PROVE  \E k \in Nat : /\ WordAt(w[t], t, k, str, d)
                            /\ EndsAt(k + Len(w[t]), FALSE /\ t = Len(w), p + 1, str, d)
  <2>1. PICK k \in Nat : /\ WordAt(w[t], t, k, str, d)
                         /\ EndsAt(k + Len(w[t]), o /\ t = Len(w), p, str, d)
    BY DEF AreWords
  <2> DEFINE end == k + Len(w[t])
  <2>2. end \in Nat
    <3>1. w[t] \in Seq(A)
      OBVIOUS
    <3> QED BY <3>1
  <2> HIDE DEF end
  <2>3. end = p + 1 \/ (end <= p /\ Gap(str, d, end))
    BY <2>1 DEF EndsAt, end
  <2>4. end <= p + 1 /\ Gap(str, d, end)
    BY <1>1, <2>2, <2>3
  <2>5. EndsAt(end, FALSE, p + 1, str, d)
    BY <2>4 DEF EndsAt
  <2>6. EndsAt(k + Len(w[t]), FALSE /\ t = Len(w), p + 1, str, d)
    BY <2>5 DEF end
  <2> QED BY <2>1, <2>6
<1> QED BY <1>1, <1>2, <1>3 DEF AreWords

\* A character of a word makes the open one longer.
LEMMA WordsGrow ==
    ASSUME NEW A, NEW str \in Seq(A), NEW d, NEW p \in Nat, p < Len(str), str[p + 1] # d,
           NEW w \in Seq(Seq(A)), w # <<>>, AreWords(w, TRUE, p, str, d),
           NEW v \in Seq(Seq(A)), Len(v) = Len(w),
           \A t \in 1..Len(w) : v[t] = IF t = Len(w) THEN Append(w[t], str[p + 1]) ELSE w[t]
    PROVE  AreWords(v, TRUE, p + 1, str, d)
<1>0. Len(str) \in Nat /\ p \in 0..Len(str) /\ p + 1 \in 1..Len(str) /\ DOMAIN str = 1..Len(str)
  OBVIOUS
<1>1. ~Gap(str, d, p + 1) /\ ~Gap(str, d, p) /\ (p + 1) - 1 = p
  BY <1>0 DEF Gap, AreWords
<1>2. p + 1 \notin WordStarts(str, d)
  BY <1>1 DEF WordStarts
<1>3. Len(v) = Cardinality(Before(str, d, p + 1))
  BY <1>0, <1>2, CountStarts DEF AreWords
<1>4. ASSUME NEW t \in 1..Len(w)
      PROVE  \E k \in Nat : /\ WordAt(v[t], t, k, str, d)
                            /\ EndsAt(k + Len(v[t]), TRUE /\ t = Len(v), p + 1, str, d)
  <2>1. PICK k \in Nat : /\ WordAt(w[t], t, k, str, d)
                         /\ EndsAt(k + Len(w[t]), TRUE /\ t = Len(w), p, str, d)
    BY DEF AreWords
  <2>2. w[t] \in Seq(A) /\ Len(w[t]) \in Nat /\ str[p + 1] \in A
    <3>1. w[t] \in Seq(A) /\ str[p + 1] \in A
      BY <1>0
    <3> QED BY <3>1
  <2>3. CASE t # Len(w)
    <3>1. v[t] = w[t]
      BY <2>3
    <3>2. k + Len(w[t]) <= p /\ Gap(str, d, k + Len(w[t]))
      BY <2>1, <2>3 DEF EndsAt
    <3>3. k + Len(w[t]) <= p + 1
      BY <2>2, <3>2
    <3>4. EndsAt(k + Len(v[t]), FALSE, p + 1, str, d)
      BY <3>1, <3>2, <3>3 DEF EndsAt
    <3>5. (TRUE /\ t = Len(v)) = FALSE
      BY <2>3
    <3> QED BY <2>1, <3>1, <3>4, <3>5
  <2>4. CASE t = Len(w)
    <3> DEFINE word == w[t]
               more == v[t]
               l == Len(word)
    <3>1. more = Append(word, str[p + 1])
      BY <2>4
    <3> HIDE DEF word, more
    <3>2. /\ Len(more) = l + 1 /\ more[l + 1] = str[p + 1] /\ \A i \in 1..l : more[i] = word[i]
      <4>1. word \in Seq(A)
        BY <2>2 DEF word
      <4> QED BY <2>2, <3>1, <4>1, AppendProperties
    <3>3. k + l = p + 1 /\ l \in Nat
      BY <2>1, <2>2, <2>4 DEF EndsAt, word
    <3> HIDE DEF l
    <3>4. \A i \in 1..(l + 1) : more[i] = str[(k + i) - 1] /\ ~Gap(str, d, (k + i) - 1)
      <4> SUFFICES ASSUME NEW i \in 1..(l + 1)
                   PROVE  more[i] = str[(k + i) - 1] /\ ~Gap(str, d, (k + i) - 1)
        OBVIOUS
      <4>1. CASE i \in 1..l
        BY <2>1, <3>2, <4>1 DEF WordAt, word, l
      <4>2. CASE i = l + 1
        <5>1. (k + i) - 1 = p + 1
          BY <3>3, <4>2
        <5> QED BY <1>1, <3>2, <4>2, <5>1
      <4> QED BY <3>3, <4>1, <4>2
    <3>5. WordAt(more, t, k, str, d)
      BY <2>1, <3>2, <3>4 DEF WordAt, word
    <3>6. k + Len(more) = (p + 1) + 1
      BY <3>2, <3>3
    <3>7. EndsAt(k + Len(more), TRUE, p + 1, str, d)
      BY <3>6 DEF EndsAt
    <3>8. (TRUE /\ t = Len(v)) = TRUE
      BY <2>4
    <3> QED BY <3>5, <3>7, <3>8 DEF more
  <2> QED BY <2>3, <2>4
<1> QED BY <1>1, <1>3, <1>4 DEF AreWords

\* A character of a word after a gap begins the next one.
LEMMA WordsBegin ==
    ASSUME NEW A, NEW str \in Seq(A), NEW d, NEW p \in Nat, p < Len(str), str[p + 1] # d,
           NEW w \in Seq(Seq(A)), AreWords(w, FALSE, p, str, d),
           NEW v \in Seq(Seq(A)), Len(v) = Len(w) + 1, \A t \in 1..Len(w) : v[t] = w[t],
           v[Len(w) + 1] = <<str[p + 1]>>
    PROVE  AreWords(v, TRUE, p + 1, str, d)
<1> DEFINE n == Len(w)
<1>0. Len(str) \in Nat /\ p \in 0..Len(str) /\ p + 1 \in 1..Len(str) /\ DOMAIN str = 1..Len(str) /\ n \in Nat
  OBVIOUS
<1>1. ~Gap(str, d, p + 1) /\ Gap(str, d, p) /\ (p + 1) - 1 = p
  BY <1>0 DEF Gap, AreWords
<1>2. p + 1 \in WordStarts(str, d)
  BY <1>0, <1>1 DEF WordStarts
<1>3. n + 1 = Cardinality(Before(str, d, p + 1))
  BY <1>0, <1>2, CountStarts DEF AreWords
<1>4. ASSUME NEW t \in 1..(n + 1)
      PROVE  \E k \in Nat : /\ WordAt(v[t], t, k, str, d)
                            /\ EndsAt(k + Len(v[t]), TRUE /\ t = Len(v), p + 1, str, d)
  <2>1. CASE t \in 1..n
    <3>1. PICK k \in Nat : /\ WordAt(w[t], t, k, str, d)
                           /\ EndsAt(k + Len(w[t]), FALSE /\ t = Len(w), p, str, d)
      BY <2>1 DEF AreWords
    <3>2. w[t] \in Seq(A)
      BY <2>1
    <3>3. Len(w[t]) \in Nat /\ v[t] = w[t]
      BY <2>1, <3>2
    <3>4. k + Len(w[t]) <= p /\ Gap(str, d, k + Len(w[t]))
      BY <3>1 DEF EndsAt
    <3>5. k + Len(w[t]) <= p + 1
      BY <3>3, <3>4
    <3>6. EndsAt(k + Len(v[t]), FALSE, p + 1, str, d)
      BY <3>3, <3>4, <3>5 DEF EndsAt
    <3>7. (TRUE /\ t = Len(v)) = FALSE
      BY <1>0, <2>1
    <3> QED BY <3>1, <3>3, <3>6, <3>7
  <2>2. CASE t = n + 1
    <3> DEFINE word == <<str[p + 1]>>
    <3>1. Len(word) = 1 /\ word[1] = str[p + 1] /\ v[t] = word
      BY <2>2
    <3> HIDE DEF word
    <3>2. \A i \in 1..1 : i = 1 /\ ((p + 1) + i) - 1 = p + 1
      BY <1>0
    <3>3. WordAt(word, t, p + 1, str, d)
      BY <1>1, <1>2, <1>3, <2>2, <3>1, <3>2 DEF WordAt
    <3>4. EndsAt((p + 1) + Len(word), TRUE, p + 1, str, d)
      BY <3>1 DEF EndsAt
    <3>5. (TRUE /\ t = Len(v)) = TRUE
      BY <2>2
    <3>6. p + 1 \in Nat
      OBVIOUS
    <3> QED BY <3>1, <3>3, <3>4, <3>5, <3>6
  <2> QED BY <1>0, <2>1, <2>2
<1> QED BY <1>0, <1>1, <1>3, <1>4 DEF AreWords

LEMMA TokenWords ==
    ASSUME NEW A, NEW str \in Seq(A), NEW d, NEW p \in Nat, p < Len(str),
           NEW split \in Splits(A), AreWords(split.tokens, split.open, p, str, d),
           NEW next, next = Token(split, str[p + 1], d)
    PROVE  AreWords(next.tokens, next.open, p + 1, str, d)
<1> DEFINE w == split.tokens
           c == str[p + 1]
<1>1. w \in Seq(Seq(A)) /\ split.open \in BOOLEAN /\ (split.open => w # <<>>)
      /\ split = [tokens |-> w, open |-> split.open]
  BY DEF Splits
<1>2. c \in A
  OBVIOUS
<1>3. CASE c = d
  <2>1. next = [tokens |-> w, open |-> FALSE]
    BY <1>1, <1>3 DEF Token
  <2>2. next.tokens = w /\ next.open = FALSE
    BY <2>1
  <2>3. AreWords(w, FALSE, p + 1, str, d)
    BY <1>1, <1>3, WordsClose
  <2> QED BY <2>2, <2>3
<1>4. CASE c # d /\ split.open
  <2> DEFINE e == Append(Last(w), c)
             v == Front(w) \o <<e>>
  <2>1. next = [split EXCEPT !.tokens = v]
    BY <1>4 DEF Token
  <2>2. next.tokens = v /\ next.open = split.open
    <3> HIDE DEF w, v
    <3> QED BY <1>1, <2>1
  <2>3. w # <<>> /\ Len(w) \in Nat \ {0} /\ AreWords(w, TRUE, p, str, d)
    <3>1. w # <<>>
      BY <1>1, <1>4
    <3>2. Len(w) \in Nat \ {0}
      BY <1>1, <3>1, EmptySeq
    <3>3. split.open = TRUE
      BY <1>1, <1>4
    <3> QED BY <3>1, <3>2, <3>3
  <2>4. Last(w) = w[Len(w)] /\ e \in Seq(A)
    <3>1. w[Len(w)] \in Seq(A)
      BY <1>1, <2>3
    <3> QED BY <1>2, <3>1, AppendProperties DEF Last
  <2>5. v \in Seq(Seq(A)) /\ Len(v) = Len(w) /\ \A t \in 1..Len(w) : v[t] = IF t = Len(w) THEN e ELSE w[t]
    <3>1. w \in Seq(Seq(A)) /\ w # <<>> /\ e \in Seq(A)
      BY <1>1, <2>3, <2>4
    <3> HIDE DEF w, e
    <3> QED BY <3>1, LastReplaced
  <2>6. \A t \in 1..Len(w) : v[t] = IF t = Len(w) THEN Append(w[t], c) ELSE w[t]
    <3>1. e = Append(w[Len(w)], c)
      BY <2>4
    <3> HIDE DEF v, e, w, c
    <3> QED BY <2>5, <3>1
  <2>7. AreWords(v, TRUE, p + 1, str, d)
    <3> HIDE DEF v, w
    <3>1. str[p + 1] # d
      BY <1>4
    <3> QED BY <1>1, <2>3, <2>5, <2>6, <3>1, WordsGrow
  <2>8. next.open = TRUE
    BY <1>1, <1>4, <2>2
  <2> QED BY <2>2, <2>7, <2>8
<1>5. CASE c # d /\ ~split.open
  <2> DEFINE v == Append(w, <<c>>)
  <2>1. next = [tokens |-> v, open |-> TRUE]
    BY <1>5 DEF Token
  <2>2. next.tokens = v /\ next.open = TRUE
    <3> HIDE DEF v
    <3> QED BY <2>1
  <2>3. AreWords(w, FALSE, p, str, d)
    <3>1. split.open = FALSE
      BY <1>1, <1>5
    <3> QED BY <3>1
  <2>4. <<c>> \in Seq(A)
    BY <1>2
  <2>5. v \in Seq(Seq(A)) /\ Len(v) = Len(w) + 1 /\ (\A t \in 1..Len(w) : v[t] = w[t]) /\ v[Len(w) + 1] = <<c>>
    <3> DEFINE e == <<c>>
    <3> HIDE DEF e, w
    <3>1. e \in Seq(A)
      BY <2>4 DEF e
    <3>2. Append(w, e) \in Seq(Seq(A)) /\ Len(Append(w, e)) = Len(w) + 1 /\ (\A t \in 1..Len(w) : Append(w, e)[t] = w[t])
          /\ Append(w, e)[Len(w) + 1] = e
      BY <1>1, <3>1, AppendProperties
    <3> QED BY <3>2 DEF e
  <2> HIDE DEF v, w
  <2>6. AreWords(v, TRUE, p + 1, str, d)
    BY <1>1, <1>5, <2>3, <2>5, WordsBegin
  <2> QED BY <2>2, <2>6
<1> QED BY <1>1, <1>3, <1>4, <1>5

\* str_split finds the words of a string.
LEMMA SplitWords ==
    ASSUME NEW A, NEW str \in Seq(A), NEW d
    PROVE  \E o \in BOOLEAN : AreWords(str_split(str, d), o, Len(str), str, d)
<1> DEFINE n == Len(str)
<1>0. n \in Nat /\ DOMAIN str = 1..n
  OBVIOUS
<1>1. PICK x : SplitRun(x, A, str, d)
  BY SplitRuns
<1> DEFINE S == {k \in 0..n : AreWords(x[k].tokens, x[k].open, k, str, d)}
<1>2. 0 \in S
  <2>1. x[0] = [tokens |-> <<>>, open |-> FALSE]
    BY <1>1 DEF SplitRun, NoTokens
  <2>2. x[0].tokens = <<>> /\ x[0].open = FALSE
    BY <2>1
  <2>3. 0 \in 0..n
    BY <1>0
  <2>4. Cardinality(Before(str, d, 0)) = 0
    BY <1>0, <2>3, CountStarts
  <2>5. Gap(str, d, 0)
    BY <1>0 DEF Gap
  <2>6. Len(<<>>) = 0 /\ 1..0 = {}
    OBVIOUS
  <2>7. AreWords(<<>>, FALSE, 0, str, d)
    BY <2>4, <2>5, <2>6 DEF AreWords
  <2> QED BY <2>2, <2>3, <2>7
<1>3. ASSUME NEW k \in 0..(n - 1), k \in S PROVE k + 1 \in S
  <2>1. k + 1 \in 1..n /\ (k + 1) - 1 = k /\ k \in 0..n /\ k \in Nat /\ k < n /\ k + 1 \in 0..n
    BY <1>0
  <2>2. x[k + 1] = Token(x[k], str[k + 1], d) /\ x[k] \in Splits(A)
    BY <1>1, <2>1 DEF SplitRun
  <2>3. AreWords(x[k].tokens, x[k].open, k, str, d)
    BY <1>3
  <2>4. AreWords(x[k + 1].tokens, x[k + 1].open, k + 1, str, d)
    BY <2>1, <2>2, <2>3, TokenWords
  <2> QED BY <2>1, <2>4
<1> HIDE DEF S
<1>4. n \in S
  BY <1>0, <1>2, <1>3, UpToEnd
<1>5. n \in 0..n
  BY <1>0
<1>6. x[n].open \in BOOLEAN /\ str_split(str, d) = x[n].tokens
  BY <1>1, <1>5 DEF SplitRun, Splits
<1>7. AreWords(x[n].tokens, x[n].open, n, str, d)
  BY <1>4 DEF S
<1> QED BY <1>6, <1>7

\* F[i] is the first i sequences of w, one after the other.
Flattens(F, w, n) == F = [i \in 1..n |-> IF i = 1 THEN w[i] ELSE F[i - 1] \o w[i]]

\* FlattenSeq is what its recursive definition is solved by.
LEMMA FlattenIs ==
    ASSUME NEW w, NEW n \in Nat \ {0}, Len(w) = n, NEW F, Flattens(F, w, n)
    PROVE  FlattenSeq(w) = F[n]
<1>1. PICK G : /\ G = [i \in 1..n |-> IF i = 1 THEN w[i] ELSE G[i - 1] \o w[i]]
               /\ FlattenSeq(w) = G[n]
  BY DEF FlattenSeq, Flattens
<1> DEFINE S == {k \in 0..n : k >= 1 => G[k] = F[k]}
<1>2. 0 \in S
  OBVIOUS
<1>3. ASSUME NEW k \in 0..(n - 1), k \in S PROVE k + 1 \in S
  <2>1. k + 1 \in 1..n /\ (k + 1) - 1 = k /\ (k = 0 \/ k >= 1) /\ k + 1 \in 0..n
    OBVIOUS
  <2>2. G[k + 1] = IF k + 1 = 1 THEN w[k + 1] ELSE G[k] \o w[k + 1]
    BY <1>1, <2>1
  <2>3. F[k + 1] = IF k + 1 = 1 THEN w[k + 1] ELSE F[k] \o w[k + 1]
    BY <2>1 DEF Flattens
  <2>4. G[k + 1] = F[k + 1]
    BY <1>3, <2>1, <2>2, <2>3
  <2> QED BY <2>1, <2>4
<1> HIDE DEF S
<1>4. n \in S
  BY <1>2, <1>3, UpToEnd
<1> QED BY <1>1, <1>4 DEF S

\* The words of a joined command are the words of its arguments, in order.
LEMMA ArrayJoinWords ==
    ASSUME NEW A, NEW arr \in Seq(Seq(A)), arr # <<>>, Size(arr) # 0, BLANK \in A
    PROVE  str_split(array_join(arr, Separator), BLANK)
              = FlattenSeq([k \in DOMAIN arr |-> str_split(arr[k], BLANK)])
<1> DEFINE m == Len(arr) - 1
           W == [k \in DOMAIN arr |-> str_split(arr[k], BLANK)]
<1>1. Separator \in Seq(A)
  BY DEF Separator
<1>2. PICK t \in [0..Len(Tail(arr)) -> Seq(A)] :
        /\ t[0] = Head(arr)
        /\ \A k \in 1..Len(Tail(arr)) : t[k] = Join(t[k - 1], Separator, Tail(arr)[k])
        /\ array_join(arr, Separator) = t[Len(Tail(arr))]
  BY <1>1, JoinTrace
<1>4. /\ Len(Tail(arr)) = m /\ m \in Nat /\ Len(arr) = m + 1 /\ Head(arr) = arr[1]
      /\ \A k \in 1..m : Tail(arr)[k] = arr[k + 1]
      /\ \A k \in 1..(m + 1) : arr[k] \in Seq(A)
      /\ DOMAIN arr = 1..(m + 1)
  BY TailFacts
<1>5. Len(W) = m + 1 /\ \A k \in 1..(m + 1) : W[k] = str_split(arr[k], BLANK)
  <2>1. DOMAIN arr = 1..(m + 1) /\ m + 1 \in Nat
    BY <1>4
  <2> HIDE DEF m
  <2> QED BY <2>1
<1> HIDE DEF m, W
<1> DEFINE F == [i \in 1..(m + 1) |-> str_split(t[i - 1], BLANK)]
<1>6. ASSUME NEW i \in 1..(m + 1) PROVE F[i] = IF i = 1 THEN W[i] ELSE F[i - 1] \o W[i]
  <2>1. CASE i = 1
    <3>1. i - 1 = 0
      BY <2>1
    <3>2. F[i] = str_split(t[0], BLANK)
      BY <3>1
    <3> QED BY <1>2, <1>4, <1>5, <2>1, <3>2
  <2>2. CASE i # 1
    <3> DEFINE j == i - 1
    <3>1. /\ j \in 1..m /\ j \in 1..(m + 1) /\ j + 1 = i /\ j - 1 \in 0..m
          /\ F[i] = str_split(t[j], BLANK) /\ F[j] = str_split(t[j - 1], BLANK)
      BY <1>4, <2>2
    <3> HIDE DEF j, F
    <3>2. t[j] = Join(t[j - 1], Separator, arr[i])
      BY <1>2, <1>4, <3>1
    <3>3. t[j - 1] \in Seq(A) /\ arr[i] \in Seq(A)
      BY <1>2, <1>4, <3>1
    <3>4. Between(t[j], A, t[j - 1], BLANK, arr[i])
      BY <3>2, <3>3, JoinFacts DEF Separator
    <3>5. str_split(t[j], BLANK) = str_split(t[j - 1], BLANK) \o str_split(arr[i], BLANK)
      BY <3>3, <3>4, SplitBetween
    <3> QED BY <1>5, <2>2, <3>1, <3>5 DEF j
  <2> QED BY <2>1, <2>2
<1>7. Flattens(F, W, m + 1)
  <2>1. F = [i \in 1..(m + 1) |-> F[i]]
    OBVIOUS
  <2> HIDE DEF F
  <2> QED BY <1>6, <2>1 DEF Flattens
<1>8. F[m + 1] = str_split(array_join(arr, Separator), BLANK)
  <2>1. m + 1 \in 1..(m + 1) /\ (m + 1) - 1 = m
    BY <1>4
  <2> QED BY <1>2, <1>4, <2>1
<1> HIDE DEF F
<1>9. FlattenSeq(W) = F[m + 1]
  <2>1. m + 1 \in Nat \ {0}
    BY <1>4
  <2>2. Len(W) = m + 1
    BY <1>5
  <2> QED BY <1>7, <2>1, <2>2, FlattenIs
<1> QED BY <1>8, <1>9 DEF W

\* What is recorded by `run` is executed by `start` as the words it consists
\* of, and those are the words of the arguments, whatever arguments of
\* whatever length there are.
THEOREM CommandStaysKept == StringsSpec => []CommandKept
<1>1. Derived => CommandKept
  <2> SUFFICES ASSUME Derived PROVE CommandKept
    OBVIOUS
  <2>1. CASE cmd = <<>>
    BY <2>1 DEF CommandKept, SplitIsWords
  <2>2. CASE cmd # <<>>
    <3> DEFINE Blank(k) == k \notin DOMAIN command \/ command[k] = BLANK
               starts == {k \in DOMAIN command : ~Blank(k) /\ Blank(k - 1)}
    <3>1. command # NULL /\ cmd = str_split(command, BLANK)
      BY <2>2 DEF Derived
    <3>2. /\ argv \in Seq(Seq(Chars)) /\ argv # <<>> /\ Size(argv) # 0
          /\ command = array_join(argv, Separator) /\ command \in Seq(Chars)
      BY <3>1, CommandFacts
    <3>3. BLANK \in Chars
      BY StringsAssumption
    <3>4. cmd = FlattenSeq([k \in DOMAIN argv |-> str_split(argv[k], BLANK)])
      BY <3>1, <3>2, <3>3, ArrayJoinWords
    <3>5. cmd \in Seq(Seq(Chars)) /\ DOMAIN cmd = 1..Len(cmd)
      <4>1. cmd \in Seq(Seq(Chars))
        BY <3>1, <3>2, SplitType
      <4> QED BY <4>1
    <3> DEFINE n == Len(command)
    <3>6. PICK o \in BOOLEAN : AreWords(cmd, o, n, command, BLANK)
      BY <3>1, <3>2, SplitWords
    <3>7. n \in Nat /\ DOMAIN command = 1..n
      BY <3>2
    <3>8. starts = WordStarts(command, BLANK) /\ \A k : Blank(k) <=> Gap(command, BLANK, k)
      BY DEF WordStarts, Gap
    <3>9. starts \subseteq 1..n
      BY <3>7
    <3>10. starts = Before(command, BLANK, n)
      <4> HIDE DEF starts
      <4> QED BY <3>7, <3>8, <3>9 DEF Before
    <3>11. Len(cmd) = Cardinality(starts)
      BY <3>6, <3>10 DEF AreWords
    <3> HIDE DEF Blank, starts
    <3>12. ASSUME NEW t \in DOMAIN cmd
           PROVE  \E k \in starts :
                     /\ Cardinality({j \in starts : j <= k}) = t
                     /\ cmd[t] = SubSeq(command, k, (k + Len(cmd[t])) - 1)
                     /\ Blank(k + Len(cmd[t]))
                     /\ \A j \in k..((k + Len(cmd[t])) - 1) : ~Blank(j)
      <4>1. PICK k \in Nat : /\ WordAt(cmd[t], t, k, command, BLANK)
                             /\ EndsAt(k + Len(cmd[t]), o /\ t = Len(cmd), n, command, BLANK)
        BY <3>5, <3>6 DEF AreWords
      <4> DEFINE word == cmd[t]
                 l == Len(word)
      <4>2. word \in Seq(Chars) /\ l \in Nat
        <5>1. word \in Seq(Chars)
          BY <3>5
        <5> QED BY <5>1
      <4> HIDE DEF word
      <4>3. /\ k \in starts /\ Cardinality({j \in starts : j <= k}) = t
            /\ \A i \in 1..l : word[i] = command[(k + i) - 1] /\ ~Blank((k + i) - 1)
        BY <3>8, <4>1 DEF WordAt, Before, word
      <4> HIDE DEF l
      <4>4. k \in 1..n
        BY <3>9, <4>3
      <4>5. Blank(k + l) /\ k + l <= n + 1
        <5>1. CASE k + l = n + 1
          <6>1. n + 1 \notin DOMAIN command
            BY <3>7
          <6> QED BY <3>7, <5>1, <6>1 DEF Blank
        <5>2. CASE k + l <= n /\ Gap(command, BLANK, k + l)
          BY <3>7, <3>8, <4>2, <4>4, <5>2
        <5> QED BY <4>1, <5>1, <5>2 DEF EndsAt, word, l
      <4>6. \A j \in k..((k + l) - 1) : ~Blank(j)
        <5> SUFFICES ASSUME NEW j \in k..((k + l) - 1) PROVE ~Blank(j)
          OBVIOUS
        <5>1. (j - k) + 1 \in 1..l /\ (k + ((j - k) + 1)) - 1 = j
          BY <4>2, <4>4
        <5> QED BY <4>3, <5>1
      <4>7. word = SubSeq(command, k, (k + l) - 1)
        <5> DEFINE e == (k + l) - 1
        <5>1. e \in Nat /\ 1 <= k /\ k <= e + 1 /\ e <= n /\ (e - k) + 1 = l
          BY <3>7, <4>2, <4>4, <4>5
        <5> HIDE DEF e
        <5> DEFINE sub == SubSeq(command, k, e)
        <5>2. /\ sub \in Seq(Chars) /\ Len(sub) = (e - k) + 1
              /\ \A i \in 1..((e - k) + 1) : sub[i] = command[(k + i) - 1]
          BY <3>2, <5>1, SubSeqFacts
        <5> HIDE DEF sub
        <5>3. Len(word) = Len(sub) /\ \A i \in 1..Len(word) : word[i] = sub[i]
          BY <4>3, <5>1, <5>2 DEF l
        <5>4. word = sub
          BY <4>2, <5>2, <5>3, SeqEqual
        <5> QED BY <5>4 DEF sub, e
      <4> QED BY <4>3, <4>5, <4>6, <4>7 DEF word, l
    <3>13. SplitIsWords
      BY <3>11, <3>12 DEF SplitIsWords, Blank, starts
    <3> QED BY <3>4, <3>13 DEF CommandKept
  <2> QED BY <2>1, <2>2
<1> QED BY <1>1, DerivedAlways, PTL

-----------------------------------------------------------------------------
(* The lines of a configuration *)

LEMMA MinOf ==
    ASSUME NEW n \in Nat, NEW S \in SUBSET (1..n), S # {}
    PROVE  Min(S) \in S /\ \A j \in S : Min(S) <= j
<1>1. PICK x \in S : \A y \in S : x <= y
  <2>1. S \in SUBSET Nat
    OBVIOUS
  <2> QED BY <2>1, Least
<1> QED BY <1>1 DEF Min

\* A part of a part of a string is a part of it.
LEMMA SubSubSeq ==
    ASSUME NEW A, NEW str \in Seq(A), NEW i \in Nat, NEW j \in Nat, 1 <= i, i <= j + 1, j <= Len(str),
           NEW a \in Nat, NEW b \in Nat, 1 <= a, a <= b + 1, b <= (j - i) + 1
    PROVE  SubSeq(SubSeq(str, i, j), a, b) = SubSeq(str, (i + a) - 1, (i + b) - 1)
<1> DEFINE t == SubSeq(str, i, j)
           u == SubSeq(t, a, b)
           l == (i + a) - 1
           h == (i + b) - 1
           v == SubSeq(str, l, h)
<1>0. Len(str) \in Nat
  OBVIOUS
<1>1. t \in Seq(A) /\ Len(t) = (j - i) + 1 /\ \A k \in 1..((j - i) + 1) : t[k] = str[(i + k) - 1]
  BY SubSeqFacts
<1> HIDE DEF t
<1>2. b <= Len(t)
  BY <1>1
<1>3. u \in Seq(A) /\ Len(u) = (b - a) + 1 /\ \A k \in 1..((b - a) + 1) : u[k] = t[(a + k) - 1]
  <2>1. t \in Seq(A)
    BY <1>1
  <2> QED BY <1>2, <2>1, SubSeqFacts
<1>4. l \in Nat /\ h \in Nat /\ 1 <= l /\ l <= h + 1 /\ h <= Len(str) /\ (h - l) + 1 = (b - a) + 1
  BY <1>0
<1> HIDE DEF u
<1>5. v \in Seq(A) /\ Len(v) = (b - a) + 1 /\ \A k \in 1..((b - a) + 1) : v[k] = str[(l + k) - 1]
  <2>1. v \in Seq(A) /\ Len(v) = (h - l) + 1 /\ \A k \in 1..((h - l) + 1) : v[k] = str[(l + k) - 1]
    <3> HIDE DEF l, h
    <3> QED BY <1>4, SubSeqFacts
  <2> HIDE DEF v, l, h
  <2> QED BY <1>4, <2>1
<1> HIDE DEF v
<1>6. ASSUME NEW k \in 1..((b - a) + 1) PROVE u[k] = v[k]
  <2>1. (a + k) - 1 \in 1..((j - i) + 1) /\ (i + ((a + k) - 1)) - 1 = (l + k) - 1
    OBVIOUS
  <2>2. t[(a + k) - 1] = str[(l + k) - 1]
    BY <1>1, <2>1
  <2> QED BY <1>3, <1>5, <2>2
<1>7. u = v
  <2>1. Len(u) = Len(v) /\ \A k \in 1..Len(u) : u[k] = v[k]
    BY <1>3, <1>5, <1>6
  <2> QED BY <1>3, <1>5, <2>1, SeqEqual
<1> QED BY <1>7 DEF u, v, t

\* From lo to hi lies what str has between i and j besides blanks around it.
Edges(lo, hi, str, i, j) ==
    /\ lo \in i..j /\ hi \in i..j /\ lo <= hi
    /\ str[lo] # BLANK /\ str[hi] # BLANK
    /\ \A k \in i..(lo - 1) : str[k] = BLANK
    /\ \A k \in (hi + 1)..j : str[k] = BLANK

\* t is what str has between i and j, without the blanks around it.
InkOf(t, str, i, j) ==
    \/ (\A k \in i..j : str[k] = BLANK) /\ t = <<>>
    \/ \E lo, hi \in Nat : Edges(lo, hi, str, i, j) /\ t = SubSeq(str, lo, hi)

LEMMA InkUnique ==
    ASSUME NEW str, NEW i \in Nat, NEW j \in Nat, NEW t, NEW u, InkOf(t, str, i, j), InkOf(u, str, i, j)
    PROVE  t = u
<1>1. CASE \A k \in i..j : str[k] = BLANK
  BY <1>1 DEF InkOf, Edges
<1>2. CASE ~\A k \in i..j : str[k] = BLANK
  <2>1. PICK lo, hi \in Nat : Edges(lo, hi, str, i, j) /\ t = SubSeq(str, lo, hi)
    BY <1>2 DEF InkOf
  <2>2. PICK lp, hp \in Nat : Edges(lp, hp, str, i, j) /\ u = SubSeq(str, lp, hp)
    BY <1>2 DEF InkOf
  <2>3. ~(lo < lp) /\ ~(lp < lo)
    <3>1. lo < lp => lo \in i..(lp - 1)
      BY <2>1, <2>2 DEF Edges
    <3>2. lp < lo => lp \in i..(lo - 1)
      BY <2>1, <2>2 DEF Edges
    <3> QED BY <2>1, <2>2, <3>1, <3>2 DEF Edges
  <2>4. ~(hi < hp) /\ ~(hp < hi)
    <3>1. hi < hp => hp \in (hi + 1)..j
      BY <2>1, <2>2 DEF Edges
    <3>2. hp < hi => hi \in (hp + 1)..j
      BY <2>1, <2>2 DEF Edges
    <3> QED BY <2>1, <2>2, <3>1, <3>2 DEF Edges
  <2>5. lo = lp /\ hi = hp
    BY <2>3, <2>4
  <2> QED BY <2>1, <2>2, <2>5
<1> QED BY <1>1, <1>2

\* Blanks around a part of a string do not count.
LEMMA InkWiden ==
    ASSUME NEW str, NEW i \in Nat, NEW j \in Nat, NEW a \in Nat, NEW b \in Nat, a <= i, j <= b,
           \A k \in a..(i - 1) : str[k] = BLANK, \A k \in (j + 1)..b : str[k] = BLANK,
           NEW t, InkOf(t, str, i, j)
    PROVE  InkOf(t, str, a, b)
<1>1. CASE (\A k \in i..j : str[k] = BLANK) /\ t = <<>>
  <2>1. ASSUME NEW k \in a..b PROVE str[k] = BLANK
    <3>1. k \in a..(i - 1) \/ k \in i..j \/ k \in (j + 1)..b
      OBVIOUS
    <3> QED BY <1>1, <3>1
  <2> QED BY <1>1, <2>1 DEF InkOf
<1>2. CASE \E lo, hi \in Nat : Edges(lo, hi, str, i, j) /\ t = SubSeq(str, lo, hi)
  <2>1. PICK lo, hi \in Nat : Edges(lo, hi, str, i, j) /\ t = SubSeq(str, lo, hi)
    BY <1>2
  <2>2. lo \in a..b /\ hi \in a..b /\ lo <= hi /\ str[lo] # BLANK /\ str[hi] # BLANK /\ lo \in i..j /\ hi \in i..j
    BY <2>1 DEF Edges
  <2>3. ASSUME NEW k \in a..(lo - 1) PROVE str[k] = BLANK
    <3>1. k \in a..(i - 1) \/ k \in i..(lo - 1)
      BY <2>2
    <3> QED BY <2>1, <3>1 DEF Edges
  <2>4. ASSUME NEW k \in (hi + 1)..b PROVE str[k] = BLANK
    <3>1. k \in (hi + 1)..j \/ k \in (j + 1)..b
      BY <2>2
    <3> QED BY <2>1, <3>1 DEF Edges
  <2>5. Edges(lo, hi, str, a, b)
    BY <2>2, <2>3, <2>4 DEF Edges
  <2> QED BY <2>1, <2>5 DEF InkOf
<1> QED BY <1>1, <1>2 DEF InkOf

\* Ink takes what is between the first and the last character that is no blank.
LEMMA InkFacts ==
    ASSUME NEW A, NEW str \in Seq(A)
    PROVE  InkOf(Ink(str), str, 1, Len(str))
<1> DEFINE n == Len(str)
           marks == {k \in DOMAIN str : str[k] # BLANK}
<1>0. n \in Nat /\ DOMAIN str = 1..n /\ marks \in SUBSET (1..n)
  OBVIOUS
<1>1. CASE marks = {}
  <2>1. Ink(str) = <<>>
    BY <1>1 DEF Ink
  <2>2. \A k \in 1..n : str[k] = BLANK
    BY <1>0, <1>1
  <2> QED BY <2>1, <2>2 DEF InkOf
<1>2. CASE marks # {}
  <2> DEFINE lo == Min(marks)
             hi == Max(marks)
  <2>1. Ink(str) = SubSeq(str, lo, hi)
    BY <1>2 DEF Ink
  <2>2. lo \in marks /\ (\A k \in marks : lo <= k) /\ hi \in marks /\ (\A k \in marks : k <= hi)
    <3> HIDE DEF marks
    <3> QED BY <1>0, <1>2, MinOf, MaxOf
  <2> HIDE DEF lo, hi
  <2>3. lo \in 1..n /\ hi \in 1..n /\ lo <= hi /\ str[lo] # BLANK /\ str[hi] # BLANK
    BY <1>0, <2>2
  <2>4. ASSUME NEW k \in 1..(lo - 1) PROVE str[k] = BLANK
    <3>1. k \in 1..n /\ ~(lo <= k)
      BY <1>0, <2>3
    <3> QED BY <1>0, <2>2, <3>1
  <2>5. ASSUME NEW k \in (hi + 1)..n PROVE str[k] = BLANK
    <3>1. k \in 1..n /\ ~(k <= hi)
      BY <1>0, <2>3
    <3> QED BY <1>0, <2>2, <3>1
  <2>6. Edges(lo, hi, str, 1, n)
    BY <2>3, <2>4, <2>5 DEF Edges
  <2>7. lo \in Nat /\ hi \in Nat
    BY <2>3
  <2> QED BY <2>1, <2>6, <2>7 DEF InkOf
<1> QED BY <1>1, <1>2

\* rtrim cuts off the blanks at the end, ...
LEMMA RtrimFacts ==
    ASSUME NEW A, NEW str \in Seq(A)
    PROVE  \E hi \in 0..Len(str) : /\ rtrim(str, BLANK) = SubSeq(str, 1, hi)
                                   /\ \A k \in (hi + 1)..Len(str) : str[k] = BLANK
                                   /\ hi > 0 => str[hi] # BLANK
<1> DEFINE n == Len(str)
           r == Reverse(str)
           m == strspn(r, BLANK)
           hi == n - m
<1>0. n \in Nat /\ DOMAIN str = 1..n
  OBVIOUS
<1>1. r \in Seq(A) /\ Len(r) = n /\ \A k \in 1..n : r[k] = str[(n - k) + 1]
  <2>1. r = [k \in 1..n |-> str[(n - k) + 1]]
    BY DEF Reverse
  <2>2. \A k \in 1..n : str[(n - k) + 1] \in A
    <3>1. \A k \in 1..n : (n - k) + 1 \in 1..n
      BY <1>0
    <3> QED BY <1>0, <3>1
  <2> HIDE DEF r, n
  <2> QED BY <1>0, <2>1, <2>2
<1> HIDE DEF r
<1>2. m \in 0..n /\ (\A k \in 1..m : r[k] = BLANK) /\ (m < n => r[m + 1] # BLANK)
  <2>1. r \in Seq(A)
    BY <1>1
  <2>2. m \in 0..Len(r) /\ (\A k \in 1..m : r[k] = BLANK) /\ (m < Len(r) => r[m + 1] # BLANK)
    BY <2>1, SpanFacts
  <2> HIDE DEF m
  <2> QED BY <1>1, <2>2
<1>3. rtrim(str, BLANK) = SubSeq(str, 1, hi)
  BY DEF rtrim, r
<1> HIDE DEF m
<1>4. hi \in 0..n /\ (hi > 0 => m < n /\ m + 1 \in 1..n /\ (n - (m + 1)) + 1 = hi)
  BY <1>0, <1>2
<1>5. hi > 0 => str[hi] # BLANK
  BY <1>1, <1>2, <1>4
<1>6. ASSUME NEW k \in (hi + 1)..n PROVE str[k] = BLANK
  <2> DEFINE p == (n - k) + 1
  <2>1. p \in 1..m /\ p \in 1..n /\ (n - p) + 1 = k
    BY <1>0, <1>2, <1>4
  <2> HIDE DEF p
  <2> QED BY <1>1, <1>2, <2>1
<1> HIDE DEF hi
<1> QED BY <1>3, <1>4, <1>5, <1>6

\* ... and ltrim those at the start: what remains is the ink.
LEMMA TrimFacts ==
    ASSUME NEW A, NEW str \in Seq(A)
    PROVE  InkOf(trim(str, BLANK), str, 1, Len(str))
<1> DEFINE n == Len(str)
<1>0. n \in Nat /\ DOMAIN str = 1..n
  OBVIOUS
<1>1. PICK hi \in 0..n : /\ rtrim(str, BLANK) = SubSeq(str, 1, hi)
                         /\ \A k \in (hi + 1)..n : str[k] = BLANK
                         /\ hi > 0 => str[hi] # BLANK
  BY RtrimFacts
<1> DEFINE r == SubSeq(str, 1, hi)
           m == strspn(r, BLANK)
<1>2. r \in Seq(A) /\ Len(r) = hi /\ \A k \in 1..hi : r[k] = str[k]
  <2>1. 1 \in Nat /\ hi \in Nat /\ 1 <= 1 /\ 1 <= hi + 1 /\ hi <= Len(str)
    BY <1>0
  <2>2. r \in Seq(A) /\ Len(r) = (hi - 1) + 1 /\ \A k \in 1..((hi - 1) + 1) : r[k] = str[(1 + k) - 1]
    BY <2>1, SubSeqFacts
  <2>3. (hi - 1) + 1 = hi /\ \A k \in 1..hi : (1 + k) - 1 = k
    BY <2>1
  <2> HIDE DEF r
  <2> QED BY <2>2, <2>3
<1>3. trim(str, BLANK) = SubSeq(r, m + 1, Len(r))
  BY <1>1 DEF trim, ltrim
<1>4. m \in 0..hi /\ (\A k \in 1..m : r[k] = BLANK) /\ (m < hi => r[m + 1] # BLANK)
  <2>1. r \in Seq(A)
    BY <1>2
  <2> HIDE DEF r
  <2>2. m \in 0..Len(r) /\ (\A k \in 1..m : r[k] = BLANK) /\ (m < Len(r) => r[m + 1] # BLANK)
    BY <2>1, SpanFacts
  <2> HIDE DEF m
  <2> QED BY <1>2, <2>2
<1> HIDE DEF m
<1>5. (\A k \in 1..m : str[k] = BLANK) /\ (m < hi => str[m + 1] # BLANK)
  <2>1. \A k \in 1..m : k \in 1..hi
    BY <1>4
  <2>2. m < hi => m + 1 \in 1..hi
    BY <1>4
  <2> HIDE DEF r
  <2> QED BY <1>2, <1>4, <2>1, <2>2
<1>6. CASE m = hi
  <2>1. SubSeq(r, m + 1, Len(r)) = <<>>
    <3>1. m + 1 \in Int /\ Len(r) \in Int /\ Len(r) < m + 1
      <4> HIDE DEF r
      <4> QED BY <1>2, <1>6
    <3> QED BY <3>1, SubSeqEmpty
  <2>2. ASSUME NEW k \in 1..n PROVE str[k] = BLANK
    <3>1. k \in 1..m \/ k \in (hi + 1)..n
      BY <1>6
    <3> QED BY <1>1, <1>5, <3>1
  <2>3. trim(str, BLANK) = <<>>
    BY <1>3, <2>1
  <2> QED BY <2>2, <2>3 DEF InkOf
<1>7. CASE m # hi
  <2> DEFINE lo == m + 1
  <2>1. m < hi /\ lo \in 1..n /\ hi \in 1..n /\ lo <= hi /\ lo \in Nat /\ hi \in Nat /\ lo - 1 = m /\ hi > 0
    BY <1>0, <1>4, <1>7
  <2>2. Edges(lo, hi, str, 1, n)
    BY <1>1, <1>5, <2>1 DEF Edges
  <2>3. SubSeq(r, lo, hi) = SubSeq(str, lo, hi)
    <3>1. 1 \in Nat /\ 1 <= 1 /\ 1 <= hi + 1 /\ hi <= Len(str) /\ 1 <= lo /\ lo <= hi + 1 /\ hi <= (hi - 1) + 1
      BY <2>1
    <3>2. SubSeq(r, lo, hi) = SubSeq(str, (1 + lo) - 1, (1 + hi) - 1)
      <4> HIDE DEF lo
      <4> QED BY <2>1, <3>1, SubSubSeq
    <3>3. (1 + lo) - 1 = lo /\ (1 + hi) - 1 = hi
      BY <2>1
    <3> HIDE DEF lo, r
    <3> QED BY <3>2, <3>3
  <2>4. trim(str, BLANK) = SubSeq(str, lo, hi)
    BY <1>2, <1>3, <2>3
  <2> HIDE DEF lo
  <2> QED BY <2>1, <2>2, <2>4 DEF InkOf
<1> QED BY <1>6, <1>7

LEMMA TrimInk ==
    ASSUME NEW A, NEW str \in Seq(A)
    PROVE  trim(str, BLANK) = Ink(str)
<1>1. 1 \in Nat /\ Len(str) \in Nat
  OBVIOUS
<1>2. InkOf(trim(str, BLANK), str, 1, Len(str)) /\ InkOf(Ink(str), str, 1, Len(str))
  BY TrimFacts, InkFacts
<1> QED BY <1>1, <1>2, InkUnique

\* The ink of a part of a string.
LEMMA PartInk ==
    ASSUME NEW A, NEW str \in Seq(A), NEW i \in Nat, NEW j \in Nat, 1 <= i, i <= j + 1, j <= Len(str)
    PROVE  InkOf(Ink(SubSeq(str, i, j)), str, i, j)
<1> DEFINE s == SubSeq(str, i, j)
           l == (j - i) + 1
           t == Ink(s)
<1>0. l \in Nat /\ Len(str) \in Nat
  OBVIOUS
<1>1. s \in Seq(A) /\ Len(s) = l /\ \A k \in 1..l : s[k] = str[(i + k) - 1]
  BY SubSeqFacts
<1>2. InkOf(t, s, 1, l)
  <2>1. s \in Seq(A)
    BY <1>1
  <2> HIDE DEF s, l
  <2> QED BY <1>1, <2>1, InkFacts
<1>3. CASE (\A k \in 1..l : s[k] = BLANK) /\ t = <<>>
  <2>1. ASSUME NEW k \in i..j PROVE str[k] = BLANK
    <3>1. (k - i) + 1 \in 1..l /\ (i + ((k - i) + 1)) - 1 = k
      OBVIOUS
    <3> HIDE DEF s, l
    <3> QED BY <1>1, <1>3, <3>1
  <2> HIDE DEF s, t
  <2>2. InkOf(t, str, i, j)
    BY <1>3, <2>1 DEF InkOf
  <2> QED BY <2>2 DEF t, s
<1>4. CASE \E a, b \in Nat : Edges(a, b, s, 1, l) /\ t = SubSeq(s, a, b)
  <2>1. PICK a, b \in Nat : Edges(a, b, s, 1, l) /\ t = SubSeq(s, a, b)
    BY <1>4
  <2>2. a \in 1..l /\ b \in 1..l /\ a <= b /\ s[a] # BLANK /\ s[b] # BLANK
        /\ (\A k \in 1..(a - 1) : s[k] = BLANK) /\ (\A k \in (b + 1)..l : s[k] = BLANK)
    BY <2>1 DEF Edges
  <2> DEFINE lo == (i + a) - 1
             hi == (i + b) - 1
  <2>3. lo \in Nat /\ hi \in Nat /\ lo \in i..j /\ hi \in i..j /\ lo <= hi
    BY <2>2
  <2>4. str[lo] # BLANK /\ str[hi] # BLANK
    <3> HIDE DEF s
    <3> QED BY <1>1, <2>2
  <2>5. ASSUME NEW k \in i..(lo - 1) PROVE str[k] = BLANK
    <3> DEFINE q == (k - i) + 1
    <3>1. q \in 1..l /\ (i + q) - 1 = k /\ q \in 1..(a - 1)
      BY <2>2, <2>3
    <3> HIDE DEF s, q
    <3> QED BY <1>1, <2>2, <3>1
  <2>6. ASSUME NEW k \in (hi + 1)..j PROVE str[k] = BLANK
    <3> DEFINE q == (k - i) + 1
    <3>1. q \in 1..l /\ (i + q) - 1 = k /\ q \in (b + 1)..l
      BY <2>2, <2>3
    <3> HIDE DEF s, q
    <3> QED BY <1>1, <2>2, <3>1
  <2>7. SubSeq(s, a, b) = SubSeq(str, lo, hi)
    <3>1. 1 <= a /\ a <= b + 1 /\ b <= (j - i) + 1
      BY <2>2
    <3> QED BY <3>1, SubSubSeq
  <2> HIDE DEF lo, hi, s, t
  <2>8. Edges(lo, hi, str, i, j)
    BY <2>3, <2>4, <2>5, <2>6 DEF Edges
  <2>9. InkOf(t, str, i, j)
    BY <2>1, <2>3, <2>7, <2>8 DEF InkOf
  <2> QED BY <2>9 DEF t, s
<1> HIDE DEF s, t, l
<1> QED BY <1>2, <1>3, <1>4 DEF InkOf

\* A text without a delimiter is one token.
LEMMA SplitNone ==
    ASSUME NEW A, NEW str \in Seq(A), NEW d, str # <<>>, \A k \in 1..Len(str) : str[k] # d
    PROVE  str_split(str, d) = <<str>>
<1> DEFINE n == Len(str)
           w == str_split(str, d)
<1>0. n \in Nat \ {0} /\ DOMAIN str = 1..n
  OBVIOUS
<1>1. PICK o \in BOOLEAN : AreWords(w, o, n, str, d)
  BY SplitWords
<1>2. w \in Seq(Seq(A))
  BY SplitType
<1> HIDE DEF w
<1>3. (\A k \in 1..n : ~Gap(str, d, k)) /\ Gap(str, d, 0)
  BY <1>0 DEF Gap
<1>4. WordStarts(str, d) = {1}
  <2>1. 1 \in WordStarts(str, d)
    <3>1. 1 \in 1..n /\ 1 - 1 = 0
      BY <1>0
    <3> QED BY <1>0, <1>3, <3>1 DEF WordStarts
  <2>2. ASSUME NEW k \in WordStarts(str, d), k # 1 PROVE FALSE
    <3>1. k \in 1..n /\ Gap(str, d, k - 1)
      BY <1>0 DEF WordStarts
    <3>2. k - 1 \in 1..n
      BY <1>0, <2>2, <3>1
    <3> QED BY <1>3, <3>1, <3>2
  <2> QED BY <2>1, <2>2
<1>5. Len(w) = 1
  <2>1. Before(str, d, n) = {1}
    BY <1>0, <1>4 DEF Before
  <2> QED BY <1>1, <2>1, FS_Singleton DEF AreWords
<1> DEFINE word == w[1]
<1>6. PICK k \in Nat : WordAt(word, 1, k, str, d) /\ EndsAt(k + Len(word), o /\ 1 = Len(w), n, str, d)
  <2>1. 1 \in 1..Len(w)
    BY <1>5
  <2> QED BY <1>1, <2>1 DEF AreWords
<1>7. word \in Seq(A) /\ Len(word) \in Nat
  <2>1. 1 \in 1..Len(w)
    BY <1>5
  <2>2. word \in Seq(A)
    BY <1>2, <2>1
  <2> QED BY <2>2
<1> HIDE DEF word
<1>8. k = 1 /\ \A i \in 1..Len(word) : word[i] = str[(k + i) - 1]
  BY <1>4, <1>6 DEF WordAt
<1>9. Len(word) = n
  <2>1. k + Len(word) = n + 1 \/ (k + Len(word) <= n /\ Gap(str, d, k + Len(word)))
    BY <1>6 DEF EndsAt
  <2>2. CASE k + Len(word) <= n /\ Gap(str, d, k + Len(word))
    <3>1. k + Len(word) \in 1..n
      BY <1>0, <1>7, <1>8, <2>2
    <3> QED BY <1>3, <2>2, <3>1
  <2> QED BY <1>0, <1>7, <1>8, <2>1, <2>2
<1>10. ASSUME NEW i \in 1..n PROVE word[i] = str[i]
  <2>1. (1 + i) - 1 = i
    OBVIOUS
  <2> QED BY <1>8, <1>9, <2>1
<1>11. word = str
  BY <1>7, <1>9, <1>10, SeqEqual
<1>12. w = <<str>>
  <2> DEFINE e == <<str>>
  <2>1. e \in Seq(Seq(A)) /\ Len(e) = 1 /\ e[1] = str
    OBVIOUS
  <2> HIDE DEF e
  <2>2. Len(w) = Len(e) /\ \A i \in 1..Len(w) : w[i] = e[i]
    <3>1. \A i \in 1..1 : i = 1
      OBVIOUS
    <3> QED BY <1>5, <1>11, <2>1, <3>1 DEF word
  <2>3. w = e
    BY <1>2, <2>1, <2>2, SeqEqual
  <2> QED BY <2>3 DEF e
<1> QED BY <1>12 DEF w

\* What the code skips is what is empty or a comment.
LEMMA SkippedIsComment ==
    ASSUME NEW A, NEW line \in Seq(A)
    PROVE  Skipped(line) <=> Comment(line)
<1> DEFINE t == trim(line, BLANK)
<1>1. t = Ink(line)
  BY TrimInk
<1>2. t \in Seq(A)
  <2>1. InkOf(t, line, 1, Len(line))
    BY TrimFacts
  <2>2. CASE t = <<>>
    BY <2>2
  <2>3. CASE \E lo, hi \in Nat : Edges(lo, hi, line, 1, Len(line)) /\ t = SubSeq(line, lo, hi)
    <3> HIDE DEF t
    <3>1. PICK lo, hi \in Nat : Edges(lo, hi, line, 1, Len(line)) /\ t = SubSeq(line, lo, hi)
      BY <2>3
    <3>2. 1 <= lo /\ lo <= hi + 1 /\ hi <= Len(line)
      BY <3>1 DEF Edges
    <3> QED BY <3>1, <3>2, SubSeqFacts
  <2> QED BY <2>1, <2>2, <2>3 DEF InkOf
<1> HIDE DEF t
<1>3. ASSUME t # <<>> PROVE IsPrefix(<<Hash>>, t) <=> t[1] = Hash
  <2>1. Len(t) \in Nat \ {0}
    BY <1>2, <1>3, EmptySeq
  <2> DEFINE e == <<Hash>>
             u == SubSeq(t, 1, 1)
  <2>2. Len(e) = 1 /\ e[1] = Hash /\ SubSeq(e, 1, 1) = e /\ e \in Seq({Hash})
    <3>1. Len(e) = 1 /\ e[1] = Hash /\ e \in Seq({Hash})
      OBVIOUS
    <3> DEFINE g == SubSeq(e, 1, 1)
    <3> HIDE DEF e
    <3>2. g \in Seq({Hash}) /\ Len(g) = (1 - 1) + 1 /\ \A k \in 1..((1 - 1) + 1) : g[k] = e[(1 + k) - 1]
      <4>1. 1 \in Nat /\ 1 <= 1 /\ 1 <= 1 + 1 /\ 1 <= Len(e)
        BY <3>1
      <4> QED BY <3>1, <4>1, SubSeqFacts
    <3> HIDE DEF g
    <3>3. Len(g) = Len(e) /\ \A k \in 1..Len(g) : g[k] = e[k]
      <4>1. (1 - 1) + 1 = 1 /\ \A k \in 1..1 : (1 + k) - 1 = k
        OBVIOUS
      <4> QED BY <3>1, <3>2, <4>1
    <3>4. g = e
      BY <3>1, <3>2, <3>3, SeqEqual
    <3> QED BY <3>1, <3>4 DEF g
  <2>3. u \in Seq(A) /\ Len(u) = (1 - 1) + 1 /\ \A k \in 1..((1 - 1) + 1) : u[k] = t[(1 + k) - 1]
    <3>1. 1 \in Nat /\ 1 <= 1 /\ 1 <= 1 + 1 /\ 1 <= Len(t)
      BY <2>1
    <3> QED BY <1>2, <3>1, SubSeqFacts
  <2>4. Len(u) = 1 /\ u[1] = t[1]
    <3>1. (1 - 1) + 1 = 1 /\ 1 \in 1..1 /\ (1 + 1) - 1 = 1
      OBVIOUS
    <3> HIDE DEF u
    <3> QED BY <2>3, <3>1
  <2>5. IsPrefix(e, t) <=> e = u
    <3>1. Len(e) <= Len(t)
      BY <2>1, <2>2
    <3> HIDE DEF e
    <3> QED BY <2>2, <3>1 DEF IsPrefix
  <2> HIDE DEF e, u
  <2>6. t[1] = Hash => e = u
    <3> SUFFICES ASSUME t[1] = Hash PROVE e = u
      OBVIOUS
    <3>1. \A k \in 1..Len(e) : e[k] = u[k]
      <4>1. \A k \in 1..1 : k = 1
        OBVIOUS
      <4> QED BY <2>2, <2>4, <4>1
    <3>2. Len(e) = Len(u)
      BY <2>2, <2>4
    <3>3. e \in Seq(A \cup {Hash}) /\ u \in Seq(A \cup {Hash})
      <4>1. e \in Seq({Hash}) /\ u \in Seq(A)
        BY <2>2, <2>3
      <4> QED BY <4>1
    <3> QED BY <3>1, <3>2, <3>3, SeqEqual
  <2>7. e = u => t[1] = Hash
    BY <2>2, <2>4
  <2> QED BY <2>5, <2>6, <2>7 DEF e
<1>4. Skipped(line) <=> t = <<>> \/ IsPrefix(<<Hash>>, t)
  BY DEF Skipped, t
<1>5. Comment(line) <=> t = <<>> \/ t[1] = Hash
  BY <1>1 DEF Comment
<1> QED BY <1>3, <1>4, <1>5

\* strtok finds the key and the value of a plain line.
LEMMA PlainRead ==
    ASSUME NEW A, NEW line \in Seq(A), Plain(line)
    PROVE  LET tokens == str_split(trim(line, BLANK), delim)
           IN  /\ Len(tokens) = 2
               /\ trim(tokens[1], BLANK) = KeyOf(line)
               /\ trim(tokens[2], BLANK) = ValueOf(line)
<1> DEFINE n == Len(line)
           D == Delims(line)
<1>0. n \in Nat /\ DOMAIN line = 1..n /\ 1 \in Nat
  OBVIOUS
<1>1. PICK q : D = {q}
  <2>1. D \subseteq 1..n
    BY <1>0 DEF Delims
  <2>2. IsFiniteSet(D)
    <3>1. IsFiniteSet(1..n)
      BY <1>0, FS_Interval
    <3> QED BY <2>1, <3>1, FS_Subset
  <2>3. Cardinality(D) = 1
    BY DEF Plain
  <2> HIDE DEF D
  <2> QED BY <2>2, <2>3, FS_Singleton
<1>2. q \in 1..n /\ line[q] = delim /\ \A k \in 1..n : k # q => line[k] # delim
  BY <1>0, <1>1 DEF Delims
<1>3. Min(D) = q
  BY <1>1, <1>2 DEF Min
<1> DEFINE i == q - 1
           j == q + 1
<1>4. KeyOf(line) = Ink(SubSeq(line, 1, i)) /\ ValueOf(line) = Ink(SubSeq(line, j, n))
  BY <1>3 DEF KeyOf, ValueOf
<1>5. KeyOf(line) # <<>> /\ ValueOf(line) # <<>>
  BY DEF Plain
<1>6. i \in Nat /\ j \in Nat /\ 1 <= i + 1 /\ i <= n /\ 1 <= j /\ j <= n + 1 /\ 1 <= 1 /\ n <= n
  BY <1>0, <1>2
<1> HIDE DEF D
<1>7. InkOf(KeyOf(line), line, 1, i) /\ InkOf(ValueOf(line), line, j, n)
  <2> HIDE DEF i, j
  <2>1. InkOf(Ink(SubSeq(line, 1, i)), line, 1, i)
    BY <1>0, <1>6, PartInk
  <2>2. InkOf(Ink(SubSeq(line, j, n)), line, j, n)
    BY <1>0, <1>6, PartInk
  <2> QED BY <1>4, <2>1, <2>2
<1>8. PICK a, b \in Nat : Edges(a, b, line, 1, i)
  BY <1>5, <1>7 DEF InkOf
<1>9. PICK e, f \in Nat : Edges(e, f, line, j, n)
  BY <1>5, <1>7 DEF InkOf
<1> DEFINE t == trim(line, BLANK)
<1>10. a \in 1..i /\ line[a] # BLANK /\ f \in j..n /\ line[f] # BLANK
       /\ (\A k \in 1..(a - 1) : line[k] = BLANK) /\ (\A k \in (f + 1)..n : line[k] = BLANK)
  BY <1>8, <1>9 DEF Edges
<1>11. t = SubSeq(line, a, f)
  <2>1. Edges(a, f, line, 1, n)
    <3>1. a \in 1..n /\ f \in 1..n /\ a <= f
      BY <1>0, <1>2, <1>10
    <3> QED BY <1>10, <3>1 DEF Edges
  <2>2. InkOf(SubSeq(line, a, f), line, 1, n)
    BY <2>1 DEF InkOf
  <2>3. InkOf(t, line, 1, n)
    BY TrimFacts
  <2> HIDE DEF t
  <2> QED BY <1>0, <2>2, <2>3, InkUnique
<1> HIDE DEF t
<1> DEFINE P == SubSeq(line, a, i)
           Q == SubSeq(line, j, f)
<1>12. /\ P \in Seq(A) /\ Len(P) = (i - a) + 1
       /\ \A k \in 1..((i - a) + 1) : P[k] = line[(a + k) - 1]
  <2>1. 1 <= a /\ a <= i + 1 /\ i <= Len(line)
    BY <1>6, <1>10
  <2> HIDE DEF i
  <2> QED BY <1>6, <2>1, SubSeqFacts
<1>13. /\ Q \in Seq(A) /\ Len(Q) = (f - j) + 1
       /\ \A k \in 1..((f - j) + 1) : Q[k] = line[(j + k) - 1]
  <2>1. 1 <= j /\ j <= f + 1 /\ f <= Len(line)
    BY <1>6, <1>10
  <2> HIDE DEF j
  <2> QED BY <1>6, <2>1, SubSeqFacts
<1>14. /\ t \in Seq(A) /\ Len(t) = (f - a) + 1
       /\ \A k \in 1..((f - a) + 1) : t[k] = line[(a + k) - 1]
  <2>1. 1 <= a /\ a <= f + 1 /\ f <= Len(line)
    BY <1>2, <1>6, <1>10
  <2> QED BY <1>11, <2>1, SubSeqFacts
<1> HIDE DEF P, Q
<1>15. Between(t, A, P, delim, Q)
  <2>1. Len(P) + 1 = (q - a) + 1 /\ Len(P) = q - a /\ Len(Q) = f - q /\ (f - a) + 1 = Len(P) + 1 + Len(Q)
        /\ Len(P) \in Nat /\ Len(Q) \in Nat
    BY <1>0, <1>2, <1>10, <1>12, <1>13
  <2>2. ASSUME NEW k \in 1..Len(P) PROVE t[k] = P[k]
    <3>1. k \in 1..((i - a) + 1) /\ k \in 1..((f - a) + 1)
      BY <1>2, <1>10, <2>1
    <3> QED BY <1>12, <1>14, <3>1
  <2>3. t[Len(P) + 1] = delim
    <3>1. (q - a) + 1 \in 1..((f - a) + 1) /\ (a + ((q - a) + 1)) - 1 = q
      BY <1>2, <1>10
    <3> QED BY <1>2, <1>14, <2>1, <3>1
  <2>4. ASSUME NEW k \in 1..Len(Q) PROVE t[Len(P) + 1 + k] = Q[k]
    <3>1. /\ k \in 1..((f - j) + 1) /\ Len(P) + 1 + k \in 1..((f - a) + 1)
          /\ (a + (Len(P) + 1 + k)) - 1 = (j + k) - 1
      BY <1>2, <1>10, <2>1
    <3> QED BY <1>13, <1>14, <3>1
  <2> QED BY <1>14, <2>1, <2>2, <2>3, <2>4 DEF Between
<1>16. str_split(P, delim) = <<P>>
  <2>1. Len(P) # 0
    BY <1>2, <1>10, <1>12
  <2>2. ASSUME NEW k \in 1..Len(P) PROVE P[k] # delim
    <3>1. k \in 1..((i - a) + 1) /\ (a + k) - 1 \in 1..n /\ (a + k) - 1 # q
      BY <1>2, <1>10, <1>12
    <3> QED BY <1>2, <1>12, <3>1
  <2>3. P # <<>> /\ P \in Seq(A)
    BY <1>12, <2>1
  <2> QED BY <2>2, <2>3, SplitNone
<1>17. str_split(Q, delim) = <<Q>>
  <2>1. Len(Q) # 0
    BY <1>2, <1>10, <1>13
  <2>2. ASSUME NEW k \in 1..Len(Q) PROVE Q[k] # delim
    <3>1. k \in 1..((f - j) + 1) /\ (j + k) - 1 \in 1..n /\ (j + k) - 1 # q
      BY <1>2, <1>10, <1>13
    <3> QED BY <1>2, <1>13, <3>1
  <2>3. Q # <<>> /\ Q \in Seq(A)
    BY <1>13, <2>1
  <2> QED BY <2>2, <2>3, SplitNone
<1> DEFINE tokens == str_split(t, delim)
<1>18. tokens = <<P>> \o <<Q>>
  <2>1. P \in Seq(A) /\ Q \in Seq(A)
    BY <1>12, <1>13
  <2>2. tokens = str_split(P, delim) \o str_split(Q, delim)
    BY <1>15, <2>1, SplitBetween
  <2> QED BY <1>16, <1>17, <2>2
<1>19. Len(tokens) = 2 /\ tokens[1] = P /\ tokens[2] = Q
  <2>1. Len(<<P>> \o <<Q>>) = 2 /\ (<<P>> \o <<Q>>)[1] = P /\ (<<P>> \o <<Q>>)[2] = Q
    OBVIOUS
  <2> QED BY <1>18, <2>1
<1>20. trim(P, BLANK) = KeyOf(line)
  <2>1. trim(P, BLANK) = Ink(SubSeq(line, a, i))
    BY <1>12, TrimInk DEF P
  <2>2. InkOf(Ink(SubSeq(line, a, i)), line, a, i)
    <3>1. 1 <= a /\ a <= i + 1 /\ i <= Len(line)
      BY <1>6, <1>10
    <3> HIDE DEF i
    <3> QED BY <1>6, <3>1, PartInk
  <2> DEFINE u == Ink(SubSeq(line, a, i))
  <2> HIDE DEF u
  <2>3. InkOf(u, line, 1, i)
    <3>1. 1 <= a /\ i <= i /\ \A k \in (i + 1)..i : line[k] = BLANK
      BY <1>6, <1>10
    <3>2. InkOf(u, line, a, i)
      BY <2>2 DEF u
    <3> HIDE DEF i
    <3> QED BY <1>0, <1>6, <1>10, <3>1, <3>2, InkWiden
  <2>4. u = KeyOf(line)
    <3> HIDE DEF i
    <3> QED BY <1>0, <1>6, <1>7, <2>3, InkUnique
  <2> QED BY <2>1, <2>4 DEF u
<1>21. trim(Q, BLANK) = ValueOf(line)
  <2>1. trim(Q, BLANK) = Ink(SubSeq(line, j, f))
    BY <1>13, TrimInk DEF Q
  <2>2. InkOf(Ink(SubSeq(line, j, f)), line, j, f)
    <3>1. 1 <= j /\ j <= f + 1 /\ f <= Len(line)
      BY <1>6, <1>10
    <3> HIDE DEF j
    <3> QED BY <1>6, <3>1, PartInk
  <2> DEFINE u == Ink(SubSeq(line, j, f))
  <2> HIDE DEF u
  <2>3. InkOf(u, line, j, n)
    <3>1. j <= j /\ f <= n /\ \A k \in j..(j - 1) : line[k] = BLANK
      BY <1>6, <1>10
    <3>2. InkOf(u, line, j, f)
      BY <2>2 DEF u
    <3> HIDE DEF j
    <3> QED BY <1>0, <1>6, <1>10, <3>1, <3>2, InkWiden
  <2>4. u = ValueOf(line)
    <3> HIDE DEF j
    <3> QED BY <1>0, <1>6, <1>7, <2>3, InkUnique
  <2> QED BY <2>1, <2>4 DEF u
<1> QED BY <1>19, <1>20, <1>21 DEF t

\* The lines that were read, and what they say.
ConfigInv == lines \in Seq(Seq(ConfigChars)) /\ ConfigReads

\* The lines that say something.
Said(text) == {k \in DOMAIN text : ~Comment(text[k])}

\* The map says for every key what the first of the lines for it says.
SaysFirst(map, text) ==
    /\ DOMAIN map = {KeyOf(text[k]) : k \in Said(text)}
    /\ \A k \in Said(text) :
          (\A j \in Said(text) : j < k => KeyOf(text[j]) # KeyOf(text[k]))
              => map[KeyOf(text[k])] = ValueOf(text[k])

LEMMA ReadsMeans ==
    ConfigReads <=> ((\A k \in Said(lines) : Plain(lines[k])) =>
                        reading # "died" /\ SaysFirst(propertiesMap, lines))
<1>1. ASSUME DOMAIN propertiesMap = {KeyOf(lines[k]) : k \in Said(lines)}, NEW k \in Said(lines)
      PROVE  get(KeyOf(lines[k])) = propertiesMap[KeyOf(lines[k])]
  BY <1>1 DEF get
<1> QED BY <1>1 DEF ConfigReads, SaysFirst, Said

\* One more line.
OneMore(more, text, line, A) ==
    /\ more \in Seq(Seq(A))
    /\ \A k \in Said(text) : more[k] = text[k] /\ k < Len(text) + 1
    /\ more[Len(text) + 1] = line
    /\ Said(more) = IF Comment(line) THEN Said(text) ELSE Said(text) \cup {Len(text) + 1}
    /\ Len(text) + 1 \notin Said(text)

LEMMA AppendSaid ==
    ASSUME NEW A, NEW text \in Seq(Seq(A)), NEW line \in Seq(A)
    PROVE  OneMore(Append(text, line), text, line, A)
<1> DEFINE n == Len(text)
           more == Append(text, line)
<1>0. n \in Nat /\ DOMAIN text = 1..n
  OBVIOUS
<1>1. /\ more \in Seq(Seq(A)) /\ Len(more) = n + 1 /\ more[n + 1] = line
      /\ \A k \in 1..n : more[k] = text[k]
  BY AppendProperties
<1>2. DOMAIN more = 1..(n + 1)
  BY <1>0, <1>1
<1> HIDE DEF n, more
<1>3. Said(text) \subseteq 1..n
  BY <1>0 DEF Said
<1>4. ASSUME NEW k \in 1..n PROVE k \in Said(more) <=> k \in Said(text)
  BY <1>0, <1>1, <1>2 DEF Said
<1>5. n + 1 \in Said(more) <=> ~Comment(line)
  BY <1>0, <1>1, <1>2 DEF Said
<1>6. Said(more) \subseteq 1..(n + 1)
  BY <1>2 DEF Said
<1>7. n + 1 \notin Said(text)
  BY <1>0, <1>3
<1>8. Said(more) = IF Comment(line) THEN Said(text) ELSE Said(text) \cup {n + 1}
  <2>1. \A k : k \in Said(more) => k \in 1..n \/ k = n + 1
    BY <1>0, <1>6
  <2>2. CASE Comment(line)
    <3>1. \A k : k \in Said(more) <=> k \in Said(text)
      BY <1>3, <1>4, <1>5, <2>1, <2>2
    <3> QED BY <2>2, <3>1
  <2>3. CASE ~Comment(line)
    <3>1. \A k : k \in Said(more) <=> k \in Said(text) \/ k = n + 1
      BY <1>3, <1>4, <1>5, <2>1, <2>3
    <3> QED BY <2>3, <3>1
  <2> QED BY <2>2, <2>3
<1>9. \A k \in Said(text) : more[k] = text[k] /\ k < n + 1
  BY <1>0, <1>1, <1>3
<1> QED BY <1>1, <1>7, <1>8, <1>9 DEF n, more, OneMore

\* What map.insert makes of map.
Inserted(next, map, key, value) ==
    next = [k \in DOMAIN map \cup {key} |-> IF k \in DOMAIN map THEN map[k] ELSE value]

\* The line for a key that is new comes in, another is ignored.
LEMMA InsertSays ==
    ASSUME NEW A, NEW text \in Seq(Seq(A)), NEW line, NEW more, OneMore(more, text, line, A),
           ~Comment(line), NEW map, SaysFirst(map, text),
           NEW next, Inserted(next, map, KeyOf(line), ValueOf(line))
    PROVE  SaysFirst(next, more)
<1> DEFINE n == Len(text) + 1
           key == KeyOf(line)
<1>1. /\ \A k \in Said(text) : more[k] = text[k] /\ k < n
      /\ more[n] = line
      /\ Said(more) = Said(text) \cup {n}
      /\ n \notin Said(text)
  BY DEF OneMore
<1>2. n \in Nat /\ Said(text) \subseteq Nat
  BY DEF Said
<1> HIDE DEF n
<1>3. DOMAIN map = {KeyOf(text[k]) : k \in Said(text)}
  BY DEF SaysFirst
<1>4. DOMAIN next = {KeyOf(more[k]) : k \in Said(more)}
  <2>1. DOMAIN next = DOMAIN map \cup {key}
    BY DEF Inserted
  <2>2. {KeyOf(more[k]) : k \in Said(more)} = {KeyOf(text[k]) : k \in Said(text)} \cup {key}
    BY <1>1
  <2> QED BY <1>3, <2>1, <2>2
<1>5. ASSUME NEW k \in Said(more), \A j \in Said(more) : j < k => KeyOf(more[j]) # KeyOf(more[k])
      PROVE  next[KeyOf(more[k])] = ValueOf(more[k])
  <2>1. CASE k \in Said(text)
    <3>1. more[k] = text[k] /\ KeyOf(text[k]) \in DOMAIN map
      BY <1>1, <1>3, <2>1
    <3>2. \A j \in Said(text) : j < k => KeyOf(text[j]) # KeyOf(text[k])
      BY <1>1, <1>5, <3>1
    <3>3. map[KeyOf(text[k])] = ValueOf(text[k])
      BY <2>1, <3>2 DEF SaysFirst
    <3> QED BY <3>1, <3>3 DEF Inserted
  <2>2. CASE k = n
    <3>1. \A j \in Said(text) : KeyOf(text[j]) # key
      BY <1>1, <1>5, <2>2
    <3>2. key \notin DOMAIN map
      BY <1>3, <3>1
    <3> QED BY <1>1, <2>2, <3>2 DEF Inserted
  <2> QED BY <1>1, <2>1, <2>2
<1> QED BY <1>4, <1>5 DEF SaysFirst

LEMMA SkipSays ==
    ASSUME NEW A, NEW text \in Seq(Seq(A)), NEW line, NEW more, OneMore(more, text, line, A),
           Comment(line), NEW map, SaysFirst(map, text)
    PROVE  SaysFirst(map, more)
<1>1. Said(more) = Said(text) /\ \A k \in Said(text) : more[k] = text[k]
  BY DEF OneMore
<1>2. {KeyOf(more[k]) : k \in Said(more)} = {KeyOf(text[k]) : k \in Said(text)}
  BY <1>1
<1> QED BY <1>1, <1>2 DEF SaysFirst

\* A configuration of comments and plain lines is read to its end, and every
\* key has the value of the first line for it, for files of any length, lines
\* of any length and any characters.
THEOREM ConfigAlwaysReads == ConfigSpec => []ConfigReads
<1>1. ConfigInit => ConfigInv
  <2> SUFFICES ASSUME ConfigInit PROVE ConfigInv
    OBVIOUS
  <2>1. lines = <<>> /\ propertiesMap = <<>> /\ reading = "reading"
    BY DEF ConfigInit
  <2>2. lines \in Seq(Seq(ConfigChars)) /\ DOMAIN lines = {} /\ DOMAIN propertiesMap = {}
    BY <2>1
  <2>3. Said(lines) = {}
    BY <2>2 DEF Said
  <2>4. SaysFirst(propertiesMap, lines)
    BY <2>2, <2>3 DEF SaysFirst
  <2> QED BY <2>1, <2>2, <2>4, ReadsMeans DEF ConfigInv
<1>2. ConfigInv /\ [ConfigNext]_configVars => ConfigInv'
  <2> SUFFICES ASSUME ConfigInv, [ConfigNext]_configVars PROVE ConfigInv'
    OBVIOUS
  <2>0. lines \in Seq(Seq(ConfigChars)) /\ ConfigReads
    BY DEF ConfigInv
  <2>r. ConfigReads' <=> ((\A k \in Said(lines') : Plain(lines'[k])) =>
                        reading' # "died" /\ SaysFirst(propertiesMap', lines'))
    <3>1. ASSUME DOMAIN propertiesMap' = {KeyOf(lines'[k]) : k \in Said(lines')}, NEW k \in Said(lines')
          PROVE  get(KeyOf(lines[k]))' = propertiesMap'[KeyOf(lines'[k])]
      BY <3>1 DEF get
    <3> QED BY <3>1 DEF ConfigReads, SaysFirst, Said
  <2>1. CASE UNCHANGED configVars
    BY <2>0, <2>1 DEF configVars, ConfigInv, ConfigReads, get
  <2>2. CASE ReadEnds
    <3>1. reading' # "died" /\ UNCHANGED <<lines, propertiesMap>>
      BY <2>2 DEF ReadEnds
    <3>2. ConfigReads'
      BY <2>0, <2>r, <3>1, ReadsMeans
    <3> QED BY <2>0, <3>1, <3>2 DEF ConfigInv
  <2>3. ASSUME NEW line \in BoundedSeq(ConfigChars, MaxLine), ReadLine(line) PROVE ConfigInv'
    <3>1. line \in Seq(ConfigChars)
      BY BoundedType, ConfigAssumption
    <3> DEFINE tokens == str_split(trim(line, BLANK), delim)
               more == Append(lines, line)
    <3>2. /\ reading = "reading" /\ lines' = more
          /\ \/ Skipped(line) /\ UNCHANGED <<propertiesMap, reading>>
             \/ /\ ~Skipped(line) /\ Len(tokens) >= 2
                /\ Insert(trim(tokens[1], BLANK), trim(tokens[2], BLANK))
                /\ UNCHANGED reading
             \/ /\ ~Skipped(line) /\ Len(tokens) < 2
                /\ reading' = "died" /\ UNCHANGED propertiesMap
      BY <2>3 DEF ReadLine
    <3>3. Skipped(line) <=> Comment(line)
      BY <3>1, SkippedIsComment
    <3>o. OneMore(more, lines, line, ConfigChars)
      BY <2>0, <3>1, AppendSaid
    <3> HIDE DEF more, tokens
    <3>4. /\ more \in Seq(Seq(ConfigChars))
          /\ \A k \in Said(lines) : more[k] = lines[k]
          /\ more[Len(lines) + 1] = line
          /\ Said(more) = IF Comment(line) THEN Said(lines) ELSE Said(lines) \cup {Len(lines) + 1}
      BY <3>o DEF OneMore
    <3>5. ASSUME \A k \in Said(more) : Plain(more[k])
          PROVE  reading' # "died" /\ SaysFirst(propertiesMap', more)
      <4>1. \A k \in Said(lines) : Plain(lines[k])
        BY <3>4, <3>5
      <4>2. SaysFirst(propertiesMap, lines)
        BY <2>0, <4>1, ReadsMeans
      <4>3. CASE Comment(line)
        <5>1. propertiesMap' = propertiesMap /\ reading' = "reading"
          BY <3>2, <3>3, <4>3
        <5> QED BY <2>0, <3>o, <4>2, <4>3, <5>1, SkipSays
      <4>4. CASE ~Comment(line)
        <5>1. Plain(line)
          BY <3>4, <3>5, <4>4
        <5>2. /\ Len(tokens) = 2
              /\ trim(tokens[1], BLANK) = KeyOf(line)
              /\ trim(tokens[2], BLANK) = ValueOf(line)
          BY <3>1, <5>1, PlainRead DEF tokens
        <5>3. Insert(KeyOf(line), ValueOf(line)) /\ reading' = "reading"
          BY <3>2, <3>3, <4>4, <5>2
        <5>4. Inserted(propertiesMap', propertiesMap, KeyOf(line), ValueOf(line))
          BY <5>3 DEF Insert, Inserted
        <5> QED BY <2>0, <3>o, <4>2, <4>4, <5>3, <5>4, InsertSays
      <4> QED BY <4>3, <4>4
    <3>6. ConfigReads'
      BY <2>r, <3>2, <3>5
    <3> QED BY <3>2, <3>4, <3>6 DEF ConfigInv
  <2> QED BY <2>1, <2>2, <2>3 DEF ConfigNext
<1>3. ConfigInv => ConfigReads
  BY DEF ConfigInv
<1> QED BY <1>1, <1>2, <1>3, PTL DEF ConfigSpec
=============================================================================
