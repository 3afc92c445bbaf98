------------------------------ MODULE FsProofs -----------------------------
(***************************************************************************)
(* TLAPS proofs about what container_fs.cpp does to the file system.       *)
(* RepoDirs: for any number of commands that make their directories at the *)
(* same time, any root file system and any overlays.  ContainerFs: for any *)
(* volumes and any number of starts.                                       *)
(***************************************************************************)
EXTENDS RepoDirs, ContainerFs, SequenceTheorems, WellFoundedInduction, TLAPS

-----------------------------------------------------------------------------
(* The directories that commands share are made by whoever comes first;    *)
(* those of a container are made by its own command.                       *)

Data == <<"data">>

\* Command c has reason to know that shared directory d is there: the n-th
\* call of mkdir_r, whether it succeeded or not, leaves the n-th of them.
Known(c, d) ==
    \/ d = Data /\ (mkdirCall[c] > 1 \/ ~fresh)
    \/ d = hoststack_repo /\ (mkdirCall[c] > 2 \/ ~fresh)
    \/ d = containers /\ (mkdirCall[c] > 3 \/ ~fresh)
    \/ d = getUnionFS /\ (mkdirCall[c] > 4 \/ ~fresh)

Own(c, d) == Len(d) >= 4 /\ d[4] = c

\* Command c has found the first j names of its path missing.
Passed(c, j) == j > depth[c] \/ (up[c] /\ j = depth[c])

DirsTyped ==
    /\ mkdirCall \in [Runs -> Nat]
    /\ depth \in [Runs -> Nat]
    /\ up \in [Runs -> BOOLEAN]
    /\ failed \in [Runs -> SUBSET Seq(STRING)]
    /\ dirs \subseteq Seq(STRING)

\* A directory is in one that is there.
Closed == \A d \in dirs : \A k \in 1..Len(d) : Prefix(d, k) \in dirs

CallOK(c) ==
    /\ mkdirCall[c] \in 1..(Len(MkdirCalls(c)) + 1)
    /\ ~Finished(c) => depth[c] <= Len(Path(c))

KnownThere(c) == \A d : Known(c, d) => d \in dirs

\* What a command has passed as missing it did not know to be there, and if
\* it is its own it is still missing.
PassedMissing(c) ==
    ~Finished(c) =>
        \A j \in 1..Len(Path(c)) : Passed(c, j) =>
            /\ ~Known(c, Prefix(Path(c), j))
            /\ Own(c, Prefix(Path(c), j)) => Prefix(Path(c), j) \notin dirs

\* The parent of a directory about to be made is there.
ParentThere(c) ==
    ~Finished(c) /\ up[c] =>
        /\ depth[c] >= 1
        /\ depth[c] > 1 => Prefix(Path(c), depth[c] - 1) \in dirs

\* From the fifth call on, calls succeed.
CallsDone(c) ==
    \A k \in 5..(mkdirCall[c] - 1) : MkdirCalls(c)[k] \in dirs

\* The third call makes the socket's directory, or fails on its parent.
SocketDone(c) ==
    /\ mkdirCall[c] > 3 => SocketDir(c) \in dirs \/ containers \in failed[c]
    /\ containers \in failed[c] => fresh

CommandOK(c) ==
    /\ CallOK(c) /\ KnownThere(c) /\ PassedMissing(c) /\ ParentThere(c)
    /\ CallsDone(c) /\ SocketDone(c)

DirsInv == DirsTyped /\ Closed /\ \A c \in Runs : CommandOK(c)

-----------------------------------------------------------------------------
(* Paths *)

LEMMA PrefixType ==
    ASSUME NEW P \in Seq(STRING), NEW j \in 1..Len(P)
    PROVE  /\ Prefix(P, j) \in Seq(STRING) /\ Len(Prefix(P, j)) = j
           /\ \A y \in 1..j : Prefix(P, j)[y] = P[y]
<1>1. Len(P) \in Nat /\ \A y \in 1..Len(P) : P[y] \in STRING
  OBVIOUS
<1>2. j \in Int /\ \A y \in 1..j : P[y] \in STRING
  BY <1>1
<1>3. /\ SubSeq(P, 1, j) \in Seq(STRING)
      /\ Len(SubSeq(P, 1, j)) = IF 1 <= j THEN j - 1 + 1 ELSE 0
      /\ \A y \in 1..(j - 1 + 1) : SubSeq(P, 1, j)[y] = P[1 + y - 1]
  BY <1>2, SubSeqProperties
<1>4. \A y \in 1..j : y \in 1..(j - 1 + 1) /\ 1 + y - 1 = y
  OBVIOUS
<1> QED BY <1>1, <1>3, <1>4 DEF Prefix

\* Paths that agree on their first j names have the same prefix.
LEMMA PrefixEqual ==
    ASSUME NEW P \in Seq(STRING), NEW Q \in Seq(STRING),
           NEW j \in 1..Len(P), j \in 1..Len(Q), \A y \in 1..j : P[y] = Q[y]
    PROVE  Prefix(P, j) = Prefix(Q, j)
<1>1. /\ Prefix(P, j) \in Seq(STRING) /\ Len(Prefix(P, j)) = j
      /\ \A y \in 1..j : Prefix(P, j)[y] = P[y]
  BY PrefixType
<1>2. /\ Prefix(Q, j) \in Seq(STRING) /\ Len(Prefix(Q, j)) = j
      /\ \A y \in 1..j : Prefix(Q, j)[y] = Q[y]
  BY PrefixType
<1> HIDE DEF Prefix
<1>3. \A y \in 1..j : Prefix(P, j)[y] = Prefix(Q, j)[y]
  BY <1>1, <1>2
<1> QED BY <1>1, <1>2, <1>3, SeqEqual

LEMMA PrefixWhole ==
    ASSUME NEW P \in Seq(STRING)
    PROVE  Prefix(P, Len(P)) = P
  BY SubSeqFull DEF Prefix

LEMMA PrefixPrefix ==
    ASSUME NEW P \in Seq(STRING), NEW j \in 1..Len(P), NEW y \in 1..j
    PROVE  Prefix(Prefix(P, j), y) = Prefix(P, y)
<1>1. /\ Prefix(P, j) \in Seq(STRING) /\ Len(Prefix(P, j)) = j
      /\ \A k \in 1..j : Prefix(P, j)[k] = P[k]
  BY PrefixType
<1>2. y \in 1..Len(P)
  OBVIOUS
<1> DEFINE Q == Prefix(P, j)
<1> HIDE DEF Q
<1>3. Q \in Seq(STRING) /\ y \in 1..Len(Q) /\ \A k \in 1..y : Q[k] = P[k]
  BY <1>1 DEF Q
<1>4. Prefix(Q, y) = Prefix(P, y)
  BY <1>2, <1>3, PrefixEqual
<1> QED BY <1>4 DEF Q

\* Append and concatenation of paths, name by name.
LEMMA AppendPath ==
    ASSUME NEW P \in Seq(STRING), NEW s \in STRING, NEW Q, Q = Append(P, s)
    PROVE  /\ Q \in Seq(STRING) /\ Len(Q) = Len(P) + 1
           /\ \A y \in 1..Len(P) : Q[y] = P[y]
           /\ Q[Len(P) + 1] = s
<1>1. Append(P, s) \in Seq(STRING) /\ Len(Append(P, s)) = Len(P) + 1
  BY AppendProperties
<1>2. \A y \in 1..Len(P) : Append(P, s)[y] = P[y]
  BY AppendProperties
<1>3. Append(P, s)[Len(P) + 1] = s
  BY AppendProperties
<1> QED BY <1>1, <1>2, <1>3, Q = Append(P, s), Zenon

\* The shared directories.
LEMMA SharedPaths ==
    /\ Data \in Seq(STRING) /\ Len(Data) = 1 /\ Data[1] = "data"
    /\ hoststack_repo \in Seq(STRING) /\ Len(hoststack_repo) = 2
    /\ hoststack_repo[1] = "data" /\ hoststack_repo[2] = "hoststack"
    /\ containers \in Seq(STRING) /\ Len(containers) = 3
    /\ containers[1] = "data" /\ containers[2] = "hoststack" /\ containers[3] = "containers"
    /\ getUnionFS \in Seq(STRING) /\ Len(getUnionFS) = 3
    /\ getUnionFS[1] = "data" /\ getUnionFS[2] = "hoststack" /\ getUnionFS[3] = "overlay2"
<1>1. /\ Data \in Seq(STRING) /\ Len(Data) = 1 /\ Data[1] = "data"
      /\ hoststack_repo \in Seq(STRING) /\ Len(hoststack_repo) = 2
      /\ hoststack_repo[1] = "data" /\ hoststack_repo[2] = "hoststack"
  BY NameAssumption DEF Data, hoststack_repo
<1>2. /\ containers \in Seq(STRING) /\ Len(containers) = 3
      /\ containers[1] = "data" /\ containers[2] = "hoststack" /\ containers[3] = "containers"
  <2> DEFINE h == hoststack_repo
  <2> HIDE DEF h
  <2>1. h \in Seq(STRING) /\ Len(h) = 2 /\ h[1] = "data" /\ h[2] = "hoststack" /\ "containers" \in STRING
    BY <1>1, NameAssumption DEF h
  <2>2. h \in Seq(STRING) /\ "containers" \in STRING /\ containers = Append(h, "containers")
    BY <2>1 DEF h, containers
  <2>3. /\ containers \in Seq(STRING) /\ Len(containers) = Len(h) + 1
        /\ \A y \in 1..Len(h) : containers[y] = h[y]
        /\ containers[Len(h) + 1] = "containers"
    BY <2>2, AppendPath
  <2> QED BY <2>1, <2>3
<1>3. /\ getUnionFS \in Seq(STRING) /\ Len(getUnionFS) = 3
      /\ getUnionFS[1] = "data" /\ getUnionFS[2] = "hoststack" /\ getUnionFS[3] = "overlay2"
  <2> DEFINE h == hoststack_repo
  <2> HIDE DEF h
  <2>1. h \in Seq(STRING) /\ Len(h) = 2 /\ h[1] = "data" /\ h[2] = "hoststack" /\ "overlay2" \in STRING
    BY <1>1, NameAssumption DEF h
  <2>2. h \in Seq(STRING) /\ "overlay2" \in STRING /\ getUnionFS = Append(h, "overlay2")
    BY <2>1 DEF h, getUnionFS
  <2>3. /\ getUnionFS \in Seq(STRING) /\ Len(getUnionFS) = Len(h) + 1
        /\ \A y \in 1..Len(h) : getUnionFS[y] = h[y]
        /\ getUnionFS[Len(h) + 1] = "overlay2"
    BY <2>2, AppendPath
  <2> QED BY <2>1, <2>3
<1> QED BY <1>1, <1>2, <1>3

LEMMA SharedDistinct ==
    /\ Data # hoststack_repo /\ Data # containers /\ Data # getUnionFS
    /\ hoststack_repo # containers /\ hoststack_repo # getUnionFS /\ containers # getUnionFS
  BY SharedPaths

\* A path below the layer of container c.
Below(c, P) ==
    /\ P \in Seq(STRING) /\ Len(P) >= 4
    /\ P[1] = "data" /\ P[2] = "hoststack" /\ P[3] = "overlay2" /\ P[4] = c

LEMMA BelowAppend ==
    ASSUME NEW c, NEW P, Below(c, P), NEW s \in STRING
    PROVE  /\ Below(c, Append(P, s)) /\ Len(Append(P, s)) = Len(P) + 1
           /\ \A y \in 1..Len(P) : Append(P, s)[y] = P[y]
           /\ Append(P, s)[Len(P) + 1] = s
<1> DEFINE Q == Append(P, s)
<1>1. P \in Seq(STRING) /\ Len(P) >= 4
  BY DEF Below
<1>2. Q \in Seq(STRING) /\ Len(Q) = Len(P) + 1
  BY <1>1, AppendProperties
<1>3. \A y \in 1..Len(P) : Q[y] = P[y]
  BY <1>1, AppendProperties
<1>4. Q[Len(P) + 1] = s
  BY <1>1, AppendProperties
<1> HIDE DEF Q
<1>5. 1 \in 1..Len(P) /\ 2 \in 1..Len(P) /\ 3 \in 1..Len(P) /\ 4 \in 1..Len(P) /\ Len(Q) >= 4
  BY <1>1, <1>2
<1>6. Q[1] = P[1] /\ Q[2] = P[2] /\ Q[3] = P[3] /\ Q[4] = P[4]
  BY <1>3, <1>5
<1>7. Below(c, Q)
  BY <1>2, <1>5, <1>6 DEF Below
<1> QED BY <1>2, <1>3, <1>4, <1>7 DEF Q

LEMMA LayerPaths ==
    ASSUME NEW c \in Runs
    PROVE  /\ Below(c, getDiffDir(c)) /\ Len(getDiffDir(c)) = 5 /\ getDiffDir(c)[5] = "diff"
           /\ Below(c, getWorkDir(c)) /\ Len(getWorkDir(c)) = 5
           /\ Below(c, getMergedDir(c)) /\ Len(getMergedDir(c)) = 5
<1>1. c \in STRING
  BY RepoAssumption
<1>2. Below(c, getLayerDir(c)) /\ Len(getLayerDir(c)) = 4
  <2> DEFINE h == getUnionFS
  <2> HIDE DEF h
  <2>1. /\ h \in Seq(STRING) /\ Len(h) = 3
        /\ h[1] = "data" /\ h[2] = "hoststack" /\ h[3] = "overlay2"
    BY SharedPaths DEF h
  <2>2. h \in Seq(STRING) /\ getLayerDir(c) = Append(h, c)
    BY <2>1 DEF h, getLayerDir
  <2>3. /\ getLayerDir(c) \in Seq(STRING) /\ Len(getLayerDir(c)) = Len(h) + 1
        /\ \A y \in 1..Len(h) : getLayerDir(c)[y] = h[y]
        /\ getLayerDir(c)[Len(h) + 1] = c
    BY <1>1, <2>2, AppendPath
  <2> QED BY <2>1, <2>3 DEF Below
<1>3. ASSUME NEW s \in STRING
      PROVE  /\ Below(c, Append(getLayerDir(c), s)) /\ Len(Append(getLayerDir(c), s)) = 5
             /\ Append(getLayerDir(c), s)[5] = s
  <2> DEFINE k == Append(getLayerDir(c), s)
  <2>1. /\ Below(c, k) /\ Len(k) = Len(getLayerDir(c)) + 1
        /\ k[Len(getLayerDir(c)) + 1] = s
    BY <1>2, <1>3, BelowAppend
  <2> HIDE DEF k
  <2> DEFINE n == Len(getLayerDir(c))
  <2> HIDE DEF n
  <2>a. n = 4 /\ Below(c, k) /\ Len(k) = n + 1 /\ k[n + 1] = s
    BY <1>2, <2>1 DEF n
  <2>b. n + 1 = 5
    BY <2>a
  <2>2. Below(c, k) /\ Len(k) = 5 /\ k[5] = s
    BY <2>a, <2>b, Zenon
  <2> QED BY <2>2 DEF k
<1>4. "diff" \in STRING /\ "work" \in STRING /\ "merged" \in STRING
  BY NameAssumption
<1> QED BY <1>3, <1>4 DEF getDiffDir, getWorkDir, getMergedDir

LEMMA BelowConcat ==
    ASSUME NEW c, NEW P, Below(c, P), NEW Q \in Seq(STRING)
    PROVE  Below(c, P \o Q) /\ Len(P \o Q) = Len(P) + Len(Q)
<1>1. P \in Seq(STRING)
  BY DEF Below
<1>2. /\ P \o Q \in Seq(STRING)
      /\ Len(P \o Q) = Len(P) + Len(Q)
      /\ \A y \in 1 .. Len(P) + Len(Q) : (P \o Q)[y] =
                     IF y <= Len(P) THEN P[y] ELSE Q[y - Len(P)]
  BY <1>1, ConcatProperties
<1>3. Len(P) \in Nat /\ Len(Q) \in Nat
  BY <1>1
<1> DEFINE R == P \o Q
<1> HIDE DEF R
<1>4. /\ R \in Seq(STRING) /\ Len(R) = Len(P) + Len(Q)
      /\ \A y \in 1 .. Len(P) + Len(Q) : R[y] = IF y <= Len(P) THEN P[y] ELSE Q[y - Len(P)]
  BY <1>2 DEF R
<1>5. R[1] = P[1] /\ R[2] = P[2] /\ R[3] = P[3] /\ R[4] = P[4] /\ Len(R) >= 4
  BY <1>3, <1>4 DEF Below
<1>6. Below(c, R)
  BY <1>4, <1>5 DEF Below
<1> QED BY <1>2, <1>6 DEF R

\* The calls of mkdir_r, one by one.
LEMMA CallsList ==
    ASSUME NEW c \in Runs
    PROVE  /\ MkdirCalls(c) \in Seq(Seq(STRING))
           /\ Len(MkdirCalls(c)) = 6 + Len(fslist) + 2 * Len(overlays)
           /\ MkdirCalls(c)[1] = containers /\ MkdirCalls(c)[2] = getUnionFS
           /\ MkdirCalls(c)[3] = SocketDir(c) /\ MkdirCalls(c)[4] = getDiffDir(c)
           /\ \A k \in 4..Len(MkdirCalls(c)) : Below(c, MkdirCalls(c)[k]) /\ Len(MkdirCalls(c)[k]) >= 5
           /\ MkdirCalls(c)[7 + Len(fslist)] = Append(getDiffDir(c), overlays[1])
<1> DEFINE S == Seq(STRING)
           a == create_repo
           t == <<SocketDir(c), getDiffDir(c), getWorkDir(c), getMergedDir(c)>>
           f == [k \in DOMAIN fslist |-> getMergedDir(c) \o fslist[k]]
           m == mount_container(c)
           n == Len(fslist)
           v == Len(overlays)
<1>n. n \in Nat /\ v \in Nat /\ v >= 1 /\ DOMAIN fslist = 1..n /\ DOMAIN overlays = 1..v
  BY RepoAssumption
<1>1. a \in Seq(S) /\ Len(a) = 2 /\ a[1] = containers /\ a[2] = getUnionFS
  <2>1. containers \in S /\ getUnionFS \in S
    BY SharedPaths
  <2> HIDE DEF S
  <2> QED BY <2>1 DEF create_repo
<1>2. /\ t \in Seq(S) /\ Len(t) = 4
      /\ t[1] = SocketDir(c) /\ t[2] = getDiffDir(c) /\ t[3] = getWorkDir(c) /\ t[4] = getMergedDir(c)
  <2>1. c \in STRING /\ containers \in Seq(STRING)
    BY RepoAssumption, SharedPaths
  <2>2. SocketDir(c) \in S
    BY <2>1, AppendProperties DEF SocketDir
  <2>3. getDiffDir(c) \in S /\ getWorkDir(c) \in S /\ getMergedDir(c) \in S
    BY LayerPaths DEF Below
  <2> HIDE DEF S
  <2> QED BY <2>2, <2>3
<1>3. /\ f \in Seq(S) /\ Len(f) = n
      /\ \A k \in 1..n : f[k] \in S /\ Below(c, f[k]) /\ Len(f[k]) >= 5
  <2>1. ASSUME NEW k \in 1..n
        PROVE  LET P == getMergedDir(c) \o fslist[k] IN P \in S /\ Below(c, P) /\ Len(P) >= 5
    <3>1. fslist[k] \in Seq(STRING)
      BY <1>n, <2>1, RepoAssumption
    <3>2. Below(c, getMergedDir(c)) /\ Len(getMergedDir(c)) = 5
      BY LayerPaths
    <3> DEFINE P == getMergedDir(c) \o fslist[k]
    <3>3. Below(c, P) /\ Len(P) = Len(getMergedDir(c)) + Len(fslist[k])
      BY <3>1, <3>2, BelowConcat
    <3> HIDE DEF P
    <3>4. Len(fslist[k]) \in Nat
      BY <3>1
    <3>5. Len(P) >= 5
      BY <3>2, <3>3, <3>4
    <3>6. P \in S /\ Below(c, P) /\ Len(P) >= 5
      BY <3>3, <3>5 DEF Below
    <3> QED BY <3>6 DEF P
  <2>2. \A k \in 1..n : f[k] = getMergedDir(c) \o fslist[k]
    BY <1>n
  <2>3. \A k \in 1..n : f[k] \in S /\ Below(c, f[k]) /\ Len(f[k]) >= 5
    BY <2>1, <2>2
  <2>4. f = [k \in 1..n |-> f[k]]
    BY <1>n
  <2> HIDE DEF f, S, n
  <2>5. [k \in 1..n |-> f[k]] \in Seq(S) /\ Len([k \in 1..n |-> f[k]]) = n
    BY <1>n, <2>3, IsASeq, LenProperties
  <2> QED BY <2>3, <2>4, <2>5
<1>4. /\ m \in Seq(S) /\ Len(m) = 2 * v
      /\ \A k \in 1..(2 * v) : m[k] \in S /\ Below(c, m[k]) /\ Len(m[k]) >= 5
      /\ m[1] = Append(getDiffDir(c), overlays[1])
  <2> DEFINE d(k) == IF k % 2 = 1 THEN getDiffDir(c) ELSE getWorkDir(c)
             o(k) == overlays[(k + 1) \div 2]
  <2>1. m = [k \in 1..(2 * v) |-> Append(d(k), o(k))]
    BY DEF mount_container
  <2>2. ASSUME NEW k \in 1..(2 * v)
        PROVE  /\ Append(d(k), o(k)) \in S /\ Below(c, Append(d(k), o(k)))
               /\ Len(Append(d(k), o(k))) >= 5
    <3>1. (k + 1) \div 2 \in 1..v
      <4> HIDE DEF v
      <4> QED BY <1>n, <2>2
    <3>2. o(k) \in STRING
      BY <1>n, <3>1, RepoAssumption
    <3>3. Below(c, d(k)) /\ Len(d(k)) = 5
      BY LayerPaths
    <3> HIDE DEF d, o
    <3>4. Below(c, Append(d(k), o(k))) /\ Len(Append(d(k), o(k))) = Len(d(k)) + 1
      BY <3>2, <3>3, BelowAppend
    <3> DEFINE P == Append(d(k), o(k))
    <3> HIDE DEF P
    <3>5. Below(c, P) /\ Len(P) = Len(d(k)) + 1
      BY <3>4 DEF P
    <3>6. P \in S /\ Below(c, P) /\ Len(P) >= 5
      BY <3>3, <3>5 DEF Below
    <3> QED BY <3>6 DEF P
  <2>3. 1 \in 1..(2 * v) /\ 1 % 2 = 1 /\ (1 + 1) \div 2 = 1
    <3> HIDE DEF v
    <3> QED BY <1>n
  <2>4. m[1] = Append(getDiffDir(c), overlays[1])
    BY <2>1, <2>3
  <2>5. \A k \in 1..(2 * v) : m[k] \in S /\ Below(c, m[k]) /\ Len(m[k]) >= 5
    <3> HIDE DEF d, o
    <3> QED BY <2>1, <2>2
  <2>6. 2 * v \in Nat
    <3> HIDE DEF v
    <3> QED BY <1>n
  <2>7. m = [k \in 1..(2 * v) |-> m[k]]
    <3> HIDE DEF d, o, v
    <3> QED BY <2>1
  <2> HIDE DEF m, S
  <2>8. [k \in 1..(2 * v) |-> m[k]] \in Seq(S) /\ Len([k \in 1..(2 * v) |-> m[k]]) = 2 * v
    BY <2>5, <2>6, IsASeq, LenProperties
  <2> QED BY <2>4, <2>5, <2>7, <2>8
<1> DEFINE M == MkdirCalls(c)
<1>5. M = (a \o (t \o f)) \o m
  BY DEF MkdirCalls, create_container, SocketDir
<1> HIDE DEF a, t, f, m, S, n, v, M
<1>6. /\ t \o f \in Seq(S) /\ Len(t \o f) = Len(t) + Len(f)
      /\ \A y \in 1 .. Len(t) + Len(f) : (t \o f)[y] = IF y <= Len(t) THEN t[y] ELSE f[y - Len(t)]
  <2>1. t \in Seq(S) /\ f \in Seq(S)
    BY <1>2, <1>3
  <2> QED BY <2>1, ConcatProperties
<1> DEFINE g == t \o f
<1> HIDE DEF g
<1>7. /\ g \in Seq(S) /\ Len(g) = 4 + n
      /\ \A y \in 1..(4 + n) : g[y] = IF y <= 4 THEN t[y] ELSE f[y - 4]
  BY <1>2, <1>3, <1>6 DEF g
<1>8. /\ a \o g \in Seq(S) /\ Len(a \o g) = Len(a) + Len(g)
      /\ \A y \in 1 .. Len(a) + Len(g) : (a \o g)[y] = IF y <= Len(a) THEN a[y] ELSE g[y - Len(a)]
  <2>1. a \in Seq(S) /\ g \in Seq(S)
    BY <1>1, <1>7
  <2> QED BY <2>1, ConcatProperties
<1> DEFINE h == a \o g
<1> HIDE DEF h
<1>9. /\ h \in Seq(S) /\ Len(h) = 2 + (4 + n)
      /\ \A y \in 1..(2 + (4 + n)) : h[y] = IF y <= 2 THEN a[y] ELSE g[y - 2]
  BY <1>1, <1>7, <1>8 DEF h
<1>10. /\ h \o m \in Seq(S) /\ Len(h \o m) = Len(h) + Len(m)
       /\ \A y \in 1 .. Len(h) + Len(m) : (h \o m)[y] = IF y <= Len(h) THEN h[y] ELSE m[y - Len(h)]
  <2>1. h \in Seq(S) /\ m \in Seq(S)
    BY <1>4, <1>9
  <2> QED BY <2>1, ConcatProperties
<1>11. M = h \o m
  BY <1>5 DEF h, g
<1>12. /\ M \in Seq(S) /\ Len(M) = (6 + n) + 2 * v
       /\ \A y \in 1..((6 + n) + 2 * v) : M[y] = IF y <= 6 + n THEN h[y] ELSE m[y - (6 + n)]
  <2>1. Len(h) = 6 + n /\ Len(m) = 2 * v
    BY <1>n, <1>4, <1>9
  <2> QED BY <1>10, <1>11, <2>1
<1>13. \A y \in 1..(6 + n) : h[y] = IF y <= 2 THEN a[y] ELSE IF y <= 6 THEN t[y - 2] ELSE f[y - 6]
  <2> SUFFICES ASSUME NEW y \in 1..(6 + n)
               PROVE  h[y] = IF y <= 2 THEN a[y] ELSE IF y <= 6 THEN t[y - 2] ELSE f[y - 6]
    OBVIOUS
  <2>1. h[y] = IF y <= 2 THEN a[y] ELSE g[y - 2]
    BY <1>n, <1>9
  <2>2. y > 2 => g[y - 2] = IF y - 2 <= 4 THEN t[y - 2] ELSE f[(y - 2) - 4]
    BY <1>n, <1>7
  <2>3. (y - 2) - 4 = y - 6 /\ (y - 2 <= 4 <=> y <= 6)
    BY <1>n
  <2> QED BY <1>n, <2>1, <2>2, <2>3
<1>14. M[1] = containers /\ M[2] = getUnionFS /\ M[3] = SocketDir(c) /\ M[4] = getDiffDir(c)
       /\ M[5] = getWorkDir(c) /\ M[6] = getMergedDir(c)
  <2>1. \A y \in 1..6 : M[y] = h[y]
    BY <1>n, <1>12
  <2>2. \A y \in 1..6 : h[y] = IF y <= 2 THEN a[y] ELSE t[y - 2]
    BY <1>n, <1>13
  <2> QED BY <1>1, <1>2, <2>1, <2>2
<1>15. ASSUME NEW k \in 4..Len(M)
       PROVE  Below(c, M[k]) /\ Len(M[k]) >= 5
  <2>1. CASE k <= 6
    <3>1. k = 4 \/ k = 5 \/ k = 6
      BY <1>n, <1>12, <1>15, <2>1
    <3> QED BY <1>14, <3>1, LayerPaths
  <2>2. CASE k > 6 /\ k <= 6 + n
    <3>1. M[k] = f[k - 6] /\ k - 6 \in 1..n
      BY <1>n, <1>12, <1>13, <1>15, <2>2
    <3> QED BY <1>3, <3>1
  <2>3. CASE k > 6 + n
    <3>1. M[k] = m[k - (6 + n)] /\ k - (6 + n) \in 1..(2 * v)
      BY <1>n, <1>12, <1>15, <2>3
    <3> QED BY <1>4, <3>1
  <2>4. k \in Int /\ n \in Int
    BY <1>n, <1>12
  <2> QED BY <2>1, <2>2, <2>3, <2>4
<1>16. M[7 + n] = Append(getDiffDir(c), overlays[1])
  <2>1. 7 + n \in 1..((6 + n) + 2 * v) /\ ~(7 + n <= 6 + n) /\ (7 + n) - (6 + n) = 1
    BY <1>n
  <2> QED BY <1>4, <1>12, <2>1
<1>17. Len(M) = 6 + n + 2 * v
  BY <1>n, <1>12
<1> QED BY <1>12, <1>14, <1>15, <1>16, <1>17 DEF M, S, n, v

LEMMA SocketPath ==
    ASSUME NEW c \in Runs
    PROVE  /\ Len(SocketDir(c)) = 4 /\ SocketDir(c)[4] = c
           /\ SocketDir(c)[1] = "data" /\ SocketDir(c)[2] = "hoststack"
           /\ SocketDir(c)[3] = "containers"
<1> DEFINE h == containers
<1> HIDE DEF h
<1>1. /\ h \in Seq(STRING) /\ Len(h) = 3
      /\ h[1] = "data" /\ h[2] = "hoststack" /\ h[3] = "containers"
  BY SharedPaths DEF h
<1>2. h \in Seq(STRING) /\ SocketDir(c) = Append(h, c) /\ c \in STRING
  BY <1>1, RepoAssumption DEF h, SocketDir
<1>3. /\ Len(Append(h, c)) = Len(h) + 1
      /\ \A y \in 1..Len(h) : Append(h, c)[y] = h[y]
      /\ Append(h, c)[Len(h) + 1] = c
  <2>1. h \in Seq(STRING) /\ c \in STRING
    BY <1>2
  <2>2. Len(Append(h, c)) = Len(h) + 1
    BY <2>1, AppendProperties
  <2>3. \A y \in 1..Len(h) : Append(h, c)[y] = h[y]
    BY <2>1, AppendProperties
  <2>4. Append(h, c)[Len(h) + 1] = c
    BY <2>1, AppendProperties
  <2> QED BY <2>2, <2>3, <2>4
<1> DEFINE Q == SocketDir(c)
<1> HIDE DEF Q
<1>4. Len(Q) = Len(h) + 1 /\ (\A y \in 1..Len(h) : Q[y] = h[y]) /\ Q[Len(h) + 1] = c
  BY <1>2, <1>3, Zenon DEF Q
<1>5. /\ Len(Q) = 4 /\ Q[4] = c /\ Q[1] = "data" /\ Q[2] = "hoststack" /\ Q[3] = "containers"
  BY <1>1, <1>4
<1> QED BY <1>5 DEF Q

\* The first three names of each path are shared directories, the rest is the
\* command's own.
LEMMA CallPath ==
    ASSUME NEW c \in Runs, NEW k \in 1..Len(MkdirCalls(c)), NEW P, P = MkdirCalls(c)[k]
    PROVE  /\ P \in Seq(STRING) /\ Len(P) \in Nat /\ Len(P) >= 3
           /\ Prefix(P, 1) = Data /\ Prefix(P, 2) = hoststack_repo
           /\ Prefix(P, 3) = IF k = 1 \/ k = 3 THEN containers ELSE getUnionFS
           /\ k <= 2 <=> Len(P) = 3
           /\ k = 3 => Len(P) = 4 /\ P = SocketDir(c)
           /\ Len(P) >= 4 => P[4] = c
<1>1. Len(MkdirCalls(c)) \in Nat
  BY CallsList
<1>2. P \in Seq(STRING) /\ Len(P) \in Nat
  BY CallsList
<1>3. /\ Len(P) >= 3 /\ P[1] = "data" /\ P[2] = "hoststack"
      /\ P[3] = IF k = 1 \/ k = 3 THEN "containers" ELSE "overlay2"
      /\ k <= 2 <=> Len(P) = 3
      /\ k = 3 => Len(P) = 4 /\ P = SocketDir(c)
      /\ Len(P) >= 4 => P[4] = c
  <2>1. CASE k = 1
    <3>1. P = containers
      BY <2>1, CallsList
    <3> QED BY <2>1, <3>1, SharedPaths
  <2>2. CASE k = 2
    <3>1. P = getUnionFS
      BY <2>2, CallsList
    <3> QED BY <2>2, <3>1, SharedPaths
  <2>3. CASE k = 3
    <3>1. P = SocketDir(c)
      BY <2>3, CallsList
    <3> QED BY <2>3, <3>1, SocketPath
  <2>4. CASE k >= 4
    <3>a. k \in 4..Len(MkdirCalls(c))
      BY <1>1, <2>4
    <3>b. Below(c, MkdirCalls(c)[k]) /\ Len(MkdirCalls(c)[k]) >= 5
      BY <3>a, CallsList
    <3>1. Below(c, P) /\ Len(P) >= 5
      BY <3>b
    <3> QED BY <1>2, <2>4, <3>1 DEF Below
  <2> QED BY <1>1, <2>1, <2>2, <2>3, <2>4
<1>4. ASSUME NEW Q \in Seq(STRING), NEW j \in 1..3, Len(Q) = j, \A y \in 1..j : P[y] = Q[y]
      PROVE  Prefix(P, j) = Q
  <2>1. j \in 1..Len(P) /\ j \in 1..Len(Q)
    BY <1>2, <1>3, <1>4
  <2>2. Prefix(P, j) = Prefix(Q, j)
    BY <1>2, <1>4, <2>1, PrefixEqual
  <2> QED BY <1>4, <2>2, PrefixWhole
<1>5. Prefix(P, 1) = Data
  <2>1. \A y \in 1..1 : P[y] = Data[y]
    BY <1>3, SharedPaths
  <2> QED BY <1>4, <2>1, SharedPaths
<1>6. Prefix(P, 2) = hoststack_repo
  <2>1. \A y \in 1..2 : P[y] = hoststack_repo[y]
    BY <1>3, SharedPaths
  <2> QED BY <1>4, <2>1, SharedPaths
<1>7. Prefix(P, 3) = IF k = 1 \/ k = 3 THEN containers ELSE getUnionFS
  <2> DEFINE h == IF k = 1 \/ k = 3 THEN containers ELSE getUnionFS
  <2>1. h \in Seq(STRING) /\ Len(h) = 3 /\ \A y \in 1..3 : P[y] = h[y]
    BY <1>3, SharedPaths
  <2> HIDE DEF h
  <2>2. Prefix(P, 3) = h
    BY <1>4, <2>1
  <2> QED BY <2>2 DEF h
<1> QED BY <1>2, <1>3, <1>5, <1>6, <1>7

-----------------------------------------------------------------------------
(* Steps *)

LEMMA KnownShared ==
    ASSUME NEW c
    PROVE  /\ Known(c, Data) <=> (mkdirCall[c] > 1 \/ ~fresh)
           /\ Known(c, hoststack_repo) <=> (mkdirCall[c] > 2 \/ ~fresh)
           /\ Known(c, containers) <=> (mkdirCall[c] > 3 \/ ~fresh)
           /\ Known(c, getUnionFS) <=> (mkdirCall[c] > 4 \/ ~fresh)
  BY SharedDistinct DEF Known

\* A command adds no directory of another.
LEMMA OwnPrefix ==
    ASSUME NEW c \in Runs, NEW k \in 1..Len(MkdirCalls(c)), NEW j \in 1..Len(MkdirCalls(c)[k])
    PROVE  /\ \A q : Own(q, Prefix(MkdirCalls(c)[k], j)) => q = c
           /\ j >= 4 => Own(c, Prefix(MkdirCalls(c)[k], j))
<1> DEFINE P == MkdirCalls(c)[k]
<1>1. P \in Seq(STRING) /\ Len(P) \in Nat /\ (Len(P) >= 4 => P[4] = c)
  BY CallPath
<1> HIDE DEF P
<1>2. j \in 1..Len(P)
  BY DEF P
<1>3. /\ Len(Prefix(P, j)) = j
      /\ \A y \in 1..j : Prefix(P, j)[y] = P[y]
  BY <1>1, <1>2, PrefixType
<1>4. j >= 4 => Prefix(P, j)[4] = c
  BY <1>1, <1>2, <1>3
<1>5. /\ \A q : Own(q, Prefix(P, j)) => q = c
      /\ j >= 4 => Own(c, Prefix(P, j))
  BY <1>1, <1>2, <1>3, <1>4 DEF Own
<1> QED BY <1>5 DEF P

\* The steps of one command leave what holds of another.
LEMMA OthersKept ==
    ASSUME NEW q \in Runs, CommandOK(q),
           mkdirCall'[q] = mkdirCall[q], depth'[q] = depth[q], up'[q] = up[q],
           failed'[q] = failed[q], fresh' = fresh, dirs \subseteq dirs',
           \A d \in dirs' \ dirs : ~Own(q, d)
    PROVE  CommandOK(q)'
<1>1. Finished(q)' <=> Finished(q)
  BY DEF Finished
<1>2. Path(q)' = Path(q)
  BY DEF Path
<1>3. \A d : Known(q, d)' <=> Known(q, d)
  BY DEF Known
<1>4. \A j : Passed(q, j)' <=> Passed(q, j)
  BY DEF Passed
<1>5. CallOK(q)'
  BY <1>1, <1>2 DEF CommandOK, CallOK
<1>6. KnownThere(q)'
  BY <1>3 DEF CommandOK, KnownThere
<1>7. PassedMissing(q)'
  <2> SUFFICES ASSUME ~Finished(q), NEW j \in 1..Len(Path(q)), Passed(q, j)
               PROVE  /\ ~Known(q, Prefix(Path(q), j))
                      /\ Own(q, Prefix(Path(q), j)) => Prefix(Path(q), j) \notin dirs'
    BY <1>1, <1>2, <1>3, <1>4 DEF PassedMissing
  <2>1. /\ ~Known(q, Prefix(Path(q), j))
        /\ Own(q, Prefix(Path(q), j)) => Prefix(Path(q), j) \notin dirs
    BY DEF CommandOK, PassedMissing
  <2> QED BY <2>1
<1>8. ParentThere(q)'
  BY <1>1, <1>2 DEF CommandOK, ParentThere
<1>9. CallsDone(q)'
  BY DEF CommandOK, CallsDone
<1>10. SocketDone(q)'
  BY DEF CommandOK, SocketDone
<1> QED BY <1>5, <1>6, <1>7, <1>8, <1>9, <1>10 DEF CommandOK

\* A call that returns, having left what it had to.
LEMMA Returned ==
    ASSUME NEW c \in Runs, DirsTyped, CommandOK(c), ~Finished(c), MkdirReturn(c),
           dirs \subseteq dirs', fresh' = fresh, failed[c] \subseteq failed'[c],
           mkdirCall[c] = 1 => Data \in dirs',
           mkdirCall[c] = 2 => hoststack_repo \in dirs',
           mkdirCall[c] = 3 => containers \in dirs',
           mkdirCall[c] = 4 => getUnionFS \in dirs',
           mkdirCall[c] >= 5 => Path(c) \in dirs',
           mkdirCall[c] = 3 => SocketDir(c) \in dirs' \/ containers \in failed'[c],
           containers \in failed'[c] => fresh
    PROVE  CommandOK(c)'
<1> DEFINE m == mkdirCall[c]
           L == Len(MkdirCalls(c))
<1>1. m \in Nat /\ L \in Nat /\ m \in 1..L
  <2>1. L \in Nat
    BY CallsList
  <2>2. m \in 1..(L + 1) /\ ~(m > L)
    BY DEF CommandOK, CallOK, Finished
  <2> QED BY <2>1, <2>2
<1>2. /\ mkdirCall'[c] = m + 1 /\ up'[c] = FALSE
      /\ depth'[c] = IF m < L THEN Len(MkdirCalls(c)[m + 1]) ELSE 0
  BY DEF DirsTyped, MkdirReturn
<1>3. ASSUME ~Finished(c)'
      PROVE  m + 1 \in 1..L /\ Path(c)' = MkdirCalls(c)[m + 1] /\ depth'[c] = Len(Path(c)')
             /\ Len(Path(c)') \in Nat
  <2>1. m + 1 \in 1..L
    BY <1>1, <1>2, <1>3 DEF Finished
  <2>2. Path(c)' = MkdirCalls(c)[m + 1]
    BY <1>2 DEF Path
  <2>3. Len(MkdirCalls(c)[m + 1]) \in Nat
    BY <2>1, CallPath
  <2> QED BY <1>1, <1>2, <2>1, <2>2, <2>3
<1>5. CallOK(c)'
  <2>1. mkdirCall'[c] \in 1..(L + 1)
    BY <1>1, <1>2
  <2> QED BY <1>3, <2>1 DEF CallOK
<1>6. KnownThere(c)'
  <2> SUFFICES ASSUME NEW d, Known(c, d)' PROVE d \in dirs'
    BY DEF KnownThere
  <2>1. CASE Known(c, d)
    BY <2>1 DEF CommandOK, KnownThere
  <2>2. CASE ~Known(c, d)
    <3>1. \/ d = Data /\ m = 1
          \/ d = hoststack_repo /\ m = 2
          \/ d = containers /\ m = 3
          \/ d = getUnionFS /\ m = 4
      BY <1>1, <1>2, <2>2 DEF Known
    <3> QED BY <3>1
  <2> QED BY <2>1, <2>2
<1>7. PassedMissing(c)'
  <2>1. ASSUME ~Finished(c)', NEW j \in 1..Len(Path(c)')
        PROVE  ~Passed(c, j)'
    <3>1. Passed(c, j)' <=> (j > depth'[c] \/ (up'[c] /\ j = depth'[c]))
      BY DEF Passed
    <3>2. depth'[c] = Len(Path(c)') /\ Len(Path(c)') \in Nat
      BY <1>3, <2>1
    <3> QED BY <1>2, <3>1, <3>2
  <2> QED BY <2>1 DEF PassedMissing
<1>8. ParentThere(c)'
  BY <1>2 DEF ParentThere
<1>9. CallsDone(c)'
  <2> SUFFICES ASSUME NEW k \in 5..(mkdirCall'[c] - 1) PROVE MkdirCalls(c)[k] \in dirs'
    BY DEF CallsDone
  <2>1. k \in 5..(m - 1) \/ (k = m /\ m >= 5)
    BY <1>1, <1>2
  <2>2. CASE k \in 5..(m - 1)
    BY <2>2 DEF CommandOK, CallsDone
  <2>3. CASE k = m /\ m >= 5
    BY <2>3 DEF Path
  <2> QED BY <2>1, <2>2, <2>3
<1>10. SocketDone(c)'
  <2>1. mkdirCall'[c] > 3 => m > 3 \/ m = 3
    BY <1>1, <1>2
  <2>2. m > 3 => SocketDir(c) \in dirs \/ containers \in failed[c]
    BY DEF CommandOK, SocketDone
  <2>3. mkdirCall'[c] > 3 => SocketDir(c) \in dirs' \/ containers \in failed'[c]
    BY <2>1, <2>2
  <2> QED BY <2>3 DEF SocketDone
<1> QED BY <1>5, <1>6, <1>7, <1>8, <1>9, <1>10 DEF CommandOK

\* Where a command is in its path.
LEMMA Where ==
    ASSUME NEW c \in Runs, DirsTyped, CommandOK(c), ~Finished(c)
    PROVE  /\ Len(MkdirCalls(c)) \in Nat /\ mkdirCall[c] \in 1..Len(MkdirCalls(c))
           /\ Path(c) = MkdirCalls(c)[mkdirCall[c]]
           /\ Path(c) \in Seq(STRING) /\ Len(Path(c)) \in Nat /\ Len(Path(c)) >= 3
           /\ depth[c] \in 0..Len(Path(c))
<1> DEFINE m == mkdirCall[c]
           L == Len(MkdirCalls(c))
<1>1. L \in Nat
  BY CallsList
<1>2. m \in 1..(L + 1) /\ ~(m > L) /\ depth[c] <= Len(Path(c)) /\ depth[c] \in Nat
  BY DEF DirsTyped, CommandOK, CallOK, Finished
<1>3. m \in 1..L
  BY <1>1, <1>2
<1>4. Path(c) = MkdirCalls(c)[m]
  BY DEF Path
<1>5. Path(c) \in Seq(STRING) /\ Len(Path(c)) \in Nat /\ Len(Path(c)) >= 3
  BY <1>3, <1>4, CallPath
<1> QED BY <1>1, <1>2, <1>3, <1>4, <1>5

\* The shared directories on the path of each call.
LEMMA SharedOnPath ==
    ASSUME NEW c \in Runs, DirsTyped, CommandOK(c), ~Finished(c)
    PROVE  /\ Prefix(Path(c), 1) = Data /\ Prefix(Path(c), 2) = hoststack_repo
           /\ mkdirCall[c] = 3 => /\ Prefix(Path(c), 3) = containers
                                  /\ Path(c) = SocketDir(c) /\ Len(Path(c)) = 4
           /\ mkdirCall[c] >= 4 => Prefix(Path(c), 3) = getUnionFS
           /\ mkdirCall[c] = 1 => Prefix(Path(c), 3) = containers
           /\ mkdirCall[c] = 2 => Prefix(Path(c), 3) = getUnionFS
<1> DEFINE m == mkdirCall[c]
           P == Path(c)
<1>1. m \in 1..Len(MkdirCalls(c)) /\ P = MkdirCalls(c)[m]
  BY Where
<1>2. m \in Nat
  BY DEF DirsTyped
<1> HIDE DEF m, P
<1>3. /\ Prefix(P, 1) = Data /\ Prefix(P, 2) = hoststack_repo
      /\ Prefix(P, 3) = IF m = 1 \/ m = 3 THEN containers ELSE getUnionFS
      /\ m = 3 => Len(P) = 4 /\ P = SocketDir(c)
  BY <1>1, CallPath
<1>4. (m = 3 => m = 1 \/ m = 3) /\ (m >= 4 => ~(m = 1 \/ m = 3)) /\ (m = 2 => ~(m = 1 \/ m = 3))
  BY <1>2
<1> QED BY <1>3, <1>4 DEF m, P

\* A call that found or made the first depth[c] names goes on.
LEMMA Succeeds ==
    ASSUME NEW c \in Runs, DirsTyped, CommandOK(c), ~Finished(c), Closed',
           MkdirReturns(c, depth[c]),
           depth[c] = 0 \/ Prefix(Path(c), depth[c]) \in dirs',
           dirs \subseteq dirs', dirs' \ dirs \subseteq {Prefix(Path(c), depth[c])},
           depth[c] = 0 => dirs' = dirs,
           fresh' = fresh, failed' = failed
    PROVE  CommandOK(c)'
<1> DEFINE P == Path(c)
           k == depth[c]
<1>1. P \in Seq(STRING) /\ Len(P) \in Nat /\ Len(P) >= 3 /\ k \in 0..Len(P)
  BY Where
<1>2. CASE k = Len(P)
  <2>1. MkdirReturn(c)
    BY <1>2 DEF MkdirReturns
  <2>2. P \in dirs'
    BY <1>1, <1>2, PrefixWhole
  <2>3. \A y \in 1..Len(P) : Prefix(P, y) \in dirs'
    BY <2>2 DEF Closed
  <2>4. Prefix(P, 1) \in dirs' /\ Prefix(P, 2) \in dirs' /\ Prefix(P, 3) \in dirs'
    BY <1>1, <2>3
  <2>5. containers \in failed'[c] => fresh
    BY DEF CommandOK, SocketDone
  <2>6. mkdirCall[c] \in Nat
    BY DEF DirsTyped
  <2>7. /\ Data \in dirs' /\ hoststack_repo \in dirs'
        /\ mkdirCall[c] = 3 => containers \in dirs' /\ SocketDir(c) \in dirs'
        /\ mkdirCall[c] = 4 => getUnionFS \in dirs'
    BY <2>2, <2>4, <2>6, SharedOnPath
  <2> QED BY <2>1, <2>2, <2>5, <2>7, Returned
<1>3. CASE k # Len(P)
  <2>1. mkdirCall' = mkdirCall /\ depth'[c] = k + 1 /\ up'[c] = TRUE
    BY <1>3 DEF MkdirReturns, DirsTyped
  <2>2. (Finished(c)' <=> Finished(c)) /\ P' = P
    BY <2>1 DEF Finished, Path
  <2>3. \A d : Known(c, d)' <=> Known(c, d)
    BY <2>1 DEF Known
  <2>5. CallOK(c)'
    BY <1>1, <1>3, <2>1, <2>2 DEF CommandOK, CallOK
  <2>6. KnownThere(c)'
    BY <2>3 DEF CommandOK, KnownThere
  <2>7. PassedMissing(c)'
    <3> SUFFICES ASSUME NEW j \in 1..Len(P), Passed(c, j)'
                 PROVE  /\ ~Known(c, Prefix(P, j))
                        /\ Own(c, Prefix(P, j)) => Prefix(P, j) \notin dirs'
      BY <2>2, <2>3 DEF PassedMissing
    <3>1. j > k
      BY <1>1, <2>1 DEF Passed
    <3>2. Passed(c, j)
      BY <3>1 DEF Passed
    <3>3. /\ ~Known(c, Prefix(P, j))
          /\ Own(c, Prefix(P, j)) => Prefix(P, j) \notin dirs
      BY <3>2 DEF CommandOK, PassedMissing
    <3>4. Prefix(P, j) \in dirs' => Prefix(P, j) \in dirs
      <4>1. CASE k = 0
        BY <4>1
      <4>2. CASE k # 0
        <5>1. k \in 1..Len(P)
          BY <1>1, <4>2
        <5>2. Len(Prefix(P, j)) = j /\ Len(Prefix(P, k)) = k
          BY <1>1, <5>1, PrefixType
        <5>3. Prefix(P, j) # Prefix(P, k)
          BY <3>1, <5>1, <5>2
        <5> QED BY <5>3
      <4> QED BY <4>1, <4>2
    <3> QED BY <3>3, <3>4
  <2>8. ParentThere(c)'
    <3>1. k + 1 >= 1 /\ (k + 1) - 1 = k /\ (k + 1 > 1 => k # 0)
      BY <1>1
    <3>2. k + 1 > 1 => Prefix(P, k) \in dirs'
      BY <3>1
    <3> QED BY <2>1, <2>2, <3>1, <3>2 DEF ParentThere
  <2>9. CallsDone(c)'
    BY <2>1 DEF CommandOK, CallsDone
  <2>10. SocketDone(c)'
    BY <2>1 DEF CommandOK, SocketDone
  <2> QED BY <2>5, <2>6, <2>7, <2>8, <2>9, <2>10 DEF CommandOK
<1> QED BY <1>2, <1>3

\* A call that fails because a directory turned up has what it was to leave:
\* the directory was a shared one it had no reason to know.
LEMMA Fails ==
    ASSUME NEW c \in Runs, DirsTyped, Closed, CommandOK(c), MkdirExists(c)
    PROVE  CommandOK(c)'
<1> DEFINE P == Path(c)
           k == depth[c]
           m == mkdirCall[c]
<1>1. ~Finished(c) /\ up[c] /\ Prefix(P, k) \in dirs /\ MkdirReturn(c) /\ dirs' = dirs /\ fresh' = fresh
  BY DEF MkdirExists
<1>2. failed'[c] = failed[c] \cup {Prefix(P, k)}
  BY DEF MkdirExists, DirsTyped
<1>3. /\ P \in Seq(STRING) /\ Len(P) \in Nat /\ Len(P) >= 3
      /\ k \in 0..Len(P) /\ m \in Nat /\ m \in 1..Len(MkdirCalls(c)) /\ P = MkdirCalls(c)[m]
  BY <1>1, Where
<1>4. k \in 1..Len(P)
  BY <1>1, <1>3 DEF CommandOK, ParentThere
<1>5. ~Known(c, Prefix(P, k)) /\ ~Own(c, Prefix(P, k))
  <2>1. Passed(c, k)
    BY <1>1 DEF Passed
  <2> QED BY <1>1, <1>4, <2>1 DEF CommandOK, PassedMissing
<1>6. k <= 3
  <2>1. k >= 4 => Own(c, Prefix(P, k))
    BY <1>3, <1>4, OwnPrefix
  <2> QED BY <1>4, <1>5, <2>1
<1>7. k = 1 \/ k = 2 \/ k = 3
  BY <1>4, <1>6
<1>8. fresh /\ m <= 4 /\ (m > 1 => k # 1) /\ (m > 2 => k = 3)
  BY <1>1, <1>3, <1>5, <1>7, KnownShared, SharedOnPath
<1>9. \A y \in 1..k : Prefix(P, y) \in dirs
  <2> SUFFICES ASSUME NEW y \in 1..k PROVE Prefix(P, y) \in dirs
    OBVIOUS
  <2>1. Len(Prefix(P, k)) = k
    BY <1>3, <1>4, PrefixType
  <2>2. Prefix(Prefix(P, k), y) \in dirs
    BY <1>1, <2>1 DEF Closed
  <2>3. Prefix(Prefix(P, k), y) = Prefix(P, y)
    BY <1>3, <1>4, PrefixPrefix
  <2> QED BY <2>2, <2>3
<1>10. /\ m = 1 => Data \in dirs
       /\ m = 2 => hoststack_repo \in dirs
       /\ m = 3 => containers \in dirs /\ containers \in failed'[c]
       /\ m = 4 => getUnionFS \in dirs
  <2>1. m = 1 => Data \in dirs
    BY <1>1, <1>4, <1>9, SharedOnPath
  <2>2. m = 2 => hoststack_repo \in dirs
    <3>1. m = 2 => 2 \in 1..k
      BY <1>7, <1>8
    <3> QED BY <1>1, <1>9, <3>1, SharedOnPath
  <2>3. m = 3 => containers \in dirs /\ containers \in failed'[c]
    BY <1>1, <1>2, <1>8, SharedOnPath
  <2>4. m = 4 => getUnionFS \in dirs
    BY <1>1, <1>8, SharedOnPath
  <2> QED BY <2>1, <2>2, <2>3, <2>4
<1>11. ~(m >= 5)
  BY <1>3, <1>8
<1>12. containers \in failed'[c] => fresh
  BY <1>8
<1> QED BY <1>1, <1>2, <1>10, <1>11, <1>12, Returned

LEMMA DirsInitOK == DirsInit => DirsInv
<1> SUFFICES ASSUME DirsInit PROVE DirsInv
  OBVIOUS
<1> USE DEF DirsInit
<1>1. ASSUME NEW c \in Runs
      PROVE  /\ Len(MkdirCalls(c)) \in Nat /\ Len(MkdirCalls(c)) >= 1 /\ 1 \in 1..Len(MkdirCalls(c))
             /\ MkdirCalls(c)[1] = containers
  <2>1. Len(MkdirCalls(c)) = 6 + Len(fslist) + 2 * Len(overlays) /\ MkdirCalls(c)[1] = containers
    BY CallsList
  <2>2. Len(fslist) \in Nat /\ Len(overlays) \in Nat
    BY RepoAssumption
  <2> DEFINE L == Len(MkdirCalls(c))
             n == Len(fslist)
             v == Len(overlays)
  <2> HIDE DEF L, n, v
  <2>3. L = 6 + n + 2 * v /\ n \in Nat /\ v \in Nat
    BY <2>1, <2>2 DEF L, n, v
  <2>4. L \in Nat /\ L >= 1 /\ 1 \in 1..L
    BY <2>3
  <2> QED BY <2>1, <2>4 DEF L
<1>2. Lineage(containers) = {Data, hoststack_repo, containers}
  <2>1. Len(containers) = 3 /\ containers \in Seq(STRING)
    BY SharedPaths
  <2>2. Prefix(containers, 1) = Data /\ Prefix(containers, 2) = hoststack_repo /\ Prefix(containers, 3) = containers
    <3>1. Prefix(containers, 1) = Prefix(Data, 1)
      <4>1. \A y \in 1..1 : containers[y] = Data[y]
        BY SharedPaths
      <4>2. 1 \in 1..Len(containers) /\ 1 \in 1..Len(Data) /\ Data \in Seq(STRING)
        BY SharedPaths
      <4> QED BY <2>1, <4>1, <4>2, PrefixEqual
    <3>2. Prefix(containers, 2) = Prefix(hoststack_repo, 2)
      <4>1. \A y \in 1..2 : containers[y] = hoststack_repo[y]
        BY SharedPaths
      <4>2. 2 \in 1..Len(containers) /\ 2 \in 1..Len(hoststack_repo) /\ hoststack_repo \in Seq(STRING)
        BY SharedPaths
      <4> QED BY <2>1, <4>1, <4>2, PrefixEqual
    <3> QED BY <2>1, <3>1, <3>2, SharedPaths, PrefixWhole
  <2>3. \A k \in 1..Len(containers) : k = 1 \/ k = 2 \/ k = 3
    BY <2>1
  <2>4. 1 \in 1..Len(containers) /\ 2 \in 1..Len(containers) /\ 3 \in 1..Len(containers)
    BY <2>1
  <2> QED BY <2>2, <2>3, <2>4 DEF Lineage
<1>3. \/ dirs = {} /\ fresh = TRUE
      \/ dirs = {Data} /\ fresh = TRUE
      \/ dirs = {Data, hoststack_repo, containers, getUnionFS} /\ fresh = FALSE
  BY <1>2, SharedDistinct DEF Data
<1>4. DirsTyped
  <2>1. dirs \subseteq Seq(STRING)
    BY <1>3, SharedPaths
  <2>2. \A c \in Runs : Len(MkdirCalls(c)[1]) \in Nat
    BY <1>1, SharedPaths
  <2> QED BY <2>1, <2>2 DEF DirsTyped
<1>5. Closed
  <2> SUFFICES ASSUME NEW d \in dirs, NEW k \in 1..Len(d) PROVE Prefix(d, k) \in dirs
    BY DEF Closed
  <2>1. d \in {Data, hoststack_repo, containers, getUnionFS}
    BY <1>3
  <2>2. Prefix(Data, 1) = Data
    BY SharedPaths, PrefixWhole
  <2>3. CASE d = Data
    <3>1. k = 1
      BY <2>3, SharedPaths
    <3> QED BY <2>2, <2>3, <3>1
  <2>4. CASE d # Data
    <3>1. dirs = {Data, hoststack_repo, containers, getUnionFS}
      BY <1>3, <2>4
    <3>2. d \in Seq(STRING) /\ Len(d) <= 3 /\ Len(d) \in Nat
      <4>1. d = Data \/ d = hoststack_repo \/ d = containers \/ d = getUnionFS
        BY <2>1
      <4>2. CASE d = Data
        BY <4>2, SharedPaths
      <4>3. CASE d = hoststack_repo
        BY <4>3, SharedPaths
      <4>4. CASE d = containers
        BY <4>4, SharedPaths
      <4>5. CASE d = getUnionFS
        BY <4>5, SharedPaths
      <4> QED BY <4>1, <4>2, <4>3, <4>4, <4>5
    <3>3. k = 1 \/ k = 2 \/ k = 3
      BY <3>2
    <3>4. CASE k = Len(d)
      BY <3>2, <3>4, PrefixWhole
    <3>5. CASE k # Len(d) /\ k = 1
      <4>1. 1 \in 1..Len(d) /\ 1 \in 1..Len(Data) /\ Data \in Seq(STRING) /\ \A y \in 1..1 : d[y] = Data[y]
        BY <2>1, SharedPaths
      <4>2. Prefix(d, 1) = Prefix(Data, 1)
        BY <3>2, <4>1, PrefixEqual
      <4> QED BY <2>2, <3>1, <3>5, <4>2
    <3>6. CASE k # Len(d) /\ k = 2
      <4> DEFINE h == hoststack_repo
      <4>1. d = containers \/ d = getUnionFS
        BY <2>1, <2>4, <3>6, SharedPaths
      <4>2. 2 \in 1..Len(d) /\ 2 \in 1..Len(h) /\ h \in Seq(STRING) /\ \A y \in 1..2 : d[y] = h[y]
        BY <4>1, SharedPaths
      <4>3. Prefix(h, 2) = h
        BY SharedPaths, PrefixWhole
      <4> HIDE DEF h
      <4>4. Prefix(d, 2) = Prefix(h, 2)
        BY <3>2, <4>2, PrefixEqual
      <4> QED BY <3>1, <3>6, <4>3, <4>4 DEF h
    <3> QED BY <3>2, <3>3, <3>4, <3>5, <3>6
  <2> QED BY <2>3, <2>4
<1>6. ASSUME NEW c \in Runs PROVE CommandOK(c)
  <2>1. mkdirCall[c] = 1 /\ depth[c] = Len(MkdirCalls(c)[1]) /\ up[c] = FALSE /\ failed[c] = {}
    OBVIOUS
  <2>2. Path(c) = MkdirCalls(c)[1] /\ depth[c] = Len(Path(c)) /\ Len(Path(c)) \in Nat
    BY <1>1, <2>1, SharedPaths DEF Path
  <2>3. CallOK(c)
    BY <1>1, <2>1, <2>2 DEF CallOK, Finished
  <2>4. KnownThere(c)
    BY <1>3, <2>1 DEF KnownThere, Known
  <2>5. PassedMissing(c)
    BY <2>1, <2>2 DEF PassedMissing, Passed
  <2>6. ParentThere(c)
    BY <2>1 DEF ParentThere
  <2>7. CallsDone(c)
    BY <2>1 DEF CallsDone
  <2>8. SocketDone(c)
    BY <2>1 DEF SocketDone
  <2> QED BY <2>3, <2>4, <2>5, <2>6, <2>7, <2>8 DEF CommandOK
<1> QED BY <1>4, <1>5, <1>6 DEF DirsInv

\* A step of a command that leaves the others' state alone and adds at most
\* the directory it stands at.
LEMMA OneCommand ==
    ASSUME NEW c \in Runs, DirsInv, ~Finished(c), DirsTyped', Closed', CommandOK(c)',
           \A q \in Runs \ {c} : /\ mkdirCall'[q] = mkdirCall[q] /\ depth'[q] = depth[q]
                                 /\ up'[q] = up[q] /\ failed'[q] = failed[q],
           fresh' = fresh, dirs \subseteq dirs',
           dirs' # dirs => depth[c] # 0 /\ dirs' = dirs \cup {Prefix(Path(c), depth[c])}
    PROVE  DirsInv'
<1> SUFFICES ASSUME NEW q \in Runs PROVE CommandOK(q)'
  BY DEF DirsInv
<1>1. CASE q = c
  BY <1>1
<1>2. CASE q # c
  <2>1. CommandOK(q) /\ CommandOK(c) /\ DirsTyped
    BY DEF DirsInv
  <2>2. \A d \in dirs' \ dirs : ~Own(q, d)
    <3> SUFFICES ASSUME NEW d \in dirs' \ dirs PROVE ~Own(q, d)
      OBVIOUS
    <3>1. depth[c] # 0 /\ d = Prefix(Path(c), depth[c])
      OBVIOUS
    <3>2. /\ mkdirCall[c] \in 1..Len(MkdirCalls(c)) /\ Path(c) = MkdirCalls(c)[mkdirCall[c]]
          /\ depth[c] \in 0..Len(Path(c)) /\ Len(Path(c)) \in Nat
      BY <2>1, Where
    <3>3. depth[c] \in 1..Len(Path(c))
      BY <3>1, <3>2
    <3>4. Own(q, Prefix(Path(c), depth[c])) => q = c
      BY <3>2, <3>3, OwnPrefix
    <3> QED BY <1>2, <3>1, <3>4
  <2>3. /\ mkdirCall'[q] = mkdirCall[q] /\ depth'[q] = depth[q]
        /\ up'[q] = up[q] /\ failed'[q] = failed[q]
    BY <1>2
  <2> QED BY <2>1, <2>2, <2>3, OthersKept
<1> QED BY <1>1, <1>2

\* The functions after a call has returned, or gone on.
LEMMA ReturnTyped ==
    ASSUME NEW c \in Runs, DirsTyped, CommandOK(c), ~Finished(c), MkdirReturn(c)
    PROVE  /\ mkdirCall' \in [Runs -> Nat] /\ depth' \in [Runs -> Nat] /\ up' \in [Runs -> BOOLEAN]
           /\ \A q \in Runs \ {c} : /\ mkdirCall'[q] = mkdirCall[q] /\ depth'[q] = depth[q]
                                    /\ up'[q] = up[q]
<1>1. mkdirCall[c] \in 1..Len(MkdirCalls(c)) /\ Len(MkdirCalls(c)) \in Nat
  BY Where
<1>2. ASSUME mkdirCall[c] < Len(MkdirCalls(c))
      PROVE  Len(MkdirCalls(c)[mkdirCall[c] + 1]) \in Nat
  <2>1. mkdirCall[c] + 1 \in 1..Len(MkdirCalls(c))
    BY <1>1, <1>2
  <2> QED BY <2>1, CallPath
<1> DEFINE e == IF mkdirCall[c] < Len(MkdirCalls(c)) THEN Len(MkdirCalls(c)[mkdirCall[c] + 1]) ELSE 0
<1>3. e \in Nat
  BY <1>2
<1>4. depth' = [depth EXCEPT ![c] = e]
  BY DEF MkdirReturn
<1> HIDE DEF e
<1>5. depth' \in [Runs -> Nat] /\ \A q \in Runs \ {c} : depth'[q] = depth[q]
  BY <1>3, <1>4 DEF DirsTyped
<1>6. mkdirCall' \in [Runs -> Nat] /\ \A q \in Runs \ {c} : mkdirCall'[q] = mkdirCall[q]
  BY DEF DirsTyped, MkdirReturn
<1>7. up' \in [Runs -> BOOLEAN] /\ \A q \in Runs \ {c} : up'[q] = up[q]
  BY DEF DirsTyped, MkdirReturn
<1> QED BY <1>5, <1>6, <1>7

LEMMA ReturnsTyped ==
    ASSUME NEW c \in Runs, DirsTyped, CommandOK(c), ~Finished(c), MkdirReturns(c, depth[c])
    PROVE  /\ mkdirCall' \in [Runs -> Nat] /\ depth' \in [Runs -> Nat] /\ up' \in [Runs -> BOOLEAN]
           /\ \A q \in Runs \ {c} : /\ mkdirCall'[q] = mkdirCall[q] /\ depth'[q] = depth[q]
                                    /\ up'[q] = up[q]
<1>1. CASE depth[c] = Len(Path(c))
  <2>1. MkdirReturn(c)
    BY <1>1 DEF MkdirReturns
  <2> QED BY <2>1, ReturnTyped
<1>2. CASE depth[c] # Len(Path(c))
  <2>1. /\ up' = [up EXCEPT ![c] = TRUE]
        /\ depth' = [depth EXCEPT ![c] = depth[c] + 1]
        /\ mkdirCall' = mkdirCall
    BY <1>2 DEF MkdirReturns
  <2>2. depth' \in [Runs -> Nat] /\ \A q \in Runs \ {c} : depth'[q] = depth[q]
    BY <2>1 DEF DirsTyped
  <2>3. up' \in [Runs -> BOOLEAN] /\ \A q \in Runs \ {c} : up'[q] = up[q]
    BY <2>1 DEF DirsTyped
  <2> QED BY <2>1, <2>2, <2>3 DEF DirsTyped
<1> QED BY <1>1, <1>2

LEMMA DirsStep == DirsInv /\ [DirsNext]_dirsVars => DirsInv'
<1> SUFFICES ASSUME DirsInv, [DirsNext]_dirsVars PROVE DirsInv'
  OBVIOUS
<1>t. DirsTyped /\ Closed /\ \A c \in Runs : CommandOK(c)
  BY DEF DirsInv
<1>1. CASE UNCHANGED dirsVars
  BY <1>1 DEF DirsInv, dirsVars, DirsTyped, Closed, CommandOK, CallOK, KnownThere, PassedMissing,
              ParentThere, CallsDone, SocketDone, Known, Passed, Finished, Path
<1>2. ASSUME NEW c \in Runs, Found(c) PROVE DirsInv'
  <2>1. /\ ~Finished(c) /\ (depth[c] = 0 \/ Prefix(Path(c), depth[c]) \in dirs)
        /\ MkdirReturns(c, depth[c]) /\ dirs' = dirs /\ failed' = failed /\ fresh' = fresh
    BY <1>2 DEF Found
  <2>2. Closed'
    BY <1>t, <2>1 DEF Closed
  <2>3. CommandOK(c)'
    BY <1>t, <2>1, <2>2, Succeeds
  <2>4. /\ mkdirCall' \in [Runs -> Nat] /\ depth' \in [Runs -> Nat] /\ up' \in [Runs -> BOOLEAN]
        /\ \A q \in Runs \ {c} : /\ mkdirCall'[q] = mkdirCall[q] /\ depth'[q] = depth[q]
                                 /\ up'[q] = up[q]
    BY <1>t, <2>1, ReturnsTyped
  <2>5. DirsTyped'
    BY <1>t, <2>1, <2>4 DEF DirsTyped
  <2> QED BY <2>1, <2>2, <2>3, <2>4, <2>5, OneCommand
<1>3. ASSUME NEW c \in Runs, Missing(c) PROVE DirsInv'
  <2>1. /\ ~Finished(c) /\ ~up[c] /\ depth[c] > 0 /\ Prefix(Path(c), depth[c]) \notin dirs
        /\ depth' = [depth EXCEPT ![c] = @ - 1]
        /\ dirs' = dirs /\ mkdirCall' = mkdirCall /\ up' = up /\ failed' = failed /\ fresh' = fresh
    BY <1>3 DEF Missing
  <2>2. Closed'
    BY <1>t, <2>1 DEF Closed
  <2>w. depth[c] \in 1..Len(Path(c)) /\ Len(Path(c)) \in Nat
    BY <1>t, <2>1, Where
  <2>d. depth' \in [Runs -> Nat] /\ depth'[c] = depth[c] - 1 /\ \A q \in Runs \ {c} : depth'[q] = depth[q]
    BY <1>t, <2>1, <2>w DEF DirsTyped
  <2>3. CommandOK(c)'
    <3>a. CommandOK(c)
      BY <1>t
    <3>1. (Finished(c)' <=> Finished(c)) /\ Path(c)' = Path(c)
      BY <2>1 DEF Finished, Path
    <3>2. \A d : Known(c, d)' <=> Known(c, d)
      BY <2>1 DEF Known
    <3>3. CallOK(c)'
      <4>1. depth'[c] <= Len(Path(c))
        BY <2>w, <2>d
      <4> QED BY <2>1, <3>a, <3>1, <4>1 DEF CommandOK, CallOK
    <3>4. KnownThere(c)'
      BY <2>1, <3>a, <3>2 DEF CommandOK, KnownThere
    <3>5. PassedMissing(c)'
      <4> SUFFICES ASSUME NEW j \in 1..Len(Path(c)), Passed(c, j)'
                   PROVE  /\ ~Known(c, Prefix(Path(c), j))
                          /\ Own(c, Prefix(Path(c), j)) => Prefix(Path(c), j) \notin dirs
        BY <2>1, <3>1, <3>2 DEF PassedMissing
      <4>1. j > depth[c] - 1
        BY <2>1, <2>d DEF Passed
      <4>2. j = depth[c] \/ j > depth[c]
        BY <2>w, <4>1
      <4>3. CASE j = depth[c]
        BY <2>1, <3>a, <4>3 DEF CommandOK, KnownThere
      <4>4. CASE j > depth[c]
        <5>1. Passed(c, j)
          BY <4>4 DEF Passed
        <5> QED BY <2>1, <3>a, <5>1 DEF CommandOK, PassedMissing
      <4> QED BY <4>2, <4>3, <4>4
    <3>6. ParentThere(c)'
      BY <2>1 DEF ParentThere
    <3>7. CallsDone(c)' /\ SocketDone(c)'
      BY <2>1, <3>a DEF CommandOK, CallsDone, SocketDone
    <3> QED BY <3>3, <3>4, <3>5, <3>6, <3>7 DEF CommandOK
  <2>5. DirsTyped'
    BY <1>t, <2>1, <2>d DEF DirsTyped
  <2> QED BY <2>1, <2>2, <2>3, <2>d, <2>5, OneCommand
<1>4. ASSUME NEW c \in Runs, Mkdir(c) PROVE DirsInv'
  <2> DEFINE P == Path(c)
             k == depth[c]
             D == Prefix(Path(c), depth[c])
  <2>1. /\ ~Finished(c) /\ up[c] /\ D \notin dirs /\ dirs' = dirs \cup {D}
        /\ MkdirReturns(c, k) /\ failed' = failed /\ fresh' = fresh
    BY <1>4 DEF Mkdir
  <2>w. /\ P \in Seq(STRING) /\ k \in 1..Len(P) /\ Len(P) \in Nat
        /\ (k > 1 => Prefix(P, k - 1) \in dirs)
    BY <1>t, <2>1, Where DEF CommandOK, ParentThere
  <2>p. D \in Seq(STRING) /\ Len(D) = k
    BY <2>w, PrefixType
  <2>2. Closed'
    <3> SUFFICES ASSUME NEW d \in dirs', NEW y \in 1..Len(d) PROVE Prefix(d, y) \in dirs'
      BY DEF Closed
    <3>1. CASE d \in dirs
      BY <1>t, <2>1, <3>1 DEF Closed
    <3>2. CASE d = D
      <4>1. y \in 1..k
        BY <2>p, <3>2
      <4>2. Prefix(d, y) = Prefix(P, y)
        BY <2>w, <3>2, <4>1, PrefixPrefix
      <4>3. CASE y = k
        BY <2>1, <4>2, <4>3
      <4>4. CASE y # k
        <5>1. k > 1 /\ k - 1 \in 1..Len(P) /\ y \in 1..(k - 1)
          BY <2>w, <4>1, <4>4
        <5>2. Len(Prefix(P, k - 1)) = k - 1
          BY <2>w, <5>1, PrefixType
        <5>3. Prefix(Prefix(P, k - 1), y) = Prefix(P, y)
          BY <2>w, <5>1, PrefixPrefix
        <5>4. Prefix(Prefix(P, k - 1), y) \in dirs
          BY <1>t, <2>w, <5>1, <5>2 DEF Closed
        <5> QED BY <2>1, <4>2, <5>3, <5>4
      <4> QED BY <4>3, <4>4
    <3> QED BY <2>1, <3>1, <3>2
  <2>3. CommandOK(c)'
    <3>1. depth[c] # 0 /\ D \in dirs' /\ dirs \subseteq dirs' /\ dirs' \ dirs \subseteq {D}
      BY <2>1, <2>w
    <3> QED BY <1>t, <2>1, <2>2, <3>1, Succeeds
  <2>4. /\ mkdirCall' \in [Runs -> Nat] /\ depth' \in [Runs -> Nat] /\ up' \in [Runs -> BOOLEAN]
        /\ \A q \in Runs \ {c} : /\ mkdirCall'[q] = mkdirCall[q] /\ depth'[q] = depth[q]
                                 /\ up'[q] = up[q]
    BY <1>t, <2>1, ReturnsTyped
  <2>5. DirsTyped'
    BY <1>t, <2>1, <2>p, <2>4 DEF DirsTyped
  <2>6. k # 0
    BY <2>w
  <2> QED BY <2>1, <2>2, <2>3, <2>4, <2>5, <2>6, OneCommand
<1>5. ASSUME NEW c \in Runs, MkdirExists(c) PROVE DirsInv'
  <2> DEFINE D == Prefix(Path(c), depth[c])
  <2>1. /\ ~Finished(c) /\ up[c] /\ D \in dirs /\ MkdirReturn(c) /\ dirs' = dirs /\ fresh' = fresh
        /\ failed' = [failed EXCEPT ![c] = @ \cup {D}]
    BY <1>5 DEF MkdirExists
  <2>2. Closed'
    BY <1>t, <2>1 DEF Closed
  <2>3. CommandOK(c)'
    BY <1>t, <1>5, Fails
  <2>4. /\ mkdirCall' \in [Runs -> Nat] /\ depth' \in [Runs -> Nat] /\ up' \in [Runs -> BOOLEAN]
        /\ \A q \in Runs \ {c} : /\ mkdirCall'[q] = mkdirCall[q] /\ depth'[q] = depth[q]
                                 /\ up'[q] = up[q]
    BY <1>t, <2>1, ReturnTyped
  <2> HIDE DEF D
  <2>5. D \in Seq(STRING)
    BY <1>t, <2>1 DEF DirsTyped
  <2>6. failed' \in [Runs -> SUBSET Seq(STRING)] /\ \A q \in Runs \ {c} : failed'[q] = failed[q]
    BY <1>t, <2>1, <2>5 DEF DirsTyped
  <2>7. DirsTyped'
    BY <1>t, <2>1, <2>4, <2>6 DEF DirsTyped
  <2> QED BY <2>1, <2>2, <2>3, <2>4, <2>6, <2>7, OneCommand
<1> QED BY <1>1, <1>2, <1>3, <1>4, <1>5 DEF DirsNext

-----------------------------------------------------------------------------
(* Results *)

\* The directory diff is above the upper directory of the first overlay.
LEMMA DiffAbove ==
    ASSUME NEW c \in Runs
    PROVE  LET Q == MkdirCalls(c)[7 + Len(fslist)] IN
           Q \in Seq(STRING) /\ Len(Q) = 6 /\ Prefix(Q, 5) = getDiffDir(c)
<1> DEFINE g == getDiffDir(c)
           Q == MkdirCalls(c)[7 + Len(fslist)]
           o == overlays[1]
<1>1. Below(c, g) /\ Len(g) = 5
  BY LayerPaths
<1>2. o \in STRING
  <2>1. overlays \in Seq(STRING) /\ overlays # <<>>
    BY RepoAssumption
  <2>2. 1 \in DOMAIN overlays
    BY <2>1
  <2> QED BY <2>1, <2>2
<1>3. Q = Append(g, o)
  BY CallsList
<1> HIDE DEF g, Q, o
<1>4. /\ Below(c, Append(g, o)) /\ Len(Append(g, o)) = Len(g) + 1
      /\ \A y \in 1..Len(g) : Append(g, o)[y] = g[y]
  <2>1. Below(c, g) /\ o \in STRING
    BY <1>1, <1>2
  <2>2. Below(c, Append(g, o))
    BY <2>1, BelowAppend
  <2>3. Len(Append(g, o)) = Len(g) + 1
    BY <2>1, BelowAppend
  <2>4. \A y \in 1..Len(g) : Append(g, o)[y] = g[y]
    BY <2>1, BelowAppend
  <2> QED BY <2>2, <2>3, <2>4
<1>5. Below(c, Q) /\ Len(Q) = Len(g) + 1 /\ \A y \in 1..Len(g) : Q[y] = g[y]
  BY <1>3, <1>4, Zenon
<1>6. Q \in Seq(STRING) /\ g \in Seq(STRING)
  BY <1>1, <1>5 DEF Below
<1>7. Len(Q) = 6 /\ 5 \in 1..Len(Q) /\ 5 \in 1..Len(g) /\ \A y \in 1..5 : Q[y] = g[y]
  BY <1>1, <1>5
<1>8. Prefix(Q, 5) = Prefix(g, 5)
  BY <1>6, <1>7, PrefixEqual
<1>9. Prefix(g, 5) = g
  BY <1>1, <1>6, PrefixWhole
<1> QED BY <1>6, <1>7, <1>8, <1>9 DEF g, Q

LEMMA DirsInvComplete == DirsInv => DirsComplete
<1> SUFFICES ASSUME DirsInv, NEW c \in Runs, Finished(c)
             PROVE  /\ Made(c) \ {SocketDir(c)} \subseteq dirs
                    /\ SocketDir(c) \notin dirs => fresh /\ containers \in failed[c]
  BY DEF DirsComplete
<1> DEFINE M == MkdirCalls(c)
           L == Len(M)
           m == mkdirCall[c]
           n == Len(fslist)
<1>1. CommandOK(c) /\ Closed /\ m \in Nat /\ m > L
  BY DEF DirsInv, DirsTyped, Finished
<1>2. L \in Nat /\ L >= 7 + n /\ n \in Nat /\ DOMAIN M = 1..L
  <2>1. Len(fslist) \in Nat /\ Len(overlays) \in Nat
    BY RepoAssumption
  <2>2. Len(overlays) >= 1
    BY RepoAssumption
  <2>3. M \in Seq(Seq(STRING)) /\ Len(M) = 6 + Len(fslist) + 2 * Len(overlays)
    BY CallsList
  <2>4. DOMAIN M = 1..L
    BY <2>3
  <2> DEFINE v == Len(overlays)
  <2> HIDE DEF L, n, v
  <2>5. L = 6 + n + 2 * v /\ n \in Nat /\ v \in Nat /\ v >= 1
    BY <2>1, <2>2, <2>3 DEF L, n, v
  <2>6. L \in Nat /\ L >= 7 + n
    BY <2>5
  <2> QED BY <2>4, <2>5, <2>6
<1>3. m > 4
  BY <1>1, <1>2
<1>4. {Data, hoststack_repo, containers, getUnionFS} \subseteq dirs
  <2>1. KnownThere(c) /\ mkdirCall[c] \in Nat /\ mkdirCall[c] > 4
    BY <1>1, <1>3 DEF CommandOK
  <2>2. Known(c, Data) /\ Known(c, hoststack_repo) /\ Known(c, containers) /\ Known(c, getUnionFS)
    BY <2>1 DEF Known
  <2> QED BY <2>1, <2>2 DEF KnownThere
<1>5. \A k \in 5..L : M[k] \in dirs
  <2>1. \A k \in 5..(m - 1) : M[k] \in dirs
    BY <1>1 DEF CommandOK, CallsDone
  <2> QED BY <1>1, <1>2, <2>1
<1>6. ASSUME NEW x \in Made(c), x # SocketDir(c)
      PROVE  x \in dirs
  <2>1. PICK p \in ToSet(M) : x \in Lineage(p)
    BY <1>6 DEF Made
  <2>2. PICK k \in 1..L : p = M[k]
    BY <1>2, <2>1 DEF ToSet
  <2>3. PICK j \in 1..Len(p) : x = Prefix(p, j)
    BY <2>1 DEF Lineage
  <2>4. /\ p \in Seq(STRING) /\ Len(p) \in Nat /\ Len(p) >= 3
        /\ Prefix(p, 1) = Data /\ Prefix(p, 2) = hoststack_repo
        /\ Prefix(p, 3) = IF k = 1 \/ k = 3 THEN containers ELSE getUnionFS
        /\ k <= 2 <=> Len(p) = 3
        /\ k = 3 => Len(p) = 4 /\ p = SocketDir(c)
    BY <2>2, CallPath
  <2>5. CASE j <= 3
    <3>1. j = 1 \/ j = 2 \/ j = 3
      BY <2>4, <2>5
    <3>2. Prefix(p, j) \in {Data, hoststack_repo, containers, getUnionFS}
      BY <2>4, <3>1
    <3> QED BY <1>4, <2>3, <3>2
  <2>6. CASE j > 3 /\ k = 3
    <3>a. j \in 1..Len(p) /\ j > 3 /\ Len(p) = 4
      BY <2>4, <2>6
    <3>1. j = Len(p)
      BY <3>a
    <3>2. x = SocketDir(c)
      BY <2>3, <2>4, <2>6, <3>1, PrefixWhole
    <3> QED BY <1>6, <3>2
  <2>7. CASE j > 3 /\ k >= 5
    <3>1. p \in dirs
      BY <1>2, <1>5, <2>2, <2>7
    <3> QED BY <1>1, <2>3, <3>1 DEF Closed
  <2>8. CASE j > 3 /\ k = 4
    <3> DEFINE Q == M[7 + n]
    <3>1. Q \in Seq(STRING) /\ Len(Q) = 6 /\ Prefix(Q, 5) = getDiffDir(c)
      BY DiffAbove
    <3>2. Q \in dirs
      BY <1>2, <1>5
    <3>3. p = getDiffDir(c) /\ Len(p) = 5
      BY <2>2, <2>8, CallsList, LayerPaths
    <3> HIDE DEF Q
    <3>4. j \in 1..5 /\ j \in 1..Len(Q) /\ 5 \in 1..Len(Q)
      BY <2>3, <3>1, <3>3
    <3>5. Prefix(Prefix(Q, 5), j) = Prefix(Q, j)
      BY <3>1, <3>4, PrefixPrefix
    <3>6. Prefix(Q, j) \in dirs
      BY <1>1, <3>2, <3>4 DEF Closed
    <3> QED BY <2>3, <3>1, <3>3, <3>5, <3>6
  <2>9. j \in 1..Len(p) /\ k \in 1..L /\ (k <= 2 <=> Len(p) = 3) /\ Len(p) \in Nat /\ L \in Nat
    BY <1>2, <2>4
  <2> HIDE DEF L
  <2>10. j <= 3 \/ (j > 3 /\ k = 3) \/ (j > 3 /\ k >= 5) \/ (j > 3 /\ k = 4)
    <3> DEFINE l == Len(p)
    <3>a. j \in 1..l /\ (k <= 2 => l = 3) /\ l \in Nat
      BY <2>9
    <3> HIDE DEF l
    <3>1. k <= 2 => j <= 3
      BY <3>a
    <3>2. k <= 2 \/ k = 3 \/ k = 4 \/ k >= 5
      BY <2>9
    <3>3. j <= 3 \/ j > 3
      BY <2>9
    <3> QED BY <3>1, <3>2, <3>3, Zenon
  <2> QED BY <2>5, <2>6, <2>7, <2>8, <2>10, Zenon
<1>7. SocketDir(c) \notin dirs => fresh /\ containers \in failed[c]
  <2>1. SocketDone(c) /\ mkdirCall[c] > 3
    BY <1>1, <1>3 DEF CommandOK
  <2> QED BY <2>1 DEF SocketDone
<1> QED BY <1>6, <1>7

\* Although mkdir_r fails when another command makes the directory it was
\* about to make, and its callers only log that, a `run` that is through has
\* every directory of its container but perhaps that of its socket; that one
\* is missing only if the repository was made meanwhile.  For any number of
\* commands, any root file system and any overlays.
THEOREM RunsGetTheirDirs == DirsSpec => []DirsComplete
<1>1. DirsInv /\ [DirsNext]_dirsVars => DirsInv'
  BY DirsStep
<1>2. DirsInit => DirsInv
  BY DirsInitOK
<1>3. DirsInv => DirsComplete
  BY DirsInvComplete
<1> QED BY <1>1, <1>2, <1>3, PTL DEF DirsSpec

\* The directories there are, and those that mkdir refused, are of commands
\* or of the repository.
DirsWithin ==
    /\ dirs \subseteq AllDirs
    /\ failed \in [Runs -> SUBSET AllDirs]
    /\ fresh \in BOOLEAN

\* mkdir_r never leaves the path it was given: every directory it makes or
\* fails on belongs to a command or to the repository, and the name it looks
\* at is on the path.
THEOREM DirsTypeCorrect == DirsSpec => []DirsTypeOK
<1>1. DirsInit => DirsWithin
  <2> SUFFICES ASSUME DirsInit PROVE DirsWithin
    OBVIOUS
  <2>1. Data \in Lineage(containers)
    <3>1. \A y \in 1..1 : containers[y] = Data[y]
      BY SharedPaths
    <3>2. 1 \in 1..Len(containers) /\ 1 \in 1..Len(Data)
      BY SharedPaths
    <3>3. Prefix(containers, 1) = Prefix(Data, 1)
      BY <3>1, <3>2, SharedPaths, PrefixEqual
    <3>4. Prefix(Data, 1) = Data
      BY SharedPaths, PrefixWhole
    <3> QED BY <3>2, <3>3, <3>4 DEF Lineage
  <2>2. getUnionFS \in Lineage(getUnionFS)
    <3>1. getUnionFS \in Seq(STRING) /\ Len(getUnionFS) = 3
      BY SharedPaths
    <3>2. Prefix(getUnionFS, 3) = getUnionFS
      BY <3>1, PrefixWhole
    <3> QED BY <3>1, <3>2 DEF Lineage
  <2>3. dirs \subseteq AllDirs
    BY <2>1, <2>2 DEF DirsInit, AllDirs, Data
  <2> QED BY <2>3 DEF DirsInit, DirsWithin
<1>2. DirsInv /\ DirsWithin /\ [DirsNext]_dirsVars => DirsWithin'
  <2> SUFFICES ASSUME DirsInv, DirsWithin, [DirsNext]_dirsVars PROVE DirsWithin'
    OBVIOUS
  <2>t. DirsTyped /\ \A c \in Runs : CommandOK(c)
    BY DEF DirsInv
  <2>1. CASE UNCHANGED <<dirs, failed, fresh>>
    BY <2>1 DEF DirsWithin, AllDirs
  <2>2. ASSUME NEW c \in Runs, Mkdir(c) PROVE DirsWithin'
    <3>1. /\ ~Finished(c) /\ up[c] /\ dirs' = dirs \cup {Prefix(Path(c), depth[c])}
          /\ failed' = failed /\ fresh' = fresh
      BY <2>2 DEF Mkdir
    <3>2. depth[c] \in 1..Len(Path(c))
      BY <2>t, <3>1, Where DEF CommandOK, ParentThere
    <3>3. Prefix(Path(c), depth[c]) \in Lineage(Path(c))
      BY <3>2 DEF Lineage
    <3>4. Path(c) \in ToSet(MkdirCalls(c))
      <4>1. mkdirCall[c] \in 1..Len(MkdirCalls(c))
        BY <2>t, <3>1, Where
      <4>2. DOMAIN MkdirCalls(c) = 1..Len(MkdirCalls(c))
        BY CallsList
      <4> QED BY <4>1, <4>2 DEF Path, ToSet
    <3>5. Prefix(Path(c), depth[c]) \in AllDirs
      BY <3>3, <3>4 DEF AllDirs, Made
    <3> QED BY <3>1, <3>5 DEF DirsWithin
  <2>3. ASSUME NEW c \in Runs, MkdirExists(c) PROVE DirsWithin'
    <3>1. /\ Prefix(Path(c), depth[c]) \in dirs /\ dirs' = dirs /\ fresh' = fresh
          /\ failed' = [failed EXCEPT ![c] = @ \cup {Prefix(Path(c), depth[c])}]
      BY <2>3 DEF MkdirExists
    <3> QED BY <3>1 DEF DirsWithin
  <2> QED BY <2>1, <2>2, <2>3 DEF DirsNext, Found, Missing, dirsVars
<1>3. DirsInv /\ DirsWithin => DirsTypeOK
  <2> SUFFICES ASSUME DirsInv, DirsWithin PROVE DirsTypeOK
    OBVIOUS
  <2>1. ASSUME NEW c \in Runs, mkdirCall[c] <= Len(MkdirCalls(c))
        PROVE  depth[c] \in 0..Len(MkdirCalls(c)[mkdirCall[c]])
    <3>1. CallOK(c) /\ depth[c] \in Nat /\ mkdirCall[c] \in Nat /\ Len(MkdirCalls(c)) \in Nat
      BY CallsList DEF DirsInv, CommandOK, DirsTyped
    <3>2. depth[c] <= Len(MkdirCalls(c)[mkdirCall[c]]) /\ mkdirCall[c] \in 1..Len(MkdirCalls(c))
      BY <2>1, <3>1 DEF CallOK, Finished, Path
    <3>3. Len(MkdirCalls(c)[mkdirCall[c]]) \in Nat
      BY <3>2, CallPath
    <3> QED BY <3>1, <3>2, <3>3
  <2>2. \A c \in Runs : mkdirCall[c] \in 1..(Len(MkdirCalls(c)) + 1)
    BY DEF DirsInv, CommandOK, CallOK
  <2> QED BY <2>1, <2>2 DEF DirsInv, DirsTyped, DirsWithin, DirsTypeOK
<1> QED BY <1>1, <1>2, <1>3, DirsInitOK, DirsStep, PTL DEF DirsSpec

-----------------------------------------------------------------------------
(***************************************************************************)
(* ContainerFs                                                             *)
(***************************************************************************)

Entry == [at : Targets \cup Dests, start : 1..MaxStarts]

LEMMA TableFacts ==
    /\ Len(mnt_dir_arr) = 15
    /\ \A k \in 1..15 : mnt_dir_arr[k] \in Targets
    /\ \A k \in 1..9 : Len(mnt_dir_arr[k]) = 1
<1>1. Len(mnt_dir_arr) = 15 /\ DOMAIN mnt_dir_arr = 1..15
  BY DEF mnt_dir_arr
<1>2. \A k \in 1..15 : mnt_dir_arr[k] \in Targets
  BY <1>1 DEF Targets, ToSet
<1>3. ASSUME NEW k \in 1..9 PROVE Len(mnt_dir_arr[k]) = 1
  <2>1. k = 1 \/ k = 2 \/ k = 3 \/ k = 4 \/ k = 5 \/ k = 6 \/ k = 7 \/ k = 8 \/ k = 9
    OBVIOUS
  <2> QED BY <2>1 DEF mnt_dir_arr
<1> QED BY <1>1, <1>2, <1>3

LEMMA VolumeFacts ==
    ASSUME volumes \in BoundedSeq(Dests, MaxVolumes)
    PROVE  /\ volumes \in Seq(Dests) /\ Len(volumes) \in 0..MaxVolumes
           /\ \A k \in 1..Len(volumes) : volumes[k] \in Dests
<1>1. PICK m \in 0..MaxVolumes : volumes \in [1..m -> Dests]
  BY DEF BoundedSeq, SeqOf
<1>2. m \in Nat
  BY FsAssumption
<1>3. volumes \in Seq(Dests) /\ Len(volumes) = m
  BY <1>1, <1>2
<1>4. \A k \in 1..m : volumes[k] \in Dests
  BY <1>1
<1> QED BY <1>3, <1>4

\* Mounting and unmounting leave a table of mounts.
LEMMA MountTyped ==
    ASSUME mounts \in Seq(Entry), starts \in 1..MaxStarts, NEW p \in Targets \cup Dests, Mount(p)
    PROVE  /\ mounts' \in Seq(Entry) /\ Len(mounts') = Len(mounts) + 1
           /\ \A k \in 1..Len(mounts) : mounts'[k] = mounts[k]
           /\ mounts'[Len(mounts) + 1] = [at |-> p, start |-> starts]
<1> DEFINE e == [at |-> p, start |-> starts]
<1>1. e \in Entry
  BY DEF Entry
<1>2. mounts' = Append(mounts, e)
  BY DEF Mount
<1> HIDE DEF e
<1>3. Append(mounts, e) \in Seq(Entry) /\ Len(Append(mounts, e)) = Len(mounts) + 1
  BY <1>1, AppendProperties
<1>4. \A k \in 1..Len(mounts) : Append(mounts, e)[k] = mounts[k]
  BY <1>1, AppendProperties
<1>5. Append(mounts, e)[Len(mounts) + 1] = e
  BY <1>1, AppendProperties
<1> QED BY <1>2, <1>3, <1>4, <1>5, Zenon DEF e

LEMMA UmountTyped ==
    ASSUME mounts \in Seq(Entry), NEW p, Umount(p)
    PROVE  mounts' \in Seq(Entry)
<1> DEFINE Gone(k) == LeadsInto(p, k) /\ mounts[k].at = p /\ ~Busy(k)
<1>1. CASE \E k \in DOMAIN mounts : Gone(k)
  <2> DEFINE k == CHOOSE r \in DOMAIN mounts : Gone(r)
  <2>1. k \in DOMAIN mounts
    BY <1>1
  <2>2. mounts' = RemoveAt(mounts, k)
    BY <1>1 DEF Umount
  <2> HIDE DEF k, Gone
  <2>3. k \in 1..Len(mounts) /\ Len(mounts) \in Nat /\ \A r \in 1..Len(mounts) : mounts[r] \in Entry
    BY <2>1
  <2>4. SubSeq(mounts, 1, k - 1) \in Seq(Entry)
    <3>1. 1 \in Int /\ k - 1 \in Int /\ \A r \in 1..(k - 1) : mounts[r] \in Entry
      BY <2>3
    <3> QED BY <3>1, SubSeqProperties
  <2>5. SubSeq(mounts, k + 1, Len(mounts)) \in Seq(Entry)
    <3>1. k + 1 \in Int /\ Len(mounts) \in Int /\ \A r \in (k + 1)..Len(mounts) : mounts[r] \in Entry
      BY <2>3
    <3> QED BY <3>1, SubSeqProperties
  <2>6. SubSeq(mounts, 1, k - 1) \o SubSeq(mounts, k + 1, Len(mounts)) \in Seq(Entry)
    BY <2>4, <2>5, ConcatProperties
  <2> QED BY <2>2, <2>6 DEF RemoveAt
<1>2. CASE ~\E k \in DOMAIN mounts : Gone(k)
  BY <1>2 DEF Umount
<1> QED BY <1>1, <1>2

LEMMA EntryInTable ==
    ASSUME NEW k \in 0..15
    PROVE  EntryAt(k) \in Targets
<1>1. (IF k = 0 THEN 1 ELSE k) \in 1..15
  OBVIOUS
<1> QED BY <1>1, TableFacts DEF EntryAt

FsTypes ==
    /\ volumes \in BoundedSeq(Dests, MaxVolumes)
    /\ present \subseteq Targets
    /\ mounts \in Seq(Entry)
    /\ starts \in 0..MaxStarts
    /\ pc \in {"stopped", "mount", "volumes", "running", "umount", "retry", "umount_volumes"}

\* The loops end where they should, and the mounts of a start bear its number.
FsInv ==
    /\ FsTypes
    /\ i \in Nat
    /\ pc = "mount" => i <= 16
    /\ pc = "umount" => i <= 15
    /\ pc \in {"volumes", "umount_volumes"} => i >= 1 /\ i <= Len(volumes) + 1
    /\ pc \notin {"mount", "umount", "volumes", "umount_volumes"} => i = 0
    /\ pc # "stopped" => starts >= 1

LEMMA FsInitOK == FsInit => FsInv
<1> SUFFICES ASSUME FsInit PROVE FsInv
  OBVIOUS
<1>1. mounts \in Seq(Entry) /\ pc = "stopped" /\ i = 0 /\ starts = 0
  BY EmptySeq DEF FsInit
<1>2. MaxStarts \in Nat
  BY FsAssumption
<1>3. volumes \in BoundedSeq(Dests, MaxVolumes) /\ present \subseteq Targets
  BY DEF FsInit
<1> QED BY <1>1, <1>2, <1>3 DEF FsInv, FsTypes

LEMMA FsStep == FsInv /\ [FsNext]_fsVars => FsInv'
<1> SUFFICES ASSUME FsInv, [FsNext]_fsVars PROVE FsInv'
  OBVIOUS
<1>1. /\ MaxStarts \in Nat /\ MaxVolumes \in Nat /\ Len(volumes) \in Nat
      /\ \A k \in 1..Len(volumes) : volumes[k] \in Dests
      /\ Len(mnt_dir_arr) = 15
  BY FsAssumption, VolumeFacts, TableFacts DEF FsInv, FsTypes
<1>2. mounts \in Seq(Entry)
  BY DEF FsInv, FsTypes
<1>3. pc # "stopped" => starts \in 1..MaxStarts
  BY <1>1 DEF FsInv, FsTypes
<1> USE DEF FsInv, FsTypes, Goto
<1>4. CASE UNCHANGED fsVars
  BY <1>4 DEF fsVars
<1>5. CASE Start
  BY <1>1, <1>5 DEF Start
<1>6. CASE MountStep
  <2>1. pc = "mount" /\ i \in 0..15
    BY <1>1, <1>6 DEF MountStep
  <2>2. mounts' = mounts \/ Mount(EntryAt(i))
    BY <1>6 DEF MountStep
  <2>3. mounts' \in Seq(Entry)
    BY <1>2, <1>3, <2>1, <2>2, EntryInTable, MountTyped
  <2> QED BY <1>6, <2>1, <2>3 DEF MountStep
<1>7. CASE MountFails
  BY <1>1, <1>7 DEF MountFails
<1>8. CASE MountDone
  BY <1>1, <1>8 DEF MountDone
<1>9. CASE VolumeStep
  <2>1. pc = "volumes" /\ i \in 1..Len(volumes)
    BY <1>1, <1>9 DEF VolumeStep
  <2>2. mounts' = mounts \/ Mount(volumes[i])
    BY <1>9 DEF VolumeStep
  <2>3. mounts' \in Seq(Entry)
    BY <1>1, <1>2, <1>3, <2>1, <2>2, MountTyped
  <2> QED BY <1>1, <1>9, <2>1, <2>3 DEF VolumeStep
<1>10. CASE VolumesDone
  BY <1>10 DEF VolumesDone
<1>11. CASE Exit
  BY <1>1, <1>11 DEF Exit
<1>12. CASE UmountStep
  <2>1. mounts' = mounts \/ Umount(UmountEntry(i))
    BY <1>12 DEF UmountStep
  <2>2. mounts' \in Seq(Entry)
    BY <1>2, <2>1, UmountTyped
  <2> QED BY <1>1, <1>12, <2>2 DEF UmountStep
<1>13. CASE UmountDone
  BY <1>13 DEF UmountDone
<1>14. CASE Retry
  <2>1. mounts' \in Seq(Entry)
    BY <1>2, <1>14, UmountTyped DEF Retry
  <2> QED BY <1>1, <1>14, <2>1 DEF Retry
<1>15. CASE UmountVolume
  <2>1. mounts' \in Seq(Entry)
    BY <1>2, <1>15, UmountTyped DEF UmountVolume
  <2> QED BY <1>1, <1>15, <2>1 DEF UmountVolume
<1>16. CASE UmountVolumesDone
  BY <1>16 DEF UmountVolumesDone
<1> QED BY <1>4, <1>5, <1>6, <1>7, <1>8, <1>9, <1>10, <1>11, <1>12, <1>13, <1>14, <1>15, <1>16
        DEF FsNext

\* Every reachable state of a container's mounts is well typed; the loops over
\* the table and the volumes stay inside them.
THEOREM FsTypeCorrect == FsSpec => []FsTypeOK
<1>1. FsInv => FsTypeOK
  <2> SUFFICES ASSUME FsInv PROVE FsTypeOK
    OBVIOUS
  <2>1. Len(volumes) \in 0..MaxVolumes /\ MaxVolumes \in Nat /\ Len(mnt_dir_arr) = 15
    BY FsAssumption, VolumeFacts, TableFacts DEF FsInv, FsTypes
  <2>2. i \in 0..(Len(mnt_dir_arr) + MaxVolumes + 1)
    BY <2>1 DEF FsInv, FsTypes
  <2> QED BY <2>2 DEF FsInv, FsTypes, FsTypeOK, Entry
<1> QED BY FsInitOK, FsStep, <1>1, PTL DEF FsSpec

-----------------------------------------------------------------------------
(* What a running container sees *)

\* Path p leads into a mount of the present start.
Fresh(p) == \E k \in DOMAIN mounts : LeadsInto(p, k) /\ mounts[k].start = starts

\* A new mount is seen at its place, and takes away no fresh one elsewhere.
LEMMA MountFresh ==
    ASSUME mounts \in Seq(Entry), starts \in 1..MaxStarts, starts' = starts,
           NEW p \in Targets \cup Dests, Mount(p)
    PROVE  /\ Len(p) \in Nat => Fresh(p)'
           /\ \A q : Fresh(q) => Fresh(q)'
<1> DEFINE n == Len(mounts)
           M == mounts'
<1>1. /\ M \in Seq(Entry) /\ Len(M) = n + 1 /\ n \in Nat
      /\ \A k \in 1..n : M[k] = mounts[k]
      /\ M[n + 1] = [at |-> p, start |-> starts]
      /\ DOMAIN mounts = 1..n
  BY MountTyped
<1>2. DOMAIN M = 1..(n + 1)
  BY <1>1
<1>3. M[n + 1].at = p /\ M[n + 1].start = starts
  BY <1>1
<1>4. n + 1 \in DOMAIN M /\ \A j \in DOMAIN M : ~(j > n + 1)
  BY <1>1, <1>2
<1>5. ASSUME NEW q, Above(p, q) PROVE Fresh(q)'
  <2>1. PICK k \in DOMAIN M : k = n + 1
    BY <1>4
  <2>2. LeadsInto(q, k)' /\ mounts'[k].start = starts
    BY <1>3, <1>4, <1>5, <2>1 DEF LeadsInto
  <2> QED BY <2>2 DEF Fresh
<1>6. Len(p) \in Nat => Above(p, p)
  BY DEF Above, IsPrefix
<1>7. ASSUME NEW q, Fresh(q), ~Above(p, q) PROVE Fresh(q)'
  <2>1. PICK k \in DOMAIN mounts : LeadsInto(q, k) /\ mounts[k].start = starts
    BY <1>7 DEF Fresh
  <2>2. /\ k \in 1..n /\ Above(mounts[k].at, q)
        /\ \A j \in DOMAIN mounts : j > k => ~Above(mounts[j].at, q)
    BY <1>1, <2>1 DEF LeadsInto
  <2>3. k \in DOMAIN M /\ M[k] = mounts[k]
    BY <1>1, <1>2, <2>2
  <2>4. ASSUME NEW j \in DOMAIN M, j > k PROVE ~Above(M[j].at, q)
    <3>1. CASE j = n + 1
      BY <1>3, <1>7, <3>1
    <3>2. CASE j # n + 1
      <4>1. j \in DOMAIN mounts /\ M[j] = mounts[j]
        BY <1>1, <1>2, <3>2
      <4> QED BY <2>2, <2>4, <4>1
    <3> QED BY <3>1, <3>2
  <2>5. LeadsInto(q, k)'
    BY <2>2, <2>3, <2>4 DEF LeadsInto
  <2> QED BY <2>1, <2>3, <2>5 DEF Fresh
<1> QED BY <1>5, <1>6, <1>7

\* The overlays up to round m of the loop of mount_container.
TableFresh(m) == \A k \in 1..9 : k < m /\ mnt_dir_arr[k] \in present => Fresh(mnt_dir_arr[k])

VolumesFresh(m) == \A k \in 1..Len(volumes), p \in Dests : k < m /\ p = volumes[k] => Fresh(p)

FreshInv ==
    /\ pc = "mount" => TableFresh(i)
    /\ pc \in {"volumes", "running"} => TableFresh(10)
    /\ pc = "volumes" => VolumesFresh(i)
    /\ pc = "running" => VolumesFresh(Len(volumes) + 1)

\* Mounting something keeps what is fresh, and so does doing nothing.
LEMMA FreshKept ==
    ASSUME FsInv, pc # "stopped", UNCHANGED <<volumes, present, starts>>,
           mounts' = mounts \/ \E p \in Targets \cup Dests : Mount(p)
    PROVE  /\ \A q : Fresh(q) => Fresh(q)'
           /\ \A m : TableFresh(m) => TableFresh(m)'
           /\ \A m : VolumesFresh(m) => VolumesFresh(m)'
<1>1. mounts \in Seq(Entry) /\ starts \in 1..MaxStarts
  BY FsAssumption DEF FsInv, FsTypes
<1>2. \A q : Fresh(q) => Fresh(q)'
  <2>1. CASE mounts' = mounts
    BY <2>1 DEF Fresh, LeadsInto
  <2>2. CASE \E p \in Targets \cup Dests : Mount(p)
    BY <1>1, <2>2, MountFresh
  <2> QED BY <2>1, <2>2
<1>3. \A m : TableFresh(m) => TableFresh(m)'
  BY <1>2 DEF TableFresh
<1>4. \A m : VolumesFresh(m) => VolumesFresh(m)'
  BY <1>2 DEF VolumesFresh
<1> QED BY <1>2, <1>3, <1>4

LEMMA FreshStep == FsInv /\ FreshInv /\ [FsNext]_fsVars => FreshInv'
<1> SUFFICES ASSUME FsInv, FreshInv, [FsNext]_fsVars PROVE FreshInv'
  OBVIOUS
<1>1. /\ Len(volumes) \in Nat /\ (\A k \in 1..Len(volumes) : volumes[k] \in Dests)
      /\ Len(mnt_dir_arr) = 15 /\ i \in Nat
      /\ mounts \in Seq(Entry) /\ (pc # "stopped" => starts \in 1..MaxStarts)
  BY FsAssumption, VolumeFacts, TableFacts DEF FsInv, FsTypes
<1>2. CASE UNCHANGED fsVars
  BY <1>2 DEF fsVars, FreshInv, TableFresh, VolumesFresh, Fresh, LeadsInto
<1>3. CASE Start
  <2>1. pc' = "mount" /\ i' = 0
    BY <1>3 DEF Start, Goto
  <2>2. TableFresh(i)'
    BY <2>1 DEF TableFresh
  <2> QED BY <2>1, <2>2 DEF FreshInv
<1>4. CASE MountStep
  <2>1. /\ pc = "mount" /\ i \in 0..15 /\ pc' = "mount" /\ i' = i + 1
        /\ UNCHANGED <<volumes, present, starts>>
    BY <1>1, <1>4 DEF MountStep, Goto
  <2>2. IF EntryAt(i) \in Overlays /\ EntryAt(i) \notin present
        THEN mounts' = mounts ELSE Mount(EntryAt(i))
    BY <1>4 DEF MountStep
  <2>3. EntryAt(i) \in Targets
    BY <2>1, EntryInTable
  <2>4. TableFresh(i)'
    <3>1. TableFresh(i)
      BY <2>1 DEF FreshInv
    <3>2. mounts' = mounts \/ \E p \in Targets \cup Dests : Mount(p)
      BY <2>2, <2>3
    <3>3. \A q : Fresh(q) => Fresh(q)'
      BY <2>1, <3>2, FreshKept
    <3> SUFFICES ASSUME NEW k \in 1..9, k < i', mnt_dir_arr[k] \in present
                 PROVE  Fresh(mnt_dir_arr[k])'
      BY <2>1 DEF TableFresh
    <3>4. CASE k < i
      BY <3>1, <3>3, <3>4 DEF TableFresh
    <3>5. CASE k = i
      <4>1. EntryAt(i) = mnt_dir_arr[k]
        BY <3>5 DEF EntryAt
      <4>2. Mount(mnt_dir_arr[k]) /\ mnt_dir_arr[k] \in Targets /\ Len(mnt_dir_arr[k]) = 1
        BY <2>2, <2>3, <4>1, TableFacts
      <4> QED BY <1>1, <2>1, <4>2, MountFresh
    <3> QED BY <2>1, <3>4, <3>5
  <2> QED BY <2>1, <2>4 DEF FreshInv
<1>5. CASE MountFails
  <2>1. \/ pc' = "umount"
        \/ pc = "mount" /\ pc' = "mount" /\ i' = i + 1 /\ EntryAt(i) \notin Overlays
    BY <1>5 DEF MountFails, Goto
  <2>2. CASE pc' = "umount"
    BY <2>2 DEF FreshInv
  <2>3. CASE pc = "mount" /\ pc' = "mount" /\ i' = i + 1 /\ EntryAt(i) \notin Overlays
    <3>1. TableFresh(i) /\ UNCHANGED <<present, mounts, starts>>
      BY <1>5, <2>3 DEF MountFails, FreshInv
    <3>2. \A q : Fresh(q) => Fresh(q)'
      BY <3>1 DEF Fresh, LeadsInto
    <3>3. \A k \in 1..9 : k # i
      BY <2>3 DEF EntryAt, Overlays
    <3>4. TableFresh(i)'
      BY <1>1, <2>3, <3>1, <3>2, <3>3 DEF TableFresh
    <3> QED BY <2>3, <3>4 DEF FreshInv
  <2> QED BY <2>1, <2>2, <2>3
<1>6. CASE MountDone
  <2>1. pc = "mount" /\ i > 15 /\ pc' = "volumes" /\ i' = 1 /\ UNCHANGED <<volumes, present, mounts, starts>>
    BY <1>1, <1>6 DEF MountDone, Goto
  <2>2. TableFresh(10)'
    <3>1. TableFresh(i)
      BY <2>1 DEF FreshInv
    <3>2. TableFresh(10)
      BY <1>1, <2>1, <3>1 DEF TableFresh
    <3> QED BY <2>1, <3>2, FreshKept
  <2>3. VolumesFresh(i)'
    BY <2>1 DEF VolumesFresh
  <2> QED BY <2>1, <2>2, <2>3 DEF FreshInv
<1>7. CASE VolumeStep
  <2>1. /\ pc = "volumes" /\ i \in 1..Len(volumes) /\ UNCHANGED <<volumes, present, starts>>
        /\ \/ Mount(volumes[i]) /\ pc' = "volumes" /\ i' = i + 1
           \/ mounts' = mounts /\ pc' = "umount"
    BY <1>1, <1>7 DEF VolumeStep, Goto, FsInv
  <2>2. CASE pc' = "umount"
    BY <2>2 DEF FreshInv
  <2>3. CASE Mount(volumes[i]) /\ pc' = "volumes" /\ i' = i + 1
    <3>1. volumes[i] \in Dests
      BY <1>1, <2>1
    <3>2. TableFresh(10) /\ VolumesFresh(i)
      BY <2>1 DEF FreshInv
    <3>3. TableFresh(10)' /\ \A q : Fresh(q) => Fresh(q)'
      BY <2>1, <2>3, <3>1, <3>2, FreshKept
    <3>4. ASSUME NEW p \in Dests, p = volumes[i] PROVE Fresh(p)'
      <4>1. p \in Seq(STRING)
        BY FsAssumption
      <4>2. Len(p) \in Nat /\ Mount(p) /\ starts' = starts
        BY <2>1, <2>3, <3>4, <4>1
      <4> QED BY <1>1, <2>1, <4>2, MountFresh
    <3>5. VolumesFresh(i)'
      <4> SUFFICES ASSUME NEW k \in 1..Len(volumes), NEW p \in Dests, k < i', p = volumes[k]
                   PROVE  Fresh(p)'
        BY <2>1 DEF VolumesFresh
      <4>1. CASE k < i
        <5>1. Fresh(p)
          BY <3>2, <4>1 DEF VolumesFresh
        <5> QED BY <3>3, <5>1
      <4>2. CASE k = i
        BY <3>4, <4>2
      <4> QED BY <1>1, <2>3, <4>1, <4>2
    <3> QED BY <2>3, <3>3, <3>5 DEF FreshInv
  <2> QED BY <2>1, <2>2, <2>3
<1>8. CASE VolumesDone
  <2>1. /\ pc = "volumes" /\ i > Len(volumes) /\ pc' = "running"
        /\ UNCHANGED <<volumes, present, mounts, starts>>
    BY <1>8 DEF VolumesDone, Goto
  <2>2. TableFresh(10) /\ VolumesFresh(i)
    BY <2>1 DEF FreshInv
  <2>3. TableFresh(10)' /\ VolumesFresh(i) /\ \A q : Fresh(q) => Fresh(q)'
    BY <2>1, <2>2, FreshKept
  <2>4. VolumesFresh(Len(volumes) + 1)'
    BY <1>1, <2>1, <2>3 DEF VolumesFresh
  <2> QED BY <2>1, <2>3, <2>4 DEF FreshInv
<1>9. CASE Exit \/ UmountStep \/ UmountDone \/ Retry \/ UmountVolume \/ UmountVolumesDone
  <2>1. pc' \in {"umount", "retry", "umount_volumes", "stopped"}
    BY <1>9 DEF Exit, UmountStep, UmountDone, Retry, UmountVolume, UmountVolumesDone, Goto
  <2> QED BY <2>1 DEF FreshInv
<1> QED BY <1>2, <1>3, <1>4, <1>5, <1>6, <1>7, <1>8, <1>9 DEF FsNext

\* A running container sees its own mount at every volume and at every overlay
\* the host has a directory for, whatever earlier starts have left mounted and
\* wherever its other volumes go: for any volumes and any number of starts.
THEOREM FsFreshMounts == FsSpec => []FreshMounts
<1>1. FsInit => FreshInv
  BY DEF FsInit, FreshInv
<1>2. FsInv /\ FreshInv => FreshMounts
  <2> SUFFICES ASSUME FsInv, FreshInv, pc = "running",
                      NEW p \in ToSet(volumes) \cup (Overlays \cap present)
               PROVE  Fresh(p)
    BY DEF FreshMounts, Fresh
  <2>1. /\ volumes \in Seq(Dests) /\ Len(volumes) \in Nat
        /\ \A k \in 1..Len(volumes) : volumes[k] \in Dests
    BY FsAssumption, VolumeFacts DEF FsInv, FsTypes
  <2>2. TableFresh(10) /\ VolumesFresh(Len(volumes) + 1)
    BY DEF FreshInv
  <2>3. CASE p \in ToSet(volumes)
    <3>1. PICK k \in 1..Len(volumes) : p = volumes[k]
      BY <2>1, <2>3 DEF ToSet
    <3>2. k < Len(volumes) + 1 /\ p \in Dests
      BY <2>1, <3>1
    <3> QED BY <2>2, <3>1, <3>2 DEF VolumesFresh
  <2>4. CASE p \in Overlays \cap present
    <3>1. PICK k \in 1..9 : p = mnt_dir_arr[k]
      BY <2>4 DEF Overlays
    <3>2. k < 10
      OBVIOUS
    <3> QED BY <2>2, <2>4, <3>1, <3>2 DEF TableFresh
  <2> QED BY <2>3, <2>4
<1> QED BY FsInitOK, FsStep, FreshStep, <1>1, <1>2, PTL DEF FsSpec

-----------------------------------------------------------------------------
(* What is unmounted *)

At(p) == {k \in DOMAIN mounts : mounts[k].at = p}

\* At most n mounts are at p: those that f names.
AtMost(p, n) == \E f \in [1..n -> Int] : \A k \in At(p) : \E r \in 1..n : f[r] = k

LEMMA AtMostMore ==
    ASSUME NEW p, NEW n \in Nat, NEW m \in Nat, n <= m, AtMost(p, n)
    PROVE  AtMost(p, m)
<1>1. PICK f \in [1..n -> Int] : \A k \in At(p) : \E r \in 1..n : f[r] = k
  BY DEF AtMost
<1> DEFINE g == [r \in 1..m |-> IF r <= n THEN f[r] ELSE 0]
<1>2. g \in [1..m -> Int] /\ \A r \in 1..n : r \in 1..m /\ g[r] = f[r]
  BY <1>1
<1> HIDE DEF g
<1>3. \A k \in At(p) : \E r \in 1..m : g[r] = k
  BY <1>1, <1>2
<1> QED BY <1>2, <1>3 DEF AtMost

LEMMA AtNone ==
    ASSUME NEW p
    PROVE  AtMost(p, 0) <=> At(p) = {}
<1>1. AtMost(p, 0) => At(p) = {}
  BY DEF AtMost
<1>2. ASSUME At(p) = {} PROVE AtMost(p, 0)
  <2>1. [r \in 1..0 |-> 0] \in [1..0 -> Int]
    OBVIOUS
  <2> QED BY <1>2, <2>1 DEF AtMost
<1> QED BY <1>1, <1>2

\* A set of positions has a largest one.
LEMMA LargestOf ==
    ASSUME NEW n \in Nat, NEW S \in SUBSET (1..n), S # {}
    PROVE  \E k \in S : \A j \in S : j <= k
<1> DEFINE T == {n - k : k \in S}
<1>1. T \subseteq Nat /\ T # {}
  <2>1. \A k \in S : n - k \in Nat
    OBVIOUS
  <2>2. \E k \in S : n - k \in T
    OBVIOUS
  <2> QED BY <2>1, <2>2
<1> HIDE DEF T
<1>2. \E x \in T : \A y \in T : ~(<<y, x>> \in OpToRel(<, Nat))
  BY <1>1, WFMin, NatLessThanWellFounded
<1>3. PICK x \in T : \A y \in T : ~(<<y, x>> \in OpToRel(<, Nat))
  BY <1>2
<1>4. \A y \in T : ~(y < x)
  BY <1>1, <1>3 DEF OpToRel
<1>5. PICK k \in S : x = n - k
  BY DEF T
<1>6. \A j \in S : ~(n - j < x)
  BY <1>4 DEF T
<1>7. \A j \in S : j <= k
  BY <1>5, <1>6
<1> QED BY <1>7

\* Taking entry k out of the table.
LEMMA RemoveEntry ==
    ASSUME mounts \in Seq(Entry), NEW k \in 1..Len(mounts), mounts' = RemoveAt(mounts, k)
    PROVE  /\ Len(mounts) \in Nat /\ DOMAIN mounts = 1..Len(mounts)
           /\ DOMAIN mounts' = 1..(Len(mounts) - 1)
           /\ \A j \in 1..(Len(mounts) - 1) : mounts'[j] = mounts[IF j < k THEN j ELSE j + 1]
<1> DEFINE n == Len(mounts)
           A == SubSeq(mounts, 1, k - 1)
           B == SubSeq(mounts, k + 1, n)
<1>1. n \in Nat /\ DOMAIN mounts = 1..n /\ \A r \in 1..n : mounts[r] \in Entry
  OBVIOUS
<1>2. A \in Seq(Entry) /\ Len(A) = k - 1 /\ \A j \in 1..(k - 1) : A[j] = mounts[j]
  <2>1. 1 \in Int /\ k - 1 \in Int /\ \A r \in 1..(k - 1) : mounts[r] \in Entry
    BY <1>1
  <2>2. /\ A \in Seq(Entry) /\ Len(A) = IF 1 <= k - 1 THEN (k - 1) - 1 + 1 ELSE 0
        /\ \A j \in 1..((k - 1) - 1 + 1) : A[j] = mounts[1 + j - 1]
    BY <2>1, SubSeqProperties
  <2> HIDE DEF A, n
  <2>3. Len(A) = k - 1
    BY <1>1, <2>2
  <2>4. \A j \in 1..(k - 1) : j \in 1..((k - 1) - 1 + 1) /\ 1 + j - 1 = j
    BY <1>1
  <2> QED BY <2>2, <2>3, <2>4
<1>3. B \in Seq(Entry) /\ Len(B) = n - k /\ \A j \in 1..(n - k) : B[j] = mounts[k + j]
  <2>1. k + 1 \in Int /\ n \in Int /\ \A r \in (k + 1)..n : mounts[r] \in Entry
    BY <1>1
  <2>2. /\ B \in Seq(Entry) /\ Len(B) = IF k + 1 <= n THEN n - (k + 1) + 1 ELSE 0
        /\ \A j \in 1..(n - (k + 1) + 1) : B[j] = mounts[(k + 1) + j - 1]
    BY <2>1, SubSeqProperties
  <2>5. k \in 1..n
    OBVIOUS
  <2> HIDE DEF B, n
  <2>3. Len(B) = n - k
    BY <1>1, <2>2, <2>5
  <2>4. \A j \in 1..(n - k) : j \in 1..(n - (k + 1) + 1) /\ (k + 1) + j - 1 = k + j
    BY <1>1, <2>5
  <2> QED BY <2>2, <2>3, <2>4
<1>4. mounts' = A \o B
  BY DEF RemoveAt
<1> HIDE DEF A, B, n
<1>5. /\ A \o B \in Seq(Entry) /\ Len(A \o B) = Len(A) + Len(B)
      /\ \A j \in 1 .. Len(A) + Len(B) : (A \o B)[j] = IF j <= Len(A) THEN A[j] ELSE B[j - Len(A)]
  <2>1. A \in Seq(Entry) /\ B \in Seq(Entry)
    BY <1>2, <1>3
  <2> QED BY <2>1, ConcatProperties
<1>6. k \in 1..n
  BY DEF n
<1> DEFINE M == mounts'
<1> HIDE DEF M
<1>7. /\ M \in Seq(Entry) /\ Len(M) = Len(A) + Len(B)
      /\ \A j \in 1 .. Len(A) + Len(B) : M[j] = IF j <= Len(A) THEN A[j] ELSE B[j - Len(A)]
  BY <1>4, <1>5, Zenon DEF M
<1>8. Len(A) + Len(B) = n - 1
  BY <1>1, <1>2, <1>3, <1>6
<1>9. DOMAIN M = 1..(n - 1)
  BY <1>7, <1>8
<1>10. ASSUME NEW j \in 1..(n - 1)
       PROVE  M[j] = mounts[IF j < k THEN j ELSE j + 1]
  <2>1. M[j] = IF j <= k - 1 THEN A[j] ELSE B[j - (k - 1)]
    BY <1>2, <1>7, <1>8
  <2>2. CASE j < k
    <3>1. j <= k - 1 /\ j \in 1..(k - 1)
      BY <1>1, <1>6, <2>2
    <3> QED BY <1>2, <2>1, <2>2, <3>1
  <2>3. CASE ~(j < k)
    <3>1. ~(j <= k - 1) /\ j - (k - 1) \in 1..(n - k) /\ k + (j - (k - 1)) = j + 1
      BY <1>1, <1>6, <2>3
    <3> QED BY <1>3, <2>1, <2>3, <3>1
  <2> QED BY <2>2, <2>3
<1> QED BY <1>1, <1>9, <1>10 DEF M, n

\* What lies above p was mounted before what is mounted at p.
Ordered(p) ==
    \A j \in DOMAIN mounts, k \in At(p) :
        Above(mounts[j].at, p) /\ mounts[j].at # p => j < k

LEMMA MountAt ==
    ASSUME mounts \in Seq(Entry), starts \in 1..MaxStarts, NEW q \in Targets \cup Dests, Mount(q),
           NEW p, NEW n \in Nat
    PROVE  /\ p # q /\ AtMost(p, n) => AtMost(p, n)'
           /\ p = q /\ AtMost(p, n) => AtMost(p, n + 1)'
           /\ Ordered(p) /\ (p = q \/ ~Above(q, p) \/ At(p) = {}) => Ordered(p)'
<1> DEFINE l == Len(mounts)
           M == mounts'
<1>1. /\ l \in Nat /\ DOMAIN mounts = 1..l /\ DOMAIN M = 1..(l + 1)
      /\ \A k \in 1..l : M[k] = mounts[k]
      /\ M[l + 1].at = q
  <2>1. /\ M \in Seq(Entry) /\ Len(M) = l + 1 /\ \A k \in 1..l : M[k] = mounts[k]
        /\ M[l + 1] = [at |-> q, start |-> starts]
    BY MountTyped
  <2>2. l \in Nat /\ DOMAIN mounts = 1..l
    OBVIOUS
  <2> HIDE DEF l, M
  <2>3. DOMAIN M = 1..(l + 1)
    BY <2>1, <2>2
  <2>4. M[l + 1].at = q
    BY <2>1
  <2> QED BY <2>1, <2>2, <2>3, <2>4
<1> HIDE DEF l, M
<1>2. At(p)' = {k \in DOMAIN M : M[k].at = p}
  BY DEF At, M
<1>3. At(p) = {k \in 1..l : mounts[k].at = p}
  BY <1>1 DEF At
<1>4. p # q => At(p)' = At(p)
  BY <1>1, <1>2, <1>3
<1>5. p = q => At(p)' = At(p) \cup {l + 1}
  BY <1>1, <1>2, <1>3
<1>6. p # q /\ AtMost(p, n) => AtMost(p, n)'
  BY <1>4 DEF AtMost
<1>7. ASSUME p = q, AtMost(p, n) PROVE AtMost(p, n + 1)'
  <2>1. PICK f \in [1..n -> Int] : \A k \in At(p) : \E r \in 1..n : f[r] = k
    BY <1>7 DEF AtMost
  <2>e. PICK e \in Int : e = l + 1
    BY <1>1
  <2> DEFINE g == [r \in 1..(n + 1) |-> IF r <= n THEN f[r] ELSE e]
  <2>2. /\ g \in [1..(n + 1) -> Int] /\ g[n + 1] = e /\ n + 1 \in 1..(n + 1)
        /\ \A r \in 1..n : r \in 1..(n + 1) /\ g[r] = f[r]
    BY <2>1
  <2> HIDE DEF g
  <2>3. \A k \in At(p)' : \E r \in 1..(n + 1) : g[r] = k
    BY <1>5, <1>7, <2>1, <2>2, <2>e
  <2> QED BY <2>2, <2>3 DEF AtMost
<1>8. ASSUME Ordered(p), p = q \/ ~Above(q, p) \/ At(p) = {} PROVE Ordered(p)'
  <2> SUFFICES ASSUME NEW j \in DOMAIN M, NEW k \in At(p)', Above(M[j].at, p), M[j].at # p
               PROVE  j < k
    BY DEF Ordered, M
  <2>1. CASE j \in 1..l /\ k \in 1..l
    <3>1. k \in At(p) /\ j \in DOMAIN mounts /\ Above(mounts[j].at, p) /\ mounts[j].at # p
      BY <1>1, <1>2, <1>3, <2>1
    <3> QED BY <1>8, <3>1 DEF Ordered
  <2>2. CASE j \in 1..l /\ k = l + 1
    BY <1>1, <2>2
  <2>3. CASE j = l + 1
    <3>1. q # p /\ Above(q, p)
      BY <1>1, <2>3
    <3>2. At(p)' = {}
      BY <1>4, <1>8, <3>1
    <3> QED BY <3>2
  <2>4. j \in 1..(l + 1) /\ k \in 1..(l + 1)
    BY <1>1, <1>2
  <2> QED BY <1>1, <2>1, <2>2, <2>3, <2>4
<1> QED BY <1>6, <1>7, <1>8

LEMMA RemoveEffect ==
    ASSUME mounts \in Seq(Entry), NEW k \in 1..Len(mounts), mounts' = RemoveAt(mounts, k),
           NEW p, NEW n \in Nat
    PROVE  /\ AtMost(p, n) => AtMost(p, n)'
           /\ AtMost(p, n + 1) /\ k \in At(p) => AtMost(p, n)'
           /\ Ordered(p) => Ordered(p)'
           /\ \A j \in DOMAIN mounts' : \E m \in DOMAIN mounts : mounts'[j] = mounts[m]
<1> DEFINE l == Len(mounts)
           M == mounts'
           old(j) == IF j < k THEN j ELSE j + 1
           new(j) == IF j < k THEN j ELSE j - 1
<1>1. /\ l \in Nat /\ DOMAIN mounts = 1..l /\ DOMAIN M = 1..(l - 1)
      /\ \A j \in 1..(l - 1) : M[j] = mounts[old(j)]
  BY RemoveEntry
<1>k. k \in 1..l
  OBVIOUS
<1> HIDE DEF l, M
<1>2. \A j \in 1..(l - 1) : old(j) \in 1..l /\ old(j) # k /\ new(old(j)) = j
  BY <1>1, <1>k
<1>3. ASSUME NEW j \in At(p)' PROVE j \in 1..(l - 1) /\ old(j) \in At(p)
  <2>1. j \in 1..(l - 1) /\ M[j].at = p
    BY <1>1 DEF At, M
  <2> QED BY <1>1, <1>2, <2>1 DEF At
<1>4. ASSUME AtMost(p, n) PROVE AtMost(p, n)'
  <2>1. PICK f \in [1..n -> Int] : \A j \in At(p) : \E r \in 1..n : f[r] = j
    BY <1>4 DEF AtMost
  <2> DEFINE g == [r \in 1..n |-> new(f[r])]
  <2>2. g \in [1..n -> Int] /\ \A r \in 1..n : g[r] = new(f[r])
    BY <2>1
  <2> HIDE DEF g
  <2>3. ASSUME NEW j \in At(p)' PROVE \E r \in 1..n : g[r] = j
    <3>1. PICK r \in 1..n : f[r] = old(j)
      BY <1>3, <2>1
    <3>2. g[r] = new(old(j))
      BY <2>2, <3>1
    <3>3. new(old(j)) = j
      BY <1>2, <1>3
    <3> QED BY <3>2, <3>3
  <2> QED BY <2>2, <2>3 DEF AtMost
<1>5. ASSUME AtMost(p, n + 1), k \in At(p) PROVE AtMost(p, n)'
  <2>1. PICK f \in [1..(n + 1) -> Int] : \A j \in At(p) : \E r \in 1..(n + 1) : f[r] = j
    BY <1>5 DEF AtMost
  <2>2. PICK s \in 1..(n + 1) : f[s] = k
    BY <1>5, <2>1
  <2> DEFINE g == [r \in 1..n |-> new(f[IF r < s THEN r ELSE r + 1])]
  <2>3. /\ g \in [1..n -> Int]
        /\ \A r \in 1..n : g[r] = new(f[IF r < s THEN r ELSE r + 1])
    <3>1. \A r \in 1..n : (IF r < s THEN r ELSE r + 1) \in 1..(n + 1)
      OBVIOUS
    <3> QED BY <2>1, <3>1
  <2> HIDE DEF g
  <2>4. ASSUME NEW j \in At(p)' PROVE \E r \in 1..n : g[r] = j
    <3>1. PICK t \in 1..(n + 1) : f[t] = old(j)
      BY <1>3, <2>1
    <3>2. t # s /\ new(old(j)) = j
      BY <1>2, <1>3, <2>2, <3>1
    <3>3. CASE t < s
      <4>0. t \in 1..n
        BY <3>3
      <4>1. g[t] = new(f[t])
        BY <2>3, <3>3, <4>0
      <4> QED BY <3>1, <3>2, <4>0, <4>1
    <3>4. CASE t > s
      <4>1. t - 1 \in 1..n /\ ~(t - 1 < s) /\ (t - 1) + 1 = t
        BY <3>4
      <4>2. g[t - 1] = new(f[t])
        BY <2>3, <4>1
      <4> QED BY <3>1, <3>2, <4>1, <4>2
    <3> QED BY <3>2, <3>3, <3>4
  <2> QED BY <2>3, <2>4 DEF AtMost
<1>6. ASSUME Ordered(p) PROVE Ordered(p)'
  <2> SUFFICES ASSUME NEW j \in DOMAIN M, NEW m \in At(p)', Above(M[j].at, p), M[j].at # p
               PROVE  j < m
    BY DEF Ordered, M
  <2>1. old(j) \in 1..l /\ j \in 1..(l - 1) /\ M[j] = mounts[old(j)]
    BY <1>1, <1>2
  <2>2. old(m) \in At(p) /\ m \in 1..(l - 1)
    BY <1>3
  <2>3. old(j) < old(m)
    BY <1>1, <1>6, <2>1, <2>2 DEF Ordered
  <2> QED BY <1>1, <1>k, <2>1, <2>2, <2>3
<1>7. \A j \in DOMAIN mounts' : \E m \in DOMAIN mounts : mounts'[j] = mounts[m]
  BY <1>1, <1>2 DEF M
<1> QED BY <1>4, <1>5, <1>6, <1>7

\* umount never makes it worse, at any path.
LEMMA UmountEffect ==
    ASSUME mounts \in Seq(Entry), NEW q, Umount(q), NEW p, NEW n \in Nat
    PROVE  /\ AtMost(p, n) => AtMost(p, n)'
           /\ Ordered(p) => Ordered(p)'
           /\ \A j \in DOMAIN mounts' : \E m \in DOMAIN mounts : mounts'[j] = mounts[m]
<1>1. CASE mounts' = mounts
  BY <1>1 DEF AtMost, Ordered, At
<1>2. CASE \E k \in 1..Len(mounts) : mounts' = RemoveAt(mounts, k)
  BY <1>2, RemoveEffect
<1>3. mounts' = mounts \/ \E k \in 1..Len(mounts) : mounts' = RemoveAt(mounts, k)
  BY DEF Umount
<1> QED BY <1>1, <1>2, <1>3

\* umount takes the youngest mount at p away, if nothing is mounted below p.
LEMMA UmountTakes ==
    ASSUME mounts \in Seq(Entry), NEW p, NEW n \in Nat, Umount(p), Ordered(p), AtMost(p, n + 1),
           \A j \in DOMAIN mounts : Above(p, mounts[j].at) => mounts[j].at = p,
           Above(p, p)
    PROVE  AtMost(p, n)'
<1> DEFINE Gone(k) == LeadsInto(p, k) /\ mounts[k].at = p /\ ~Busy(k)
<1>1. CASE At(p) = {}
  <2>1. AtMost(p, 0)
    BY <1>1, AtNone
  <2>2. AtMost(p, n)
    BY <2>1, AtMostMore
  <2> QED BY <2>2, UmountEffect
<1>2. CASE At(p) # {}
  <2>1. Len(mounts) \in Nat /\ DOMAIN mounts = 1..Len(mounts) /\ At(p) \subseteq 1..Len(mounts)
    BY DEF At
  <2>2. PICK k \in At(p) : \A j \in At(p) : j <= k
    BY <1>2, <2>1, LargestOf
  <2>3. k \in DOMAIN mounts /\ mounts[k].at = p /\ k \in Int
    BY <2>1, <2>2 DEF At
  <2>4. LeadsInto(p, k)
    <3> SUFFICES ASSUME NEW j \in DOMAIN mounts, j > k, Above(mounts[j].at, p) PROVE FALSE
      BY <2>3 DEF LeadsInto
    <3>1. j \in Int
      BY <2>1
    <3>2. CASE mounts[j].at = p
      <4>1. j <= k
        BY <2>2, <3>2 DEF At
      <4> QED BY <2>3, <3>1, <4>1
    <3>3. CASE mounts[j].at # p
      <4>1. j < k
        BY <2>2, <3>3 DEF Ordered
      <4> QED BY <2>3, <3>1, <4>1
    <3> QED BY <3>2, <3>3
  <2>5. ~Busy(k)
    <3> SUFFICES ASSUME NEW c \in DOMAIN mounts, SitsOn(c, k) PROVE FALSE
      BY DEF Busy
    <3>1. k < c /\ Above(p, mounts[c].at) /\ c \in Int
      BY <2>1, <2>3 DEF SitsOn
    <3>2. c <= k
      BY <2>2, <3>1 DEF At
    <3> QED BY <2>3, <3>1, <3>2
  <2>6. \E r \in DOMAIN mounts : Gone(r)
    BY <2>3, <2>4, <2>5
  <2> DEFINE d == CHOOSE r \in DOMAIN mounts : Gone(r)
  <2>7. d \in DOMAIN mounts /\ mounts[d].at = p
    BY <2>6
  <2>8. mounts' = RemoveAt(mounts, d)
    BY <2>6 DEF Umount
  <2> HIDE DEF d, Gone
  <2>9. PICK e \in 1..Len(mounts) : e = d
    BY <2>1, <2>7
  <2>10. mounts' = RemoveAt(mounts, e) /\ e \in At(p)
    BY <2>7, <2>8, <2>9 DEF At
  <2> QED BY <2>10, RemoveEffect
<1> QED BY <1>1, <1>2

-----------------------------------------------------------------------------
(* Paths and the order of the table *)

\* A path is above another one if it is an initial part of it.
LEMMA AboveMeans ==
    ASSUME NEW S, NEW p \in Seq(S), NEW q \in Seq(S)
    PROVE  Above(p, q) <=> Len(p) <= Len(q) /\ \A k \in 1..Len(p) : p[k] = q[k]
<1> DEFINE n == Len(p)
           A == SubSeq(p, 1, n)
           B == SubSeq(q, 1, n)
<1>1. /\ n \in Nat /\ Len(q) \in Nat
      /\ (\A k \in 1..n : p[k] \in S) /\ \A k \in 1..Len(q) : q[k] \in S
  OBVIOUS
<1>2. Above(p, q) <=> n <= Len(q) /\ A = B
  BY DEF Above, IsPrefix
<1>3. A \in Seq(S) /\ Len(A) = n /\ \A k \in 1..n : A[k] = p[k]
  <2>1. 1 \in Int /\ n \in Int /\ \A k \in 1..n : p[k] \in S
    BY <1>1
  <2>2. /\ A \in Seq(S) /\ Len(A) = IF 1 <= n THEN n - 1 + 1 ELSE 0
        /\ \A k \in 1..(n - 1 + 1) : A[k] = p[1 + k - 1]
    BY <2>1, SubSeqProperties
  <2> HIDE DEF n, A
  <2>3. \A k \in 1..n : k \in 1..(n - 1 + 1) /\ 1 + k - 1 = k
    BY <1>1
  <2> QED BY <1>1, <2>2, <2>3
<1>4. ASSUME n <= Len(q) PROVE B \in Seq(S) /\ Len(B) = n /\ \A k \in 1..n : B[k] = q[k]
  <2>1. 1 \in Int /\ n \in Int /\ \A k \in 1..n : q[k] \in S
    BY <1>1, <1>4
  <2>2. /\ B \in Seq(S) /\ Len(B) = IF 1 <= n THEN n - 1 + 1 ELSE 0
        /\ \A k \in 1..(n - 1 + 1) : B[k] = q[1 + k - 1]
    BY <2>1, SubSeqProperties
  <2> HIDE DEF n, B
  <2>3. \A k \in 1..n : k \in 1..(n - 1 + 1) /\ 1 + k - 1 = k
    BY <1>1
  <2> QED BY <1>1, <2>2, <2>3
<1> HIDE DEF A, B
<1>5. ASSUME n <= Len(q), A = B PROVE \A k \in 1..n : p[k] = q[k]
  BY <1>3, <1>4, <1>5
<1>6. ASSUME n <= Len(q), \A k \in 1..n : p[k] = q[k] PROVE A = B
  BY <1>3, <1>4, <1>6, SeqEqual
<1> QED BY <1>2, <1>5, <1>6

LEMMA AboveOrder ==
    ASSUME NEW S, NEW p \in Seq(S), NEW q \in Seq(S), NEW r \in Seq(S)
    PROVE  /\ Above(p, p)
           /\ Above(p, q) /\ Above(q, r) => Above(p, r)
           /\ Above(p, r) /\ Above(q, r) => Related(p, q)
<1>1. Len(p) \in Nat /\ Len(q) \in Nat /\ Len(r) \in Nat
  OBVIOUS
<1>2. Above(p, p)
  BY <1>1, AboveMeans
<1>3. ASSUME Above(p, q), Above(q, r) PROVE Above(p, r)
  <2>1. Len(p) <= Len(q) /\ \A k \in 1..Len(p) : p[k] = q[k]
    BY <1>3, AboveMeans
  <2>2. Len(q) <= Len(r) /\ \A k \in 1..Len(q) : q[k] = r[k]
    BY <1>3, AboveMeans
  <2>3. Len(p) <= Len(r) /\ \A k \in 1..Len(p) : p[k] = r[k]
    BY <1>1, <2>1, <2>2
  <2> QED BY <2>3, AboveMeans
<1>4. ASSUME Above(p, r), Above(q, r) PROVE Related(p, q)
  <2>1. Len(p) <= Len(r) /\ \A k \in 1..Len(p) : p[k] = r[k]
    BY <1>4, AboveMeans
  <2>2. Len(q) <= Len(r) /\ \A k \in 1..Len(q) : q[k] = r[k]
    BY <1>4, AboveMeans
  <2>3. CASE Len(p) <= Len(q)
    <3>1. \A k \in 1..Len(p) : p[k] = q[k]
      BY <1>1, <2>1, <2>2, <2>3
    <3>2. Above(p, q)
      BY <2>3, <3>1, AboveMeans
    <3> QED BY <3>2 DEF Related
  <2>4. CASE Len(q) <= Len(p)
    <3>1. \A k \in 1..Len(q) : q[k] = p[k]
      BY <1>1, <2>1, <2>2, <2>4
    <3>2. Above(q, p)
      BY <2>4, <3>1, AboveMeans
    <3> QED BY <3>2 DEF Related
  <2> QED BY <1>1, <2>3, <2>4
<1> QED BY <1>2, <1>3, <1>4

Names ==
    STRING \cup {"bin", "etc", "lib", "lib64", "opt", "run", "sbin", "usr", "var", "proc",
                 "sys", "dev", "pts", "shm", "tmp"}

Paths == Targets \cup Dests

LEMMA TablePaths ==
    /\ \A k \in 1..15 : mnt_dir_arr[k] \in Seq(Names)
    /\ DOMAIN mnt_dir_arr = 1..15
    /\ Targets = {mnt_dir_arr[k] : k \in 1..15}
    /\ \A p \in Paths : p \in Seq(Names)
<1>1. DOMAIN mnt_dir_arr = 1..15
  BY DEF mnt_dir_arr
<1>2. ASSUME NEW k \in 1..15 PROVE mnt_dir_arr[k] \in Seq(Names)
  <2>1. \A x, y \in Names : <<x>> \in Seq(Names) /\ <<x, y>> \in Seq(Names)
    OBVIOUS
  <2>2. \E x, y \in Names : mnt_dir_arr[k] = <<x>> \/ mnt_dir_arr[k] = <<x, y>>
    <3>1. \/ k = 1 \/ k = 2 \/ k = 3 \/ k = 4 \/ k = 5 \/ k = 6 \/ k = 7 \/ k = 8 \/ k = 9
          \/ k = 10 \/ k = 11 \/ k = 12 \/ k = 13 \/ k = 14 \/ k = 15
      OBVIOUS
    <3> QED BY <3>1 DEF mnt_dir_arr, Names
  <2> QED BY <2>1, <2>2
<1>3. Targets = {mnt_dir_arr[k] : k \in 1..15}
  BY <1>1 DEF Targets, ToSet
<1>4. ASSUME NEW p \in Dests PROVE p \in Seq(Names)
  <2>1. p \in Seq(STRING)
    BY FsAssumption
  <2>2. STRING \subseteq Names
    BY DEF Names
  <2>0. Len(p) \in Nat /\ \A k \in 1..Len(p) : p[k] \in STRING
    BY <2>1
  <2>3. Len(p) \in Nat /\ \A k \in 1..Len(p) : p[k] \in Names
    BY <2>0, <2>2
  <2>4. p \in [1..Len(p) -> Names]
    BY <2>1, <2>2, <2>3
  <2> QED BY <2>3, <2>4
<1> QED BY <1>1, <1>2, <1>3, <1>4 DEF Paths

\* Only /dev is above other directories of the table, and it comes before them.
LEMMA TableOrder ==
    ASSUME NEW k \in 1..15, NEW j \in 1..15
    PROVE  /\ mnt_dir_arr[k] = mnt_dir_arr[j] => k = j
           /\ Above(mnt_dir_arr[k], mnt_dir_arr[j]) /\ k # j => k < j /\ k > 1
<1> DEFINE M == mnt_dir_arr
<1>1. \A l \in 1..15 : Len(M[l]) = IF l \in {13, 14} THEN 2 ELSE 1
  <2>1. ASSUME NEW l \in 1..15, l # 13, l # 14 PROVE Len(M[l]) = 1
    <3>1. \/ l = 1 \/ l = 2 \/ l = 3 \/ l = 4 \/ l = 5 \/ l = 6 \/ l = 7 \/ l = 8 \/ l = 9
          \/ l = 10 \/ l = 11 \/ l = 12 \/ l = 15
      BY <2>1
    <3> QED BY <3>1 DEF mnt_dir_arr
  <2>2. Len(M[13]) = 2 /\ Len(M[14]) = 2
    BY DEF mnt_dir_arr
  <2> HIDE DEF M
  <2> QED BY <2>1, <2>2
<1>2. /\ M[1][1] = "bin" /\ M[2][1] = "etc" /\ M[3][1] = "lib" /\ M[4][1] = "lib64"
      /\ M[5][1] = "opt" /\ M[6][1] = "run" /\ M[7][1] = "sbin" /\ M[8][1] = "usr"
      /\ M[9][1] = "var" /\ M[10][1] = "proc" /\ M[11][1] = "sys" /\ M[12][1] = "dev"
      /\ M[13][1] = "dev" /\ M[14][1] = "dev" /\ M[15][1] = "tmp"
      /\ M[13][2] = "pts" /\ M[14][2] = "shm"
  BY DEF mnt_dir_arr
<1>3. M[k] \in Seq(Names) /\ M[j] \in Seq(Names)
  BY TablePaths
<1> HIDE DEF M
<1>4. ASSUME M[k][1] = M[j][1] PROVE k = j \/ (k \in 12..14 /\ j \in 12..14)
  <2>1. /\ \/ k = 1 \/ k = 2 \/ k = 3 \/ k = 4 \/ k = 5 \/ k = 6 \/ k = 7 \/ k = 8 \/ k = 9
           \/ k = 10 \/ k = 11 \/ k = 15 \/ k \in 12..14
        /\ k \in 12..14 => M[k][1] = "dev"
    BY <1>2
  <2>2. /\ \/ j = 1 \/ j = 2 \/ j = 3 \/ j = 4 \/ j = 5 \/ j = 6 \/ j = 7 \/ j = 8 \/ j = 9
           \/ j = 10 \/ j = 11 \/ j = 15 \/ j \in 12..14
        /\ j \in 12..14 => M[j][1] = "dev"
    BY <1>2
  <2> QED BY <1>2, <1>4, <2>1, <2>2
<1>5. ASSUME k \in 12..14, j \in 12..14, M[k] = M[j] PROVE k = j
  BY <1>1, <1>2, <1>5
<1>6. M[k] = M[j] => k = j
  BY <1>4, <1>5
<1>7. ASSUME Above(M[k], M[j]), k # j PROVE k < j /\ k > 1
  <2>1. Len(M[k]) <= Len(M[j]) /\ \A l \in 1..Len(M[k]) : M[k][l] = M[j][l]
    BY <1>3, <1>7, AboveMeans
  <2>2. M[k][1] = M[j][1]
    <3>1. Len(M[k]) \in {1, 2}
      BY <1>1
    <3>2. \A n \in {1, 2} : 1 \in 1..n
      OBVIOUS
    <3>3. 1 \in 1..Len(M[k])
      BY <3>1, <3>2, Zenon
    <3> QED BY <2>1, <3>3, Zenon
  <2>3. k \in 12..14 /\ j \in 12..14
    BY <1>4, <1>7, <2>2
  <2>4. CASE k = 12
    BY <1>7, <2>3, <2>4
  <2>5. CASE k # 12
    <3>0. k \in {13, 14} /\ Len(M[k]) = 2
      BY <1>1, <2>3, <2>5
    <3>1. k \in {13, 14} /\ Len(M[k]) = 2 /\ j \in {13, 14}
      BY <1>1, <2>1, <2>3, <3>0
    <3>2. M[k][2] = M[j][2]
      BY <2>1, <3>1
    <3> QED BY <1>2, <1>7, <3>1, <3>2
  <2> QED BY <2>4, <2>5
<1> QED BY <1>6, <1>7 DEF M

-----------------------------------------------------------------------------
(* What is left when a container has stopped *)

\* No other volume is nested with p; if p is a volume no directory of the
\* table is either.
Clean(p) ==
    /\ \A q \in ToSet(volumes) : q # p => ~Related(p, q)
    /\ p \in ToSet(volumes) => \A q \in Targets : q # p => ~Related(p, q)

\* p is the j-th directory of the table, if the host has it, and the k-th
\* volume; 0 if it is none.
IsEntry(p, j) ==
    /\ j \in 0..15
    /\ j = 0 => p \notin present
    /\ j # 0 => p \in present /\ p = mnt_dir_arr[j]

IsVolume(p, k) ==
    /\ k \in 0..Len(volumes)
    /\ k = 0 => p \notin ToSet(volumes)
    /\ k # 0 => p = volumes[k]

\* How many mounts a start has put, and not yet taken away, at directory j of
\* the table and at volume k, when it is at a step and its loop at n.
Full(j) == IF j = 1 THEN 2 ELSE 1

TableMounts(step, n, j) ==
    IF j = 0 THEN 0
    ELSE IF step = "mount" THEN IF j = 1 THEN (IF n > 2 THEN 2 ELSE n) ELSE (IF n > j THEN 1 ELSE 0)
    ELSE IF step \in {"volumes", "running"} THEN Full(j)
    ELSE IF step = "umount" THEN (IF n >= j THEN Full(j) ELSE Full(j) - 1)
    ELSE IF step = "retry" THEN Full(j) - 1
    ELSE 0

VolumeMounts(step, n, k) ==
    IF k = 0 THEN 0
    ELSE IF step = "volumes" THEN (IF n > k THEN 1 ELSE 0)
    ELSE IF step \in {"running", "umount", "retry"} THEN 1
    ELSE IF step = "umount_volumes" THEN (IF n > k THEN 0 ELSE 1)
    ELSE 0

MountsAt(step, n, j, k) == TableMounts(step, n, j) + VolumeMounts(step, n, k)

\* Mounts are where they belong, the rest of the table is always there, and no
\* volume is given twice.
Places ==
    /\ \A m \in DOMAIN mounts : mounts[m].at \in present \cup ToSet(volumes)
    /\ Targets \ Overlays \subseteq present
    /\ IsInjective(volumes)

\* At a clean path the mounts are in order and no more than the start's.
CleanAt(p, j, k, step, n) ==
    Clean(p) /\ IsEntry(p, j) /\ IsVolume(p, k) =>
        Ordered(p) /\ AtMost(p, MountsAt(step, n, j, k))

LeftInv == Places /\ \A p \in Paths, j \in 0..15, k \in Nat : CleanAt(p, j, k, pc, i)

LEMMA MountsAtNat ==
    ASSUME NEW step, NEW n \in Nat, NEW j \in 0..15, NEW k \in Nat
    PROVE  /\ TableMounts(step, n, j) \in Nat /\ VolumeMounts(step, n, k) \in Nat
           /\ MountsAt(step, n, j, k) \in Nat
<1>1. Full(j) \in 1..2
  BY DEF Full
<1> HIDE DEF Full
<1>2. TableMounts(step, n, j) \in Nat
  BY <1>1 DEF TableMounts
<1>3. VolumeMounts(step, n, k) \in Nat
  BY DEF VolumeMounts
<1> QED BY <1>2, <1>3 DEF MountsAt

\* Every path has an entry and a volume.
LEMMA PathIndex ==
    ASSUME NEW p, present \subseteq Targets, volumes \in Seq(Dests)
    PROVE  (\E j \in 0..15 : IsEntry(p, j)) /\ (\E k \in Nat : IsVolume(p, k))
<1>1. Len(volumes) \in Nat /\ ToSet(volumes) = {volumes[k] : k \in 1..Len(volumes)}
  BY DEF ToSet
<1>2. \E j \in 0..15 : IsEntry(p, j)
  <2>1. ASSUME p \in present PROVE \E j \in 0..15 : IsEntry(p, j)
    <3>1. PICK j \in 1..15 : p = mnt_dir_arr[j]
      BY <2>1, TablePaths
    <3>2. j \in 0..15 /\ IsEntry(p, j)
      BY <2>1, <3>1 DEF IsEntry
    <3> QED BY <3>2
  <2>2. p \notin present => IsEntry(p, 0)
    BY DEF IsEntry
  <2> QED BY <2>1, <2>2
<1>3. \E k \in Nat : IsVolume(p, k)
  <2>1. ASSUME p \in ToSet(volumes) PROVE \E k \in Nat : IsVolume(p, k)
    <3>1. PICK k \in 1..Len(volumes) : p = volumes[k]
      BY <1>1, <2>1
    <3>2. IsVolume(p, k) /\ k \in Nat
      BY <1>1, <3>1 DEF IsVolume
    <3> QED BY <3>2
  <2>2. p \notin ToSet(volumes) => IsVolume(p, 0)
    BY <1>1 DEF IsVolume
  <2> QED BY <2>1, <2>2
<1> QED BY <1>2, <1>3

\* What lies below a clean directory of the table is a later directory of the
\* table, clean too, and no volume.
LEMMA CleanBelow ==
    ASSUME FsInv, LeftInv, NEW p \in Paths, NEW r, Clean(p), r # p, Above(p, r),
           r \in present \cup ToSet(volumes)
    PROVE  /\ p \notin ToSet(volumes) /\ Clean(r) /\ IsVolume(r, 0)
           /\ \A j \in 1..15 : IsEntry(p, j) => \E l \in 2..15 : j < l /\ IsEntry(r, l)
<1>1. volumes \in Seq(Dests) /\ Len(volumes) \in Nat /\ present \subseteq Targets
  BY FsAssumption, VolumeFacts DEF FsInv, FsTypes
<1>2. ToSet(volumes) \subseteq Dests
  BY <1>1 DEF ToSet
<1>3. r \notin ToSet(volumes)
  BY DEF Clean, Related
<1>4. r \in present /\ r \in Targets /\ r \in Paths
  BY <1>1, <1>3 DEF Paths
<1>5. p \notin ToSet(volumes)
  BY <1>4 DEF Clean, Related
<1>6. ASSUME NEW v \in ToSet(volumes) PROVE ~Related(r, v)
  <2>1. v # p /\ v \in Paths /\ ~Related(p, v)
    BY <1>2, <1>5 DEF Clean, Paths
  <2>2. p \in Seq(Names) /\ r \in Seq(Names) /\ v \in Seq(Names)
    BY <1>4, <2>1, TablePaths
  <2>3. ~Above(r, v)
    <3>1. Above(r, v) => Above(p, v)
      BY <2>2, AboveOrder
    <3> QED BY <2>1, <3>1 DEF Related
  <2>4. ~Above(v, r)
    <3>1. Above(v, r) => Related(p, v)
      BY <2>2, AboveOrder
    <3> QED BY <2>1, <3>1
  <2> QED BY <2>3, <2>4 DEF Related
<1>7. Clean(r)
  BY <1>3, <1>6 DEF Clean
<1>8. IsVolume(r, 0)
  BY <1>1, <1>3 DEF IsVolume
<1>9. ASSUME NEW j \in 1..15, IsEntry(p, j) PROVE \E l \in 2..15 : j < l /\ IsEntry(r, l)
  <2>1. PICK l \in 1..15 : r = mnt_dir_arr[l]
    BY <1>4, TablePaths
  <2>2. p = mnt_dir_arr[j]
    BY <1>9 DEF IsEntry
  <2>3. j # l
    BY <2>1, <2>2
  <2>4. j < l
    BY <2>1, <2>2, <2>3, TableOrder
  <2>5. l \in 2..15 /\ IsEntry(r, l)
    BY <1>4, <2>1, <2>4 DEF IsEntry
  <2> QED BY <2>4, <2>5
<1> QED BY <1>5, <1>7, <1>8, <1>9

\* A clean path is unmounted once nothing is below it.
LEMMA CleanUmount ==
    ASSUME FsInv, LeftInv, NEW p \in Paths, Clean(p), NEW j \in 0..15, NEW k \in Nat,
           IsEntry(p, j), IsVolume(p, k), Umount(p), NEW n \in Nat,
           MountsAt(pc, i, j, k) = n + 1,
           \/ k # 0
           \/ j # 0 /\ \A l \in 2..15 : j < l => MountsAt(pc, i, l, 0) = 0
    PROVE  AtMost(p, n)'
<1>1. mounts \in Seq(Entry) /\ volumes \in Seq(Dests) /\ Len(volumes) \in Nat /\ i \in Nat
  BY FsAssumption, VolumeFacts DEF FsInv, FsTypes
<1>2. Ordered(p) /\ AtMost(p, n + 1)
  BY DEF LeftInv, CleanAt
<1>3. Above(p, p)
  BY TablePaths, AboveOrder
<1>4. ASSUME NEW m \in DOMAIN mounts, Above(p, mounts[m].at), mounts[m].at # p PROVE FALSE
  <2> DEFINE r == mounts[m].at
  <2>1. r \in present \cup ToSet(volumes)
    BY DEF LeftInv, Places
  <2>2. m \in At(r)
    BY DEF At
  <2>3. Above(p, r) /\ r # p
    BY <1>4
  <2>p. r \in Paths
    <3>1. mounts[m] \in Entry
      BY <1>1
    <3> QED BY <3>1 DEF Entry, Paths
  <2> HIDE DEF r
  <2>4. /\ p \notin ToSet(volumes) /\ Clean(r) /\ IsVolume(r, 0)
        /\ \A y \in 1..15 : IsEntry(p, y) => \E l \in 2..15 : y < l /\ IsEntry(r, l)
    BY <2>1, <2>3, CleanBelow
  <2>5. k = 0
    <3>1. k # 0 => k \in DOMAIN volumes /\ p = volumes[k]
      BY <1>1 DEF IsVolume
    <3> QED BY <2>4, <3>1 DEF ToSet
  <2>6. PICK l \in 2..15 : j < l /\ IsEntry(r, l)
    BY <2>4, <2>5
  <2>7. MountsAt(pc, i, l, 0) = 0
    BY <2>5, <2>6
  <2>8. AtMost(r, 0)
    <3>1. CleanAt(r, l, 0, pc, i)
      BY <2>p, <2>6 DEF LeftInv
    <3> QED BY <2>4, <2>6, <2>7, <3>1 DEF CleanAt
  <2>9. At(r) = {}
    BY <2>8, AtNone
  <2> QED BY <2>2, <2>9
<1> QED BY <1>1, <1>2, <1>3, <1>4, UmountTakes

\* Steps that mount and unmount nothing only allow more.
LEMMA Allowed ==
    ASSUME NEW n \in Nat, NEW j \in 0..15, NEW k \in Nat
    PROVE  /\ MountsAt("stopped", n, j, k) = 0
           /\ n <= 16 => MountsAt("mount", n, j, k) <= MountsAt("umount", 15, j, k)
           /\ MountsAt("mount", n, j, k) <= MountsAt("mount", n + 1, j, k)
           /\ MountsAt("mount", n, j, k) <= MountsAt("volumes", 1, j, k)
           /\ MountsAt("volumes", n, j, k) <= MountsAt("umount", 15, j, k)
           /\ MountsAt("volumes", n, j, k) <= MountsAt("running", 0, j, k)
           /\ MountsAt("running", n, j, k) <= MountsAt("umount", 15, j, k)
           /\ MountsAt("umount", 0, j, k) <= MountsAt("retry", 0, j, k)
           /\ n > k => MountsAt("umount_volumes", n, j, k) = 0
<1>1. MountsAt("stopped", n, j, k) = 0
  BY DEF MountsAt, TableMounts, VolumeMounts
<1>2. MountsAt("mount", n, j, k) <= MountsAt("umount", 15, j, k)
  BY DEF MountsAt, TableMounts, VolumeMounts, Full
<1>3. MountsAt("mount", n, j, k) <= MountsAt("mount", n + 1, j, k)
  BY DEF MountsAt, TableMounts, VolumeMounts
<1>4. MountsAt("mount", n, j, k) <= MountsAt("volumes", 1, j, k)
  BY DEF MountsAt, TableMounts, VolumeMounts, Full
<1>5. MountsAt("volumes", n, j, k) <= MountsAt("umount", 15, j, k)
  BY DEF MountsAt, TableMounts, VolumeMounts, Full
<1>6. MountsAt("volumes", n, j, k) <= MountsAt("running", 0, j, k)
  BY DEF MountsAt, TableMounts, VolumeMounts, Full
<1>7. MountsAt("running", n, j, k) <= MountsAt("umount", 15, j, k)
  BY DEF MountsAt, TableMounts, VolumeMounts, Full
<1>8. MountsAt("umount", 0, j, k) <= MountsAt("retry", 0, j, k)
  BY DEF MountsAt, TableMounts, VolumeMounts, Full
<1>9. n > k => MountsAt("umount_volumes", n, j, k) = 0
  BY DEF MountsAt, TableMounts, VolumeMounts
<1> QED BY <1>1, <1>2, <1>3, <1>4, <1>5, <1>6, <1>7, <1>8, <1>9

\* What has to be shown of a step.
LEMMA LeftFrame ==
    ASSUME UNCHANGED <<volumes, present>>, Places', i \in Nat, i' \in Nat, LeftInv,
           \A p \in Paths, j \in 0..15, k \in Nat :
               /\ Clean(p) /\ IsEntry(p, j) /\ IsVolume(p, k)
               /\ Ordered(p) /\ AtMost(p, MountsAt(pc, i, j, k))
               => Ordered(p)' /\ \E b \in Nat : b = MountsAt(pc', i', j, k) /\ AtMost(p, b)'
    PROVE  LeftInv'
<1> SUFFICES ASSUME NEW p \in Paths, NEW j \in 0..15, NEW k \in Nat,
                    Clean(p)', IsEntry(p, j)', IsVolume(p, k)'
             PROVE  Ordered(p)' /\ AtMost(p, MountsAt(pc, i, j, k))'
  BY DEF LeftInv, CleanAt
<1>1. Clean(p) /\ IsEntry(p, j) /\ IsVolume(p, k)
  BY DEF Clean, IsEntry, IsVolume
<1>2. Ordered(p) /\ AtMost(p, MountsAt(pc, i, j, k))
  BY <1>1 DEF LeftInv, CleanAt
<1>3. Ordered(p)' /\ \E b \in Nat : b = MountsAt(pc', i', j, k) /\ AtMost(p, b)'
  BY <1>1, <1>2
<1>4. PICK b \in Nat : b = MountsAt(pc', i', j, k) /\ AtMost(p, b)'
  BY <1>3
<1>5. AtMost(p, MountsAt(pc, i, j, k))'
  <2>1. PICK f \in [1..b -> Int] : \A m \in At(p)' : \E r \in 1..b : f[r] = m
    BY <1>4 DEF AtMost
  <2> QED BY <1>4, <2>1 DEF AtMost
<1> QED BY <1>3, <1>5

\* A step that leaves the mount table alone.
LEMMA LeftIdle ==
    ASSUME FsInv, LeftInv, UNCHANGED <<volumes, present, mounts>>, i' \in Nat,
           \A j \in 0..15, k \in 0..Len(volumes) : MountsAt(pc, i, j, k) <= MountsAt(pc', i', j, k)
    PROVE  LeftInv'
<1>1. Len(volumes) \in Nat /\ i \in Nat
  BY FsAssumption, VolumeFacts DEF FsInv, FsTypes
<1>2. Places'
  BY DEF LeftInv, Places
<1>3. ASSUME NEW p \in Paths, NEW j \in 0..15, NEW k \in Nat, IsVolume(p, k),
             Ordered(p), AtMost(p, MountsAt(pc, i, j, k))
      PROVE  Ordered(p)' /\ \E b \in Nat : b = MountsAt(pc', i', j, k) /\ AtMost(p, b)'
  <2>1. PICK a \in Nat : a = MountsAt(pc, i, j, k)
    BY <1>1, MountsAtNat
  <2>2. PICK b \in Nat : b = MountsAt(pc', i', j, k)
    BY MountsAtNat
  <2>3. k \in 0..Len(volumes) /\ a <= b
    BY <2>1, <2>2, <1>3 DEF IsVolume
  <2>4. AtMost(p, b)
    BY <1>3, <2>1, <2>3, AtMostMore
  <2>5. Ordered(p)' /\ AtMost(p, b)'
    BY <1>3, <2>4 DEF Ordered, AtMost, At
  <2> QED BY <2>2, <2>5
<1> QED BY <1>1, <1>2, <1>3, LeftFrame

LEMMA LeftIdleSteps ==
    ASSUME FsInv, LeftInv,
           \/ UNCHANGED fsVars
           \/ Start \/ MountFails \/ MountDone \/ VolumesDone \/ Exit \/ UmountDone
           \/ UmountVolumesDone
           \/ VolumeStep /\ mounts' = mounts /\ Goto("umount", 15)
           \/ MountStep /\ mounts' = mounts
    PROVE  LeftInv'
<1>1. /\ Len(volumes) \in Nat /\ i \in Nat /\ Len(mnt_dir_arr) = 15
      /\ pc = "mount" => i <= 16
      /\ 15 \in Nat
  BY FsAssumption, VolumeFacts, TableFacts DEF FsInv, FsTypes
<1> DEFINE More == \A j \in 0..15, k \in 0..Len(volumes) :
                       MountsAt(pc, i, j, k) <= MountsAt(pc', i', j, k)
<1>2. \A k \in 0..Len(volumes) : k \in Nat
  BY <1>1
<1>3. CASE UNCHANGED fsVars
  <2>1. pc' = pc /\ i' = i /\ UNCHANGED <<volumes, present, mounts>>
    BY <1>3 DEF fsVars
  <2>2. More
    <3> SUFFICES ASSUME NEW j \in 0..15, NEW k \in 0..Len(volumes)
                 PROVE  MountsAt(pc, i, j, k) <= MountsAt(pc', i', j, k)
      OBVIOUS
    <3>1. MountsAt(pc, i, j, k) \in Nat
      BY <1>1, <1>2, MountsAtNat
    <3>2. MountsAt(pc', i', j, k) = MountsAt(pc, i, j, k)
      BY <2>1
    <3> QED BY <3>1, <3>2
  <2> QED BY <1>1, <2>1, <2>2, LeftIdle
<1>4. CASE Start
  <2>1. pc = "stopped" /\ i' = 0 /\ UNCHANGED <<volumes, present, mounts>>
    BY <1>4 DEF Start, Goto
  <2>2. More
    <3> SUFFICES ASSUME NEW j \in 0..15, NEW k \in 0..Len(volumes)
                 PROVE  MountsAt(pc, i, j, k) <= MountsAt(pc', i', j, k)
      OBVIOUS
    <3>1. MountsAt(pc, i, j, k) = 0 /\ MountsAt(pc', i', j, k) \in Nat
      BY <1>1, <1>2, <2>1, Allowed, MountsAtNat
    <3> QED BY <3>1
  <2> QED BY <2>1, <2>2, LeftIdle
<1>5. CASE MountFails
  <2>1. /\ pc = "mount" /\ UNCHANGED <<volumes, present, mounts>> /\ i' \in Nat
        /\ (pc' = "umount" /\ i' = 15) \/ (pc' = "mount" /\ i' = i + 1)
    BY <1>1, <1>5 DEF MountFails, Goto
  <2>2. More
    BY <1>1, <1>2, <2>1, Allowed
  <2> QED BY <2>1, <2>2, LeftIdle
<1>6. CASE MountDone
  <2>1. /\ pc = "mount" /\ UNCHANGED <<volumes, present, mounts>> /\ i' \in Nat
        /\ pc' = "volumes" /\ i' = 1
    BY <1>1, <1>6 DEF MountDone, Goto
  <2>2. More
    BY <1>1, <1>2, <2>1, Allowed
  <2> QED BY <2>1, <2>2, LeftIdle
<1>7. CASE VolumesDone
  <2>1. /\ pc = "volumes" /\ UNCHANGED <<volumes, present, mounts>> /\ i' \in Nat
        /\ pc' = "running" /\ i' = 0
    BY <1>1, <1>7 DEF VolumesDone, Goto
  <2>2. More
    BY <1>1, <1>2, <2>1, Allowed
  <2> QED BY <2>1, <2>2, LeftIdle
<1>8. CASE Exit
  <2>1. /\ pc = "running" /\ UNCHANGED <<volumes, present, mounts>> /\ i' \in Nat
        /\ pc' = "umount" /\ i' = 15
    BY <1>1, <1>8 DEF Exit, Goto
  <2>2. More
    BY <1>1, <1>2, <2>1, Allowed
  <2> QED BY <2>1, <2>2, LeftIdle
<1>9. CASE UmountDone
  <2>1. /\ pc = "umount" /\ i = 0 /\ UNCHANGED <<volumes, present, mounts>> /\ i' \in Nat
        /\ pc' = "retry" /\ i' = 0
    BY <1>1, <1>9 DEF UmountDone, Goto
  <2>2. More
    BY <1>1, <1>2, <2>1, Allowed
  <2> QED BY <2>1, <2>2, LeftIdle
<1>10. CASE UmountVolumesDone
  <2>1. /\ pc = "umount_volumes" /\ i > Len(volumes) /\ UNCHANGED <<volumes, present, mounts>>
        /\ pc' = "stopped" /\ i' = 0
    BY <1>1, <1>10 DEF UmountVolumesDone, Goto
  <2>2. More
    <3> SUFFICES ASSUME NEW j \in 0..15, NEW k \in 0..Len(volumes)
                 PROVE  MountsAt(pc, i, j, k) <= MountsAt(pc', i', j, k)
      OBVIOUS
    <3>0. i \in Nat /\ k \in Nat /\ i > k
      BY <1>1, <2>1
    <3>1. MountsAt(pc, i, j, k) = 0
      BY <2>1, <3>0, Allowed
    <3>2. MountsAt(pc', i', j, k) \in Nat
      BY <1>1, <1>2, <2>1, MountsAtNat
    <3> QED BY <3>1, <3>2
  <2> QED BY <2>1, <2>2, LeftIdle
<1>11. CASE VolumeStep /\ mounts' = mounts /\ Goto("umount", 15)
  <2>1. /\ pc = "volumes" /\ UNCHANGED <<volumes, present, mounts>> /\ i' \in Nat
        /\ pc' = "umount" /\ i' = 15
    BY <1>1, <1>11 DEF VolumeStep, Goto
  <2>2. More
    BY <1>1, <1>2, <2>1, Allowed
  <2> QED BY <2>1, <2>2, LeftIdle
<1>12. CASE MountStep /\ mounts' = mounts
  <2>1. /\ pc = "mount" /\ UNCHANGED <<volumes, present, mounts>> /\ i' \in Nat
        /\ pc' = "mount" /\ i' = i + 1
    BY <1>1, <1>12 DEF MountStep, Goto
  <2>2. More
    BY <1>1, <1>2, <2>1, Allowed
  <2> QED BY <2>1, <2>2, LeftIdle
<1> QED BY <1>3, <1>4, <1>5, <1>6, <1>7, <1>8, <1>9, <1>10, <1>11, <1>12

LEMMA PlacesMounted ==
    ASSUME FsInv, LeftInv, pc # "stopped", UNCHANGED <<volumes, present>>, NEW q \in Paths, Mount(q),
           q \in present \cup ToSet(volumes)
    PROVE  Places'
<1> DEFINE l == Len(mounts)
           M == mounts'
<1>1. mounts \in Seq(Entry) /\ starts \in 1..MaxStarts
  BY FsAssumption DEF FsInv, FsTypes
<1>2. /\ M \in Seq(Entry) /\ Len(M) = l + 1 /\ \A k \in 1..l : M[k] = mounts[k]
      /\ M[l + 1] = [at |-> q, start |-> starts]
  BY <1>1, MountTyped DEF Paths
<1>3. l \in Nat /\ DOMAIN mounts = 1..l
  BY <1>1
<1> HIDE DEF l, M
<1>4. DOMAIN M = 1..(l + 1)
  BY <1>2, <1>3
<1>5. ASSUME NEW m \in DOMAIN M PROVE M[m].at \in present \cup ToSet(volumes)
  <2>1. CASE m \in 1..l
    BY <1>2, <1>3, <2>1 DEF LeftInv, Places
  <2>2. CASE m = l + 1
    BY <1>2, <2>2
  <2> QED BY <1>3, <1>4, <2>1, <2>2
<1> QED BY <1>5 DEF LeftInv, Places, M

LEMMA PlacesUmounted ==
    ASSUME FsInv, LeftInv, UNCHANGED <<volumes, present>>,
           mounts' = mounts \/ \E q : Umount(q)
    PROVE  Places'
<1>1. mounts \in Seq(Entry) /\ 0 \in Nat
  BY DEF FsInv, FsTypes
<1>2. CASE mounts' = mounts
  BY <1>2 DEF LeftInv, Places
<1>3. CASE \E q : Umount(q)
  <2>1. \A m \in DOMAIN mounts' : \E l \in DOMAIN mounts : mounts'[m] = mounts[l]
    BY <1>1, <1>3, UmountEffect
  <2> QED BY <2>1 DEF LeftInv, Places
<1> QED BY <1>2, <1>3

LEMMA LeftMountStep ==
    ASSUME FsInv, LeftInv, MountStep PROVE LeftInv'
<1>1. /\ mounts \in Seq(Entry) /\ Len(volumes) \in Nat /\ volumes \in Seq(Dests)
      /\ present \subseteq Targets /\ Len(mnt_dir_arr) = 15
  BY FsAssumption, VolumeFacts, TableFacts DEF FsInv, FsTypes
<1>2. /\ pc = "mount" /\ pc' = "mount" /\ i \in 0..15 /\ i' = i + 1
      /\ UNCHANGED <<volumes, present, starts>>
  BY <1>1 DEF MountStep, Goto, FsInv
<1>s. starts \in 1..MaxStarts
  BY <1>2, FsAssumption DEF FsInv, FsTypes
<1>3. PICK e \in 1..15 : e = IF i = 0 THEN 1 ELSE i
  BY <1>2
<1>4. PICK q \in Targets : q = mnt_dir_arr[e] /\ q = EntryAt(i)
  BY <1>3, TableFacts DEF EntryAt
<1>5. CASE mounts' = mounts
  BY <1>5, LeftIdleSteps
<1>6. CASE Mount(q) /\ q \in present
  <2>1. Places'
    BY <1>2, <1>4, <1>6, PlacesMounted DEF Paths
  <2>2. ASSUME NEW p \in Paths, NEW j \in 0..15, NEW k \in Nat,
               Clean(p), IsEntry(p, j), IsVolume(p, k),
               Ordered(p), AtMost(p, MountsAt(pc, i, j, k))
        PROVE  Ordered(p)' /\ \E b \in Nat : b = MountsAt(pc', i', j, k) /\ AtMost(p, b)'
    <3>0. i \in Nat /\ i + 1 \in Nat
      BY <1>2
    <3>1. PICK a \in Nat : a = MountsAt("mount", i, j, k)
      BY <3>0, MountsAtNat
    <3>2. PICK b \in Nat : b = MountsAt("mount", i + 1, j, k)
      BY <3>0, MountsAtNat
    <3>3. a <= b
      BY <3>0, <3>1, <3>2, Allowed
    <3>4. AtMost(p, a)
      BY <1>2, <2>2, <3>1
    <3>5. AtMost(p, b)'
      <4>1. CASE p = q
        <5>1. j \in 1..15 /\ mnt_dir_arr[j] = mnt_dir_arr[e]
          BY <1>4, <1>6, <2>2, <4>1 DEF IsEntry
        <5>2. j = e
          BY <5>1, TableOrder
        <5>3. b = a + 1
          BY <1>2, <1>3, <3>1, <3>2, <5>2 DEF MountsAt, TableMounts, VolumeMounts
        <5> QED BY <1>1, <1>s, <1>6, <3>4, <4>1, <5>3, MountAt
      <4>2. CASE p # q
        <5>1. AtMost(p, b)
          BY <3>3, <3>4, AtMostMore
        <5> QED BY <1>1, <1>s, <1>6, <4>2, <5>1, MountAt
      <4> QED BY <4>1, <4>2
    <3>6. ASSUME p # q, Above(q, p) PROVE At(p) = {}
      <4>1. p \notin ToSet(volumes)
        BY <2>2, <3>6 DEF Clean, Related
      <4>2. k = 0
        <5>1. k # 0 => k \in DOMAIN volumes /\ p = volumes[k]
          BY <1>1, <2>2 DEF IsVolume
        <5> QED BY <4>1, <5>1 DEF ToSet
      <4>3. j # 0 => e < j
        <5> SUFFICES ASSUME j # 0 PROVE e < j
          OBVIOUS
        <5>1. j \in 1..15 /\ p = mnt_dir_arr[j]
          BY <2>2 DEF IsEntry
        <5>2. e # j
          BY <1>4, <3>6, <5>1
        <5> QED BY <1>4, <3>6, <5>1, <5>2, TableOrder
      <4>4. a = 0
        BY <1>2, <1>3, <3>1, <4>2, <4>3 DEF MountsAt, TableMounts, VolumeMounts
      <4> QED BY <3>4, <4>4, AtNone
    <3>7. Ordered(p)'
      BY <1>1, <1>s, <1>6, <2>2, <3>1, <3>6, MountAt
    <3> QED BY <1>2, <3>2, <3>5, <3>7
  <2>3. i \in Nat /\ i' \in Nat
    BY <1>2
  <2> QED BY <1>2, <2>1, <2>2, <2>3, LeftFrame
<1>7. mounts' = mounts \/ (Mount(q) /\ q \in present)
  <2>1. q \notin Overlays => q \in present
    BY DEF LeftInv, Places
  <2> QED BY <1>4, <2>1 DEF MountStep
<1> QED BY <1>5, <1>6, <1>7

LEMMA LeftVolumeStep ==
    ASSUME FsInv, LeftInv, VolumeStep PROVE LeftInv'
<1>1. /\ mounts \in Seq(Entry) /\ Len(volumes) \in Nat /\ volumes \in Seq(Dests)
      /\ DOMAIN volumes = 1..Len(volumes) /\ Len(mnt_dir_arr) = 15
  BY FsAssumption, VolumeFacts, TableFacts DEF FsInv, FsTypes
<1>2. /\ pc = "volumes" /\ i \in 1..Len(volumes) /\ UNCHANGED <<volumes, present, starts>>
      /\ \/ Mount(volumes[i]) /\ pc' = "volumes" /\ i' = i + 1
         \/ mounts' = mounts /\ Goto("umount", 15)
  BY <1>1 DEF VolumeStep, Goto, FsInv
<1>s. starts \in 1..MaxStarts
  BY <1>2, FsAssumption DEF FsInv, FsTypes
<1>3. CASE mounts' = mounts /\ Goto("umount", 15)
  BY <1>3, LeftIdleSteps
<1>4. CASE Mount(volumes[i]) /\ pc' = "volumes" /\ i' = i + 1
  <2>1. PICK q \in Dests : q = volumes[i]
    BY <1>1, <1>2
  <2>2. Mount(q) /\ q \in ToSet(volumes) /\ q \in Paths /\ q \in Targets \cup Dests
    BY <1>1, <1>2, <1>4, <2>1 DEF ToSet, Paths
  <2>3. Places'
    BY <1>2, <2>2, PlacesMounted
  <2>4. ASSUME NEW p \in Paths, NEW j \in 0..15, NEW k \in Nat,
               Clean(p), IsEntry(p, j), IsVolume(p, k),
               Ordered(p), AtMost(p, MountsAt(pc, i, j, k))
        PROVE  Ordered(p)' /\ \E b \in Nat : b = MountsAt(pc', i', j, k) /\ AtMost(p, b)'
    <3>0. i \in Nat /\ i + 1 \in Nat
      BY <1>2
    <3>1. PICK a \in Nat : a = MountsAt("volumes", i, j, k)
      BY <3>0, MountsAtNat
    <3>2. PICK b \in Nat : b = MountsAt("volumes", i + 1, j, k)
      BY <3>0, MountsAtNat
    <3>3. a <= b
      <4>1. TableMounts("volumes", i, j) = TableMounts("volumes", i + 1, j)
        BY DEF TableMounts
      <4>2. TableMounts("volumes", i, j) \in Nat
        BY <3>0, MountsAtNat
      <4>3. VolumeMounts("volumes", i, k) <= VolumeMounts("volumes", i + 1, k)
        BY <3>0 DEF VolumeMounts
      <4>4. VolumeMounts("volumes", i, k) \in Nat /\ VolumeMounts("volumes", i + 1, k) \in Nat
        BY <3>0, MountsAtNat
      <4> QED BY <3>1, <3>2, <4>1, <4>2, <4>3, <4>4 DEF MountsAt
    <3>4. AtMost(p, a)
      BY <1>2, <2>4, <3>1
    <3>5. AtMost(p, b)'
      <4>1. CASE p = q
        <5>1. k # 0 /\ p = volumes[k] /\ k \in 1..Len(volumes)
          BY <1>1, <2>2, <2>4, <4>1 DEF IsVolume
        <5>2. k = i
          BY <1>1, <1>2, <2>1, <4>1, <5>1 DEF LeftInv, Places, IsInjective
        <5>3. b = a + 1
          <6>1. TableMounts("volumes", i, j) = TableMounts("volumes", i + 1, j)
            BY DEF TableMounts
          <6>2. TableMounts("volumes", i, j) \in Nat
            BY <3>0, MountsAtNat
          <6>3. VolumeMounts("volumes", i, k) = 0 /\ VolumeMounts("volumes", i + 1, k) = 1
            BY <3>0, <5>1, <5>2 DEF VolumeMounts
          <6> QED BY <3>1, <3>2, <6>1, <6>2, <6>3 DEF MountsAt
        <5> QED BY <1>1, <1>s, <2>2, <3>4, <4>1, <5>3, MountAt
      <4>2. CASE p # q
        <5>1. AtMost(p, b)
          BY <3>3, <3>4, AtMostMore
        <5> QED BY <1>1, <1>s, <2>2, <4>2, <5>1, MountAt
      <4> QED BY <4>1, <4>2
    <3>6. p = q \/ ~Above(q, p)
      BY <2>2, <2>4 DEF Clean, Related
    <3>7. Ordered(p)'
      BY <1>1, <1>s, <2>2, <2>4, <3>1, <3>6, MountAt
    <3> QED BY <1>4, <3>2, <3>5, <3>7
  <2>5. i \in Nat /\ i' \in Nat
    BY <1>2, <1>4
  <2> QED BY <1>2, <2>3, <2>4, <2>5, LeftFrame
<1> QED BY <1>2, <1>3, <1>4

\* A step that unmounts q takes away what it should at directory j and volume k.
Accounts(q, j, k) ==
    \/ MountsAt(pc, i, j, k) <= MountsAt(pc', i', j, k)
    \/ /\ IsEntry(q, j) /\ IsVolume(q, k) => Umount(q)
       /\ \A p : IsEntry(p, j) /\ IsVolume(p, k) => p = q
       /\ MountsAt(pc, i, j, k) = MountsAt(pc', i', j, k) + 1
       /\ k # 0 \/ (j # 0 /\ \A l \in 2..15 : j < l => MountsAt(pc, i, l, 0) = 0)

\* A step that unmounts p, or something else when p is as it should be already.
LEMMA LeftUmounts ==
    ASSUME FsInv, LeftInv, UNCHANGED <<volumes, present>>, i' \in Nat, NEW q,
           mounts' = mounts \/ Umount(q),
           \A j \in 0..15, k \in 0..Len(volumes) : Accounts(q, j, k)
               \/ /\ IsEntry(q, j) /\ IsVolume(q, k) => Umount(q)
                  /\ \A p : IsEntry(p, j) /\ IsVolume(p, k) => p = q
                  /\ MountsAt(pc, i, j, k) = MountsAt(pc', i', j, k) + 1
                  /\ k # 0 \/ (j # 0 /\ \A l \in 2..15 : j < l => MountsAt(pc, i, l, 0) = 0)
    PROVE  LeftInv'
<1>1. mounts \in Seq(Entry) /\ Len(volumes) \in Nat /\ i \in Nat
  BY FsAssumption, VolumeFacts DEF FsInv, FsTypes
<1>2. Places'
  BY PlacesUmounted
<1>3. ASSUME NEW p \in Paths, NEW j \in 0..15, NEW k \in Nat,
             Clean(p), IsEntry(p, j), IsVolume(p, k),
             Ordered(p), AtMost(p, MountsAt(pc, i, j, k))
      PROVE  Ordered(p)' /\ \E b \in Nat : b = MountsAt(pc', i', j, k) /\ AtMost(p, b)'
  <2>1. PICK a \in Nat : a = MountsAt(pc, i, j, k)
    BY <1>1, MountsAtNat
  <2>2. PICK b \in Nat : b = MountsAt(pc', i', j, k)
    BY MountsAtNat
  <2>3. AtMost(p, a) /\ k \in 0..Len(volumes)
    BY <1>3, <2>1 DEF IsVolume
  <2>4. Ordered(p)' /\ \A n \in Nat : AtMost(p, n) => AtMost(p, n)'
    <3>1. CASE mounts' = mounts
      BY <1>3, <3>1 DEF Ordered, AtMost, At
    <3>2. CASE Umount(q)
      <4>1. \A n \in Nat : AtMost(p, n) => AtMost(p, n)'
        BY <1>1, <3>2, UmountEffect
      <4>2. 0 \in Nat /\ Ordered(p)
        BY <1>3
      <4>3. Ordered(p)'
        BY <1>1, <3>2, <4>2, UmountEffect
      <4> QED BY <4>1, <4>3
    <3> QED BY <3>1, <3>2
  <2>5. CASE a <= b
    <3>1. AtMost(p, b)
      BY <2>3, <2>5, AtMostMore
    <3> QED BY <2>2, <2>4, <3>1
  <2>6. CASE ~(a <= b)
    <3>1. /\ IsEntry(q, j) /\ IsVolume(q, k) => Umount(q)
          /\ p = q
          /\ MountsAt(pc, i, j, k) = MountsAt(pc', i', j, k) + 1
          /\ k # 0 \/ (j # 0 /\ \A l \in 2..15 : j < l => MountsAt(pc, i, l, 0) = 0)
      BY <1>3, <2>1, <2>2, <2>3, <2>6 DEF Accounts
    <3>2. Umount(p) /\ MountsAt(pc, i, j, k) = b + 1
      BY <1>3, <2>2, <3>1
    <3>3. AtMost(p, b)'
      BY <1>3, <3>1, <3>2, CleanUmount
    <3> QED BY <2>2, <2>4, <3>3
  <2> QED BY <2>5, <2>6
<1> QED BY <1>1, <1>2, <1>3, LeftFrame

LEMMA LeftUmountStep ==
    ASSUME FsInv, LeftInv, UmountStep PROVE LeftInv'
<1>1. /\ pc = "umount" /\ pc' = "umount" /\ i \in 1..15 /\ i' = i - 1
      /\ UNCHANGED <<volumes, present>> /\ Len(volumes) \in Nat
  <2>1. /\ pc = "umount" /\ i > 0 /\ pc' = "umount" /\ i' = i - 1
        /\ UNCHANGED <<volumes, present>>
    BY DEF UmountStep, Goto
  <2>2. i \in Nat /\ (pc = "umount" => i <= 15) /\ Len(volumes) \in Nat
    BY FsAssumption, VolumeFacts DEF FsInv, FsTypes
  <2> QED BY <2>1, <2>2
<1>n. i \in Nat /\ i - 1 \in Nat /\ \A k \in 0..Len(volumes) : k \in Nat
  BY <1>1
<1>2. PICK q : q = mnt_dir_arr[i]
  OBVIOUS
<1>3. IF q \in present THEN Umount(q) ELSE mounts' = mounts
  BY <1>2 DEF UmountStep, UmountEntry
<1>4. ASSUME NEW j \in 0..15, NEW k \in 0..Len(volumes), j # i
      PROVE  MountsAt(pc, i, j, k) <= MountsAt(pc', i', j, k)
  <2>1. TableMounts("umount", i, j) = TableMounts("umount", i - 1, j)
    BY <1>1, <1>4 DEF TableMounts
  <2>2. VolumeMounts("umount", i, k) = VolumeMounts("umount", i - 1, k)
    BY DEF VolumeMounts
  <2>3. MountsAt("umount", i, j, k) = MountsAt("umount", i - 1, j, k)
    BY <2>1, <2>2 DEF MountsAt
  <2>4. MountsAt("umount", i, j, k) \in Nat
    BY <1>n, MountsAtNat
  <2> QED BY <1>1, <2>3, <2>4
<1>5. ASSUME NEW k \in 0..Len(volumes)
      PROVE  /\ IsEntry(q, i) /\ IsVolume(q, k) => Umount(q)
             /\ \A p : IsEntry(p, i) /\ IsVolume(p, k) => p = q
             /\ MountsAt(pc, i, i, k) = MountsAt(pc', i', i, k) + 1
             /\ i # 0 /\ \A l \in 2..15 : i < l => MountsAt(pc, i, l, 0) = 0
  <2>1. IsEntry(q, i) => Umount(q)
    BY <1>1, <1>3 DEF IsEntry
  <2>2. \A p : IsEntry(p, i) => p = q
    BY <1>1, <1>2 DEF IsEntry
  <2>3. MountsAt("umount", i, i, k) = MountsAt("umount", i - 1, i, k) + 1
    <3>1. TableMounts("umount", i, i) = Full(i) /\ TableMounts("umount", i - 1, i) = Full(i) - 1
      BY <1>1 DEF TableMounts
    <3>2. VolumeMounts("umount", i, k) = VolumeMounts("umount", i - 1, k)
      BY DEF VolumeMounts
    <3>3. VolumeMounts("umount", i, k) \in Nat /\ Full(i) \in Nat
      BY DEF VolumeMounts, Full
    <3> QED BY <3>1, <3>2, <3>3 DEF MountsAt
  <2>4. ASSUME NEW l \in 2..15, i < l PROVE MountsAt("umount", i, l, 0) = 0
    BY <1>1, <2>4 DEF MountsAt, TableMounts, VolumeMounts, Full
  <2> QED BY <1>1, <2>1, <2>2, <2>3, <2>4
<1>6. i' \in Nat /\ (mounts' = mounts \/ Umount(q))
  BY <1>1, <1>3
<1>7. \A j \in 0..15, k \in 0..Len(volumes) : Accounts(q, j, k)
  <2> SUFFICES ASSUME NEW j \in 0..15, NEW k \in 0..Len(volumes) PROVE Accounts(q, j, k)
    OBVIOUS
  <2>1. CASE j # i
    BY <1>4, <2>1 DEF Accounts
  <2>2. CASE j = i
    BY <1>5, <2>2 DEF Accounts
  <2> QED BY <2>1, <2>2
<1> QED BY <1>1, <1>6, <1>7, LeftUmounts

\* The retry is of the first entry of the table, if the host has it.
LEMMA LeftRetry ==
    ASSUME FsInv, LeftInv, Retry PROVE LeftInv'
<1>1. /\ pc = "retry" /\ pc' = "umount_volumes" /\ i = 0 /\ i' = 1
      /\ UNCHANGED <<volumes, present>> /\ Len(volumes) \in Nat
  BY FsAssumption, VolumeFacts DEF Retry, Goto, FsInv, FsTypes
<1>2. PICK q : q = LastTarget
  OBVIOUS
<1>3. Umount(q)
  BY <1>2 DEF Retry
<1>4. mnt_dir_arr[1] \in present => q = mnt_dir_arr[1]
  <2> SUFFICES ASSUME mnt_dir_arr[1] \in present PROVE q = mnt_dir_arr[1]
    OBVIOUS
  <2> DEFINE First(k) == /\ mnt_dir_arr[k] \in present
                         /\ \A j \in 1..(k - 1) : mnt_dir_arr[j] \notin present
  <2>1. 1 \in DOMAIN mnt_dir_arr /\ First(1)
    BY TablePaths
  <2>2. ASSUME NEW k \in DOMAIN mnt_dir_arr, First(k) PROVE k = 1
    <3>1. k \in 1..15
      BY TablePaths
    <3>2. k > 1 => 1 \in 1..(k - 1)
      BY <3>1
    <3> QED BY <2>2, <3>1, <3>2
  <2>3. q = mnt_dir_arr[CHOOSE k \in DOMAIN mnt_dir_arr : First(k)]
    BY <1>2 DEF LastTarget
  <2> HIDE DEF First
  <2>4. (CHOOSE k \in DOMAIN mnt_dir_arr : First(k)) = 1
    BY <2>1, <2>2
  <2> QED BY <2>3, <2>4
<1>5. ASSUME NEW j \in 0..15, NEW k \in 0..Len(volumes), j # 1
      PROVE  MountsAt("retry", 0, j, k) <= MountsAt("umount_volumes", 1, j, k)
  <2>1. TableMounts("retry", 0, j) = 0 /\ TableMounts("umount_volumes", 1, j) = 0
    BY <1>5 DEF TableMounts, Full
  <2>2. VolumeMounts("retry", 0, k) \in 0..1 /\ VolumeMounts("umount_volumes", 1, k) = VolumeMounts("retry", 0, k)
    BY <1>1 DEF VolumeMounts
  <2> QED BY <2>1, <2>2 DEF MountsAt
<1>6. ASSUME NEW k \in 0..Len(volumes)
      PROVE  /\ \A p : IsEntry(p, 1) => p = q
             /\ MountsAt("retry", 0, 1, k) = MountsAt("umount_volumes", 1, 1, k) + 1
             /\ \A l \in 2..15 : MountsAt("retry", 0, l, 0) = 0
  <2>1. \A p : IsEntry(p, 1) => p = q
    BY <1>4 DEF IsEntry
  <2>2. TableMounts("retry", 0, 1) = 1 /\ TableMounts("umount_volumes", 1, 1) = 0
    BY DEF TableMounts, Full
  <2>3. VolumeMounts("retry", 0, k) \in 0..1 /\ VolumeMounts("umount_volumes", 1, k) = VolumeMounts("retry", 0, k)
    BY <1>1 DEF VolumeMounts
  <2>4. MountsAt("retry", 0, 1, k) = MountsAt("umount_volumes", 1, 1, k) + 1
    BY <2>2, <2>3 DEF MountsAt
  <2>5. ASSUME NEW l \in 2..15 PROVE MountsAt("retry", 0, l, 0) = 0
    BY DEF MountsAt, TableMounts, VolumeMounts, Full
  <2> QED BY <2>1, <2>4, <2>5
<1>7. \A j \in 0..15, k \in 0..Len(volumes) : Accounts(q, j, k)
  <2> SUFFICES ASSUME NEW j \in 0..15, NEW k \in 0..Len(volumes) PROVE Accounts(q, j, k)
    OBVIOUS
  <2>1. CASE j # 1
    BY <1>1, <1>5, <2>1 DEF Accounts
  <2>2. CASE j = 1
    BY <1>1, <1>3, <1>6, <2>2 DEF Accounts
  <2> QED BY <2>1, <2>2
<1>8. i' \in Nat
  BY <1>1
<1> QED BY <1>1, <1>3, <1>7, <1>8, LeftUmounts

LEMMA LeftUmountVolume ==
    ASSUME FsInv, LeftInv, UmountVolume PROVE LeftInv'
<1>1. /\ pc = "umount_volumes" /\ pc' = "umount_volumes" /\ i \in 1..Len(volumes) /\ i' = i + 1
      /\ UNCHANGED <<volumes, present>> /\ Len(volumes) \in Nat
  BY FsAssumption, VolumeFacts DEF UmountVolume, Goto, FsInv, FsTypes
<1>2. PICK q : q = volumes[i]
  OBVIOUS
<1>3. Umount(q)
  BY <1>2 DEF UmountVolume
<1>4. ASSUME NEW j \in 0..15, NEW k \in 0..Len(volumes)
      PROVE  /\ k # i => MountsAt("umount_volumes", i, j, k) <= MountsAt("umount_volumes", i + 1, j, k)
             /\ k = i => MountsAt("umount_volumes", i, j, k) = MountsAt("umount_volumes", i + 1, j, k) + 1
  <2>1. TableMounts("umount_volumes", i, j) = 0 /\ TableMounts("umount_volumes", i + 1, j) = 0
    BY DEF TableMounts
  <2>2. k # i => /\ VolumeMounts("umount_volumes", i, k) = VolumeMounts("umount_volumes", i + 1, k)
                 /\ VolumeMounts("umount_volumes", i, k) \in 0..1
    BY <1>1 DEF VolumeMounts
  <2>3. k = i => /\ VolumeMounts("umount_volumes", i, k) = 1
                 /\ VolumeMounts("umount_volumes", i + 1, k) = 0
    BY <1>1 DEF VolumeMounts
  <2> QED BY <2>1, <2>2, <2>3 DEF MountsAt
<1>5. \A p : IsVolume(p, i) => p = q
  BY <1>1, <1>2 DEF IsVolume
<1>6. \A j \in 0..15, k \in 0..Len(volumes) : Accounts(q, j, k)
  <2> SUFFICES ASSUME NEW j \in 0..15, NEW k \in 0..Len(volumes) PROVE Accounts(q, j, k)
    OBVIOUS
  <2>1. CASE k # i
    BY <1>1, <1>4, <2>1 DEF Accounts
  <2>2. CASE k = i
    BY <1>1, <1>3, <1>4, <1>5, <2>2 DEF Accounts
  <2> QED BY <2>1, <2>2
<1>7. i' \in Nat
  BY <1>1
<1> QED BY <1>1, <1>3, <1>6, <1>7, LeftUmounts

\* A container that has stopped has left nothing mounted, however far its start
\* got, if its volumes are not nested; if they are, what is left is at the
\* directories they are nested with: for any volumes and any number of starts.
THEOREM FsNothingLeft == FsSpec => []NothingLeft
<1>1. FsInit => LeftInv
  <2> SUFFICES ASSUME FsInit PROVE LeftInv
    OBVIOUS
  <2>1. mounts = <<>> /\ DOMAIN mounts = {} /\ IsInjective(volumes) /\ pc = "stopped" /\ i = 0
    BY DEF FsInit
  <2>2. Targets \ Overlays \subseteq present
    BY FsAssumption DEF FsInit
  <2>3. Places
    BY <2>1, <2>2 DEF Places
  <2>4. ASSUME NEW p \in Paths, NEW j \in 0..15, NEW k \in Nat PROVE CleanAt(p, j, k, pc, i)
    <3>1. MountsAt(pc, i, j, k) = 0
      BY <2>1, Allowed
    <3>2. At(p) = {}
      BY <2>1 DEF At
    <3>3. AtMost(p, MountsAt(pc, i, j, k))
      BY <3>1, <3>2, AtNone
    <3>4. Ordered(p)
      BY <2>1 DEF Ordered
    <3> QED BY <3>3, <3>4 DEF CleanAt
  <2> QED BY <2>3, <2>4 DEF LeftInv
<1>2. FsInv /\ LeftInv /\ [FsNext]_fsVars => LeftInv'
  <2> SUFFICES ASSUME FsInv, LeftInv, [FsNext]_fsVars PROVE LeftInv'
    OBVIOUS
  <2>1. VolumeStep => LeftInv'
    BY LeftVolumeStep
  <2>2. MountStep => LeftInv'
    BY LeftMountStep
  <2>3. UmountStep \/ Retry \/ UmountVolume => LeftInv'
    BY LeftUmountStep, LeftRetry, LeftUmountVolume
  <2>4. CASE UNCHANGED fsVars
    BY <2>4, LeftIdleSteps
  <2>5. CASE Start \/ MountFails \/ MountDone \/ VolumesDone
    BY <2>5, LeftIdleSteps
  <2>6. CASE Exit \/ UmountDone \/ UmountVolumesDone
    BY <2>6, LeftIdleSteps
  <2> QED BY <2>1, <2>2, <2>3, <2>4, <2>5, <2>6 DEF FsNext
<1>3. FsInv /\ LeftInv => NothingLeft
  <2> SUFFICES ASSUME FsInv, LeftInv, pc = "stopped"
               PROVE  /\ NoNesting => mounts = <<>>
                      /\ \A k \in DOMAIN mounts : \E dest \in ToSet(volumes) : Related(mounts[k].at, dest)
    BY DEF NothingLeft
  <2>1. /\ mounts \in Seq(Entry) /\ volumes \in Seq(Dests) /\ present \subseteq Targets /\ i \in Nat
        /\ Len(volumes) \in Nat /\ DOMAIN volumes = 1..Len(volumes)
    BY FsAssumption, VolumeFacts DEF FsInv, FsTypes
  <2>2. ASSUME NEW m \in DOMAIN mounts PROVE ~Clean(mounts[m].at)
    <3>1. PICK p : p = mounts[m].at
      OBVIOUS
    <3>2. p \in Paths /\ m \in At(p)
      <4>1. mounts[m] \in Entry
        BY <2>1
      <4> QED BY <3>1, <4>1 DEF Entry, Paths, At
    <3>3. PICK j \in 0..15, k \in Nat : IsEntry(p, j) /\ IsVolume(p, k)
      BY <2>1, PathIndex
    <3>4. CleanAt(p, j, k, pc, i) /\ MountsAt(pc, i, j, k) = 0
      BY <2>1, <3>2, Allowed DEF LeftInv
    <3>5. ASSUME Clean(p) PROVE FALSE
      <4>1. AtMost(p, 0)
        BY <3>3, <3>4, <3>5 DEF CleanAt
      <4>2. At(p) = {}
        BY <4>1, AtNone
      <4> QED BY <3>2, <4>2
    <3> QED BY <3>1, <3>5
  <2>3. ASSUME NEW m \in DOMAIN mounts PROVE mounts[m].at \in Paths /\ mounts[m].at \in present \cup ToSet(volumes)
    <3>1. mounts[m] \in Entry
      BY <2>1
    <3> QED BY <3>1 DEF Entry, Paths, LeftInv, Places
  <2>4. ASSUME NoNesting PROVE mounts = <<>>
    <3>1. ASSUME NEW p \in Targets \cup ToSet(volumes) PROVE Clean(p)
      <4>1. \A v \in ToSet(volumes), r \in Targets \cup ToSet(volumes) : r # v => ~Related(r, v)
        BY <2>4 DEF NoNesting, ToSet
      <4> QED BY <3>1, <4>1 DEF Clean, Related
    <3>2. DOMAIN mounts = {}
      BY <2>1, <2>2, <2>3, <3>1
    <3> QED BY <2>1, <3>2
  <2>5. ASSUME NEW m \in DOMAIN mounts
        PROVE  \E dest \in ToSet(volumes) : Related(mounts[m].at, dest)
    <3>1. PICK p \in Paths : p = mounts[m].at
      BY <2>3
    <3>2. CASE p \in ToSet(volumes)
      <4>1. Related(p, p)
        BY TablePaths, AboveOrder DEF Related
      <4> QED BY <3>1, <3>2, <4>1
    <3>3. CASE p \notin ToSet(volumes)
      <4>1. ~Clean(p)
        BY <2>2, <3>1
      <4> QED BY <3>1, <3>3, <4>1 DEF Clean
    <3> QED BY <3>2, <3>3
  <2> QED BY <2>4, <2>5
<1> QED BY FsInitOK, FsStep, <1>1, <1>2, <1>3, PTL DEF FsSpec
=============================================================================
