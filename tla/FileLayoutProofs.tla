-------------------------- MODULE FileLayoutProofs --------------------------
(***************************************************************************)
(* Theorems about FileLayout and TorrentFile.  Whatever the lengths of the *)
(* files, of the pieces and of the blocks, every byte of a torrent is      *)
(* asked for once, stored at its place, read from there, and verified with *)
(* its piece.  Whatever tokens a torrent file has, the parser moves on     *)
(* until it ends, what it makes of the file has sizes, and a file that is  *)
(* accepted under a torrent's name says that torrent's files and pieces.   *)
(***************************************************************************)
EXTENDS TorrentFile, SequenceTheorems, FiniteSetTheorems, TLAPS

(* Induction and recursion on natural numbers, for sets and functions: the *)
(* theorems of the library that say so take an operator.                   *)

\* A set with 0 that has the successor of each of its numbers has all numbers: otherwise
\* the successor maps what lies below a gap into itself, and only 0 is not met.
LEMMA NatSetInduction ==
  ASSUME NEW S, 0 \in S, \A n \in Nat : n \in S => n + 1 \in S
  PROVE  Nat \subseteq S
<1> SUFFICES ASSUME NEW t \in Nat, t \notin S PROVE FALSE
  OBVIOUS
<1> DEFINE Lower == {x \in 0..t : \A y \in 0..x : y \in S}
           next == [x \in Lower |-> x + 1]
<1>1. IsFiniteSet(Lower)
  <2>1. Lower \in SUBSET Nat /\ \A x \in Lower : x <= t
    OBVIOUS
  <2> QED
    BY <2>1, FS_BoundedSetOfNaturals
<1>2. next \in Injection(Lower, Lower)
  <2>1. ASSUME NEW x \in Lower PROVE x + 1 \in Lower
    <3>1. x \in Nat /\ x \in S /\ x <= t
      OBVIOUS
    <3>2. x + 1 \in S
      BY <3>1
    <3>3. x # t
      BY <3>1
    <3> QED
      BY <3>1, <3>2, <3>3
  <2>2. next \in [Lower -> Lower]
    BY <2>1
  <2>3. \A a, b \in Lower : next[a] = next[b] => a = b
    OBVIOUS
  <2> QED
    BY <2>2, <2>3 DEF Injection, IsInjective
<1>3. next \in Surjection(Lower, Lower)
  BY <1>1, <1>2, FS_Injection
<1>4. 0 \in Lower
  OBVIOUS
<1>5. PICK x \in Lower : next[x] = 0
  BY <1>3, <1>4 DEF Surjection
<1> QED
  BY <1>5

\* f begins with a and goes on with the i-th step from number i - 1 to number i.
Runs(f, n, a, step) == f[0] = a /\ \A i \in 1..n : f[i] = step[<<f[i-1], i>>]

\* Such a function exists.
LEMMA Recursion ==
  ASSUME NEW n \in Nat, NEW S, NEW a \in S, NEW step \in [S \X (1..n) -> S]
  PROVE  \E f \in [0..n -> S] : Runs(f, n, a, step)
<1> USE DEF Runs
<1> DEFINE Good(k, g) == Runs(g, k, a, step)
           I == {k \in Nat : k <= n => \E g \in [0..k -> S] : Good(k, g)}
<1>1. 0 \in I
  <2>1. [i \in 0..0 |-> a] \in [0..0 -> S] /\ Good(0, [i \in 0..0 |-> a])
    OBVIOUS
  <2> QED
    BY <2>1
<1>2. ASSUME NEW k \in Nat, k \in I PROVE k + 1 \in I
  <2> SUFFICES ASSUME k + 1 <= n PROVE \E g \in [0..k+1 -> S] : Good(k + 1, g)
    OBVIOUS
  <2>1. PICK g \in [0..k -> S] : Good(k, g)
    BY <1>2
  <2> DEFINE h == [i \in 0..k+1 |-> IF i <= k THEN g[i] ELSE step[<<g[k], k + 1>>]]
  <2>2. step[<<g[k], k + 1>>] \in S
    <3>1. <<g[k], k + 1>> \in S \X (1..n)
      OBVIOUS
    <3> QED
      BY <3>1
  <2>3. h \in [0..k+1 -> S]
    BY <2>2
  <2>4. h[0] = a
    BY <2>1
  <2>5. ASSUME NEW i \in 1..k+1 PROVE h[i] = step[<<h[i-1], i>>]
    <3>1. CASE i <= k
      <4>1. h[i] = g[i] /\ h[i-1] = g[i-1] /\ i \in 1..k
        BY <3>1
      <4> QED
        BY <4>1, <2>1
    <3>2. CASE i = k + 1
      <4>1. h[i-1] = g[k] /\ h[i] = step[<<g[k], k + 1>>]
        BY <3>2
      <4> QED
        BY <4>1, <3>2
    <3> QED
      BY <3>1, <3>2
  <2> QED
    BY <2>3, <2>4, <2>5
<1>3. n \in I
  <2> HIDE DEF I
  <2> QED
    BY <1>1, <1>2, NatSetInduction
<1> QED
  BY <1>3
-----------------------------------------------------------------------------
(* Where the files lie. *)

\* EndsOf() adds the sizes up.
LEMMA EndsOfSum ==
  ASSUME NEW z \in Seq(Nat)
  PROVE  /\ EndsOf(z) \in [0..Len(z) -> Nat]
         /\ EndsOf(z)[0] = 0
         /\ \A i \in 1..Len(z) : EndsOf(z)[i] = EndsOf(z)[i-1] + z[i]
<1> DEFINE n == Len(z)
           step == [x \in Nat \X (1..n) |-> x[1] + z[x[2]]]
           Sum(f) == f = [i \in 0..n |-> IF i = 0 THEN 0 ELSE f[i-1] + z[i]]
<1>1. step \in [Nat \X (1..n) -> Nat]
  OBVIOUS
<1>2. PICK f \in [0..n -> Nat] : Runs(f, n, 0, step)
  <2>1. n \in Nat /\ 0 \in Nat
    OBVIOUS
  <2> HIDE DEF step, n
  <2> QED
    BY <1>1, <2>1, Recursion
<1>3. Sum(f)
  <2>1. ASSUME NEW i \in 1..n PROVE f[i] = f[i-1] + z[i]
    <3>1. f[i-1] \in Nat /\ i \in 1..n
      BY SMTT(30)
    <3>2. step[<<f[i-1], i>>] = f[i-1] + z[i]
      BY <3>1
    <3> QED
      BY <1>2, <3>2 DEF Runs
  <2>2. \A i \in 0..n : f[i] = IF i = 0 THEN 0 ELSE f[i-1] + z[i]
    BY <1>2, <2>1 DEF Runs
  <2> QED
    BY <2>2
<1>4. EndsOf(z) = CHOOSE g : Sum(g)
  BY DEF EndsOf
<1>5. Sum(EndsOf(z))
  BY <1>3, <1>4
<1> DEFINE Edge == EndsOf(z)
<1>6. Edge[0] = 0 /\ \A i \in 1..n : Edge[i] = Edge[i-1] + z[i]
  <2>1. Edge = [i \in 0..n |-> IF i = 0 THEN 0 ELSE Edge[i-1] + z[i]]
    BY <1>5
  <2> n \in Nat
    OBVIOUS
  <2> HIDE DEF Edge, n, step
  <2>2. Edge[0] = 0
    <3>1. 0 \in 0..n
      OBVIOUS
    <3> QED
      BY <2>1, <3>1
  <2>3. ASSUME NEW i \in 1..n PROVE Edge[i] = Edge[i-1] + z[i]
    <3>1. i \in 0..n /\ i # 0
      OBVIOUS
    <3> QED
      BY <2>1, <3>1
  <2> QED
    BY <2>2, <2>3
<1>7. \A i \in 0..n : Edge[i] \in Nat
  <2> DEFINE I == {i \in Nat : i <= n => Edge[i] \in Nat}
  <2>1. 0 \in I
    BY <1>6
  <2>2. ASSUME NEW i \in Nat, i \in I PROVE i + 1 \in I
    <3> SUFFICES ASSUME i + 1 <= n PROVE Edge[i+1] \in Nat
      OBVIOUS
    <3>1. i + 1 \in 1..n /\ z[i+1] \in Nat /\ Edge[i] \in Nat
      BY <2>2
    <3> QED
      BY <3>1, <1>6
  <2> HIDE DEF I
  <2>3. Nat \subseteq I
    BY <2>1, <2>2, NatSetInduction
  <2> QED
    BY <2>3 DEF I
<1> QED
  BY <1>5, <1>6, <1>7

LEMMA EndIsNat ==
  ASSUME NEW z \in Seq(Nat), NEW i \in 0..Len(z)
  PROVE  EndsOf(z)[i] \in Nat
<1>1. EndsOf(z) \in [0..Len(z) -> Nat]
  BY EndsOfSum
<1> QED
  BY <1>1

\* The number after i, as far as there is one.
LEMMA NextNumber ==
  ASSUME NEW n \in Nat, NEW i \in Nat, i + 1 <= n
  PROVE  i \in 0..n /\ i + 1 \in 0..n /\ i + 1 \in 1..n /\ (i + 1) - 1 = i
OBVIOUS

\* The numbers up to the one before i.
LEMMA NumbersBefore ==
  ASSUME NEW n \in Nat, NEW i \in 1..n, NEW j \in 1..i-1
  PROVE  /\ j \in 1..n /\ j \in 0..n /\ j - 1 \in 0..n
         /\ i - 1 \in j..n /\ i - 1 \in 0..n
OBVIOUS

\* A later file ends no earlier.
LEMMA EndsGrow ==
  ASSUME NEW z \in Seq(Nat), NEW i \in 0..Len(z), NEW j \in i..Len(z)
  PROVE  EndsOf(z)[i] <= EndsOf(z)[j]
<1> DEFINE Edge == EndsOf(z)
           I == {k \in Nat : i <= k /\ k <= Len(z) => Edge[i] <= Edge[k]}
<1>1. Edge \in [0..Len(z) -> Nat] /\ \A k \in 1..Len(z) : Edge[k] = Edge[k-1] + z[k]
  BY EndsOfSum
<1> HIDE DEF Edge
<1>5. Len(z) \in Nat /\ \A k \in 1..Len(z) : z[k] \in Nat
  OBVIOUS
<1>2. 0 \in I
  BY <1>1
<1>3. ASSUME NEW k \in Nat, k \in I PROVE k + 1 \in I
  <2> SUFFICES ASSUME i <= k + 1, k + 1 <= Len(z) PROVE Edge[i] <= Edge[k+1]
    OBVIOUS
  <2>0. i \in 0..Len(z) /\ Edge[i] \in Nat
    BY <1>1
  <2>1. CASE i = k + 1
    BY <2>0, <2>1
  <2>2. CASE i <= k
    <3>1. k + 1 \in 1..Len(z) /\ k \in 0..Len(z)
      BY <2>2
    <3>2. z[k+1] \in Nat /\ Edge[k] \in Nat
      BY <3>1, <1>1, <1>5
    <3>4. Edge[k+1] = Edge[k] + z[k+1]
      <4>1. Edge[k+1] = Edge[(k+1)-1] + z[k+1]
        BY <3>1, <1>1
      <4>2. (k + 1) - 1 = k
        OBVIOUS
      <4> QED
        BY <4>1, <4>2
    <3>3. Edge[i] <= Edge[k]
      BY <2>2, <3>1, <1>3
    <3> QED
      BY <2>0, <3>2, <3>3, <3>4
  <2> QED
    BY <2>1, <2>2
<1> HIDE DEF I
<1>4. Nat \subseteq I
  BY <1>2, <1>3, NatSetInduction
<1> QED
  BY <1>4 DEF I, Edge

\* Every byte of the torrent is in a file.
LEMMA ByteHasFile ==
  ASSUME NEW z \in Seq(Nat), NEW k \in 1..EndsOf(z)[Len(z)]
  PROVE  \E i \in 1..Len(z) : k - EndsOf(z)[i-1] \in 1..z[i]
<1> DEFINE Edge == EndsOf(z)
           In(i) == k - Edge[i-1] \in 1..z[i]
           I == {j \in Nat : j <= Len(z) /\ k <= Edge[j] => \E i \in 1..j : In(i)}
<1>1. /\ Edge \in [0..Len(z) -> Nat] /\ Edge[0] = 0
      /\ \A j \in 1..Len(z) : Edge[j] = Edge[j-1] + z[j]
  BY EndsOfSum
<1>2. k \in Nat /\ 1 <= k /\ k <= Edge[Len(z)]
  BY <1>1
<1> HIDE DEF Edge
<1>3. 0 \in I
  BY <1>1, <1>2
<1>4. ASSUME NEW j \in Nat, j \in I PROVE j + 1 \in I
  <2> SUFFICES ASSUME j + 1 <= Len(z), k <= Edge[j+1] PROVE \E i \in 1..j+1 : In(i)
    OBVIOUS
  <2>1. CASE k <= Edge[j]
    BY <2>1, <1>4
  <2>2. CASE k > Edge[j]
    <3>1. j \in 0..Len(z) /\ j + 1 \in 1..Len(z) /\ (j + 1) - 1 = j
      BY NextNumber
    <3>2. Edge[j+1] = Edge[j] + z[j+1]
      BY <1>1, <3>1
    <3>3. Edge[j] \in Nat /\ z[j+1] \in Nat
      BY SMTT(30), <1>1, <3>1
    <3>4. In(j + 1)
      <4>1. PICK e \in Nat, l \in Nat : e = Edge[j] /\ l = z[j+1]
        BY <3>3
      <4>2. k \in Nat /\ k > e /\ k <= e + l
        BY <1>2, <2>2, <3>2, <4>1
      <4>3. k - e \in 1..l
        BY <4>2
      <4>4. Edge[(j+1)-1] = e
        BY <3>1, <4>1
      <4> QED
        BY <4>1, <4>3, <4>4
    <3> QED
      BY <3>4
  <2>3. Edge[j] \in Nat
    <3>1. j \in 0..Len(z)
      BY NextNumber
    <3> QED
      BY <1>1, <3>1
  <2>4. k <= Edge[j] \/ k > Edge[j]
    BY <1>2, <2>3
  <2> QED
    BY <2>1, <2>2, <2>4
<1> HIDE DEF I
<1>5. Len(z) \in I
  BY SMTT(30), <1>3, <1>4, NatSetInduction
<1> QED
  BY <1>5, <1>2 DEF I, Edge

-----------------------------------------------------------------------------
(* The files one after the other. *)

\* The files of the disk have the lengths z.
Fits(disk, z) ==
  /\ disk \in Seq(Seq(Nat)) /\ z \in Seq(Nat)
  /\ Len(disk) = Len(z)
  /\ \A i \in 1..Len(z) : Len(disk[i]) = z[i]

\* The bytes are those of the first n files, in order.
JoinsFirst(bytes, disk, z, n) ==
  /\ bytes \in Seq(Nat)
  /\ Len(bytes) = EndsOf(z)[n]
  /\ \A i \in 1..n : \A k \in 1..z[i] : bytes[EndsOf(z)[i-1] + k] = disk[i][k]

Joins(bytes, disk, z) == JoinsFirst(bytes, disk, z, Len(z))

\* Adding a file to those that come before it.
LEMMA JoinsNext ==
  ASSUME NEW disk, NEW z, Fits(disk, z), NEW bytes, NEW n \in Nat, n + 1 <= Len(z),
         JoinsFirst(bytes, disk, z, n)
  PROVE  JoinsFirst(bytes \o disk[n+1], disk, z, n + 1)
<1> DEFINE Edge == EndsOf(z)
<1>1. z \in Seq(Nat) /\ n + 1 \in 1..Len(z) /\ n \in 0..Len(z)
  BY DEF Fits
<1>2. Edge \in [0..Len(z) -> Nat] /\ \A i \in 1..Len(z) : Edge[i] = Edge[i-1] + z[i]
  BY <1>1, EndsOfSum
<1>3. Edge[n+1] = Edge[n] + z[n+1] /\ Edge[n] \in Nat /\ z[n+1] \in Nat
  <2>1. Edge[n+1] = Edge[(n+1)-1] + z[n+1] /\ (n + 1) - 1 = n
    BY <1>1, <1>2
  <2>2. z[n+1] \in Nat
    BY <1>1
  <2> QED
    BY <1>1, <1>2, <2>1, <2>2
<1>4. bytes \in Seq(Nat) /\ Len(bytes) = Edge[n]
  BY DEF JoinsFirst
<1>5. disk[n+1] \in Seq(Nat) /\ Len(disk[n+1]) = z[n+1]
  BY <1>1 DEF Fits
<1> DEFINE all == bytes \o disk[n+1]
<1>6. /\ all \in Seq(Nat) /\ Len(all) = Edge[n+1]
      /\ \A k \in 1..Edge[n+1] : all[k] = IF k <= Edge[n] THEN bytes[k] ELSE disk[n+1][k - Edge[n]]
  <2> DEFINE l == Len(bytes) + Len(disk[n+1])
  <2>1. /\ all \in Seq(Nat) /\ Len(all) = l
        /\ \A k \in 1..l : all[k] = IF k <= Len(bytes) THEN bytes[k] ELSE disk[n+1][k - Len(bytes)]
    BY <1>4, <1>5, ConcatProperties
  <2>2. l = Edge[n+1] /\ Len(bytes) = Edge[n]
    BY <1>3, <1>4, <1>5
  <2> HIDE DEF Edge, l, all
  <2> QED
    BY <2>1, <2>2
<1>7. ASSUME NEW i \in 1..n+1, NEW k \in 1..z[i] PROVE all[Edge[i-1] + k] = disk[i][k]
  <2>1. i \in 1..Len(z) /\ i - 1 \in 0..Len(z) /\ z[i] \in Nat /\ k \in Nat /\ k >= 1 /\ k <= z[i]
    BY <1>1
  <2>2. Edge[i] = Edge[i-1] + z[i] /\ Edge[i-1] \in Nat /\ Edge[i] \in Nat
    <3> HIDE DEF Edge
    <3>1. Edge[i-1] \in Nat
      BY <1>2, <2>1
    <3>2. i \in 0..Len(z)
      BY <2>1
    <3> QED
      BY <1>2, <2>1, <3>1, <3>2
  <2>3. CASE i <= n
    <3>1. Edge[i] <= Edge[n]
      BY <1>1, <2>1, <2>3, EndsGrow
    <3>2. Edge[i-1] + k \in 1..Edge[n+1] /\ Edge[i-1] + k <= Edge[n]
      <4> HIDE DEF Edge
      <4>1. Edge[i-1] + k <= Edge[i] /\ Edge[i-1] + k \in Nat /\ Edge[i-1] + k >= 1
        BY <2>1, <2>2
      <4>2. Edge[n] <= Edge[n+1]
        BY <1>3
      <4>3. Edge[i] \in Nat /\ Edge[n] \in Nat /\ Edge[n+1] \in Nat
        BY <1>3, <2>2
      <4> QED
        BY <3>1, <4>1, <4>2, <4>3
    <3>3. bytes[Edge[i-1] + k] = disk[i][k]
      BY <2>3 DEF JoinsFirst
    <3> HIDE DEF Edge, all
    <3> QED
      BY <1>6, <3>2, <3>3
  <2>4. CASE i = n + 1
    <3>1. Edge[i-1] = Edge[n] /\ Edge[i] = Edge[n+1]
      BY <2>4
    <3>2. Edge[i-1] + k \in 1..Edge[n+1] /\ ~ (Edge[i-1] + k <= Edge[n]) /\ (Edge[i-1] + k) - Edge[n] = k
      <4> HIDE DEF Edge
      <4> QED
        BY SMTT(30), <1>3, <2>1, <2>2, <3>1
    <3> HIDE DEF Edge, all
    <3> QED
      BY <1>6, <2>4, <3>2
  <2>5. i <= n \/ i = n + 1
    BY <1>1
  <2> HIDE DEF Edge, all
  <2> QED
    BY <2>3, <2>4, <2>5
<1> QED
  BY <1>6, <1>7 DEF JoinsFirst

\* FlattenSeq() joins the files.
LEMMA FlattenJoins ==
  ASSUME NEW disk, NEW z, Fits(disk, z)
  PROVE  Joins(FlattenSeq(disk), disk, z)
<1> DEFINE n == Len(z)
           Flat(f) == f = [i \in 1..n |-> IF i = 1 THEN disk[i] ELSE f[i-1] \o disk[i]]
<1>1. /\ n \in Nat /\ Len(disk) = n /\ disk \in Seq(Seq(Nat)) /\ z \in Seq(Nat)
      /\ \A i \in 1..n : disk[i] \in Seq(Nat) /\ Len(disk[i]) = z[i] /\ z[i] \in Nat
  BY DEF Fits
<1>2. EndsOf(z)[0] = 0 /\ EndsOf(z) \in [0..n -> Nat]
  BY <1>1, EndsOfSum
<1>3. JoinsFirst(<<>>, disk, z, 0)
  BY <1>2 DEF JoinsFirst
<1>4. CASE n = 0
  <2>1. FlattenSeq(disk) = disk
    BY <1>1, <1>4 DEF FlattenSeq
  <2>2. disk = <<>>
    BY <1>1, <1>4, EmptySeq
  <2> QED
    BY <1>3, <1>4, <2>1, <2>2 DEF Joins
<1>5. CASE n > 0
  <2> DEFINE step == [x \in Seq(Nat) \X (1..n) |-> IF x[2] = 1 THEN disk[x[2]] ELSE x[1] \o disk[x[2]]]
  <2>1. step \in [Seq(Nat) \X (1..n) -> Seq(Nat)]
    <3>1. ASSUME NEW a \in Seq(Nat), NEW i \in 1..n PROVE a \o disk[i] \in Seq(Nat)
      BY <1>1, ConcatProperties
    <3> QED
      BY <1>1, <3>1
  <2>2. PICK f \in [0..n -> Seq(Nat)] : Runs(f, n, <<>>, step)
    <3>1. <<>> \in Seq(Nat)
      OBVIOUS
    <3> HIDE DEF step, n
    <3> QED
      BY <1>1, <2>1, <3>1, Recursion
  <2> DEFINE g == [i \in 1..n |-> f[i]]
  <2>3. Flat(g)
    <3>1. ASSUME NEW i \in 1..n PROVE f[i] = IF i = 1 THEN disk[i] ELSE f[i-1] \o disk[i]
      <4>1. i - 1 \in 0..n
        BY <1>1
      <4>2. f[i-1] \in Seq(Nat) /\ i \in 1..n
        BY <4>1
      <4>3. step[<<f[i-1], i>>] = IF i = 1 THEN disk[i] ELSE f[i-1] \o disk[i]
        BY <4>2
      <4> QED
        BY <2>2, <4>3 DEF Runs
    <3>2. \A i \in 1..n : i # 1 => i - 1 \in 1..n
      BY <1>1
    <3>3. \A i \in 1..n : g[i] = IF i = 1 THEN disk[i] ELSE g[i-1] \o disk[i]
      BY SMTT(30), <3>1, <3>2
    <3> QED
      BY <3>3
  <2> DEFINE c == CHOOSE h : Flat(h)
  <2>4. Flat(c)
    BY <2>3
  <2>5. FlattenSeq(disk) = c[n]
    BY SMTT(30), <1>1, <1>5 DEF FlattenSeq
  <2>6. \A i \in 1..n : c[i] = IF i = 1 THEN disk[i] ELSE c[i-1] \o disk[i]
    BY <2>4
  <2> HIDE DEF c
  <2> DEFINE I == {i \in Nat : i + 1 <= n => JoinsFirst(c[i+1], disk, z, i + 1)}
  <2>7. 0 \in I
    <3>1. c[1] = disk[1] /\ disk[1] \in Seq(Nat)
      BY <1>1, <1>5, <2>6
    <3>2. <<>> \o disk[1] = disk[1]
      BY <3>1, ConcatEmptySeq
    <3>3. JoinsFirst(<<>> \o disk[0+1], disk, z, 0 + 1)
      <4>1. 0 \in Nat /\ 0 + 1 <= Len(z)
        BY <1>1, <1>5
      <4> QED
        BY <1>3, <4>1, JoinsNext
    <3>4. 0 + 1 = 1
      OBVIOUS
    <3> QED
      BY <3>1, <3>2, <3>3, <3>4
  <2>8. ASSUME NEW i \in Nat, i \in I PROVE i + 1 \in I
    <3> SUFFICES ASSUME (i + 1) + 1 <= n PROVE JoinsFirst(c[(i+1)+1], disk, z, (i + 1) + 1)
      OBVIOUS
    <3>1. JoinsFirst(c[i+1], disk, z, i + 1)
      BY <1>1, <2>8
    <3>2. JoinsFirst(c[i+1] \o disk[(i+1)+1], disk, z, (i + 1) + 1)
      BY <1>1, <3>1, JoinsNext
    <3>3. c[(i+1)+1] = c[((i+1)+1)-1] \o disk[(i+1)+1]
      <4>1. (i + 1) + 1 \in 1..n /\ (i + 1) + 1 # 1
        BY <1>1
      <4> QED
        BY <2>6, <4>1
    <3>4. ((i + 1) + 1) - 1 = i + 1
      OBVIOUS
    <3> QED
      BY <3>2, <3>3, <3>4
  <2> HIDE DEF I
  <2>9. n - 1 \in I
    <3>1. n - 1 \in Nat
      BY <1>1, <1>5
    <3>2. Nat \subseteq I
      BY <2>7, <2>8, NatSetInduction
    <3> QED
      BY <3>1, <3>2
  <2>10. (n - 1) + 1 = n
    BY <1>1
  <2>11. JoinsFirst(c[n], disk, z, n)
    BY <1>1, <2>9, <2>10 DEF I
  <2> QED
    BY <2>5, <2>11 DEF Joins
<1> QED
  BY <1>1, <1>4, <1>5

\* Only one sequence of bytes does.
LEMMA JoinsOnce ==
  ASSUME NEW disk, NEW z, z \in Seq(Nat), NEW bytes, Joins(bytes, disk, z),
         NEW others, Joins(others, disk, z)
  PROVE  bytes = others
<1> DEFINE T == EndsOf(z)[Len(z)]
<1>1. /\ bytes \in Seq(Nat) /\ Len(bytes) = T
      /\ others \in Seq(Nat) /\ Len(others) = T
  BY DEF Joins, JoinsFirst
<1>2. ASSUME NEW k \in 1..T PROVE bytes[k] = others[k]
  <2>1. PICK i \in 1..Len(z) : k - EndsOf(z)[i-1] \in 1..z[i]
    BY ByteHasFile
  <2>2. EndsOf(z)[i-1] \in Nat /\ k \in Int
    <3>1. i - 1 \in 0..Len(z)
      OBVIOUS
    <3> QED
      BY <3>1, EndIsNat
  <2>3. EndsOf(z)[i-1] + (k - EndsOf(z)[i-1]) = k
    BY <2>2
  <2> QED
    BY SMTT(30), <2>1, <2>3 DEF Joins, JoinsFirst
<1> QED
  BY <1>1, <1>2, SeqEqual

-----------------------------------------------------------------------------
(* Loops over the files. *)

LEMMA MinOfTwo ==
  ASSUME NEW a \in Int, NEW b \in Int
  PROVE  Min({a, b}) = IF a <= b THEN a ELSE b
<1> DEFINE m == IF a <= b THEN a ELSE b
<1>1. m \in {a, b} /\ \A y \in {a, b} : m =< y
  OBVIOUS
<1>2. \A x \in {a, b} : (\A y \in {a, b} : x =< y) => x = m
  OBVIOUS
<1> QED
  BY <1>1, <1>2 DEF Min

\* The part of bytes from start on, d bytes long.
Part(bytes, start, d) == SubSeq(bytes, start + 1, start + d)

IsPart(part, bytes, start, d) ==
  /\ part \in Seq(Nat) /\ Len(part) = d
  /\ \A k \in 1..d : part[k] = bytes[start + k]

LEMMA PartBytes ==
  ASSUME NEW bytes \in Seq(Nat), NEW start \in Nat, NEW d \in Nat, start + d <= Len(bytes)
  PROVE  IsPart(Part(bytes, start, d), bytes, start, d)
<1>1. \A k \in start+1..start+d : bytes[k] \in Nat
  OBVIOUS
<1>2. start + 1 \in Int /\ start + d \in Int
  OBVIOUS
<1> DEFINE part == SubSeq(bytes, start + 1, start + d)
<1>3. /\ part \in Seq(Nat)
      /\ Len(part) = IF start + 1 <= start + d THEN (start + d) - (start + 1) + 1 ELSE 0
      /\ \A k \in 1..(start + d) - (start + 1) + 1 : part[k] = bytes[(start + 1) + k - 1]
  <2>1. PICK m \in Int, n \in Int : m = start + 1 /\ n = start + d
    BY <1>2
  <2>2. \A k \in m..n : bytes[k] \in Nat
    BY <1>1, <2>1
  <2>3. /\ SubSeq(bytes, m, n) \in Seq(Nat)
        /\ Len(SubSeq(bytes, m, n)) = IF m <= n THEN n - m + 1 ELSE 0
        /\ \A k \in 1..n - m + 1 : SubSeq(bytes, m, n)[k] = bytes[m + k - 1]
    BY <2>2, SubSeqProperties
  <2> QED
    BY <2>1, <2>3
<1>4. (start + d) - (start + 1) + 1 = d
  OBVIOUS
<1>5. \A k \in 1..d : (start + 1) + k - 1 = start + k
  OBVIOUS
<1> HIDE DEF part
<1>6. Len(part) = d
  BY <1>3, <1>4
<1>7. ASSUME NEW k \in 1..d PROVE part[k] = bytes[start + k]
  <2>1. part[k] = bytes[(start + 1) + k - 1]
    BY <1>3, <1>4
  <2> QED
    BY <1>5, <2>1
<1> QED
  BY <1>3, <1>6, <1>7 DEF IsPart, Part, part

\* The chunk is the c bytes from the place from on.
Continues(chunk, bytes, from, c) ==
  /\ chunk \in Seq(Nat) /\ Len(chunk) = c
  /\ from + c <= Len(bytes)
  /\ \A k \in 1..c : chunk[k] = bytes[from + k]

\* With the chunk, the first d bytes from start on become the first e bytes.
Extends(bytes, start, d, chunk, e) ==
  Part(bytes, start, d) \o chunk = Part(bytes, start, e)

LEMMA PartsJoin ==
  ASSUME NEW bytes \in Seq(Nat), NEW start \in Nat, NEW d \in Nat, NEW c \in Nat,
         NEW chunk, NEW from, from = start + d, Continues(chunk, bytes, from, c),
         NEW e, e = d + c
  PROVE  Extends(bytes, start, d, chunk, e)
<1> DEFINE first == Part(bytes, start, d)
           both == Part(bytes, start, e)
           all == first \o chunk
<1>0. /\ chunk \in Seq(Nat) /\ Len(chunk) = c /\ start + d + c <= Len(bytes)
      /\ \A k \in 1..c : chunk[k] = bytes[start + d + k]
  BY DEF Continues
<1>1. Len(bytes) \in Nat /\ start + d <= Len(bytes) /\ start + e <= Len(bytes) /\ e \in Nat
  BY <1>0
<1>2. first \in Seq(Nat) /\ Len(first) = d /\ \A k \in 1..d : first[k] = bytes[start + k]
  BY <1>1, PartBytes DEF IsPart
<1>3. both \in Seq(Nat) /\ Len(both) = d + c /\ \A k \in 1..d+c : both[k] = bytes[start + k]
  BY <1>1, PartBytes DEF IsPart
<1> HIDE DEF first, both
<1>4. /\ all \in Seq(Nat) /\ Len(all) = Len(first) + Len(chunk)
      /\ \A k \in 1..Len(first)+Len(chunk) :
           all[k] = IF k <= Len(first) THEN first[k] ELSE chunk[k - Len(first)]
  BY <1>0, <1>2, ConcatProperties
<1> HIDE DEF all
<1>5. ASSUME NEW k \in 1..d+c PROVE all[k] = both[k]
  <2>0. k \in Nat /\ k >= 1 /\ k <= d + c
    OBVIOUS
  <2>1. CASE k <= d
    <3>1. k \in 1..d /\ k \in 1..Len(first)+Len(chunk) /\ k <= Len(first)
      BY <1>0, <1>2, <2>0, <2>1
    <3>2. all[k] = first[k]
      BY <1>4, <3>1
    <3>3. first[k] = bytes[start + k]
      BY <1>2, <3>1
    <3>4. both[k] = bytes[start + k]
      BY <1>3
    <3> QED
      BY <3>2, <3>3, <3>4
  <2>2. CASE k > d
    <3>1. k - d \in 1..c /\ start + d + (k - d) = start + k /\ ~ (k <= d)
      BY <2>0, <2>2
    <3>2. chunk[k - d] = bytes[start + k]
      BY <1>0, <3>1
    <3>3. all[k] = chunk[k - d]
      BY <1>0, <1>2, <1>4, <3>1
    <3> QED
      BY <1>3, <3>2, <3>3
  <2> QED
    BY <2>1, <2>2
<1>6. all = both
  BY <1>0, <1>2, <1>3, <1>4, <1>5, SeqEqual
<1> QED
  BY <1>6 DEF all, first, both, Extends

\* A slice is the part up to the end of the bytes.
SliceHas(bytes, start, length, d) ==
  /\ Slice(bytes, start, length) = Part(bytes, start, d)
  /\ d = IF start + length <= Len(bytes) THEN length ELSE Len(bytes) - start

LEMMA SliceIsPart ==
  ASSUME NEW bytes \in Seq(Nat), NEW start \in Nat, NEW length \in Nat, start <= Len(bytes)
  PROVE  \E d \in Nat : SliceHas(bytes, start, length, d)
<1> DEFINE d == IF start + length <= Len(bytes) THEN length ELSE Len(bytes) - start
<1>1. d \in Nat
  OBVIOUS
<1>2. Min({start + length, Len(bytes)}) = start + d
  <2>1. start + length \in Int /\ Len(bytes) \in Int
    OBVIOUS
  <2> QED
    BY <2>1, MinOfTwo
<1>3. Slice(bytes, start, length) = Part(bytes, start, d)
  BY <1>2 DEF Slice, Part
<1>4. SliceHas(bytes, start, length, d)
  BY <1>3 DEF SliceHas
<1> HIDE DEF d
<1> QED
  BY <1>1, <1>4

\* From a state that is good[0], each step leads from good[i - 1] to good[i].
Keeps(good, n, a, step) ==
  /\ a \in good[0]
  /\ \A i \in 1..n : \A x \in good[i-1] : step[<<x, i>>] \in good[i]

\* Then there is a loop whose i-th state is good[i].
LEMMA LoopRuns ==
  ASSUME NEW n \in Nat, NEW good, NEW a, NEW step, Keeps(good, n, a, step)
  PROVE  \E f : f = [i \in 0..n |-> f[i]] /\ Runs(f, n, a, step) /\ \A i \in 0..n : f[i] \in good[i]
<1> DEFINE all == UNION {good[i] : i \in 0..n}
           safe == [x \in all \X (1..n) |-> IF step[x] \in all THEN step[x] ELSE a]
<1>1. a \in all
  BY DEF Keeps
<1>2. safe \in [all \X (1..n) -> all]
  BY <1>1
<1>3. PICK f \in [0..n -> all] : Runs(f, n, a, safe)
  <2> HIDE DEF all, safe
  <2> QED
    BY <1>1, <1>2, Recursion
<1> DEFINE I == {i \in Nat : i <= n => f[i] \in good[i] /\ (i > 0 => f[i] = step[<<f[i-1], i>>])}
<1>4. 0 \in I
  BY SMTT(30), <1>3 DEF Runs, Keeps
<1>5. ASSUME NEW i \in Nat, i \in I PROVE i + 1 \in I
  <2> SUFFICES ASSUME i + 1 <= n
               PROVE  f[i+1] \in good[i+1] /\ f[i+1] = step[<<f[(i+1)-1], i+1>>]
    OBVIOUS
  <2>0. i \in 0..n /\ i + 1 \in 0..n
    BY NextNumber
  <2>1. i + 1 \in 1..n /\ (i + 1) - 1 = i
    BY NextNumber
  <2>2. f[i] \in good[i]
    BY <1>5
  <2>3. step[<<f[i], i+1>>] \in good[i+1]
    BY <2>1, <2>2 DEF Keeps
  <2>4. step[<<f[i], i+1>>] \in all
    BY <2>0, <2>3
  <2>5. <<f[i], i+1>> \in all \X (1..n)
    BY <2>0, <2>1, <2>2
  <2>6. safe[<<f[i], i+1>>] = step[<<f[i], i+1>>]
    BY <2>4, <2>5
  <2>7. f[i+1] = safe[<<f[(i+1)-1], i+1>>]
    BY <1>3, <2>1 DEF Runs
  <2> HIDE DEF all, safe
  <2> QED
    BY <2>1, <2>3, <2>6, <2>7
<1> HIDE DEF I
<1>6. Nat \subseteq I
  BY <1>4, <1>5, NatSetInduction
<1>7. ASSUME NEW i \in 0..n PROVE f[i] \in good[i]
  <2>1. i \in Nat /\ i <= n
    OBVIOUS
  <2>2. i \in I
    BY <1>6, <2>1
  <2> QED
    BY <2>1, <2>2 DEF I
<1>8. \A i \in 1..n : f[i] = step[<<f[i-1], i>>]
  BY <1>6 DEF I
<1>9. Runs(f, n, a, step)
  BY <1>3, <1>8 DEF Runs
<1>10. f = [i \in 0..n |-> f[i]]
  OBVIOUS
<1> QED
  BY <1>7, <1>9, <1>10

\* w makes these steps as long as it is good.
Follows(w, good, n, a, step) ==
  /\ w[0] = a
  /\ \A i \in 1..n : w[i-1] \in good[i-1] => w[i] = step[<<w[i-1], i>>]

\* Every loop that does so is good.
LEMMA LoopStaysGood ==
  ASSUME NEW n \in Nat, NEW good, NEW a, NEW step, Keeps(good, n, a, step),
         NEW w, Follows(w, good, n, a, step)
  PROVE  \A i \in 0..n : w[i] \in good[i]
<1> DEFINE I == {i \in Nat : i <= n => w[i] \in good[i]}
<1>1. 0 \in I
  BY DEF Keeps, Follows
<1>2. ASSUME NEW i \in Nat, i \in I PROVE i + 1 \in I
  <2> SUFFICES ASSUME i + 1 <= n PROVE w[i+1] \in good[i+1]
    OBVIOUS
  <2>1. i + 1 \in 1..n /\ (i + 1) - 1 = i
    OBVIOUS
  <2>2. w[i] \in good[i]
    BY <1>2
  <2>3. w[i+1] = step[<<w[i], i+1>>]
    BY <2>1, <2>2 DEF Follows
  <2> QED
    BY <2>1, <2>2, <2>3 DEF Keeps
<1> HIDE DEF I
<1>3. Nat \subseteq I
  BY <1>1, <1>2, NatSetInduction
<1> QED
  BY <1>3 DEF I

\* A file that begins at a and ends at b, and c of the room bytes from start on that lie
\* in it, pos bytes behind its beginning: they go up to the end of one of the two.
IsChunk(a, size, b, start, room, pos, c) ==
  /\ pos = start - a /\ pos + c <= size
  /\ c \in 1..room /\ start + c <= b /\ (c = room \/ start + c = b)
  /\ Min({pos + room, size}) = pos + c /\ Min({room, size - pos}) = c
  /\ \A k \in 1..c : pos + k \in 1..size /\ a + (pos + k) = start + k

LEMMA ChunkFits ==
  ASSUME NEW a \in Nat, NEW size \in Nat, NEW b, b = a + size,
         NEW start \in Nat, a <= start, start < b, NEW room \in Nat, room > 0
  PROVE  \E pos \in Nat, c \in Nat : IsChunk(a, size, b, start, room, pos, c)
<1> DEFINE pos == start - a
           c == IF room <= size - pos THEN room ELSE size - pos
<1>1. pos \in Nat /\ pos < size
  OBVIOUS
<1>2. c \in 1..room /\ pos + c <= size
  BY <1>1
<1>3. start + c <= b /\ (c = room \/ start + c = b)
  BY <1>1
<1>4. Min({pos + room, size}) = pos + c
  <2>1. pos + room \in Int /\ size \in Int
    BY <1>1
  <2>2. Min({pos + room, size}) = IF pos + room <= size THEN pos + room ELSE size
    BY <2>1, MinOfTwo
  <2> HIDE DEF pos
  <2> QED
    BY <1>1, <2>2
<1>5. Min({room, size - pos}) = c
  <2>1. room \in Int /\ size - pos \in Int
    BY <1>1
  <2> HIDE DEF pos
  <2> QED
    BY <2>1, MinOfTwo
<1>6. \A k \in 1..c : pos + k \in 1..size /\ a + (pos + k) = start + k
  BY <1>1, <1>2
<1> HIDE DEF c
<1>7. IsChunk(a, size, b, start, room, pos, c)
  BY <1>2, <1>3, <1>4, <1>5, <1>6 DEF IsChunk
<1>8. c \in Nat
  BY <1>2
<1> HIDE DEF pos
<1> QED
  BY <1>1, <1>7, <1>8

-----------------------------------------------------------------------------
(* Reading. *)

\* What readBlock() has after i files, and d of the length bytes from start on ...
ReadState(bytes, z, start, length, i, d) ==
  [currentIndex |-> EndsOf(z)[i], start |-> start + d, length |-> length - d,
   block |-> Part(bytes, start, d)]

\* ... which are all that these files have of them.
ReadSoFar(z, start, length, i, d) ==
  /\ d \in 0..length
  /\ start + d <= EndsOf(z)[Len(z)]
  /\ d = 0 \/ start + d <= EndsOf(z)[i]
  /\ d = length \/ EndsOf(z)[i] <= start + d

LEMMA ReadStep ==
  ASSUME NEW disk, NEW z, Fits(disk, z), NEW bytes, Joins(bytes, disk, z),
         NEW start \in Nat, NEW length \in Nat,
         NEW i \in 1..Len(z), NEW h, h = i - 1, NEW d \in Nat, ReadSoFar(z, start, length, h, d)
  PROVE  \E e \in Nat :
           /\ ReadSoFar(z, start, length, i, e)
           /\ ReadFrom(ReadState(bytes, z, start, length, h, d), disk[i])
                = ReadState(bytes, z, start, length, i, e)
<1> DEFINE Edge == EndsOf(z)
           T == Edge[Len(z)]
           acc == ReadState(bytes, z, start, length, i - 1, d)
           file == disk[i]
<1>1. z \in Seq(Nat) /\ file \in Seq(Nat) /\ Len(file) = z[i] /\ z[i] \in Nat
  BY DEF Fits
<1>2. Edge[i] = Edge[i-1] + z[i] /\ Edge[i-1] \in Nat /\ Edge[i] \in Nat /\ T \in Nat /\ Edge[i] <= T
  <2>1. i - 1 \in 0..Len(z) /\ i \in 0..Len(z) /\ Len(z) \in i..Len(z) /\ Len(z) \in 0..Len(z)
    BY <1>1
  <2>2. Edge \in [0..Len(z) -> Nat] /\ \A j \in 1..Len(z) : Edge[j] = Edge[j-1] + z[j]
    BY <1>1, EndsOfSum
  <2>3. Edge[i] <= Edge[Len(z)]
    BY <1>1, <2>1, EndsGrow
  <2> HIDE DEF Edge
  <2> QED
    BY <2>1, <2>2, <2>3
<1>3. bytes \in Seq(Nat) /\ Len(bytes) = T /\ \A k \in 1..z[i] : bytes[Edge[i-1] + k] = file[k]
  BY DEF Joins, JoinsFirst
<1>4. /\ d \in Nat /\ d <= length /\ start + d <= T
      /\ d = 0 \/ start + d <= Edge[i-1]
      /\ d = length \/ Edge[i-1] <= start + d
  BY DEF ReadSoFar
<1>5. /\ acc.currentIndex = Edge[i-1] /\ acc.start = start + d /\ acc.length = length - d
      /\ acc.block = Part(bytes, start, d)
  BY DEF ReadState
<1>6. InFile(acc, file) <=> Edge[i] > start + d
  BY <1>1, <1>2, <1>5 DEF InFile
<1>9. start \in Nat /\ length \in Nat
  OBVIOUS
<1> HIDE DEF Edge, T, acc, file
<1>7. CASE acc.length > 0 /\ InFile(acc, file)
  <2>1. PICK from \in Nat : from = start + d
    BY <1>4, <1>9
  <2>2. PICK room \in Nat : room = length - d /\ room > 0
    BY <1>4, <1>5, <1>7, <1>9
  <2>3. Edge[i-1] <= from /\ from < Edge[i]
    BY <1>2, <1>4, <1>5, <1>6, <1>7, <1>9, <2>1
  <2>4. PICK pos \in Nat, c \in Nat : IsChunk(Edge[i-1], z[i], Edge[i], from, room, pos, c)
    BY <1>1, <1>2, <2>2, <2>3, ChunkFits
  <2>5. /\ pos = from - Edge[i-1] /\ pos + c <= z[i]
        /\ c \in 1..room /\ from + c <= Edge[i] /\ (c = room \/ from + c = Edge[i])
        /\ Min({pos + room, z[i]}) = pos + c
        /\ \A k \in 1..c : pos + k \in 1..z[i] /\ Edge[i-1] + (pos + k) = from + k
    BY <2>4 DEF IsChunk
  <2>6. PICK chunk : chunk = ChunkAt(file, pos, room)
    OBVIOUS
  <2>7. chunk = Part(file, pos, c)
    BY <1>1, <2>5, <2>6 DEF ChunkAt, Part
  <2>8. chunk \in Seq(Nat) /\ Len(chunk) = c /\ \A k \in 1..c : chunk[k] = file[pos + k]
    <3>1. pos + c <= Len(file)
      BY <1>1, <2>5
    <3>2. IsPart(Part(file, pos, c), file, pos, c)
      BY <1>1, <3>1, PartBytes
    <3> QED
      BY <2>7, <3>2 DEF IsPart
  <2>9. Continues(chunk, bytes, from, c)
    <3>1. from + c <= Len(bytes)
      BY <1>2, <1>3, <2>5
    <3>2. \A k \in 1..c : chunk[k] = bytes[from + k]
      <4> SUFFICES ASSUME NEW k \in 1..c PROVE chunk[k] = bytes[from + k]
        OBVIOUS
      <4>1. chunk[k] = file[pos + k]
        BY <2>8
      <4>2. pos + k \in 1..z[i] /\ Edge[i-1] + (pos + k) = from + k
        BY <2>5
      <4>3. bytes[Edge[i-1] + (pos + k)] = file[pos + k]
        BY <1>3, <4>2
      <4> QED
        BY <4>1, <4>2, <4>3
    <3> QED
      BY <2>8, <3>1, <3>2 DEF Continues
  <2>10. PICK e \in Nat : e = d + c
    BY <1>4
  <2>11. Part(bytes, start, d) \o chunk = Part(bytes, start, e)
    <3>1. Extends(bytes, start, d, chunk, e)
      BY <1>3, <1>4, <1>9, <2>1, <2>9, <2>10, PartsJoin
    <3> QED
      BY <3>1 DEF Extends
  <2>12. start + e = from + c /\ length - e = room - c /\ e <= length
    BY <1>4, <1>9, <2>1, <2>2, <2>5, <2>10
  <2>13. ReadSoFar(z, start, length, i, e)
    <3>1. start + e <= Edge[i] /\ (e = length \/ start + e = Edge[i])
      <4>1. e = length \/ start + e = Edge[i]
        <5>1. CASE c = room
          BY <1>4, <1>9, <2>2, <2>10, <5>1
        <5>2. CASE from + c = Edge[i]
          BY <2>12, <5>2
        <5> QED
          BY <2>5, <5>1, <5>2
      <4>2. start + e <= Edge[i]
        BY <2>5, <2>12
      <4> QED
        BY <4>1, <4>2
    <3>2. start + e \in Nat
      BY <1>9, <2>10
    <3>3. start + e <= T
      BY <1>2, <3>1, <3>2
    <3> QED
      BY <1>2, <1>9, <2>10, <2>12, <3>1, <3>2, <3>3 DEF ReadSoFar, Edge, T
  <2>14. ReadFrom(acc, file) = ReadState(bytes, z, start, length, i, e)
    <3>1. acc.start - acc.currentIndex = pos /\ acc.length = room
      BY <1>5, <2>1, <2>2, <2>5
    <3>2. ReadFrom(acc, file)
            = [[acc EXCEPT !.currentIndex = @ + Len(file)] EXCEPT
                 !.block = @ \o chunk, !.length = @ - Len(chunk), !.start = @ + Len(chunk)]
      BY <1>7, <2>6, <3>1 DEF ReadFrom
    <3>3. /\ Edge[i-1] + Len(file) = Edge[i] /\ (start + d) + Len(chunk) = start + e
          /\ (length - d) - Len(chunk) = length - e
      BY <1>1, <1>2, <1>4, <1>9, <2>8, <2>10
    <3> QED
      BY <2>11, <3>2, <3>3 DEF ReadState, acc, Edge
  <2> QED
    BY <2>13, <2>14 DEF acc, file
<1>8. CASE ~ (acc.length > 0 /\ InFile(acc, file))
  <2>1. d = length \/ Edge[i] <= start + d
    BY <1>2, <1>4, <1>5, <1>6, <1>8, <1>9
  <2>2. ReadSoFar(z, start, length, i, d)
    <3>1. d = 0 \/ start + d <= Edge[i]
      BY SMTT(30), <1>1, <1>2, <1>4, <1>9
    <3> QED
      BY <1>4, <1>9, <2>1, <3>1 DEF ReadSoFar, Edge, T
  <2>3. ReadFrom(acc, file) = ReadState(bytes, z, start, length, i, d)
    <3>1. ReadFrom(acc, file) = [acc EXCEPT !.currentIndex = @ + Len(file)]
      BY <1>8 DEF ReadFrom
    <3>2. Edge[i-1] + Len(file) = Edge[i]
      BY <1>1, <1>2
    <3> QED
      BY <3>1, <3>2 DEF ReadState, acc, Edge
  <2> QED
    BY <2>2, <2>3 DEF acc, file
<1> QED
  BY <1>7, <1>8

\* readBlock() returns that slice of the torrent.
LEMMA ReadIsRight ==
  ASSUME NEW disk, NEW z, Fits(disk, z), NEW bytes, Joins(bytes, disk, z),
         NEW p, NEW offset, NEW length \in Nat,
         StartOf(p, offset) \in Nat, StartOf(p, offset) < EndsOf(z)[Len(z)]
  PROVE  readBlock(disk, p, offset, length) = Slice(bytes, StartOf(p, offset), length)
<1>1. PICK start \in Nat : start = StartOf(p, offset)
  OBVIOUS
<1>2. PICK n \in Nat : n = Len(z) /\ n = Len(disk)
  BY DEF Fits
<1>3. PICK T \in Nat : T = EndsOf(z)[n] /\ start < T
  <2>1. z \in Seq(Nat)
    BY DEF Fits
  <2>2. EndsOf(z) \in [0..Len(z) -> Nat]
    BY <2>1, EndsOfSum
  <2>3. n \in 0..Len(z)
    BY <1>2
  <2> QED
    BY <1>1, <1>2, <2>2, <2>3
<1> DEFINE State(i, d) == ReadState(bytes, z, start, length, i, d)
           good == [i \in 0..n |-> {State(i, d) : d \in {d \in Nat : ReadSoFar(z, start, length, i, d)}}]
           all == UNION {good[i] : i \in 0..n}
           a == [currentIndex |-> 0, start |-> StartOf(p, offset), length |-> length, block |-> <<>>]
           step == [x \in all \X (1..n) |-> ReadFrom(x[1], disk[x[2]])]
           Walk(w) == w = [i \in 0..n |-> IF i = 0 THEN a ELSE ReadFrom(w[i-1], disk[i])]
<1>4. a \in good[0]
  <2>1. z \in Seq(Nat) /\ EndsOf(z)[0] = 0
    <3>1. z \in Seq(Nat)
      BY DEF Fits
    <3> QED
      BY <3>1, EndsOfSum
  <2>2. Part(bytes, start, 0) = <<>>
    BY SubSeqEmpty DEF Part
  <2>3. a = State(0, 0)
    BY <1>1, <2>1, <2>2 DEF ReadState
  <2>4. ReadSoFar(z, start, length, 0, 0)
    BY <1>2, <1>3, <2>1 DEF ReadSoFar
  <2> QED
    BY <2>3, <2>4
<1>5. ASSUME NEW i \in 1..n, NEW x \in good[i-1]
      PROVE  ReadFrom(x, disk[i]) \in good[i] /\ <<x, i>> \in all \X (1..n)
  <2>1. i - 1 \in 0..n /\ i \in 0..n
    BY <1>2
  <2>2. PICK d \in Nat : x = State(i - 1, d) /\ ReadSoFar(z, start, length, i - 1, d)
    BY <2>1
  <2>3. PICK e \in Nat : ReadSoFar(z, start, length, i, e) /\ ReadFrom(x, disk[i]) = State(i, e)
    <3>1. PICK h : h = i - 1
      OBVIOUS
    <3>2. i \in 1..Len(z) /\ ReadSoFar(z, start, length, h, d)
      BY <1>2, <2>2, <3>1
    <3>3. PICK e \in Nat : ReadSoFar(z, start, length, i, e)
                           /\ ReadFrom(State(h, d), disk[i]) = State(i, e)
      BY <3>1, <3>2, ReadStep
    <3> QED
      BY <2>2, <3>1, <3>3
  <2>4. ReadFrom(x, disk[i]) \in good[i]
    BY <2>1, <2>3
  <2>5. x \in all
    BY <2>1
  <2> QED
    BY <2>4, <2>5
<1> HIDE DEF good, all
<1>6. ASSUME NEW i \in 1..n, NEW x \in good[i-1] PROVE step[<<x, i>>] = ReadFrom(x, disk[i])
  BY <1>5
<1>7. Keeps(good, n, a, step)
  <2> HIDE DEF a, step
  <2> QED
    BY <1>4, <1>5, <1>6 DEF Keeps
<1>8. PICK f : f = [i \in 0..n |-> f[i]] /\ Runs(f, n, a, step) /\ \A i \in 0..n : f[i] \in good[i]
  <2> HIDE DEF a, step
  <2> QED
    BY <1>7, LoopRuns
<1>9. Walk(f)
  <2>1. f[0] = a /\ \A i \in 1..n : f[i] = ReadFrom(f[i-1], disk[i])
    <3> SUFFICES ASSUME NEW i \in 1..n PROVE f[i] = ReadFrom(f[i-1], disk[i])
      BY <1>8 DEF Runs
    <3>1. i - 1 \in 0..n
      BY <1>2
    <3> HIDE DEF step, a
    <3> QED
      BY <1>6, <1>8, <3>1 DEF Runs
  <2> HIDE DEF a
  <2>2. \A i \in 0..n : f[i] = IF i = 0 THEN a ELSE ReadFrom(f[i-1], disk[i])
    BY <2>1
  <2> QED
    BY <1>8, <2>2
<1> DEFINE walk == CHOOSE w : Walk(w)
<1>10. Walk(walk)
  BY <1>9
<1>11. readBlock(disk, p, offset, length) = walk[n].block
  BY <1>2 DEF readBlock
<1> HIDE DEF walk
<1>12. walk[n] \in good[n]
  <2>1. walk[0] = a /\ \A i \in 1..n : walk[i] = ReadFrom(walk[i-1], disk[i])
    BY <1>10
  <2> HIDE DEF a, step
  <2>2. Follows(walk, good, n, a, step)
    BY <1>6, <2>1 DEF Follows
  <2>3. \A i \in 0..n : walk[i] \in good[i]
    BY <1>7, <2>2, LoopStaysGood
  <2> QED
    BY <2>3
<1>13. PICK d \in Nat : walk[n] = State(n, d) /\ ReadSoFar(z, start, length, n, d)
  BY <1>12 DEF good
<1>14. readBlock(disk, p, offset, length) = Part(bytes, start, d)
  BY <1>11, <1>13 DEF ReadState
<1>15. d <= length /\ start + d <= T /\ (d = length \/ start + d = T)
  <2>1. d <= length /\ start + d <= T /\ (d = length \/ T <= start + d)
    BY <1>2, <1>3, <1>13 DEF ReadSoFar
  <2> QED
    BY <2>1
<1>16. bytes \in Seq(Nat) /\ Len(bytes) = T
  BY <1>2, <1>3 DEF Joins, JoinsFirst
<1>17. PICK e \in Nat : SliceHas(bytes, start, length, e)
  <2>1. start <= Len(bytes)
    BY <1>3, <1>16
  <2> QED
    BY <1>16, <2>1, SliceIsPart
<1>18. e = d
  BY <1>3, <1>15, <1>16, <1>17 DEF SliceHas
<1> QED
  BY <1>1, <1>14, <1>17, <1>18 DEF SliceHas

-----------------------------------------------------------------------------
(* Writing. *)

\* The byte at the place x once the first w bytes of the data are stored behind start.
ByteAt(data, start, w, x, old) ==
  IF x \in start + 1 .. start + w THEN data[x - start] ELSE old

\* The rest of the data once w bytes of it are written.
Rest(data, w) == SubSeq(data, w + 1, Len(data))

IsRest(rest, data, w) ==
  /\ rest \in Seq(Nat) /\ Len(rest) = Len(data) - w
  /\ \A k \in 1 .. Len(data) - w : rest[k] = data[w + k]

LEMMA RestBytes ==
  ASSUME NEW data \in Seq(Nat), NEW w \in 0..Len(data)
  PROVE  IsRest(Rest(data, w), data, w)
<1>0. Len(data) \in Nat /\ w \in Nat /\ w <= Len(data)
  OBVIOUS
<1>1. PICK d \in Nat : d = Len(data) - w
  BY <1>0
<1>2. w + d = Len(data)
  BY <1>0, <1>1
<1>3. IsPart(Part(data, w, d), data, w, d)
  BY <1>2, PartBytes
<1> QED
  BY <1>0, <1>1, <1>2, <1>3 DEF IsPart, IsRest, Part, Rest

LEMMA RestOfRest ==
  ASSUME NEW data \in Seq(Nat), NEW w \in Nat, NEW c \in Nat, NEW v, v = w + c, v <= Len(data),
         NEW rest, rest = Rest(data, w)
  PROVE  Rest(rest, c) = Rest(data, v)
<1>1. IsRest(rest, data, w)
  BY RestBytes
<1>2. rest \in Seq(Nat) /\ Len(rest) = Len(data) - w /\ c \in 0..Len(rest) /\ v \in 0..Len(data)
  BY <1>1 DEF IsRest
<1>3. IsRest(Rest(rest, c), rest, c) /\ IsRest(Rest(data, v), data, v)
  BY <1>2, RestBytes
<1> DEFINE one == Rest(rest, c)
           two == Rest(data, v)
<1>4. one \in Seq(Nat) /\ two \in Seq(Nat) /\ Len(one) = Len(data) - v /\ Len(two) = Len(data) - v
  <2>1. Len(rest) - c = Len(data) - v
    BY <1>2
  <2> QED
    BY <1>3, <2>1 DEF IsRest
<1>5. ASSUME NEW k \in 1 .. Len(data) - v PROVE one[k] = two[k]
  <2>1. k \in 1 .. Len(rest) - c /\ c + k \in 1 .. Len(data) - w /\ w + (c + k) = v + k
    BY <1>2
  <2>2. one[k] = rest[c + k] /\ rest[c + k] = data[w + (c + k)]
    BY <1>1, <1>3, <2>1 DEF IsRest
  <2>3. two[k] = data[v + k]
    BY <1>3 DEF IsRest
  <2> QED
    BY <2>1, <2>2, <2>3
<1> HIDE DEF one, two
<1>6. one = two
  BY <1>4, <1>5, SeqEqual
<1> QED
  BY <1>6 DEF one, two

\* The variables of writeBlock()'s loop.
Acc(a, start, data, broken, i, disk, w, ok) ==
  [currentIndex |-> a, start |-> start, data |-> data, broken |-> broken, done |-> i,
   disk |-> disk, written |-> w, ok |-> ok]

AccFields == {"currentIndex", "start", "data", "broken", "done", "disk", "written", "ok"}

HasFields(y, a, start, data, broken, i, disk, w, ok) ==
  /\ y = [f \in AccFields |-> y[f]]
  /\ y.currentIndex = a /\ y.start = start /\ y.data = data /\ y.broken = broken
  /\ y.done = i /\ y.disk = disk /\ y.written = w /\ y.ok = ok

\* A record is known by its fields ...
LEMMA AccOfFields ==
  ASSUME NEW a, NEW start, NEW data, NEW broken, NEW i, NEW disk, NEW w, NEW ok,
         NEW y, HasFields(y, a, start, data, broken, i, disk, w, ok)
  PROVE  y = Acc(a, start, data, broken, i, disk, w, ok)
<1>1. PICK x : x = Acc(a, start, data, broken, i, disk, w, ok)
  OBVIOUS
<1>2. x = [f \in AccFields |-> x[f]]
  BY <1>1 DEF Acc, AccFields
<1>3. /\ x.currentIndex = a /\ x.start = start /\ x.data = data /\ x.broken = broken
      /\ x.done = i /\ x.disk = disk /\ x.written = w /\ x.ok = ok
  BY <1>1 DEF Acc
<1>4. \A f \in AccFields : x[f] = y[f]
  BY <1>3 DEF AccFields, HasFields
<1> QED
  BY <1>1, <1>2, <1>4 DEF HasFields

\* ... and so are those that the loop makes: of a file that is passed over, of one that
\* fails, and of one that takes c bytes of the data and becomes the last of the files to.
Skips(x, size, file, y) ==
  y = [x EXCEPT !.currentIndex = @ + size, !.done = @ + 1, !.disk = Append(@, file)]

Stores(x, to, c, y) ==
  y = [x EXCEPT !.disk = to, !.data = SubSeq(@, c + 1, Len(@)), !.start = @ + c, !.written = @ + c]

LEMMA AccSkips ==
  ASSUME NEW a, NEW start, NEW data, NEW broken, NEW i, NEW disk, NEW w, NEW ok,
         NEW x, x = Acc(a, start, data, broken, i, disk, w, ok), NEW size, NEW file,
         NEW y, Skips(x, size, file, y)
  PROVE  y = Acc(a + size, start, data, broken, i + 1, Append(disk, file), w, ok)
<1>1. y = [f \in AccFields |-> y[f]]
  BY DEF Acc, AccFields, Skips
<1>2. y.currentIndex = a + size /\ y.start = start /\ y.data = data /\ y.broken = broken
  BY DEF Acc, Skips
<1>3. y.done = i + 1 /\ y.disk = Append(disk, file) /\ y.written = w
  BY DEF Acc, Skips
<1>4. y.ok = ok
  BY DEF Acc, Skips
<1>6. HasFields(y, a + size, start, data, broken, i + 1, Append(disk, file), w, ok)
  BY <1>1, <1>2, <1>3, <1>4 DEF HasFields
<1> QED
  BY <1>6, AccOfFields

LEMMA AccFails ==
  ASSUME NEW a, NEW start, NEW data, NEW broken, NEW i, NEW disk, NEW w, NEW ok,
         NEW x, x = Acc(a, start, data, broken, i, disk, w, ok),
         NEW no, NEW y, y = [x EXCEPT !.ok = no]
  PROVE  y = Acc(a, start, data, broken, i, disk, w, no)
<1>1. y = [f \in AccFields |-> y[f]]
  BY DEF Acc, AccFields
<1>2. y.currentIndex = a /\ y.start = start /\ y.data = data /\ y.broken = broken
  BY DEF Acc
<1>3. y.done = i /\ y.disk = disk /\ y.written = w
  BY DEF Acc
<1>4. y.ok = no
  BY DEF Acc
<1>6. HasFields(y, a, start, data, broken, i, disk, w, no)
  BY <1>1, <1>2, <1>3, <1>4 DEF HasFields
<1> QED
  BY <1>6, AccOfFields

LEMMA AccStores ==
  ASSUME NEW a, NEW start, NEW data, NEW broken, NEW i, NEW disk, NEW w, NEW ok,
         NEW x, x = Acc(a, start, data, broken, i, disk, w, ok), NEW to, NEW c,
         NEW y, Stores(x, to, c, y)
  PROVE  y = Acc(a, start + c, SubSeq(data, c + 1, Len(data)), broken, i, to, w + c, ok)
<1>1. y = [f \in AccFields |-> y[f]]
  BY DEF Acc, AccFields, Stores
<1>2. y.currentIndex = a /\ y.start = start + c /\ y.broken = broken
  BY DEF Acc, Stores
<1>3. y.done = i /\ y.disk = to /\ y.written = w + c
  BY DEF Acc, Stores
<1>4. y.ok = ok
  BY DEF Acc, Stores
<1>5. y.data = SubSeq(data, c + 1, Len(data))
  BY DEF Acc, Stores
<1>6. HasFields(y, a, start + c, SubSeq(data, c + 1, Len(data)), broken, i, to, w + c, ok)
  BY <1>1, <1>2, <1>3, <1>4, <1>5 DEF HasFields
<1> QED
  BY <1>6, AccOfFields

\* What writeBlock() has after i files, of which t says how much was written ...
Writings == [written : Nat, disk : Seq(Seq(Nat)), ok : BOOLEAN]

WriteState(z, data, start, broken, i, t) ==
  Acc(EndsOf(z)[i], start + t.written, Rest(data, t.written), broken, i, t.disk, t.written, t.ok)

\* ... a file that has the bytes it should have by then ...
FileHolds(file, old, data, start, w, a, size) ==
  /\ Len(file) = size
  /\ \A k \in 1..size : file[k] = ByteAt(data, start, w, a + k, old[k])

FilesHold(files_, disk, z, data, start, w, i) ==
  /\ files_ \in Seq(Seq(Nat)) /\ Len(files_) = i
  /\ \A j \in 1..i : FileHolds(files_[j], disk[j], data, start, w, EndsOf(z)[j-1], z[j])

\* ... which is all that these files can take, unless one of them failed.
WriteSoFar(disk, z, data, start, i, t) ==
  /\ t.written <= Len(data)
  /\ t.written = 0 \/ start + t.written <= EndsOf(z)[i]
  /\ t.ok => t.written = Len(data) \/ EndsOf(z)[i] <= start + t.written
  /\ FilesHold(t.disk, disk, z, data, start, t.written, i)

LEMMA NextFileHolds ==
  ASSUME NEW disk, NEW z, z \in Seq(Nat), NEW data, NEW start \in Nat,
         NEW i \in 1..Len(z), NEW h, h = i - 1, NEW w \in Nat, NEW c \in Nat, NEW v, v = w + c,
         c = 0 \/ EndsOf(z)[h] <= start + w,
         NEW first, FilesHold(first, disk, z, data, start, w, h),
         NEW file \in Seq(Nat), FileHolds(file, disk[i], data, start, v, EndsOf(z)[h], z[i])
  PROVE  FilesHold(Append(first, file), disk, z, data, start, v, i)
<1> DEFINE all == Append(first, file)
<1>1. first \in Seq(Seq(Nat)) /\ Len(first) = h /\ h + 1 = i
  BY DEF FilesHold
<1>2. /\ all \in Seq(Seq(Nat)) /\ Len(all) = i
      /\ \A j \in 1..h : all[j] = first[j]
      /\ all[i] = file
  BY SMTT(30), <1>1, AppendProperties
<1> HIDE DEF all
<1>3. ASSUME NEW j \in 1..h
      PROVE  FileHolds(all[j], disk[j], data, start, v, EndsOf(z)[j-1], z[j])
  <2>1. /\ Len(first[j]) = z[j]
        /\ \A k \in 1..z[j] : first[j][k] = ByteAt(data, start, w, EndsOf(z)[j-1] + k, disk[j][k])
    BY DEF FilesHold, FileHolds
  <2>2. ASSUME NEW k \in 1..z[j]
        PROVE  ByteAt(data, start, v, EndsOf(z)[j-1] + k, disk[j][k])
                 = ByteAt(data, start, w, EndsOf(z)[j-1] + k, disk[j][k])
    <3>1. CASE c = 0
      BY <3>1
    <3>2. CASE EndsOf(z)[h] <= start + w
      <4>1. j \in 1..Len(z) /\ j \in 0..Len(z) /\ j - 1 \in 0..Len(z) /\ h \in j..Len(z) /\ h \in 0..Len(z)
        <5>1. PICK n \in Nat : n = Len(z)
          OBVIOUS
        <5>2. i \in 1..n /\ j \in 1..i-1
          BY <5>1
        <5> QED
          BY <5>1, <5>2, NumbersBefore
      <4>2. EndsOf(z) \in [0..Len(z) -> Nat]
        BY EndsOfSum
      <4>3. EndsOf(z)[j] = EndsOf(z)[j-1] + z[j]
        BY <4>1, EndsOfSum
      <4>4. EndsOf(z)[j] <= EndsOf(z)[h]
        BY <4>1, EndsGrow
      <4>5. PICK a \in Nat, b \in Nat, e \in Nat :
              a = EndsOf(z)[j-1] /\ b = EndsOf(z)[j] /\ e = EndsOf(z)[h]
        BY <4>1, <4>2
      <4>6. PICK l \in Nat : l = z[j]
        BY <4>1
      <4>7. PICK x \in Nat : x = a + k /\ x <= start + w
        <5>1. k \in Nat /\ k <= l
          BY <4>6
        <5>2. b = a + l /\ b <= e /\ e <= start + w
          BY <3>2, <4>3, <4>4, <4>5, <4>6
        <5>3. a \in Nat /\ b \in Nat /\ e \in Nat /\ l \in Nat /\ start \in Nat /\ w \in Nat
          BY <4>5, <4>6
        <5>4. a + k <= b /\ b <= start + w
          BY <5>1, <5>2, <5>3
        <5>5. a + k <= start + w /\ a + k \in Nat
          BY <5>1, <5>3, <5>4
        <5> QED
          BY <5>5
      <4>8. ByteAt(data, start, v, x, disk[j][k]) = ByteAt(data, start, w, x, disk[j][k])
        BY SMTT(30), <4>7 DEF ByteAt
      <4> QED
        BY <4>5, <4>7, <4>8
    <3> QED
      BY <3>1, <3>2
  <2> QED
    BY <1>2, <2>1, <2>2 DEF FileHolds
<1>4. FileHolds(all[i], disk[i], data, start, v, EndsOf(z)[i-1], z[i])
  BY <1>2
<1>5. \A j \in 1..i : j = i \/ j \in 1..h
  BY <1>1
<1> QED
  BY <1>2, <1>3, <1>4, <1>5 DEF FilesHold, all

\* A file that nothing is written to holds what it held.
LEMMA FileUntouched ==
  ASSUME NEW file, NEW data, NEW start \in Nat, NEW w \in Nat, NEW a \in Nat,
         w = 0 \/ start + w <= a, NEW size \in Nat, Len(file) = size
  PROVE  FileHolds(file, file, data, start, w, a, size)
<1>1. ASSUME NEW k \in 1..size PROVE ByteAt(data, start, w, a + k, file[k]) = file[k]
  BY DEF ByteAt
<1> QED
  BY <1>1 DEF FileHolds

\* In a file that begins at a, the chunk takes the c bytes behind pos.
LEMMA PlaceInChunk ==
  ASSUME NEW start \in Nat, NEW w \in Nat, NEW a \in Nat, w = 0 \/ start + w <= a, a <= start + w,
         NEW pos \in Nat, pos = (start + w) - a, NEW c \in Nat, NEW v, v = w + c,
         NEW k \in Nat, k > 0, NEW x, x = a + k
  PROVE  /\ \A e : k \in pos + 1 .. pos + c /\ e = k - pos =>
              x \in start + 1 .. start + v /\ x - start = w + e
         /\ k \notin pos + 1 .. pos + c => x \notin start + 1 .. start + v
<1>1. ASSUME k \in pos + 1 .. pos + c
      PROVE  x \in start + 1 .. start + v /\ x - start = w + (k - pos)
  BY <1>1
<1>2. ASSUME k \notin pos + 1 .. pos + c PROVE x \notin start + 1 .. start + v
  <2>1. CASE w = 0
    BY <1>2, <2>1
  <2>2. CASE a = start + w
    BY <1>2, <2>2
  <2>3. w = 0 \/ a = start + w
    OBVIOUS
  <2> QED
    BY <2>1, <2>2, <2>3
<1> QED
  BY <1>1, <1>2

\* The file once the chunk is stored behind the place pos.
StoredIn(file, pos, chunk, c) ==
  [k \in DOMAIN file |-> IF k \in pos + 1 .. pos + c THEN chunk[k - pos] ELSE file[k]]

LEMMA FileWritten ==
  ASSUME NEW file \in Seq(Nat), NEW data \in Seq(Nat), NEW start \in Nat, NEW w \in Nat,
         NEW a \in Nat, w = 0 \/ start + w <= a, a <= start + w,
         NEW size \in Nat, Len(file) = size,
         NEW pos \in Nat, pos = (start + w) - a, NEW c \in Nat, NEW v, v = w + c, v <= Len(data),
         NEW chunk, IsPart(chunk, data, w, c)
  PROVE  /\ StoredIn(file, pos, chunk, c) \in Seq(Nat)
         /\ FileHolds(StoredIn(file, pos, chunk, c), file, data, start, v, a, size)
<1> DEFINE stored == StoredIn(file, pos, chunk, c)
<1>1. ASSUME NEW k \in 1..size
      PROVE  /\ stored[k] = ByteAt(data, start, v, a + k, file[k])
             /\ stored[k] \in Nat
  <2>1. k \in Nat /\ k > 0 /\ k \in DOMAIN file /\ file[k] \in Nat
    OBVIOUS
  <2>2. PICK x \in Nat : x = a + k
    BY <2>1
  <2>3. CASE k \in pos + 1 .. pos + c
    <3>1. PICK e \in 1..c : e = k - pos
      BY <2>1, <2>3
    <3>2. x \in start + 1 .. start + v /\ x - start = w + e
      BY <2>1, <2>2, <2>3, <3>1, PlaceInChunk
    <3>3. chunk[e] = data[w + e] /\ chunk[e] \in Nat
      BY SMTT(30) DEF IsPart
    <3>4. stored[k] = chunk[e]
      BY <2>1, <2>3, <3>1 DEF StoredIn
    <3>5. ByteAt(data, start, v, x, file[k]) = data[x - start]
      BY <3>2 DEF ByteAt
    <3> QED
      BY <2>2, <3>2, <3>3, <3>4, <3>5
  <2>4. CASE k \notin pos + 1 .. pos + c
    <3>1. x \notin start + 1 .. start + v
      BY <2>1, <2>2, <2>4, PlaceInChunk
    <3>2. ByteAt(data, start, v, x, file[k]) = file[k]
      BY <3>1 DEF ByteAt
    <3>3. stored[k] = file[k]
      BY <2>1, <2>4 DEF StoredIn
    <3> QED
      BY <2>1, <2>2, <3>2, <3>3
  <2> QED
    BY <2>3, <2>4
<1>2. stored \in Seq(Nat) /\ Len(stored) = size
  <2>1. DOMAIN file = 1..size
    OBVIOUS
  <2>2. stored \in [1..size -> Nat]
    <3>1. stored = [k \in 1..size |-> stored[k]]
      BY <2>1 DEF StoredIn
    <3> HIDE DEF stored
    <3> QED
      BY <1>1, <3>1
  <2> HIDE DEF stored
  <2> QED
    BY <2>2
<1> QED
  BY <1>1, <1>2 DEF FileHolds

\* One turn of the loop leads from such a state to the next.
WritesOn(disk, z, data, start, broken, i, x) ==
  \E u \in Writings : WriteSoFar(disk, z, data, start, i, u) /\ x = WriteState(z, data, start, broken, i, u)

LEMMA WriteStep ==
  ASSUME NEW disk, NEW z, Fits(disk, z), NEW data \in Seq(Nat), NEW start \in Nat, NEW broken,
         NEW i \in 1..Len(z), NEW h, h = i - 1,
         NEW t \in Writings, WriteSoFar(disk, z, data, start, h, t)
  PROVE  WritesOn(disk, z, data, start, broken, i,
                  WriteTo(WriteState(z, data, start, broken, h, t), disk[i]))
<1> DEFINE Edge == EndsOf(z)
           file == disk[i]
<1>0. z \in Seq(Nat) /\ file \in Seq(Nat) /\ Len(file) = z[i] /\ z[i] \in Nat
  BY DEF Fits
<1>1. PICK size \in Nat : Len(file) = size /\ z[i] = size
  BY <1>0
<1>2. PICK a \in Nat, b \in Nat : a = Edge[h] /\ b = Edge[i] /\ b = a + size
  <2>1. h \in 0..Len(z) /\ i \in 0..Len(z) /\ i - 1 = h
    BY <1>0
  <2>2. Edge \in [0..Len(z) -> Nat] /\ \A j \in 1..Len(z) : Edge[j] = Edge[j-1] + z[j]
    BY <1>0, EndsOfSum
  <2> HIDE DEF Edge
  <2> QED
    BY <1>1, <2>1, <2>2
<1>3. PICK w \in Nat : w = t.written
  BY DEF Writings
<1>4. /\ w <= Len(data)
      /\ w = 0 \/ start + w <= a
      /\ t.ok => w = Len(data) \/ a <= start + w
      /\ FilesHold(t.disk, disk, z, data, start, w, h)
      /\ t.ok \in BOOLEAN
  BY <1>2, <1>3 DEF WriteSoFar, Writings
<1>6. PICK rest \in Seq(Nat) : rest = Rest(data, w) /\ IsRest(rest, data, w)
  <2>1. IsRest(Rest(data, w), data, w)
    BY <1>3, <1>4, RestBytes
  <2> QED
    BY <2>1 DEF IsRest
<1>11. PICK acc, ok : ok = t.ok /\ acc = Acc(a, start + w, rest, broken, h, t.disk, w, ok)
  OBVIOUS
<1> SUFFICES WritesOn(disk, z, data, start, broken, i, WriteTo(acc, file))
  <2>1. WriteState(z, data, start, broken, h, t) = acc
    BY <1>2, <1>3, <1>6, <1>11 DEF WriteState
  <2> QED
    BY <2>1
<1>5. /\ acc.currentIndex = a /\ acc.start = start + w /\ acc.data = rest /\ acc.broken = broken
      /\ acc.done = h /\ acc.disk = t.disk /\ acc.written = w /\ acc.ok = ok
  BY <1>11 DEF Acc
<1> HIDE DEF Edge, file
<1>12. PICK next : next = [acc EXCEPT !.currentIndex = @ + Len(file), !.done = @ + 1, !.disk = Append(@, file)]
  OBVIOUS
<1>13. next = Acc(b, start + w, rest, broken, i, Append(t.disk, file), w, ok)
  <2>1. a + Len(file) = b /\ h + 1 = i
    BY <1>1, <1>2
  <2>2. next = Acc(a + Len(file), start + w, rest, broken, h + 1, Append(t.disk, file), w, ok)
    <3>1. Skips(acc, Len(file), file, next)
      BY <1>12 DEF Skips
    <3> QED
      BY <1>11, <3>1, AccSkips
  <2> QED
    BY <2>1, <2>2
<1>7. ASSUME NEW yes \in BOOLEAN, yes => w = Len(data) \/ b <= start + w,
             WriteTo(acc, file) = Acc(b, start + w, rest, broken, i, Append(t.disk, file), w, yes)
      PROVE  WritesOn(disk, z, data, start, broken, i, WriteTo(acc, file))
  <2> DEFINE d == Append(t.disk, file)
             u == [written |-> w, disk |-> d, ok |-> yes]
  <2>1. FileHolds(file, file, data, start, w, a, size)
    BY <1>0, <1>1, <1>4, FileUntouched
  <2>2. FilesHold(d, disk, z, data, start, w, i)
    <3>1. w = w + 0 /\ 0 \in Nat
      OBVIOUS
    <3>2. FileHolds(file, disk[i], data, start, w, EndsOf(z)[h], z[i])
      BY <1>1, <1>2, <2>1 DEF Edge, file
    <3> QED
      BY <1>0, <1>4, <3>1, <3>2, NextFileHolds
  <2>3. w = 0 \/ start + w <= b
    BY SMTT(30), <1>2, <1>4
  <2> HIDE DEF d
  <2>4. u \in Writings
    BY <2>2 DEF Writings, FilesHold
  <2>5. WriteSoFar(disk, z, data, start, i, u)
    BY <1>2, <1>4, <1>7, <2>2, <2>3 DEF WriteSoFar, Edge
  <2>6. WriteTo(acc, file) = WriteState(z, data, start, broken, i, u)
    BY <1>2, <1>6, <1>7 DEF WriteState, Edge, d
  <2> QED
    BY <2>4, <2>5, <2>6 DEF WritesOn
<1>8. CASE acc.data = <<>> \/ ~ acc.ok \/ ~ InFile(acc, file)
  <2>1. WriteTo(acc, file) = next
    BY <1>8, <1>12 DEF WriteTo
  <2>2. ok => w = Len(data) \/ b <= start + w
    <3>1. CASE acc.data = <<>>
      <4>1. Len(rest) = 0 /\ Len(rest) = Len(data) - w
        BY SMTT(30), <1>5, <1>6, <3>1 DEF IsRest
      <4> QED
        BY <1>4, <4>1
    <3>2. CASE ~ InFile(acc, file)
      BY <1>1, <1>2, <1>5, <3>2 DEF InFile
    <3> QED
      BY <1>5, <1>8, <3>1, <3>2
  <2> QED
    BY <1>4, <1>7, <1>11, <1>13, <2>1, <2>2
<1>9. CASE ~ (acc.data = <<>> \/ ~ acc.ok \/ ~ InFile(acc, file)) /\ acc.done + 1 = acc.broken
  <2>1. PICK no : no = FALSE
    OBVIOUS
  <2>2. WriteTo(acc, file) = [next EXCEPT !.ok = no]
    BY <1>9, <1>12, <2>1 DEF WriteTo
  <2>3. WriteTo(acc, file) = Acc(b, start + w, rest, broken, i, Append(t.disk, file), w, no)
    BY <1>13, <2>2, AccFails
  <2> QED
    BY <1>7, <2>1, <2>3
<1>10. CASE ~ (acc.data = <<>> \/ ~ acc.ok \/ ~ InFile(acc, file)) /\ acc.done + 1 # acc.broken
  <2>1. PICK room \in Nat : room = Len(rest) /\ room = Len(data) - w /\ room > 0
    <3>1. Len(rest) = Len(data) - w /\ rest # <<>>
      BY <1>5, <1>6, <1>10 DEF IsRest
    <3>2. Len(rest) # 0 /\ Len(rest) \in Nat
      BY <3>1, EmptySeq
    <3>3. Len(rest) > 0
      BY <3>2
    <3> QED
      BY <3>1, <3>2, <3>3
  <2>2. PICK from \in Nat : from = start + w
    BY <1>3
  <2>3. a <= from /\ from < b
    <3>1. w # Len(data)
      BY <1>3, <2>1
    <3>2. a <= from
      BY <1>4, <1>5, <1>10, <1>11, <2>2, <3>1
    <3>3. from < b
      BY <1>1, <1>2, <1>5, <1>10, <2>2 DEF InFile
    <3> QED
      BY <3>2, <3>3
  <2>4. PICK pos \in Nat, c \in Nat : IsChunk(a, size, b, from, room, pos, c)
    BY <1>2, <2>1, <2>3, ChunkFits
  <2>5. /\ pos = from - a
        /\ c \in 1..room /\ from + c <= b /\ (c = room \/ from + c = b)
        /\ Min({room, size - pos}) = c
    BY <2>4 DEF IsChunk
  <2>6. PICK chunk : chunk = WriteChunk(rest, size - pos)
    OBVIOUS
  <2>7. chunk = Part(rest, 0, c)
    <3>1. 0 + 1 = 1 /\ 0 + c = c
      BY <2>5
    <3> QED
      BY <2>1, <2>5, <2>6, <3>1 DEF WriteChunk, Part
  <2>8. chunk \in Seq(Nat) /\ Len(chunk) = c /\ \A k \in 1..c : chunk[k] = data[w + k]
    <3>1. 0 + c <= Len(rest)
      BY <2>1, <2>5
    <3>2. IsPart(Part(rest, 0, c), rest, 0, c)
      BY <3>1, PartBytes
    <3>3. ASSUME NEW k \in 1..c PROVE chunk[k] = data[w + k]
      <4>1. k \in 1 .. Len(data) - w /\ 0 + k = k
        BY <2>1, <2>5
      <4> QED
        BY <1>6, <2>7, <3>2, <4>1 DEF IsPart, IsRest
    <3> QED
      BY <2>7, <3>2, <3>3 DEF IsPart
  <2>9. PICK v \in Nat : v = w + c /\ v <= Len(data)
    <3>1. c <= room /\ room = Len(data) - w /\ Len(data) \in Nat
      BY <2>1, <2>5
    <3> QED
      BY <1>4, <3>1
  <2> DEFINE stored == StoredIn(file, pos, chunk, c)
             d == Append(t.disk, stored)
             u == [written |-> v, disk |-> d, ok |-> ok]
  <2>10. stored \in Seq(Nat) /\ FileHolds(stored, file, data, start, v, a, size)
    <3>1. pos = (start + w) - a /\ a <= start + w
      BY <2>2, <2>3, <2>5
    <3>2. IsPart(chunk, data, w, c)
      BY <2>8 DEF IsPart
    <3> QED
      BY <1>0, <1>1, <1>4, <2>9, <3>1, <3>2, FileWritten
  <2> HIDE DEF stored
  <2>11. FilesHold(d, disk, z, data, start, v, i)
    <3>1. EndsOf(z)[h] <= start + w
      BY <1>2, <2>2, <2>3 DEF Edge
    <3>2. FileHolds(stored, disk[i], data, start, v, EndsOf(z)[h], z[i])
      BY <1>1, <1>2, <2>10 DEF Edge, file
    <3> QED
      BY <1>0, <1>4, <2>9, <2>10, <3>1, <3>2, NextFileHolds
  <2>12. start + v = from + c
    BY <2>2, <2>9
  <2>13. start + v <= b /\ (v = Len(data) \/ b <= start + v)
    <3>1. CASE c = room
      BY <1>4, <2>1, <2>5, <2>9, <2>12, <3>1
    <3>2. CASE from + c = b
      BY <2>5, <2>12, <3>2
    <3> QED
      BY <2>5, <3>1, <3>2
  <2> HIDE DEF d
  <2>14. u \in Writings
    BY <1>4, <1>11, <2>11 DEF Writings, FilesHold
  <2>15. WriteSoFar(disk, z, data, start, i, u)
    BY <1>2, <2>9, <2>11, <2>13 DEF WriteSoFar, Edge
  <2>16. WriteTo(acc, file) = WriteState(z, data, start, broken, i, u)
    <3>1. acc.start - acc.currentIndex = pos
      BY <1>5, <2>2, <2>5
    <3>2. WriteTo(acc, file)
            = [next EXCEPT !.disk = d, !.data = SubSeq(@, Len(chunk) + 1, Len(@)),
                           !.start = @ + Len(chunk), !.written = @ + Len(chunk)]
      BY <1>1, <1>5, <1>10, <1>12, <2>6, <2>8, <3>1 DEF WriteTo, StoredIn, stored, d
    <3>3. (start + w) + Len(chunk) = start + v /\ w + Len(chunk) = v
      BY <2>8, <2>9
    <3>4. Rest(rest, Len(chunk)) = Rest(data, v)
      <4>1. rest = Rest(data, w)
        BY <1>6
      <4>2. c \in Nat /\ Len(chunk) = c
        BY <2>5, <2>8
      <4>3. v = w + c /\ v <= Len(data)
        BY <2>9
      <4>4. Rest(rest, c) = Rest(data, v)
        BY ONLY <4>1, <4>2, <4>3, data \in Seq(Nat), w \in Nat, v \in Nat, RestOfRest
      <4> QED
        BY ONLY <4>2, <4>4
    <3>5. WriteTo(acc, file)
            = Acc(b, (start + w) + Len(chunk), SubSeq(rest, Len(chunk) + 1, Len(rest)), broken, i,
                  d, w + Len(chunk), ok)
      <4>1. Stores(next, d, Len(chunk), WriteTo(acc, file))
        BY <3>2 DEF Stores
      <4> QED
        BY <1>13, <4>1, AccStores
    <3> QED
      BY <1>2, <1>11, <3>3, <3>4, <3>5 DEF WriteState, Edge, Rest
  <2> QED
    BY <2>14, <2>15, <2>16 DEF WritesOn
<1> QED
  BY <1>8, <1>9, <1>10

\* writeBlock() ends in such a state, after all files.
LEMMA WriteIsRight ==
  ASSUME NEW disk, NEW z, Fits(disk, z), NEW data \in Seq(Nat), NEW p, NEW offset, NEW broken,
         StartOf(p, offset) \in Nat
  PROVE  WritesOn(disk, z, data, StartOf(p, offset), broken, Len(z),
                  writeBlock(disk, p, offset, data, broken))
<1>1. PICK start \in Nat : start = StartOf(p, offset)
  OBVIOUS
<1>2. PICK n \in Nat : n = Len(z) /\ n = Len(disk)
  BY DEF Fits
<1> DEFINE State(i, u) == WriteState(z, data, start, broken, i, u)
           good == [i \in 0..n |-> {State(i, u) : u \in {u \in Writings : WriteSoFar(disk, z, data, start, i, u)}}]
           all == UNION {good[i] : i \in 0..n}
           a == [currentIndex |-> 0, start |-> StartOf(p, offset), data |-> data,
                 broken |-> broken, done |-> 0, disk |-> <<>>, written |-> 0, ok |-> TRUE]
           step == [x \in all \X (1..n) |-> WriteTo(x[1], disk[x[2]])]
           Walk(w) == w = [i \in 0..n |-> IF i = 0 THEN a ELSE WriteTo(w[i-1], disk[i])]
<1>3. ASSUME NEW i \in 0..n, NEW x PROVE x \in good[i] <=> WritesOn(disk, z, data, start, broken, i, x)
  BY DEF WritesOn
<1>4. a \in good[0]
  <2> DEFINE t == [written |-> 0, disk |-> <<>>, ok |-> TRUE]
  <2>1. z \in Seq(Nat) /\ EndsOf(z)[0] = 0
    <3>1. z \in Seq(Nat)
      BY DEF Fits
    <3> QED
      BY <3>1, EndsOfSum
  <2>2. Rest(data, 0) = data
    <3>1. IsRest(Rest(data, 0), data, 0)
      BY RestBytes
    <3> DEFINE rest == Rest(data, 0)
    <3>2. rest \in Seq(Nat) /\ Len(rest) = Len(data) /\ \A k \in 1..Len(data) : rest[k] = data[k]
      BY <3>1 DEF IsRest
    <3> HIDE DEF rest
    <3>3. rest = data
      BY <3>2, SeqEqual
    <3> QED
      BY <3>3 DEF rest
  <2>3. t \in Writings
    BY DEF Writings
  <2>4. a = State(0, t)
    <3>1. start + 0 = start
      OBVIOUS
    <3> QED
      BY <1>1, <2>1, <2>2, <3>1 DEF WriteState, Acc
  <2>5. WriteSoFar(disk, z, data, start, 0, t)
    <3>1. FilesHold(<<>>, disk, z, data, start, 0, 0)
      BY DEF FilesHold
    <3> QED
      BY <2>1, <3>1 DEF WriteSoFar
  <2> HIDE DEF a, t
  <2>6. WritesOn(disk, z, data, start, broken, 0, a)
    BY <2>3, <2>4, <2>5 DEF WritesOn
  <2> HIDE DEF good
  <2> QED
    BY <1>2, <1>3, <2>6
<1>5. ASSUME NEW i \in 1..n, NEW x \in good[i-1]
      PROVE  WriteTo(x, disk[i]) \in good[i] /\ <<x, i>> \in all \X (1..n)
  <2>1. i - 1 \in 0..n /\ i \in 0..n /\ i \in 1..Len(z)
    BY <1>2
  <2>2. PICK u \in Writings : x = State(i - 1, u) /\ WriteSoFar(disk, z, data, start, i - 1, u)
    BY <2>1
  <2>3. PICK h : h = i - 1
    OBVIOUS
  <2>4. WritesOn(disk, z, data, start, broken, i, WriteTo(State(h, u), disk[i]))
    BY <2>1, <2>2, <2>3, WriteStep
  <2>5. WriteTo(x, disk[i]) \in good[i]
    <3> HIDE DEF good
    <3> QED
      BY <1>3, <2>1, <2>2, <2>3, <2>4
  <2>6. x \in all
    BY <2>1
  <2> QED
    BY <2>5, <2>6
<1> HIDE DEF good, all
<1>6. ASSUME NEW i \in 1..n, NEW x \in good[i-1] PROVE step[<<x, i>>] = WriteTo(x, disk[i])
  BY <1>5
<1>7. Keeps(good, n, a, step)
  <2> HIDE DEF a, step
  <2> QED
    BY <1>4, <1>5, <1>6 DEF Keeps
<1>8. PICK f : f = [i \in 0..n |-> f[i]] /\ Runs(f, n, a, step) /\ \A i \in 0..n : f[i] \in good[i]
  <2> HIDE DEF a, step
  <2> QED
    BY <1>7, LoopRuns
<1>9. Walk(f)
  <2>1. f[0] = a /\ \A i \in 1..n : f[i] = WriteTo(f[i-1], disk[i])
    <3> HIDE DEF step, a
    <3> SUFFICES ASSUME NEW i \in 1..n PROVE f[i] = WriteTo(f[i-1], disk[i])
      BY <1>8 DEF Runs
    <3>1. i - 1 \in 0..n
      BY <1>2
    <3> QED
      BY <1>6, <1>8, <3>1 DEF Runs
  <2> HIDE DEF a
  <2>2. \A i \in 0..n : f[i] = IF i = 0 THEN a ELSE WriteTo(f[i-1], disk[i])
    BY <2>1
  <2> QED
    BY <1>8, <2>2
<1> DEFINE walk == CHOOSE w : Walk(w)
<1>10. Walk(walk)
  BY <1>9
<1>11. writeBlock(disk, p, offset, data, broken) = walk[n]
  BY <1>2 DEF writeBlock
<1> HIDE DEF walk
<1>12. walk[n] \in good[n]
  <2> HIDE DEF a, step
  <2>1. walk[0] = a /\ \A i \in 1..n : walk[i] = WriteTo(walk[i-1], disk[i])
    <3>1. 0 \in 0..n /\ \A i \in 1..n : i \in 0..n /\ i # 0
      BY <1>2
    <3> QED
      BY <1>10, <3>1
  <2>2. Follows(walk, good, n, a, step)
    BY <1>6, <2>1 DEF Follows
  <2>3. \A i \in 0..n : walk[i] \in good[i]
    BY <1>7, <2>2, LoopStaysGood
  <2> QED
    BY <2>3
<1>13. WritesOn(disk, z, data, start, broken, n, walk[n])
  BY <1>2, <1>3, <1>12
<1> QED
  BY <1>1, <1>2, <1>11, <1>13

\* What has been stored, with the first w bytes of the data put in behind start.
Stored(bytes, data, start, w) ==
  [k \in DOMAIN bytes |-> IF k \in start + 1 .. start + w THEN data[k - start] ELSE bytes[k]]

\* The files written in this way have their lengths, and are these bytes.
LEMMA WriteJoins ==
  ASSUME NEW disk, NEW z, Fits(disk, z), NEW bytes, Joins(bytes, disk, z),
         NEW data \in Seq(Nat), NEW start \in Nat, NEW t \in Writings,
         WriteSoFar(disk, z, data, start, Len(z), t)
  PROVE  /\ Fits(t.disk, z)
         /\ Joins(Stored(bytes, data, start, t.written), t.disk, z)
<1> DEFINE T == EndsOf(z)[Len(z)]
           w == t.written
           all == Stored(bytes, data, start, w)
<1>1. z \in Seq(Nat)
  BY DEF Fits
<1>2. w \in Nat /\ w <= Len(data) /\ FilesHold(t.disk, disk, z, data, start, w, Len(z))
  BY DEF WriteSoFar, Writings
<1>3. Fits(t.disk, z)
  BY <1>1, <1>2 DEF Fits, FilesHold, FileHolds
<1>4. bytes \in Seq(Nat) /\ Len(bytes) = T /\ T \in Nat
  BY DEF Joins, JoinsFirst
<1> HIDE DEF w
<1>5. all \in Seq(Nat) /\ Len(all) = T /\ \A k \in 1..T : all[k] = ByteAt(data, start, w, k, bytes[k])
  <2>1. DOMAIN bytes = 1..T
    BY <1>4
  <2>2. all = [k \in 1..T |-> ByteAt(data, start, w, k, bytes[k])]
    BY <2>1 DEF Stored, ByteAt
  <2>3. ASSUME NEW k \in 1..T PROVE ByteAt(data, start, w, k, bytes[k]) \in Nat
    <3>1. CASE k \in start + 1 .. start + w
      <4>1. k - start \in 1..Len(data)
        BY <1>2, <3>1
      <4> QED
        BY <3>1, <4>1 DEF ByteAt
    <3>2. CASE k \notin start + 1 .. start + w
      BY <1>4, <3>2 DEF ByteAt
    <3> QED
      BY <3>1, <3>2
  <2>4. all \in [1..T -> Nat]
    BY <2>2, <2>3
  <2> HIDE DEF all, T
  <2> QED
    BY <1>4, <2>2, <2>4
<1>6. ASSUME NEW i \in 1..Len(z), NEW k \in 1..z[i]
      PROVE  all[EndsOf(z)[i-1] + k] = t.disk[i][k]
  <2>1. i \in 0..Len(z) /\ i - 1 \in 0..Len(z) /\ Len(z) \in i..Len(z) /\ Len(z) \in 0..Len(z) /\ z[i] \in Nat
    BY <1>1
  <2>2. EndsOf(z)[i] <= T
    BY <1>1, <2>1, EndsGrow
  <2>3. EndsOf(z) \in [0..Len(z) -> Nat]
    BY <1>1, EndsOfSum
  <2>4. EndsOf(z)[i] = EndsOf(z)[i-1] + z[i]
    BY <1>1, EndsOfSum
  <2>5. PICK a \in Nat, b \in Nat, size \in Nat : a = EndsOf(z)[i-1] /\ b = EndsOf(z)[i] /\ size = z[i]
    BY <2>1, <2>3
  <2> HIDE DEF T
  <2>6. PICK x \in 1..T : x = a + k
    <3>1. k \in Nat /\ 1 <= k /\ k <= size /\ b = a + size /\ b <= T
      BY <2>2, <2>4, <2>5
    <3>2. T \in Nat /\ a \in Nat /\ size \in Nat
      BY <1>4, <2>5
    <3>3. a + k \in Nat /\ 1 <= a + k /\ a + k <= a + size
      BY <3>1, <3>2
    <3>4. a + k \in 1..T
      BY <3>1, <3>2, <3>3
    <3> QED
      BY <3>4
  <2>7. all[x] = ByteAt(data, start, w, x, bytes[x])
    BY <1>5
  <2>8. bytes[x] = disk[i][k]
    BY <2>5, <2>6 DEF Joins, JoinsFirst
  <2>9. t.disk[i][k] = ByteAt(data, start, w, x, disk[i][k])
    BY <1>2, <2>5, <2>6 DEF FilesHold, FileHolds
  <2> QED
    BY <2>5, <2>6, <2>7, <2>8, <2>9
<1>7. Joins(all, t.disk, z)
  BY <1>5, <1>6 DEF Joins, JoinsFirst
<1> QED
  BY <1>3, <1>7 DEF w

-----------------------------------------------------------------------------
(* Pieces and blocks are parts of the torrent. *)

LEMMA Product ==
  ASSUME NEW a \in Nat, NEW b \in Nat
  PROVE  a * b \in Nat
OBVIOUS

Divides(a, b, q, r) == a \div b = q /\ a % b = r /\ a = b * q + r /\ r < b

LEMMA DivMod ==
  ASSUME NEW a \in Nat, NEW b \in Nat, b > 0
  PROVE  \E q \in Nat, r \in Nat : Divides(a, b, q, r)
<1>1. PICK q \in Int, r \in Nat : Divides(a, b, q, r)
  BY DEF Divides
<1>2. q \in Nat
  <2> SUFFICES ASSUME q < 0 PROVE FALSE
    BY <1>1
  <2>1. PICK c \in Nat : q = - c - 1
    <3>1. 0 - q - 1 \in Nat /\ q = - (0 - q - 1) - 1
      BY <1>1
    <3> QED
      BY <3>1
  <2>2. b * q = - (b * c) - b
    BY <2>1
  <2>3. PICK m \in Nat : m = b * c
    BY Product
  <2> QED
    BY <1>1, <2>2, <2>3 DEF Divides
<1> QED
  BY <1>1, <1>2

\* No number has two quotients.
LEMMA DivModOnce ==
  ASSUME NEW b \in Nat, NEW q \in Nat, NEW r \in Nat, r < b, NEW s \in Nat, NEW t \in Nat, t < b,
         b * q + r = b * s + t
  PROVE  q = s /\ r = t
<1>1. ASSUME NEW x \in Nat, NEW y \in Nat, NEW u \in Nat, NEW v \in Nat, u < b, v < b,
             b * x + u = b * y + v, x < y
      PROVE  FALSE
  <2>1. PICK d \in Nat : y = x + 1 + d
    <3>1. y - x - 1 \in Nat /\ y = x + 1 + (y - x - 1)
      BY <1>1
    <3> QED
      BY <3>1
  <2>2. PICK m \in Nat : m = b * d
    BY Product
  <2>3. b * y = b * x + b + m
    BY <2>1, <2>2
  <2>4. PICK l \in Nat : l = b * x
    BY Product
  <2> QED
    BY <1>1, <2>3, <2>4
<1>2. q = s
  BY <1>1
<1> QED
  BY <1>2

\* The pieces of l bytes begin inside of the T bytes ...
LEMMA PieceInside ==
  ASSUME NEW T \in Nat, NEW l \in Nat, l > 0, T > 0, NEW n, n = (T + l - 1) \div l,
         NEW p \in Nat, p < n
  PROVE  p * l < T
OBVIOUS

\* ... and end there, the last one with their end unless they are divided without rest.
PieceEnds(T, l, n, p, s) ==
  /\ s \in Nat /\ s <= l /\ p * l + s <= T
  /\ n = p + 1 /\ T % l # 0 => p * l + s = T

LEMMA PieceEndsInside ==
  ASSUME NEW T \in Nat, NEW l \in Nat, l > 0, T > 0, NEW n, n = (T + l - 1) \div l,
         NEW p \in Nat, p < n, NEW s, s = IF n = p + 1 THEN T % l ELSE l
  PROVE  PieceEnds(T, l, n, p, s)
<1>1. PICK q \in Nat, r \in Nat : Divides(T, l, q, r)
  BY DivMod
<1>2. PICK m \in Nat, e \in Nat : Divides(T + l - 1, l, m, e) /\ m = n
  <2>1. PICK a \in Nat : a = T + l - 1
    OBVIOUS
  <2>2. PICK m \in Nat, e \in Nat : Divides(a, l, m, e)
    BY DivMod
  <2> QED
    BY <2>1, <2>2 DEF Divides
<1>3. T = l * q + r /\ T % l = r /\ r < l
  BY <1>1 DEF Divides
<1>4. CASE n = p + 1 /\ r = 0
  <2>1. p * l < T
    BY PieceInside
  <2>2. s = 0
    BY <1>3, <1>4
  <2>3. PICK k \in Nat : k = p * l
    BY Product
  <2> QED
    BY <1>3, <1>4, <2>1, <2>2, <2>3 DEF PieceEnds
<1>5. CASE n = p + 1 /\ r > 0
  <2>1. m = q + 1
    <3>1. T + l - 1 = l * m + e /\ e < l
      BY <1>2 DEF Divides
    <3>2. T + l - 1 = l * (q + 1) + (r - 1)
      BY <1>3
    <3>3. PICK c \in Nat, d \in Nat : c = q + 1 /\ d = r - 1
      BY <1>5
    <3>4. l * m + e = l * c + d /\ d < l
      BY <1>3, <3>1, <3>2, <3>3
    <3> QED
      BY <3>1, <3>3, <3>4, DivModOnce
  <2>2. p = q /\ s = r
    BY <1>2, <1>3, <1>5, <2>1
  <2>3. p * l + s = T
    BY <1>3, <2>2
  <2> QED
    BY <1>3, <2>2, <2>3 DEF PieceEnds
<1>6. CASE n # p + 1
  <2>1. PICK c \in Nat : c = p + 1 /\ c < n
    BY <1>2, <1>6
  <2>2. c * l < T
    BY <2>1, PieceInside
  <2>3. c * l = p * l + l
    BY <2>1
  <2>4. PICK k \in Nat : k = p * l
    BY Product
  <2> QED
    BY <1>6, <2>2, <2>3, <2>4 DEF PieceEnds
<1> QED
  BY <1>3, <1>4, <1>5, <1>6

\* A piece of s bytes is cut into count blocks, of b bytes or of what is left; the i-th
\* is d bytes long.
BlockEnds(s, b, i, d) == d \in Nat /\ d > 0 /\ d <= b /\ i * b + d <= s

LEMMA BlockInside ==
  ASSUME NEW s \in Nat, NEW b \in Nat, b > 0,
         NEW count, count = s \div b + (IF s % b # 0 THEN 1 ELSE 0),
         NEW i \in Nat, i < count, NEW d, d = IF s % b # 0 /\ i = count - 1 THEN s % b ELSE b
  PROVE  BlockEnds(s, b, i, d)
<1>1. PICK q \in Nat, r \in Nat : Divides(s, b, q, r)
  BY DivMod
<1>2. s = b * q + r /\ s % b = r /\ s \div b = q /\ r < b
  BY <1>1 DEF Divides
<1>3. CASE r # 0 /\ i = q
  <2>1. d = r
    BY <1>2, <1>3
  <2>2. i * b + d = s
    BY <1>2, <1>3, <2>1
  <2> QED
    BY <1>2, <1>3, <2>1, <2>2 DEF BlockEnds
<1>4. CASE i < q
  <2>1. d = b
    BY <1>2, <1>4
  <2>2. PICK k \in Nat : q = i + 1 + k
    <3>1. q - i - 1 \in Nat /\ q = i + 1 + (q - i - 1)
      BY <1>4
    <3> QED
      BY <3>1
  <2>3. PICK x \in Nat, y \in Nat : x = i * b /\ y = b * k
    BY Product
  <2>4. b * q = x + b + y
    BY <2>2, <2>3
  <2>5. i * b + d <= s
    BY <1>2, <2>1, <2>3, <2>4
  <2> QED
    BY <2>1, <2>5 DEF BlockEnds
<1>5. i < q \/ (r # 0 /\ i = q)
  BY <1>2
<1> QED
  BY <1>3, <1>4, <1>5

\* And the byte o of the piece lies in one of them.
HoldsByte(s, b, count, i, o) ==
  i < count /\ i * b <= o /\ o < i * b + (IF s % b # 0 /\ i = count - 1 THEN s % b ELSE b)

LEMMA ByteHasBlock ==
  ASSUME NEW s \in Nat, NEW b \in Nat, b > 0,
         NEW count, count = s \div b + (IF s % b # 0 THEN 1 ELSE 0),
         NEW o \in Nat, o < s
  PROVE  \E i \in Nat : HoldsByte(s, b, count, i, o)
<1>1. PICK q \in Nat, r \in Nat : Divides(s, b, q, r)
  BY DivMod
<1>2. PICK i \in Nat, e \in Nat : Divides(o, b, i, e)
  BY DivMod
<1>3. s = b * q + r /\ s % b = r /\ s \div b = q /\ r < b
  BY <1>1 DEF Divides
<1>4. o = b * i + e /\ e < b
  BY <1>2 DEF Divides
<1>5. i <= q
  <2> SUFFICES ASSUME i > q PROVE FALSE
    BY <1>1
  <2>1. PICK k \in Nat : i = q + 1 + k
    <3>1. i - q - 1 \in Nat /\ i = q + 1 + (i - q - 1)
      BY <1>1
    <3> QED
      BY <3>1
  <2>2. PICK x \in Nat, y \in Nat : x = b * q /\ y = b * k
    BY Product
  <2>3. b * i = x + b + y
    BY <2>1, <2>2
  <2> QED
    BY <1>3, <1>4, <2>2, <2>3
<1>6. PICK x \in Nat : x = b * i /\ x = i * b
  BY Product
<1>7. CASE i = q
  <2>1. s = x + r /\ e < r
    BY <1>3, <1>4, <1>6, <1>7
  <2>2. r # 0 /\ count = q + 1
    BY <1>3, <2>1
  <2> QED
    BY <1>3, <1>4, <1>6, <1>7, <2>1, <2>2 DEF HoldsByte
<1>8. CASE i < q
  <2>1. i < count /\ ~ (s % b # 0 /\ i = count - 1)
    BY <1>3, <1>8
  <2>2. o = x + e
    BY <1>4, <1>6
  <2>3. x <= o /\ o < x + b
    BY <1>4, <2>2
  <2> QED
    BY <1>6, <2>1, <2>3 DEF HoldsByte
<1> QED
  BY <1>5, <1>7, <1>8

-----------------------------------------------------------------------------
(* The invariant. *)

\* What MetaInfo::parse() made of the file, and the files it names.
MetaInfoType ==
  /\ lengths \in Seq(Nat) /\ pieceLength \in Nat /\ numPieces \in Nat
  /\ files \in Seq(Seq(Nat)) /\ Len(files) = Len(lengths)

\* Before a torrent runs, and after it was stopped, nothing counts as verified.
NothingVerified == phase \in {"new", "refused", "parsed", "unmade"} => verified = {}

\* While something may be verified, the files have their lengths, and what was stored is
\* what they hold.
Laid ==
  (phase \in {"running", "error"} \/ verified # {}) =>
    Consistent /\ Fits(files, lengths) /\ Joins(image, files, lengths)

Layout ==
  /\ MetaInfoType
  /\ phase \in {"new", "refused", "parsed", "unmade", "running", "error"}
  /\ verified \subseteq Pieces
  /\ NothingVerified
  /\ Laid
  /\ VerifiedIsTrue

LEMMA TotalIsNat ==
  ASSUME MetaInfoType
  PROVE  totalLength \in Nat /\ totalLength = EndsOf(lengths)[Len(lengths)]
<1>1. lengths \in Seq(Nat)
  BY DEF MetaInfoType
<1>2. EndsOf(lengths) \in [0..Len(lengths) -> Nat] /\ Len(lengths) \in 0..Len(lengths)
  <2> DEFINE z == lengths
  <2>1. Len(z) \in Nat
    BY <1>1
  <2>2. EndsOf(z) \in [0..Len(z) -> Nat]
    BY <1>1, EndsOfSum
  <2> QED
    BY <2>1, <2>2
<1> QED
  BY <1>2 DEF totalLength

\* Where a piece lies.
PieceLies(p, from, size) ==
  /\ StartOf(p, 0) = from /\ from < totalLength /\ from = p * pieceLength
  /\ pieceLengthAt(p) = size /\ size <= pieceLength /\ from + size <= totalLength
  /\ numPieces = p + 1 /\ totalLength % pieceLength # 0 => from + size = totalLength

LEMMA PieceHasPlace ==
  ASSUME MetaInfoType, Consistent, NEW p \in Pieces
  PROVE  /\ p \in Nat
         /\ \E from \in Nat, size \in Nat : PieceLies(p, from, size)
<1>1. PICK T \in Nat, l \in Nat, n \in Nat : T = totalLength /\ l = pieceLength /\ n = numPieces
  BY TotalIsNat DEF MetaInfoType
<1>2. T > 0 /\ l > 0 /\ n = (T + l - 1) \div l
  BY <1>1 DEF Consistent
<1>3. p \in Nat /\ p < n
  BY <1>1 DEF Pieces
<1>4. PICK s : s = IF n = p + 1 THEN T % l ELSE l
  OBVIOUS
<1>5. PieceEnds(T, l, n, p, s)
  BY <1>2, <1>3, <1>4, PieceEndsInside
<1>6. p * l < T
  BY <1>2, <1>3, PieceInside
<1>7. PICK from \in Nat : from = p * l
  BY <1>3, Product
<1>8. StartOf(p, 0) = from
  BY <1>1, <1>7 DEF StartOf
<1>9. pieceLengthAt(p) = s
  BY <1>1, <1>4 DEF pieceLengthAt
<1>10. PieceLies(p, from, s) /\ s \in Nat
  BY <1>1, <1>5, <1>6, <1>7, <1>8, <1>9 DEF PieceEnds, PieceLies
<1> QED
  BY <1>3, <1>10

\* Where a block lies: inside of its piece.
BlockLies(p, b, start, d) ==
  /\ StartOf(p, b * BlockSize) = start /\ BlockLength(p, b) = d /\ d > 0 /\ d <= BlockSize
  /\ StartOf(p, b * BlockSize) = StartOf(p, 0) + b * BlockSize
  /\ start >= StartOf(p, 0) /\ start + d <= StartOf(p, 0) + pieceLengthAt(p)

LEMMA BlockHasPlace ==
  ASSUME MetaInfoType, Consistent, NEW p \in Pieces, NEW b \in 0 .. NumBlocks(p) - 1
  PROVE  \E start \in Nat, d \in Nat : BlockLies(p, b, start, d)
<1>1. PICK from \in Nat, size \in Nat : PieceLies(p, from, size)
  BY PieceHasPlace
<1>2. /\ StartOf(p, 0) = from /\ from = p * pieceLength /\ pieceLengthAt(p) = size
  BY <1>1 DEF PieceLies
<1>3. PICK B \in Nat : B = BlockSize /\ B > 0
  BY BlockSizeAssumption
<1>4. PICK count : count = size \div B + (IF size % B # 0 THEN 1 ELSE 0) /\ count = NumBlocks(p)
  BY <1>2, <1>3 DEF NumBlocks
<1>5. b \in Nat /\ b < count
  <2>1. count \in Int
    <3>1. PICK q \in Nat, r \in Nat : Divides(size, B, q, r)
      BY <1>3, DivMod
    <3> QED
      BY <1>4, <3>1 DEF Divides
  <2> QED
    BY <1>4, <2>1
<1>6. PICK d : d = IF size % B # 0 /\ b = count - 1 THEN size % B ELSE B
  OBVIOUS
<1>7. BlockEnds(size, B, b, d)
  BY <1>3, <1>4, <1>5, <1>6, BlockInside
<1>8. BlockLength(p, b) = d
  BY <1>2, <1>3, <1>4, <1>6 DEF BlockLength
<1>9. PICK x \in Nat : x = b * B
  BY <1>3, <1>5, Product
<1>10. StartOf(p, b * BlockSize) = from + x
  BY <1>2, <1>3, <1>9 DEF StartOf
<1>11. d \in Nat /\ d > 0 /\ d <= B /\ x + d <= size
  BY <1>7, <1>9 DEF BlockEnds
<1>12. PICK start \in Nat : start = from + x
  OBVIOUS
<1>13. start >= from /\ start + d <= from + size
  BY <1>11, <1>12
<1>14. BlockLies(p, b, start, d)
  BY <1>2, <1>3, <1>8, <1>9, <1>10, <1>11, <1>12, <1>13 DEF BlockLies
<1> QED
  BY <1>11, <1>14

\* The bytes of the torrent are as many as those that are stored.
LEMMA TruthBytes ==
  ASSUME totalLength \in Nat
  PROVE  Truth \in Seq(Nat) /\ Len(Truth) = totalLength
<1>1. PICK T \in Nat : T = totalLength
  OBVIOUS
<1>2. [k \in 1..T |-> k] \in Seq(Nat) /\ Len([k \in 1..T |-> k]) = T
  OBVIOUS
<1> QED
  BY <1>1, <1>2 DEF Truth

\* A piece on the disk is read as what is stored of it.
LEMMA PieceIsRead ==
  ASSUME MetaInfoType, Consistent, NEW disk, Fits(disk, lengths),
         NEW bytes, Joins(bytes, disk, lengths), NEW p \in Pieces
  PROVE  readBlock(disk, p, 0, pieceLength) = Slice(bytes, StartOf(p, 0), pieceLength)
<1>1. PICK from \in Nat, size \in Nat : PieceLies(p, from, size)
  BY PieceHasPlace
<1>2. StartOf(p, 0) \in Nat /\ StartOf(p, 0) < EndsOf(lengths)[Len(lengths)]
  BY <1>1, TotalIsNat DEF PieceLies
<1>3. pieceLength \in Nat
  BY DEF MetaInfoType
<1> QED
  BY <1>2, <1>3, ReadIsRight

\* Two pieces have no byte in common.
LEMMA PiecesApart ==
  ASSUME NEW p \in Nat, NEW q \in Nat, q < p, NEW l \in Nat
  PROVE  q * l + l <= p * l
<1>1. PICK k \in Nat : p = q + 1 + k
  <2>1. p - q - 1 \in Nat /\ p = q + 1 + (p - q - 1)
    OBVIOUS
  <2> QED
    BY <2>1
<1>2. PICK x \in Nat, y \in Nat : x = k * l /\ y = q * l
  BY Product
<1>3. p * l = y + l + x
  BY <1>1, <1>2
<1> QED
  BY <1>2, <1>3

\* The bytes have the piece as the torrent has it.
PieceIsTrue(bytes, p) ==
  Slice(bytes, StartOf(p, 0), pieceLength) = Slice(Truth, StartOf(p, 0), pieceLength)

\* It stays so when bytes for another piece are stored that are behind it, or end before it.
LEMMA OtherPieceStays ==
  ASSUME MetaInfoType, Consistent, NEW bytes \in Seq(Nat), Len(bytes) = totalLength,
         NEW p \in Pieces, NEW offset \in Nat, NEW start \in Nat, start = StartOf(p, offset),
         NEW data \in Seq(Nat), NEW w \in Nat,
         NEW all \in Seq(Nat), all = Stored(bytes, data, start, w), Len(all) = totalLength,
         NEW q \in Pieces, q # p, q > p => start + w <= StartOf(q, 0), PieceIsTrue(bytes, q)
  PROVE  PieceIsTrue(all, q)
<1>1. PICK fp \in Nat, sp \in Nat : PieceLies(p, fp, sp)
  BY PieceHasPlace
<1>2. PICK fq \in Nat, sq \in Nat : PieceLies(q, fq, sq)
  BY PieceHasPlace
<1>3. PICK l \in Nat, T \in Nat : l = pieceLength /\ T = totalLength
  BY TotalIsNat DEF MetaInfoType
<1>4. /\ StartOf(p, 0) = fp /\ fp = p * l
      /\ StartOf(q, 0) = fq /\ fq = q * l /\ fq < T
  BY <1>1, <1>2, <1>3 DEF PieceLies
<1>5. p \in Nat /\ q \in Nat
  BY DEF Pieces
<1>6. start >= fp
  <2>1. start = fp + offset
    BY <1>3, <1>4 DEF StartOf
  <2> QED
    BY <2>1
<1>7. PICK e \in Nat : SliceHas(bytes, fq, l, e)
  <2>1. fq <= Len(bytes)
    BY <1>3, <1>4
  <2> QED
    BY <2>1, SliceIsPart
<1>8. PICK h \in Nat : SliceHas(all, fq, l, h)
  <2>1. fq <= Len(all)
    BY <1>3, <1>4
  <2> QED
    BY <2>1, SliceIsPart
<1>9. e = h /\ e <= l /\ fq + e <= T
  <2>1. e = IF fq + l <= T THEN l ELSE T - fq
    BY <1>3, <1>7 DEF SliceHas
  <2>2. h = IF fq + l <= T THEN l ELSE T - fq
    BY <1>3, <1>8 DEF SliceHas
  <2> QED
    BY SMTT(30), <1>4, <2>1, <2>2
<1>10. ASSUME NEW k \in 1..e PROVE all[fq + k] = bytes[fq + k]
  <2>1. PICK x \in Nat : x = fq + k /\ x \in 1..T /\ fq < x /\ x <= fq + l
    BY <1>9
  <2>2. x \notin start + 1 .. start + w
    <3>1. CASE q < p
      <4>1. fq + l <= fp
        BY <1>4, <1>5, <3>1, PiecesApart
      <4> QED
        BY <1>6, <2>1, <4>1
    <3>2. CASE p < q
      <4>1. start + w <= fq
        BY <1>4, <1>5, <3>2
      <4>2. start + w < x
        BY <2>1, <4>1
      <4> QED
        BY <4>2
    <3> QED
      BY <1>5, <3>1, <3>2
  <2>3. x \in DOMAIN bytes
    BY <1>3, <2>1
  <2> QED
    BY <2>1, <2>2, <2>3 DEF Stored
<1>11. Part(all, fq, e) = Part(bytes, fq, e)
  <2> DEFINE one == Part(all, fq, e)
             two == Part(bytes, fq, e)
  <2>1. IsPart(one, all, fq, e) /\ IsPart(two, bytes, fq, e)
    BY <1>3, <1>9, PartBytes
  <2> HIDE DEF one, two
  <2>2. one = two
    BY <1>10, <2>1, SeqEqual DEF IsPart
  <2> QED
    BY <2>2 DEF one, two
<1>12. Slice(all, fq, l) = Slice(bytes, fq, l)
  BY <1>7, <1>8, <1>9, <1>11 DEF SliceHas
<1> QED
  BY <1>3, <1>4, <1>12 DEF PieceIsTrue

\* A file that is resized keeps what fits into it.
LEMMA ResizedFile ==
  ASSUME NEW file \in Seq(Nat), NEW length \in Nat
  PROVE  Resize(file, length) \in Seq(Nat) /\ Len(Resize(file, length)) = length
<1>1. \A k \in 1..length : (IF k <= Len(file) THEN file[k] ELSE 0) \in Nat
  OBVIOUS
<1>2. Resize(file, length) \in [1..length -> Nat]
  BY <1>1 DEF Resize
<1> DEFINE new == Resize(file, length)
<1> HIDE DEF new
<1>3. new \in Seq(Nat) /\ Len(new) = length
  BY <1>2 DEF new
<1> QED
  BY <1>3 DEF new

-----------------------------------------------------------------------------
(* Every step keeps it. *)

\* When the torrent file stays, the next state is told by its files, its bytes and its pieces.
KeepsLayout ==
  /\ files' \in Seq(Seq(Nat)) /\ Len(files') = Len(lengths)
  /\ phase' \in {"new", "refused", "parsed", "unmade", "running", "error"}
  /\ verified' \subseteq Pieces
  /\ phase' \in {"new", "refused", "parsed", "unmade"} => verified' = {}
  /\ phase' \in {"running", "error"} \/ verified' # {} =>
       Consistent /\ Fits(files', lengths) /\ Joins(image', files', lengths)
  /\ \A p \in verified' \ overrun' : PieceIsTrue(image', p)

LEMMA LayoutKept ==
  ASSUME MetaInfoType, metaInfo' = metaInfo, KeepsLayout
  PROVE  Layout'
<1>1. lengths' = lengths /\ pieceLength' = pieceLength /\ numPieces' = numPieces
  BY DEF lengths, pieceLength, numPieces
<1>2. totalLength' = totalLength
  BY <1>1 DEF totalLength
<1>3. Consistent' = Consistent /\ Pieces' = Pieces /\ Truth' = Truth
  BY <1>1, <1>2 DEF Consistent, Pieces, Truth
<1>4. \A p : StartOf(p, 0)' = StartOf(p, 0)
  BY <1>1 DEF StartOf
<1>5. MetaInfoType'
  BY <1>1 DEF MetaInfoType, KeepsLayout
<1>6. Laid' /\ NothingVerified' /\ verified' \subseteq Pieces'
  BY <1>1, <1>3 DEF Laid, NothingVerified, KeepsLayout
<1>7. VerifiedIsTrue'
  BY <1>1, <1>3, <1>4 DEF VerifiedIsTrue, KeepsLayout, PieceIsTrue
<1> QED
  BY <1>5, <1>6, <1>7 DEF Layout, KeepsLayout

\* The bytes of a whole torrent.
LEMMA JoinedBytes ==
  ASSUME MetaInfoType, NEW bytes, NEW disk, Joins(bytes, disk, lengths)
  PROVE  bytes \in Seq(Nat) /\ Len(bytes) = totalLength
BY TotalIsNat DEF Joins, JoinsFirst

LEMMA LayoutInit == Init => Layout
<1> SUFFICES ASSUME Init PROVE Layout
  OBVIOUS
<1>1. MetaInfoType
  BY ContentsAssumption DEF Init, MetaInfoType, lengths, pieceLength, numPieces
<1>2. NothingVerified /\ Laid /\ VerifiedIsTrue
  BY DEF Init, NothingVerified, Laid, VerifiedIsTrue
<1> QED
  BY <1>1, <1>2 DEF Init, Layout

LEMMA SetTorrentKeeps ==
  ASSUME Layout, NEW c \in Documents, SetTorrent(c)
  PROVE  Layout'
<1>1. metaInfo' = Contents(c) /\ verified' = {} /\ phase' \in {"parsed", "refused"}
  BY DEF SetTorrent, Layout, NothingVerified
<1>2. lengths' \in Seq(Nat) /\ pieceLength' \in Nat /\ numPieces' \in Nat
  BY <1>1, ContentsAssumption DEF lengths, pieceLength, numPieces
<1>3. files' \in Seq(Seq(Nat)) /\ Len(files') = Len(lengths')
  <2>1. files' = [i \in DOMAIN lengths' |-> <<>>]
    BY DEF SetTorrent, lengths
  <2>2. PICK z \in Seq(Nat) : z = lengths'
    BY <1>2
  <2>3. files' = [i \in 1..Len(z) |-> <<>>]
    BY <2>1, <2>2
  <2> QED
    BY <2>2, <2>3
<1>4. MetaInfoType'
  BY <1>2, <1>3 DEF MetaInfoType
<1>5. NothingVerified' /\ Laid' /\ VerifiedIsTrue'
  BY <1>1 DEF NothingVerified, Laid, VerifiedIsTrue
<1> QED
  BY <1>1, <1>4, <1>5 DEF Layout

LEMMA GenerateFilesKeeps ==
  ASSUME Layout, NEW n \in 0 .. Len(lengths), GenerateFiles(n)
  PROVE  Layout'
<1>1. MetaInfoType /\ Consistent /\ metaInfo' = metaInfo /\ verified = {}
  BY DEF GenerateFiles, Layout, NothingVerified
<1>2. PICK z \in Seq(Nat) : z = lengths
  BY <1>1 DEF MetaInfoType
<1>3. PICK old \in Seq(Seq(Nat)) : old = files /\ Len(old) = Len(z)
  BY <1>1, <1>2 DEF MetaInfoType
<1>4. PICK disk : disk = files'
  OBVIOUS
<1>5. disk = [i \in 1..Len(z) |-> IF i <= n THEN Resize(old[i], z[i]) ELSE old[i]]
  BY <1>2, <1>3, <1>4 DEF GenerateFiles
<1>6. ASSUME NEW i \in 1..Len(z)
      PROVE  /\ Resize(old[i], z[i]) \in Seq(Nat) /\ Len(Resize(old[i], z[i])) = z[i]
             /\ old[i] \in Seq(Nat)
  <2>1. old[i] \in Seq(Nat) /\ z[i] \in Nat
    BY <1>3
  <2> QED
    BY <2>1, ResizedFile
<1>7. disk \in Seq(Seq(Nat)) /\ Len(disk) = Len(z)
  <2>1. \A i \in 1..Len(z) : disk[i] \in Seq(Nat)
    BY <1>5, <1>6
  <2>2. PICK m \in Nat : m = Len(z)
    OBVIOUS
  <2>3. disk \in [1..m -> Seq(Nat)]
    BY <1>5, <2>1, <2>2
  <2>4. disk \in Seq(Seq(Nat))
    BY <2>3
  <2>5. DOMAIN disk = 1..m
    BY <2>3
  <2> QED
    BY <2>2, <2>4, <2>5, LenProperties
<1>8. CASE n = Len(lengths)
  <2>1. Fits(disk, lengths)
    <3>1. \A i \in 1..Len(z) : Len(disk[i]) = z[i]
      <4> SUFFICES ASSUME NEW i \in 1..Len(z) PROVE Len(disk[i]) = z[i]
        OBVIOUS
      <4>1. i <= n
        BY <1>2, <1>8
      <4> QED
        BY <1>5, <1>6, <4>1
    <3> QED
      BY <1>2, <1>7, <3>1 DEF Fits
  <2>2. Joins(image', disk, lengths)
    <3>1. image' = FlattenSeq(disk)
      BY <1>4 DEF GenerateFiles
    <3> QED
      BY <2>1, <3>1, FlattenJoins
  <2>3. ASSUME NEW p \in verified' PROVE p \in Pieces /\ PieceIsTrue(image', p)
    <3>1. p \in Pieces /\ ShaMatches(disk, p)
      BY <1>4, <1>8 DEF GenerateFiles
    <3>2. readBlock(disk, p, 0, pieceLength) = Slice(image', StartOf(p, 0), pieceLength)
      BY <1>1, <2>1, <2>2, <3>1, PieceIsRead
    <3> QED
      BY <3>1, <3>2 DEF ShaMatches, PieceIsTrue
  <2>4. phase' = "running"
    BY <1>8 DEF GenerateFiles
  <2>5. KeepsLayout
    BY <1>1, <1>2, <1>4, <1>7, <2>1, <2>2, <2>3, <2>4 DEF KeepsLayout
  <2> QED
    BY <1>1, <2>5, LayoutKept
<1>9. CASE n # Len(lengths)
  <2>1. phase' = "unmade" /\ verified' = {}
    BY <1>9 DEF GenerateFiles
  <2>2. KeepsLayout
    BY <1>2, <1>4, <1>7, <2>1 DEF KeepsLayout
  <2> QED
    BY <1>1, <2>2, LayoutKept
<1> QED
  BY <1>8, <1>9

LEMMA BlockArrivesKeeps ==
  ASSUME Layout, NEW p \in Pieces, NEW offset \in 0 .. pieceLength - 1,
         NEW n \in 1 .. MaxMessage, NEW right \in BOOLEAN,
         NEW broken, BlockArrives(p, offset, n, right, broken)
  PROVE  Layout'
<1>1. /\ MetaInfoType /\ metaInfo' = metaInfo /\ verified' = verified /\ p \notin verified
      /\ Consistent /\ Fits(files, lengths) /\ Joins(image, files, lengths)
      /\ verified \subseteq Pieces
  BY DEF BlockArrives, Layout, Laid
<1>2. offset \in Nat /\ n \in Nat
  BY <1>1, MessageAssumption DEF MetaInfoType
<1>3. PICK start \in Nat : start = StartOf(p, offset)
  <2>1. PICK from \in Nat, size \in Nat : PieceLies(p, from, size)
    BY <1>1, PieceHasPlace
  <2>2. StartOf(p, offset) = from + offset
    BY <2>1 DEF PieceLies, StartOf
  <2> QED
    BY <1>2, <2>2
<1>7. PICK data \in Seq(Nat) : data = [k \in 1 .. n |-> IF right THEN start + k ELSE 0] /\ Len(data) = n
  <2>1. \A k \in 1 .. n : (IF right THEN start + k ELSE 0) \in Nat
    OBVIOUS
  <2> DEFINE sent == [k \in 1 .. n |-> IF right THEN start + k ELSE 0]
  <2>2. sent \in [1 .. n -> Nat]
    BY <2>1
  <2> HIDE DEF sent
  <2>3. sent \in Seq(Nat) /\ Len(sent) = n
    BY <1>2, <2>2, LenProperties
  <2> QED
    BY <2>3 DEF sent
<1>8. PICK result : result = writeBlock(files, p, offset, data, broken)
  OBVIOUS
<1>9. /\ files' = result.disk
      /\ image' = Stored(image, data, start, result.written)
      /\ phase' \in {"running", "error"}
      /\ overrun' = overrun \cup {q \in verified : q > p /\ StartOf(q, 0) < start + n}
  BY <1>3, <1>7, <1>8 DEF BlockArrives, Stored
<1>10. PICK t \in Writings : /\ WriteSoFar(files, lengths, data, start, Len(lengths), t)
                             /\ result.disk = t.disk /\ result.written = t.written
  <2>1. WritesOn(files, lengths, data, start, broken, Len(lengths), result)
    BY <1>1, <1>3, <1>8, WriteIsRight
  <2> QED
    BY <2>1 DEF WritesOn, WriteState, Acc
<1>11. Fits(files', lengths) /\ Joins(image', files', lengths)
  BY <1>1, <1>9, <1>10, WriteJoins
<1>12. t.written \in Nat /\ t.written <= n
  BY <1>7, <1>10 DEF WriteSoFar, Writings
<1>13. ASSUME NEW q \in verified \ overrun' PROVE PieceIsTrue(image', q)
  <2>1. q \in Pieces /\ q # p
    BY <1>1
  <2>2. q \notin overrun /\ (q > p => ~(StartOf(q, 0) < start + n))
    BY <1>9
  <2>3. PieceIsTrue(image, q)
    BY <2>2 DEF Layout, VerifiedIsTrue, PieceIsTrue
  <2>4. image \in Seq(Nat) /\ Len(image) = totalLength /\ image' \in Seq(Nat) /\ Len(image') = totalLength
    BY <1>1, <1>11, JoinedBytes
  <2>5. image' = Stored(image, data, start, t.written)
    BY <1>9, <1>10
  <2>6. q > p => start + t.written <= StartOf(q, 0)
    <3>1. PICK from \in Nat, size \in Nat : PieceLies(q, from, size)
      BY <1>1, <2>1, PieceHasPlace
    <3>2. StartOf(q, 0) = from
      BY <3>1 DEF PieceLies
    <3>3. PICK w \in Nat : w = t.written /\ w <= n
      BY <1>12
    <3>4. q > p => ~(from < start + n)
      BY <2>2, <3>2
    <3>5. q > p => start + w <= from
      BY <1>2, <3>3, <3>4
    <3> QED
      BY <3>2, <3>3, <3>5
  <2> QED
    BY <1>1, <1>2, <1>3, <1>12, <2>1, <2>3, <2>4, <2>5, <2>6, OtherPieceStays
<1>14. KeepsLayout
  <2>1. files' \in Seq(Seq(Nat)) /\ Len(files') = Len(lengths)
    BY <1>11 DEF Fits
  <2> QED
    BY <1>1, <1>9, <1>11, <1>13, <2>1 DEF KeepsLayout
<1> QED
  BY <1>1, <1>14, LayoutKept

LEMMA ResumeKeeps ==
  ASSUME Layout, Resume
  PROVE  Layout'
<1>1. /\ MetaInfoType /\ metaInfo' = metaInfo /\ files' = files /\ image' = image
      /\ verified' = verified /\ overrun' = overrun /\ phase' = "running"
      /\ Consistent /\ Fits(files, lengths) /\ Joins(image, files, lengths)
      /\ verified \subseteq Pieces /\ files \in Seq(Seq(Nat)) /\ Len(files) = Len(lengths)
  BY DEF Resume, Layout, Laid, MetaInfoType
<1>2. KeepsLayout
  BY <1>1 DEF KeepsLayout, Layout, VerifiedIsTrue, PieceIsTrue
<1> QED
  BY <1>1, <1>2, LayoutKept

LEMMA VerifyPieceKeeps ==
  ASSUME Layout, NEW p \in Pieces, VerifyPiece(p)
  PROVE  Layout'
<1>1. /\ MetaInfoType /\ metaInfo' = metaInfo /\ files' = files /\ image' = image
      /\ phase' \in {"running", "error"} /\ overrun' = overrun
      /\ Consistent /\ Fits(files, lengths) /\ Joins(image, files, lengths)
      /\ verified \subseteq Pieces /\ files \in Seq(Seq(Nat)) /\ Len(files) = Len(lengths)
  BY DEF VerifyPiece, Layout, Laid, MetaInfoType
<1>2. ASSUME NEW q \in verified'
      PROVE  q \in Pieces /\ (q \notin overrun => PieceIsTrue(image, q))
  <2>1. CASE q \in verified
    BY <1>1, <2>1 DEF Layout, VerifiedIsTrue, PieceIsTrue
  <2>2. CASE q \notin verified
    <3>1. q = p /\ ShaMatches(files, p)
      BY <2>2 DEF VerifyPiece
    <3>2. readBlock(files, p, 0, pieceLength) = Slice(image, StartOf(p, 0), pieceLength)
      BY <1>1, PieceIsRead
    <3> QED
      BY <3>1, <3>2 DEF ShaMatches, PieceIsTrue
  <2> QED
    BY <2>1, <2>2
<1>3. KeepsLayout
  BY <1>1, <1>2 DEF KeepsLayout
<1> QED
  BY <1>1, <1>3, LayoutKept

LEMMA StopKeeps ==
  ASSUME Layout, Stop
  PROVE  Layout'
<1>1. /\ MetaInfoType /\ metaInfo' = metaInfo /\ files' = files /\ verified' = {} /\ phase' = "parsed"
      /\ files \in Seq(Seq(Nat)) /\ Len(files) = Len(lengths)
  BY DEF Stop, Layout, MetaInfoType
<1>2. KeepsLayout
  BY <1>1 DEF KeepsLayout
<1> QED
  BY <1>1, <1>2, LayoutKept

LEMMA FileDeletedKeeps ==
  ASSUME Layout, NEW i \in DOMAIN files, FileDeleted(i)
  PROVE  Layout'
<1>1. /\ MetaInfoType /\ metaInfo' = metaInfo /\ verified' = {} /\ phase' = "parsed"
      /\ files \in Seq(Seq(Nat)) /\ Len(files) = Len(lengths)
  BY DEF FileDeleted, Layout, MetaInfoType, NothingVerified
<1>2. files' \in Seq(Seq(Nat)) /\ Len(files') = Len(files)
  <2>1. <<>> \in Seq(Nat) /\ files' = [files EXCEPT ![i] = <<>>]
    BY DEF FileDeleted
  <2> QED
    BY <1>1, <2>1, ExceptSeq
<1>3. KeepsLayout
  BY <1>1, <1>2 DEF KeepsLayout
<1> QED
  BY <1>1, <1>3, LayoutKept

LEMMA LayoutNext == Layout /\ [Next]_vars => Layout'
<1> SUFFICES ASSUME Layout, [Next]_vars PROVE Layout'
  OBVIOUS
<1>1. ASSUME NEW c \in Documents, SetTorrent(c) PROVE Layout'
  BY <1>1, SetTorrentKeeps
<1>2. ASSUME NEW n \in 0 .. Len(lengths), GenerateFiles(n) PROVE Layout'
  BY <1>2, GenerateFilesKeeps
<1>3. ASSUME NEW p \in Pieces, NEW offset \in 0 .. pieceLength - 1, NEW n \in 1 .. MaxMessage,
             NEW right \in BOOLEAN, NEW broken \in 0 .. Len(files),
             BlockArrives(p, offset, n, right, broken)
      PROVE  Layout'
  BY <1>3, BlockArrivesKeeps
<1>4. ASSUME NEW p \in Pieces, VerifyPiece(p) PROVE Layout'
  BY <1>4, VerifyPieceKeeps
<1>5. CASE Stop
  BY <1>5, StopKeeps
<1>6. ASSUME NEW i \in DOMAIN files, FileDeleted(i) PROVE Layout'
  BY <1>6, FileDeletedKeeps
<1>7. CASE UNCHANGED vars
  <2>1. /\ MetaInfoType /\ metaInfo' = metaInfo /\ files' = files /\ image' = image
        /\ phase' = phase /\ verified' = verified /\ overrun' = overrun
    BY <1>7 DEF vars, Layout
  <2>2. KeepsLayout
    BY <2>1 DEF KeepsLayout, Layout, MetaInfoType, NothingVerified, Laid, VerifiedIsTrue, PieceIsTrue
  <2> QED
    BY <2>1, <2>2, LayoutKept
<1> QED
  BY <1>1, <1>2, <1>3, <1>4, <1>5, <1>6, <1>7, ResumeKeeps DEF Next

\* In every state the files lie as the torrent says, whatever blocks have been written and
\* wherever a write broke off; and the verified pieces are true that no block for an earlier
\* piece has run over into (FileManager::writeBlock(), TorrentClient::blockReceived()).
THEOREM LayoutHolds == Spec => []Layout
<1> QED
  BY LayoutInit, LayoutNext, PTL DEF Spec

-----------------------------------------------------------------------------
(* The theorems. *)

\* The files, one after the other, are what was stored, and keep their lengths: for blocks of
\* any place and length, and for a write that a broken file has cut short, of which the files
\* have what lies before that file (FileManager::writeBlock()).
THEOREM WritesStayInPlace == Spec => []WritesInPlace
<1>1. Layout => WritesInPlace
  <2> SUFFICES ASSUME Layout, phase \in {"running", "error"}
               PROVE  FlattenSeq(files) = image /\ \A i \in DOMAIN files : Len(files[i]) = lengths[i]
    BY DEF WritesInPlace
  <2>1. MetaInfoType /\ Fits(files, lengths) /\ Joins(image, files, lengths)
    BY DEF Layout, Laid
  <2>2. Joins(FlattenSeq(files), files, lengths)
    BY <2>1, FlattenJoins
  <2>3. FlattenSeq(files) = image
    <3>1. lengths \in Seq(Nat)
      BY <2>1 DEF MetaInfoType
    <3> QED
      BY <2>1, <2>2, <3>1, JoinsOnce
  <2>4. \A i \in DOMAIN files : Len(files[i]) = lengths[i]
    BY <2>1 DEF Fits
  <2> QED
    BY <2>3, <2>4
<1> QED
  BY <1>1, LayoutHolds, PTL

\* A peer gets the bytes it asked for (FileManager::readBlock()).
THEOREM ReadsAreSlices == Spec => []ReadIsSlice
<1>1. Layout => ReadIsSlice
  <2> SUFFICES ASSUME Layout, phase = "running", NEW p \in Pieces,
                      NEW offset \in 0 .. pieceLength - 1, NEW length \in 1 .. pieceLength,
                      StartOf(p, offset) < totalLength
               PROVE  readBlock(files, p, offset, length) = Slice(image, StartOf(p, offset), length)
    BY DEF ReadIsSlice
  <2>1. MetaInfoType /\ Consistent /\ Fits(files, lengths) /\ Joins(image, files, lengths)
    BY DEF Layout, Laid
  <2>2. PICK from \in Nat, size \in Nat : PieceLies(p, from, size)
    BY <2>1, PieceHasPlace
  <2>3. pieceLength \in Nat /\ offset \in Nat /\ length \in Nat
    BY <2>1 DEF MetaInfoType
  <2>4. StartOf(p, offset) \in Nat
    <3>1. StartOf(p, offset) = from + offset
      BY <2>2 DEF PieceLies, StartOf
    <3> QED
      BY <2>3, <3>1
  <2>5. StartOf(p, offset) < EndsOf(lengths)[Len(lengths)]
    BY <2>1, TotalIsNat
  <2> QED
    BY <2>1, <2>3, <2>4, <2>5, ReadIsRight
<1> QED
  BY <1>1, LayoutHolds, PTL

\* A verified piece has the torrent's bytes, and keeps them unless a block for an earlier piece
\* runs over its end into it: no other write reaches it (FileManager::verifyPiece(),
\* FileManager::writeBlock()).
THEOREM VerifiedStaysTrue == Spec => []VerifiedIsTrue
<1>1. Layout => VerifiedIsTrue
  BY DEF Layout
<1> QED
  BY <1>1, LayoutHolds, PTL

\* The byte k of the torrent is in the block pb.
InBlock(k, pb) ==
  k - StartOf(pb[1], pb[2] * BlockSize) \in 0 .. BlockLength(pb[1], pb[2]) - 1

\* Every byte is in a block ...
LEMMA ByteIsInBlock ==
  ASSUME MetaInfoType, Consistent, totalLength % pieceLength # 0, NEW k \in 0 .. totalLength - 1
  PROVE  \E p \in Pieces : \E b \in 0 .. NumBlocks(p) - 1 : InBlock(k, <<p, b>>)
<1>1. PICK T \in Nat, l \in Nat, n \in Nat : T = totalLength /\ l = pieceLength /\ n = numPieces
  BY TotalIsNat DEF MetaInfoType
<1>2. T > 0 /\ l > 0 /\ n = (T + l - 1) \div l /\ T % l # 0
  BY <1>1 DEF Consistent
<1>3. k \in Nat /\ k < T
  BY <1>1
<1>4. PICK p \in Nat, o \in Nat : Divides(k, l, p, o)
  BY <1>2, <1>3, DivMod
<1>5. PICK x \in Nat : x = p * l /\ k = x + o /\ o < l
  <2>1. p * l \in Nat
    BY Product
  <2> QED
    BY <1>4, <2>1 DEF Divides
<1>6. p < n
  <2>1. PICK a \in Nat : a = T + l - 1
    BY <1>2
  <2>2. PICK m \in Nat, e \in Nat : Divides(a, l, m, e)
    BY <1>2, DivMod
  <2>3. m = n /\ a = l * m + e /\ e < l
    BY <1>2, <2>1, <2>2 DEF Divides
  <2> SUFFICES ASSUME p >= m PROVE FALSE
    BY <2>3
  <2>4. PICK c \in Nat : p = m + c
    <3>1. p - m \in Nat /\ p = m + (p - m)
      OBVIOUS
    <3> QED
      BY <3>1
  <2>5. PICK y \in Nat, u \in Nat : y = l * m /\ u = l * c
    BY Product
  <2>6. x = y + u
    BY <1>5, <2>4, <2>5
  <2> QED
    BY <1>3, <1>5, <2>1, <2>3, <2>5, <2>6
<1>7. p \in Pieces
  BY <1>1, <1>6 DEF Pieces
<1>8. PICK from \in Nat, size \in Nat : PieceLies(p, from, size)
  BY <1>7, PieceHasPlace
<1>9. from = x /\ StartOf(p, 0) = x /\ pieceLengthAt(p) = size
  BY <1>1, <1>5, <1>8 DEF PieceLies
<1>10. o < size
  <2>1. CASE n = p + 1
    <3>1. from + size = T
      BY <1>1, <1>2, <1>8, <2>1 DEF PieceLies
    <3> QED
      BY <1>3, <1>5, <1>9, <3>1
  <2>2. CASE n # p + 1
    <3>1. size = l
      BY <1>1, <1>9, <2>2 DEF pieceLengthAt
    <3> QED
      BY <1>5, <3>1
  <2> QED
    BY <2>1, <2>2
<1>11. PICK B \in Nat : B = BlockSize /\ B > 0
  BY BlockSizeAssumption
<1>12. PICK count : count = size \div B + (IF size % B # 0 THEN 1 ELSE 0) /\ count = NumBlocks(p)
  BY <1>9, <1>11 DEF NumBlocks
<1>13. PICK b \in Nat : /\ b < count /\ b * B <= o
                        /\ o < b * B + (IF size % B # 0 /\ b = count - 1 THEN size % B ELSE B)
  <2>1. \E b \in Nat : HoldsByte(size, B, count, b, o)
    BY <1>10, <1>11, <1>12, ByteHasBlock
  <2> QED
    BY <2>1 DEF HoldsByte
<1>14. b \in 0 .. NumBlocks(p) - 1
  <2>1. count \in Int
    <3>1. PICK q \in Nat, r \in Nat : Divides(size, B, q, r)
      BY <1>11, DivMod
    <3> QED
      BY <1>12, <3>1 DEF Divides
  <2> QED
    BY <1>12, <1>13, <2>1
<1>15. PICK start \in Nat, d \in Nat : BlockLies(p, b, start, d)
  BY <1>7, <1>14, BlockHasPlace
<1>16. d = IF size % B # 0 /\ b = count - 1 THEN size % B ELSE B
  BY <1>9, <1>11, <1>12, <1>15 DEF BlockLies, BlockLength
<1>17. PICK y \in Nat : y = b * B
  BY <1>11, Product
<1>18. start = x + y /\ StartOf(p, b * BlockSize) = start /\ BlockLength(p, b) = d
  BY <1>9, <1>11, <1>15, <1>17 DEF BlockLies
<1>19. y <= o /\ o < y + d
  BY <1>13, <1>16, <1>17
<1>20. k - start \in 0 .. d - 1
  BY <1>5, <1>18, <1>19
<1> QED
  BY <1>7, <1>14, <1>18, <1>20 DEF InBlock

\* ... and in no other.
LEMMA ByteIsInOneBlock ==
  ASSUME MetaInfoType, Consistent, NEW k \in Nat,
         NEW p \in Pieces, NEW b \in 0 .. NumBlocks(p) - 1, InBlock(k, <<p, b>>),
         NEW q \in Pieces, NEW c \in 0 .. NumBlocks(q) - 1, InBlock(k, <<q, c>>)
  PROVE  p = q /\ b = c
<1> DEFINE In(i, j, s, d, o, e) == /\ BlockLies(i, j, s, d) /\ k = s + e /\ e < d
                                   /\ s = i * pieceLength + j * BlockSize
                                   /\ o = j * BlockSize + e /\ o < pieceLength
<1>1. ASSUME NEW i \in Pieces, NEW j \in 0 .. NumBlocks(i) - 1, InBlock(k, <<i, j>>)
      PROVE  \E s \in Nat, d \in Nat, o \in Nat, e \in Nat : In(i, j, s, d, o, e)
  <2>1. PICK s \in Nat, d \in Nat : BlockLies(i, j, s, d)
    BY <1>1, BlockHasPlace
  <2>2. PICK from \in Nat, size \in Nat : PieceLies(i, from, size)
    BY PieceHasPlace
  <2>3. StartOf(i, j * BlockSize) = s /\ BlockLength(i, j) = d
    BY <2>1 DEF BlockLies
  <2>4. k - s \in 0 .. d - 1
    BY <1>1, <2>3 DEF InBlock
  <2>5. PICK e \in Nat : k = s + e /\ e < d
    <3>1. k - s \in Nat /\ k = s + (k - s) /\ k - s < d
      BY <2>4
    <3> QED
      BY <3>1
  <2>6. from = i * pieceLength /\ StartOf(i, 0) = from /\ size <= pieceLength /\ pieceLengthAt(i) = size
    BY <2>2 DEF PieceLies
  <2>7. s + d <= from + size
    BY <2>1, <2>6 DEF BlockLies
  <2>8. PICK y \in Nat : y = j * BlockSize
    <3>1. j \in Nat /\ BlockSize \in Nat
      BY BlockSizeAssumption
    <3> QED
      BY <3>1, Product
  <2>9. s = from + y
    BY <2>3, <2>6, <2>8 DEF StartOf
  <2>10. PICK o \in Nat : o = y + e
    OBVIOUS
  <2>11. o < pieceLength
    <3>1. pieceLength \in Nat
      BY DEF MetaInfoType
    <3> QED
      BY <2>5, <2>6, <2>7, <2>9, <2>10, <3>1
  <2> QED
    BY <2>1, <2>5, <2>6, <2>8, <2>9, <2>10, <2>11
<1>2. PICK s \in Nat, d \in Nat, o \in Nat, e \in Nat : In(p, b, s, d, o, e)
  BY <1>1
<1>3. PICK t \in Nat, f \in Nat, u \in Nat, g \in Nat : In(q, c, t, f, u, g)
  BY <1>1
<1>4. PICK l \in Nat, B \in Nat : l = pieceLength /\ B = BlockSize
  BY BlockSizeAssumption DEF MetaInfoType
<1>5. p \in Nat /\ q \in Nat /\ b \in Nat /\ c \in Nat
  BY DEF Pieces
<1>6. /\ k = s + e /\ s = p * l + b * B /\ o = b * B + e /\ o < l /\ e < B
      /\ k = t + g /\ t = q * l + c * B /\ u = c * B + g /\ u < l /\ g < B
  BY <1>2, <1>3, <1>4 DEF BlockLies
<1>7. PICK w \in Nat, x \in Nat, y \in Nat, z \in Nat :
        w = p * l /\ x = b * B /\ y = q * l /\ z = c * B
  BY <1>4, <1>5, Product
<1>8. w + o = k /\ y + u = k
  BY <1>6, <1>7
<1>9. p = q /\ o = u
  <2>1. l * p + o = l * q + u
    BY <1>4, <1>5, <1>7, <1>8
  <2>2. o < l /\ u < l
    BY <1>6
  <2> QED
    BY <1>4, <1>5, <2>1, <2>2, DivModOnce
<1>10. b = c
  <2>1. B * b + e = B * c + g
    BY <1>4, <1>5, <1>6, <1>9
  <2>2. e < B /\ g < B /\ e \in Nat /\ g \in Nat
    BY <1>2, <1>3, <1>6
  <2> QED
    BY <1>4, <1>5, <2>1, <2>2, DivModOnce
<1> QED
  BY <1>9, <1>10

\* The blocks that are asked for make up the torrent (schedulePieceForClient(),
\* requestBlocks()).
THEOREM BlocksAreTheTorrent == Spec => []BlocksTile
<1>1. Layout => BlocksTile
  <2> DEFINE Blocks == UNION {BlocksOf(p) : p \in Pieces}
             Holding(k) == {pb \in Blocks : InBlock(k, pb)}
  <2> SUFFICES ASSUME Layout, phase = "running", totalLength % pieceLength # 0,
                      NEW k \in 0 .. totalLength - 1
               PROVE  Cardinality(Holding(k)) = 1
    BY DEF BlocksTile, InBlock
  <2>1. MetaInfoType /\ Consistent
    BY DEF Layout, Laid
  <2>2. PICK p \in Pieces : \E b \in 0 .. NumBlocks(p) - 1 : InBlock(k, <<p, b>>)
    BY <2>1, ByteIsInBlock
  <2>3. PICK b \in 0 .. NumBlocks(p) - 1 : InBlock(k, <<p, b>>)
    BY <2>2
  <2>4. k \in Nat
    BY <2>1, TotalIsNat
  <2>5. \A pb : pb \in Blocks <=> \E q \in Pieces : \E c \in 0 .. NumBlocks(q) - 1 : pb = <<q, c>>
    BY DEF BlocksOf
  <2> HIDE DEF Blocks
  <2>6. ASSUME NEW pb \in Holding(k) PROVE pb = <<p, b>>
    <3>1. PICK q \in Pieces : \E c \in 0 .. NumBlocks(q) - 1 : pb = <<q, c>>
      BY <2>5
    <3>2. PICK c \in 0 .. NumBlocks(q) - 1 : pb = <<q, c>>
      BY <3>1
    <3>3. p = q /\ b = c
      BY <2>1, <2>3, <2>4, <3>2, ByteIsInOneBlock
    <3> QED
      BY <3>2, <3>3
  <2>7. Holding(k) = {<<p, b>>}
    BY <2>3, <2>5, <2>6
  <2> QED
    BY <2>7, FS_Singleton
<1> QED
  BY <1>1, LayoutHolds, PTL

-----------------------------------------------------------------------------
(* The parser, for every document: its calls of itself have a measure, the  *)
(* tokens that are left, so that there is a function that answers them all, *)
(* and no call ends further back than it began.                             *)

\* One call: a turn of the loop of getList() or getDictionary() and what follows it.
Turn(c, g, x) == IF x[1] = "list" THEN getElements(c, g, x[2]) ELSE getEntries(c, g, x[2])

\* A result that is no further back than st, and is in the buffer or at its end.
Stays(c, st, r) == r.ok \in BOOLEAN /\ r.st \in States(c) /\ st.index <= r.st.index

Moves(c, st, r) == Stays(c, st, r) /\ (r.ok => st.index < r.st.index)

\* What the parser looks at is a token, and nothing but junk behind the end.
LEMMA AtToken ==
  ASSUME NEW c \in Seq(Token), NEW st \in States(c)
  PROVE  /\ At(c, st) \in Token
         /\ st.index > Len(c) => At(c, st) = Junk
BY DEF At, States, Token

\* It is no string whose length has overflowed.
LEMMA KindOfToken ==
  ASSUME NEW c \in Seq(Token), NEW st \in States(c)
  PROVE  At(c, st).t # "wrapped"
<1>1. \A x \in Token : x.t # "wrapped"
  BY DEF Token, D, L, E, BadInt, BadStr, Junk
<1> QED
  BY <1>1, AtToken

\* One token further on is still in the buffer, or at its end.
LEMMA AdvanceStays ==
  ASSUME NEW c \in Seq(Token), NEW st \in States(c), st.index <= Len(c)
  PROVE  /\ Advance(st) \in States(c) /\ Advance(st).index = st.index + 1
         /\ Advance(st).infoStart = st.infoStart /\ Advance(st).infoLength = st.infoLength
BY DEF Advance, States

\* Where the tokens that are no junk are.
LEMMA TokenInside ==
  ASSUME NEW c \in Seq(Token), NEW st \in States(c), At(c, st).t # "junk"
  PROVE  st.index <= Len(c) /\ At(c, st) = c[st.index]
BY AtToken DEF At, States, Junk

\* The results of the two functions that read one token.
Reads(c, st, r, kind) ==
  /\ Moves(c, st, r) /\ r.st.index <= st.index + 1
  /\ r.st.infoStart = st.infoStart /\ r.st.infoLength = st.infoLength
  /\ r.ok <=> At(c, st).t = kind
  /\ r.ok => r.v = At(c, st) /\ r.st.index = st.index + 1

\* A function that finds a token of its kind takes it.
LEMMA FoundReads ==
  ASSUME NEW c \in Seq(Token), NEW st \in States(c), st.index <= Len(c), NEW kind, At(c, st).t = kind
  PROVE  Reads(c, st, Found(At(c, st), Advance(st)), kind)
<1> SUFFICES ASSUME NEW r, r = Found(At(c, st), Advance(st)) PROVE Reads(c, st, r, kind)
  OBVIOUS
<1>1. st.index \in Nat
  BY DEF States
<1>2. r.ok = TRUE /\ r.v = At(c, st) /\ r.st = Advance(st)
  BY DEF Found
<1>3. /\ r.st \in States(c) /\ r.st.index = st.index + 1
      /\ r.st.infoStart = st.infoStart /\ r.st.infoLength = st.infoLength
  BY <1>2, AdvanceStays
<1>4. Stays(c, st, r) /\ Moves(c, st, r)
  <2>1. st.index <= r.st.index /\ st.index < r.st.index /\ r.st.index <= st.index + 1
    BY <1>1, <1>3
  <2> QED
    BY <1>2, <1>3, <2>1 DEF Moves, Stays
<1> QED
  BY <1>1, <1>2, <1>3, <1>4 DEF Reads

\* Without a token of its kind a function gives up, here or behind a broken one.
LEMMA FailReads ==
  ASSUME NEW c \in Seq(Token), NEW st \in States(c), NEW kind, At(c, st).t # kind,
         NEW at, at = st \/ (at = Advance(st) /\ st.index <= Len(c))
  PROVE  Reads(c, st, Fail(at), kind)
<1>1. st.index \in Nat
  BY DEF States
<1>2. Fail(at).ok = FALSE /\ Fail(at).st = at
  BY DEF Fail
<1>3. at \in States(c) /\ st.index <= at.index /\ at.index <= st.index + 1
      /\ at.infoStart = st.infoStart /\ at.infoLength = st.infoLength
  BY <1>1, AdvanceStays
<1> QED
  BY <1>1, <1>2, <1>3 DEF Reads, Moves, Stays

\* getInteger() takes an integer, and never more than one token.
LEMMA IntegerReads ==
  ASSUME NEW c \in Seq(Token), NEW st \in States(c)
  PROVE  Reads(c, st, getInteger(c, st), "int")
<1>0. st.index \in Nat
  BY DEF States
<1>1. CASE At(c, st).t = "int"
  <2>1. getInteger(c, st) = Found(At(c, st), Advance(st))
    BY <1>1 DEF getInteger
  <2>2. st.index <= Len(c)
    BY <1>1, TokenInside
  <2> QED
    BY <1>1, <2>1, <2>2, FoundReads
<1>2. CASE At(c, st).t = "badint"
  <2>1. getInteger(c, st) = Fail(Advance(st))
    BY <1>2 DEF getInteger
  <2>2. st.index <= Len(c)
    BY <1>2, TokenInside
  <2> QED
    BY <1>2, <2>1, <2>2, FailReads
<1>3. CASE At(c, st).t \notin {"int", "badint"}
  <2>1. getInteger(c, st) = Fail(st)
    BY <1>3 DEF getInteger
  <2> QED
    BY <1>3, <2>1, FailReads
<1> QED
  BY <1>1, <1>2, <1>3

\* getByteString() takes a string, and never more than one token.
LEMMA ByteStringReads ==
  ASSUME NEW c \in Seq(Token), NEW st \in States(c)
  PROVE  Reads(c, st, getByteString(c, st), "str")
<1>0. st.index \in Nat
  BY DEF States
<1>1. CASE At(c, st).t = "str"
  <2>1. getByteString(c, st) = Found(At(c, st), Advance(st))
    BY <1>1 DEF getByteString
  <2>2. st.index <= Len(c)
    BY <1>1, TokenInside
  <2> QED
    BY <1>1, <2>1, <2>2, FoundReads
<1>2. CASE At(c, st).t = "badstr"
  <2>1. getByteString(c, st) = Fail(Advance(st))
    BY <1>2 DEF getByteString
  <2>2. st.index <= Len(c)
    BY <1>2, TokenInside
  <2> QED
    BY <1>2, <2>1, <2>2, FailReads
<1>3. CASE At(c, st).t \notin {"str", "badstr"}
  <2>1. At(c, st).t # "wrapped"
    BY KindOfToken
  <2>2. getByteString(c, st) = Fail(st)
    BY <1>3, <2>1 DEF getByteString
  <2> QED
    BY <1>3, <2>2, FailReads
<1> QED
  BY <1>1, <1>2, <1>3

\* Two functions that do the same with the calls beyond st.
CallsBeyond(c, i) == {x \in Calls(c) : i < x[2].index}

StaysBeyond(c, g, i) == \A x \in CallsBeyond(c, i) : Stays(c, x[2], g[x])

SameBeyond(c, g, h, i) == \A x \in CallsBeyond(c, i) : g[x] = h[x]

\* getList() and getDictionary() move on, if the calls beyond them stay in the buffer.
LEMMA ListStays ==
  ASSUME NEW c \in Seq(Token), NEW g, NEW st \in States(c), StaysBeyond(c, g, st.index)
  PROVE  Moves(c, st, getList(c, g, st)) /\ Moves(c, st, getDictionary(c, g, st))
<1>1. st.index \in Nat
  BY DEF States
<1>2. Moves(c, st, Fail(st))
  BY <1>1 DEF Moves, Stays, Fail
<1>3. ASSUME st.index <= Len(c), NEW m \in {"list", "dict"} PROVE Moves(c, st, g[<<m, Advance(st)>>])
  <2>1. Advance(st) \in States(c) /\ Advance(st).index = st.index + 1
    BY <1>3, AdvanceStays
  <2>2. <<m, Advance(st)>> \in CallsBeyond(c, st.index)
    BY <1>1, <2>1 DEF CallsBeyond, Calls
  <2>3. Stays(c, Advance(st), g[<<m, Advance(st)>>])
    BY <2>2 DEF StaysBeyond
  <2>4. \A r : Stays(c, Advance(st), r) => Moves(c, st, r)
    BY <1>1, <2>1 DEF Moves, Stays, States
  <2> QED
    BY <2>3, <2>4
<1>4. At(c, st).t \in {"l", "d"} => st.index <= Len(c)
  BY TokenInside
<1> QED
  BY <1>2, <1>3, <1>4 DEF getList, getDictionary

\* They depend on the calls beyond them only.
LEMMA ListAgrees ==
  ASSUME NEW c \in Seq(Token), NEW g, NEW h, NEW st \in States(c), SameBeyond(c, g, h, st.index)
  PROVE  getList(c, g, st) = getList(c, h, st) /\ getDictionary(c, g, st) = getDictionary(c, h, st)
<1>1. st.index \in Nat
  BY DEF States
<1>2. ASSUME st.index <= Len(c), NEW m \in {"list", "dict"}
      PROVE  g[<<m, Advance(st)>>] = h[<<m, Advance(st)>>]
  <2>1. Advance(st) \in States(c) /\ Advance(st).index = st.index + 1
    BY <1>2, AdvanceStays
  <2>2. <<m, Advance(st)>> \in CallsBeyond(c, st.index)
    BY <1>1, <2>1 DEF CallsBeyond, Calls
  <2> QED
    BY <2>2 DEF SameBeyond
<1>3. At(c, st).t \in {"l", "d"} => st.index <= Len(c)
  BY TokenInside
<1> QED
  BY <1>2, <1>3 DEF getList, getDictionary

\* What holds beyond an index holds beyond a later one.
LEMMA BeyondLater ==
  ASSUME NEW c \in Seq(Token), NEW g, NEW h, NEW i \in Nat, NEW j \in Nat, i <= j
  PROVE  /\ StaysBeyond(c, g, i) => StaysBeyond(c, g, j)
         /\ SameBeyond(c, g, h, i) => SameBeyond(c, g, h, j)
<1>1. CallsBeyond(c, j) \subseteq CallsBeyond(c, i)
  BY DEF CallsBeyond, Calls, States
<1> QED
  BY <1>1 DEF StaysBeyond, SameBeyond

\* The chain of alternatives of a value, one after the other.
ChainOf(c, g, st, i, s, l) ==
  /\ Reads(c, st, i, "int") /\ Reads(c, i.st, s, "str")
  /\ l = getList(c, g, s.st) /\ Moves(c, s.st, l)
  /\ Moves(c, l.st, getDictionary(c, g, l.st))
  /\ getValue(c, g, st) = IF i.ok THEN i ELSE IF s.ok THEN s ELSE IF l.ok THEN l
                          ELSE getDictionary(c, g, l.st)

\* Each alternative of getValue() begins where the one before it gave up.
LEMMA ValueChain ==
  ASSUME NEW c \in Seq(Token), NEW g, NEW st \in States(c), StaysBeyond(c, g, st.index)
  PROVE  \E i, s, l : i = getInteger(c, st) /\ s = getByteString(c, i.st) /\ ChainOf(c, g, st, i, s, l)
<1> DEFINE i == getInteger(c, st)
           s == getByteString(c, i.st)
           l == getList(c, g, s.st)
<1>1. Reads(c, st, i, "int")
  BY IntegerReads
<1> HIDE DEF i
<1>2. i.st \in States(c) /\ st.index <= i.st.index
  BY <1>1 DEF Reads, Moves, Stays
<1>3. Reads(c, i.st, s, "str")
  BY <1>2, ByteStringReads
<1> HIDE DEF s
<1>4. s.st \in States(c) /\ i.st.index <= s.st.index
  BY <1>3 DEF Reads, Moves, Stays
<1>5. st.index \in Nat /\ i.st.index \in Nat /\ s.st.index \in Nat
  BY SMTT(30), <1>2, <1>4 DEF States
<1>6. StaysBeyond(c, g, s.st.index)
  <2>1. st.index <= s.st.index
    BY <1>2, <1>4, <1>5
  <2> QED
    BY <1>5, <2>1, BeyondLater
<1>7. Moves(c, s.st, l)
  BY <1>4, <1>6, ListStays
<1> HIDE DEF l
<1>8. l.st \in States(c) /\ s.st.index <= l.st.index /\ l.st.index \in Nat
  BY <1>7 DEF Moves, Stays, States
<1>9. StaysBeyond(c, g, l.st.index)
  BY <1>5, <1>6, <1>8, BeyondLater
<1>10. Moves(c, l.st, getDictionary(c, g, l.st))
  BY <1>8, <1>9, ListStays
<1>11. getValue(c, g, st) = IF i.ok THEN i ELSE IF s.ok THEN s ELSE IF l.ok THEN l
                            ELSE getDictionary(c, g, l.st)
  BY DEF getValue, i, s, l
<1>12. l = getList(c, g, s.st)
  BY DEF l
<1>13. ChainOf(c, g, st, i, s, l)
  BY <1>1, <1>3, <1>7, <1>10, <1>11, <1>12 DEF ChainOf
<1> QED
  BY <1>13 DEF i, s

\* A value that is read moves the parser on.
LEMMA ValueStays ==
  ASSUME NEW c \in Seq(Token), NEW g, NEW st \in States(c), StaysBeyond(c, g, st.index)
  PROVE  Moves(c, st, getValue(c, g, st))
<1>1. PICK i, s, l : ChainOf(c, g, st, i, s, l)
  BY ValueChain
<1> DEFINE d == getDictionary(c, g, l.st)
<1>2. Moves(c, st, i) /\ Moves(c, i.st, s) /\ Moves(c, s.st, l) /\ Moves(c, l.st, d)
  BY <1>1 DEF ChainOf, Reads
<1>3. getValue(c, g, st) \in {i, s, l, d}
  BY <1>1 DEF ChainOf
<1> HIDE DEF d
<1>4. \A q \in {st, i.st, s.st, l.st} : q.index \in Nat
  <2>1. i.st \in States(c) /\ s.st \in States(c) /\ l.st \in States(c) /\ d.st \in States(c)
    BY <1>2 DEF Moves, Stays
  <2>2. \A q \in States(c) : q.index \in Nat
    BY DEF States
  <2> QED
    BY <2>1, <2>2
<1>5. \A r \in {i, s, l, d} : r.st.index \in Nat
  <2>1. i.st \in States(c) /\ s.st \in States(c) /\ l.st \in States(c) /\ d.st \in States(c)
    BY <1>2 DEF Moves, Stays
  <2>2. \A q \in States(c) : q.index \in Nat
    BY DEF States
  <2> QED
    BY <2>1, <2>2
<1>6. ASSUME NEW at, at.index \in Nat, st.index <= at.index, NEW r \in {i, s, l, d}, Moves(c, at, r)
      PROVE  Moves(c, st, r) /\ st.index <= r.st.index
  <2>1. r.ok \in BOOLEAN /\ r.st \in States(c) /\ at.index <= r.st.index
        /\ (r.ok => at.index < r.st.index)
    BY <1>6 DEF Moves, Stays
  <2>2. st.index <= r.st.index
    BY <1>4, <1>5, <1>6, <2>1
  <2>3. at.index < r.st.index => st.index < r.st.index
    BY <1>4, <1>5, <1>6
  <2> QED
    BY <2>1, <2>2, <2>3 DEF Moves, Stays
<1>7. Moves(c, st, i) /\ Moves(c, st, s) /\ Moves(c, st, l) /\ Moves(c, st, d)
  <2>1. Moves(c, st, i) /\ st.index <= i.st.index
    BY <1>2, <1>4, <1>6
  <2>2. Moves(c, st, s) /\ st.index <= s.st.index
    BY <1>2, <1>4, <1>6, <2>1
  <2>3. Moves(c, st, l) /\ st.index <= l.st.index
    BY <1>2, <1>4, <1>6, <2>2
  <2>4. Moves(c, st, d)
    BY <1>2, <1>4, <1>6, <2>3
  <2> QED
    BY <2>1, <2>2, <2>3, <2>4
<1> QED
  BY <1>3, <1>7

\* getValue() depends on the calls beyond it only.
LEMMA ValueAgrees ==
  ASSUME NEW c \in Seq(Token), NEW g, NEW h, NEW st \in States(c),
         StaysBeyond(c, g, st.index), SameBeyond(c, g, h, st.index)
  PROVE  getValue(c, g, st) = getValue(c, h, st)
<1>1. PICK i, s, l : i = getInteger(c, st) /\ s = getByteString(c, i.st) /\ ChainOf(c, g, st, i, s, l)
  BY ValueChain
<1>2. l = getList(c, g, s.st)
  BY <1>1 DEF ChainOf
<1>3. i.st \in States(c) /\ s.st \in States(c) /\ l.st \in States(c)
      /\ st.index \in Nat /\ s.st.index \in Nat /\ l.st.index \in Nat
      /\ st.index <= s.st.index /\ s.st.index <= l.st.index
  <2>1. i.st \in States(c) /\ s.st \in States(c) /\ l.st \in States(c)
        /\ st.index <= i.st.index /\ i.st.index <= s.st.index /\ s.st.index <= l.st.index
    BY <1>1 DEF ChainOf, Reads, Moves, Stays
  <2>2. \A q \in States(c) : q.index \in Nat
    BY DEF States
  <2> QED
    BY <2>1, <2>2
<1>4. SameBeyond(c, g, h, s.st.index) /\ SameBeyond(c, g, h, l.st.index)
  <2>1. st.index <= l.st.index
    BY <1>3
  <2> QED
    BY <1>3, <2>1, BeyondLater
<1>5. getList(c, h, s.st) = l
  BY <1>2, <1>3, <1>4, ListAgrees
<1>6. getDictionary(c, g, l.st) = getDictionary(c, h, l.st)
  BY <1>3, <1>4, ListAgrees
<1>7. getValue(c, h, st) = IF i.ok THEN i ELSE IF s.ok THEN s ELSE IF l.ok THEN l
                           ELSE getDictionary(c, h, l.st)
  BY <1>1, <1>5 DEF getValue
<1> QED
  BY <1>1, <1>6, <1>7 DEF ChainOf

\* Remembering the info section does not move the parser.
LEMMA StepInside ==
  ASSUME NEW c \in Seq(Token), NEW st \in States(c), NEW key
  PROVE  /\ OpenInfo(key, st) \in States(c) /\ OpenInfo(key, st).index = st.index
         /\ CloseInfo(key, st) \in States(c) /\ CloseInfo(key, st).index = st.index
<1>1. st.index \in 1 .. Len(c) + 1 /\ st.infoStart \in 1 .. Len(c) + 1 /\ st.infoLength \in 0 .. Len(c)
      /\ st.infoStart <= st.index /\ Len(c) \in Nat
  BY DEF States
<1>2. st.index - st.infoStart \in 0 .. Len(c)
  BY <1>1
<1>3. OpenInfo(key, st) \in States(c) /\ OpenInfo(key, st).index = st.index
  BY <1>1 DEF OpenInfo, States
<1>4. CloseInfo(key, st) \in States(c) /\ CloseInfo(key, st).index = st.index
  BY <1>1, <1>2 DEF CloseInfo, States
<1> QED
  BY <1>3, <1>4

\* The loops' condition, behind a value that has been read.
LEMMA GoOnStays ==
  ASSUME NEW c \in Seq(Token), NEW g, NEW st \in States(c), NEW i \in Nat, StaysBeyond(c, g, i),
         i < st.index, NEW m \in {"list", "dict"}, NEW nothing
  PROVE  Stays(c, st, GoOn(c, g, m, nothing, st))
<1>1. <<m, st>> \in CallsBeyond(c, i) /\ <<m, st>>[2] = st
  BY DEF CallsBeyond, Calls
<1>2. Stays(c, st, g[<<m, st>>])
  BY <1>1 DEF StaysBeyond
<1>3. Stays(c, st, Found(nothing, st))
  BY DEF Stays, Found, States
<1> QED
  BY <1>2, <1>3 DEF GoOn

\* The condition of the loops depends on the calls beyond it only.
LEMMA GoOnAgrees ==
  ASSUME NEW c \in Seq(Token), NEW g, NEW h, NEW st \in States(c), NEW i \in Nat,
         SameBeyond(c, g, h, i), i < st.index, NEW m \in {"list", "dict"}, NEW nothing
  PROVE  GoOn(c, g, m, nothing, st) = GoOn(c, h, m, nothing, st)
<1>1. <<m, st>> \in CallsBeyond(c, i)
  BY DEF CallsBeyond, Calls
<1> QED
  BY <1>1 DEF GoOn, SameBeyond

\* The turn of a list and the turn of a dictionary, with names for what they find.
ElementTurn(c, g, st, r, rest) ==
  /\ r = getValue(c, g, st)
  /\ rest = GoOn(c, g, "list", List(<<>>), r.st)
  /\ At(c, st).t = "e" => getElements(c, g, st) = Found(List(<<>>), Advance(st))
  /\ At(c, st).t # "e" /\ ~ r.ok => getElements(c, g, st) = Fail(r.st)
  /\ At(c, st).t # "e" /\ r.ok /\ ~ rest.ok => getElements(c, g, st) = Fail(rest.st)
  /\ At(c, st).t # "e" /\ r.ok /\ rest.ok =>
       getElements(c, g, st) = Found(List(<<r.v>> \o rest.v.list), rest.st)

\* getElements() is one turn of the loop of getList().
LEMMA ElementsTurn ==
  ASSUME NEW c, NEW g, NEW st
  PROVE  ElementTurn(c, g, st, getValue(c, g, st), GoOn(c, g, "list", List(<<>>), getValue(c, g, st).st))
<1> SUFFICES ASSUME NEW r, r = getValue(c, g, st), NEW rest, rest = GoOn(c, g, "list", List(<<>>), r.st)
             PROVE  ElementTurn(c, g, st, r, rest)
  OBVIOUS
<1>1. getElements(c, g, st) =
        CASE At(c, st).t = "e"                          -> Found(List(<<>>), Advance(st))
          [] At(c, st).t # "e" /\ ~ r.ok               -> Fail(r.st)
          [] At(c, st).t # "e" /\ r.ok /\ ~ rest.ok    -> Fail(rest.st)
          [] At(c, st).t # "e" /\ r.ok /\ rest.ok      ->
               Found(List(<<r.v>> \o rest.v.list), rest.st)
  BY SMTT(30) DEF getElements
<1> QED
  BY <1>1 DEF ElementTurn

EntryTurn(c, g, st, k, key, r, rest) ==
  /\ k = getByteString(c, st) /\ key = k.v.str
  /\ r = getValue(c, g, OpenInfo(key, k.st))
  /\ rest = GoOn(c, g, "dict", Dict(EmptyMap), CloseInfo(key, r.st))
  /\ At(c, st).t = "e" => getEntries(c, g, st) = Found(Dict(EmptyMap), Advance(st))
  /\ At(c, st).t # "e" /\ ~ k.ok => getEntries(c, g, st) = Found(Dict(EmptyMap), k.st)
  /\ At(c, st).t # "e" /\ k.ok /\ ~ r.ok => getEntries(c, g, st) = Fail(r.st)
  /\ At(c, st).t # "e" /\ k.ok /\ r.ok /\ ~ rest.ok => getEntries(c, g, st) = Fail(rest.st)
  /\ At(c, st).t # "e" /\ k.ok /\ r.ok /\ rest.ok =>
       getEntries(c, g, st) = Found(Dict(WithEntry(rest.v.dict, key, r.v)), rest.st)

\* getEntries() is one turn of the loop of getDictionary().
LEMMA EntriesTurn ==
  ASSUME NEW c, NEW g, NEW st
  PROVE  \E k, key, r, rest : EntryTurn(c, g, st, k, key, r, rest)
<1> SUFFICES ASSUME NEW k, k = getByteString(c, st), NEW key, key = k.v.str,
                    NEW r, r = getValue(c, g, OpenInfo(key, k.st)),
                    NEW rest, rest = GoOn(c, g, "dict", Dict(EmptyMap), CloseInfo(key, r.st))
             PROVE  EntryTurn(c, g, st, k, key, r, rest)
  OBVIOUS
<1>1. getEntries(c, g, st) =
        CASE At(c, st).t = "e"                          -> Found(Dict(EmptyMap), Advance(st))
          [] At(c, st).t # "e" /\ ~ k.ok               -> Found(Dict(EmptyMap), k.st)
          [] At(c, st).t # "e" /\ k.ok /\ ~ r.ok       -> Fail(r.st)
          [] At(c, st).t # "e" /\ k.ok /\ r.ok /\ ~ rest.ok -> Fail(rest.st)
          [] At(c, st).t # "e" /\ k.ok /\ r.ok /\ rest.ok   ->
               Found(Dict(WithEntry(rest.v.dict, key, r.v)), rest.st)
  BY DEF getEntries
<1> QED
  BY <1>1 DEF EntryTurn

\* Induction: a set of calls that has each call if it has all that are further on has them all.
LEMMA CallInduction ==
  ASSUME NEW c \in Seq(Token), NEW Good,
         \A x \in Calls(c) : CallsBeyond(c, x[2].index) \subseteq Good => x \in Good
  PROVE  Calls(c) \subseteq Good
<1> DEFINE n == Len(c) + 1
           S == {k \in Nat : \A x \in Calls(c) : n < x[2].index + k => x \in Good}
<1>0. n \in Nat /\ \A x \in Calls(c) : x[2].index \in 1 .. n
  BY DEF Calls, States
<1>1. 0 \in S
  BY <1>0
<1>2. ASSUME NEW k \in Nat, k \in S PROVE k + 1 \in S
  <2> SUFFICES ASSUME NEW x \in Calls(c), n < x[2].index + (k + 1) PROVE x \in Good
    OBVIOUS
  <2>1. CallsBeyond(c, x[2].index) \subseteq Good
    BY <1>0, <1>2 DEF CallsBeyond
  <2> QED
    BY <2>1
<1>3. Nat \subseteq S
  <2> HIDE DEF S
  <2> QED
    BY <1>1, <1>2, NatSetInduction
<1>4. n \in S
  BY <1>0, <1>3
<1> QED
  BY <1>0, <1>4

\* Where a turn of each kind has its parts, if the calls beyond it stay in the buffer.
ElementPlaces(c, g, st, r, rest) ==
  /\ ElementTurn(c, g, st, r, rest)
  /\ Moves(c, st, r)
  /\ r.ok => Stays(c, r.st, rest) /\ Stays(c, st, rest)

EntryPlaces(c, g, st, k, key, open, r, end, rest) ==
  /\ EntryTurn(c, g, st, k, key, r, rest)
  /\ Reads(c, st, k, "str")
  /\ open = OpenInfo(key, k.st) /\ open \in States(c) /\ open.index = k.st.index
  /\ r = getValue(c, g, open) /\ Moves(c, open, r) /\ Moves(c, st, r)
  /\ end = CloseInfo(key, r.st) /\ end \in States(c) /\ end.index = r.st.index
  /\ rest = GoOn(c, g, "dict", Dict(EmptyMap), end)
  /\ r.ok => st.index < end.index /\ Stays(c, end, rest) /\ Stays(c, st, rest)

\* What is no further back than at is no further back than any state before at.
LEMMA StaysOn ==
  ASSUME NEW c \in Seq(Token), NEW st \in States(c), NEW at \in States(c), NEW r, st.index <= at.index
  PROVE  /\ Stays(c, at, r) => Stays(c, st, r)
         /\ Moves(c, at, r) => Moves(c, st, r)
<1> SUFFICES ASSUME Stays(c, at, r)
             PROVE  Stays(c, st, r) /\ ((r.ok => at.index < r.st.index) => (r.ok => st.index < r.st.index))
  BY DEF Moves
<1>1. st.index \in Nat /\ at.index \in Nat /\ r.st.index \in Nat /\ at.index <= r.st.index
  BY SMTT(30) DEF Stays, States
<1>2. st.index <= r.st.index /\ (at.index < r.st.index => st.index < r.st.index)
  BY <1>1
<1> QED
  BY <1>2 DEF Stays

\* The parts of a turn of getList() follow one another in the buffer.
LEMMA ElementsPlaces ==
  ASSUME NEW c \in Seq(Token), NEW g, NEW st \in States(c), StaysBeyond(c, g, st.index)
  PROVE  \E r, rest : ElementPlaces(c, g, st, r, rest)
<1> DEFINE r == getValue(c, g, st)
           rest == GoOn(c, g, "list", List(<<>>), r.st)
<1>1. ElementTurn(c, g, st, r, rest)
  BY ElementsTurn
<1>2. Moves(c, st, r)
  BY ValueStays
<1> HIDE DEF r
<1>3. st.index \in Nat /\ r.ok \in BOOLEAN /\ r.st \in States(c) /\ st.index <= r.st.index
      /\ (r.ok => st.index < r.st.index)
  BY <1>2 DEF Moves, Stays, States
<1>4. r.ok => Stays(c, r.st, rest)
  <2> SUFFICES ASSUME r.ok PROVE Stays(c, r.st, rest)
    OBVIOUS
  <2> QED
    BY <1>3, GoOnStays
<1> HIDE DEF rest
<1>5. r.ok => Stays(c, st, rest)
  BY <1>3, <1>4, StaysOn
<1> QED
  BY <1>1, <1>2, <1>4, <1>5 DEF ElementPlaces

\* The parts of a turn of getDictionary() follow one another in the buffer.
LEMMA EntriesPlaces ==
  ASSUME NEW c \in Seq(Token), NEW g, NEW st \in States(c), StaysBeyond(c, g, st.index)
  PROVE  \E k, key, open, r, end, rest : EntryPlaces(c, g, st, k, key, open, r, end, rest)
<1>1. PICK k, key, r, rest : EntryTurn(c, g, st, k, key, r, rest)
  BY EntriesTurn
<1>2. Reads(c, st, k, "str")
  BY <1>1, ByteStringReads DEF EntryTurn
<1>3. k.st \in States(c) /\ k.st.index \in Nat /\ st.index <= k.st.index /\ st.index \in Nat
  BY <1>2 DEF Reads, Moves, Stays, States
<1> DEFINE open == OpenInfo(key, k.st)
           end == CloseInfo(key, r.st)
<1>4. open \in States(c) /\ open.index = k.st.index
  BY <1>3, StepInside
<1> HIDE DEF open
<1>5. r = getValue(c, g, open)
  BY <1>1 DEF EntryTurn, open
<1>6. Moves(c, open, r)
  <2>1. StaysBeyond(c, g, open.index)
    BY <1>3, <1>4, BeyondLater
  <2> QED
    BY <1>4, <1>5, <2>1, ValueStays
<1>7. Moves(c, st, r)
  BY <1>3, <1>4, <1>6, StaysOn
<1>8. r.ok \in BOOLEAN /\ r.st \in States(c) /\ (r.ok => st.index < r.st.index)
  BY <1>7 DEF Moves, Stays
<1>9. end \in States(c) /\ end.index = r.st.index
  BY <1>8, StepInside
<1> HIDE DEF end
<1>10. rest = GoOn(c, g, "dict", Dict(EmptyMap), end)
  BY <1>1 DEF EntryTurn, end
<1>11. r.ok => st.index < end.index /\ Stays(c, end, rest)
  <2> SUFFICES ASSUME r.ok PROVE st.index < end.index /\ Stays(c, end, rest)
    OBVIOUS
  <2> QED
    BY <1>3, <1>8, <1>9, <1>10, GoOnStays
<1>12. r.ok => Stays(c, st, rest)
  <2> SUFFICES ASSUME r.ok PROVE Stays(c, st, rest)
    OBVIOUS
  <2>1. st.index <= end.index
    BY <1>3, <1>9, <1>11 DEF States
  <2> QED
    BY <1>9, <1>11, <2>1, StaysOn
<1>13. EntryPlaces(c, g, st, k, key, open, r, end, rest)
  BY <1>1, <1>2, <1>4, <1>5, <1>6, <1>7, <1>9, <1>10, <1>11, <1>12 DEF EntryPlaces, open, end
<1> QED
  BY <1>13

\* A turn stays in the buffer if the calls beyond it do.
LEMMA TurnStays ==
  ASSUME NEW c \in Seq(Token), NEW g, NEW x \in Calls(c), StaysBeyond(c, g, x[2].index)
  PROVE  Stays(c, x[2], Turn(c, g, x))
<1> DEFINE st == x[2]
<1>0. st \in States(c) /\ st.index \in Nat /\ StaysBeyond(c, g, st.index) /\ x[1] \in {"list", "dict"}
  BY DEF Calls, States
<1> HIDE DEF st
<1>1. ASSUME NEW at, NEW r, at = r.st, Stays(c, st, r), NEW v
      PROVE  Stays(c, st, Fail(at)) /\ Stays(c, st, Found(v, at))
  BY <1>1 DEF Stays, Fail, Found
<1>2. ASSUME At(c, st).t = "e", NEW v PROVE Stays(c, st, Found(v, Advance(st)))
  <2>1. Advance(st) \in States(c) /\ Advance(st).index = st.index + 1
    BY <1>0, <1>2, TokenInside, AdvanceStays
  <2> QED
    BY <1>0, <2>1 DEF Stays, Found
<1>3. Stays(c, st, getElements(c, g, st))
  <2>1. PICK r, rest : ElementPlaces(c, g, st, r, rest)
    BY <1>0, ElementsPlaces
  <2>2. r.ok \in BOOLEAN /\ (r.ok => rest.ok \in BOOLEAN) /\ Stays(c, st, r) /\ (r.ok => Stays(c, st, rest))
    BY <2>1 DEF ElementPlaces, Moves, Stays
  <2>3. ElementTurn(c, g, st, r, rest)
    BY <2>1 DEF ElementPlaces
  <2> QED
    BY <1>1, <1>2, <2>2, <2>3 DEF ElementTurn
<1>4. Stays(c, st, getEntries(c, g, st))
  <2>1. PICK k, key, open, r, end, rest : EntryPlaces(c, g, st, k, key, open, r, end, rest)
    BY <1>0, EntriesPlaces
  <2>2. k.ok \in BOOLEAN /\ r.ok \in BOOLEAN /\ (r.ok => rest.ok \in BOOLEAN)
        /\ Stays(c, st, k) /\ Stays(c, st, r) /\ (r.ok => Stays(c, st, rest))
    BY <2>1 DEF EntryPlaces, Reads, Moves, Stays
  <2>3. EntryTurn(c, g, st, k, key, r, rest)
    BY <2>1 DEF EntryPlaces
  <2>4. PICK y : y = getEntries(c, g, st)
    OBVIOUS
  <2>5. CASE At(c, st).t = "e"
    <3>1. y = Found(Dict(EmptyMap), Advance(st))
      BY <2>3, <2>4, <2>5 DEF EntryTurn
    <3> QED
      BY <1>2, <2>4, <2>5, <3>1
  <2>6. CASE At(c, st).t # "e" /\ ~ k.ok
    <3>1. y = Found(Dict(EmptyMap), k.st)
      BY <2>3, <2>4, <2>6 DEF EntryTurn
    <3> QED
      BY <1>1, <2>2, <2>4, <3>1
  <2>7. CASE At(c, st).t # "e" /\ k.ok /\ ~ r.ok
    <3>1. y = Fail(r.st)
      BY <2>3, <2>4, <2>7 DEF EntryTurn
    <3> QED
      BY <1>1, <2>2, <2>4, <3>1
  <2>8. CASE At(c, st).t # "e" /\ k.ok /\ r.ok
    <3>1. y = Fail(rest.st) \/ \E v : y = Found(v, rest.st)
      BY <2>2, <2>3, <2>4, <2>8 DEF EntryTurn
    <3> QED
      BY <1>1, <2>2, <2>4, <2>8, <3>1
  <2> QED
    BY <2>2, <2>5, <2>6, <2>7, <2>8
<1> QED
  BY <1>0, <1>3, <1>4 DEF Turn, st

\* A turn depends on the calls beyond it only: the recursion has a measure.
LEMMA TurnAgrees ==
  ASSUME NEW c \in Seq(Token), NEW g, NEW h, NEW x \in Calls(c),
         StaysBeyond(c, g, x[2].index), SameBeyond(c, g, h, x[2].index)
  PROVE  Turn(c, g, x) = Turn(c, h, x)
<1> DEFINE st == x[2]
<1>0. st \in States(c) /\ st.index \in Nat
  BY DEF Calls, States
<1>1. StaysBeyond(c, g, st.index) /\ SameBeyond(c, g, h, st.index)
  OBVIOUS
<1> HIDE DEF st
<1>2. ASSUME NEW at \in States(c), st.index < at.index, NEW m \in {"list", "dict"}, NEW nothing
      PROVE  GoOn(c, g, m, nothing, at) = GoOn(c, h, m, nothing, at)
  <2>1. PICK i \in Nat : i = st.index /\ SameBeyond(c, g, h, i)
    BY <1>0, <1>1
  <2>2. i < at.index
    BY <1>2, <2>1
  <2>3. PICK y : y = <<m, at>>
    OBVIOUS
  <2>4. y \in CallsBeyond(c, i)
    BY <1>2, <2>2, <2>3 DEF CallsBeyond, Calls
  <2>5. g[y] = h[y]
    BY <2>1, <2>4 DEF SameBeyond
  <2> QED
    BY <2>3, <2>5, Zenon DEF GoOn
<1>3. getElements(c, g, st) = getElements(c, h, st)
  <2>1. PICK r, rest : ElementPlaces(c, g, st, r, rest)
    BY <1>0, <1>1, ElementsPlaces
  <2>2. ElementTurn(c, g, st, r, rest) /\ Moves(c, st, r)
    BY <2>1 DEF ElementPlaces
  <2>3. r = getValue(c, h, st)
    BY <1>0, <1>1, <2>2, ValueAgrees DEF ElementTurn
  <2>4. r.ok \in BOOLEAN /\ r.st \in States(c) /\ (r.ok => st.index < r.st.index)
    BY <2>2 DEF Moves, Stays
  <2>5. r.ok => rest = GoOn(c, h, "list", List(<<>>), r.st)
    BY <1>2, <2>2, <2>4 DEF ElementTurn
  <2>6. ElementTurn(c, h, st, r, GoOn(c, h, "list", List(<<>>), r.st))
    BY SMTT(30), <2>3, ElementsTurn
  <2> QED
    BY <2>2, <2>4, <2>5, <2>6 DEF ElementTurn
<1>4. getEntries(c, g, st) = getEntries(c, h, st)
  <2>1. PICK k, key, open, r, end, rest : EntryPlaces(c, g, st, k, key, open, r, end, rest)
    BY <1>0, <1>1, EntriesPlaces
  <2>2. PICK k2, key2, r2, rest2 : EntryTurn(c, h, st, k2, key2, r2, rest2)
    BY SMTT(30), EntriesTurn
  <2>3. EntryTurn(c, g, st, k, key, r, rest) /\ k2 = k /\ key2 = key
    BY <2>1, <2>2 DEF EntryPlaces, EntryTurn
  <2>4. k.ok \in BOOLEAN /\ r.ok \in BOOLEAN /\ open \in States(c) /\ end \in States(c)
        /\ st.index <= k.st.index /\ open.index = k.st.index
    BY <2>1 DEF EntryPlaces, Reads, Moves, Stays
  <2>5. r2 = r
    <3>1. StaysBeyond(c, g, open.index) /\ SameBeyond(c, g, h, open.index)
      BY SMTT(30), <1>0, <1>1, <2>4, BeyondLater DEF States
    <3>2. r = getValue(c, g, open) /\ r2 = getValue(c, h, open)
      BY <2>1, <2>2, <2>3 DEF EntryTurn, EntryPlaces
    <3> QED
      BY <2>4, <3>1, <3>2, ValueAgrees
  <2>6. r.ok => rest = rest2
    <3> SUFFICES ASSUME r.ok PROVE rest = rest2
      BY SMTT(30)
    <3>1. rest = GoOn(c, g, "dict", Dict(EmptyMap), end) /\ rest2 = GoOn(c, h, "dict", Dict(EmptyMap), end)
          /\ st.index < end.index
      BY <2>1, <2>2, <2>3, <2>5 DEF EntryPlaces, EntryTurn
    <3> QED
      BY <1>2, <2>4, <3>1
  <2>7. EntryTurn(c, h, st, k, key, r, rest2) /\ EntryTurn(c, g, st, k, key, r, rest)
    BY <2>2, <2>3, <2>5
  <2>8. CASE At(c, st).t = "e"
    BY <2>7, <2>8, Zenon DEF EntryTurn
  <2>9. CASE At(c, st).t # "e" /\ ~ k.ok
    BY <2>7, <2>9, Zenon DEF EntryTurn
  <2>10. CASE At(c, st).t # "e" /\ k.ok /\ ~ r.ok
    BY <2>7, <2>10, Zenon DEF EntryTurn
  <2>11. CASE At(c, st).t # "e" /\ k.ok /\ r.ok
    <3>1. EntryTurn(c, h, st, k, key, r, rest) /\ EntryTurn(c, g, st, k, key, r, rest)
      BY <2>6, <2>7, <2>11, Zenon
    <3>2. CASE rest.ok
      BY <2>11, <3>1, <3>2, Zenon DEF EntryTurn
    <3>3. CASE ~ rest.ok
      BY <2>11, <3>1, <3>3, Zenon DEF EntryTurn
    <3> QED
      BY <3>2, <3>3
  <2> QED
    BY <2>8, <2>9, <2>10, <2>11
<1> QED
  BY <1>3, <1>4 DEF Turn, st

\* So there is a function that is the parser: built from the end of the buffer on.
LEMMA ParserExists ==
  ASSUME NEW c \in Seq(Token)
  PROVE  \E g : g = [x \in Calls(c) |-> Turn(c, g, x)]
<1> DEFINE n == Len(c) + 1
           Low(k) == {x \in Calls(c) : n < x[2].index + k}
           Right(g, k) == \A x \in Low(k) : g[x] = Turn(c, g, x) /\ Stays(c, x[2], g[x])
           S == {k \in Nat : \E g : Right(g, k)}
<1>0. n \in Nat /\ \A x \in Calls(c) : x[2].index \in 1 .. n
  BY DEF Calls, States
<1>1. 0 \in S
  <2>1. Low(0) = {}
    BY <1>0
  <2>2. Right(0, 0)
    BY <2>1
  <2> HIDE DEF Right
  <2> QED
    BY <2>2
<1>2. ASSUME NEW k \in Nat, NEW g, Right(g, k), NEW x \in Low(k + 1)
      PROVE  StaysBeyond(c, g, x[2].index) /\ CallsBeyond(c, x[2].index) \subseteq Low(k)
  <2>1. CallsBeyond(c, x[2].index) \subseteq Low(k)
    BY <1>0 DEF CallsBeyond
  <2> QED
    BY <1>2, <2>1 DEF StaysBeyond
<1>3. ASSUME NEW k \in Nat, k \in S PROVE k + 1 \in S
  <2>1. PICK g : Right(g, k)
    BY <1>3
  <2> DEFINE h == [x \in Calls(c) |-> Turn(c, g, x)]
  <2>2. ASSUME NEW x \in Low(k) PROVE h[x] = g[x]
    BY <2>1
  <2>3. ASSUME NEW x \in Low(k + 1) PROVE h[x] = Turn(c, h, x) /\ Stays(c, x[2], h[x])
    <3>1. x \in Calls(c) /\ h[x] = Turn(c, g, x)
      OBVIOUS
    <3>2. StaysBeyond(c, g, x[2].index) /\ CallsBeyond(c, x[2].index) \subseteq Low(k)
      BY <1>2, <2>1
    <3>3. SameBeyond(c, g, h, x[2].index)
      BY <2>2, <3>2 DEF SameBeyond
    <3> HIDE DEF h
    <3> QED
      BY <3>1, <3>2, <3>3, TurnStays, TurnAgrees
  <2>4. Right(h, k + 1)
    BY <2>3
  <2> HIDE DEF Right
  <2> QED
    BY <2>4
<1> HIDE DEF S
<1>4. Nat \subseteq S
  BY <1>1, <1>3, NatSetInduction
<1>5. PICK g : Right(g, n)
  BY <1>0, <1>4 DEF S
<1>6. Low(n) = Calls(c)
  BY <1>0
<1> DEFINE f == [x \in Calls(c) |-> g[x]]
<1>7. ASSUME NEW x \in Calls(c) PROVE f[x] = Turn(c, f, x)
  <2>1. g[x] = Turn(c, g, x)
    BY <1>5, <1>6
  <2>2. StaysBeyond(c, g, x[2].index)
    BY <1>5, <1>6 DEF StaysBeyond, CallsBeyond
  <2>3. SameBeyond(c, g, f, x[2].index)
    BY DEF SameBeyond, CallsBeyond
  <2> HIDE DEF f
  <2>4. Turn(c, f, x) = Turn(c, g, x)
    BY <2>2, <2>3, TurnAgrees
  <2> QED
    BY <2>1, <2>4 DEF f
<1>8. f = [x \in Calls(c) |-> Turn(c, f, x)]
  BY <1>7
<1> QED
  BY <1>8

\* The parser is what its definition says, one turn after the other, and never goes back.
LEMMA ParserTurns ==
  ASSUME NEW c \in Seq(Token)
  PROVE  /\ Get(c) = [x \in Calls(c) |-> Turn(c, Get(c), x)]
         /\ \A x \in Calls(c) : Get(c)[x] = Turn(c, Get(c), x) /\ Stays(c, x[2], Get(c)[x])
<1>1. Get(c) = [x \in Calls(c) |-> Turn(c, Get(c), x)]
  <2> DEFINE Is(g) == g = [x \in Calls(c) |-> Turn(c, g, x)]
  <2>1. Get(c) = CHOOSE g : Is(g)
    BY DEF Get, Turn
  <2>2. \E g : Is(g)
    BY ParserExists
  <2> HIDE DEF Is
  <2>3. Is(Get(c))
    BY <2>1, <2>2
  <2> QED
    BY <2>3 DEF Is
<1>2. \A x \in Calls(c) : Get(c)[x] = Turn(c, Get(c), x)
  BY <1>1
<1> DEFINE Good == {x \in Calls(c) : Stays(c, x[2], Get(c)[x])}
<1>3. ASSUME NEW x \in Calls(c), CallsBeyond(c, x[2].index) \subseteq Good PROVE x \in Good
  <2>1. StaysBeyond(c, Get(c), x[2].index)
    BY <1>3 DEF StaysBeyond
  <2> QED
    BY <1>2, <2>1, TurnStays
<1> HIDE DEF Good
<1>4. Calls(c) \subseteq Good
  BY <1>3, CallInduction
<1> QED
  BY <1>1, <1>2, <1>4 DEF Good

-----------------------------------------------------------------------------
(* What the parser makes of tokens that are known: an entry, a list of       *)
(* files, an info section, a torrent file.                                  *)

\* What the parser makes of tokens that are known.
Later(st, k) == [st EXCEPT !.index = @ + k]

\* From st on the buffer has the tokens of s.
Holds(c, st, s) == \A j \in 1 .. Len(s) : st.index + j - 1 <= Len(c) /\ c[st.index + j - 1] = s[j]

\* k tokens further on, by its parts.
LEMMA LaterIs ==
  ASSUME NEW c \in Seq(Token), NEW st \in States(c), NEW k \in Nat
  PROVE  /\ Later(st, k) = [index |-> st.index + k, infoStart |-> st.infoStart, infoLength |-> st.infoLength]
         /\ st.index \in Nat /\ Advance(st) = Later(st, 1)
<1>1. st \in [index : Nat, infoStart : Nat, infoLength : Nat]
  BY DEF States
<1> QED
  BY <1>1 DEF Later, Advance

\* It is a state of the parser as long as there are k tokens.
LEMMA LaterStays ==
  ASSUME NEW c \in Seq(Token), NEW st \in States(c), NEW k \in Nat, st.index + k <= Len(c) + 1
  PROVE  /\ Later(st, k) \in States(c) /\ Later(st, k).index = st.index + k
         /\ Later(st, k).infoStart = st.infoStart /\ Later(st, k).infoLength = st.infoLength
         /\ Later(st, 0) = st /\ Advance(st) = Later(st, 1)
         /\ \A j \in Nat : Later(Later(st, k), j) = Later(st, k + j)
<1>1. Later(st, k) = [index |-> st.index + k, infoStart |-> st.infoStart, infoLength |-> st.infoLength]
      /\ Advance(st) = Later(st, 1)
  BY LaterIs
<1>2. Later(st, k) \in States(c)
  BY <1>1 DEF States
<1>3. Later(st, 0) = st
  <2>1. st \in [index : Nat, infoStart : Nat, infoLength : Nat]
    BY DEF States
  <2> QED
    BY <2>1 DEF Later
<1>4. ASSUME NEW j \in Nat PROVE Later(Later(st, k), j) = Later(st, k + j)
  <2>0. \A a \in States(c), i \in Nat :
          Later(a, i) = [index |-> a.index + i, infoStart |-> a.infoStart, infoLength |-> a.infoLength]
    BY LaterIs
  <2>1. Later(Later(st, k), j) = [index |-> (st.index + k) + j, infoStart |-> st.infoStart,
                                  infoLength |-> st.infoLength]
    <3>1. Later(st, k).index = st.index + k /\ Later(st, k).infoStart = st.infoStart
          /\ Later(st, k).infoLength = st.infoLength
      BY <1>1
    <3>2. Later(Later(st, k), j) = [index |-> Later(st, k).index + j, infoStart |-> Later(st, k).infoStart,
                                    infoLength |-> Later(st, k).infoLength]
      BY <1>2, <2>0
    <3> QED
      BY <3>1, <3>2
  <2>2. Later(st, k + j) = [index |-> st.index + (k + j), infoStart |-> st.infoStart,
                            infoLength |-> st.infoLength]
    <3>1. k + j \in Nat
      OBVIOUS
    <3> QED
      BY <2>0, <3>1
  <2>3. st.index + (k + j) = (st.index + k) + j
    BY LaterIs
  <2> QED
    BY <2>1, <2>2, <2>3
<1> QED
  BY <1>1, <1>2, <1>3, <1>4

\* Behind k of the tokens of s comes the next one.
LEMMA HoldsAt ==
  ASSUME NEW c \in Seq(Token), NEW st \in States(c), NEW s, Len(s) \in Nat, Holds(c, st, s),
         NEW k \in Nat, k < Len(s)
  PROVE  /\ Later(st, k) \in States(c) /\ Later(st, k).index <= Len(c)
         /\ At(c, Later(st, k)) = s[k + 1]
         /\ Advance(Later(st, k)) = Later(st, k + 1)
<1>0. st.index \in Nat /\ k + 1 \in 1 .. Len(s) /\ Len(c) \in Nat
  BY DEF States
<1>1. st.index + (k + 1) - 1 <= Len(c) /\ c[st.index + (k + 1) - 1] = s[k + 1]
  BY <1>0 DEF Holds
<1>2. st.index + (k + 1) - 1 = st.index + k
  BY <1>0
<1>3. Later(st, k) \in States(c) /\ Later(st, k).index = st.index + k
  BY <1>0, <1>1, <1>2, LaterStays
<1>4. At(c, Later(st, k)) = s[k + 1]
  BY <1>1, <1>2, <1>3 DEF At
<1>5. Advance(Later(st, k)) = Later(st, k + 1)
  <2>1. Advance(Later(st, k)) = Later(Later(st, k), 1)
    BY <1>3, LaterIs
  <2>2. st.index + k <= Len(c) + 1
    BY <1>0, <1>1, <1>2
  <2> QED
    BY <2>1, <2>2, LaterStays
<1> QED
  BY <1>1, <1>2, <1>3, <1>4, <1>5

\* An integer or a string is a value of one token.
LEMMA NumberRead ==
  ASSUME NEW c, NEW g, NEW st, At(c, st).t \in {"int", "str"}
  PROVE  getValue(c, g, st) = Found(At(c, st), Advance(st))
<1>1. CASE At(c, st).t = "int"
  <2>1. getInteger(c, st) = Found(At(c, st), Advance(st))
    BY <1>1 DEF getInteger
  <2>2. getInteger(c, st).ok
    BY <2>1 DEF Found
  <2> QED
    BY <2>1, <2>2 DEF getValue
<1>2. CASE At(c, st).t = "str"
  <2>1. getInteger(c, st) = Fail(st)
    BY <1>2 DEF getInteger
  <2>2. getInteger(c, st).ok = FALSE /\ getInteger(c, st).st = st
    BY <2>1 DEF Fail
  <2>3. getByteString(c, st) = Found(At(c, st), Advance(st))
    BY <1>2 DEF getByteString
  <2>4. getByteString(c, st).ok
    BY <2>3 DEF Found
  <2> QED
    BY <2>2, <2>3, <2>4 DEF getValue
<1> QED
  BY <1>1, <1>2

\* The value at a "d" is the dictionary behind it.
LEMMA DictionaryRead ==
  ASSUME NEW c, NEW g, NEW st, At(c, st) = D
  PROVE  getValue(c, g, st) = g[<<"dict", Advance(st)>>]
<1>0. At(c, st).t = "d"
  BY DEF D
<1>1. getInteger(c, st) = Fail(st) /\ getByteString(c, st) = Fail(st) /\ getList(c, g, st) = Fail(st)
  BY <1>0 DEF getInteger, getByteString, getList
<1>2. Fail(st).ok = FALSE /\ Fail(st).st = st
  BY DEF Fail
<1>3. getDictionary(c, g, st) = g[<<"dict", Advance(st)>>]
  BY <1>0 DEF getDictionary
<1> QED
  BY <1>1, <1>2, <1>3 DEF getValue

\* The value at an "l" is the list behind it, if it can be read.
LEMMA ListRead ==
  ASSUME NEW c, NEW g, NEW st, At(c, st) = L, g[<<"list", Advance(st)>>].ok
  PROVE  getValue(c, g, st) = g[<<"list", Advance(st)>>]
<1>0. At(c, st).t = "l"
  BY DEF L
<1>1. getInteger(c, st) = Fail(st) /\ getByteString(c, st) = Fail(st)
      /\ getList(c, g, st) = g[<<"list", Advance(st)>>]
  BY <1>0 DEF getInteger, getByteString, getList
<1>2. Fail(st).ok = FALSE /\ Fail(st).st = st
  BY DEF Fail
<1> QED
  BY <1>1, <1>2 DEF getValue

\* A call that is made is the turn it is about.
LEMMA CallIsTurn ==
  ASSUME NEW c \in Seq(Token), NEW st \in States(c)
  PROVE  /\ Get(c)[<<"list", st>>] = getElements(c, Get(c), st)
         /\ Get(c)[<<"dict", st>>] = getEntries(c, Get(c), st)
         /\ StaysBeyond(c, Get(c), st.index)
<1>1. <<"list", st>> \in Calls(c) /\ <<"dict", st>> \in Calls(c)
  BY DEF Calls
<1>2. <<"list", st>>[1] = "list" /\ <<"list", st>>[2] = st
      /\ <<"dict", st>>[1] = "dict" /\ <<"dict", st>>[2] = st
  OBVIOUS
<1>3. StaysBeyond(c, Get(c), st.index)
  BY ParserTurns DEF StaysBeyond, CallsBeyond
<1>4. Turn(c, Get(c), <<"list", st>>) = getElements(c, Get(c), st)
      /\ Turn(c, Get(c), <<"dict", st>>) = getEntries(c, Get(c), st)
  BY <1>2 DEF Turn
<1> QED
  BY <1>1, <1>3, <1>4, ParserTurns

\* At an "e" a list or a dictionary is over.
LEMMA EndRead ==
  ASSUME NEW c \in Seq(Token), NEW st \in States(c), At(c, st) = E
  PROVE  /\ Get(c)[<<"list", st>>] = Found(List(<<>>), Advance(st))
         /\ Get(c)[<<"dict", st>>] = Found(Dict(EmptyMap), Advance(st))
<1>1. At(c, st).t = "e"
  BY DEF E
<1>2. getElements(c, Get(c), st) = Found(List(<<>>), Advance(st))
  BY <1>1, ElementsTurn DEF ElementTurn
<1>3. getEntries(c, Get(c), st) = Found(Dict(EmptyMap), Advance(st))
  BY <1>1, EntriesTurn DEF EntryTurn
<1> QED
  BY <1>2, <1>3, CallIsTurn

\* A key and its value come before the entries behind them.
LEMMA EntryRead ==
  ASSUME NEW c \in Seq(Token), NEW st \in States(c), NEW key, At(c, st) = Str(key),
         NEW w, w = getValue(c, Get(c), OpenInfo(key, Advance(st))), w.ok,
         NEW end, end = CloseInfo(key, w.st), end.index <= Len(c),
         NEW rest, rest = Get(c)[<<"dict", end>>], rest.ok
  PROVE  Get(c)[<<"dict", st>>] = Found(Dict(WithEntry(rest.v.dict, key, w.v)), rest.st)
<1>1. At(c, st).t = "str" /\ At(c, st).str = key
  BY DEF Str
<1>2. PICK k, key2, r, rest2 : EntryTurn(c, Get(c), st, k, key2, r, rest2)
  BY EntriesTurn
<1>3. k = Found(At(c, st), Advance(st))
  BY <1>1, <1>2 DEF EntryTurn, getByteString
<1>4. k.ok = TRUE /\ k.v = At(c, st) /\ k.st = Advance(st)
  BY <1>3 DEF Found
<1>5. key2 = key /\ r = w
  BY <1>1, <1>2, <1>4 DEF EntryTurn
<1>6. rest2 = rest
  BY <1>2, <1>5 DEF EntryTurn, GoOn
<1>7. getEntries(c, Get(c), st) = Found(Dict(WithEntry(rest.v.dict, key, w.v)), rest.st)
  BY <1>1, <1>2, <1>4, <1>5, <1>6 DEF EntryTurn
<1> QED
  BY <1>7, CallIsTurn

\* A dictionary in a list comes before the elements behind it.
LEMMA ElementRead ==
  ASSUME NEW c \in Seq(Token), NEW st \in States(c), At(c, st) = D,
         NEW w, w = getValue(c, Get(c), st), w.ok, w.st.index <= Len(c),
         NEW rest, rest = Get(c)[<<"list", w.st>>], rest.ok
  PROVE  Get(c)[<<"list", st>>] = Found(List(<<w.v>> \o rest.v.list), rest.st)
<1>1. ElementTurn(c, Get(c), st, w, GoOn(c, Get(c), "list", List(<<>>), w.st))
  BY ElementsTurn
<1>2. GoOn(c, Get(c), "list", List(<<>>), w.st) = rest
  BY DEF GoOn
<1>3. getElements(c, Get(c), st) = Found(List(<<w.v>> \o rest.v.list), rest.st)
  <2>1. At(c, st).t # "e"
    BY DEF D
  <2> QED
    BY <1>1, <1>2, <2>1 DEF ElementTurn
<1> QED
  BY <1>3, CallIsTurn

\* An entry of a key that is not "info" and of one token, with something behind it.
PlainAt(s, k, key, tok) ==
  /\ k + 2 < Len(s) /\ s[k + 1] = Str(key) /\ key # "info"
  /\ s[k + 2] = tok /\ tok.t \in {"int", "str"}

\* Such an entry comes before the entries behind it.
LEMMA PlainEntry ==
  ASSUME NEW c \in Seq(Token), NEW st \in States(c), NEW s, Len(s) \in Nat, Holds(c, st, s),
         NEW k \in Nat, NEW key, NEW tok, PlainAt(s, k, key, tok),
         NEW map, NEW end, Get(c)[<<"dict", Later(st, k + 2)>>] = Found(Dict(map), end)
  PROVE  Get(c)[<<"dict", Later(st, k)>>] = Found(Dict(WithEntry(map, key, tok)), end)
<1>0. /\ k + 1 \in Nat /\ k + 1 < Len(s) /\ k + 2 \in Nat /\ k < Len(s) /\ k + 2 < Len(s)
      /\ (k + 1) + 1 = k + 2 /\ s[k + 1] = Str(key) /\ key # "info"
      /\ s[k + 2] = tok /\ tok.t \in {"int", "str"}
  BY DEF PlainAt
<1>1. At(c, Later(st, k)) = Str(key) /\ Advance(Later(st, k)) = Later(st, k + 1)
      /\ Later(st, k) \in States(c)
  BY <1>0, HoldsAt
<1>2. At(c, Later(st, k + 1)) = tok /\ Advance(Later(st, k + 1)) = Later(st, k + 2)
  BY <1>0, HoldsAt
<1>3. Later(st, k + 2).index <= Len(c)
  BY <1>0, HoldsAt
<1> DEFINE w == Found(tok, Later(st, k + 2))
<1>4. OpenInfo(key, Advance(Later(st, k))) = Later(st, k + 1)
  BY <1>0, <1>1 DEF OpenInfo
<1>5. getValue(c, Get(c), Later(st, k + 1)) = w
  BY <1>0, <1>2, NumberRead
<1>6. w.ok = TRUE /\ w.v = tok /\ w.st = Later(st, k + 2)
  BY DEF Found
<1>7. CloseInfo(key, w.st) = Later(st, k + 2)
  BY <1>0, <1>6 DEF CloseInfo
<1> DEFINE rest == Found(Dict(map), end)
<1>8. rest.ok = TRUE /\ rest.v.dict = map /\ rest.st = end
  BY DEF Found, Dict
<1> HIDE DEF w, rest
<1>9. Get(c)[<<"dict", Later(st, k)>>] = Found(Dict(WithEntry(rest.v.dict, key, w.v)), rest.st)
  BY <1>1, <1>3, <1>4, <1>5, <1>6, <1>7, <1>8, EntryRead DEF rest
<1> QED
  BY <1>6, <1>8, <1>9

\* The same of an "e" that is one of the tokens of s.
LEMMA EndHeld ==
  ASSUME NEW c \in Seq(Token), NEW st \in States(c), NEW s, Len(s) \in Nat, Holds(c, st, s),
         NEW k \in Nat, k < Len(s), s[k + 1] = E
  PROVE  /\ Get(c)[<<"dict", Later(st, k)>>] = Found(Dict(EmptyMap), Later(st, k + 1))
         /\ Get(c)[<<"list", Later(st, k)>>] = Found(List(<<>>), Later(st, k + 1))
<1>1. At(c, Later(st, k)) = E /\ Advance(Later(st, k)) = Later(st, k + 1) /\ Later(st, k) \in States(c)
  BY HoldsAt
<1> QED
  BY <1>1, EndRead

\* The entry of one file.
FileMap(n) == WithEntry(EmptyMap, "length", Num(n))

FileAt(s, k, key, n) ==
  /\ k + 3 < Len(s) /\ key # "info"
  /\ s[k + 1] = D /\ s[k + 2] = Str(key) /\ s[k + 3] = Num(n) /\ s[k + 4] = E

\* The entry of a file is read as its length.
LEMMA FileRead ==
  ASSUME NEW c \in Seq(Token), NEW st \in States(c), NEW s, Len(s) \in Nat, Holds(c, st, s),
         NEW k \in Nat, NEW key, NEW n, FileAt(s, k, key, n)
  PROVE  getValue(c, Get(c), Later(st, k)) = Found(Dict(WithEntry(EmptyMap, key, Num(n))), Later(st, k + 4))
<1>0. /\ k + 3 < Len(s) /\ key # "info"
      /\ s[k + 1] = D /\ s[k + 2] = Str(key) /\ s[k + 3] = Num(n) /\ s[k + 4] = E
  BY DEF FileAt
<1>1. PICK i \in Nat : i = k + 1
  OBVIOUS
<1>2. k < Len(s) /\ i + 2 \in Nat /\ i + 2 < Len(s)
  BY <1>0, <1>1
<1>3. s[i + 1] = Str(key) /\ s[i + 2] = Num(n) /\ s[(i + 2) + 1] = E
      /\ Later(st, (i + 2) + 1) = Later(st, k + 4) /\ Later(st, i) = Later(st, k + 1)
  <2>1. i + 1 = k + 2 /\ i + 2 = k + 3 /\ (i + 2) + 1 = k + 4
    BY <1>1
  <2> QED
    BY <1>0, <1>1, <2>1
<1>4. At(c, Later(st, k)) = D /\ Advance(Later(st, k)) = Later(st, i)
  BY <1>0, <1>1, <1>2, <1>3, HoldsAt
<1>5. getValue(c, Get(c), Later(st, k)) = Get(c)[<<"dict", Later(st, i)>>]
  BY <1>4, DictionaryRead
<1>6. Get(c)[<<"dict", Later(st, i + 2)>>] = Found(Dict(EmptyMap), Later(st, k + 4))
  BY <1>2, <1>3, EndHeld
<1>7. PICK tok, end, map : tok = Num(n) /\ end = Later(st, k + 4) /\ map = EmptyMap
  OBVIOUS
<1>8. PlainAt(s, i, key, tok)
  <2>1. tok.t \in {"int", "str"}
    BY <1>7 DEF Num
  <2> QED
    BY <1>0, <1>2, <1>3, <1>7, <2>1 DEF PlainAt
<1>9. Get(c)[<<"dict", Later(st, i + 2)>>] = Found(Dict(map), end)
  BY <1>3, <1>6, <1>7
<1>10. Get(c)[<<"dict", Later(st, i)>>] = Found(Dict(WithEntry(map, key, tok)), end)
  BY <1>8, <1>9, PlainEntry
<1> QED
  BY <1>3, <1>5, <1>7, <1>10

\* The entries of all files, and where each of them is.
LEMMA FileEntryAt ==
  ASSUME NEW sizes \in Seq(Nat), NEW a \in Nat, a < Len(sizes)
  PROVE  /\ FileEntries(sizes)[(4 * a) + 1] = D
         /\ FileEntries(sizes)[(4 * a) + 2] = Str("length")
         /\ FileEntries(sizes)[(4 * a) + 3] = Num(sizes[a + 1])
         /\ FileEntries(sizes)[(4 * a) + 4] = E
<1>1. ASSUME NEW j \in 0 .. 3
      PROVE  FileEntries(sizes)[(4 * a) + (j + 1)] = FileEntry(sizes[a + 1])[j + 1]
  <2>1. (4 * a) + (j + 1) \in 1 .. 4 * Len(sizes)
    OBVIOUS
  <2>2. (((4 * a) + (j + 1)) - 1) \div 4 = a /\ (((4 * a) + (j + 1)) - 1) % 4 = j
    OBVIOUS
  <2> QED
    BY <2>1, <2>2 DEF FileEntries
<1>2. FileEntry(sizes[a + 1]) = <<D, Str("length"), Num(sizes[a + 1]), E>>
  BY DEF FileEntry
<1>3. /\ FileEntries(sizes)[(4 * a) + (0 + 1)] = FileEntry(sizes[a + 1])[0 + 1]
      /\ FileEntries(sizes)[(4 * a) + (1 + 1)] = FileEntry(sizes[a + 1])[1 + 1]
      /\ FileEntries(sizes)[(4 * a) + (2 + 1)] = FileEntry(sizes[a + 1])[2 + 1]
      /\ FileEntries(sizes)[(4 * a) + (3 + 1)] = FileEntry(sizes[a + 1])[3 + 1]
  BY <1>1
<1> QED
  BY <1>2, <1>3

\* Sequences whose tokens do not matter.
Something(s) == {s[i] : i \in DOMAIN s}

\* The entries of all files have four tokens each.
LEMMA FileEntriesLength ==
  ASSUME NEW sizes \in Seq(Nat)
  PROVE  /\ FileEntries(sizes) \in Seq(Something(FileEntries(sizes)))
         /\ Len(FileEntries(sizes)) = 4 * Len(sizes)
<1> DEFINE n == 4 * Len(sizes)
           F == FileEntries(sizes)
<1>1. n \in Nat
  OBVIOUS
<1>2. DOMAIN F = 1 .. n /\ F = [i \in 1 .. n |-> F[i]]
  BY DEF FileEntries
<1> HIDE DEF n, F
<1>3. F \in [1 .. n -> Something(F)]
  BY <1>2 DEF Something
<1>4. F \in Seq(Something(F))
  BY <1>1, <1>3
<1>5. Len(F) = n
  BY <1>1, <1>2, <1>4
<1> QED
  BY <1>4, <1>5 DEF n, F

\* All files: the list from the k-th last one on, and behind it.
FileList(sizes, k) == [i \in 1 .. k |-> Dict(FileMap(sizes[(Len(sizes) - k) + i]))]

\* The list from one file further ahead has that file and the list behind it.
LEMMA FileListGrows ==
  ASSUME NEW sizes \in Seq(Nat), NEW k \in Nat, k < Len(sizes)
  PROVE  <<Dict(FileMap(sizes[Len(sizes) - k]))>> \o FileList(sizes, k) = FileList(sizes, k + 1)
<1> DEFINE n == Len(sizes)
           f(i) == Dict(FileMap(sizes[i]))
           S == {f(i) : i \in 1 .. n}
<1>0. n \in Nat
  OBVIOUS
<1> HIDE DEF n
<1>1. FileList(sizes, k) = [i \in 1 .. k |-> f((n - k) + i)]
      /\ FileList(sizes, k + 1) = [i \in 1 .. (k + 1) |-> f((n - (k + 1)) + i)]
  BY DEF FileList, n
<1>2. n - k \in 1 .. n /\ n - (k + 1) = (n - k) - 1
      /\ k \in Nat
      /\ (\A i \in 1 .. k : (n - k) + i \in 1 .. n)
      /\ (\A i \in 1 .. (k + 1) : ((n - k) - 1) + i \in 1 .. n)
  BY <1>0 DEF n
<1>3. FileList(sizes, k) \in Seq(S) /\ Len(FileList(sizes, k)) = k /\ f(n - k) \in S
  <2> HIDE DEF f
  <2>1. \A i \in 1 .. n : f(i) \in S
    OBVIOUS
  <2>2. \A i \in 1 .. k : f((n - k) + i) \in S
    BY <1>2, <2>1
  <2> HIDE DEF S
  <2>3. FileList(sizes, k) \in [1 .. k -> S]
    BY <1>1, <2>2
  <2> QED
    BY <1>2, <2>1, <2>3
<1>4. FileList(sizes, k + 1) \in Seq(S) /\ Len(FileList(sizes, k + 1)) = k + 1
  BY SMTT(30), <1>1, <1>2
<1> DEFINE u == <<f(n - k)>> \o FileList(sizes, k)
<1> HIDE DEF f
<1>5. u \in Seq(S) /\ Len(u) = k + 1 /\ u[1] = f(n - k)
      /\ \A i \in 2 .. (k + 1) : u[i] = FileList(sizes, k)[i - 1]
  BY <1>3
<1> HIDE DEF u
<1>6. ASSUME NEW i \in 1 .. (k + 1) PROVE u[i] = FileList(sizes, k + 1)[i]
  <2>1. FileList(sizes, k + 1)[i] = f(((n - k) - 1) + i)
    BY <1>1, <1>2
  <2>2. CASE i = 1
    <3>1. ((n - k) - 1) + i = n - k
      BY <1>0, <2>2
    <3> QED
      BY <1>5, <2>1, <2>2, <3>1
  <2>3. CASE i # 1
    <3>1. i \in 2 .. (k + 1) /\ i - 1 \in 1 .. k /\ (n - k) + (i - 1) = ((n - k) - 1) + i
      BY <1>0, <2>3
    <3>2. u[i] = f((n - k) + (i - 1))
      BY <1>1, <1>5, <3>1
    <3> QED
      BY <2>1, <3>1, <3>2
  <2> QED
    BY <2>2, <2>3
<1>7. u = FileList(sizes, k + 1)
  BY <1>4, <1>5, <1>6
<1> QED
  BY <1>7 DEF u, f, n

\* The list of all files is read file by file, from its end on.
LEMMA FilesRead ==
  ASSUME NEW c \in Seq(Token), NEW st \in States(c), NEW s, Len(s) \in Nat, Holds(c, st, s),
         NEW sizes \in Seq(Nat), NEW b \in Nat, b + (4 * Len(sizes)) < Len(s),
         \A j \in 1 .. 4 * Len(sizes) : s[b + j] = FileEntries(sizes)[j],
         s[b + (4 * Len(sizes)) + 1] = E
  PROVE  Get(c)[<<"list", Later(st, b)>>]
           = Found(List(FileList(sizes, Len(sizes))), Later(st, b + (4 * Len(sizes)) + 1))
<1> PICK n \in Nat : n = Len(sizes)
  OBVIOUS
<1> DEFINE end == Later(st, b + (4 * n) + 1)
           I == {k \in Nat : k <= n => Get(c)[<<"list", Later(st, b + (4 * (n - k)))>>]
                                          = Found(List(FileList(sizes, k)), end)}
<1>0. b + (4 * n) < Len(s) /\ (\A j \in 1 .. 4 * n : s[b + j] = FileEntries(sizes)[j])
      /\ s[(b + (4 * n)) + 1] = E /\ end = Later(st, (b + (4 * n)) + 1)
  OBVIOUS
<1> HIDE DEF end
<1>1. 0 \in I
  <2>1. n - 0 = n /\ FileList(sizes, 0) = <<>>
    BY <1>0 DEF FileList
  <2>2. b + (4 * n) \in Nat
    OBVIOUS
  <2>3. Get(c)[<<"list", Later(st, b + (4 * n))>>] = Found(List(<<>>), end)
    BY <1>0, <2>2, EndHeld
  <2> QED
    BY <2>1, <2>3
<1>2. ASSUME NEW k \in Nat, k \in I PROVE k + 1 \in I
  <2> SUFFICES ASSUME k + 1 <= n
               PROVE  Get(c)[<<"list", Later(st, b + (4 * (n - (k + 1))))>>]
                        = Found(List(FileList(sizes, k + 1)), end)
    BY SMTT(30)
  <2>1. PICK a \in Nat : a = n - (k + 1)
    BY <1>0
  <2>2. PICK p \in Nat : p = b + (4 * a)
    OBVIOUS
  <2>3. a < n /\ a + 1 = n - k /\ p + 4 = b + (4 * (n - k)) /\ p + 3 < Len(s) /\ p + 4 < Len(s)
    BY <1>0, <2>1, <2>2
  <2>4. /\ s[p + 1] = D /\ s[p + 2] = Str("length")
        /\ s[p + 3] = Num(sizes[a + 1]) /\ s[p + 4] = E
    <3>1. \A j \in 1 .. 4 : (4 * a) + j \in 1 .. 4 * n /\ p + j = b + ((4 * a) + j)
      BY SMTT(30), <1>0, <2>2, <2>3
    <3>2. \A j \in 1 .. 4 : s[p + j] = FileEntries(sizes)[(4 * a) + j]
      BY <3>1
    <3>3. FileEntries(sizes)[(4 * a) + 1] = D /\ FileEntries(sizes)[(4 * a) + 2] = Str("length")
          /\ FileEntries(sizes)[(4 * a) + 3] = Num(sizes[a + 1]) /\ FileEntries(sizes)[(4 * a) + 4] = E
      BY <2>3, FileEntryAt
    <3>4. 1 \in 1 .. 4 /\ 2 \in 1 .. 4 /\ 3 \in 1 .. 4 /\ 4 \in 1 .. 4
      OBVIOUS
    <3> QED
      BY <3>2, <3>3, <3>4
  <2>5. PICK size, v, key : size = sizes[a + 1] /\ v = Dict(FileMap(size)) /\ key = "length"
    OBVIOUS
  <2>6. getValue(c, Get(c), Later(st, p)) = Found(v, Later(st, p + 4))
    <3>1. s[p + 3] = Num(size) /\ s[p + 2] = Str(key)
      BY <2>4, <2>5
    <3>2. key # "info" /\ s[p + 1] = D /\ s[p + 4] = E
      BY <2>4, <2>5
    <3>3. FileAt(s, p, key, size)
      BY <2>3, <3>1, <3>2 DEF FileAt
    <3>4. getValue(c, Get(c), Later(st, p)) = Found(Dict(WithEntry(EmptyMap, key, Num(size))), Later(st, p + 4))
      BY <3>3, FileRead
    <3> QED
      BY <2>5, <3>4 DEF FileMap
  <2>7. Later(st, p) \in States(c) /\ At(c, Later(st, p)) = D /\ Later(st, p + 4).index <= Len(c)
    <3>1. p < Len(s) /\ p + 4 \in Nat
      BY <2>3
    <3>2. Later(st, p) \in States(c) /\ At(c, Later(st, p)) = s[p + 1]
      BY <3>1, HoldsAt
    <3>3. Later(st, p + 4).index <= Len(c)
      BY <2>3, <3>1, HoldsAt
    <3> QED
      BY <2>4, <3>2, <3>3
  <2>8. PICK w : w = Found(v, Later(st, p + 4))
    OBVIOUS
  <2>9. w.ok = TRUE /\ w.v = v /\ w.st = Later(st, p + 4)
    BY <2>8 DEF Found
  <2>10. PICK rest : rest = Found(List(FileList(sizes, k)), end)
    OBVIOUS
  <2>11. rest.ok = TRUE /\ rest.v.list = FileList(sizes, k) /\ rest.st = end
    BY <2>10 DEF Found, List
  <2>12. rest = Get(c)[<<"list", w.st>>]
    <3>1. Get(c)[<<"list", Later(st, b + (4 * (n - k)))>>] = rest
      BY <1>2, <2>10
    <3> QED
      BY <2>3, <2>9, <3>1
  <2>14. Get(c)[<<"list", Later(st, p)>>] = Found(List(<<w.v>> \o rest.v.list), rest.st)
    <3>1. PICK at \in States(c) : at = Later(st, p)
      BY <2>7
    <3>2. At(c, at) = D /\ w = getValue(c, Get(c), at) /\ w.ok /\ w.st.index <= Len(c) /\ rest.ok
      BY <2>6, <2>7, <2>8, <2>9, <2>11, <3>1
    <3>3. Get(c)[<<"list", at>>] = Found(List(<<w.v>> \o rest.v.list), rest.st)
      BY <2>12, <3>2, ElementRead
    <3> QED
      BY <3>1, <3>3
  <2>15. <<v>> \o FileList(sizes, k) = FileList(sizes, k + 1)
    <3>1. Len(sizes) - k = a + 1 /\ k < Len(sizes)
      BY <2>3
    <3> QED
      BY <2>5, <3>1, FileListGrows
  <2> QED
    BY <2>1, <2>2, <2>9, <2>11, <2>14, <2>15
<1> HIDE DEF I
<1>3. Nat \subseteq I
  BY <1>1, <1>2, NatSetInduction
<1>4. Get(c)[<<"list", Later(st, b + (4 * (n - n)))>>] = Found(List(FileList(sizes, n)), end)
  <2>1. n \in I /\ n <= n
    BY <1>0, <1>3
  <2> QED
    BY <2>1 DEF I
<1>5. b + (4 * (n - n)) = b
  BY <1>0
<1> QED
  BY <1>0, <1>4, <1>5

\* The end of an info section: the length of the pieces and their sums.
TailAt(s, k, size, sums) ==
  /\ k + 4 < Len(s)
  /\ s[k + 1] = Str("piece length") /\ s[k + 2] = Num(size)
  /\ s[k + 3] = Str("pieces") /\ s[k + 4] = Str(sums) /\ s[k + 5] = E

TailMap(size, sums) == WithEntry(WithEntry(EmptyMap, "pieces", Str(sums)), "piece length", Num(size))

\* That end is read as the length of the pieces and their sums.
LEMMA TailRead ==
  ASSUME NEW c \in Seq(Token), NEW st \in States(c), NEW s, Len(s) \in Nat, Holds(c, st, s),
         NEW k \in Nat, NEW size, NEW sums, TailAt(s, k, size, sums)
  PROVE  Get(c)[<<"dict", Later(st, k)>>] = Found(Dict(TailMap(size, sums)), Later(st, k + 5))
<1>1. PICK key1, key2, tok1, tok2, end, empty, map :
        /\ key1 = "piece length" /\ key2 = "pieces" /\ tok1 = Num(size) /\ tok2 = Str(sums)
        /\ end = Later(st, k + 5) /\ empty = EmptyMap /\ map = WithEntry(EmptyMap, "pieces", Str(sums))
  OBVIOUS
<1>2. PICK i \in Nat, j \in Nat : i = k + 2 /\ j = k + 4
  OBVIOUS
<1>3. k + 4 < Len(s) /\ s[k + 1] = Str(key1) /\ s[k + 2] = tok1
      /\ s[k + 3] = Str(key2) /\ s[k + 4] = tok2 /\ s[k + 5] = E
  BY <1>1 DEF TailAt
<1>4. i + 1 = k + 3 /\ i + 2 = j /\ j + 1 = k + 5 /\ k + 2 < Len(s) /\ i + 2 < Len(s) /\ j < Len(s)
  BY <1>2, <1>3
<1>5. key1 # "info" /\ key2 # "info" /\ tok1.t \in {"int", "str"} /\ tok2.t \in {"int", "str"}
  BY <1>1 DEF Num, Str
<1>6. PlainAt(s, k, key1, tok1) /\ PlainAt(s, i, key2, tok2)
  BY <1>2, <1>3, <1>4, <1>5 DEF PlainAt
<1>7. Get(c)[<<"dict", Later(st, i + 2)>>] = Found(Dict(empty), end)
  <2>1. s[j + 1] = E /\ Later(st, j + 1) = end
    BY <1>1, <1>3, <1>4
  <2>2. Get(c)[<<"dict", Later(st, j)>>] = Found(Dict(EmptyMap), Later(st, j + 1))
    BY <1>4, <2>1, EndHeld
  <2> QED
    BY <1>1, <1>4, <2>1, <2>2
<1>8. Get(c)[<<"dict", Later(st, i)>>] = Found(Dict(WithEntry(empty, key2, tok2)), end)
  BY <1>6, <1>7, PlainEntry
<1>9. WithEntry(empty, key2, tok2) = map
  BY <1>1
<1>10. Get(c)[<<"dict", Later(st, k + 2)>>] = Found(Dict(map), end)
  BY <1>2, <1>8, <1>9
<1>11. Get(c)[<<"dict", Later(st, k)>>] = Found(Dict(WithEntry(map, key1, tok1)), end)
  BY <1>6, <1>10, PlainEntry
<1>12. WithEntry(map, key1, tok1) = TailMap(size, sums)
  BY <1>1 DEF TailMap
<1> QED
  BY <1>1, <1>11, <1>12

Torrent(t) ==
  /\ t.form \in {"single", "multi"} /\ t.lengths \in Seq(Nat) /\ t.pieceLength \in Nat
  /\ t.form = "single" => Len(t.lengths) = 1
  /\ t.pieces \in DOMAIN SumCount

\* Joining sequences, token by token.
Joined(S, u, v, s, a, b) ==
  /\ s \in Seq(S) /\ Len(s) = a + b
  /\ \A i \in 1 .. a : s[i] = u[i]
  /\ \A i \in 1 .. b : s[a + i] = v[i]

\* The tokens of two sequences that are put one after the other.
LEMMA JoinAt ==
  ASSUME NEW S, NEW u \in Seq(S), NEW v \in Seq(S), NEW a, NEW b, Len(u) = a, Len(v) = b,
         NEW s, s = u \o v
  PROVE  Joined(S, u, v, s, a, b)
<1>1. s \in Seq(S) /\ Len(s) = a + b /\ a \in Nat /\ b \in Nat
      /\ \A i \in 1 .. a + b : s[i] = IF i <= a THEN u[i] ELSE v[i - a]
  <2>1. a \in Nat /\ b \in Nat
    OBVIOUS
  <2>2. /\ u \o v \in Seq(S) /\ Len(u \o v) = Len(u) + Len(v)
        /\ \A i \in 1 .. Len(u) + Len(v) : (u \o v)[i] = IF i <= Len(u) THEN u[i] ELSE v[i - Len(u)]
    BY ONLY u \in Seq(S), v \in Seq(S), ConcatProperties
  <2> QED
    BY <2>1, <2>2
<1>2. \A i \in 1 .. a : s[i] = u[i]
  BY <1>1
<1>3. ASSUME NEW i \in 1 .. b PROVE s[a + i] = v[i]
  <2>1. a + i \in 1 .. a + b /\ ~ (a + i <= a) /\ (a + i) - a = i
    BY <1>1
  <2> QED
    BY <1>1, <2>1
<1> QED
  BY <1>1, <1>2, <1>3 DEF Joined

\* Sequences of tokens, written out.
LEMMA SmallSeqs ==
  ASSUME NEW S, NEW a \in S, NEW b \in S, NEW c \in S, NEW d \in S, NEW e \in S
  PROVE  <<a>> \in Seq(S) /\ <<a, b, c>> \in Seq(S) /\ <<a, b, c, d, e>> \in Seq(S)
OBVIOUS

\* A sequence over a set is one over a larger set.
LEMMA SeqOfMore ==
  ASSUME NEW S, NEW A, A \subseteq S, NEW u \in Seq(A)
  PROVE  u \in Seq(S)
OBVIOUS

\* The tokens of an info section, by their places.
SingleAt(s, t) ==
  /\ Len(s) = 8 /\ s[1] = D /\ s[2] = Str("length") /\ s[3] = Num(t.lengths[1])
  /\ TailAt(s, 3, t.pieceLength, t.pieces)

MultiAt(s, t, n) ==
  /\ Len(s) = (4 * n) + 9 /\ s[1] = D /\ s[2] = Str("files") /\ s[3] = L
  /\ \A j \in 1 .. 4 * n : s[3 + j] = FileEntries(t.lengths)[j]
  /\ s[3 + (4 * n) + 1] = E
  /\ TailAt(s, (4 * n) + 4, t.pieceLength, t.pieces)

\* The tokens of an info section are where their maker put them.
LEMMA InfoTokens ==
  ASSUME NEW t, Torrent(t)
  PROVE  /\ t.form = "single" => SingleAt(InfoOf(t), t)
         /\ t.form # "single" => MultiAt(InfoOf(t), t, Len(t.lengths))
         /\ Len(InfoOf(t)) \in Nat /\ Len(InfoOf(t)) > 0 /\ InfoOf(t)[1] = D
         /\ \E S : InfoOf(t) \in Seq(S)
<1> DEFINE tail == <<Str("piece length"), Num(t.pieceLength), Str("pieces"), Str(t.pieces), E>>
           one == <<D, Str("length"), Num(t.lengths[1])>>
           open == <<D, Str("files"), L>>
           close == <<E>>
           F == FileEntries(t.lengths)
           n == Len(t.lengths)
           S == {Str("piece length"), Num(t.pieceLength), Str("pieces"), Str(t.pieces), E, D, L,
                 Str("length"), Num(t.lengths[1]), Str("files")} \cup Something(F)
<1>1. /\ tail[1] = Str("piece length") /\ tail[2] = Num(t.pieceLength) /\ tail[3] = Str("pieces")
      /\ tail[4] = Str(t.pieces) /\ tail[5] = E /\ Len(tail) = 5
  OBVIOUS
<1>2. one[1] = D /\ one[2] = Str("length") /\ one[3] = Num(t.lengths[1]) /\ Len(one) = 3
  OBVIOUS
<1>3. open[1] = D /\ open[2] = Str("files") /\ open[3] = L /\ Len(open) = 3
  OBVIOUS
<1>4. close[1] = E /\ Len(close) = 1
  OBVIOUS
<1>5. F \in Seq(Something(F)) /\ Len(F) = 4 * n /\ n \in Nat
  BY FileEntriesLength DEF Torrent
<1>6. tail \in Seq(S) /\ one \in Seq(S) /\ open \in Seq(S) /\ close \in Seq(S) /\ F \in Seq(S)
  <2> HIDE DEF F
  <2>1. Something(F) \subseteq S
    OBVIOUS
  <2>2. /\ E \in S /\ D \in S /\ L \in S /\ Str("piece length") \in S /\ Num(t.pieceLength) \in S
        /\ Str("pieces") \in S /\ Str(t.pieces) \in S /\ Str("length") \in S
        /\ Num(t.lengths[1]) \in S /\ Str("files") \in S
    OBVIOUS
  <2> HIDE DEF S
  <2>3. F \in Seq(S)
    BY <1>5, <2>1, SeqOfMore
  <2>4. tail \in Seq(S)
    BY <2>2, SmallSeqs
  <2>5. one \in Seq(S) /\ open \in Seq(S) /\ close \in Seq(S)
    BY <2>2, SmallSeqs
  <2> QED
    BY <2>3, <2>4, <2>5
<1>7. InfoOf(t) = (IF t.form = "single" THEN one ELSE (open \o F) \o close) \o tail
  BY DEF InfoOf
<1> HIDE DEF tail, one, open, close, F, S, n
<1>8. CASE t.form = "single"
  <2>1. InfoOf(t) = one \o tail
    BY <1>7, <1>8
  <2>2. PICK s : s = one \o tail
    OBVIOUS
  <2>3. s \in Seq(S) /\ Len(s) = 8 /\ (\A i \in 1 .. 3 : s[i] = one[i]) /\ \A i \in 1 .. 5 : s[3 + i] = tail[i]
    <3>1. Joined(S, one, tail, s, 3, 5)
      BY <1>1, <1>2, <1>6, <2>2, JoinAt
    <3> QED
      BY <3>1 DEF Joined
  <2>4. s[1] = one[1] /\ s[2] = one[2] /\ s[3] = one[3] /\ s[3 + 1] = tail[1] /\ s[3 + 2] = tail[2]
        /\ s[3 + 3] = tail[3] /\ s[3 + 4] = tail[4] /\ s[3 + 5] = tail[5] /\ 3 + 4 < Len(s)
    BY <2>3
  <2>5. TailAt(s, 3, t.pieceLength, t.pieces)
    BY <1>1, <2>4 DEF TailAt
  <2>6. SingleAt(s, t)
    BY <1>2, <2>3, <2>4, <2>5 DEF SingleAt
  <2> QED
    BY <1>2, <1>8, <2>1, <2>2, <2>3, <2>4, <2>6
<1>9. CASE t.form # "single"
  <2>1. InfoOf(t) = ((open \o F) \o close) \o tail
    BY <1>7, <1>9
  <2>2. PICK a, b, s : a = open \o F /\ b = a \o close /\ s = b \o tail
    OBVIOUS
  <2>3. PICK m \in Nat : m = 4 * n
    BY <1>5
  <2>4. a \in Seq(S) /\ Len(a) = 3 + m /\ (\A i \in 1 .. 3 : a[i] = open[i]) /\ \A i \in 1 .. m : a[3 + i] = F[i]
    <3>1. Joined(S, open, F, a, 3, m)
      BY <1>3, <1>5, <1>6, <2>2, <2>3, JoinAt
    <3> QED
      BY <3>1 DEF Joined
  <2>5. b \in Seq(S) /\ Len(b) = (3 + m) + 1 /\ (\A i \in 1 .. 3 + m : b[i] = a[i]) /\ b[(3 + m) + 1] = E
    <3>1. b \in Seq(S) /\ Len(b) = (3 + m) + 1 /\ (\A i \in 1 .. 3 + m : b[i] = a[i])
          /\ \A i \in 1 .. 1 : b[(3 + m) + i] = close[i]
      <4>1. Joined(S, a, close, b, 3 + m, 1)
        BY <1>4, <1>6, <2>2, <2>4, JoinAt
      <4> QED
        BY <4>1 DEF Joined
    <3> QED
      BY <1>4, <3>1
  <2>6. s \in Seq(S) /\ Len(s) = ((3 + m) + 1) + 5 /\ (\A i \in 1 .. (3 + m) + 1 : s[i] = b[i])
        /\ \A i \in 1 .. 5 : s[((3 + m) + 1) + i] = tail[i]
    <3>1. Joined(S, b, tail, s, (3 + m) + 1, 5)
      BY <1>1, <1>6, <2>2, <2>5, JoinAt
    <3> QED
      BY <3>1 DEF Joined
  <2>7. s[1] = D /\ s[2] = open[2] /\ s[3] = open[3]
    <3>1. \A i \in 1 .. 3 : s[i] = open[i]
      BY <2>4, <2>5, <2>6
    <3> QED
      BY <1>3, <3>1
  <2>8. \A j \in 1 .. m : s[3 + j] = F[j]
    <3>1. \A j \in 1 .. m : 3 + j \in 1 .. 3 + m /\ 3 + j \in 1 .. (3 + m) + 1
      OBVIOUS
    <3> QED
      BY <2>4, <2>5, <2>6, <3>1
  <2>9. s[(3 + m) + 1] = E
    BY <2>5, <2>6
  <2>10. TailAt(s, m + 4, t.pieceLength, t.pieces)
    <3>1. (3 + m) + 1 = m + 4 /\ (m + 4) + 4 < Len(s)
      BY <2>6
    <3>2. s[(m + 4) + 1] = tail[1] /\ s[(m + 4) + 2] = tail[2] /\ s[(m + 4) + 3] = tail[3]
          /\ s[(m + 4) + 4] = tail[4] /\ s[(m + 4) + 5] = tail[5]
      BY <2>6, <3>1
    <3> QED
      BY <1>1, <3>1, <3>2 DEF TailAt
  <2>11. MultiAt(s, t, n)
    <3>1. Len(s) = (4 * n) + 9 /\ s[3 + (4 * n) + 1] = E
      BY <2>3, <2>6, <2>9
    <3> QED
      BY <1>3, <2>3, <2>7, <2>8, <2>10, <3>1 DEF MultiAt, F
  <2>12. InfoOf(t) = s /\ Len(s) \in Nat /\ Len(s) > 0
    BY <2>1, <2>2, <2>6
  <2> QED
    BY <1>9, <2>6, <2>7, <2>11, <2>12 DEF n
<1> QED
  BY <1>8, <1>9

\* What the parser makes of an info section.
InfoMap(t) ==
  IF t.form = "single"
  THEN WithEntry(TailMap(t.pieceLength, t.pieces), "length", Num(t.lengths[1]))
  ELSE WithEntry(TailMap(t.pieceLength, t.pieces), "files", List(FileList(t.lengths, Len(t.lengths))))

\* The info section of one file is read as its map.
LEMMA SingleRead ==
  ASSUME NEW c \in Seq(Token), NEW st \in States(c), NEW s, Len(s) \in Nat, Holds(c, st, s),
         NEW t, SingleAt(s, t), t.form = "single"
  PROVE  Get(c)[<<"dict", Later(st, 1)>>] = Found(Dict(InfoMap(t)), Later(st, 8))
<1>1. PICK key, tok, map, end :
        /\ key = "length" /\ tok = Num(t.lengths[1])
        /\ map = TailMap(t.pieceLength, t.pieces) /\ end = Later(st, 8)
  OBVIOUS
<1>2. PICK i \in Nat, j \in Nat : i = 1 /\ j = 3
  OBVIOUS
<1>3. Len(s) = 8 /\ s[i + 1] = Str(key) /\ s[i + 2] = tok /\ TailAt(s, j, t.pieceLength, t.pieces)
  <2>1. i + 1 = 2 /\ i + 2 = 3
    BY <1>2
  <2> QED
    BY <1>1, <1>2, <2>1 DEF SingleAt
<1>4. PlainAt(s, i, key, tok)
  <2>1. key # "info" /\ tok.t \in {"int", "str"}
    BY <1>1 DEF Num
  <2> QED
    BY <1>2, <1>3, <2>1 DEF PlainAt
<1>5. Get(c)[<<"dict", Later(st, i + 2)>>] = Found(Dict(map), end)
  <2>1. Get(c)[<<"dict", Later(st, j)>>] = Found(Dict(TailMap(t.pieceLength, t.pieces)), Later(st, j + 5))
    BY <1>3, TailRead
  <2>2. i + 2 = j /\ j + 5 = 8
    BY <1>2
  <2> QED
    BY <1>1, <2>1, <2>2
<1>6. Get(c)[<<"dict", Later(st, i)>>] = Found(Dict(WithEntry(map, key, tok)), end)
  BY <1>4, <1>5, PlainEntry
<1>7. WithEntry(map, key, tok) = InfoMap(t)
  BY <1>1 DEF InfoMap
<1> QED
  BY <1>1, <1>2, <1>6, <1>7

\* The info section of several files is read as its map.
LEMMA MultiRead ==
  ASSUME NEW c \in Seq(Token), NEW st \in States(c), NEW s, Len(s) \in Nat, Holds(c, st, s),
         NEW t, Torrent(t), NEW n, n = Len(t.lengths), MultiAt(s, t, n), t.form # "single"
  PROVE  Get(c)[<<"dict", Later(st, 1)>>] = Found(Dict(InfoMap(t)), Later(st, Len(s)))
<1>1. PICK key, map, end, list, v :
        /\ key = "files" /\ list = FileList(t.lengths, Len(t.lengths)) /\ v = List(list)
        /\ map = TailMap(t.pieceLength, t.pieces) /\ end = Later(st, Len(s))
  OBVIOUS
<1>2. t.lengths \in Seq(Nat) /\ n \in Nat
  BY DEF Torrent
<1>3. PICK b \in Nat, m \in Nat, k \in Nat : b = 3 /\ m = 4 * n /\ k = (4 * n) + 4
  <2>1. PICK m \in Nat : m = 4 * n
    BY <1>2
  <2>2. 3 \in Nat /\ m + 4 \in Nat
    OBVIOUS
  <2> QED
    BY <2>1, <2>2
<1>4. /\ Len(s) = k + 5 /\ b + m < Len(s) /\ (b + m) + 1 = k /\ b < Len(s) /\ k < Len(s)
      /\ s[1] = D /\ s[2] = Str(key) /\ s[3] = L
      /\ (\A j \in 1 .. m : s[b + j] = FileEntries(t.lengths)[j]) /\ s[(b + m) + 1] = E
      /\ TailAt(s, k, t.pieceLength, t.pieces)
  BY <1>1, <1>2, <1>3 DEF MultiAt
<1>5. Get(c)[<<"list", Later(st, 3)>>] = Found(v, Later(st, k))
  <2>1. b + (4 * Len(t.lengths)) < Len(s) /\ s[b + (4 * Len(t.lengths)) + 1] = E
        /\ \A j \in 1 .. 4 * Len(t.lengths) : s[b + j] = FileEntries(t.lengths)[j]
    BY <1>3, <1>4
  <2>2. PICK sizes \in Seq(Nat) : sizes = t.lengths
    BY <1>2
  <2>3. Get(c)[<<"list", Later(st, b)>>]
          = Found(List(FileList(sizes, Len(sizes))), Later(st, b + (4 * Len(sizes)) + 1))
    BY <2>1, <2>2, FilesRead
  <2>4. b + (4 * Len(sizes)) + 1 = k /\ b = 3
    BY <1>3, <1>4, <2>2
  <2> QED
    BY <1>1, <2>2, <2>3, <2>4
<1>6. /\ Later(st, 1) \in States(c) /\ At(c, Later(st, 1)) = Str(key)
      /\ Advance(Later(st, 1)) = Later(st, 2)
      /\ At(c, Later(st, 2)) = L /\ Advance(Later(st, 2)) = Later(st, 3)
      /\ Later(st, k).index <= Len(c)
  <2>1. 1 < Len(s) /\ 2 < Len(s) /\ 1 + 1 = 2 /\ 2 + 1 = 3
    BY SMTT(30), <1>3, <1>4
  <2>2. Later(st, 1) \in States(c) /\ At(c, Later(st, 1)) = s[2] /\ Advance(Later(st, 1)) = Later(st, 2)
    BY <2>1, HoldsAt
  <2>3. At(c, Later(st, 2)) = s[3] /\ Advance(Later(st, 2)) = Later(st, 3)
    BY <2>1, HoldsAt
  <2>4. Later(st, k).index <= Len(c)
    BY <1>4, HoldsAt
  <2> QED
    BY <1>4, <2>2, <2>3, <2>4
<1>7. PICK w : w = Found(v, Later(st, k))
  OBVIOUS
<1>8. w.ok = TRUE /\ w.v = v /\ w.st = Later(st, k)
  BY <1>7 DEF Found
<1>9. getValue(c, Get(c), Later(st, 2)) = w
  <2>1. Get(c)[<<"list", Advance(Later(st, 2))>>] = w /\ w.ok
    BY <1>5, <1>6, <1>7, <1>8
  <2> QED
    BY <1>6, <2>1, ListRead
<1>10. OpenInfo(key, Advance(Later(st, 1))) = Later(st, 2) /\ CloseInfo(key, w.st) = Later(st, k)
  BY <1>1, <1>6, <1>8 DEF OpenInfo, CloseInfo
<1>11. PICK rest : rest = Found(Dict(map), end)
  OBVIOUS
<1>12. rest.ok = TRUE /\ rest.v.dict = map /\ rest.st = end
  BY <1>11 DEF Found, Dict
<1>13. Get(c)[<<"dict", Later(st, k)>>] = rest
  <2>1. Get(c)[<<"dict", Later(st, k)>>] = Found(Dict(TailMap(t.pieceLength, t.pieces)), Later(st, k + 5))
    BY <1>4, TailRead
  <2> QED
    BY <1>1, <1>4, <1>11, <2>1
<1>14. Get(c)[<<"dict", Later(st, 1)>>] = Found(Dict(WithEntry(rest.v.dict, key, w.v)), rest.st)
  <2>1. PICK at, past : at \in States(c) /\ at = Later(st, 1) /\ past = Later(st, k)
    BY <1>6
  <2>2. At(c, at) = Str(key) /\ w = getValue(c, Get(c), OpenInfo(key, Advance(at))) /\ w.ok
        /\ past = CloseInfo(key, w.st) /\ past.index <= Len(c)
        /\ rest = Get(c)[<<"dict", past>>] /\ rest.ok
    BY <1>6, <1>8, <1>9, <1>10, <1>12, <1>13, <2>1
  <2>3. Get(c)[<<"dict", at>>] = Found(Dict(WithEntry(rest.v.dict, key, w.v)), rest.st)
    BY <2>1, <2>2, EntryRead
  <2> QED
    BY <2>1, <2>3
<1>15. WithEntry(map, key, v) = InfoMap(t)
  BY <1>1 DEF InfoMap
<1> QED
  BY <1>1, <1>8, <1>12, <1>14, <1>15

\* Wherever an info section is, it is read as what its maker put into it, to its end.
LEMMA InfoRead ==
  ASSUME NEW c \in Seq(Token), NEW st \in States(c), NEW t, Torrent(t), Holds(c, st, InfoOf(t))
  PROVE  getValue(c, Get(c), st) = Found(Dict(InfoMap(t)), Later(st, Len(InfoOf(t))))
<1>1. PICK s : s = InfoOf(t)
  OBVIOUS
<1>2. Len(s) \in Nat /\ 0 < Len(s) /\ s[1] = D /\ Holds(c, st, s)
  BY <1>1, InfoTokens
<1>3. At(c, st) = D /\ Advance(st) = Later(st, 1)
  <2>1. At(c, Later(st, 0)) = s[0 + 1]
    BY <1>2, HoldsAt
  <2>2. st.index + 0 <= Len(c) + 1
    BY DEF States
  <2>3. Later(st, 0) = st /\ Advance(st) = Later(st, 1)
    BY <2>2, LaterStays
  <2> QED
    BY <1>2, <2>1, <2>3
<1>4. getValue(c, Get(c), st) = Get(c)[<<"dict", Later(st, 1)>>]
  BY <1>3, DictionaryRead
<1>5. CASE t.form = "single"
  <2>1. SingleAt(s, t) /\ Len(s) = 8
    BY <1>1, <1>5, InfoTokens DEF SingleAt
  <2> QED
    BY <1>1, <1>2, <1>4, <1>5, <2>1, SingleRead
<1>6. CASE t.form # "single"
  <2>1. MultiAt(s, t, Len(t.lengths))
    BY <1>1, <1>6, InfoTokens
  <2> QED
    BY <1>1, <1>2, <1>4, <1>6, <2>1, MultiRead
<1> QED
  BY <1>5, <1>6

\* A state by its three parts.
Place(i, a, l) == [index |-> i, infoStart |-> a, infoLength |-> l]

\* Such a state, and the token there.
LEMMA PlaceIs ==
  ASSUME NEW c \in Seq(Token), NEW i \in Nat, NEW a \in Nat, NEW l \in Nat,
         0 < a, a <= i, i <= Len(c), l <= Len(c)
  PROVE  /\ Place(i, a, l) \in States(c) /\ Place(i, a, l).index = i
         /\ At(c, Place(i, a, l)) = c[i] /\ Advance(Place(i, a, l)) = Place(i + 1, a, l)
<1>1. Place(i, a, l) \in States(c)
  BY DEF Place, States
<1>2. At(c, Place(i, a, l)) = c[i]
  BY DEF Place, At
<1>3. Advance(Place(i, a, l)) = Place(i + 1, a, l)
  BY DEF Place, Advance
<1> QED
  BY <1>1, <1>2, <1>3 DEF Place

\* What the keys do to such a state.
LEMMA PlaceOpens ==
  ASSUME NEW i, NEW a, NEW l, NEW key
  PROVE  /\ key = "info" => OpenInfo(key, Place(i, a, l)) = Place(i, i, l)
                            /\ CloseInfo(key, Place(i, a, l)) = Place(i, a, i - a)
         /\ key # "info" => OpenInfo(key, Place(i, a, l)) = Place(i, a, l)
                            /\ CloseInfo(key, Place(i, a, l)) = Place(i, a, l)
BY DEF Place, OpenInfo, CloseInfo

\* The tokens of a torrent file.
DocumentAt(c, s, key, tok, info) ==
  /\ Len(c) = Len(s) + 5 /\ c[1] = D /\ c[2] = Str(key) /\ c[3] = tok /\ c[4] = Str(info)
  /\ \A i \in 1 .. Len(s) : c[4 + i] = s[i]
  /\ c[Len(s) + 5] = E

\* The tokens of a torrent file are where their maker put them.
LEMMA DocumentTokens ==
  ASSUME NEW t, Torrent(t)
  PROVE  DocumentAt(DocumentOf(t), InfoOf(t), "announce", Str("url"), "info")
<1>1. PICK s, S : s = InfoOf(t) /\ s \in Seq(S) /\ Len(s) \in Nat
  BY InfoTokens
<1>2. PICK n \in Nat : n = Len(s)
  BY <1>1
<1> DEFINE head == <<D, Str("announce"), Str("url"), Str("info")>>
           close == <<E>>
           T == S \cup {D, Str("announce"), Str("url"), Str("info"), E}
<1>3. head[1] = D /\ head[2] = Str("announce") /\ head[3] = Str("url") /\ head[4] = Str("info")
      /\ Len(head) = 4 /\ close[1] = E /\ Len(close) = 1
  OBVIOUS
<1>4. head \in Seq(T) /\ close \in Seq(T) /\ s \in Seq(T)
  <2>1. D \in T /\ Str("announce") \in T /\ Str("url") \in T /\ Str("info") \in T /\ E \in T
        /\ S \subseteq T
    OBVIOUS
  <2> HIDE DEF T
  <2>2. head \in Seq(T) /\ close \in Seq(T)
    BY <2>1
  <2> QED
    BY <1>1, <2>1, <2>2, SeqOfMore
<1>5. DocumentOf(t) = (head \o s) \o close
  BY <1>1 DEF DocumentOf
<1> HIDE DEF head, close, T
<1>6. PICK a, c : a = head \o s /\ c = a \o close
  OBVIOUS
<1>7. a \in Seq(T) /\ Len(a) = 4 + n /\ (\A i \in 1 .. 4 : a[i] = head[i]) /\ \A i \in 1 .. n : a[4 + i] = s[i]
  <2>1. Joined(T, head, s, a, 4, n)
    BY <1>2, <1>3, <1>4, <1>6, JoinAt
  <2> QED
    BY <2>1 DEF Joined
<1>8. Len(c) = (4 + n) + 1 /\ (\A i \in 1 .. 4 + n : c[i] = a[i])
      /\ \A i \in 1 .. 1 : c[(4 + n) + i] = close[i]
  <2>1. Joined(T, a, close, c, 4 + n, 1)
    BY <1>3, <1>4, <1>6, <1>7, JoinAt
  <2> QED
    BY <2>1 DEF Joined
<1>9. c[1] = head[1] /\ c[2] = head[2] /\ c[3] = head[3] /\ c[4] = head[4]
  BY <1>7, <1>8
<1>10. \A i \in 1 .. n : c[4 + i] = s[i]
  <2>1. \A i \in 1 .. n : 4 + i \in 1 .. 4 + n
    OBVIOUS
  <2> QED
    BY <1>7, <1>8, <2>1
<1>11. Len(c) = n + 5 /\ c[n + 5] = close[1]
  BY <1>8
<1>12. c = DocumentOf(t)
  BY <1>5, <1>6
<1> QED
  BY <1>1, <1>2, <1>3, <1>9, <1>10, <1>11, <1>12 DEF DocumentAt

\* What the parser makes of a torrent file, and where it has been.
DocumentMap(t) == WithEntry(WithEntry(EmptyMap, "info", Dict(InfoMap(t))), "announce", Str("url"))

\* A torrent file is read to its end, and its info section is the last thing remembered.
LEMMA DocumentRead ==
  ASSUME NEW t, Torrent(t), NEW c \in Seq(Token), c = DocumentOf(t), NEW n \in Nat, n = Len(InfoOf(t))
  PROVE  ParseDictionary(c) = Found(Dict(DocumentMap(t)), Place(6 + n, 5, n))
<1>1. PICK key, tok, info, s : key = "announce" /\ tok = Str("url") /\ info = "info" /\ s = InfoOf(t)
  OBVIOUS
<1>2. n = Len(s) /\ DocumentAt(c, s, key, tok, info)
  BY <1>1, DocumentTokens
<1>3. key # "info" /\ info = "info" /\ tok.t \in {"int", "str"}
  BY <1>1 DEF Str
<1>4. PICK at1, at2, at3, at4, at5, past5, past6 :
        /\ at1 = Place(1, 1, 0) /\ at2 = Place(2, 1, 0) /\ at3 = Place(3, 1, 0) /\ at4 = Place(4, 1, 0)
        /\ at5 = Place(5, 5, 0) /\ past5 = Place(5 + n, 5, n) /\ past6 = Place(6 + n, 5, n)
  OBVIOUS
<1>5. /\ Len(c) = n + 5 /\ c[1] = D /\ c[2] = Str(key) /\ c[3] = tok /\ c[4] = Str(info)
      /\ (\A i \in 1 .. n : c[4 + i] = s[i]) /\ c[5 + n] = E
  BY <1>2 DEF DocumentAt
<1>6. /\ at1 \in States(c) /\ At(c, at1) = D /\ Advance(at1) = at2
      /\ at2 \in States(c) /\ At(c, at2) = Str(key) /\ Advance(at2) = at3
      /\ at3 \in States(c) /\ At(c, at3) = tok /\ Advance(at3) = at4
      /\ at4 \in States(c) /\ At(c, at4) = Str(info) /\ Advance(at4) = Place(5, 1, 0)
      /\ at4.index <= Len(c)
      /\ at5 \in States(c)
      /\ past5 \in States(c) /\ At(c, past5) = E /\ Advance(past5) = past6 /\ past5.index <= Len(c)
  <2>1. 1 + 1 = 2 /\ 2 + 1 = 3 /\ 3 + 1 = 4 /\ 4 + 1 = 5 /\ (5 + n) + 1 = 6 + n
        /\ 1 <= Len(c) /\ 2 <= Len(c) /\ 3 <= Len(c) /\ 4 <= Len(c) /\ 5 <= Len(c) /\ 5 + n <= Len(c)
        /\ n <= Len(c) /\ 0 <= Len(c)
    BY <1>5
  <2>2. at1 \in States(c) /\ At(c, at1) = D /\ Advance(at1) = at2
    BY <1>4, <1>5, <2>1, PlaceIs
  <2>3. at2 \in States(c) /\ At(c, at2) = Str(key) /\ Advance(at2) = at3
    BY <1>4, <1>5, <2>1, PlaceIs
  <2>4. at3 \in States(c) /\ At(c, at3) = tok /\ Advance(at3) = at4
    BY <1>4, <1>5, <2>1, PlaceIs
  <2>5. at4 \in States(c) /\ At(c, at4) = Str(info) /\ Advance(at4) = Place(5, 1, 0) /\ at4.index <= Len(c)
    BY <1>4, <1>5, <2>1, PlaceIs
  <2>6. at5 \in States(c)
    BY <1>4, <2>1, PlaceIs
  <2>7. past5 \in States(c) /\ At(c, past5) = E /\ Advance(past5) = past6 /\ past5.index <= Len(c)
    <3>1. 5 + n \in Nat /\ 5 <= 5 + n
      OBVIOUS
    <3> QED
      BY <1>4, <1>5, <2>1, <3>1, PlaceIs
  <2> QED
    BY <2>2, <2>3, <2>4, <2>5, <2>6, <2>7
<1>7. PICK v : v = Dict(InfoMap(t))
  OBVIOUS
<1>8. getValue(c, Get(c), at5) = Found(v, Place(5 + n, 5, 0))
  <2>1. at5.index = 5
    BY <1>4 DEF Place
  <2>2. Holds(c, at5, s)
    <3>1. ASSUME NEW j \in 1 .. n PROVE 5 + j - 1 <= Len(c) /\ c[5 + j - 1] = s[j]
      <4>1. 5 + j - 1 = 4 + j /\ 4 + j <= Len(c)
        BY <1>5
      <4> QED
        BY <1>5, <4>1
    <3> QED
      BY <1>2, <2>1, <3>1 DEF Holds
  <2>3. getValue(c, Get(c), at5) = Found(v, Later(at5, n))
    BY <1>1, <1>2, <1>6, <1>7, <2>2, InfoRead
  <2>4. Later(at5, n) = Place(5 + n, 5, 0)
    <3>1. at5.index = 5 /\ at5.infoStart = 5 /\ at5.infoLength = 0
      BY <1>4 DEF Place
    <3> QED
      BY <1>6, <3>1, LaterIs DEF Place
  <2> QED
    BY <2>3, <2>4
<1>9. Get(c)[<<"dict", past5>>] = Found(Dict(EmptyMap), past6)
  BY <1>6, EndRead
<1>10. PICK w, rest : w = Found(v, Place(5 + n, 5, 0)) /\ rest = Found(Dict(EmptyMap), past6)
  OBVIOUS
<1>11. w.ok = TRUE /\ w.v = v /\ w.st = Place(5 + n, 5, 0)
       /\ rest.ok = TRUE /\ rest.v.dict = EmptyMap /\ rest.st = past6
  BY <1>10 DEF Found, Dict
<1>12. OpenInfo(info, Advance(at4)) = at5 /\ CloseInfo(info, w.st) = past5
  <2>1. OpenInfo(info, Place(5, 1, 0)) = Place(5, 5, 0)
    BY <1>3, PlaceOpens
  <2>2. CloseInfo(info, Place(5 + n, 5, 0)) = Place(5 + n, 5, (5 + n) - 5)
    BY <1>3, PlaceOpens
  <2>3. (5 + n) - 5 = n
    OBVIOUS
  <2> QED
    BY <1>4, <1>6, <1>11, <2>1, <2>2, <2>3
<1>13. Get(c)[<<"dict", at4>>] = Found(Dict(WithEntry(rest.v.dict, info, w.v)), rest.st)
  <2>1. w = getValue(c, Get(c), OpenInfo(info, Advance(at4))) /\ rest = Get(c)[<<"dict", past5>>]
    BY <1>8, <1>9, <1>10, <1>12
  <2> QED
    BY <1>6, <1>11, <1>12, <2>1, EntryRead
<1>14. PICK map, w2, rest2 : map = WithEntry(EmptyMap, info, v) /\ w2 = Found(tok, at4)
                             /\ rest2 = Found(Dict(map), past6)
  OBVIOUS
<1>15. w2.ok = TRUE /\ w2.v = tok /\ w2.st = at4
       /\ rest2.ok = TRUE /\ rest2.v.dict = map /\ rest2.st = past6
  BY <1>14 DEF Found, Dict
<1>16. OpenInfo(key, Advance(at2)) = at3 /\ CloseInfo(key, w2.st) = at4
  BY <1>3, <1>6, <1>15 DEF OpenInfo, CloseInfo
<1>17. getValue(c, Get(c), at3) = w2
  BY <1>3, <1>6, <1>14, NumberRead
<1>18. Get(c)[<<"dict", at2>>] = Found(Dict(WithEntry(map, key, tok)), past6)
  <2>1. w2 = getValue(c, Get(c), OpenInfo(key, Advance(at2))) /\ rest2 = Get(c)[<<"dict", at4>>]
    BY <1>11, <1>13, <1>14, <1>16, <1>17
  <2>2. Get(c)[<<"dict", at2>>] = Found(Dict(WithEntry(rest2.v.dict, key, w2.v)), rest2.st)
    BY <1>6, <1>15, <1>16, <2>1, EntryRead
  <2> QED
    BY <1>15, <2>2
<1>19. State0 = at1 /\ c # <<>>
  <2>1. State0 = at1
    BY <1>4 DEF State0, Place
  <2>2. c # <<>>
    BY <1>5
  <2> QED
    BY <2>1, <2>2
<1>20. ParseDictionary(c) = Get(c)[<<"dict", at2>>]
  <2>1. At(c, at1).t = "d"
    BY <1>6 DEF D
  <2> QED
    BY <1>6, <1>19, <2>1 DEF ParseDictionary, getDictionary
<1>21. WithEntry(map, key, tok) = DocumentMap(t)
  BY <1>1, <1>7, <1>14 DEF DocumentMap
<1> QED
  BY <1>4, <1>18, <1>20, <1>21

-----------------------------------------------------------------------------
(* What MetaInfo makes of the parser's map, and the bytes it names.          *)

\* What MetaInfo makes of the parser's map.
LEMMA TailSays ==
  ASSUME NEW size, NEW sums
  PROVE  /\ TailMap(size, sums) = [k \in {"piece length", "pieces"} |->
                                     IF k = "piece length" THEN Num(size) ELSE Str(sums)]
<1>1. WithEntry(EmptyMap, "pieces", Str(sums)) = [k \in {"pieces"} |-> Str(sums)]
  BY DEF EmptyMap, WithEntry
<1> QED
  BY <1>1 DEF TailMap, WithEntry

\* Value() of a key that is there.
LEMMA ValueIs ==
  ASSUME NEW map, NEW key, key \in DOMAIN map, NEW v, map[key] = v
  PROVE  Value(map, key) = v
BY DEF Value

\* Each value is taken out as what was put in.
LEMMA AsIs ==
  ASSUME NEW v
  PROVE  /\ AsNum(Num(v)) = v /\ AsBytes(Str(v)) = v /\ AsList(List(v)) = v /\ AsMap(Dict(v)) = v
BY DEF AsNum, AsBytes, AsList, AsMap, Num, Str, List, Dict

\* MetaInfo makes of the map of a torrent what its maker put down.
LEMMA InfoSays ==
  ASSUME NEW t, Torrent(t)
  PROVE  /\ ReadInfo(InfoMap(t)).form = t.form /\ ReadInfo(InfoMap(t)).lengths = t.lengths
         /\ ReadInfo(InfoMap(t)).pieceLength = t.pieceLength
         /\ ReadInfo(InfoMap(t)).sums = SumCount[t.pieces]
<1>1. PICK map, tail : map = InfoMap(t) /\ tail = TailMap(t.pieceLength, t.pieces)
  OBVIOUS
<1>2. /\ DOMAIN tail = {"piece length", "pieces"} /\ tail["piece length"] = Num(t.pieceLength)
      /\ tail["pieces"] = Str(t.pieces)
  BY <1>1, TailSays
<1>3. ASSUME NEW m, "pieces" \in DOMAIN m, m["pieces"] = Str(t.pieces),
             "piece length" \in DOMAIN m, m["piece length"] = Num(t.pieceLength)
      PROVE  Sums(m) = SumCount[t.pieces] /\ AsNum(Value(m, "piece length")) = t.pieceLength
  <2>1. Value(m, "pieces") = Str(t.pieces) /\ Value(m, "piece length") = Num(t.pieceLength)
    BY <1>3 DEF Value
  <2>2. AsBytes(Str(t.pieces)) = t.pieces /\ AsNum(Num(t.pieceLength)) = t.pieceLength
    BY DEF AsBytes, AsNum, Str, Num
  <2> QED
    BY <2>1, <2>2 DEF Sums, Torrent
<1>4. CASE t.form = "single"
  <2>1. map = [k \in DOMAIN tail \cup {"length"} |->
                 IF k \in DOMAIN tail THEN tail[k] ELSE Num(t.lengths[1])]
    BY <1>1, <1>4 DEF InfoMap, WithEntry
  <2>2. /\ "pieces" \in DOMAIN map /\ map["pieces"] = Str(t.pieces)
        /\ "piece length" \in DOMAIN map /\ map["piece length"] = Num(t.pieceLength)
        /\ "files" \notin DOMAIN map /\ "length" \in DOMAIN map /\ map["length"] = Num(t.lengths[1])
    BY <1>2, <2>1
  <2>3. AsNum(Value(map, "length")) = t.lengths[1]
    <3>1. PICK key : key = "length"
      OBVIOUS
    <3>2. key \in DOMAIN map /\ map[key] = Num(t.lengths[1])
      BY <2>2, <3>1
    <3>3. Value(map, key) = Num(t.lengths[1])
      BY <3>2, ValueIs
    <3> QED
      BY <3>1, <3>3, AsIs
  <2>4. <<t.lengths[1]>> = t.lengths
    BY <1>4 DEF Torrent
  <2>5. ReadInfo(map) = SingleFile(map)
    BY <2>2 DEF ReadInfo
  <2>6. SingleFile(map).form = "single" /\ SingleFile(map).lengths = <<AsNum(Value(map, "length"))>>
        /\ SingleFile(map).sums = Sums(map)
        /\ SingleFile(map).pieceLength = AsNum(Value(map, "piece length"))
    BY DEF SingleFile, Cleared
  <2>7. Sums(map) = SumCount[t.pieces] /\ AsNum(Value(map, "piece length")) = t.pieceLength
    BY <1>3, <2>2
  <2> QED
    BY <1>1, <1>4, <2>3, <2>4, <2>5, <2>6, <2>7
<1>5. CASE t.form # "single"
  <2>0. PICK n \in Nat : n = Len(t.lengths)
    BY DEF Torrent
  <2> DEFINE list == FileList(t.lengths, n)
  <2>1. map = [k \in DOMAIN tail \cup {"files"} |->
                 IF k \in DOMAIN tail THEN tail[k] ELSE List(list)]
    BY <1>1, <1>5, <2>0 DEF InfoMap, WithEntry
  <2> HIDE DEF list
  <2>2. /\ "pieces" \in DOMAIN map /\ map["pieces"] = Str(t.pieces)
        /\ "piece length" \in DOMAIN map /\ map["piece length"] = Num(t.pieceLength)
        /\ "files" \in DOMAIN map /\ map["files"] = List(list)
    BY <1>2, <2>1
  <2>3. AsList(Value(map, "files")) = list
    <3>1. PICK key : key = "files"
      OBVIOUS
    <3>2. key \in DOMAIN map /\ map[key] = List(list)
      BY <2>2, <3>1
    <3>3. Value(map, key) = List(list)
      BY <3>2, ValueIs
    <3> QED
      BY <3>1, <3>3, AsIs
  <2>4. DOMAIN list = 1 .. n /\ \A i \in 1 .. n : list[i] = Dict(FileMap(t.lengths[i]))
    <3>1. \A i \in 1 .. n : (Len(t.lengths) - n) + i = i
      BY <2>0
    <3> QED
      BY <3>1 DEF list, FileList
  <2>5. ASSUME NEW k PROVE AsNum(Value(AsMap(Dict(FileMap(k))), "length")) = k
    <3>1. AsMap(Dict(FileMap(k))) = FileMap(k)
      BY DEF AsMap, Dict
    <3>2. "length" \in DOMAIN FileMap(k) /\ FileMap(k)["length"] = Num(k)
      BY DEF FileMap, EmptyMap, WithEntry
    <3>3. Value(FileMap(k), "length") = Num(k)
      BY <3>2 DEF Value
    <3> QED
      BY <3>1, <3>3 DEF AsNum, Num
  <2>6. FileLengths(map) = t.lengths
    <3>1. FileLengths(map) = [i \in DOMAIN list |-> AsNum(Value(AsMap(list[i]), "length"))]
      BY <2>3 DEF FileLengths
    <3>2. FileLengths(map) = [i \in 1 .. n |-> t.lengths[i]]
      BY <2>4, <2>5, <3>1
    <3>3. PICK sizes \in Seq(Nat) : sizes = t.lengths
      BY DEF Torrent
    <3>4. sizes = [i \in 1 .. Len(sizes) |-> sizes[i]]
      OBVIOUS
    <3> QED
      BY <2>0, <3>2, <3>3, <3>4
  <2>7. ReadInfo(map) = MultiFile(map)
    BY <2>2 DEF ReadInfo
  <2>8. MultiFile(map).form = "multi" /\ MultiFile(map).lengths = FileLengths(map)
        /\ MultiFile(map).sums = Sums(map)
        /\ MultiFile(map).pieceLength = AsNum(Value(map, "piece length"))
    BY DEF MultiFile, Cleared
  <2>9. Sums(map) = SumCount[t.pieces] /\ AsNum(Value(map, "piece length")) = t.pieceLength
    BY <1>3, <2>2
  <2> QED
    BY <1>1, <1>5, <2>6, <2>7, <2>8, <2>9 DEF Torrent
<1> QED
  BY <1>4, <1>5

\* Two sequences with the same tokens, whatever sets they come from.
LEMMA SameTokens ==
  ASSUME NEW S, NEW T, NEW u \in Seq(S), NEW v \in Seq(T), Len(u) = Len(v),
         \A i \in 1 .. Len(v) : u[i] = v[i]
  PROVE  u = v
<1>1. u = [i \in 1 .. Len(v) |-> u[i]] /\ v = [i \in 1 .. Len(v) |-> v[i]]
  OBVIOUS
<1> QED
  BY <1>1

\* What the parser has remembered of the info section: its place and its length.
Extent(st, a, l) == a = st.infoStart /\ l = st.infoLength

\* The bytes that are hashed, when there are as many behind infoStart.
LEMMA SectionIs ==
  ASSUME NEW c \in Seq(Token), NEW st \in States(c), NEW a \in Nat, NEW l \in Nat,
         Extent(st, a, l), (a + l) - 1 <= Len(c)
  PROVE  /\ InfoSection(c, st) \in Seq(Token) /\ Len(InfoSection(c, st)) = l
         /\ \A i \in 1 .. l : InfoSection(c, st)[i] = c[(a + i) - 1]
<1>1. PICK n \in Nat : n = (a + l) - 1 /\ 0 < a /\ n <= Len(c)
  BY DEF Extent, States
<1>2. InfoSection(c, st) = SubSeq(c, a, n)
  <2>1. st.infoStart = a /\ st.infoStart + st.infoLength - 1 = n /\ n <= Len(c)
    BY SMTT(30), <1>1 DEF Extent
  <2> QED
    BY <2>1, Zenon DEF InfoSection
<1>3. a \in Int /\ n \in Int /\ n - a + 1 = l /\ (IF a <= n THEN n - a + 1 ELSE 0) = l
      /\ \A i \in a .. n : c[i] \in Token
  <2>1. \A i \in a .. n : i \in 1 .. Len(c)
    BY <1>1
  <2> QED
    BY SMTT(30), <1>1, <2>1
<1>4. PICK u : u = SubSeq(c, a, n)
  OBVIOUS
<1>5. u \in Seq(Token) /\ Len(u) = l /\ \A i \in 1 .. l : u[i] = c[a + i - 1]
  <2>1. /\ u \in Seq(Token) /\ Len(u) = IF a <= n THEN n - a + 1 ELSE 0
        /\ \A i \in 1 .. n - a + 1 : u[i] = c[a + i - 1]
    <3>1. a \in Int /\ n \in Int /\ \A i \in a .. n : c[i] \in Token
      BY <1>3
    <3> QED
      BY <1>4, <3>1, SubSeqProperties
  <2> QED
    BY <1>3, <2>1
<1>6. InfoSection(c, st) = u
  BY <1>2, <1>4
<1> QED
  BY SMTT(30), <1>1, <1>5, <1>6

\* What MetaInfo reads is a record with these fields.
LEMMA ReadInfoFields ==
  ASSUME NEW m
  PROVE  DOMAIN ReadInfo(m) = {"ok", "form", "lengths", "pieceLength", "sums", "info"}
BY DEF ReadInfo, MultiFile, SingleFile, Cleared

InfoIs(map, v) == "info" \in DOMAIN map /\ map["info"] = v

ParsedAs(m, info, section) ==
  /\ m.ok = TRUE /\ m.info = section /\ m.form = info.form /\ m.lengths = info.lengths
  /\ m.pieceLength = info.pieceLength /\ m.sums = info.sums

\* A file with an info dictionary says what is in there.
LEMMA ParsedInfo ==
  ASSUME NEW c, NEW r, r = ParseDictionary(c), r.ok, r.v.t = "dict",
         NEW v, InfoIs(r.v.dict, v)
  PROVE  ParsedAs(Parse(c), ReadInfo(AsMap(v)), InfoSection(c, r.st))
<1>1. PICK info : info = ReadInfo(AsMap(v))
  OBVIOUS
<1>2. AsMap(r.v) = r.v.dict
  BY DEF AsMap
<1>3. Parse(c) = [info EXCEPT !.ok = TRUE, !.info = InfoSection(c, r.st)]
  BY <1>1, <1>2 DEF Parse, InfoIs
<1>4. DOMAIN info = {"ok", "form", "lengths", "pieceLength", "sums", "info"}
  BY <1>1, ReadInfoFields
<1>5. ParsedAs(Parse(c), info, InfoSection(c, r.st))
  BY <1>3, <1>4 DEF ParsedAs
<1> QED
  BY <1>1, <1>5

\* The same, for a result that is known.
LEMMA ParseInfo ==
  ASSUME NEW c, NEW map, NEW st, ParseDictionary(c) = Found(Dict(map), st), NEW v, InfoIs(map, v)
  PROVE  ParsedAs(Parse(c), ReadInfo(AsMap(v)), InfoSection(c, st))
<1>1. PICK r : r = ParseDictionary(c)
  OBVIOUS
<1>2. r.ok = TRUE /\ r.st = st /\ r.v.t = "dict" /\ r.v.dict = map
  BY <1>1 DEF Found, Dict
<1> QED
  BY <1>1, <1>2, ParsedInfo

\* A torrent file is read as what its maker put down, and its info section is found.
LEMMA DocumentSays ==
  ASSUME NEW t, Torrent(t), NEW c \in Seq(Token), c = DocumentOf(t)
  PROVE  Says(Parse(c), t) /\ Parse(c).info = InfoOf(t)
<1>1. PICK s, S : s = InfoOf(t) /\ s \in Seq(S) /\ Len(s) \in Nat
  BY InfoTokens
<1>2. PICK n \in Nat : n = Len(s)
  BY <1>1
<1>3. PICK st, map : st = Place(6 + n, 5, n) /\ map = DocumentMap(t)
  OBVIOUS
<1>5. PICK v : v = Dict(InfoMap(t))
  OBVIOUS
<1>6. InfoIs(map, v)
  BY <1>3, <1>5 DEF DocumentMap, WithEntry, EmptyMap, InfoIs
<1>7. ParsedAs(Parse(c), ReadInfo(AsMap(v)), InfoSection(c, st))
  BY <1>1, <1>2, <1>3, <1>6, DocumentRead, ParseInfo
<1>8. Says(Parse(c), t) /\ Parse(c).info = InfoSection(c, st)
  <2>1. AsMap(v) = InfoMap(t)
    BY <1>5, AsIs
  <2> QED
    BY <1>7, <2>1, InfoSays DEF ParsedAs, Says
<1>9. InfoSection(c, st) = s
  <2>1. Len(c) = n + 5 /\ \A i \in 1 .. n : c[4 + i] = s[i]
    BY <1>1, <1>2, DocumentTokens DEF DocumentAt
  <2>2. Extent(st, 5, n)
    BY <1>3 DEF Place, Extent
  <2>3. st \in States(c)
    BY <1>3, <2>1 DEF Place, States
  <2>4. (5 + n) - 1 <= Len(c)
    BY <2>1
  <2>5. PICK u : u = InfoSection(c, st)
    OBVIOUS
  <2>6. u \in Seq(Token) /\ Len(u) = n /\ \A i \in 1 .. n : u[i] = c[(5 + i) - 1]
    BY <2>2, <2>3, <2>4, <2>5, SectionIs
  <2>7. \A i \in 1 .. n : (5 + i) - 1 = 4 + i
    OBVIOUS
  <2>8. \A i \in 1 .. n : u[i] = s[i]
    BY <2>1, <2>6, <2>7
  <2> QED
    BY <1>1, <1>2, <2>5, <2>6, <2>8, SameTokens
<1> QED
  BY <1>1, <1>8, <1>9

-----------------------------------------------------------------------------
(* What the parser remembers of the info section: nothing changes it but a  *)
(* key "info", and with one such key it is the value of that key.           *)

\* The keys "info" that have been read.
InfoKey == Str("info")

Passes(c, a, b) == \E q \in a.index .. b.index - 1 : c[q] = InfoKey

\* Without such a key, what the parser remembers of the info section stays.
Quiet(c, a, b) ==
  /\ a.index <= b.index
  /\ ~ Passes(c, a, b) => b.infoStart = a.infoStart /\ b.infoLength = a.infoLength

\* Two spans in which nothing is remembered anew, one behind the other.
LEMMA QuietOn ==
  ASSUME NEW c \in Seq(Token), NEW a \in States(c), NEW b \in States(c), NEW d \in States(c),
         Quiet(c, a, b), Quiet(c, b, d)
  PROVE  Quiet(c, a, d)
<1>1. a.index \in Nat /\ b.index \in Nat /\ d.index \in Nat /\ a.index <= b.index /\ b.index <= d.index
  BY DEF Quiet, States
<1>2. ASSUME Passes(c, a, b) \/ Passes(c, b, d) PROVE Passes(c, a, d)
  BY <1>1, <1>2 DEF Passes
<1> QED
  BY <1>1, <1>2 DEF Quiet

\* A span that leaves what is remembered.
LEMMA QuietSame ==
  ASSUME NEW c \in Seq(Token), NEW a \in States(c), NEW b \in States(c), a.index <= b.index,
         b.infoStart = a.infoStart, b.infoLength = a.infoLength
  PROVE  Quiet(c, a, b)
BY DEF Quiet

\* What the calls find and where they stop, for the parser itself.
LEMMA ParserBeyond ==
  ASSUME NEW c \in Seq(Token), NEW i
  PROVE  StaysBeyond(c, Get(c), i)
BY ParserTurns DEF StaysBeyond, CallsBeyond

QuietBeyond(c, i) == \A x \in CallsBeyond(c, i) : Quiet(c, x[2], Get(c)[x].st)

\* What holds beyond an index holds beyond a later one.
LEMMA QuietLater ==
  ASSUME NEW c \in Seq(Token), NEW i \in Nat, NEW j \in Nat, i <= j, QuietBeyond(c, i)
  PROVE  QuietBeyond(c, j)
<1>1. CallsBeyond(c, j) \subseteq CallsBeyond(c, i)
  BY DEF CallsBeyond, Calls, States
<1> QED
  BY <1>1 DEF QuietBeyond

\* A list or a dictionary, if the calls beyond it are quiet.
LEMMA ListQuiet ==
  ASSUME NEW c \in Seq(Token), NEW st \in States(c), QuietBeyond(c, st.index)
  PROVE  Quiet(c, st, getList(c, Get(c), st).st) /\ Quiet(c, st, getDictionary(c, Get(c), st).st)
<1>1. st.index \in Nat
  BY DEF States
<1>2. Quiet(c, st, Fail(st).st)
  BY <1>1 DEF Quiet, Fail
<1>3. ASSUME st.index <= Len(c), NEW m \in {"list", "dict"}
      PROVE  Quiet(c, st, Get(c)[<<m, Advance(st)>>].st)
  <2>1. PICK x : x = <<m, Advance(st)>>
    OBVIOUS
  <2>2. Advance(st) \in States(c) /\ Advance(st).index = st.index + 1 /\ x \in Calls(c) /\ x[2] = Advance(st)
        /\ Quiet(c, st, Advance(st))
    <3>1. /\ Advance(st) \in States(c) /\ Advance(st).index = st.index + 1
          /\ Advance(st).infoStart = st.infoStart /\ Advance(st).infoLength = st.infoLength
      BY <1>3, AdvanceStays
    <3>2. st.index <= Advance(st).index
      BY <1>1, <3>1
    <3> QED
      BY <2>1, <3>1, <3>2, QuietSame DEF Calls
  <2>3. x \in CallsBeyond(c, st.index)
    BY <1>1, <2>2 DEF CallsBeyond
  <2>4. Quiet(c, Advance(st), Get(c)[x].st) /\ Get(c)[x].st \in States(c)
    BY <2>2, <2>3, ParserTurns DEF QuietBeyond, Stays
  <2> QED
    BY <2>1, <2>2, <2>4, QuietOn
<1>4. At(c, st).t \in {"l", "d"} => st.index <= Len(c)
  BY TokenInside
<1> QED
  BY <1>2, <1>3, <1>4 DEF getList, getDictionary

\* One token that is read.
LEMMA QuietReads ==
  ASSUME NEW c \in Seq(Token), NEW st \in States(c), NEW r, NEW kind, Reads(c, st, r, kind)
  PROVE  Quiet(c, st, r.st) /\ r.st \in States(c)
BY QuietSame DEF Reads, Moves, Stays

\* A value, if the calls beyond it are quiet.
LEMMA ValueQuiet ==
  ASSUME NEW c \in Seq(Token), NEW st \in States(c), QuietBeyond(c, st.index)
  PROVE  Quiet(c, st, getValue(c, Get(c), st).st)
<1>0. StaysBeyond(c, Get(c), st.index)
  BY ParserBeyond
<1>1. PICK i, s, l : i = getInteger(c, st) /\ s = getByteString(c, i.st) /\ ChainOf(c, Get(c), st, i, s, l)
  BY <1>0, ValueChain
<1>2. PICK d : d = getDictionary(c, Get(c), l.st)
  OBVIOUS
<1>3. /\ i.st \in States(c) /\ s.st \in States(c) /\ l.st \in States(c) /\ d.st \in States(c)
      /\ Quiet(c, st, i.st) /\ Quiet(c, i.st, s.st)
  BY <1>1, <1>2, QuietReads DEF ChainOf, Moves, Stays
<1>4. Quiet(c, st, s.st)
  BY <1>3, QuietOn
<1>5. Quiet(c, s.st, l.st)
  <2>1. QuietBeyond(c, s.st.index)
    BY <1>3, <1>4, QuietLater DEF Quiet, States
  <2> QED
    BY <1>1, <1>3, <2>1, ListQuiet DEF ChainOf
<1>6. Quiet(c, st, l.st)
  BY <1>3, <1>4, <1>5, QuietOn
<1>7. Quiet(c, l.st, d.st)
  <2>1. QuietBeyond(c, l.st.index)
    BY <1>3, <1>6, QuietLater DEF Quiet, States
  <2> QED
    BY <1>2, <1>3, <2>1, ListQuiet
<1>8. Quiet(c, st, d.st)
  BY <1>3, <1>6, <1>7, QuietOn
<1>9. getValue(c, Get(c), st) \in {i, s, l, d}
  BY <1>1, <1>2 DEF ChainOf
<1> QED
  BY <1>3, <1>4, <1>6, <1>8, <1>9

\* The loop's condition, behind a value that has been read.
LEMMA GoOnQuiet ==
  ASSUME NEW c \in Seq(Token), NEW at \in States(c), NEW i \in Nat, i < at.index, QuietBeyond(c, i),
         NEW m \in {"list", "dict"}, NEW nothing
  PROVE  /\ Quiet(c, at, GoOn(c, Get(c), m, nothing, at).st)
         /\ GoOn(c, Get(c), m, nothing, at).st \in States(c)
<1>1. PICK x : x = <<m, at>>
  OBVIOUS
<1>2. x \in CallsBeyond(c, i) /\ x \in Calls(c) /\ x[2] = at
  BY <1>1 DEF CallsBeyond, Calls
<1>3. Quiet(c, at, Get(c)[x].st) /\ Get(c)[x].st \in States(c)
  BY <1>2, ParserTurns DEF QuietBeyond, Stays
<1>4. Quiet(c, at, at)
  BY QuietSame DEF States
<1> QED
  BY <1>1, <1>3, <1>4 DEF GoOn, Found

\* The end of a list or of a dictionary.
LEMMA EndQuiet ==
  ASSUME NEW c \in Seq(Token), NEW st \in States(c), At(c, st).t = "e"
  PROVE  Quiet(c, st, Advance(st))
<1>1. /\ Advance(st) \in States(c) /\ Advance(st).index = st.index + 1 /\ st.index \in Nat
      /\ Advance(st).infoStart = st.infoStart /\ Advance(st).infoLength = st.infoLength
  BY TokenInside, AdvanceStays DEF States
<1>2. st.index <= Advance(st).index
  BY <1>1
<1> QED
  BY <1>1, <1>2, QuietSame

\* A turn of the loop of getList().
LEMMA ElementsQuiet ==
  ASSUME NEW c \in Seq(Token), NEW st \in States(c), QuietBeyond(c, st.index)
  PROVE  Quiet(c, st, getElements(c, Get(c), st).st)
<1>1. PICK r, rest : ElementPlaces(c, Get(c), st, r, rest)
  BY ElementsPlaces, ParserBeyond
<1>2. ElementTurn(c, Get(c), st, r, rest) /\ Moves(c, st, r)
  BY <1>1 DEF ElementPlaces
<1>3. r.st \in States(c) /\ (r.ok => st.index < r.st.index) /\ r.ok \in BOOLEAN /\ st.index \in Nat
  BY <1>2 DEF Moves, Stays, States
<1>4. Quiet(c, st, r.st)
  BY <1>2, ValueQuiet DEF ElementTurn
<1>5. r.ok => Quiet(c, st, rest.st) /\ rest.ok \in BOOLEAN
  <2> SUFFICES ASSUME r.ok PROVE Quiet(c, st, rest.st) /\ rest.ok \in BOOLEAN
    OBVIOUS
  <2>1. Quiet(c, r.st, rest.st) /\ rest.st \in States(c)
    BY <1>2, <1>3, GoOnQuiet DEF ElementTurn
  <2> QED
    BY <1>1, <1>3, <1>4, <2>1, QuietOn DEF ElementPlaces, Stays
<1>6. At(c, st).t = "e" => Quiet(c, st, Advance(st))
  BY EndQuiet
<1>7. \A v, at : Found(v, at).st = at /\ Fail(at).st = at
  BY DEF Found, Fail
<1> QED
  BY <1>2, <1>3, <1>4, <1>5, <1>6, <1>7 DEF ElementTurn

\* Where the key "info" is read there is its token.
LEMMA InfoKeyIs ==
  ASSUME NEW c \in Seq(Token), NEW st \in States(c), At(c, st).t = "str", At(c, st).str = "info"
  PROVE  st.index \in 1 .. Len(c) /\ c[st.index] = InfoKey
<1>1. st.index <= Len(c) /\ At(c, st) = c[st.index]
  BY TokenInside
<1>2. At(c, st) \in [t : {"str"}, str : STRING]
  BY AtToken DEF Token, D, L, E, BadInt, BadStr, Junk
<1>3. At(c, st) = [t |-> "str", str |-> "info"]
  BY <1>2
<1> QED
  BY <1>1, <1>3 DEF InfoKey, Str, States

\* A turn of the loop of getDictionary(): it remembers something only if it passes the key
\* "info".
LEMMA EntriesQuiet ==
  ASSUME NEW c \in Seq(Token), NEW st \in States(c), QuietBeyond(c, st.index)
  PROVE  Quiet(c, st, getEntries(c, Get(c), st).st)
<1>1. PICK k, key, open, r, end, rest : EntryPlaces(c, Get(c), st, k, key, open, r, end, rest)
  BY EntriesPlaces, ParserBeyond
<1>2. EntryTurn(c, Get(c), st, k, key, r, rest)
  BY <1>1 DEF EntryPlaces
<1>3. /\ k.st \in States(c) /\ open \in States(c) /\ r.st \in States(c) /\ end \in States(c)
      /\ open.index = k.st.index /\ end.index = r.st.index /\ st.index <= k.st.index
      /\ open.index <= r.st.index
      /\ st.index \in Nat /\ k.st.index \in Nat /\ r.st.index \in Nat
      /\ k.ok \in BOOLEAN /\ r.ok \in BOOLEAN
      /\ (r.ok => st.index < end.index /\ Stays(c, end, rest))
      /\ (k.ok => k.st.index = st.index + 1)
      /\ open = OpenInfo(key, k.st) /\ end = CloseInfo(key, r.st)
  BY SMTT(30), <1>1 DEF EntryPlaces, Reads, Moves, Stays, States
<1>4. Quiet(c, st, k.st)
  BY <1>1, QuietReads DEF EntryPlaces
<1>5. Quiet(c, open, r.st)
  <2>1. QuietBeyond(c, open.index)
    BY <1>3, QuietLater
  <2> QED
    BY <1>1, <1>3, <2>1, ValueQuiet DEF EntryPlaces
<1>6. r.ok => Quiet(c, end, rest.st) /\ rest.st \in States(c) /\ rest.ok \in BOOLEAN
  <2> SUFFICES ASSUME r.ok PROVE Quiet(c, end, rest.st) /\ rest.st \in States(c) /\ rest.ok \in BOOLEAN
    OBVIOUS
  <2>1. Quiet(c, end, rest.st) /\ rest.st \in States(c)
    BY <1>1, <1>3, GoOnQuiet DEF EntryPlaces
  <2> QED
    BY <1>3, <2>1 DEF Stays
<1>7. At(c, st).t = "e" => Quiet(c, st, Advance(st))
  BY EndQuiet
<1>8. \A v, at : Found(v, at).st = at /\ Fail(at).st = at
  BY DEF Found, Fail
<1>9. k.ok => Quiet(c, st, r.st) /\ (r.ok => Quiet(c, st, rest.st))
  <2> SUFFICES ASSUME k.ok PROVE Quiet(c, st, r.st) /\ (r.ok => Quiet(c, st, rest.st))
    OBVIOUS
  <2>1. CASE key = "info"
    <3>1. c[st.index] = InfoKey
      BY <1>1, <2>1, InfoKeyIs DEF EntryPlaces, EntryTurn, Reads
    <3>2. ASSUME NEW b \in States(c), st.index < b.index PROVE Quiet(c, st, b)
      <4>1. st.index \in st.index .. b.index - 1 /\ st.index <= b.index
        <5>1. st.index \in Nat /\ b.index \in Nat
          BY DEF States
        <5> QED
          BY <3>2, <5>1
      <4>2. Passes(c, st, b)
        BY <3>1, <4>1 DEF Passes
      <4> QED
        BY <4>1, <4>2 DEF Quiet
    <3>3. st.index < r.st.index
      BY <1>3
    <3>4. r.ok => st.index < rest.st.index
      <4>1. r.ok => end.index <= rest.st.index /\ rest.st.index \in Nat
        BY SMTT(30), <1>3, <1>6 DEF Stays, States
      <4> QED
        BY <1>3, <3>3, <4>1
    <3> QED
      BY <1>3, <1>6, <3>2, <3>3, <3>4
  <2>2. CASE key # "info"
    <3>1. open = k.st /\ end = r.st
      BY <1>3, <2>2 DEF OpenInfo, CloseInfo
    <3>2. Quiet(c, st, r.st)
      BY <1>3, <1>4, <1>5, <3>1, QuietOn
    <3> QED
      BY <1>3, <1>6, <3>1, <3>2, QuietOn
  <2> QED
    BY <2>1, <2>2
<1> QED
  BY <1>2, <1>3, <1>4, <1>6, <1>7, <1>8, <1>9 DEF EntryTurn

\* The parser remembers something only where it passes a key "info".
LEMMA ParserQuiet ==
  ASSUME NEW c \in Seq(Token)
  PROVE  \A x \in Calls(c) : Quiet(c, x[2], Get(c)[x].st)
<1> DEFINE Good == {x \in Calls(c) : Quiet(c, x[2], Get(c)[x].st)}
<1>1. ASSUME NEW x \in Calls(c), CallsBeyond(c, x[2].index) \subseteq Good PROVE x \in Good
  <2>1. QuietBeyond(c, x[2].index)
    BY <1>1 DEF QuietBeyond
  <2>2. PICK st \in States(c), m \in {"list", "dict"} : x = <<m, st>>
    BY DEF Calls
  <2>3. Quiet(c, st, getElements(c, Get(c), st).st) /\ Quiet(c, st, getEntries(c, Get(c), st).st)
    BY <2>1, <2>2, ElementsQuiet, EntriesQuiet
  <2>4. Get(c)[x] = Turn(c, Get(c), x)
    BY ParserTurns
  <2>5. x[1] = m /\ x[2] = st
    BY <2>2
  <2> QED
    BY <2>3, <2>4, <2>5 DEF Turn
<1> HIDE DEF Good
<1>2. Calls(c) \subseteq Good
  BY <1>1, CallInduction
<1> QED
  BY <1>2 DEF Good

\* The value of "info" in a dictionary: a key of that name, the place behind it, and what was read there.
InfoFrom(c, st, r) ==
  \E at \in States(c) :
    /\ st.index < at.index /\ at.index - 1 <= Len(c) /\ c[at.index - 1] = InfoKey
    /\ getValue(c, Get(c), at).ok /\ InfoIs(r.v.dict, getValue(c, Get(c), at).v)
    /\ r.st.infoStart = at.index
    /\ r.st.infoLength = getValue(c, Get(c), at).st.index - at.index

\* "info" is the last one of its kind, so that its bytes are those of its value.
HasInfo(map) == "info" \in DOMAIN map

InfoKnown(c, st, r) == r.ok /\ HasInfo(r.v.dict) => InfoFrom(c, st, r)

\* Where it comes from is beyond any state before that too.
LEMMA InfoFromLater ==
  ASSUME NEW c, NEW st \in States(c), NEW at \in States(c), st.index <= at.index, NEW r, InfoFrom(c, at, r)
  PROVE  InfoFrom(c, st, r)
<1>1. ASSUME NEW b \in States(c), at.index < b.index PROVE st.index < b.index
  BY <1>1 DEF States
<1> QED
  BY <1>1 DEF InfoFrom

\* The entry "info" of a map with one more entry.
LEMMA EntryInfo ==
  ASSUME NEW map, NEW key, NEW v
  PROVE  /\ key = "info" /\ ~ HasInfo(map) => InfoIs(WithEntry(map, key, v), v)
         /\ key # "info" /\ HasInfo(WithEntry(map, key, v)) => HasInfo(map)
         /\ \A w : InfoIs(map, w) => InfoIs(WithEntry(map, key, v), w)
<1>1. key = "info" /\ ~ HasInfo(map) => InfoIs(WithEntry(map, key, v), v)
  BY DEF HasInfo, InfoIs, WithEntry
<1>2. key # "info" /\ HasInfo(WithEntry(map, key, v)) => HasInfo(map)
  BY DEF HasInfo, WithEntry
<1>3. ASSUME NEW w, InfoIs(map, w) PROVE InfoIs(WithEntry(map, key, v), w)
  BY <1>3 DEF InfoIs, WithEntry
<1> QED
  BY <1>1, <1>2, <1>3

\* The empty map has none.
LEMMA NoInfo == ~ HasInfo(EmptyMap)
BY DEF HasInfo, EmptyMap

\* A span that begins behind the only key "info" does not pass it.
LEMMA PassesOnce ==
  ASSUME NEW c \in Seq(Token), OneInfo(c), NEW q \in 1 .. Len(c), c[q] = InfoKey,
         NEW a \in States(c), NEW b \in States(c), q < a.index
  PROVE  ~ Passes(c, a, b)
<1> SUFFICES ASSUME NEW i \in a.index .. b.index - 1, c[i] = InfoKey PROVE FALSE
  BY DEF Passes
<1>1. a.index \in Nat /\ b.index \in Nat /\ b.index <= Len(c) + 1 /\ 0 < a.index
  BY DEF States
<1>2. i \in DOMAIN c /\ q \in DOMAIN c /\ i # q
  BY <1>1
<1> QED
  BY <1>2 DEF OneInfo, InfoKey

\* A turn of the loop of getDictionary(), if the calls beyond it know their "info".
LEMMA EntriesInfo ==
  ASSUME NEW c \in Seq(Token), OneInfo(c), NEW st \in States(c),
         \A x \in CallsBeyond(c, st.index) : x[1] = "dict" => InfoKnown(c, x[2], Get(c)[x])
  PROVE  InfoKnown(c, st, getEntries(c, Get(c), st))
<1>1. PICK k, key, open, r, end, rest : EntryPlaces(c, Get(c), st, k, key, open, r, end, rest)
  BY EntriesPlaces, ParserBeyond
<1>2. EntryTurn(c, Get(c), st, k, key, r, rest)
  BY <1>1 DEF EntryPlaces
<1>3. /\ k.st \in States(c) /\ open \in States(c) /\ r.st \in States(c) /\ end \in States(c)
      /\ open.index = k.st.index /\ end.index = r.st.index /\ st.index <= k.st.index
      /\ open.index <= r.st.index
      /\ st.index \in Nat /\ k.st.index \in Nat /\ r.st.index \in Nat
      /\ k.ok \in BOOLEAN /\ r.ok \in BOOLEAN
      /\ (r.ok => st.index < end.index /\ Stays(c, end, rest))
      /\ (k.ok => k.st.index = st.index + 1)
      /\ open = OpenInfo(key, k.st) /\ end = CloseInfo(key, r.st)
  BY SMTT(30), <1>1 DEF EntryPlaces, Reads, Moves, Stays, States
<1>4. r = getValue(c, Get(c), open) /\ rest = GoOn(c, Get(c), "dict", Dict(EmptyMap), end)
  BY <1>1 DEF EntryPlaces
<1>5. PICK res, map : res = getEntries(c, Get(c), st) /\ map = WithEntry(rest.v.dict, key, r.v)
  OBVIOUS
<1> SUFFICES ASSUME res.ok, HasInfo(res.v.dict) PROVE InfoFrom(c, st, res)
  BY <1>5 DEF InfoKnown
<1>6. k.ok /\ r.ok /\ rest.ok /\ res = Found(Dict(map), rest.st)
  <2>1. r.ok => rest.ok \in BOOLEAN
    BY <1>3 DEF Stays
  <2>2. \A at : ~ Fail(at).ok /\ ~ HasInfo(Found(Dict(EmptyMap), at).v.dict)
    BY NoInfo DEF Fail, Found, Dict
  <2> QED
    BY <1>2, <1>3, <1>5, <2>1, <2>2 DEF EntryTurn
<1>7. res.v.dict = map /\ res.st = rest.st /\ rest.st \in States(c)
  BY <1>3, <1>6 DEF Found, Dict, Stays
<1>8. InfoKnown(c, end, rest)
  <2>1. PICK x : x = <<"dict", end>>
    OBVIOUS
  <2>2. x \in CallsBeyond(c, st.index) /\ x[1] = "dict" /\ x[2] = end
    BY <1>3, <1>6, <2>1 DEF CallsBeyond, Calls
  <2>3. InfoKnown(c, end, Get(c)[x])
    BY <2>2
  <2>4. InfoKnown(c, end, Found(Dict(EmptyMap), end))
    BY NoInfo DEF InfoKnown, Found, Dict
  <2> QED
    BY <1>4, <2>1, <2>3, <2>4 DEF GoOn
<1>9. CASE key # "info"
  <2>1. HasInfo(rest.v.dict)
    BY <1>5, <1>7, <1>9, EntryInfo
  <2>2. InfoFrom(c, end, rest)
    BY <1>6, <1>8, <2>1 DEF InfoKnown
  <2>3. InfoFrom(c, st, rest)
    BY <1>3, <1>6, <2>2, InfoFromLater
  <2>4. \A v : InfoIs(rest.v.dict, v) => InfoIs(res.v.dict, v)
    BY SMTT(30), <1>5, <1>7, EntryInfo
  <2> QED
    BY <1>7, <2>3, <2>4 DEF InfoFrom
<1>10. CASE key = "info"
  <2>1. PICK q : q = st.index
    BY SMTT(30)
  <2>2. q \in 1 .. Len(c) /\ c[q] = InfoKey /\ open.index = q + 1
    BY <1>1, <1>3, <1>6, <1>10, <2>1, InfoKeyIs DEF EntryPlaces, EntryTurn, Reads
  <2>3. ASSUME NEW a \in States(c), NEW b \in States(c), q < a.index, Quiet(c, a, b)
        PROVE  b.infoStart = a.infoStart /\ b.infoLength = a.infoLength
    BY <2>2, <2>3, PassesOnce DEF Quiet
  <2>4. ~ HasInfo(rest.v.dict)
    <3> SUFFICES ASSUME HasInfo(rest.v.dict) PROVE FALSE
      OBVIOUS
    <3>1. PICK at \in States(c) : end.index < at.index /\ at.index - 1 <= Len(c) /\ c[at.index - 1] = InfoKey
      BY <1>6, <1>8 DEF InfoKnown, InfoFrom
    <3>2. at.index - 1 \in DOMAIN c /\ q \in DOMAIN c /\ at.index - 1 # q
      <4>1. at.index \in Nat /\ end.index \in Nat /\ q < end.index
        BY SMTT(30), <1>3, <1>6, <2>1 DEF States
      <4> QED
        BY <2>2, <3>1, <4>1
    <3> QED
      BY <2>2, <3>1, <3>2 DEF OneInfo, InfoKey
  <2>5. InfoIs(res.v.dict, r.v)
    BY <1>5, <1>7, <1>10, <2>4, EntryInfo
  <2>6. Quiet(c, open, r.st) /\ Quiet(c, end, rest.st)
    <3>1. QuietBeyond(c, open.index) /\ QuietBeyond(c, st.index)
      BY ParserQuiet DEF QuietBeyond, CallsBeyond
    <3> QED
      BY <1>3, <1>6, <1>4, <3>1, ValueQuiet, GoOnQuiet
  <2>7. r.st.infoStart = open.infoStart /\ rest.st.infoStart = end.infoStart
        /\ rest.st.infoLength = end.infoLength
    <3>1. q < open.index /\ q < end.index
      BY <1>3, <1>6, <2>1, <2>2
    <3> QED
      BY <1>3, <1>7, <2>3, <2>6, <3>1
  <2>8. open.infoStart = open.index
    BY <1>3, <1>10 DEF OpenInfo, States
  <2>9. end.infoStart = r.st.infoStart /\ end.infoLength = r.st.index - r.st.infoStart
    BY <1>3, <1>10 DEF CloseInfo, States
  <2>10. res.st.infoStart = open.index /\ res.st.infoLength = r.st.index - open.index
    BY <1>7, <2>7, <2>8, <2>9
  <2>11. st.index < open.index /\ open.index - 1 <= Len(c) /\ c[open.index - 1] = InfoKey
    <3>1. open.index - 1 = q
      BY <2>2
    <3> QED
      BY <2>1, <2>2, <3>1
  <2> QED
    BY <1>3, <1>6, <1>4, <2>5, <2>10, <2>11 DEF InfoFrom
<1> QED
  BY <1>9, <1>10

\* A dictionary with "info" has remembered the bytes of that value, if there is one such
\* key.
LEMMA ParserInfo ==
  ASSUME NEW c \in Seq(Token), OneInfo(c), NEW st \in States(c)
  PROVE  InfoKnown(c, st, Get(c)[<<"dict", st>>])
<1> DEFINE Good == {x \in Calls(c) : x[1] = "dict" => InfoKnown(c, x[2], Get(c)[x])}
<1>1. ASSUME NEW x \in Calls(c), CallsBeyond(c, x[2].index) \subseteq Good PROVE x \in Good
  <2> SUFFICES ASSUME x[1] = "dict" PROVE InfoKnown(c, x[2], Get(c)[x])
    OBVIOUS
  <2>1. PICK at \in States(c) : x = <<"dict", at>>
    BY DEF Calls
  <2>2. \A y \in CallsBeyond(c, at.index) : y[1] = "dict" => InfoKnown(c, y[2], Get(c)[y])
    BY <1>1, <2>1
  <2>3. InfoKnown(c, at, getEntries(c, Get(c), at))
    BY <2>2, EntriesInfo
  <2>4. Get(c)[x] = getEntries(c, Get(c), at)
    BY <2>1, CallIsTurn
  <2> QED
    BY <2>1, <2>3, <2>4
<1> HIDE DEF Good
<1>2. <<"dict", st>> \in Good
  <2>1. <<"dict", st>> \in Calls(c)
    BY DEF Calls
  <2> QED
    BY <1>1, <2>1, CallInduction
<1> QED
  BY <1>2 DEF Good

-----------------------------------------------------------------------------
(* The name of a torrent and what it says.                                  *)

\* A file is accepted if it is a dictionary with "info".
LEMMA ParseOk ==
  ASSUME NEW c, Parse(c).ok
  PROVE  \E map : /\ ParseDictionary(c).ok /\ ParseDictionary(c).v.t = "dict"
                  /\ map = ParseDictionary(c).v.dict /\ HasInfo(map)
<1>1. PICK r : r = ParseDictionary(c)
  OBVIOUS
<1>2. r.ok /\ "info" \in DOMAIN AsMap(r.v)
  <2>1. Cleared.ok = FALSE /\ \A s : [Cleared EXCEPT !.info = s].ok = FALSE
    BY DEF Cleared
  <2>2. CASE ~ r.ok
    <3>1. Parse(c) = Cleared
      BY <1>1, <2>2 DEF Parse
    <3> QED
      BY <2>1, <3>1
  <2>3. CASE r.ok /\ "info" \notin DOMAIN AsMap(r.v)
    <3>1. Parse(c) = [Cleared EXCEPT !.info = InfoSection(c, r.st)]
      BY <1>1, <2>3 DEF Parse
    <3> QED
      BY <2>1, <3>1
  <2> QED
    BY <2>2, <2>3
<1>3. r.v.t = "dict" /\ AsMap(r.v) = r.v.dict
  <2>1. DOMAIN EmptyMap = {}
    BY DEF EmptyMap
  <2> QED
    BY <1>2, <2>1 DEF AsMap
<1> QED
  BY <1>1, <1>2, <1>3 DEF HasInfo

\* A file that is accepted with the info section of a torrent, and has the word "info"
\* once, says what its maker put down.
LEMMA NameSays ==
  ASSUME NEW t, Torrent(t), NEW c \in Seq(Token), OneInfo(c), Parse(c).ok, Parse(c).info = InfoOf(t)
  PROVE  Says(Parse(c), t)
<1>1. PICK r : r = ParseDictionary(c)
  OBVIOUS
<1>2. PICK map : r.ok /\ r.v.t = "dict" /\ map = r.v.dict /\ HasInfo(map)
  BY <1>1, ParseOk
<1>3. PICK st \in States(c) : r = Get(c)[<<"dict", st>>]
  <2>1. c # <<>> /\ r = getDictionary(c, Get(c), State0)
    BY <1>1, <1>2 DEF ParseDictionary, Fail
  <2>2. At(c, State0).t = "d" /\ r = Get(c)[<<"dict", Advance(State0)>>]
    BY <1>2, <2>1 DEF getDictionary, Fail
  <2>3. State0 \in States(c)
    BY DEF State0, States
  <2>4. Advance(State0) \in States(c)
    BY <2>2, <2>3, TokenInside, AdvanceStays
  <2> QED
    BY <2>2, <2>4
<1>4. InfoFrom(c, st, r)
  BY <1>2, <1>3, ParserInfo DEF InfoKnown
<1>5. PICK at \in States(c) :
        /\ getValue(c, Get(c), at).ok /\ InfoIs(map, getValue(c, Get(c), at).v)
        /\ r.st.infoStart = at.index
        /\ r.st.infoLength = getValue(c, Get(c), at).st.index - at.index
  BY <1>2, <1>4 DEF InfoFrom
<1>6. PICK w : w = getValue(c, Get(c), at)
  OBVIOUS
<1>7. w.st \in States(c) /\ at.index < w.st.index
  BY <1>5, <1>6, ValueStays, ParserBeyond DEF Moves, Stays
<1>8. PICK s : s = InfoOf(t)
  OBVIOUS
<1>9. PICK n \in Nat : n = Len(s)
  BY <1>8, InfoTokens
<1>10. ParsedAs(Parse(c), ReadInfo(AsMap(w.v)), InfoSection(c, r.st))
  BY <1>1, <1>2, <1>5, <1>6, ParsedInfo
<1>11. Holds(c, at, s)
  <2>1. r.st \in States(c)
    <3>1. <<"dict", st>> \in Calls(c)
      BY DEF Calls
    <3> QED
      BY <1>3, <3>1, ParserTurns DEF Stays
  <2>2. PICK i \in Nat, e \in Nat : i = at.index /\ e = w.st.index /\ i < e /\ e <= Len(c) + 1
    BY <1>7 DEF States
  <2>3. r.st.infoStart = i /\ r.st.infoLength = e - i /\ (i + (e - i)) - 1 <= Len(c)
    BY <1>5, <1>6, <2>2
  <2>4. PICK u : u = InfoSection(c, r.st)
    OBVIOUS
  <2>5. Len(u) = e - i /\ \A j \in 1 .. e - i : u[j] = c[(i + j) - 1]
    <3>1. PICK l \in Nat : l = e - i
      BY <2>2
    <3>2. Extent(r.st, i, l) /\ (i + l) - 1 <= Len(c)
      BY <2>3, <3>1 DEF Extent
    <3>3. PICK state \in States(c) : state = r.st
      BY <2>1
    <3>4. Len(u) = l /\ \A j \in 1 .. l : u[j] = c[(i + j) - 1]
      BY <2>4, <3>2, <3>3, SectionIs
    <3> QED
      BY <3>1, <3>4
  <2>6. u = s
    BY <1>8, <1>10, <2>4 DEF ParsedAs
  <2>7. n = e - i
    BY <1>9, <2>5, <2>6
  <2>8. ASSUME NEW j \in 1 .. n PROVE i + j - 1 <= Len(c) /\ c[i + j - 1] = s[j]
    <3>1. i + j - 1 = (i + j) - 1 /\ (i + j) - 1 <= Len(c)
      BY SMTT(30), <2>2, <2>7
    <3> QED
      BY <2>5, <2>6, <2>7, <3>1
  <2> QED
    BY <1>9, <2>2, <2>8 DEF Holds
<1>12. w = Found(Dict(InfoMap(t)), Later(at, n))
  BY <1>6, <1>8, <1>9, <1>11, InfoRead
<1>13. AsMap(w.v) = InfoMap(t)
  <2>1. w.v = Dict(InfoMap(t))
    BY <1>12 DEF Found
  <2> QED
    BY <2>1, AsIs
<1> QED
  BY <1>10, <1>13, InfoSays DEF ParsedAs, Says

DocumentKnown ==
  document \in Documents \cup {<<>>} /\ metaInfo = Contents(document)

\* What the client knows is what MetaInfo made of the file it was given.
LEMMA DocumentStays == DocumentKnown /\ [Next]_vars => DocumentKnown'
<1> SUFFICES ASSUME DocumentKnown, [Next]_vars PROVE DocumentKnown'
  OBVIOUS
<1>1. ASSUME NEW c \in Documents, SetTorrent(c) PROVE DocumentKnown'
  BY <1>1 DEF DocumentKnown, SetTorrent
<1>2. ASSUME UNCHANGED <<document, metaInfo>> PROVE DocumentKnown'
  BY <1>2 DEF DocumentKnown
<1>3. CASE UNCHANGED vars
  BY <1>2, <1>3 DEF vars
<1>4. ASSUME NEW n \in 0 .. Len(lengths), GenerateFiles(n) PROVE DocumentKnown'
  BY <1>2, <1>4 DEF GenerateFiles
<1>5. ASSUME NEW p \in Pieces, NEW offset \in 0 .. pieceLength - 1, NEW n \in 1 .. MaxMessage,
             NEW right \in BOOLEAN, NEW broken \in 0 .. Len(files),
             BlockArrives(p, offset, n, right, broken)
      PROVE  DocumentKnown'
  BY <1>2, <1>5 DEF BlockArrives
<1>6. ASSUME NEW p \in Pieces, VerifyPiece(p) PROVE DocumentKnown'
  BY <1>2, <1>6 DEF VerifyPiece
<1>7. CASE Stop
  BY <1>2, <1>7 DEF Stop
<1>8. ASSUME NEW i \in DOMAIN files, FileDeleted(i) PROVE DocumentKnown'
  BY <1>2, <1>8 DEF FileDeleted
<1>9. CASE Resume
  BY <1>2, <1>9 DEF Resume
<1> QED
  BY <1>1, <1>3, <1>4, <1>5, <1>6, <1>7, <1>8, <1>9 DEF Next

\* So the property is one of the parser alone.
LEMMA KnownNames == DocumentKnown => NameIsTorrent
<1> SUFFICES ASSUME DocumentKnown, NEW t \in Known
             PROVE  /\ document = DocumentOf(t) => Says(metaInfo, t) /\ metaInfo.info = InfoOf(t)
                    /\ metaInfo.ok /\ metaInfo.info = InfoOf(t) /\ OneInfo(document) => Says(metaInfo, t)
  BY DEF NameIsTorrent
<1>1. Torrent(t)
  BY KnownAssumption DEF Torrent
<1>2. document \in Seq(Token) /\ metaInfo = Parse(document)
  <2>1. <<>> \in Seq(Token)
    OBVIOUS
  <2>2. document \in Seq(Token)
    BY <2>1, DocumentsAssumption DEF DocumentKnown
  <2> QED
    BY <2>2, DocumentsAssumption DEF DocumentKnown
<1> QED
  BY <1>1, <1>2, DocumentSays, NameSays

\* Whatever files are opened: a torrent file is read as what was written into it, its name is
\* the hash of its info section, and a file that is accepted under that name, with the word
\* "info" once, says the same files and pieces (MetaInfo::parse(), BencodeParser).
THEOREM NamesAreTorrents == Spec => []NameIsTorrent
<1>1. Init => DocumentKnown
  BY DEF Init, DocumentKnown
<1> QED
  BY <1>1, DocumentStays, KnownNames, PTL DEF Spec

\* A buffer whose lengths fit is one of the tokens that do not wrap.
LEMMA FitsIsToken ==
  ASSUME NEW c \in Seq(AnyToken), LengthsFit(c)
  PROVE  c \in Seq(Token)
<1>1. \A i \in 1 .. Len(c) : c[i] \in Token
  BY DEF AnyToken, Wrapped, LengthsFit
<1> QED
  BY <1>1

\* Wherever it is in a file whose string lengths all fit an int, the parser is no further back
\* after a value than before it, and behind a value it has read it is further on: both loops end
\* (getList(), getDictionary()).  Without that condition it is false: getByteString() adds a
\* length that has overflowed, and the index may go back.
THEOREM ParserMovesOn ==
  \A c \in Seq(AnyToken) : LengthsFit(c) =>
    /\ ParseDictionary(c).st \in States(c)
    /\ \A st \in States(c) : Moves(c, st, getValue(c, Get(c), st))
<1> SUFFICES ASSUME NEW c \in Seq(AnyToken), LengthsFit(c)
             PROVE  /\ ParseDictionary(c).st \in States(c)
                    /\ \A st \in States(c) : Moves(c, st, getValue(c, Get(c), st))
  OBVIOUS
<1>0. c \in Seq(Token)
  BY FitsIsToken
<1>1. State0 \in States(c)
  BY DEF State0, States
<1>2. Moves(c, State0, getDictionary(c, Get(c), State0))
  BY <1>0, <1>1, ListStays, ParserBeyond
<1>3. ParseDictionary(c).st \in States(c)
  BY <1>1, <1>2 DEF ParseDictionary, Fail, Moves, Stays
<1> QED
  BY <1>0, <1>3, ValueStays, ParserBeyond

-----------------------------------------------------------------------------
(* Sizes: what the model of the files assumes of a document.                *)

\* The values the parser can find in a file, and what they are made of.
Read(c, st) == getValue(c, Get(c), st)

Values(c) == {Read(c, st).v : st \in {at \in States(c) : Read(c, at).ok}}

IsList(c, v) == v.t = "list" /\ v.list \in Seq(Values(c))

IsDict(c, v) == v.t = "dict" /\ \A k \in DOMAIN v.dict : v.dict[k] \in Values(c)

Filled(c, x, r) == r.ok => IF x[1] = "list" THEN IsList(c, r.v) ELSE IsDict(c, r.v)

FilledBeyond(c, i) == \A x \in CallsBeyond(c, i) : Filled(c, x, Get(c)[x])

\* One more element.
LEMMA Prepend ==
  ASSUME NEW S, NEW v \in S, NEW s \in Seq(S)
  PROVE  <<v>> \o s \in Seq(S)
OBVIOUS

\* A list has values of the file in it.
LEMMA ElementsFilled ==
  ASSUME NEW c \in Seq(Token), NEW st \in States(c), FilledBeyond(c, st.index),
         NEW res, res = getElements(c, Get(c), st), res.ok
  PROVE  IsList(c, res.v)
<1>1. PICK r, rest : ElementPlaces(c, Get(c), st, r, rest)
  BY ElementsPlaces, ParserBeyond
<1>2. ElementTurn(c, Get(c), st, r, rest) /\ Moves(c, st, r) /\ (r.ok => Stays(c, r.st, rest))
  BY <1>1 DEF ElementPlaces
<1>3. r = Read(c, st) /\ rest = GoOn(c, Get(c), "list", List(<<>>), r.st)
  BY <1>2 DEF ElementTurn, Read
<1>4. \A at : Found(List(<<>>), at).v = List(<<>>) /\ ~ Fail(at).ok
  BY DEF Found, Fail
<1>5. IsList(c, List(<<>>))
  BY DEF IsList, List
<1>6. CASE r.ok /\ rest.ok
  <2>1. r.v \in Values(c)
    BY <1>3, <1>6 DEF Values
  <2>2. IsList(c, rest.v)
    <3>1. PICK x : x = <<"list", r.st>>
      OBVIOUS
    <3>2. x \in CallsBeyond(c, st.index) /\ x[1] = "list"
      BY <1>2, <1>6, <3>1 DEF Moves, Stays, CallsBeyond, Calls
    <3>3. Filled(c, x, Get(c)[x])
      BY <3>2 DEF FilledBeyond
    <3> QED
      BY <1>3, <1>4, <1>5, <1>6, <3>1, <3>2, <3>3 DEF GoOn, Filled
  <2>3. <<r.v>> \o rest.v.list \in Seq(Values(c))
    <3>1. PICK v, s, S : v = r.v /\ s = rest.v.list /\ S = Values(c)
      OBVIOUS
    <3>2. v \in S /\ s \in Seq(S)
      BY <2>1, <2>2, <3>1 DEF IsList
    <3>3. <<v>> \o s \in Seq(S)
      BY <3>2, Prepend
    <3> QED
      BY <3>1, <3>3
  <2>4. PICK s : s = <<r.v>> \o rest.v.list
    OBVIOUS
  <2>5. At(c, st).t # "e" => res.v = List(s)
    BY <1>2, <1>6, <2>4 DEF ElementTurn, Found
  <2>6. IsList(c, List(s))
    BY <2>3, <2>4 DEF IsList, List
  <2> QED
    BY <1>2, <1>4, <1>5, <2>5, <2>6 DEF ElementTurn
<1>7. CASE ~ (r.ok /\ rest.ok)
  BY <1>2, <1>4, <1>5, <1>7 DEF ElementTurn, Moves, Stays
<1> QED
  BY <1>6, <1>7

\* A dictionary has values of the file in it.
LEMMA EntriesFilled ==
  ASSUME NEW c \in Seq(Token), NEW st \in States(c), FilledBeyond(c, st.index),
         NEW res, res = getEntries(c, Get(c), st), res.ok
  PROVE  IsDict(c, res.v)
<1>1. PICK k, key, open, r, end, rest : EntryPlaces(c, Get(c), st, k, key, open, r, end, rest)
  BY EntriesPlaces, ParserBeyond
<1>2. EntryTurn(c, Get(c), st, k, key, r, rest)
  BY <1>1 DEF EntryPlaces
<1>3. /\ open \in States(c) /\ end \in States(c) /\ k.ok \in BOOLEAN /\ r.ok \in BOOLEAN
      /\ (r.ok => st.index < end.index /\ rest.ok \in BOOLEAN)
      /\ r = Read(c, open) /\ rest = GoOn(c, Get(c), "dict", Dict(EmptyMap), end)
  BY <1>1 DEF EntryPlaces, Reads, Moves, Stays, Read
<1>4. \A at : Found(Dict(EmptyMap), at).v = Dict(EmptyMap) /\ ~ Fail(at).ok
  BY DEF Found, Fail
<1>5. IsDict(c, Dict(EmptyMap))
  BY DEF IsDict, Dict, EmptyMap
<1>6. CASE k.ok /\ r.ok /\ rest.ok
  <2>1. r.v \in Values(c)
    BY <1>3, <1>6 DEF Values
  <2>2. IsDict(c, rest.v)
    <3>1. PICK x : x = <<"dict", end>>
      OBVIOUS
    <3>2. x \in CallsBeyond(c, st.index) /\ x[1] = "dict"
      BY <1>3, <1>6, <3>1 DEF CallsBeyond, Calls
    <3>3. Filled(c, x, Get(c)[x])
      BY <3>2 DEF FilledBeyond
    <3> QED
      BY <1>3, <1>4, <1>5, <1>6, <3>1, <3>2, <3>3 DEF GoOn, Filled
  <2>3. PICK map : map = WithEntry(rest.v.dict, key, r.v)
    OBVIOUS
  <2>4. \A i \in DOMAIN map : map[i] \in Values(c)
    BY <2>1, <2>2, <2>3 DEF IsDict, WithEntry
  <2>5. At(c, st).t # "e" => res.v = Dict(map)
    <3> SUFFICES ASSUME At(c, st).t # "e" PROVE res.v = Dict(map)
      OBVIOUS
    <3>1. res = Found(Dict(WithEntry(rest.v.dict, key, r.v)), rest.st)
      BY <1>2, <1>6 DEF EntryTurn
    <3>2. \A v : Found(v, rest.st).v = v
      BY DEF Found
    <3> QED
      BY <2>3, <3>1, <3>2
  <2>6. IsDict(c, Dict(map))
    BY <2>4 DEF IsDict, Dict
  <2> QED
    BY <1>2, <1>4, <1>5, <2>5, <2>6 DEF EntryTurn
<1>7. CASE ~ (k.ok /\ r.ok /\ rest.ok)
  BY <1>2, <1>3, <1>4, <1>5, <1>7 DEF EntryTurn
<1> QED
  BY <1>6, <1>7

\* So it is for all calls.
LEMMA CallsFilled ==
  ASSUME NEW c \in Seq(Token)
  PROVE  \A x \in Calls(c) : Filled(c, x, Get(c)[x])
<1> DEFINE Good == {x \in Calls(c) : Filled(c, x, Get(c)[x])}
<1>1. ASSUME NEW x \in Calls(c), CallsBeyond(c, x[2].index) \subseteq Good PROVE x \in Good
  <2>1. PICK st \in States(c), m \in {"list", "dict"} : x = <<m, st>>
    BY DEF Calls
  <2>2. FilledBeyond(c, st.index)
    BY <1>1, <2>1 DEF FilledBeyond
  <2>3. x[1] = m /\ x[2] = st /\ Get(c)[x] = Turn(c, Get(c), x)
    BY <2>1, ParserTurns
  <2>4. m = "list" => Filled(c, x, Get(c)[x])
    BY <2>2, <2>3, ElementsFilled DEF Turn, Filled
  <2>5. m = "dict" => Filled(c, x, Get(c)[x])
    BY <2>2, <2>3, EntriesFilled DEF Turn, Filled
  <2> QED
    BY <2>4, <2>5
<1> HIDE DEF Good
<1>2. Calls(c) \subseteq Good
  BY <1>1, CallInduction
<1> QED
  BY <1>2 DEF Good

IsNumber(v) == v.t = "int" /\ v.num \in Nat

\* Each value is a number, a string, or a list or a dictionary of such values.
LEMMA ValueKinds ==
  ASSUME NEW c \in Seq(Token), NEW v \in Values(c)
  PROVE  IsNumber(v) \/ v.t = "str" \/ IsList(c, v) \/ IsDict(c, v)
<1>1. PICK st \in States(c) : Read(c, st).ok /\ v = Read(c, st).v
  BY DEF Values
<1>2. PICK i, s, l : i = getInteger(c, st) /\ s = getByteString(c, i.st) /\ ChainOf(c, Get(c), st, i, s, l)
  BY ValueChain, ParserBeyond
<1>3. PICK d : d = getDictionary(c, Get(c), l.st)
  OBVIOUS
<1>4. Read(c, st) \in {i, s, l, d} /\ Reads(c, st, i, "int") /\ Reads(c, i.st, s, "str")
      /\ l = getList(c, Get(c), s.st) /\ Moves(c, s.st, l)
  BY <1>2, <1>3 DEF ChainOf, Read
<1>5. i.st \in States(c) /\ s.st \in States(c) /\ l.st \in States(c)
  BY <1>4 DEF Reads, Moves, Stays
<1>6. CASE Read(c, st) = i
  <2>1. v \in Token /\ v.t = "int"
    BY <1>1, <1>4, <1>6, AtToken DEF Reads
  <2> QED
    BY <2>1 DEF Token, IsNumber, D, L, E, BadInt, BadStr, Junk
<1>7. CASE Read(c, st) = s
  BY <1>1, <1>4, <1>7 DEF Reads
<1>8. ASSUME NEW at \in States(c), NEW m \in {"list", "dict"}, at.index <= Len(c),
             NEW r, r = Get(c)[<<m, Advance(at)>>], r.ok
      PROVE  IF m = "list" THEN IsList(c, r.v) ELSE IsDict(c, r.v)
  <2>1. PICK x : x = <<m, Advance(at)>>
    OBVIOUS
  <2>2. x \in Calls(c) /\ x[1] = m
    BY <1>8, <2>1, AdvanceStays DEF Calls
  <2> QED
    BY <1>8, <2>1, <2>2, CallsFilled DEF Filled
<1>9. \A at : ~ Fail(at).ok
  BY DEF Fail
<1>10. CASE Read(c, st) = l
  <2>1. At(c, s.st).t = "l" /\ l = Get(c)[<<"list", Advance(s.st)>>]
    BY <1>1, <1>4, <1>9, <1>10 DEF getList
  <2>2. s.st.index <= Len(c)
    BY <1>5, <2>1, TokenInside
  <2> QED
    BY <1>1, <1>5, <1>8, <1>10, <2>1, <2>2
<1>11. CASE Read(c, st) = d
  <2>1. At(c, l.st).t = "d" /\ d = Get(c)[<<"dict", Advance(l.st)>>]
    BY <1>1, <1>3, <1>9, <1>11 DEF getDictionary
  <2>2. l.st.index <= Len(c)
    BY <1>5, <2>1, TokenInside
  <2> QED
    BY <1>1, <1>5, <1>8, <1>11, <2>1, <2>2
<1> QED
  BY <1>4, <1>6, <1>7, <1>10, <1>11

\* What MetaInfo takes out of such values.
IsMap(c, map) == \A k \in DOMAIN map : map[k] \in Values(c)

\* What is taken out of a map of such values is a number, a list, a map of them.
LEMMA TakenOut ==
  ASSUME NEW c \in Seq(Token), NEW map, IsMap(c, map), NEW key, NEW v, v = Value(map, key)
  PROVE  AsNum(v) \in Nat /\ AsList(v) \in Seq(Values(c)) /\ IsMap(c, AsMap(v))
<1>1. <<>> \in Seq(Values(c)) /\ IsMap(c, EmptyMap)
  BY DEF IsMap, EmptyMap
<1>2. v \in Values(c) \/ v = [t |-> "invalid"]
  BY DEF Value, IsMap
<1>3. v.t = "invalid" \/ IsNumber(v) \/ v.t = "str" \/ IsList(c, v) \/ IsDict(c, v)
  BY <1>2, ValueKinds
<1>4. AsNum(v) \in Nat
  BY <1>3 DEF AsNum, IsNumber, IsList, IsDict
<1>5. AsList(v) \in Seq(Values(c))
  BY <1>1, <1>3 DEF AsList, IsNumber, IsList, IsDict
<1>6. IsMap(c, AsMap(v))
  BY <1>1, <1>3 DEF AsMap, IsNumber, IsList, IsDict, IsMap
<1> QED
  BY <1>4, <1>5, <1>6

\* An element that is taken as a map.
LEMMA ElementMap ==
  ASSUME NEW c \in Seq(Token), NEW v \in Values(c)
  PROVE  IsMap(c, AsMap(v))
<1>1. IsMap(c, EmptyMap)
  BY DEF IsMap, EmptyMap
<1> QED
  BY <1>1, ValueKinds DEF AsMap, IsNumber, IsList, IsDict, IsMap

IsSized(m) == m.lengths \in Seq(Nat) /\ m.pieceLength \in Nat /\ m.sums \in Nat

\* Whatever map is taken for an info section, the sizes are numbers.
LEMMA InfoSized ==
  ASSUME NEW c \in Seq(Token), NEW map, IsMap(c, map)
  PROVE  IsSized(ReadInfo(map))
<1>1. Sums(map) \in Nat
  BY SumCountAssumption DEF Sums
<1>2. AsNum(Value(map, "piece length")) \in Nat /\ AsNum(Value(map, "length")) \in Nat
  BY TakenOut
<1>3. PICK list : list = AsList(Value(map, "files"))
  OBVIOUS
<1>4. list \in Seq(Values(c))
  BY <1>3, TakenOut
<1>5. FileLengths(map) \in Seq(Nat)
  <2>1. FileLengths(map) = [i \in 1 .. Len(list) |-> AsNum(Value(AsMap(list[i]), "length"))]
    BY <1>3, <1>4 DEF FileLengths
  <2>2. ASSUME NEW i \in 1 .. Len(list) PROVE AsNum(Value(AsMap(list[i]), "length")) \in Nat
    <3>1. IsMap(c, AsMap(list[i]))
      BY <1>4, ElementMap
    <3> QED
      BY <3>1, TakenOut
  <2> QED
    BY <1>4, <2>1, <2>2
<1>6. IsSized(MultiFile(map))
  BY <1>1, <1>2, <1>5 DEF IsSized, MultiFile, Cleared
<1>7. IsSized(SingleFile(map))
  <2>1. PICK n \in Nat : n = AsNum(Value(map, "length"))
    BY <1>2
  <2>2. <<n>> \in Seq(Nat)
    OBVIOUS
  <2> QED
    BY <1>1, <1>2, <2>1, <2>2 DEF IsSized, SingleFile, Cleared
<1>8. IsSized(Cleared)
  BY DEF IsSized, Cleared
<1> QED
  BY <1>6, <1>7, <1>8 DEF ReadInfo

\* Whatever file is opened, if the lengths of its strings fit an int, MetaInfo makes of it
\* lengths, a piece length and a number of sums: what FileLayout assumes of its documents holds
\* of every such document (MetaInfo::parse()).
THEOREM AnyFileIsSized == \A c \in Seq(AnyToken) : LengthsFit(c) => IsSized(Parse(c))
<1> SUFFICES ASSUME NEW c \in Seq(AnyToken), LengthsFit(c) PROVE IsSized(Parse(c))
  OBVIOUS
<1>0. c \in Seq(Token)
  BY FitsIsToken
<1>1. PICK r : r = ParseDictionary(c)
  OBVIOUS
<1>2. IsSized(Cleared) /\ \A s : IsSized([Cleared EXCEPT !.info = s])
  BY DEF IsSized, Cleared
<1>3. CASE ~ r.ok
  BY <1>1, <1>2, <1>3 DEF Parse
<1>4. CASE r.ok /\ "info" \notin DOMAIN AsMap(r.v)
  BY <1>1, <1>2, <1>4 DEF Parse
<1>5. CASE r.ok /\ "info" \in DOMAIN AsMap(r.v)
  <2>1. IsMap(c, AsMap(r.v))
    <3>1. r.v \in Values(c)
      <4>1. State0 \in States(c)
        BY DEF State0, States
      <4>2. At(c, State0).t = "d" /\ r = getDictionary(c, Get(c), State0)
        BY <1>1, <1>5 DEF ParseDictionary, getDictionary, Fail
      <4>3. r = Read(c, State0)
        <5>1. getInteger(c, State0) = Fail(State0) /\ getByteString(c, State0) = Fail(State0)
              /\ getList(c, Get(c), State0) = Fail(State0)
          BY <4>2 DEF getInteger, getByteString, getList
        <5>2. Fail(State0).ok = FALSE /\ Fail(State0).st = State0
          BY DEF Fail
        <5> QED
          BY <4>2, <5>1, <5>2 DEF getValue, Read
      <4> QED
        BY <1>5, <4>1, <4>3 DEF Values
    <3> QED
      BY <1>0, <3>1, ElementMap
  <2>2. PICK info : info = AsMap(r.v)["info"]
    OBVIOUS
  <2>3. info \in Values(c)
    BY <1>5, <2>1, <2>2 DEF IsMap
  <2>4. IsSized(ReadInfo(AsMap(info)))
    BY <1>0, <2>3, ElementMap, InfoSized
  <2>5. Parse(c) = [ReadInfo(AsMap(info)) EXCEPT !.ok = TRUE, !.info = InfoSection(c, r.st)]
    BY <1>1, <1>5, <2>2 DEF Parse
  <2>6. DOMAIN ReadInfo(AsMap(info)) = {"ok", "form", "lengths", "pieceLength", "sums", "info"}
    BY ReadInfoFields
  <2> QED
    BY <2>4, <2>5, <2>6 DEF IsSized
<1> QED
  BY <1>3, <1>4, <1>5
=============================================================================
