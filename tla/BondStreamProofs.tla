-------------------------- MODULE BondStreamProofs --------------------------
(***************************************************************************)
(* The invariant of the bond, what its connections carry, and writing, for *)
(* any number of connections, any ratios and any Writes.                   *)
(*                                                                         *)
(* Frame f of a direction puts a chunk on every connection and the header  *)
(* on the first one.  How much a connection carries for the frames before  *)
(* f is therefore known (Loads), and so is where the writer and the reader *)
(* are on it (Place): what is on its way is what lies between the two      *)
(* (Lane).  Sums over a sequence are reasoned about with the least place   *)
(* where two of them differ (LeastNat).                                    *)
(***************************************************************************)
EXTENDS Bond, WellFoundedInduction, TLAPS

(* What a leaf is tried with that names no prover of its own. *)
USE SMT, Zenon, Z3T(40), SMTT(40), ZenonT(120)

(* The ratios of a direction, and what a frame of n bytes puts on          *)
(* connection i: a chunk, and the header on the first one.                 *)
Ratios(d) == IF d = "up" THEN UploadRatios ELSE DownloadRatios
Lens(d, n) == splitByRatios(n, Ratios(d))
Extra(i) == IF i = 1 THEN 1 ELSE 0
Carried(d, i, n) == Lens(d, n)[i] + Extra(i)

(* How much connection i carries for the first f of the frames s. *)
Loads(d, i, s) == Sums([f \in 1 .. Len(s) |-> Carried(d, i, s[f])])

(* Where on connection i a side is that has begun f frames, the last of    *)
(* them up to chunk next.                                                  *)
Place(d, i, s, f, next) == Loads(d, i, s)[f] - (IF next <= i THEN Lens(d, s[f])[i] ELSE 0)

(* Where in the stream chunk i of frame f starts, and the k-th thing that  *)
(* frame f puts on connection i.                                           *)
Start(d, i, s, f) == Sums(s)[f - 1] + Sums(Lens(d, s[f]))[i - 1]
Item(d, i, s, f, k) == IF k <= Extra(i) THEN Header(s[f]) ELSE Byte(Start(d, i, s, f) + k - Extra(i))

(* On connection i the things w are under way, between the places from and *)
(* to; if the connection is up, all of them.                               *)
IsLane(d, i, s, w, from, to, up) ==
  /\ from + Len(w) <= to
  /\ up => from + Len(w) = to
  /\ \A f \in 1 .. Len(s) : \A k \in 1 .. Carried(d, i, s[f]) : \A p \in 1 .. Len(w) :
       from + p = Loads(d, i, s)[f - 1] + k => w[p] = Item(d, i, s, f, k)

(* What a reader has that has begun f frames, the last up to chunk next. *)
Amount(d, s, f, next) == IF next <= N THEN Start(d, next, s, f) ELSE Sums(s)[f]

(* The first bytes of the stream, amount of them, without a gap. *)
IsFlow(got, buffer, amount) ==
  /\ Len(got) + Len(buffer) = amount
  /\ \A k \in 1 .. Len(got) : got[k] = Byte(k)
  /\ \A k \in 1 .. Len(buffer) : buffer[k] = Byte(Len(got) + k)

S(d) == writer[d].sizes
Sent(d, i) == Place(d, i, S(d), Len(S(d)), writer[d].next)
Taken(d, i) == Place(d, i, S(d), reader[d].frame, reader[d].next)
Received(d) == Amount(d, S(d), reader[d].frame, reader[d].next)

Lane(d, i) == IsLane(d, i, S(d), wire[d][i], Taken(d, i), Sent(d, i), link[i])
Flow(d) == IsFlow(reader[d].got, reader[d].buffer, Received(d))

(* What StreamIntact says of one direction, once its reader has ended. *)
Right(d) ==
  \A k \in 1 .. Len(reader[d].got) :
    \/ reader[d].got[k] = Byte(k) /\ k <= Sum(S(d))
    \/ reader[d].got[k] = Unfilled /\ \E i \in Members : ~ link[i]

Counters(d) ==
  /\ reader[d].frame \in 0 .. Len(S(d))
  /\ reader[d].next <= N => reader[d].frame > 0 /\ reader[d].size = S(d)[reader[d].frame]
  /\ writer[d].next <= N => Len(S(d)) > 0

StreamInv(d) ==
  /\ Counters(d)
  /\ \A i \in Members : Lane(d, i)
  /\ IF reader[d].ended THEN Right(d) ELSE Flow(d)

AllSent == \A i \in Members : dial[i] = "sent"

(* The ends agree on the ratios, and nothing is dialled any more. *)
Bonded ==
  /\ \A e \in Ends : end[e].phase = "bonded" => AllSent
  /\ \A d \in Dirs : S(d) # << >> \/ reader[d].ended => AllSent
  /\ \A d \in Dirs : end[WriterOf(d)].phase = "bonded" \/ S(d) # << >> => end[WriterOf(d)].upload = Ratios(d)
  /\ \A d \in Dirs : end[ReaderOf(d)].phase = "bonded" => end[ReaderOf(d)].download = Ratios(d)

(* A connection is in one map at most, and none is closed in a map that is *)
(* in the cache or about to be evicted.                                    *)
Gathered ==
  /\ \A i \in handled : dial[i] = "sent"
  /\ \A m \in Members : maps[m] \subseteq handled /\ (m \notin handled => maps[m] = {})
  /\ \A m, n \in Members : m # n => maps[m] \intersect maps[n] = {}
  /\ cache # None => cache \in handled
  /\ evicted \subseteq handled
  /\ cache \notin evicted
  /\ closed \subseteq handled
  /\ \A m \in Members : m = cache \/ m \in evicted => maps[m] \intersect closed = {}
  /\ end["server"].phase # "none" => handled = Members /\ closed = {} /\ \A m \in Members : maps[m] = {}

Things == {"header", "byte", "unfilled"} \X Nat
Phases == {"none", "bonded", "closed"}

Writer == [sizes : Seq(Sizes), next : 1 .. N + 1, failed : BOOLEAN]
Reader == [frame : Nat, size : Nat, next : 1 .. N + 1, buffer : Seq(Things), got : Seq(Things), ended : BOOLEAN]

Types ==
  /\ dial \in [Members -> {"dialling", "sent", "failed"}]
  /\ end \in [Ends -> [phase : Phases, download : Seq(0 .. 100), upload : Seq(0 .. 100)]]
  /\ link \in [Members -> BOOLEAN]
  /\ handled \in SUBSET Members
  /\ maps \in [Members -> SUBSET Members]
  /\ cache \in {None} \union Members
  /\ evicted \in SUBSET Members
  /\ closed \in SUBSET Members
  /\ wire \in [Dirs -> [Members -> Seq(Things)]]
  /\ writer \in [Dirs -> Writer]
  /\ reader \in [Dirs -> Reader]

IInv ==
  /\ Types
  /\ Gathered
  /\ Bonded
  /\ \A d \in Dirs : StreamInv(d)

-----------------------------------------------------------------------------
(* Induction by the least counterexample. *)
LEMMA LeastNat ==
  ASSUME NEW T, T \subseteq Nat, T # {}
  PROVE  \E n \in T : \A m \in T : n <= m
<1> DEFINE R == OpToRel(<, Nat)
<1>1. IsWellFoundedOn(R, Nat)
  BY NatLessThanWellFounded, Zenon
<1>2. ASSUME NEW m \in Nat, NEW n \in Nat, ~ (<<m, n>> \in R)
      PROVE  n <= m
  <2>1. <<m, n>> \in Nat \X Nat
    OBVIOUS
  <2>2. ~ m < n
    BY <1>2, <2>1, Zenon DEF OpToRel
  <2> QED BY <2>2
<1> HIDE DEF R
<1>3. \E n \in T : \A m \in T : ~ (<<m, n>> \in R)
  BY <1>1, WFMin, Zenon
<1> QED BY <1>2, <1>3, Zenon

LEMMA Descent ==
  ASSUME NEW T, T \subseteq Nat, 0 \notin T, \A n \in T : n - 1 \in T
  PROVE  T = {}
<1> SUFFICES ASSUME T # {} PROVE FALSE
  OBVIOUS
<1>1. PICK n \in T : \A m \in T : n <= m
  BY LeastNat, Zenon
<1>2. n \in Nat /\ n - 1 \in T
  OBVIOUS
<1>3. n <= n - 1
  BY <1>1, <1>2
<1> QED BY <1>2, <1>3

LEMMA SeqWider ==
  ASSUME NEW A, NEW B, A \subseteq B, NEW s \in Seq(A)
  PROVE  s \in Seq(B)
OBVIOUS

LEMMA SeqElement ==
  ASSUME NEW A, NEW s \in Seq(A), NEW n \in 1 .. Len(s)
  PROVE  s[n] \in A
OBVIOUS

LEMMA SeqIsFunction ==
  ASSUME NEW A, NEW s \in Seq(A)
  PROVE  s \in [1 .. Len(s) -> A]
OBVIOUS

LEMMA PrefixFacts ==
  ASSUME NEW A, NEW s \in Seq(A), NEW n \in 0 .. Len(s)
  PROVE  SubSeq(s, 1, n) \in Seq(A) /\ Len(SubSeq(s, 1, n)) = n /\ \A p \in 1 .. n : SubSeq(s, 1, n)[p] = s[p]
OBVIOUS

LEMMA AppendFacts ==
  ASSUME NEW A, NEW s \in Seq(A), NEW a \in A
  PROVE  /\ Append(s, a) \in Seq(A) /\ Len(s) \in Nat /\ Len(Append(s, a)) = Len(s) + 1
         /\ \A n \in 1 .. Len(s) : Append(s, a)[n] = s[n]
         /\ Append(s, a)[Len(s) + 1] = a
OBVIOUS

LEMMA SuffixFacts ==
  ASSUME NEW A, NEW s \in Seq(A), NEW n \in 0 .. Len(s)
  PROVE  /\ Len(SubSeq(s, n + 1, Len(s))) = Len(s) - n
         /\ \A p \in 1 .. Len(s) - n : n + p \in 1 .. Len(s) /\ SubSeq(s, n + 1, Len(s))[p] = s[n + p]
OBVIOUS

(* Sums of natural numbers. *)
LEMMA Arithmetic ==
  /\ \A a, b \in Nat : a + b \in Nat /\ a <= a + b
  /\ \A a, b, c \in Nat : ~ (a <= b + c) => ~ (a <= b)
  /\ \A l, k, p, c \in Nat : p > 0 /\ k + p <= c => k + p \in 1 .. c /\ (l + k) + p = l + (k + p)
  /\ \A l, j, m, k, q, c \in Nat : l + j = m + (k + q) /\ q > 0 /\ j <= c => ~ (l + c <= m)
OBVIOUS

(* Sums, whose definition is recursive. *)
IsSums(f, s, k) == f \in [0 .. k -> Int] /\ f[0] = 0 /\ \A n \in 1 .. k : f[n] = f[n - 1] + s[n]

LEMMA SumsExist ==
  ASSUME NEW s \in Seq(Int), NEW k \in 0 .. Len(s)
  PROVE  \E f : IsSums(f, s, k)
<1> DEFINE T == {n \in Nat : n <= Len(s) /\ ~ \E f : IsSums(f, s, n)}
<1>1. 0 \notin T
  <2>1. IsSums([i \in 0 .. 0 |-> 0], s, 0)
    BY DEF IsSums
  <2> QED BY <2>1
<1>2. ASSUME NEW n \in T PROVE n - 1 \in T
  <2>1. n \in Nat /\ n <= Len(s) /\ n # 0
    BY <1>1
  <2>2. n - 1 \in Nat /\ n - 1 <= Len(s)
    BY <2>1
  <2>3. ASSUME NEW f, IsSums(f, s, n - 1) PROVE FALSE
    <3> DEFINE g == [i \in 0 .. n |-> IF i = n THEN f[n - 1] + s[n] ELSE f[i]]
    <3>1. f \in [0 .. n - 1 -> Int] /\ f[0] = 0 /\ \A j \in 1 .. n - 1 : f[j] = f[j - 1] + s[j]
      BY <2>3, Zenon DEF IsSums
    <3>2. n \in 1 .. Len(s) /\ f[n - 1] \in Int /\ s[n] \in Int
      BY <2>1, <3>1
    <3>3. g \in [0 .. n -> Int] /\ g[0] = 0 /\ g[n] = f[n - 1] + s[n]
      BY <2>1, <3>1, <3>2
    <3>4. \A j \in 0 .. n - 1 : g[j] = f[j]
      BY <2>1
    <3> HIDE DEF g
    <3>5. ASSUME NEW j \in 1 .. n PROVE g[j] = g[j - 1] + s[j]
      <4>1. CASE j = n
        <5>1. n - 1 \in 0 .. n - 1
          BY <2>1
        <5> QED BY <3>3, <3>4, <4>1, <5>1, Zenon
      <4>2. CASE j # n
        <5>1. j \in 1 .. n - 1 /\ j \in 0 .. n - 1 /\ j - 1 \in 0 .. n - 1
          BY <2>1, <4>2
        <5> QED BY <3>1, <3>4, <5>1, Zenon
      <4> QED BY <4>1, <4>2
    <3>6. IsSums(g, s, n)
      BY <3>3, <3>5, Zenon DEF IsSums
    <3> QED BY <2>1, <3>6, Zenon
  <2> QED BY <2>2, <2>3
<1>3. T = {}
  <2>1. T \subseteq Nat
    OBVIOUS
  <2> HIDE DEF T
  <2> QED BY <1>1, <1>2, <2>1, Descent, Zenon
<1>4. k \in Nat /\ k <= Len(s)
  OBVIOUS
<1> QED BY <1>3, <1>4

LEMMA SumsDef ==
  ASSUME NEW s \in Seq(Int)
  PROVE  IsSums(Sums(s), s, Len(s))
<1> DEFINE F(g) == [n \in 0 .. Len(s) |-> IF n = 0 THEN 0 ELSE g[n - 1] + s[n]]
<1>0. Len(s) \in Nat /\ Len(s) \in 0 .. Len(s)
  OBVIOUS
<1>1. PICK f : IsSums(f, s, Len(s))
  BY <1>0, SumsExist
<1>2. f = F(f)
  BY <1>1 DEF IsSums
<1>3. Sums(s) = CHOOSE g : g = F(g)
  BY DEF Sums
<1>4. Sums(s) = F(Sums(s))
  BY <1>2, <1>3, Zenon
<1>5. \A n \in 0 .. Len(s) : Sums(s)[n] = f[n]
  <2> DEFINE T == {n \in Nat : n <= Len(s) /\ Sums(s)[n] # f[n]}
  <2>1. 0 \notin T
    BY <1>0, <1>1, <1>4 DEF IsSums
  <2>2. ASSUME NEW n \in T PROVE n - 1 \in T
    <3>1. n \in Nat /\ n <= Len(s) /\ n # 0 /\ Sums(s)[n] # f[n]
      BY <2>1
    <3>2. n - 1 \in Nat /\ n - 1 <= Len(s)
      BY <1>0, <3>1
    <3>3. n \in 0 .. Len(s) /\ n \in 1 .. Len(s)
      BY <1>0, <3>1
    <3>4. F(Sums(s))[n] = Sums(s)[n - 1] + s[n]
      BY <3>1, <3>3
    <3>5. Sums(s)[n] = F(Sums(s))[n]
      BY <1>4, Zenon
    <3>6. f[n] = f[n - 1] + s[n]
      BY <1>1, <3>3 DEF IsSums
    <3>7. Sums(s)[n - 1] # f[n - 1]
      BY <3>1, <3>4, <3>5, <3>6, Zenon
    <3> QED BY <3>2, <3>7
  <2>3. T = {}
    <3>1. T \subseteq Nat
      OBVIOUS
    <3> HIDE DEF T
    <3> QED BY <2>1, <2>2, <3>1, Descent, Zenon
  <2> QED BY <1>0, <2>3
<1>6. Sums(s) = f
  BY <1>1, <1>4, <1>5 DEF IsSums
<1> QED BY <1>1, <1>6

LEMMA SumsSteps ==
  ASSUME NEW s \in Seq(Int)
  PROVE  /\ Sums(s)[0] = 0
         /\ \A n \in 0 .. Len(s) : Sums(s)[n] \in Int
         /\ \A n \in 1 .. Len(s) : Sums(s)[n] = Sums(s)[n - 1] + s[n]
BY SumsDef, Zenon DEF IsSums

LEMMA SumsAgree ==
  ASSUME NEW s \in Seq(Int), NEW t \in Seq(Int), NEW k \in Nat, k <= Len(s), k <= Len(t),
         \A n \in 1 .. k : s[n] = t[n]
  PROVE  \A n \in 0 .. k : Sums(s)[n] = Sums(t)[n]
<1> DEFINE T == {n \in Nat : n <= k /\ Sums(s)[n] # Sums(t)[n]}
<1>0. Len(s) \in Nat /\ Len(t) \in Nat
  OBVIOUS
<1>1. 0 \notin T
  BY SumsSteps
<1>2. ASSUME NEW n \in T PROVE n - 1 \in T
  <2>1. n \in Nat /\ n <= k /\ n # 0 /\ Sums(s)[n] # Sums(t)[n]
    BY <1>1
  <2>2. n - 1 \in Nat /\ n - 1 <= k
    BY <2>1
  <2>3. n \in 1 .. k /\ n \in 1 .. Len(s) /\ n \in 1 .. Len(t)
    BY <1>0, <2>1
  <2>4. Sums(s)[n] = Sums(s)[n - 1] + s[n] /\ Sums(t)[n] = Sums(t)[n - 1] + t[n] /\ s[n] = t[n]
    BY <2>3, SumsSteps
  <2>5. Sums(s)[n - 1] # Sums(t)[n - 1]
    BY <2>1, <2>4, Zenon
  <2> QED BY <2>2, <2>5
<1>3. T = {}
  <2>1. T \subseteq Nat
    OBVIOUS
  <2> HIDE DEF T
  <2> QED BY <1>1, <1>2, <2>1, Descent, Zenon
<1>4. ASSUME NEW n \in 0 .. k PROVE Sums(s)[n] = Sums(t)[n]
  <2>1. n \in Nat /\ n <= k
    OBVIOUS
  <2> QED BY <1>3, <2>1, Zenon
<1> QED BY <1>4

LEMMA SumsOfNats ==
  ASSUME NEW s \in Seq(Nat)
  PROVE  \A n \in 0 .. Len(s) : Sums(s)[n] \in Nat
<1> DEFINE T == {n \in Nat : n <= Len(s) /\ Sums(s)[n] \notin Nat}
<1>0. Len(s) \in Nat /\ s \in Seq(Int)
  OBVIOUS
<1>1. 0 \notin T
  BY <1>0, SumsSteps
<1>2. ASSUME NEW n \in T PROVE n - 1 \in T
  <2>1. n \in Nat /\ n <= Len(s) /\ n # 0 /\ Sums(s)[n] \notin Nat
    BY <1>1
  <2>2. n - 1 \in Nat /\ n - 1 <= Len(s) /\ n \in 1 .. Len(s)
    BY <1>0, <2>1
  <2>3. Sums(s)[n] = Sums(s)[n - 1] + s[n] /\ s[n] \in Nat
    BY <1>0, <2>2, SumsSteps
  <2>4. Sums(s)[n - 1] \notin Nat
    BY <2>1, <2>3
  <2> QED BY <2>2, <2>4
<1>3. T = {}
  <2>1. T \subseteq Nat
    OBVIOUS
  <2> HIDE DEF T
  <2> QED BY <1>1, <1>2, <2>1, Descent, Zenon
<1> QED BY <1>0, <1>3

LEMMA SumsGrow ==
  ASSUME NEW s \in Seq(Nat), NEW m \in 0 .. Len(s), NEW n \in 0 .. Len(s), m <= n
  PROVE  Sums(s)[m] <= Sums(s)[n]
<1> DEFINE T == {l \in Nat : m <= l /\ l <= Len(s) /\ ~ Sums(s)[m] <= Sums(s)[l]}
<1>0. Len(s) \in Nat /\ s \in Seq(Int) /\ m \in Nat /\ Sums(s)[m] \in Nat
  BY SumsOfNats
<1>1. m \notin T
  BY <1>0
<1>2. ASSUME NEW l \in T PROVE l - 1 \in T
  <2>1. l \in Nat /\ m < l /\ l <= Len(s) /\ ~ Sums(s)[m] <= Sums(s)[l]
    BY <1>0, <1>1
  <2>2. l - 1 \in Nat /\ m <= l - 1 /\ l - 1 <= Len(s) /\ l \in 1 .. Len(s) /\ l - 1 \in 0 .. Len(s)
    BY <1>0, <2>1
  <2>3. Sums(s)[l] = Sums(s)[l - 1] + s[l] /\ s[l] \in Nat /\ Sums(s)[l - 1] \in Nat
    BY <1>0, <2>2, SumsSteps, SumsOfNats
  <2>4. ~ Sums(s)[m] <= Sums(s)[l - 1]
    <3>1. ~ Sums(s)[m] <= Sums(s)[l - 1] + s[l]
      BY <2>1, <2>3, Zenon
    <3> QED BY <1>0, <2>3, <3>1, Arithmetic, Zenon
  <2> QED BY <2>2, <2>4
<1>3. T = {}
  <2>1. T \subseteq Nat
    OBVIOUS
  <2>2. 0 \notin T
    BY <1>0, <1>1
  <2> HIDE DEF T
  <2> QED BY <1>2, <2>1, <2>2, Descent, Zenon
<1> QED BY <1>0, <1>3

LEMMA SumsAppend ==
  ASSUME NEW s \in Seq(Nat), NEW x \in Nat
  PROVE  /\ \A n \in 0 .. Len(s) : Sums(Append(s, x))[n] = Sums(s)[n]
         /\ Sums(Append(s, x))[Len(s) + 1] = Sums(s)[Len(s)] + x
<1>0. Nat \subseteq Int
  OBVIOUS
<1>1. PICK t \in Seq(Int) : t = Append(s, x)
  <2>1. Append(s, x) \in Seq(Nat)
    OBVIOUS
  <2>2. Append(s, x) \in Seq(Int)
    BY <1>0, <2>1, SeqWider
  <2> QED BY <2>2, Zenon
<1>2. /\ Len(s) \in Nat /\ Len(t) = Len(s) + 1
      /\ \A n \in 1 .. Len(s) : s[n] = t[n]
      /\ t[Len(s) + 1] = x
  BY <1>1
<1>3. \A n \in 0 .. Len(s) : Sums(s)[n] = Sums(t)[n]
  <2>1. s \in Seq(Int)
    BY <1>0, SeqWider
  <2>2. Len(s) <= Len(s) /\ Len(s) <= Len(t)
    BY <1>2
  <2> QED BY <1>2, <2>1, <2>2, SumsAgree, Zenon
<1>4. Sums(t)[Len(s) + 1] = Sums(t)[Len(s)] + x
  BY <1>2, SumsSteps
<1> QED BY <1>1, <1>2, <1>3, <1>4

-----------------------------------------------------------------------------
(* splitByRatios: the parts before the last never take more than there is. *)
LEMMA RatioFacts ==
  ASSUME NEW d \in Dirs
  PROVE  Ratios(d) \in Seq(0 .. 100) /\ Len(Ratios(d)) = N /\ N \in Nat /\ N > 0 /\ Sum(Ratios(d)) = 100
BY RatiosAssumption DEF Ratios, N

LEMMA PartFacts == \A n \in Nat, r \in 0 .. 100 : /\ (n * r) \div 100 \in Nat
                                                  /\ 100 * ((n * r) \div 100) <= n * r
<1> SUFFICES ASSUME NEW n \in Nat, NEW r \in 0 .. 100
             PROVE  (n * r) \div 100 \in Nat /\ 100 * ((n * r) \div 100) <= n * r
  OBVIOUS
<1>1. PICK q \in Nat : q = n * r
  OBVIOUS
<1>2. q \div 100 \in Nat /\ 100 * (q \div 100) <= q
  BY <1>1
<1> QED BY <1>1, <1>2

LEMMA Products == /\ \A n, a, b \in Nat : n * (a + b) = n * a + n * b
                  /\ \A n, a \in Nat : n * a \in Nat
OBVIOUS

LEMMA LessBefore == \A x, y, a, b \in Nat : 100 * y <= b /\ 100 * x <= a => 100 * (x + y) <= a + b
OBVIOUS

LEMMA WithinWhole == \A n, p, r \in Nat : r <= 100 /\ 100 * p <= n * r => n - p \in Nat
<1> SUFFICES ASSUME NEW n \in Nat, NEW p \in Nat, NEW r \in Nat, r <= 100, 100 * p <= n * r
             PROVE  p <= n
  OBVIOUS
<1>1. n * r <= n * 100
  OBVIOUS
<1> QED BY <1>1, Products

LEMMA PartsBound ==
  ASSUME NEW number \in Nat, NEW ratios \in Seq(0 .. 100), NEW parts \in Seq(Nat), Len(parts) <= Len(ratios),
         \A i \in 1 .. Len(parts) : parts[i] = (number * ratios[i]) \div 100
  PROVE  \A n \in 0 .. Len(parts) : 100 * Sums(parts)[n] <= number * Sums(ratios)[n]
<1> DEFINE T == {n \in Nat : n <= Len(parts) /\ ~ (100 * Sums(parts)[n] <= number * Sums(ratios)[n])}
<1>0. /\ Len(parts) \in Nat /\ Len(ratios) \in Nat
      /\ parts \in Seq(Int) /\ ratios \in Seq(Int) /\ ratios \in Seq(Nat)
  <2>1. 0 .. 100 \subseteq Nat /\ Nat \subseteq Int /\ 0 .. 100 \subseteq Int
    OBVIOUS
  <2> QED BY <2>1, SeqWider
<1>1. 0 \notin T
  BY <1>0, SumsSteps
<1>2. ASSUME NEW n \in T PROVE n - 1 \in T
  <2>1. n \in Nat /\ n <= Len(parts) /\ n # 0 /\ ~ (100 * Sums(parts)[n] <= number * Sums(ratios)[n])
    BY <1>1
  <2>2. /\ n - 1 \in Nat /\ n - 1 <= Len(parts) /\ n \in 1 .. Len(parts) /\ n \in 1 .. Len(ratios)
        /\ n - 1 \in 0 .. Len(parts) /\ n - 1 \in 0 .. Len(ratios)
    BY <1>0, <2>1
  <2>3. /\ Sums(parts)[n] = Sums(parts)[n - 1] + parts[n] /\ Sums(parts)[n - 1] \in Nat
        /\ Sums(ratios)[n] = Sums(ratios)[n - 1] + ratios[n] /\ Sums(ratios)[n - 1] \in Nat
    BY <1>0, <2>2, SumsSteps, SumsOfNats, ZenonT(120)
  <2>4. ratios[n] \in 0 .. 100 /\ ratios[n] \in Nat /\ parts[n] \in Nat /\ 100 * parts[n] <= number * ratios[n]
    <3>1. ratios[n] \in 0 .. 100 /\ parts[n] \in Nat /\ ratios[n] \in Nat
      BY <1>0, <2>2, SeqElement, Zenon
    <3>2. parts[n] = (number * ratios[n]) \div 100
      BY <2>2, Zenon
    <3> QED BY <3>1, <3>2, PartFacts, Zenon
  <2>5. number * Sums(ratios)[n] = number * Sums(ratios)[n - 1] + number * ratios[n]
    <3>1. Sums(ratios)[n - 1] \in Nat /\ ratios[n] \in Nat
      BY <2>3, <2>4, Zenon
    <3>2. number * (Sums(ratios)[n - 1] + ratios[n]) = number * Sums(ratios)[n - 1] + number * ratios[n]
      BY <3>1, Products, Zenon
    <3> QED BY <2>3, <3>2, Zenon
  <2>6. number * Sums(ratios)[n - 1] \in Nat /\ number * ratios[n] \in Nat
    BY <2>3, <2>4, Products, Zenon
  <2>7. ~ (100 * Sums(parts)[n - 1] <= number * Sums(ratios)[n - 1])
    <3>1. ~ (100 * (Sums(parts)[n - 1] + parts[n]) <= number * Sums(ratios)[n - 1] + number * ratios[n])
      BY <2>1, <2>3, <2>5, Zenon
    <3>2. Sums(parts)[n - 1] \in Nat /\ parts[n] \in Nat /\ 100 * parts[n] <= number * ratios[n]
      BY <2>3, <2>4, Zenon
    <3> QED BY <2>6, <3>1, <3>2, LessBefore, ZenonT(120)
  <2> QED BY <2>2, <2>7
<1>3. T = {}
  <2>1. T \subseteq Nat
    OBVIOUS
  <2> HIDE DEF T
  <2> QED BY <1>1, <1>2, <2>1, Descent, Zenon
<1>4. ASSUME NEW n \in 0 .. Len(parts) PROVE 100 * Sums(parts)[n] <= number * Sums(ratios)[n]
  <2>1. n \in Nat /\ n <= Len(parts)
    BY <1>0
  <2> QED BY <1>3, <2>1, Zenon
<1> QED BY <1>4

(* The chunks of a frame have lengths, and add up to the frame. *)
LEMMA LensFacts ==
  ASSUME NEW d \in Dirs, NEW n \in Nat
  PROVE  /\ Lens(d, n) \in Seq(Nat) /\ Lens(d, n) \in [Members -> Nat] /\ Len(Lens(d, n)) = N
         /\ Sums(Lens(d, n))[0] = 0
         /\ Sums(Lens(d, n))[N] = n
<1>1. PICK ratios \in Seq(0 .. 100) : ratios = Ratios(d) /\ Len(ratios) = N /\ Sums(ratios)[N] = 100
  BY RatioFacts DEF Sum
<1>2. N \in Nat /\ N > 0 /\ ratios \in Seq(Nat) /\ ratios \in Seq(Int) /\ N - 1 \in Nat
  <2>1. 0 .. 100 \subseteq Nat /\ 0 .. 100 \subseteq Int
    OBVIOUS
  <2>2. N \in Nat /\ N > 0
    BY RatioFacts
  <2>3. N - 1 \in Nat
    BY <2>2
  <2> QED BY <2>1, <2>2, <2>3, SeqWider, ZenonT(120)
<1> DEFINE parts == [i \in 1 .. N - 1 |-> (n * ratios[i]) \div 100]
<1>3. /\ parts = [i \in 1 .. N - 1 |-> (n * ratios[i]) \div 100]
      /\ splitByRatios(n, ratios) = [i \in Members |-> IF i < N THEN parts[i] ELSE n - Sum(parts)]
  BY Zenon DEF splitByRatios
<1> HIDE DEF parts
<1>4. \A i \in 1 .. N - 1 : ratios[i] \in 0 .. 100 /\ (n * ratios[i]) \div 100 \in Nat
  BY <1>1, <1>2, PartFacts
<1>5. parts \in Seq(Nat) /\ parts \in Seq(Int) /\ Len(parts) = N - 1
  <2>1. parts \in Seq(Nat) /\ Len(parts) = N - 1
    BY <1>2, <1>3, <1>4
  <2>2. Nat \subseteq Int
    OBVIOUS
  <2> QED BY <2>1, <2>2, SeqWider
<1>6. 100 * Sums(parts)[N - 1] <= n * Sums(ratios)[N - 1]
  <2>1. Len(parts) <= Len(ratios) /\ N - 1 \in 0 .. Len(parts)
    BY <1>1, <1>2, <1>5
  <2>2. \A i \in 1 .. Len(parts) : parts[i] = (n * ratios[i]) \div 100
    BY <1>3, <1>5, Zenon
  <2> QED BY <1>5, <2>1, <2>2, PartsBound, ZenonT(120)
<1>7. Sums(ratios)[N - 1] \in Nat /\ Sums(ratios)[N - 1] <= 100 /\ Sums(parts)[N - 1] \in Nat
  <2>1. N - 1 \in 0 .. Len(ratios) /\ N \in 0 .. Len(ratios) /\ N - 1 <= N /\ N - 1 \in 0 .. Len(parts)
    BY <1>1, <1>2, <1>5
  <2>2. Sums(ratios)[N - 1] \in Nat /\ Sums(parts)[N - 1] \in Nat
    BY <1>2, <1>5, <2>1, SumsOfNats, Zenon
  <2>3. Sums(ratios)[N - 1] <= Sums(ratios)[N]
    BY <1>2, <2>1, SumsGrow, Zenon
  <2> QED BY <1>1, <2>2, <2>3, Zenon
<1>9. PICK rest \in Nat : rest = n - Sums(parts)[N - 1]
  BY <1>6, <1>7, WithinWhole, Zenon
<1>10. PICK lens : lens = [i \in Members |-> IF i < N THEN parts[i] ELSE rest]
  BY Zenon
<1>11. Lens(d, n) = lens
  <2>1. Sum(parts) = Sums(parts)[N - 1]
    BY <1>5, Zenon DEF Sum
  <2>2. rest = n - Sum(parts)
    BY <1>9, <2>1, Zenon
  <2>3. splitByRatios(n, ratios) = [i \in Members |-> IF i < N THEN parts[i] ELSE rest]
    BY <1>3, <2>2
  <2> QED BY <1>1, <1>10, <2>3, Zenon DEF Lens
<1>12. \A i \in 1 .. N - 1 : parts[i] \in Nat
  BY <1>5
<1>13. lens \in [Members -> Nat] /\ lens \in Seq(Nat) /\ lens \in Seq(Int) /\ Len(lens) = N
  <2>1. \A i \in 1 .. N : (IF i < N THEN parts[i] ELSE rest) \in Nat
    BY <1>2, <1>12
  <2>2. lens \in [1 .. N -> Nat]
    BY <1>10, <2>1 DEF Members
  <2>3. lens \in Seq(Nat) /\ Len(lens) = N
    BY <1>2, <2>2
  <2>4. Nat \subseteq Int
    OBVIOUS
  <2> QED BY <2>2, <2>3, <2>4, SeqWider DEF Members
<1>14. Sums(lens)[N - 1] = Sums(parts)[N - 1]
  <2>1. \A i \in 1 .. N - 1 : lens[i] = parts[i]
    BY <1>2, <1>10 DEF Members
  <2>2. N - 1 <= Len(lens) /\ N - 1 <= Len(parts) /\ N - 1 \in 0 .. N - 1
    BY <1>2, <1>5, <1>13
  <2> QED BY <1>2, <1>5, <1>13, <2>1, <2>2, SumsAgree, Zenon
<1>15. Sums(lens)[N] = Sums(lens)[N - 1] + lens[N] /\ lens[N] = rest
  <2>1. N \in 1 .. Len(lens) /\ N \in Members /\ ~ N < N
    BY <1>2, <1>13 DEF Members
  <2> QED BY <1>10, <1>13, <2>1, SumsSteps, Zenon
<1>16. Sums(lens)[N] = n
  BY <1>7, <1>9, <1>14, <1>15
<1> QED BY <1>11, <1>13, <1>16, SumsSteps

-----------------------------------------------------------------------------
(* Links only go down. *)
Fading == link' \in [Members -> BOOLEAN] /\ \A i \in Members : link'[i] => link[i]

LEMMA CuttingFades ==
  ASSUME IInv, NEW is, Cutting(is)
  PROVE  Fading
<1>1. link' = [i \in Members |-> link[i] /\ i \notin is]
  BY DEF Cutting
<1>2. link' \in [Members -> BOOLEAN]
  BY <1>1, Zenon
<1>3. \A i \in Members : link'[i] => link[i]
  BY <1>1, Zenon
<1> QED BY <1>2, <1>3 DEF Fading

LEMMA SameFades ==
  ASSUME IInv, UNCHANGED link
  PROVE  Fading
BY Zenon DEF Fading, IInv, Types

(* Before the first Write every place is the start. *)
LEMMA NothingSent ==
  ASSUME IInv, NEW d \in Dirs, NEW i \in Members, S(d) = << >>
  PROVE  Taken(d, i) = 0 /\ Sent(d, i) = 0 /\ wire[d][i] = << >>
<1>1. Len(S(d)) = 0 /\ N \in Nat /\ i \in 1 .. N
  BY RatioFacts DEF Members
<1>2. Counters(d) /\ Lane(d, i)
  BY Zenon DEF IInv, StreamInv
<1>3. reader[d].frame = 0 /\ reader[d].next \in 1 .. N + 1 /\ writer[d].next \in 1 .. N + 1
  BY <1>1, <1>2 DEF Counters, IInv, Types, Writer, Reader
<1>4. ~ reader[d].next <= i /\ ~ writer[d].next <= i
  BY <1>1, <1>2, <1>3 DEF Counters
<1>5. Loads(d, i, S(d))[0] = 0
  <2>1. [f \in 1 .. Len(S(d)) |-> Carried(d, i, S(d)[f])] \in Seq(Int)
    BY <1>1
  <2> QED BY <2>1, SumsSteps, Zenon DEF Loads
<1>6. Place(d, i, S(d), 0, reader[d].next) = 0 /\ Place(d, i, S(d), 0, writer[d].next) = 0
  BY <1>4, <1>5 DEF Place
<1>7. Taken(d, i) = 0 /\ Sent(d, i) = 0
  BY <1>1, <1>3, <1>6, Zenon DEF Taken, Sent
<1>8. wire[d][i] \in Seq(Things)
  BY DEF IInv, Types
<1>9. Len(wire[d][i]) <= 0
  BY <1>2, <1>7, <1>8 DEF Lane, IsLane
<1> QED BY <1>7, <1>8, <1>9

(* Steps that leave a direction's stream alone; a connection comes up      *)
(* before the first Write only.                                            *)
LEMMA LanesKept ==
  ASSUME IInv, NEW d \in Dirs, Fading \/ S(d) = << >>, S(d)' = S(d), writer'[d].next = writer[d].next,
         reader'[d].frame = reader[d].frame, reader'[d].next = reader[d].next, wire'[d] = wire[d],
         NEW i \in Members
  PROVE  Lane(d, i)'
<1>1. Lane(d, i)
  BY Zenon DEF IInv, StreamInv
<1>2. Taken(d, i)' = Taken(d, i) /\ Sent(d, i)' = Sent(d, i) /\ (wire[d][i])' = wire[d][i]
  BY Zenon DEF Taken, Sent
<1>3. link'[i] => Taken(d, i) + Len(wire[d][i]) = Sent(d, i)
  <2>1. CASE Fading
    BY <1>1, <2>1, Zenon DEF Lane, IsLane, Fading
  <2>2. CASE S(d) = << >>
    BY <2>2, NothingSent
  <2> QED BY <2>1, <2>2, Zenon
<1>4. IsLane(d, i, S(d), wire[d][i], Taken(d, i), Sent(d, i), link'[i])
  BY <1>1, <1>3, Zenon DEF Lane, IsLane
<1> QED BY <1>2, <1>4, Zenon DEF Lane

LEMMA DirKept ==
  ASSUME IInv, NEW d \in Dirs, Fading \/ (S(d) = << >> /\ ~ reader[d].ended),
         S(d)' = S(d), writer'[d].next = writer[d].next, reader'[d] = reader[d], wire'[d] = wire[d]
  PROVE  StreamInv(d)'
<1>1. StreamInv(d) /\ (~ reader[d].ended \/ \A i \in Members : link'[i] => link[i])
  BY Zenon DEF IInv, Fading
<1>2. Counters(d)'
  BY <1>1, Zenon DEF StreamInv, Counters
<1>3. \A i \in Members : Lane(d, i)'
  BY LanesKept, Zenon
<1>4. (IF reader[d].ended THEN Right(d) ELSE Flow(d))'
  <2>1. Received(d)' = Received(d)
    BY Zenon DEF Received
  <2>2. Flow(d)' = Flow(d)
    BY <2>1, Zenon DEF Flow
  <2>3. reader[d].ended /\ Right(d) => Right(d)'
    BY <1>1, Zenon DEF Right
  <2> QED BY <1>1, <2>2, <2>3, Zenon DEF StreamInv
<1> QED BY <1>2, <1>3, <1>4, Zenon DEF StreamInv

LEMMA StreamKept ==
  ASSUME IInv, UNCHANGED stream, NEW d \in Dirs, Fading \/ (S(d) = << >> /\ ~ reader[d].ended)
  PROVE  StreamInv(d)'
<1>1. /\ S(d)' = S(d) /\ writer'[d].next = writer[d].next
      /\ reader'[d] = reader[d] /\ wire'[d] = wire[d]
  BY Zenon DEF stream, S
<1> QED BY <1>1, DirKept, Zenon

LEMMA BondedKept ==
  ASSUME IInv, UNCHANGED <<dial, stream>>,
         \A e \in Ends : end'[e].phase = "bonded" => end[e].phase = "bonded",
         \A e \in Ends : end'[e].upload = end[e].upload /\ end'[e].download = end[e].download
  PROVE  Bonded'
<1>1. Bonded /\ writer' = writer /\ reader' = reader /\ dial' = dial
  BY Zenon DEF IInv, stream
<1>2. \A d \in Dirs : WriterOf(d) \in Ends /\ ReaderOf(d) \in Ends
  BY DEF Dirs, Ends, WriterOf, ReaderOf
<1> QED BY <1>1, <1>2, Zenon DEF Bonded, AllSent, S

LEMMA GatheredKept ==
  ASSUME IInv, UNCHANGED assembly, \A e \in Ends : end'[e].phase # "none" => end[e].phase # "none"
  PROVE  Gathered'
BY Zenon DEF IInv, Gathered, assembly, Ends

-----------------------------------------------------------------------------
(* Places. *)
LEMMA LoadFacts ==
  ASSUME NEW d \in Dirs, NEW i \in Members, NEW s \in Seq(Nat)
  PROVE  /\ Loads(d, i, s)[0] = 0
         /\ \A f \in 0 .. Len(s) : Loads(d, i, s)[f] \in Nat
         /\ \A f \in 1 .. Len(s) :
              /\ s[f] \in Nat /\ Lens(d, s[f])[i] \in Nat
              /\ Carried(d, i, s[f]) = Lens(d, s[f])[i] + Extra(i)
              /\ Carried(d, i, s[f]) \in Nat
              /\ Loads(d, i, s)[f] = Loads(d, i, s)[f - 1] + Carried(d, i, s[f])
<1>1. Len(s) \in Nat /\ Extra(i) \in Nat
  BY DEF Extra
<1>2. ASSUME NEW f \in 1 .. Len(s) PROVE s[f] \in Nat /\ Lens(d, s[f])[i] \in Nat
  <2>1. s[f] \in Nat
    BY SeqElement
  <2>2. Lens(d, s[f]) \in [Members -> Nat]
    BY <2>1, LensFacts, Zenon
  <2> QED BY <2>1, <2>2
<1>3. \A f \in 1 .. Len(s) : /\ Carried(d, i, s[f]) = Lens(d, s[f])[i] + Extra(i)
                             /\ Carried(d, i, s[f]) \in Nat
  BY <1>1, <1>2 DEF Carried
<1>4. PICK c : c = [f \in 1 .. Len(s) |-> Carried(d, i, s[f])]
  BY Zenon
<1>5. c \in Seq(Nat) /\ Len(c) = Len(s)
  BY <1>1, <1>3, <1>4
<1>6. c \in Seq(Int)
  <2>1. Nat \subseteq Int
    OBVIOUS
  <2> QED BY <1>5, <2>1, SeqWider
<1>7. Loads(d, i, s) = Sums(c)
  BY <1>4, Zenon DEF Loads
<1>8. \A f \in 1 .. Len(s) : c[f] = Carried(d, i, s[f])
  BY <1>4, Zenon
<1>9. \A f \in 0 .. Len(s) : Loads(d, i, s)[f] \in Nat
  BY <1>5, <1>7, SumsOfNats, Zenon
<1>10. /\ Loads(d, i, s)[0] = 0
       /\ \A f \in 1 .. Len(s) : Loads(d, i, s)[f] = Loads(d, i, s)[f - 1] + c[f]
  BY <1>5, <1>6, <1>7, SumsSteps, Zenon
<1> QED BY <1>2, <1>3, <1>8, <1>9, <1>10, Zenon

LEMMA LoadsGrow ==
  ASSUME NEW d \in Dirs, NEW i \in Members, NEW s \in Seq(Nat),
         NEW f \in 0 .. Len(s), NEW g \in 0 .. Len(s), f <= g
  PROVE  Loads(d, i, s)[f] <= Loads(d, i, s)[g]
<1>1. PICK c : c = [l \in 1 .. Len(s) |-> Carried(d, i, s[l])]
  BY Zenon
<1>2. c \in Seq(Nat) /\ Len(c) = Len(s)
  BY <1>1, LoadFacts
<1>3. Loads(d, i, s) = Sums(c)
  BY <1>1, Zenon DEF Loads
<1> QED BY <1>2, <1>3, SumsGrow, Zenon

(* A new frame leaves the places of the earlier ones. *)
LEMMA LoadsAppend ==
  ASSUME NEW d \in Dirs, NEW i \in Members, NEW s \in Seq(Nat), NEW n \in Nat
  PROVE  \A f \in 0 .. Len(s) : Loads(d, i, Append(s, n))[f] = Loads(d, i, s)[f]
<1>0. /\ Append(s, n) \in Seq(Nat) /\ Len(s) \in Nat /\ Len(Append(s, n)) = Len(s) + 1
      /\ \A f \in 1 .. Len(s) : Append(s, n)[f] = s[f]
  OBVIOUS
<1>1. PICK b, c : /\ b = [l \in 1 .. Len(s) |-> Carried(d, i, s[l])]
                  /\ c = [l \in 1 .. Len(Append(s, n)) |-> Carried(d, i, Append(s, n)[l])]
  BY Zenon
<1>2. b \in Seq(Nat) /\ Len(b) = Len(s)
  BY <1>1, LoadFacts
<1>3. c \in Seq(Nat) /\ Len(c) = Len(s) + 1
  <2>1. \A l \in 1 .. Len(s) + 1 : Carried(d, i, Append(s, n)[l]) \in Nat
    BY <1>0, LoadFacts, Zenon
  <2> QED BY <1>0, <1>1, <2>1
<1>4. \A f \in 1 .. Len(s) : b[f] = c[f]
  <2> SUFFICES ASSUME NEW f \in 1 .. Len(s) PROVE b[f] = c[f]
    OBVIOUS
  <2>1. f \in 1 .. Len(Append(s, n))
    BY <1>0
  <2> QED BY <1>0, <1>1, <2>1, Zenon
<1>5. b \in Seq(Int) /\ c \in Seq(Int)
  <2>1. Nat \subseteq Int
    OBVIOUS
  <2> QED BY <1>2, <1>3, <2>1, SeqWider
<1>6. Len(s) <= Len(b) /\ Len(s) <= Len(c)
  BY <1>0, <1>2, <1>3
<1>7. \A f \in 0 .. Len(s) : Sums(b)[f] = Sums(c)[f]
  BY <1>0, <1>4, <1>5, <1>6, SumsAgree, Zenon
<1> QED BY <1>1, <1>7, Zenon DEF Loads

LEMMA Remainder ==
  \A a, b, c, e \in Nat : a = b + (c + e) =>
    a - c = b + e /\ b + e \in Nat /\ b + e <= a /\ a - 0 = a /\ a <= a
OBVIOUS

LEMMA FramesBelow ==
  \A n \in Nat : \A f \in 1 .. n : f \in Nat /\ f \in 0 .. n /\ f - 1 \in 0 .. n /\ n - 1 \in 0 .. n
OBVIOUS

LEMMA LoadOf ==
  ASSUME NEW d \in Dirs, NEW i \in Members, NEW s \in Seq(Nat), NEW f \in 1 .. Len(s)
  PROVE  \E a, b, c \in Nat : /\ a = Loads(d, i, s)[f] /\ b = Loads(d, i, s)[f - 1] /\ c = Lens(d, s[f])[i]
                              /\ a = b + (c + Extra(i))
<1>1. f \in 0 .. Len(s) /\ f - 1 \in 0 .. Len(s)
  OBVIOUS
<1>2. Loads(d, i, s)[f] \in Nat /\ Loads(d, i, s)[f - 1] \in Nat
  BY <1>1, LoadFacts, Zenon
<1>3. /\ Lens(d, s[f])[i] \in Nat
      /\ Carried(d, i, s[f]) = Lens(d, s[f])[i] + Extra(i)
      /\ Loads(d, i, s)[f] = Loads(d, i, s)[f - 1] + Carried(d, i, s[f])
  BY LoadFacts, Zenon
<1>4. Loads(d, i, s)[f] = Loads(d, i, s)[f - 1] + (Lens(d, s[f])[i] + Extra(i))
  BY <1>3, Zenon
<1> QED BY <1>2, <1>3, <1>4, Zenon

LEMMA PlaceFacts ==
  ASSUME NEW d \in Dirs, NEW i \in Members, NEW s \in Seq(Nat), NEW next \in 1 .. N + 1
  PROVE  /\ next > N => \A f \in 0 .. Len(s) : Place(d, i, s, f, next) = Loads(d, i, s)[f]
         /\ \A f \in 1 .. Len(s) :
              Place(d, i, s, f, next) =
                IF next <= i THEN Loads(d, i, s)[f - 1] + Extra(i) ELSE Loads(d, i, s)[f]
         /\ \A f \in 1 .. Len(s) : Place(d, i, s, f, next) \in Nat
                                   /\ Place(d, i, s, f, next) <= Loads(d, i, s)[f]
<1>1. N \in Nat /\ i \in 1 .. N /\ Len(s) \in Nat /\ Extra(i) \in Nat
  BY RatioFacts DEF Members, Extra
<1>2. ASSUME next > N, NEW f \in 0 .. Len(s) PROVE Place(d, i, s, f, next) = Loads(d, i, s)[f]
  <2>1. ~ next <= i /\ Loads(d, i, s)[f] \in Nat
    BY <1>1, <1>2, LoadFacts
  <2> QED BY <2>1 DEF Place
<1>3. ASSUME NEW f \in 1 .. Len(s)
      PROVE  /\ Place(d, i, s, f, next) =
                  IF next <= i THEN Loads(d, i, s)[f - 1] + Extra(i) ELSE Loads(d, i, s)[f]
             /\ Place(d, i, s, f, next) \in Nat /\ Place(d, i, s, f, next) <= Loads(d, i, s)[f]
  <2>1. f \in 0 .. Len(s) /\ f - 1 \in 0 .. Len(s)
    BY <1>1
  <2>2. PICK a \in Nat, b \in Nat, c \in Nat :
          /\ a = Loads(d, i, s)[f] /\ b = Loads(d, i, s)[f - 1] /\ c = Lens(d, s[f])[i]
          /\ a = b + (c + Extra(i))
    BY LoadOf
  <2>3. Place(d, i, s, f, next) = a - (IF next <= i THEN c ELSE 0)
    BY <2>2, Zenon DEF Place
  <2>4. a - c = b + Extra(i) /\ b + Extra(i) \in Nat /\ b + Extra(i) <= a /\ a - 0 = a /\ a <= a
    <3>1. a = b + (c + Extra(i))
      BY <2>2, Zenon
    <3>2. Extra(i) \in Nat
      BY <1>1, Zenon
    <3> QED BY <3>1, <3>2, Remainder, ZenonT(120)
  <2>5. CASE next <= i
    BY <2>2, <2>3, <2>4, <2>5, Zenon
  <2>6. CASE ~ next <= i
    BY <2>2, <2>3, <2>4, <2>6, Zenon
  <2> QED BY <2>5, <2>6
<1> QED BY <1>2, <1>3

(* Where chunk i begins, and where it ends. *)
LEMMA PlaceMoves ==
  ASSUME NEW d \in Dirs, NEW i \in Members, NEW s \in Seq(Nat), NEW f \in 1 .. Len(s), NEW next \in 1 .. N
  PROVE  Place(d, i, s, f, next + 1) =
           IF i = next THEN Place(d, i, s, f, next) + Lens(d, s[f])[i] ELSE Place(d, i, s, f, next)
<1>1. N \in Nat /\ i \in 1 .. N /\ Len(s) \in Nat /\ Extra(i) \in Nat
  BY RatioFacts DEF Members, Extra
<1>2. f \in 0 .. Len(s) /\ f - 1 \in 0 .. Len(s) /\ next \in 1 .. N + 1 /\ next + 1 \in 1 .. N + 1
  BY <1>1
<1>3. PICK a \in Nat, b \in Nat, c \in Nat :
        /\ a = Loads(d, i, s)[f] /\ b = Loads(d, i, s)[f - 1] /\ c = Lens(d, s[f])[i]
        /\ a = b + (c + Extra(i))
  BY LoadOf
<1>4. /\ Place(d, i, s, f, next) = a - (IF next <= i THEN c ELSE 0)
      /\ Place(d, i, s, f, next + 1) = a - (IF next + 1 <= i THEN c ELSE 0)
  BY <1>3, Zenon DEF Place
<1> QED BY <1>1, <1>2, <1>3, <1>4

LEMMA PlaceAppend ==
  ASSUME NEW d \in Dirs, NEW i \in Members, NEW s \in Seq(Nat), NEW n \in Nat, NEW next \in 1 .. N + 1,
         NEW f \in 0 .. Len(s), next <= N => f > 0
  PROVE  Place(d, i, Append(s, n), f, next) = Place(d, i, s, f, next)
<1>1. N \in Nat /\ i \in 1 .. N /\ Len(s) \in Nat
  BY RatioFacts DEF Members
<1>2. Loads(d, i, Append(s, n))[f] = Loads(d, i, s)[f]
  BY LoadsAppend
<1>3. CASE next <= i
  <2>1. f \in 1 .. Len(s)
    BY <1>1, <1>3
  <2>2. Append(s, n)[f] = s[f]
    BY <2>1
  <2> QED BY <1>2, <2>2, Zenon DEF Place
<1>4. CASE ~ next <= i
  BY <1>2, <1>4, Zenon DEF Place
<1> QED BY <1>3, <1>4

-----------------------------------------------------------------------------
(* Lanes. *)
LEMMA LaneWider ==
  ASSUME NEW d \in Dirs, NEW i \in Members, NEW s \in Seq(Nat), NEW w \in Seq(Things),
         NEW from \in Nat, NEW to \in Nat, NEW up \in BOOLEAN, NEW next \in Nat, to <= next,
         IsLane(d, i, s, w, from, to, up)
  PROVE  IsLane(d, i, s, w, from, next, FALSE)
<1>1. from + Len(w) <= next
  BY DEF IsLane
<1> QED BY <1>1, Zenon DEF IsLane

LEMMA LaneLoses ==
  ASSUME NEW d \in Dirs, NEW i \in Members, NEW s \in Seq(Nat), NEW w \in Seq(Things), w # << >>,
         NEW from \in Nat, NEW to \in Nat, IsLane(d, i, s, w, from, to, FALSE)
  PROVE  IsLane(d, i, s, SubSeq(w, 1, Len(w) - 1), from, to, FALSE)
<1>1. PICK v : v = SubSeq(w, 1, Len(w) - 1)
  BY Zenon
<1>2. Len(w) \in Nat /\ Len(v) = Len(w) - 1 /\ \A p \in 1 .. Len(v) : p \in 1 .. Len(w) /\ v[p] = w[p]
  <2>1. Len(w) \in Nat /\ Len(w) > 0
    OBVIOUS
  <2>2. Len(v) = Len(w) - 1 /\ \A p \in 1 .. Len(w) - 1 : v[p] = w[p]
    <3>1. Len(w) - 1 \in 0 .. Len(w)
      BY <2>1
    <3> QED BY <1>1, <3>1, PrefixFacts, Zenon
  <2> QED BY <2>1, <2>2
<1>3. from + Len(v) <= to
  BY <1>2 DEF IsLane
<1>4. IsLane(d, i, s, v, from, to, FALSE)
  BY <1>2, <1>3, Zenon DEF IsLane
<1> QED BY <1>1, <1>4, Zenon

(* The first c things have been read. *)
LEMMA LaneTakes ==
  ASSUME NEW d \in Dirs, NEW i \in Members, NEW s \in Seq(Nat), NEW w \in Seq(Things), NEW c \in 0 .. Len(w),
         NEW from \in Nat, NEW to \in Nat, NEW up \in BOOLEAN, IsLane(d, i, s, w, from, to, up)
  PROVE  IsLane(d, i, s, SubSeq(w, c + 1, Len(w)), from + c, to, up)
<1>1. PICK v : v = SubSeq(w, c + 1, Len(w))
  BY Zenon
<1>2. /\ Len(w) \in Nat /\ c \in Nat /\ Len(v) = Len(w) - c
      /\ \A p \in 1 .. Len(v) : c + p \in 1 .. Len(w) /\ v[p] = w[c + p]
  BY <1>1
<1>3. from + c + Len(v) <= to /\ (up => from + c + Len(v) = to)
  <2>1. from + Len(w) <= to /\ (up => from + Len(w) = to)
    BY Zenon DEF IsLane
  <2>2. from + c + Len(v) = from + Len(w)
    BY <1>2
  <2> QED BY <2>1, <2>2
<1>4. ASSUME NEW f \in 1 .. Len(s), NEW k \in 1 .. Carried(d, i, s[f]), NEW p \in 1 .. Len(v),
             from + c + p = Loads(d, i, s)[f - 1] + k
      PROVE  v[p] = Item(d, i, s, f, k)
  <2>1. from + (c + p) = from + c + p
    BY <1>2
  <2>2. from + (c + p) = Loads(d, i, s)[f - 1] + k /\ c + p \in 1 .. Len(w)
    BY <1>2, <1>4, <2>1, Zenon
  <2>3. w[c + p] = Item(d, i, s, f, k)
    BY <2>2, Zenon DEF IsLane
  <2> QED BY <1>2, <2>3, Zenon
<1>5. IsLane(d, i, s, v, from + c, to, up)
  BY <1>3, <1>4, Zenon DEF IsLane
<1> QED BY <1>1, <1>5, Zenon

(* What comes first on a connection that has been read up to the k-th      *)
(* thing of frame f.                                                       *)
LEMMA LaneFirst ==
  ASSUME NEW d \in Dirs, NEW i \in Members, NEW s \in Seq(Nat), NEW w \in Seq(Things),
         NEW from \in Nat, NEW to \in Nat, NEW up \in BOOLEAN, IsLane(d, i, s, w, from, to, up),
         NEW f \in 1 .. Len(s), NEW k \in Nat, from = Loads(d, i, s)[f - 1] + k,
         NEW p \in 1 .. Len(w), k + p <= Carried(d, i, s[f])
  PROVE  w[p] = Item(d, i, s, f, k + p)
<1>1. PICK l \in Nat, c \in Nat : l = Loads(d, i, s)[f - 1] /\ c = Carried(d, i, s[f])
  <2>1. f - 1 \in 0 .. Len(s)
    OBVIOUS
  <2> QED BY <2>1, LoadFacts, Zenon
<1>2. k + p \in 1 .. c /\ from + p = l + (k + p)
  <2>1. p \in Nat /\ p > 0
    OBVIOUS
  <2>2. k + p <= c /\ from = l + k
    BY <1>1, Zenon
  <2>3. k + p \in 1 .. c /\ (l + k) + p = l + (k + p)
    BY <2>1, <2>2, Arithmetic
  <2> QED BY <2>2, <2>3, Zenon
<1> QED BY <1>1, <1>2, Zenon DEF IsLane

(* The next things of the last frame are written. *)
LEMMA LanePuts ==
  ASSUME NEW d \in Dirs, NEW i \in Members, NEW s \in Seq(Nat), s # << >>, NEW w \in Seq(Things),
         NEW from \in Nat, NEW to \in Nat, NEW up \in BOOLEAN, IsLane(d, i, s, w, from, to, up),
         from + Len(w) = to,
         NEW k \in Nat, to = Loads(d, i, s)[Len(s) - 1] + k,
         NEW x \in Seq(Things), \A p \in 1 .. Len(x) : x[p] = Item(d, i, s, Len(s), k + p)
  PROVE  IsLane(d, i, s, w \o x, from, to + Len(x), up)
<1>1. PICK v : v = w \o x
  BY Zenon
<1>2. /\ Len(w) \in Nat /\ Len(x) \in Nat /\ Len(v) = Len(w) + Len(x) /\ Len(s) \in Nat /\ Len(s) > 0
      /\ \A p \in 1 .. Len(w) : v[p] = w[p]
      /\ \A p \in 1 .. Len(x) : v[Len(w) + p] = x[p]
  BY <1>1
<1>3. from + Len(v) = to + Len(x) /\ from + Len(v) <= to + Len(x)
  BY <1>2
<1>4. ASSUME NEW f \in 1 .. Len(s), NEW j \in 1 .. Carried(d, i, s[f]), NEW p \in 1 .. Len(v),
             from + p = Loads(d, i, s)[f - 1] + j
      PROVE  v[p] = Item(d, i, s, f, j)
  <2>1. CASE p <= Len(w)
    <3>1. p \in 1 .. Len(w)
      BY <1>2, <2>1
    <3> QED BY <1>2, <1>4, <3>1, ZenonT(120) DEF IsLane
  <2>2. CASE p > Len(w)
    <3>1. PICK q \in 1 .. Len(x) : p = Len(w) + q
      <4>1. p - Len(w) \in 1 .. Len(x) /\ p = Len(w) + (p - Len(w))
        BY <1>2, <2>2
      <4> QED BY <4>1, Zenon
    <3>2. PICK l \in Nat, m \in Nat : l = Loads(d, i, s)[f - 1] /\ m = Loads(d, i, s)[Len(s) - 1]
      <4>1. f - 1 \in 0 .. Len(s) /\ Len(s) - 1 \in 0 .. Len(s)
        BY <1>2, FramesBelow, Zenon
      <4> QED BY <4>1, LoadFacts, Zenon
    <3>3. /\ l + j = m + (k + q) /\ j \in Nat /\ q \in Nat /\ q > 0
          /\ Carried(d, i, s[f]) \in Nat /\ j <= Carried(d, i, s[f])
      <4>1. Carried(d, i, s[f]) \in Nat
        BY LoadFacts, Zenon
      <4>2. j \in Nat /\ j <= Carried(d, i, s[f])
        BY <4>1
      <4>3. q \in Nat /\ q > 0 /\ p \in Nat
        BY <1>2, <3>1
      <4>4. from + p = l + j /\ to = m + k
        BY <1>4, <3>2, Zenon
      <4>5. from + (Len(w) + q) = l + j /\ from + Len(w) = m + k
        BY <3>1, <4>4, Zenon
      <4>6. l + j = m + (k + q)
        <5>1. from + (Len(w) + q) = (from + Len(w)) + q /\ (m + k) + q = m + (k + q)
          BY <1>2, <4>3
        <5> QED BY <4>5, <5>1, ZenonT(120)
      <4> QED BY <4>1, <4>2, <4>3, <4>6, Zenon
    <3>4. f = Len(s)
      <4> SUFFICES ASSUME f # Len(s) PROVE FALSE
        OBVIOUS
      <4>1. f \in 0 .. Len(s) /\ Len(s) - 1 \in 0 .. Len(s)
        BY <1>2, FramesBelow, Zenon
      <4>2. f <= Len(s) - 1
        <5>1. \A n \in Nat : \A g \in 1 .. n : g # n => g <= n - 1
          OBVIOUS
        <5> QED BY <1>2, <5>1, Zenon
      <4>3. PICK a \in Nat : a = Loads(d, i, s)[f] /\ a <= m
        BY <3>2, <4>1, <4>2, LoadFacts, LoadsGrow, ZenonT(120)
      <4>4. a = l + Carried(d, i, s[f])
        BY <3>2, <4>3, LoadFacts, Zenon
      <4>5. PICK c \in Nat : c = Carried(d, i, s[f])
        BY <3>3, Zenon
      <4>6. l + j = m + (k + q) /\ q > 0 /\ j <= c /\ j \in Nat /\ q \in Nat
        BY <3>3, <4>5, Zenon
      <4>7. ~ (l + c <= m)
        BY <4>6, Arithmetic
      <4> QED BY <4>3, <4>4, <4>5, <4>7, Zenon
    <3>5. j = k + q
      <4>1. l = m
        BY <3>2, <3>4, Zenon
      <4> QED BY <3>3, <4>1
    <3> QED BY <1>2, <3>1, <3>4, <3>5, Zenon
  <2> QED BY <1>2, <2>1, <2>2
<1>5. IsLane(d, i, s, v, from, to + Len(x), up)
  BY <1>3, <1>4, Zenon DEF IsLane
<1> QED BY <1>1, <1>5, Zenon

LEMMA PlaceTyped ==
  ASSUME NEW d \in Dirs, NEW i \in Members, NEW s \in Seq(Nat), NEW next \in 1 .. N + 1,
         NEW f \in 0 .. Len(s), next <= N => f > 0
  PROVE  /\ Place(d, i, s, f, next) \in Nat /\ Loads(d, i, s)[f] \in Nat
         /\ Place(d, i, s, f, next) <= Loads(d, i, s)[f]
<1>1. N \in Nat /\ Len(s) \in Nat /\ Loads(d, i, s)[f] \in Nat
  BY RatioFacts, LoadFacts
<1>2. CASE next <= N
  <2>1. f \in 1 .. Len(s)
    BY <1>1, <1>2
  <2> QED BY <1>1, <2>1, PlaceFacts, Zenon
<1>3. CASE ~ next <= N
  <2>1. next > N
    BY <1>1, <1>3
  <2>2. Place(d, i, s, f, next) = Loads(d, i, s)[f]
    <3>1. next > N => \A g \in 0 .. Len(s) : Place(d, i, s, g, next) = Loads(d, i, s)[g]
      BY PlaceFacts
    <3> QED BY <2>1, <3>1
  <2> QED BY <1>1, <2>2
<1> QED BY <1>2, <1>3

(* A new frame is behind what is under way, and leaves it as it is. *)
LEMMA ItemAppend ==
  ASSUME NEW d \in Dirs, NEW i \in Members, NEW s \in Seq(Nat), NEW n \in Nat, NEW f \in 1 .. Len(s)
  PROVE  /\ Append(s, n)[f] = s[f]
         /\ Start(d, i, Append(s, n), f) = Start(d, i, s, f)
         /\ \A k : Item(d, i, Append(s, n), f, k) = Item(d, i, s, f, k)
<1>1. Append(s, n)[f] = s[f] /\ f - 1 \in 0 .. Len(s)
  OBVIOUS
<1>2. Sums(Append(s, n))[f - 1] = Sums(s)[f - 1]
  BY <1>1, SumsAppend, Zenon
<1>3. Start(d, i, Append(s, n), f) = Start(d, i, s, f)
  BY <1>1, <1>2, Zenon DEF Start
<1> QED BY <1>1, <1>3, Zenon DEF Item

LEMMA LaneGrows ==
  ASSUME NEW d \in Dirs, NEW i \in Members, NEW s \in Seq(Nat), NEW n \in Nat, NEW w \in Seq(Things),
         NEW from \in Nat, NEW to \in Nat, NEW up \in BOOLEAN, IsLane(d, i, s, w, from, to, up),
         to <= Loads(d, i, s)[Len(s)]
  PROVE  IsLane(d, i, Append(s, n), w, from, to, up)
<1>1. PICK t \in Seq(Nat) : t = Append(s, n)
  BY AppendFacts, Zenon
<1>2. Len(s) \in Nat /\ Len(t) = Len(s) + 1 /\ Len(w) \in Nat
  BY <1>1, AppendFacts
<1>3. ASSUME NEW f \in 1 .. Len(t), NEW k \in 1 .. Carried(d, i, t[f]), NEW p \in 1 .. Len(w),
             from + p = Loads(d, i, t)[f - 1] + k
      PROVE  w[p] = Item(d, i, t, f, k)
  <2>1. CASE f \in 1 .. Len(s)
    <3>1. t[f] = s[f] /\ Item(d, i, t, f, k) = Item(d, i, s, f, k)
      <4>1. Append(s, n)[f] = s[f] /\ Item(d, i, Append(s, n), f, k) = Item(d, i, s, f, k)
        BY <2>1, ItemAppend
      <4> QED BY <1>1, <4>1, ZenonT(120)
    <3>2. f - 1 \in 0 .. Len(s)
      BY <1>2, <2>1, FramesBelow, Zenon
    <3>3. Loads(d, i, t)[f - 1] = Loads(d, i, s)[f - 1]
      BY <1>1, <3>2, LoadsAppend, ZenonT(120)
    <3>4. from + p = Loads(d, i, s)[f - 1] + k /\ k \in 1 .. Carried(d, i, s[f])
      BY <1>3, <3>1, <3>3, Zenon
    <3>5. w[p] = Item(d, i, s, f, k)
      BY <2>1, <3>4, Zenon DEF IsLane
    <3> QED BY <3>1, <3>5, Zenon
  <2>2. CASE f \notin 1 .. Len(s)
    <3>1. f - 1 = Len(s)
      BY <1>2, <2>2
    <3>2. Len(s) \in 0 .. Len(s)
      BY <1>2
    <3>3. PICK l \in Nat : l = Loads(d, i, s)[Len(s)] /\ l = Loads(d, i, t)[Len(s)]
      <4>1. Loads(d, i, Append(s, n))[Len(s)] = Loads(d, i, s)[Len(s)]
        BY <3>2, LoadsAppend, Zenon
      <4>2. Loads(d, i, s)[Len(s)] \in Nat
        BY <3>2, LoadFacts, Zenon
      <4> QED BY <1>1, <4>1, <4>2, Zenon
    <3>4. Carried(d, i, t[f]) \in Nat
      BY LoadFacts, Zenon
    <3>5. k \in Nat /\ k > 0 /\ p \in Nat /\ p <= Len(w)
      BY <1>2, <3>4
    <3>6. from + p = l + k /\ to <= l
      BY <1>3, <3>1, <3>3, Zenon
    <3>7. from + Len(w) <= to
      BY Zenon DEF IsLane
    <3>8. FALSE
      BY <1>2, <3>5, <3>6, <3>7
    <3> QED BY <3>8
  <2> QED BY <2>1, <2>2
<1>4. IsLane(d, i, t, w, from, to, up)
  <2>1. from + Len(w) <= to /\ (up => from + Len(w) = to)
    BY Zenon DEF IsLane
  <2> QED BY <1>3, <2>1, Zenon DEF IsLane
<1> QED BY <1>1, <1>4, Zenon

LEMMA AmountAppend ==
  ASSUME NEW d \in Dirs, NEW s \in Seq(Nat), NEW n \in Nat, NEW next \in 1 .. N + 1,
         NEW f \in 0 .. Len(s), next <= N => f > 0
  PROVE  Amount(d, Append(s, n), f, next) = Amount(d, s, f, next)
<1>1. N \in Nat /\ Len(s) \in Nat
  BY RatioFacts
<1>2. CASE next <= N
  <2>1. f \in 1 .. Len(s) /\ next \in Members
    BY <1>1, <1>2 DEF Members
  <2>2. Start(d, next, Append(s, n), f) = Start(d, next, s, f)
    BY <2>1, ItemAppend, Zenon
  <2> QED BY <1>2, <2>2, Zenon DEF Amount
<1>3. CASE ~ next <= N
  BY <1>3, SumsAppend, Zenon DEF Amount
<1> QED BY <1>2, <1>3

LEMMA SumAppend ==
  ASSUME NEW s \in Seq(Nat), NEW n \in Nat
  PROVE  Sum(s) \in Nat /\ Sum(Append(s, n)) = Sum(s) + n
<1>1. Len(Append(s, n)) = Len(s) + 1 /\ Len(s) \in 0 .. Len(s)
  OBVIOUS
<1>2. Sums(s)[Len(s)] \in Nat
  BY <1>1, SumsOfNats, Zenon
<1> QED BY <1>1, <1>2, SumsAppend, ZenonT(120) DEF Sum

(* What has been received was written. *)
LEMMA AmountBounded ==
  ASSUME NEW d \in Dirs, NEW s \in Seq(Nat), NEW next \in 1 .. N + 1,
         NEW f \in 0 .. Len(s), next <= N => f > 0
  PROVE  Amount(d, s, f, next) \in Nat /\ Sum(s) \in Nat /\ Amount(d, s, f, next) <= Sum(s)
<1>1. N \in Nat /\ Len(s) \in Nat /\ Len(s) \in 0 .. Len(s) /\ f <= Len(s)
  BY RatioFacts
<1>2. PICK a \in Nat, b \in Nat : a = Sums(s)[f] /\ b = Sum(s) /\ a <= b
  BY <1>1, SumsOfNats, SumsGrow, Zenon DEF Sum
<1>3. CASE next <= N
  <2>1. f \in 1 .. Len(s) /\ f - 1 \in 0 .. Len(s) /\ s \in Seq(Int)
    <3>1. Nat \subseteq Int
      OBVIOUS
    <3>2. f \in 1 .. Len(s)
      BY <1>1, <1>3
    <3> QED BY <1>1, <3>1, <3>2, SeqWider, FramesBelow, ZenonT(120)
  <2>2. PICK n \in Nat : n = s[f]
    BY <2>1, SeqElement
  <2>3. PICK c \in Nat : c = Sums(s)[f - 1] /\ a = c + n
    BY <1>2, <2>1, <2>2, SumsSteps, SumsOfNats, ZenonT(120)
  <2>4. Lens(d, n) \in Seq(Nat) /\ Len(Lens(d, n)) = N /\ Sums(Lens(d, n))[N] = n
    BY LensFacts
  <2>5. next - 1 \in 0 .. Len(Lens(d, n)) /\ N \in 0 .. Len(Lens(d, n)) /\ next - 1 <= N
    BY <1>1, <1>3, <2>4
  <2>6. PICK x \in Nat : x = Sums(Lens(d, n))[next - 1] /\ x <= n
    BY <2>4, <2>5, SumsOfNats, SumsGrow, Zenon
  <2>7. Amount(d, s, f, next) = c + x
    BY <1>3, <2>2, <2>3, <2>6, ZenonT(120) DEF Amount, Start
  <2>8. c + x \in Nat /\ c + x <= b
    <3>1. a <= b /\ a = c + n /\ x <= n
      BY <1>2, <2>3, <2>6, Zenon
    <3> QED BY <3>1
  <2> QED BY <1>2, <2>7, <2>8, Zenon
<1>4. CASE ~ next <= N
  BY <1>2, <1>4, Zenon DEF Amount
<1> QED BY <1>3, <1>4

-----------------------------------------------------------------------------
(* The bytes that have been read. *)
LEMMA FlowReads ==
  ASSUME NEW got \in Seq(Things), NEW buffer \in Seq(Things), NEW amount \in Nat, IsFlow(got, buffer, amount),
         NEW n \in 0 .. Len(buffer)
  PROVE  IsFlow(got \o SubSeq(buffer, 1, n), SubSeq(buffer, n + 1, Len(buffer)), amount)
<1>1. PICK g, b : g = got \o SubSeq(buffer, 1, n) /\ b = SubSeq(buffer, n + 1, Len(buffer))
  BY Zenon
<1>2. Len(got) \in Nat /\ Len(buffer) \in Nat /\ n \in Nat
  OBVIOUS
<1>3. PICK h \in Seq(Things) : h = SubSeq(buffer, 1, n) /\ Len(h) = n /\ \A k \in 1 .. n : h[k] = buffer[k]
  BY PrefixFacts, ZenonT(120)
<1>4. /\ Len(g) = Len(got) + n
      /\ \A k \in 1 .. Len(got) : g[k] = got[k]
      /\ \A k \in 1 .. n : g[Len(got) + k] = h[k]
  BY <1>1, <1>3
<1>5. Len(b) = Len(buffer) - n /\ \A k \in 1 .. Len(b) : n + k \in 1 .. Len(buffer) /\ b[k] = buffer[n + k]
  BY <1>1, SuffixFacts, Zenon
<1>6. Len(g) + Len(b) = amount
  <2>1. Len(got) + Len(buffer) = amount
    BY Zenon DEF IsFlow
  <2>2. PICK p \in Nat, q \in Nat : p = Len(got) /\ q = Len(buffer)
    BY <1>2, Zenon
  <2>3. Len(g) = p + n /\ Len(b) = q - n /\ p + q = amount /\ n \in Nat
    BY <1>2, <1>4, <1>5, <2>1, <2>2, Zenon
  <2> QED BY <2>3
<1>7. ASSUME NEW k \in 1 .. Len(g) PROVE g[k] = Byte(k)
  <2>1. CASE k <= Len(got)
    <3>1. k \in 1 .. Len(got)
      BY <1>2, <1>4, <2>1
    <3> QED BY <1>4, <3>1, Zenon DEF IsFlow
  <2>2. CASE k > Len(got)
    <3>1. PICK j \in 1 .. n : k = Len(got) + j
      <4>1. k - Len(got) \in 1 .. n /\ k = Len(got) + (k - Len(got))
        BY <1>2, <1>4, <2>2
      <4> QED BY <4>1, Zenon
    <3>2. j \in 1 .. Len(buffer)
      BY <1>2
    <3>3. g[Len(got) + j] = h[j] /\ h[j] = buffer[j] /\ buffer[j] = Byte(Len(got) + j)
      BY <1>3, <1>4, <3>2, Zenon DEF IsFlow
    <3> QED BY <3>1, <3>3, Zenon
  <2> QED BY <1>2, <1>4, <2>1, <2>2
<1>8. ASSUME NEW k \in 1 .. Len(b) PROVE b[k] = Byte(Len(g) + k)
  <2>1. Len(got) + (n + k) = Len(g) + k
    BY <1>2, <1>4, <1>5
  <2>2. buffer[n + k] = Byte(Len(got) + (n + k))
    BY <1>5, Zenon DEF IsFlow
  <2> QED BY <1>5, <2>1, <2>2, ZenonT(120)
<1>9. IsFlow(g, b, amount)
  BY <1>6, <1>7, <1>8, Zenon DEF IsFlow
<1> QED BY <1>1, <1>9, Zenon

LEMMA FlowGrows ==
  ASSUME NEW got \in Seq(Things), NEW buffer \in Seq(Things), NEW amount \in Nat, IsFlow(got, buffer, amount),
         NEW x \in Seq(Things), \A k \in 1 .. Len(x) : x[k] = Byte(amount + k)
  PROVE  IsFlow(got, buffer \o x, amount + Len(x))
<1>1. PICK b : b = buffer \o x
  BY Zenon
<1>2. /\ Len(got) \in Nat /\ Len(buffer) \in Nat /\ Len(x) \in Nat /\ Len(b) = Len(buffer) + Len(x)
      /\ \A k \in 1 .. Len(buffer) : b[k] = buffer[k]
      /\ \A k \in 1 .. Len(x) : b[Len(buffer) + k] = x[k]
  BY <1>1
<1>3. Len(got) + Len(buffer) = amount
  BY Zenon DEF IsFlow
<1> DEFINE Shifted(k) == Len(got) + (Len(buffer) + k) = amount + k
<1>0. \A k \in Nat : Shifted(k)
  <2>1. \A g \in Nat : \A c \in Nat : \A k \in Nat : g + (c + k) = (g + c) + k
    OBVIOUS
  <2> QED BY <1>2, <1>3, <2>1, ZenonT(120)
<1>4. Len(got) + Len(b) = amount + Len(x)
  BY <1>0, <1>2, Zenon
<1>5. ASSUME NEW k \in 1 .. Len(b) PROVE b[k] = Byte(Len(got) + k)
  <2>1. CASE k <= Len(buffer)
    <3>1. k \in 1 .. Len(buffer)
      BY <1>2, <2>1
    <3> QED BY <1>2, <3>1, Zenon DEF IsFlow
  <2>2. CASE k > Len(buffer)
    <3>1. PICK j \in 1 .. Len(x) : k = Len(buffer) + j
      <4>1. k - Len(buffer) \in 1 .. Len(x) /\ k = Len(buffer) + (k - Len(buffer))
        BY <1>2, <2>2
      <4> QED BY <4>1, Zenon
    <3>0. j \in Nat
      BY <1>2
    <3>2. Len(got) + (Len(buffer) + j) = amount + j
      BY <1>0, <3>0, Zenon
    <3> QED BY <1>2, <3>1, <3>2, Zenon
  <2> QED BY <1>2, <2>1, <2>2
<1>6. IsFlow(got, b, amount + Len(x))
  BY <1>4, <1>5, Zenon DEF IsFlow
<1> QED BY <1>1, <1>6, Zenon

-----------------------------------------------------------------------------
(* The stream. *)
LEMMA SizesAreNats ==
  /\ \A n \in Sizes : n \in Nat /\ n % HeaderValues = n
  /\ \A s \in Seq(Sizes) : s \in Seq(Nat)
<1>1. HeaderValues \in Nat /\ HeaderValues > 0
  BY DEF HeaderValues
<1>2. \A n \in Sizes : n \in 0 .. HeaderValues - 1
  BY SizesAssumption, Zenon
<1>3. \A n \in Sizes : n \in Nat /\ n % HeaderValues = n
  BY <1>1, <1>2
<1>4. Sizes \subseteq Nat
  BY <1>3, Zenon
<1>5. ASSUME NEW s \in Seq(Sizes) PROVE s \in Seq(Nat)
  BY <1>4, SeqWider, Zenon
<1> QED BY <1>3, <1>5, Zenon

LEMMA DirFacts ==
  ASSUME IInv, NEW d \in Dirs
  PROVE  /\ S(d) \in Seq(Sizes) /\ S(d) \in Seq(Nat) /\ Len(S(d)) \in Nat
         /\ writer[d].next \in 1 .. N + 1 /\ reader[d].next \in 1 .. N + 1
         /\ reader[d].frame \in 0 .. Len(S(d)) /\ reader[d].frame \in Nat
         /\ reader[d].next <= N => reader[d].frame > 0 /\ reader[d].size = S(d)[reader[d].frame]
         /\ writer[d].next <= N => Len(S(d)) > 0
         /\ reader[d].got \in Seq(Things) /\ reader[d].buffer \in Seq(Things)
         /\ reader[d].ended \in BOOLEAN /\ writer[d].failed \in BOOLEAN /\ reader[d].size \in Nat
<1>1. writer[d] \in Writer /\ reader[d] \in Reader /\ Counters(d)
  BY Zenon DEF IInv, Types, StreamInv
<1>2. S(d) \in Seq(Sizes) /\ writer[d].next \in 1 .. N + 1 /\ writer[d].failed \in BOOLEAN
  BY <1>1 DEF Writer, S
<1>3. /\ reader[d].next \in 1 .. N + 1 /\ reader[d].frame \in Nat
      /\ reader[d].got \in Seq(Things) /\ reader[d].buffer \in Seq(Things)
      /\ reader[d].ended \in BOOLEAN /\ reader[d].size \in Nat
  BY <1>1 DEF Reader
<1>4. S(d) \in Seq(Nat)
  BY <1>2, SizesAreNats, Zenon
<1>5. Len(S(d)) \in Nat
  BY <1>4
<1> QED BY <1>1, <1>2, <1>3, <1>4, <1>5, Zenon DEF Counters

LEMMA LaneFacts ==
  ASSUME IInv, NEW d \in Dirs, NEW i \in Members
  PROVE  /\ wire[d][i] \in Seq(Things) /\ link[i] \in BOOLEAN
         /\ Taken(d, i) \in Nat /\ Sent(d, i) \in Nat
         /\ Taken(d, i) <= Loads(d, i, S(d))[reader[d].frame]
         /\ Sent(d, i) <= Loads(d, i, S(d))[Len(S(d))]
         /\ IsLane(d, i, S(d), wire[d][i], Taken(d, i), Sent(d, i), link[i])
<1>1. wire[d][i] \in Seq(Things) /\ link[i] \in BOOLEAN
  BY Zenon DEF IInv, Types
<1>2. Lane(d, i)
  BY Zenon DEF IInv, StreamInv
<1>3. Taken(d, i) \in Nat /\ Taken(d, i) <= Loads(d, i, S(d))[reader[d].frame]
  BY DirFacts, PlaceTyped, Zenon DEF Taken
<1>4. PICK f : f = Len(S(d))
  BY Zenon
<1>5. f \in 0 .. f
  BY <1>4, DirFacts
<1>6. Sent(d, i) \in Nat /\ Sent(d, i) <= Loads(d, i, S(d))[Len(S(d))]
  BY <1>4, <1>5, DirFacts, PlaceTyped, Zenon DEF Sent
<1> QED BY <1>1, <1>2, <1>3, <1>6, Zenon DEF Lane

LEMMA FlowFacts ==
  ASSUME IInv, NEW d \in Dirs, ~ reader[d].ended
  PROVE  /\ Received(d) \in Nat /\ Sum(S(d)) \in Nat /\ Received(d) <= Sum(S(d))
         /\ IsFlow(reader[d].got, reader[d].buffer, Received(d))
         /\ \A k \in 1 .. Len(reader[d].got) : reader[d].got[k] = Byte(k) /\ k <= Sum(S(d))
<1>1. Received(d) \in Nat /\ Sum(S(d)) \in Nat /\ Received(d) <= Sum(S(d))
  BY DirFacts, AmountBounded, Zenon DEF Received
<1>2. IsFlow(reader[d].got, reader[d].buffer, Received(d))
  BY Zenon DEF IInv, StreamInv, Flow
<1>3. PICK g, b : g = Len(reader[d].got) /\ b = Len(reader[d].buffer)
  BY Zenon
<1>4. g \in Nat /\ b \in Nat
  BY <1>3, DirFacts
<1>5. g + b = Received(d)
  BY <1>2, <1>3, Zenon DEF IsFlow
<1>6. \A k \in 1 .. g : k <= Sum(S(d))
  BY <1>1, <1>4, <1>5
<1>7. \A k \in 1 .. g : reader[d].got[k] = Byte(k)
  BY <1>2, <1>3, Zenon DEF IsFlow
<1> QED BY <1>1, <1>2, <1>3, <1>6, <1>7, Zenon

LEMMA StreamStep ==
  ASSUME IInv, UNCHANGED <<assembly, end, link>>, NEW d \in Dirs,
         wire' \in [Dirs -> [Members -> Seq(Things)]], writer' \in [Dirs -> Writer],
         reader' \in [Dirs -> Reader],
         \A e \in Dirs : e # d => writer'[e] = writer[e] /\ reader'[e] = reader[e] /\ wire'[e] = wire[e],
         S(d)' = S(d) \/ end[WriterOf(d)].phase = "bonded",
         reader'[d].ended = reader[d].ended \/ end[ReaderOf(d)].phase = "bonded",
         StreamInv(d)'
  PROVE  IInv'
<1>1. Types'
  BY Zenon DEF IInv, Types, assembly
<1>2. Gathered'
  BY GatheredKept, Zenon
<1>3. \A e \in Dirs : StreamInv(e)'
  <2> SUFFICES ASSUME NEW e \in Dirs, e # d PROVE StreamInv(e)'
    BY Zenon
  <2>1. Fading
    BY SameFades, Zenon
  <2>2. S(e)' = S(e) /\ writer'[e].next = writer[e].next /\ reader'[e] = reader[e] /\ wire'[e] = wire[e]
    BY Zenon DEF S
  <2> QED BY <2>1, <2>2, DirKept, Zenon
<1>4. Bonded'
  <2>1. Bonded /\ dial' = dial /\ end' = end
    BY Zenon DEF IInv, assembly
  <2>2. AllSent' = AllSent
    BY <2>1, Zenon DEF AllSent
  <2>3. WriterOf(d) \in Ends /\ ReaderOf(d) \in Ends
    BY DEF WriterOf, ReaderOf, Ends
  <2>4. \A e \in Dirs : e # d => S(e)' = S(e) /\ reader'[e].ended = reader[e].ended
    BY Zenon DEF S
  <2>5. \A e \in Dirs : S(e)' # << >> \/ reader'[e].ended => AllSent
    BY <2>1, <2>3, <2>4, Zenon DEF Bonded
  <2>6. \A e \in Dirs : end[WriterOf(e)].phase = "bonded" \/ S(e)' # << >> => end[WriterOf(e)].upload = Ratios(e)
    BY <2>1, <2>3, <2>4, Zenon DEF Bonded
  <2> QED BY <2>1, <2>2, <2>5, <2>6, Zenon DEF Bonded
<1> QED BY <1>1, <1>2, <1>3, <1>4, Zenon DEF IInv

LEMMA WireFacts ==
  ASSUME NEW w \in [Dirs -> [Members -> Seq(Things)]], NEW d \in Dirs, NEW i \in Members, NEW x \in Seq(Things),
         NEW v, v = [w EXCEPT ![d][i] = x]
  PROVE  /\ v \in [Dirs -> [Members -> Seq(Things)]]
         /\ \A e \in Dirs : e # d => v[e] = w[e]
         /\ \A j \in Members : j # i => v[d][j] = w[d][j]
         /\ v[d][i] = x
OBVIOUS

LEMMA PutFacts ==
  ASSUME IInv, NEW d \in Dirs, NEW i \in Members, NEW x \in Seq(Things), Put(d, i, x)
  PROVE  /\ wire' \in [Dirs -> [Members -> Seq(Things)]]
         /\ \A e \in Dirs : e # d => wire'[e] = wire[e]
         /\ \A j \in Members : j # i => wire'[d][j] = wire[d][j]
         /\ wire'[d][i] = IF link[i] THEN wire[d][i] \o x ELSE wire[d][i]
<1>1. wire \in [Dirs -> [Members -> Seq(Things)]] /\ wire[d][i] \in Seq(Things)
  BY ZenonT(120) DEF IInv, Types
<1>2. CASE link[i]
  <2>1. PICK y : y = wire[d][i] \o x
    BY Zenon
  <2>2. y \in Seq(Things)
    BY <1>1, <2>1
  <2>3. wire' = [wire EXCEPT ![d][i] = y]
    BY <1>2, <2>1 DEF Put
  <2>4. PICK w, v : w = wire /\ v = wire'
    OBVIOUS
  <2>5. w \in [Dirs -> [Members -> Seq(Things)]] /\ v = [w EXCEPT ![d][i] = y]
    BY <1>1, <2>3, <2>4, Zenon
  <2>6. /\ v \in [Dirs -> [Members -> Seq(Things)]]
        /\ \A e \in Dirs : e # d => v[e] = w[e]
        /\ \A j \in Members : j # i => v[d][j] = w[d][j]
        /\ v[d][i] = y
    BY <2>2, <2>5, WireFacts
  <2> QED BY <1>2, <2>1, <2>4, <2>6, Zenon
<1>3. CASE ~ link[i]
  BY <1>1, <1>3, Zenon DEF Put
<1> QED BY <1>2, <1>3, Zenon

LEMMA ThingFacts ==
  /\ \A n \in Sizes : Header(n) = <<"header", n>> /\ Header(n) \in Things
  /\ \A n \in Nat : Byte(n) \in Things
  /\ Unfilled \in Things
<1>1. \A n \in Sizes : n \in Nat /\ Header(n) = <<"header", n>>
  BY SizesAreNats, Zenon DEF Header
<1>2. \A n \in Nat : <<"header", n>> \in Things /\ Byte(n) \in Things
  BY DEF Things, Byte
<1>3. Unfilled \in Things
  BY DEF Things, Unfilled
<1> QED BY <1>1, <1>2, <1>3, Zenon

LEMMA WriteLane ==
  ASSUME NEW d \in Dirs, NEW i \in Members, NEW s \in Seq(Nat), NEW n \in Nat, NEW w \in Seq(Things),
         NEW from \in Nat, NEW to \in Nat, NEW up \in BOOLEAN, IsLane(d, i, s, w, from, to, up),
         to = Loads(d, i, s)[Len(s)], Header(n) \in Things
  PROVE  IsLane(d, i, Append(s, n), IF i = 1 /\ up THEN w \o <<Header(n)>> ELSE w, from, to + Extra(i), up)
<1>1. PICK t : t = Append(s, n)
  BY Zenon
<1>2. /\ t \in Seq(Nat) /\ t # << >> /\ Len(s) \in Nat /\ Len(t) - 1 = Len(s) /\ Len(t) = Len(s) + 1
      /\ t[Len(t)] = n
  <2>1. t \in Seq(Nat) /\ Len(s) \in Nat /\ Len(t) = Len(s) + 1 /\ t[Len(s) + 1] = n
    BY <1>1, AppendFacts, ZenonT(120)
  <2>2. \A k \in Nat : (k + 1) - 1 = k /\ k + 1 # 0
    OBVIOUS
  <2>3. t # << >>
    BY <2>1
  <2> QED BY <2>1, <2>2, <2>3, Zenon
<1>3. IsLane(d, i, t, w, from, to, up)
  <2>1. to <= Loads(d, i, s)[Len(s)]
    OBVIOUS
  <2> QED BY <1>1, <2>1, LaneGrows, Zenon
<1>4. Loads(d, i, t)[Len(t) - 1] = to
  <2>1. Len(s) \in 0 .. Len(s)
    BY <1>2
  <2>2. \A f \in 0 .. Len(s) : Loads(d, i, t)[f] = Loads(d, i, s)[f]
    BY <1>1, LoadsAppend, Zenon
  <2>3. Loads(d, i, t)[Len(s)] = Loads(d, i, s)[Len(s)]
    BY <2>1, <2>2, Zenon
  <2> QED BY <1>2, <2>3, Zenon
<1>5. CASE i = 1 /\ up
  <2>1. PICK x : x = <<Header(n)>>
    BY Zenon
  <2>2. x \in Seq(Things) /\ Len(x) = 1 /\ x[1] = Header(n) /\ \A p \in 1 .. Len(x) : p = 1
    BY <2>1
  <2>3. \A p \in 1 .. Len(x) : x[p] = Item(d, i, t, Len(t), 0 + p)
    <3>1. 0 + 1 = 1 /\ 1 <= Extra(i) /\ Extra(i) = 1
      BY <1>5 DEF Extra
    <3>2. Item(d, i, t, Len(t), 1) = Header(n)
      BY <1>2, <3>1, Zenon DEF Item
    <3> QED BY <2>2, <3>1, <3>2, Zenon
  <2>4. to = Loads(d, i, t)[Len(t) - 1] + 0 /\ 0 \in Nat
    BY <1>4
  <2>5. from + Len(w) = to
    BY <1>5, Zenon DEF IsLane
  <2>6. IsLane(d, i, t, w \o x, from, to + Len(x), up)
    <3>0. t \in Seq(Nat) /\ t # << >> /\ x \in Seq(Things)
      BY <1>2, <2>2
    <3>1. ASSUME NEW k \in Nat, to = Loads(d, i, t)[Len(t) - 1] + k,
                 \A p \in 1 .. Len(x) : x[p] = Item(d, i, t, Len(t), k + p)
          PROVE  IsLane(d, i, t, w \o x, from, to + Len(x), up)
      BY <1>3, <2>5, <3>0, <3>1, LanePuts, ZenonT(120)
    <3> QED BY <2>3, <2>4, <3>1, Zenon
  <2>7. Extra(i) = Len(x)
    BY <1>5, <2>2 DEF Extra
  <2> QED BY <1>1, <1>5, <2>1, <2>6, <2>7, Zenon
<1>6. CASE i = 1 /\ ~ up
  <2>1. to + Extra(i) \in Nat /\ to <= to + Extra(i)
    BY <1>6 DEF Extra
  <2>2. IsLane(d, i, t, w, from, to + Extra(i), FALSE)
    BY <1>2, <1>3, <2>1, LaneWider, Zenon
  <2> QED BY <1>1, <1>6, <2>2, Zenon
<1>7. CASE i # 1
  <2>1. to + Extra(i) = to
    BY <1>7 DEF Extra
  <2> QED BY <1>1, <1>3, <1>7, <2>1, Zenon
<1> QED BY <1>5, <1>6, <1>7, Zenon

LEMMA WriteChunkLane ==
  ASSUME NEW d \in Dirs, NEW i \in Members, NEW s \in Seq(Nat), s # << >>, NEW w \in Seq(Things),
         NEW from \in Nat, NEW to \in Nat, NEW up \in BOOLEAN, IsLane(d, i, s, w, from, to, up),
         to = Loads(d, i, s)[Len(s) - 1] + Extra(i),
         NEW x \in Seq(Things), NEW a \in Nat, a = Start(d, i, s, Len(s)),
         \A k \in 1 .. Len(x) : x[k] = Byte(a + k)
  PROVE  IsLane(d, i, s, IF up THEN w \o x ELSE w, from, to + Len(x), up)
<1>0. Extra(i) \in Nat
  BY DEF Extra
<1>1. CASE up
  <2>1. ASSUME NEW p \in 1 .. Len(x) PROVE x[p] = Item(d, i, s, Len(s), Extra(i) + p)
    <3>1. PICK b \in Nat : b = Extra(i)
      BY <1>0
    <3>2. ~ (b + p <= b) /\ a + (b + p) - b = a + p
      OBVIOUS
    <3> QED BY <3>1, <3>2, Zenon DEF Item
  <2>2. from + Len(w) = to
    BY <1>1, Zenon DEF IsLane
  <2>3. IsLane(d, i, s, w \o x, from, to + Len(x), up)
    <3>1. ASSUME NEW k \in Nat, to = Loads(d, i, s)[Len(s) - 1] + k,
                 \A p \in 1 .. Len(x) : x[p] = Item(d, i, s, Len(s), k + p)
          PROVE  IsLane(d, i, s, w \o x, from, to + Len(x), up)
      BY <2>2, <3>1, LanePuts, ZenonT(120)
    <3> QED BY <1>0, <2>1, <3>1, Zenon
  <2> QED BY <1>1, <2>3, Zenon
<1>2. CASE ~ up
  <2>1. to + Len(x) \in Nat /\ to <= to + Len(x)
    <3>1. Len(x) \in Nat
      OBVIOUS
    <3> QED BY <3>1, Arithmetic, Zenon
  <2>2. IsLane(d, i, s, w, from, to + Len(x), FALSE)
    BY <2>1, LaneWider, Zenon
  <2> QED BY <1>2, <2>2, Zenon
<1> QED BY <1>1, <1>2, Zenon

LEMMA WritePlace ==
  ASSUME NEW d \in Dirs, NEW i \in Members, NEW s \in Seq(Nat), NEW n \in Nat
  PROVE  Place(d, i, Append(s, n), Len(Append(s, n)), 1) = Loads(d, i, s)[Len(s)] + Extra(i)
<1>1. PICK t : t = Append(s, n)
  BY Zenon
<1>2. /\ t \in Seq(Nat) /\ Len(s) \in Nat /\ Len(t) - 1 = Len(s)
      /\ Len(t) \in 1 .. Len(t) /\ Len(s) \in 0 .. Len(s)
  BY <1>1
<1>3. 1 \in 1 .. N + 1 /\ 1 <= i
  BY RatioFacts DEF Members
<1>4. Place(d, i, t, Len(t), 1) = Loads(d, i, t)[Len(t) - 1] + Extra(i)
  <2>1. t \in Seq(Nat) /\ Len(t) \in 1 .. Len(t)
    BY <1>2
  <2>2. \A f \in 1 .. Len(t) : Place(d, i, t, f, 1) =
                                 IF 1 <= i THEN Loads(d, i, t)[f - 1] + Extra(i) ELSE Loads(d, i, t)[f]
    BY <1>3, <2>1, PlaceFacts, Zenon
  <2> QED BY <1>3, <2>1, <2>2, Zenon
<1>5. Loads(d, i, t)[Len(s)] = Loads(d, i, s)[Len(s)]
  <2>1. \A f \in 0 .. Len(s) : Loads(d, i, t)[f] = Loads(d, i, s)[f]
    BY <1>1, LoadsAppend, Zenon
  <2> QED BY <1>2, <2>1, Zenon
<1>6. Loads(d, i, t)[Len(t) - 1] = Loads(d, i, s)[Len(s)]
  BY <1>2, <1>5, Zenon
<1> QED BY <1>1, <1>4, <1>6, Zenon

LEMMA WriteStep ==
  ASSUME IInv, NEW d \in Dirs, NEW n \in Sizes, Write(d, n)
  PROVE  IInv'
<1>1. PICK s, t : s = S(d) /\ t = Append(s, n)
  BY Zenon
<1>2. /\ s \in Seq(Nat) /\ s \in Seq(Sizes) /\ n \in Nat /\ N \in Nat /\ N > 0
      /\ Len(s) \in Nat /\ t \in Seq(Sizes) /\ Len(t) = Len(s) + 1
  BY <1>1, DirFacts, SizesAreNats, RatioFacts
<1>3. /\ end[WriterOf(d)].phase = "bonded" /\ writer[d].next > N
      /\ Put(d, 1, <<Header(n)>>) /\ UNCHANGED <<assembly, end, link>> /\ reader' = reader
  BY Zenon DEF Write, CanCall
<1>4. PICK w \in [Dirs -> Writer] : w = writer
  BY Zenon DEF IInv, Types
<1>5. /\ writer' \in [Dirs -> Writer]
      /\ \A e \in Dirs : e # d => writer'[e] = writer[e]
      /\ S(d)' = t /\ writer'[d].next = 1
  <2>1. 1 \in 1 .. N + 1
    BY <1>2
  <2>2. PICK v : v = writer'
    OBVIOUS
  <2>3. v = [w EXCEPT ![d].sizes = Append(@, n), ![d].next = 1] /\ t = Append(w[d].sizes, n)
    BY <1>1, <1>4, <2>2, Zenon DEF Write, S
  <2>4. PICK q : q = [w[d] EXCEPT !.sizes = t, !.next = 1]
    OBVIOUS
  <2>5. q \in Writer /\ q.sizes = t /\ q.next = 1
    BY <1>2, <2>1, <2>4, Zenon DEF Writer
  <2>6. v = [w EXCEPT ![d] = q]
    BY <2>3, <2>4, Zenon
  <2>7. v \in [Dirs -> Writer] /\ v[d] = q /\ \A e \in Dirs : e # d => v[e] = w[e]
    BY <2>5, <2>6
  <2> QED BY <1>4, <2>2, <2>5, <2>7, Zenon DEF S
<1>6. <<Header(n)>> \in Seq(Things) /\ 1 \in Members
  BY <1>2, ThingFacts DEF Members
<1>7. /\ wire' \in [Dirs -> [Members -> Seq(Things)]]
      /\ \A e \in Dirs : e # d => wire'[e] = wire[e]
      /\ \A j \in Members : wire'[d][j] = IF j = 1 /\ link[j] THEN wire[d][j] \o <<Header(n)>> ELSE wire[d][j]
  <2>1. PICK x \in Seq(Things) : x = <<Header(n)>>
    BY <1>6, Zenon
  <2>2. Put(d, 1, x)
    BY <1>3, <2>1
  <2>3. /\ wire' \in [Dirs -> [Members -> Seq(Things)]]
        /\ \A e \in Dirs : e # d => wire'[e] = wire[e]
        /\ \A j \in Members : j # 1 => wire'[d][j] = wire[d][j]
        /\ wire'[d][1] = IF link[1] THEN wire[d][1] \o x ELSE wire[d][1]
    BY <1>6, <2>2, PutFacts, Zenon
  <2> QED BY <2>1, <2>3, Zenon
<1>8. ASSUME NEW i \in Members PROVE Lane(d, i)'
  <2>1. Taken(d, i)' = Taken(d, i)
    <3>1. Taken(d, i)' = Place(d, i, t, reader[d].frame, reader[d].next)
      BY <1>3, <1>5, Zenon DEF Taken
    <3>2. Taken(d, i) = Place(d, i, s, reader[d].frame, reader[d].next)
      BY <1>1, Zenon DEF Taken
    <3>3. PICK f \in 0 .. Len(s), next \in 1 .. N + 1 : f = reader[d].frame /\ next = reader[d].next
      BY <1>1, DirFacts, Zenon
    <3>4. next <= N => f > 0
      BY <3>3, DirFacts, Zenon
    <3>5. Place(d, i, t, f, next) = Place(d, i, s, f, next)
      BY <1>1, <1>2, <3>4, PlaceAppend, ZenonT(120)
    <3> QED BY <3>1, <3>2, <3>3, <3>5, Zenon
  <2>2. Sent(d, i) = Loads(d, i, s)[Len(s)]
    <3>1. PICK next \in 1 .. N + 1 : next = writer[d].next
      BY DirFacts, Zenon
    <3>2. Len(s) \in 0 .. Len(s) /\ next > N
      <4>1. next > N
        BY <1>3, <3>1, Zenon
      <4>2. Len(s) \in 0 .. Len(s)
        OBVIOUS
      <4> QED BY <4>1, <4>2, Zenon
    <3>3. Place(d, i, s, Len(s), next) = Loads(d, i, s)[Len(s)]
      BY <1>2, <3>2, PlaceFacts
    <3> QED BY <1>1, <3>1, <3>3, Zenon DEF Sent
  <2>3. Sent(d, i)' = Sent(d, i) + Extra(i)
    <3>1. Sent(d, i)' = Place(d, i, t, Len(t), 1)
      BY <1>5, Zenon DEF Sent
    <3>2. Place(d, i, t, Len(t), 1) = Loads(d, i, s)[Len(s)] + Extra(i)
      BY <1>1, <1>2, WritePlace, Zenon
    <3> QED BY <2>2, <3>1, <3>2, Zenon
  <2>4. PICK x \in Seq(Things), from \in Nat, to \in Nat, up \in BOOLEAN :
          /\ x = wire[d][i] /\ from = Taken(d, i) /\ to = Sent(d, i) /\ up = link[i]
          /\ IsLane(d, i, s, x, from, to, up)
    BY <1>1, LaneFacts, Zenon
  <2>5. to = Loads(d, i, s)[Len(s)] /\ Header(n) \in Things
    BY <2>2, <2>4, ThingFacts, Zenon
  <2>6. IsLane(d, i, t, IF i = 1 /\ up THEN x \o <<Header(n)>> ELSE x, from, to + Extra(i), up)
    <3>1. IsLane(d, i, s, x, from, to, up) /\ s \in Seq(Nat) /\ n \in Nat
      BY <1>2, <2>4
    <3>2. IsLane(d, i, Append(s, n), IF i = 1 /\ up THEN x \o <<Header(n)>> ELSE x, from, to + Extra(i), up)
      BY <2>5, <3>1, WriteLane, ZenonT(120)
    <3> QED BY <1>1, <3>2, ZenonT(120)
  <2>7. (wire[d][i])' = (IF i = 1 /\ up THEN x \o <<Header(n)>> ELSE x) /\ link'[i] = up
    BY <1>3, <1>7, <2>4, Zenon
  <2> QED BY <1>5, <2>1, <2>3, <2>4, <2>6, <2>7, Zenon DEF Lane
<1>9. Counters(d)'
  <2>1. PICK f \in 0 .. Len(s) : f = reader[d].frame
    BY <1>1, DirFacts, Zenon
  <2>2. f \in 0 .. Len(t) /\ Len(t) > 0
    BY <1>2
  <2>3. f > 0 => t[f] = s[f]
    BY <1>1, <1>2
  <2> QED BY <1>1, <1>3, <1>5, <2>1, <2>2, <2>3, DirFacts, Zenon DEF Counters
<1>10. (IF reader[d].ended THEN Right(d) ELSE Flow(d))'
  <2>1. CASE ~ reader[d].ended
    <3>1. PICK f \in 0 .. Len(s), next \in 1 .. N + 1 : f = reader[d].frame /\ next = reader[d].next
      BY <1>1, DirFacts, Zenon
    <3>2. next <= N => f > 0
      BY <3>1, DirFacts, Zenon
    <3>3. Amount(d, t, f, next) = Amount(d, s, f, next)
      BY <1>1, <1>2, <3>2, AmountAppend, Zenon
    <3>4. Received(d)' = Received(d)
      BY <1>1, <1>3, <1>5, <3>1, <3>3, Zenon DEF Received
    <3> QED BY <1>3, <2>1, <3>4, FlowFacts, Zenon DEF Flow
  <2>2. CASE reader[d].ended
    <3>1. Right(d)
      BY <2>2, Zenon DEF IInv, StreamInv
    <3>2. Sum(s) \in Nat /\ Sum(t) = Sum(s) + n
      BY <1>1, <1>2, SumAppend, Zenon
    <3>3. \A k \in Nat : k <= Sum(s) => k <= Sum(t)
      BY <1>2, <3>2
    <3>4. \A k \in 1 .. Len(reader[d].got) : k \in Nat
      BY DirFacts
    <3> QED BY <1>1, <1>3, <1>5, <2>2, <3>1, <3>3, <3>4, ZenonT(120) DEF Right
  <2> QED BY <2>1, <2>2, Zenon
<1>11. StreamInv(d)'
  BY <1>8, <1>9, <1>10, Zenon DEF StreamInv
<1>12. reader' \in [Dirs -> Reader] /\ \A e \in Dirs : reader'[e] = reader[e]
  BY <1>3, Zenon DEF IInv, Types
<1> QED BY <1>3, <1>5, <1>7, <1>11, <1>12, StreamStep, ZenonT(120)

LEMMA StartTyped ==
  ASSUME NEW d \in Dirs, NEW s \in Seq(Nat), NEW f \in 1 .. Len(s), NEW i \in Members
  PROVE  Start(d, i, s, f) \in Nat /\ Lens(d, s[f])[i] \in Nat
<1>1. s[f] \in Nat /\ f - 1 \in 0 .. Len(s) /\ i - 1 \in 0 .. N
  BY RatioFacts DEF Members
<1>2. PICK t \in Seq(Nat) : t = Lens(d, s[f]) /\ Len(t) = N
  BY <1>1, LensFacts, Zenon
<1>3. Sums(s)[f - 1] \in Nat /\ Sums(t)[i - 1] \in Nat
  BY <1>1, <1>2, SumsOfNats, Zenon
<1>4. Start(d, i, s, f) = Sums(s)[f - 1] + Sums(t)[i - 1]
  BY <1>2, Zenon DEF Start
<1>5. t[i] \in Nat
  BY <1>2 DEF Members
<1>6. Sums(s)[f - 1] + Sums(t)[i - 1] \in Nat
  BY <1>3, Arithmetic, ZenonT(120)
<1> QED BY <1>2, <1>4, <1>5, <1>6, Zenon

LEMMA WriteChunkStep ==
  ASSUME IInv, NEW d \in Dirs, WriteChunk(d)
  PROVE  IInv'
<1>1. PICK s : s = S(d)
  OBVIOUS
<1>2. /\ end[WriterOf(d)].phase = "bonded" /\ writer[d].next <= N
      /\ UNCHANGED <<assembly, end, link>> /\ reader' = reader
  BY Zenon DEF WriteChunk, Writing
<1>3. /\ s \in Seq(Nat) /\ s \in Seq(Sizes) /\ Len(s) \in Nat /\ Len(s) > 0 /\ N \in Nat
      /\ writer[d].next \in 1 .. N + 1
  BY <1>1, <1>2, DirFacts, RatioFacts, ZenonT(120)
<1>4. /\ Len(s) \in 1 .. Len(s) /\ Len(s) \in 0 .. Len(s) /\ s # << >> /\ writer[d].next \in Members
      /\ writer[d].next \in 1 .. N /\ writer[d].next + 1 \in 1 .. N + 1
  BY <1>2, <1>3 DEF Members
<1>5. PICK m \in Members : m = writer[d].next
  BY <1>4
<1>6. PICK c \in Nat, a \in Nat : c = Lens(d, s[Len(s)])[m] /\ a = Start(d, m, s, Len(s))
  BY <1>3, <1>4, StartTyped, Zenon
<1>7. ToWrite(d) = Lens(d, s[Len(s)])
  <2>1. end[WriterOf(d)].upload = Ratios(d)
    BY <1>2, Zenon DEF IInv, Bonded
  <2> QED BY <1>1, <2>1, Zenon DEF ToWrite, Length, S, Lens
<1>8. PICK x \in Seq(Things) : x = [k \in 1 .. c |-> Byte(a + k)] /\ Len(x) = c /\ \A k \in 1 .. c : x[k] = Byte(a + k)
  <2>1. PICK x : x = [k \in 1 .. c |-> Byte(a + k)]
    BY Zenon
  <2>2. \A k \in 1 .. c : Byte(a + k) \in Things
    <3>1. \A k \in 1 .. c : a + k \in Nat
      OBVIOUS
    <3> QED BY <3>1, ThingFacts, Zenon
  <2>3. x \in Seq(Things) /\ Len(x) = c /\ \A k \in 1 .. c : x[k] = Byte(a + k)
    BY <2>1, <2>2
  <2> QED BY <2>1, <2>3
<1>9. Put(d, m, x)
  <2>1. Before(d) + Sums(ToWrite(d))[m - 1] = a
    BY <1>1, <1>6, <1>7, Zenon DEF Before, S, Start
  <2>2. Put(d, m, [k \in 1 .. ToWrite(d)[m] |-> Byte(Before(d) + Sums(ToWrite(d))[m - 1] + k)])
    BY <1>5, Zenon DEF WriteChunk
  <2> QED BY <1>6, <1>7, <1>8, <2>1, <2>2, Zenon
<1>10. /\ wire' \in [Dirs -> [Members -> Seq(Things)]]
       /\ \A e \in Dirs : e # d => wire'[e] = wire[e]
       /\ \A j \in Members : j # m => wire'[d][j] = wire[d][j]
       /\ wire'[d][m] = IF link[m] THEN wire[d][m] \o x ELSE wire[d][m]
  BY <1>9, PutFacts, Zenon
<1>11. PICK w \in [Dirs -> Writer] : w = writer
  BY Zenon DEF IInv, Types
<1>12. /\ writer' \in [Dirs -> Writer]
       /\ \A e \in Dirs : e # d => writer'[e] = writer[e]
       /\ S(d)' = s /\ writer'[d].next = m + 1
  <2>2. PICK v : v = writer'
    OBVIOUS
  <2>3. v = [w EXCEPT ![d].next = @ + 1] /\ w[d] \in Writer /\ w[d].next = m /\ w[d].sizes = s
    BY <1>1, <1>5, <1>11, <2>2, Zenon DEF WriteChunk, S
  <2>4. PICK q : q = [w[d] EXCEPT !.next = m + 1]
    BY Zenon
  <2>5. q \in Writer /\ q.sizes = s /\ q.next = m + 1
    BY <1>4, <1>5, <2>3, <2>4, Zenon DEF Writer
  <2>6. v = [w EXCEPT ![d] = q]
    BY <2>3, <2>4
  <2>7. v \in [Dirs -> Writer] /\ v[d] = q /\ \A e \in Dirs : e # d => v[e] = w[e]
    BY <2>5, <2>6
  <2> QED BY <1>11, <2>2, <2>5, <2>7, Zenon DEF S
<1>13. ASSUME NEW i \in Members PROVE Lane(d, i)'
  <2>1. Taken(d, i)' = Taken(d, i)
    BY <1>1, <1>2, <1>12, Zenon DEF Taken
  <2>2. Sent(d, i) = Place(d, i, s, Len(s), m) /\ Sent(d, i)' = Place(d, i, s, Len(s), m + 1)
    BY <1>1, <1>5, <1>12, Zenon DEF Sent
  <2>3. Place(d, i, s, Len(s), m + 1) =
          IF i = m THEN Place(d, i, s, Len(s), m) + Lens(d, s[Len(s)])[i] ELSE Place(d, i, s, Len(s), m)
    <3>1. s \in Seq(Nat) /\ Len(s) \in 1 .. Len(s) /\ m \in 1 .. N
      BY <1>3, <1>4, <1>5, Zenon
    <3> QED BY <3>1, PlaceMoves, ZenonT(120)
  <2>4. PICK y \in Seq(Things), from \in Nat, to \in Nat, up \in BOOLEAN :
          /\ y = wire[d][i] /\ from = Taken(d, i) /\ to = Sent(d, i) /\ up = link[i]
          /\ IsLane(d, i, s, y, from, to, up)
    BY <1>1, LaneFacts, Zenon
  <2>5. link'[i] = up
    BY <1>2, <2>4, Zenon
  <2>6. CASE i # m
    BY <1>10, <1>12, <2>1, <2>2, <2>3, <2>4, <2>5, <2>6, ZenonT(120) DEF Lane
  <2>7. CASE i = m
    <3>1. to = Loads(d, i, s)[Len(s) - 1] + Extra(i)
      <4>1. m \in 1 .. N + 1 /\ m <= i
        BY <1>3, <1>5, <2>7 DEF Members
      <4>2. \A f \in 1 .. Len(s) : Place(d, i, s, f, m) =
                                     IF m <= i THEN Loads(d, i, s)[f - 1] + Extra(i) ELSE Loads(d, i, s)[f]
        BY <1>3, <4>1, PlaceFacts, ZenonT(120)
      <4> QED BY <1>4, <2>2, <2>4, <4>1, <4>2, ZenonT(120)
    <3>2. \A k \in 1 .. Len(x) : x[k] = Byte(a + k)
      BY <1>8
    <3>3. s \in Seq(Nat) /\ s # << >> /\ a = Start(d, i, s, Len(s))
      BY <1>3, <1>4, <1>6, <2>7, Zenon
    <3>4. IsLane(d, i, s, IF up THEN y \o x ELSE y, from, to + Len(x), up)
      <4>1. IsLane(d, i, s, y, from, to, up)
        BY <2>4, ZenonT(120)
      <4>2. y \in Seq(Things) /\ x \in Seq(Things) /\ from \in Nat /\ to \in Nat /\ up \in BOOLEAN /\ a \in Nat
        BY <1>6, <1>8, <2>4
      <4>3. ASSUME NEW b \in Nat, b = Start(d, i, s, Len(s)), \A k \in 1 .. Len(x) : x[k] = Byte(b + k)
            PROVE  IsLane(d, i, s, IF up THEN y \o x ELSE y, from, to + Len(x), up)
        BY <3>1, <3>3, <4>1, <4>2, <4>3, WriteChunkLane, ZenonT(120)
      <4> QED BY <3>2, <3>3, <4>3, ZenonT(120)
    <3>5. Sent(d, i)' = to + Len(x)
      BY <1>6, <1>8, <2>2, <2>3, <2>4, <2>7, Zenon
    <3>6. (wire[d][i])' = IF up THEN y \o x ELSE y
      BY <1>10, <2>4, <2>7, Zenon
    <3> QED BY <1>12, <2>1, <2>4, <2>5, <3>4, <3>5, <3>6, ZenonT(120) DEF Lane
  <2> QED BY <2>6, <2>7, Zenon
<1>14. Counters(d)'
  BY <1>1, <1>2, <1>3, <1>12, DirFacts, Zenon DEF Counters
<1>15. (IF reader[d].ended THEN Right(d) ELSE Flow(d))'
  <2>1. Received(d)' = Received(d)
    BY <1>1, <1>2, <1>12, Zenon DEF Received
  <2>2. IF reader[d].ended THEN Right(d) ELSE Flow(d)
    BY Zenon DEF IInv, StreamInv
  <2>3. Flow(d)' = Flow(d)
    BY <1>2, <2>1, Zenon DEF Flow
  <2>4. Right(d)' = Right(d)
    BY <1>1, <1>2, <1>12, Zenon DEF Right
  <2> QED BY <1>2, <2>2, <2>3, <2>4, Zenon
<1>16. StreamInv(d)'
  BY <1>13, <1>14, <1>15, Zenon DEF StreamInv
<1>17. reader' \in [Dirs -> Reader] /\ \A e \in Dirs : reader'[e] = reader[e]
  BY <1>2, Zenon DEF IInv, Types
<1> QED BY <1>1, <1>2, <1>10, <1>12, <1>16, <1>17, StreamStep, Zenon

LEMMA WriteFailsStep ==
  ASSUME IInv, NEW d \in Dirs, WriteFails(d)
  PROVE  IInv'
<1>1. UNCHANGED <<assembly, end, link>> /\ reader' = reader /\ wire' = wire
  BY Zenon DEF WriteFails
<1>2. PICK w \in [Dirs -> Writer] : w = writer
  BY Zenon DEF IInv, Types
<1>3. /\ writer' \in [Dirs -> Writer]
      /\ \A e \in Dirs : e # d => writer'[e] = writer[e]
      /\ S(d)' = S(d) /\ writer'[d].next = writer[d].next
  <2>1. PICK v : v = writer'
    OBVIOUS
  <2>2. v = [w EXCEPT ![d].failed = TRUE] /\ w[d] \in Writer
    BY <1>2, <2>1, Zenon DEF WriteFails
  <2>3. PICK q : q = [w[d] EXCEPT !.failed = TRUE]
    BY Zenon
  <2>4. q \in Writer /\ q.sizes = w[d].sizes /\ q.next = w[d].next
    BY <2>2, <2>3, Zenon DEF Writer
  <2>5. v = [w EXCEPT ![d] = q]
    BY <2>2, <2>3
  <2>6. v \in [Dirs -> Writer] /\ v[d] = q /\ \A e \in Dirs : e # d => v[e] = w[e]
    BY <2>4, <2>5
  <2> QED BY <1>2, <2>1, <2>4, <2>6, Zenon DEF S
<1>4. StreamInv(d)'
  BY <1>1, <1>3, SameFades, DirKept, Zenon
<1>5. reader' \in [Dirs -> Reader] /\ wire' \in [Dirs -> [Members -> Seq(Things)]]
  BY <1>1, Zenon DEF IInv, Types
<1> QED BY <1>1, <1>3, <1>4, <1>5, StreamStep, Zenon
=============================================================================
