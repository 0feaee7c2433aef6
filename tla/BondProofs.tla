----------------------------- MODULE BondProofs -----------------------------
(***************************************************************************)
(* The bond, for any number of connections, any ratios and any Writes:     *)
(* dialling, gathering, reading and losing, and the theorems.              *)
(***************************************************************************)
EXTENDS BondStreamProofs, FiniteSetTheorems

(* What a leaf is tried with that names no prover of its own. *)
USE SMT, Zenon, Z3T(40), SMTT(40), ZenonT(120)

-----------------------------------------------------------------------------
(* Dialling and gathering. *)
LEMMA DialSentStep ==
  ASSUME IInv, NEW i \in Members, DialSent(i)
  PROVE  IInv'
<1>1. ~ AllSent /\ dial' = [dial EXCEPT ![i] = "sent"] /\ link' = [link EXCEPT ![i] = TRUE] /\ i \notin handled
  BY DEF DialSent, AllSent, IInv, Gathered
<1>2. Types'
  BY <1>1 DEF DialSent, IInv, Types, stream
<1>3. Gathered'
  BY <1>1 DEF DialSent, IInv, Types, Gathered
<1>4. \A d \in Dirs : S(d) = << >> /\ ~ reader[d].ended
  BY <1>1, Zenon DEF IInv, Bonded
<1>5. Bonded'
  BY <1>1, <1>4 DEF DialSent, IInv, Bonded, S, stream, AllSent
<1>6. \A d \in Dirs : StreamInv(d)'
  BY <1>4, StreamKept DEF DialSent
<1> QED BY <1>2, <1>3, <1>5, <1>6 DEF IInv

LEMMA DialFailsStep ==
  ASSUME IInv, NEW i \in Members, DialFails(i)
  PROVE  IInv'
<1>1. ~ AllSent /\ dial' = [dial EXCEPT ![i] = "failed"] /\ i \notin handled
  BY DEF DialFails, AllSent, IInv, Gathered
<1>2. Types'
  BY <1>1 DEF DialFails, IInv, Types, stream
<1>3. Gathered'
  BY <1>1 DEF DialFails, IInv, Types, Gathered
<1>4. Bonded'
  BY <1>1, Zenon DEF DialFails, IInv, Bonded, S, stream
<1>5. \A d \in Dirs : StreamInv(d)'
  BY StreamKept, SameFades DEF DialFails
<1> QED BY <1>2, <1>3, <1>4, <1>5 DEF IInv

LEMMA DialledStep ==
  ASSUME IInv, Dialled
  PROVE  IInv'
<1>0. /\ end \in [Ends -> [phase : Phases, download : Seq(0 .. 100), upload : Seq(0 .. 100)]]
      /\ UploadRatios \in Seq(0 .. 100) /\ DownloadRatios \in Seq(0 .. 100)
  BY RatiosAssumption DEF IInv, Types
<1>1. CASE \E i \in Members : dial[i] = "failed"
  <2>1. end' = [end EXCEPT !["client"].phase = "closed"] /\ Cutting(Members)
    BY <1>1, Zenon DEF Dialled
  <2>2. /\ end' \in [Ends -> [phase : Phases, download : Seq(0 .. 100), upload : Seq(0 .. 100)]]
        /\ \A e \in Ends : end'[e].phase = "bonded" => end[e].phase = "bonded"
        /\ \A e \in Ends : end'[e].upload = end[e].upload /\ end'[e].download = end[e].download
        /\ end'["server"] = end["server"]
    BY <1>0, <2>1, ZenonT(120) DEF Ends, Phases
  <2>3. Fading
    BY <2>1, CuttingFades
  <2>4. Types'
    BY <2>2, <2>3, Zenon DEF Dialled, IInv, Types, assembly, stream, Fading
  <2>5. Gathered'
    BY <2>2, Zenon DEF Dialled, IInv, Gathered, assembly
  <2>6. Bonded'
    BY <2>2, BondedKept DEF Dialled, assembly
  <2> QED BY <2>3, <2>4, <2>5, <2>6, StreamKept DEF IInv, Dialled
<1>2. CASE ~ \E i \in Members : dial[i] = "failed"
  <2>1. /\ end' = [end EXCEPT !["client"] =
                      [phase |-> "bonded", download |-> DownloadRatios, upload |-> UploadRatios]]
        /\ UNCHANGED <<link, dial, stream>>
    BY <1>2, Zenon DEF Dialled, assembly
  <2>2. AllSent
    BY <1>2 DEF Dialled, IInv, Types, AllSent
  <2>3. /\ end' \in [Ends -> [phase : Phases, download : Seq(0 .. 100), upload : Seq(0 .. 100)]]
        /\ end'["server"] = end["server"]
        /\ end'["client"].upload = UploadRatios /\ end'["client"].download = DownloadRatios
    BY <1>0, <2>1 DEF Ends, Phases
  <2>4. Types'
    BY <2>1, <2>3, Zenon DEF Dialled, IInv, Types, assembly, stream
  <2>5. Gathered'
    BY <2>3, Zenon DEF Dialled, IInv, Gathered, assembly
  <2>6. Bonded'
    <3>1. AllSent'
      BY <2>1, <2>2 DEF AllSent
    <3>2. \A d \in Dirs : S(d)' = S(d)
      BY <2>1 DEF S, stream
    <3> QED BY <2>3, <3>1, <3>2 DEF IInv, Bonded, Dirs, Ends, WriterOf, ReaderOf, Ratios
  <2> QED BY <2>1, <2>4, <2>5, <2>6, StreamKept, SameFades DEF IInv
<1> QED BY <1>1, <1>2

LEMMA MembersCount ==
  ASSUME NEW T \in SUBSET Members, Cardinality(T) = N
  PROVE  T = Members
<1>1. IsFiniteSet(Members) /\ Cardinality(Members) = N
  BY RatioFacts, FS_Interval DEF Members, Dirs
<1> QED BY <1>1, FS_Subset

(* The ratios that the requests bring are the client's, with the           *)
(* directions swapped, and they add up.                                    *)
LEMMA RequestFacts ==
  /\ [j \in Members |-> Request(j).download] = UploadRatios
  /\ [j \in Members |-> Request(j).upload] = DownloadRatios
  /\ Sum(UploadRatios) % 256 = 100 /\ Sum(DownloadRatios) % 256 = 100
<1>1. /\ UploadRatios \in [Members -> 0 .. 100] /\ DownloadRatios \in [Members -> 0 .. 100]
      /\ Sum(UploadRatios) = 100 /\ Sum(DownloadRatios) = 100
  <2>1. /\ UploadRatios \in Seq(0 .. 100) /\ DownloadRatios \in Seq(0 .. 100)
        /\ Len(UploadRatios) = N /\ Len(DownloadRatios) = N
        /\ Sum(UploadRatios) = 100 /\ Sum(DownloadRatios) = 100
    BY RatiosAssumption, Zenon DEF N
  <2>2. UploadRatios \in [1 .. N -> 0 .. 100] /\ DownloadRatios \in [1 .. N -> 0 .. 100]
    BY <2>1, SeqIsFunction, Zenon
  <2> QED BY <2>1, <2>2, Zenon DEF Members
<1>2. \A j : Request(j).download = UploadRatios[j] /\ Request(j).upload = DownloadRatios[j]
  BY DEF Request
<1>3. 100 % 256 = 100
  OBVIOUS
<1>4. /\ [j \in Members |-> UploadRatios[j]] = UploadRatios
      /\ [j \in Members |-> DownloadRatios[j]] = DownloadRatios
  BY <1>1
<1> QED BY <1>1, <1>2, <1>3, <1>4

(* The handler takes i into the map m of the cache, or into a new one. *)
LEMMA HandlerFacts ==
  ASSUME IInv, NEW i \in Members, i \notin handled, NEW m, m = IF cache # None THEN cache ELSE i
  PROVE  /\ m \in Members /\ m \notin evicted /\ None \notin Members
         /\ maps[m] \subseteq handled /\ maps[m] \intersect closed = {}
         /\ \A l \in Members \ {m} : maps[l] \intersect (maps[m] \union {i}) = {}
         /\ i \notin closed
         /\ end["server"].phase = "none"
<1>1. None \notin Members
  BY DEF Members, None
<1>2. Gathered /\ Types
  BY DEF IInv
<1>3. CASE cache # None
  BY <1>1, <1>2, <1>3 DEF Gathered, Types
<1>4. CASE cache = None
  BY <1>1, <1>2, <1>4 DEF Gathered, Types
<1> QED BY <1>3, <1>4

LEMMA connHandlerStep ==
  ASSUME IInv, NEW i \in Members, connHandler(i)
  PROVE  IInv'
<1> DEFINE chosen == IF cache # None THEN cache ELSE i
<1>1. PICK m : m = chosen
  OBVIOUS
<1> DEFINE conns == maps[m] \union {i}
           bond == [phase |-> "bonded", download |-> UploadRatios, upload |-> DownloadRatios]
<1>2. /\ dial[i] = "sent" /\ i \notin handled
      /\ handled' = handled \union {i} /\ cache' = m
      /\ maps' = IF Cardinality(conns) = N THEN [maps EXCEPT ![m] = {}] ELSE [maps EXCEPT ![m] = conns]
      /\ end' = IF Cardinality(conns) = N THEN [end EXCEPT !["server"] = bond] ELSE end
      /\ closed' = closed
      /\ Cutting(closed)
      /\ UNCHANGED <<dial, evicted, stream>>
  BY <1>1, RequestFacts, ZenonT(120) DEF connHandler, TakenOut
<1>3. Fading
  BY <1>2, CuttingFades
<1>4. /\ m \in Members /\ m \notin evicted /\ None \notin Members
      /\ maps[m] \subseteq handled /\ maps[m] \intersect closed = {}
      /\ \A l \in Members \ {m} : maps[l] \intersect conns = {}
      /\ i \notin closed
      /\ end["server"].phase = "none"
  BY <1>1, <1>2, HandlerFacts
<1>5. Types /\ Gathered /\ Bonded
  BY DEF IInv
<1>6. CASE Cardinality(conns) # N
  <2>1. maps' = [maps EXCEPT ![m] = conns] /\ end' = end
    BY <1>2, <1>6
  <2>2. Types'
    BY <1>2, <1>3, <1>4, <1>5, <2>1 DEF Types, stream, Fading
  <2>3. Gathered'
    <3>1. \A l \in Members : maps'[l] = IF l = m THEN conns ELSE maps[l]
      BY <1>5, <2>1 DEF Types
    <3>2. /\ \A j \in handled' : dial'[j] = "sent"
          /\ \A l \in Members : maps'[l] \subseteq handled'
          /\ \A l \in Members : l \notin handled' => maps'[l] = {}
      BY <1>1, <1>2, <1>4, <1>5, <3>1 DEF Gathered
    <3>3. \A l, n \in Members : l # n => maps'[l] \intersect maps'[n] = {}
      BY <1>4, <1>5, <3>1 DEF Gathered
    <3>4. /\ cache' # None => cache' \in handled'
          /\ evicted' \subseteq handled' /\ cache' \notin evicted' /\ closed' \subseteq handled'
      BY <1>1, <1>2, <1>4, <1>5 DEF Gathered
    <3>5. \A l \in Members : l = cache' \/ l \in evicted' => maps'[l] \intersect closed' = {}
      BY <1>2, <1>4, <1>5, <3>1 DEF Gathered
    <3> QED BY <1>4, <2>1, <3>2, <3>3, <3>4, <3>5 DEF Gathered
  <2>4. Bonded'
    BY <1>2, <2>1, BondedKept
  <2> QED BY <1>2, <1>3, <2>2, <2>3, <2>4, StreamKept DEF IInv
<1>7. CASE Cardinality(conns) = N
  <2>1. maps' = [maps EXCEPT ![m] = {}] /\ end' = [end EXCEPT !["server"] = bond]
    BY <1>2, <1>7
  <2>2. conns = Members
    <3>1. conns \in SUBSET Members
      BY <1>4, <1>5 DEF Types
    <3> HIDE DEF conns
    <3> QED BY <1>7, <3>1, MembersCount
  <2>3. /\ end' \in [Ends -> [phase : Phases, download : Seq(0 .. 100), upload : Seq(0 .. 100)]]
        /\ end'["client"] = end["client"]
        /\ end'["server"] = bond
    BY <1>5, <2>1, RatiosAssumption, ZenonT(120) DEF Types, Ends, Phases
  <2>4. Types'
    BY <1>2, <1>3, <1>4, <1>5, <2>1, <2>3 DEF Types, stream, Fading
  <2>5. handled' = Members /\ closed' = {} /\ \A l \in Members : maps'[l] = {}
    <3>1. handled \subseteq Members /\ maps \in [Members -> SUBSET Members] /\ closed \subseteq handled
      BY <1>5, Zenon DEF Types, Gathered
    <3>2. handled' = Members
      BY <1>2, <1>4, <2>2, <3>1
    <3>3. \A l \in Members : maps'[l] = {}
      BY <1>4, <2>1, <2>2, <3>1
    <3>4. closed' = {}
      BY <1>2, <1>4, <2>2, <3>1
    <3> QED BY <3>2, <3>3, <3>4, Zenon
  <2>6. Gathered'
    <3>1. \A j \in handled' : dial'[j] = "sent"
      BY <1>2, <1>5 DEF Gathered
    <3>2. evicted' \subseteq handled' /\ cache' \in handled' /\ cache' \notin evicted'
      BY <1>2, <1>4, <1>5, <2>5 DEF Types
    <3> QED BY <2>5, <3>1, <3>2 DEF Gathered
  <2>7. Bonded'
    <3>1. AllSent'
      BY <1>2, <2>5, <2>6 DEF AllSent, Gathered
    <3>2. \A d \in Dirs : S(d)' = S(d)
      BY <1>2 DEF S, stream
    <3>3. bond.upload = DownloadRatios /\ bond.download = UploadRatios
      OBVIOUS
    <3> QED BY <1>5, <2>3, <3>1, <3>2, <3>3 DEF Bonded, Dirs, Ends, WriterOf, ReaderOf, Ratios
  <2> QED BY <1>2, <1>3, <2>4, <2>6, <2>7, StreamKept DEF IInv
<1> QED BY <1>6, <1>7

LEMMA ReadRequestFailsStep ==
  ASSUME IInv, NEW i \in Members, ReadRequestFails(i)
  PROVE  IInv'
<1>1. Types /\ Gathered
  BY DEF IInv
<1>2. Types'
  BY <1>1 DEF ReadRequestFails, Types, stream
<1>3. Gathered'
  BY <1>1 DEF ReadRequestFails, Gathered, Types
<1>4. Bonded'
  BY BondedKept DEF ReadRequestFails
<1> QED BY <1>2, <1>3, <1>4, StreamKept, SameFades DEF IInv, ReadRequestFails

LEMMA ExpireStep ==
  ASSUME IInv, Expire
  PROVE  IInv'
<1>1. Types /\ Gathered /\ None \notin Members
  BY DEF IInv, Members, None
<1>2. Types'
  BY <1>1 DEF Expire, Types, stream
<1>3. Gathered'
  BY <1>1 DEF Expire, Gathered, Types
<1>4. Bonded'
  BY BondedKept DEF Expire
<1> QED BY <1>2, <1>3, <1>4, StreamKept, SameFades DEF IInv, Expire

LEMMA OnEvictedStep ==
  ASSUME IInv, NEW m \in Members, OnEvicted(m)
  PROVE  IInv'
<1>1. Types /\ Gathered
  BY DEF IInv
<1>2. Fading
  BY CuttingFades, ZenonT(120) DEF OnEvicted
<1>3. Types'
  BY <1>1, <1>2 DEF OnEvicted, ToClose, Types, stream, Fading
<1>4. Gathered'
  BY <1>1 DEF OnEvicted, ToClose, Gathered, Types
<1>5. Bonded'
  BY BondedKept DEF OnEvicted
<1> QED BY <1>2, <1>3, <1>4, <1>5, StreamKept DEF IInv, OnEvicted

LEMMA BreakStep ==
  ASSUME IInv, NEW i \in Members, Break(i)
  PROVE  IInv'
<1>1. Types /\ Gathered
  BY DEF IInv
<1>2. Fading
  BY CuttingFades DEF Break
<1>3. Types'
  BY <1>1, <1>2 DEF Break, Types, stream, assembly, Fading
<1>4. Gathered'
  BY GatheredKept DEF Break
<1>5. Bonded'
  BY BondedKept DEF Break, assembly
<1> QED BY <1>2, <1>3, <1>4, <1>5, StreamKept DEF IInv, Break

LEMMA CloseStep ==
  ASSUME IInv, NEW e \in Ends, Close(e)
  PROVE  IInv'
<1>1. Types /\ Gathered
  BY DEF IInv
<1>2. Fading
  BY CuttingFades DEF Close
<1>3. /\ end' \in [Ends -> [phase : Phases, download : Seq(0 .. 100), upload : Seq(0 .. 100)]]
      /\ \A x \in Ends : end'[x].phase = "bonded" => end[x].phase = "bonded"
      /\ \A x \in Ends : end'[x].phase # "none" => end[x].phase # "none"
      /\ \A x \in Ends : end'[x].upload = end[x].upload /\ end'[x].download = end[x].download
  <2>1. /\ end \in [Ends -> [phase : Phases, download : Seq(0 .. 100), upload : Seq(0 .. 100)]]
        /\ end[e].phase = "bonded" /\ end' = [end EXCEPT ![e].phase = "closed"]
    BY <1>1 DEF Close, Types
  <2>2. /\ end' \in [Ends -> [phase : Phases, download : Seq(0 .. 100), upload : Seq(0 .. 100)]]
        /\ end'[e].phase = "closed"
        /\ \A x \in Ends : x # e => end'[x] = end[x]
    BY <2>1, ZenonT(120) DEF Phases
  <2>3. \A x \in Ends : end'[x].upload = end[x].upload /\ end'[x].download = end[x].download
    BY <2>1
  <2> QED BY <2>1, <2>2, <2>3
<1>4. Types'
  BY <1>1, <1>2, <1>3 DEF Close, Types, stream, assembly, Fading
<1>5. Gathered'
  BY <1>3, GatheredKept DEF Close
<1>6. Bonded'
  BY <1>3, BondedKept DEF Close, assembly
<1> QED BY <1>2, <1>4, <1>5, <1>6, StreamKept DEF IInv, Close

-----------------------------------------------------------------------------
(* Reading. *)
LEMMA HeaderTaken ==
  ASSUME NEW d \in Dirs, NEW s \in Seq(Nat), NEW w \in Seq(Things), w # << >>,
         NEW from \in Nat, NEW to \in Nat, NEW up \in BOOLEAN, IsLane(d, 1, s, w, from, to, up),
         NEW g \in 0 .. Len(s), from = Loads(d, 1, s)[g], to <= Loads(d, 1, s)[Len(s)]
  PROVE  /\ g + 1 \in 1 .. Len(s) /\ w[1] = Header(s[g + 1])
         /\ IsLane(d, 1, s, Tail(w), from + 1, to, up)
<1>1. 1 \in Members
  BY RatioFacts DEF Members
<1>2. from + Len(w) <= to
  BY Zenon DEF IsLane
<1>3. /\ Len(w) \in Nat /\ Len(w) > 0 /\ 1 \in 1 .. Len(w) /\ 1 \in 0 .. Len(w)
      /\ Tail(w) = SubSeq(w, 1 + 1, Len(w))
  OBVIOUS
<1>4. PICK l \in Nat : l = Len(s)
  OBVIOUS
<1>5. g # l
  <2>1. SUFFICES ASSUME g = l PROVE FALSE
    BY Zenon
  <2>2. to <= from
    BY <1>4, <2>1, Zenon
  <2> QED BY <1>2, <1>3, <2>2
<1>6. g + 1 \in 1 .. Len(s) /\ (g + 1) - 1 = g
  BY <1>4, <1>5
<1>7. PICK f \in 1 .. Len(s) : f = g + 1 /\ f - 1 = g
  BY <1>6
<1>8. w[1] = Header(s[f])
  <2>1. Extra(1) = 1 /\ 0 + 1 = 1 /\ 1 <= Extra(1)
    BY DEF Extra
  <2>2. PICK b \in Nat : b = Lens(d, s[f])[1] /\ Carried(d, 1, s[f]) = b + Extra(1)
    BY <1>1, LoadFacts, ZenonT(120)
  <2>3. 0 + 1 <= Carried(d, 1, s[f])
    BY <2>1, <2>2
  <2>4. from = Loads(d, 1, s)[f - 1]
    BY <1>7, Zenon
  <2>5. 0 \in Nat /\ from = Loads(d, 1, s)[f - 1] + 0
    BY <2>4
  <2>6. ASSUME NEW k \in Nat, from = Loads(d, 1, s)[f - 1] + k, k + 1 <= Carried(d, 1, s[f])
        PROVE  w[1] = Item(d, 1, s, f, k + 1)
    <3>1. \A n \in Nat, p \in 1 .. Len(w) :
            from = Loads(d, 1, s)[f - 1] + n /\ n + p <= Carried(d, 1, s[f]) => w[p] = Item(d, 1, s, f, n + p)
      BY <1>1, LaneFirst
    <3> QED BY <1>3, <2>6, <3>1, ZenonT(120)
  <2>7. w[1] = Item(d, 1, s, f, 0 + 1)
    BY <2>3, <2>5, <2>6, Zenon
  <2> QED BY <2>1, <2>7, Zenon DEF Item
<1>9. IsLane(d, 1, s, Tail(w), from + 1, to, up)
  BY <1>1, <1>3, LaneTakes, ZenonT(120)
<1> QED BY <1>6, <1>7, <1>8, <1>9, ZenonT(120)

LEMMA ChunkTaken ==
  ASSUME NEW d \in Dirs, NEW i \in Members, NEW s \in Seq(Nat), NEW w \in Seq(Things),
         NEW from \in Nat, NEW to \in Nat, NEW up \in BOOLEAN, IsLane(d, i, s, w, from, to, up),
         NEW f \in 1 .. Len(s), from = Loads(d, i, s)[f - 1] + Extra(i),
         NEW c \in 0 .. Len(w), c = Lens(d, s[f])[i]
  PROVE  /\ IsLane(d, i, s, SubSeq(w, c + 1, Len(w)), from + c, to, up)
         /\ \A k \in 1 .. c : w[k] = Byte(Start(d, i, s, f) + k)
<1>1. IsLane(d, i, s, SubSeq(w, c + 1, Len(w)), from + c, to, up)
  BY LaneTakes, ZenonT(120)
<1>2. ASSUME NEW k \in 1 .. c PROVE w[k] = Byte(Start(d, i, s, f) + k)
  <2>1. PICK a \in Nat, b \in Nat : a = Start(d, i, s, f) /\ b = Extra(i)
    BY StartTyped, Zenon DEF Extra
  <2>2. k \in 1 .. Len(w) /\ c \in Nat /\ k <= c
    OBVIOUS
  <2>3. Carried(d, i, s[f]) = c + b
    BY <2>1, Zenon DEF Carried
  <2>4. b + k <= c + b
    BY <2>2
  <2>5. ASSUME NEW n \in Nat, from = Loads(d, i, s)[f - 1] + n, n + k <= Carried(d, i, s[f])
        PROVE  w[k] = Item(d, i, s, f, n + k)
    <3>1. \A m \in Nat, p \in 1 .. Len(w) :
            from = Loads(d, i, s)[f - 1] + m /\ m + p <= Carried(d, i, s[f]) => w[p] = Item(d, i, s, f, m + p)
      BY LaneFirst
    <3> QED BY <2>2, <2>5, <3>1, ZenonT(120)
  <2>6. w[k] = Item(d, i, s, f, b + k)
    BY <2>1, <2>3, <2>4, <2>5, Zenon
  <2>7. ~ (b + k <= b) /\ a + (b + k) - b = a + k
    BY <2>2
  <2> QED BY <2>1, <2>6, <2>7, Zenon DEF Item
<1> QED BY <1>1, <1>2, Zenon

LEMMA AmountMoves ==
  ASSUME NEW d \in Dirs, NEW s \in Seq(Nat), NEW f \in 1 .. Len(s)
  PROVE  /\ Amount(d, s, f, 1) = Sums(s)[f - 1]
         /\ \A m \in Members : /\ Amount(d, s, f, m) = Start(d, m, s, f)
                               /\ Amount(d, s, f, m + 1) = Amount(d, s, f, m) + Lens(d, s[f])[m]
<1>1. s[f] \in Nat /\ f - 1 \in 0 .. Len(s) /\ N \in Nat /\ 1 <= N /\ 1 - 1 = 0
  BY RatioFacts
<1>2. PICK t \in Seq(Nat) : t = Lens(d, s[f]) /\ Len(t) = N /\ Sums(t)[0] = 0 /\ Sums(t)[N] = s[f]
  BY <1>1, LensFacts, Zenon
<1>3. s \in Seq(Int) /\ t \in Seq(Int)
  <2>1. Nat \subseteq Int
    OBVIOUS
  <2> QED BY <2>1, SeqWider, Zenon
<1>4. PICK a \in Nat : a = Sums(s)[f - 1]
  BY <1>1, SumsOfNats, Zenon
<1>5. Sums(s)[f] = a + s[f]
  BY <1>3, <1>4, SumsSteps, Zenon
<1>6. Amount(d, s, f, 1) = a
  <2>1. Amount(d, s, f, 1) = a + 0
    BY <1>1, <1>2, <1>4, Zenon DEF Amount, Start
  <2> QED BY <2>1
<1>7. ASSUME NEW m \in Members
      PROVE  /\ Amount(d, s, f, m) = Start(d, m, s, f)
             /\ Amount(d, s, f, m + 1) = Amount(d, s, f, m) + Lens(d, s[f])[m]
  <2>1. m <= N /\ m \in 1 .. Len(t) /\ m - 1 \in 0 .. Len(t) /\ (m + 1) - 1 = m /\ m \in Nat
    BY <1>1, <1>2 DEF Members
  <2>2. PICK b \in Nat, c \in Nat : b = Sums(t)[m - 1] /\ c = t[m] /\ Sums(t)[m] = b + c
    <3>1. Sums(t)[m - 1] \in Nat /\ t[m] \in Nat
      BY <2>1, SumsOfNats, SeqElement, Zenon
    <3>2. Sums(t)[m] = Sums(t)[m - 1] + t[m]
      BY <1>3, <2>1, SumsSteps, Zenon
    <3> QED BY <3>1, <3>2, Zenon
  <2>3. Amount(d, s, f, m) = Start(d, m, s, f)
    BY <2>1, Zenon DEF Amount
  <2>4. Start(d, m, s, f) = a + b
    BY <1>2, <1>4, <2>2, Zenon DEF Start
  <2>5. CASE m + 1 <= N
    <3>1. Amount(d, s, f, m + 1) = a + (b + c)
      BY <1>2, <1>4, <2>1, <2>2, <2>5, ZenonT(120) DEF Amount, Start
    <3>2. a + (b + c) = (a + b) + c
      BY ONLY a \in Nat, b \in Nat, c \in Nat
    <3> QED BY <1>2, <2>2, <2>3, <2>4, <3>1, <3>2, ZenonT(120)
  <2>6. CASE ~ (m + 1 <= N)
    <3>1. m = N
      BY <1>1, <2>1, <2>6
    <3>2. b + c = s[f]
      BY <1>2, <2>2, <3>1, Zenon
    <3>3. Amount(d, s, f, m + 1) = a + (b + c)
      BY <1>5, <2>6, <3>2, Zenon DEF Amount
    <3>4. a + (b + c) = (a + b) + c
      OBVIOUS
    <3> QED BY <1>2, <2>2, <2>3, <2>4, <3>3, <3>4, Zenon
  <2> QED BY <2>3, <2>5, <2>6, ZenonT(120)
<1> QED BY <1>4, <1>6, <1>7, ZenonT(120)

LEMMA ReadHeaderStep ==
  ASSUME IInv, NEW d \in Dirs, ReadHeader(d)
  PROVE  IInv'
<1>1. /\ end[ReaderOf(d)].phase = "bonded" /\ ~ reader[d].ended /\ reader[d].next > N
      /\ wire[d][1] # << >>
      /\ UNCHANGED <<assembly, end, link>> /\ writer' = writer
  BY Zenon DEF ReadHeader, Reads
<1>0. PICK s \in Seq(Nat) : s = S(d)
  BY DirFacts, Zenon
<1>2. PICK g \in 0 .. Len(s), w \in Seq(Things), from \in Nat, to \in Nat, up \in BOOLEAN :
        /\ s = S(d) /\ g = reader[d].frame
        /\ w = wire[d][1] /\ from = Taken(d, 1) /\ to = Sent(d, 1) /\ up = link[1]
        /\ IsLane(d, 1, s, w, from, to, up)
        /\ to <= Loads(d, 1, s)[Len(s)]
  <2>1. 1 \in Members
    BY RatioFacts DEF Members
  <2>2. /\ wire[d][1] \in Seq(Things) /\ link[1] \in BOOLEAN /\ Taken(d, 1) \in Nat /\ Sent(d, 1) \in Nat
        /\ Sent(d, 1) <= Loads(d, 1, S(d))[Len(S(d))]
        /\ IsLane(d, 1, S(d), wire[d][1], Taken(d, 1), Sent(d, 1), link[1])
    BY <2>1, LaneFacts, Zenon
  <2>3. reader[d].frame \in 0 .. Len(S(d))
    BY DirFacts, ZenonT(120)
  <2> QED BY <1>0, <2>2, <2>3, Zenon
<1>3. /\ N \in Nat /\ 1 \in Members /\ 1 \in 1 .. N + 1 /\ s \in Seq(Sizes) /\ Len(s) \in Nat
      /\ reader[d].next \in 1 .. N + 1
  <2>1. N \in Nat /\ N > 0
    BY RatioFacts, Zenon
  <2>2. s \in Seq(Sizes) /\ reader[d].next \in 1 .. N + 1
    BY <1>2, DirFacts, Zenon
  <2>3. 1 \in Members /\ 1 \in 1 .. N + 1
    BY <2>1 DEF Members
  <2>4. Len(s) \in Nat
    BY <2>2
  <2> QED BY <2>1, <2>2, <2>3, <2>4, Zenon
<1>4. \A i \in Members : Taken(d, i) = Loads(d, i, s)[g]
  <2>1. PICK next \in 1 .. N + 1 : next = reader[d].next
    BY <1>3
  <2>2. next > N
    BY <1>1, <2>1, ZenonT(120)
  <2>3. ASSUME NEW i \in Members PROVE Place(d, i, s, g, next) = Loads(d, i, s)[g]
    BY <2>2, PlaceFacts
  <2> QED BY <1>2, <2>1, <2>3, ZenonT(120) DEF Taken
<1>5. /\ g + 1 \in 1 .. Len(s) /\ w[1] = Header(s[g + 1])
      /\ IsLane(d, 1, s, Tail(w), from + 1, to, up)
  <2>1. /\ w # << >> /\ IsLane(d, 1, s, w, from, to, up)
        /\ from = Loads(d, 1, s)[g] /\ to <= Loads(d, 1, s)[Len(s)]
    BY <1>1, <1>2, <1>3, <1>4, ZenonT(120)
  <2> QED BY <2>1, HeaderTaken
<1>6. PICK f \in 1 .. Len(s), n \in Sizes : f = g + 1 /\ f - 1 = g /\ n = s[f]
  <2>1. PICK f \in 1 .. Len(s) : f = g + 1
    BY <1>5
  <2>2. f - 1 = g /\ s[f] \in Sizes
    BY <1>3, <2>1
  <2> QED BY <2>1, <2>2
<1>7. Head(w)[2] = n /\ n \in Nat /\ Tail(w) \in Seq(Things) /\ f \in Nat /\ f > 0 /\ f \in 0 .. Len(s)
  <2>1. Head(w) = w[1] /\ Tail(w) \in Seq(Things)
    BY <1>1, <1>2
  <2>2. w[1] = <<"header", n>> /\ n \in Nat
    BY <1>5, <1>6, ThingFacts, SizesAreNats, ZenonT(120)
  <2>3. f \in Nat /\ f > 0 /\ f \in 0 .. Len(s)
    BY <1>3
  <2>4. <<"header", n>>[2] = n
    BY ONLY n \in Sizes
  <2> QED BY <2>1, <2>2, <2>3, <2>4, Zenon
<1>8. PICK r \in [Dirs -> Reader] : r = reader
  BY Zenon DEF IInv, Types
<1>9. /\ reader' \in [Dirs -> Reader]
      /\ \A e \in Dirs : e # d => reader'[e] = reader[e]
      /\ reader'[d].frame = f /\ reader'[d].next = 1 /\ reader'[d].size = n
      /\ reader'[d].buffer = reader[d].buffer /\ reader'[d].got = reader[d].got
  <2>1. PICK v : v = reader'
    OBVIOUS
  <2>2. v = [r EXCEPT ![d].frame = @ + 1, ![d].size = n, ![d].next = 1, ![d].ended = (n = 0)]
    BY <1>2, <1>7, <1>8, <2>1, Zenon DEF ReadHeader
  <2>3. r[d] \in Reader /\ f = r[d].frame + 1
    BY <1>2, <1>6, <1>8, Zenon
  <2>4. PICK q : q = [r[d] EXCEPT !.frame = f, !.size = n, !.next = 1, !.ended = (n = 0)]
    OBVIOUS
  <2>5. /\ q \in Reader /\ q.frame = f /\ q.next = 1 /\ q.size = n
        /\ q.buffer = r[d].buffer /\ q.got = r[d].got
    BY <1>3, <1>7, <2>3, <2>4, Zenon DEF Reader
  <2>6. v = [r EXCEPT ![d] = q]
    BY <2>2, <2>3, <2>4, Zenon
  <2>7. v \in [Dirs -> Reader] /\ v[d] = q /\ \A e \in Dirs : e # d => v[e] = r[e]
    BY <2>5, <2>6
  <2> QED BY <1>8, <2>1, <2>5, <2>7, ZenonT(120)
<1>10. /\ wire' \in [Dirs -> [Members -> Seq(Things)]]
       /\ \A e \in Dirs : e # d => wire'[e] = wire[e]
       /\ \A j \in Members : j # 1 => wire'[d][j] = wire[d][j]
       /\ wire'[d][1] = Tail(w)
  <2>0. PICK b : b = wire'
    OBVIOUS
  <2>1. PICK a \in [Dirs -> [Members -> Seq(Things)]], x \in Seq(Things) : a = wire /\ x = Tail(w)
    <3>1. wire \in [Dirs -> [Members -> Seq(Things)]]
      BY Zenon DEF IInv, Types
    <3> QED BY <1>7, <3>1, Zenon
  <2>2. b = [a EXCEPT ![d][1] = Tail(@)] /\ a[d][1] = w
    BY <1>2, <2>0, <2>1, Zenon DEF ReadHeader
  <2>3. b = [a EXCEPT ![d][1] = x]
    BY <2>1, <2>2, ZenonT(120)
  <2>4. /\ b \in [Dirs -> [Members -> Seq(Things)]]
        /\ \A e \in Dirs : e # d => b[e] = a[e]
        /\ \A j \in Members : j # 1 => b[d][j] = a[d][j]
        /\ b[d][1] = x
    BY <1>3, <2>3, WireFacts
  <2> QED BY <2>0, <2>1, <2>4, Zenon
<1>11. S(d)' = S(d)
  BY <1>1, Zenon DEF S
<1>12. ASSUME NEW i \in Members PROVE Lane(d, i)'
  <2>1. Sent(d, i)' = Sent(d, i)
    BY <1>1, <1>11, Zenon DEF Sent
  <2>2. Taken(d, i)' = Taken(d, i) + Extra(i)
    <3>1. 1 <= i
      BY DEF Members
    <3>2. \A l \in 1 .. Len(s) : Place(d, i, s, l, 1) =
                                   IF 1 <= i THEN Loads(d, i, s)[l - 1] + Extra(i) ELSE Loads(d, i, s)[l]
      BY <1>3, PlaceFacts
    <3>3. Place(d, i, s, f, 1) = Loads(d, i, s)[g] + Extra(i)
      BY <1>6, <3>1, <3>2, ZenonT(120)
    <3>4. Taken(d, i)' = Place(d, i, s, f, 1)
      BY <1>2, <1>9, <1>11, ZenonT(120) DEF Taken
    <3> QED BY <1>4, <3>3, <3>4, Zenon
  <2>3. CASE i = 1
    <3>1. Extra(i) = 1
      BY <2>3 DEF Extra
    <3> QED BY <1>1, <1>2, <1>5, <1>10, <1>11, <2>1, <2>2, <2>3, <3>1, ZenonT(120) DEF Lane
  <2>4. CASE i # 1
    <3>1. Taken(d, i) \in Nat /\ Extra(i) = 0
      BY <2>4, LaneFacts, Zenon DEF Extra
    <3>2. Taken(d, i)' = Taken(d, i)
      BY <2>2, <3>1
    <3>3. IsLane(d, i, S(d), wire[d][i], Taken(d, i), Sent(d, i), link[i])
      BY LaneFacts, Zenon
    <3> QED BY <1>1, <1>10, <1>11, <2>1, <2>4, <3>2, <3>3, ZenonT(120) DEF Lane
  <2> QED BY <2>3, <2>4, Zenon
<1>13. Counters(d)'
  BY <1>1, <1>2, <1>6, <1>7, <1>9, <1>11, DirFacts, ZenonT(120) DEF Counters
<1>14. (IF reader[d].ended THEN Right(d) ELSE Flow(d))'
  <2>1. Received(d)' = Received(d)
    <3>1. Received(d) = Sums(s)[g]
      <4>1. ~ (reader[d].next <= N) /\ s = S(d) /\ g = reader[d].frame
        <5>1. PICK y \in 1 .. N + 1 : y = reader[d].next
          BY <1>3, Zenon
        <5>2. y > N
          BY <1>1, <5>1, Zenon
        <5>3. ~ (y <= N)
          BY <1>3, <5>2
        <5> QED BY <1>2, <5>1, <5>3, Zenon
      <4> QED BY <4>1, Zenon DEF Received, Amount
    <3>2. Received(d)' = Amount(d, s, f, 1)
      BY <1>2, <1>9, <1>11, ZenonT(120) DEF Received
    <3>3. Amount(d, s, f, 1) = Sums(s)[f - 1]
      BY AmountMoves, Zenon
    <3> QED BY <1>6, <3>1, <3>2, <3>3, ZenonT(120)
  <2>2. Flow(d)'
    BY <1>1, <1>9, <2>1, FlowFacts, ZenonT(120) DEF Flow
  <2>3. Right(d)'
    <3>1. \A k \in 1 .. Len(reader[d].got) : reader[d].got[k] = Byte(k) /\ k <= Sum(S(d))
      BY <1>1, FlowFacts, Zenon
    <3> QED BY <1>9, <1>11, <3>1, ZenonT(120) DEF Right
  <2> QED BY <2>2, <2>3, Zenon
<1>15. StreamInv(d)'
  BY <1>12, <1>13, <1>14, ZenonT(120) DEF StreamInv
<1>16. writer' \in [Dirs -> Writer] /\ \A e \in Dirs : writer'[e] = writer[e]
  BY <1>1, Zenon DEF IInv, Types
<1> QED BY <1>1, <1>9, <1>10, <1>11, <1>15, <1>16, StreamStep, ZenonT(120)

LEMMA ReadChunkStep ==
  ASSUME IInv, NEW d \in Dirs, ReadChunk(d)
  PROVE  IInv'
<1>1. /\ end[ReaderOf(d)].phase = "bonded" /\ ~ reader[d].ended /\ reader[d].next <= N
      /\ UNCHANGED <<assembly, end, link>> /\ writer' = writer
  BY Zenon DEF ReadChunk, Reads
<1>2. PICK s \in Seq(Nat) : s = S(d)
  BY DirFacts, Zenon
<1>3. /\ reader[d].frame \in 0 .. Len(s) /\ reader[d].frame > 0 /\ reader[d].size = s[reader[d].frame]
      /\ reader[d].next \in 1 .. N + 1 /\ N \in Nat
  BY <1>1, <1>2, DirFacts, RatioFacts, ZenonT(120)
<1>4. PICK f \in 1 .. Len(s), m \in Members : f = reader[d].frame /\ m = reader[d].next
  <2>1. PICK x, y, k : x = reader[d].frame /\ y = reader[d].next /\ k = Len(s)
    BY Zenon
  <2>2. x \in 0 .. k /\ x > 0 /\ y \in 1 .. N + 1 /\ y <= N /\ k \in Nat /\ N \in Nat
    <3>1. k \in Nat
      BY <2>1
    <3> QED BY <1>1, <1>3, <2>1, <3>1, Zenon
  <2>3. x \in 1 .. k /\ y \in Members
    BY <2>2 DEF Members
  <2> QED BY <2>1, <2>3, Zenon
<1>5. m + 1 \in 1 .. N + 1 /\ m \in 1 .. N /\ m \in 1 .. N + 1 /\ m <= m
  BY <1>3 DEF Members
<1>6. PICK w \in Seq(Things), from \in Nat, to \in Nat, up \in BOOLEAN :
        /\ w = wire[d][m] /\ from = Taken(d, m) /\ to = Sent(d, m) /\ up = link[m]
        /\ IsLane(d, m, s, w, from, to, up)
  BY <1>2, LaneFacts, Zenon
<1>7. ToRead(d) = Lens(d, s[f])
  <2>1. end[ReaderOf(d)].download = Ratios(d)
    BY <1>1, Zenon DEF IInv, Bonded
  <2> QED BY <1>3, <1>4, <2>1, Zenon DEF ToRead, Lens
<1>8. PICK c \in 0 .. Len(w) : c = Lens(d, s[f])[m]
  <2>1. Lens(d, s[f])[m] \in Nat
    BY StartTyped, Zenon
  <2>2. Len(w) >= Lens(d, s[f])[m]
    BY <1>4, <1>6, <1>7, ZenonT(120) DEF ReadChunk
  <2> QED BY <2>1, <2>2
<1>9. PICK x \in Seq(Things), y \in Seq(Things) :
        x = SubSeq(w, 1, c) /\ y = SubSeq(w, c + 1, Len(w)) /\ Len(x) = c /\ \A k \in 1 .. c : x[k] = w[k]
  <2>1. SubSeq(w, c + 1, Len(w)) \in Seq(Things)
    OBVIOUS
  <2> QED BY <2>1, PrefixFacts, ZenonT(120)
<1>10. /\ IsLane(d, m, s, y, from + c, to, up)
       /\ \A k \in 1 .. c : w[k] = Byte(Start(d, m, s, f) + k)
  <2>1. from = Loads(d, m, s)[f - 1] + Extra(m)
    <3>1. Place(d, m, s, f, m) = IF m <= m THEN Loads(d, m, s)[f - 1] + Extra(m) ELSE Loads(d, m, s)[f]
      BY <1>5, PlaceFacts
    <3> QED BY <1>2, <1>4, <1>5, <1>6, <3>1, ZenonT(120) DEF Taken
  <2>2. IsLane(d, m, s, w, from, to, up)
    BY <1>6, ZenonT(120)
  <2>3. /\ IsLane(d, m, s, SubSeq(w, c + 1, Len(w)), from + c, to, up)
        /\ \A k \in 1 .. c : w[k] = Byte(Start(d, m, s, f) + k)
    <3>1. \A n \in 0 .. Len(w) : n = Lens(d, s[f])[m] =>
            /\ IsLane(d, m, s, SubSeq(w, n + 1, Len(w)), from + n, to, up)
            /\ \A k \in 1 .. n : w[k] = Byte(Start(d, m, s, f) + k)
      BY <2>1, <2>2, ChunkTaken
    <3> QED BY <1>8, <3>1, ZenonT(120)
  <2> QED BY <1>9, <2>3, Zenon
<1>11. PICK r \in [Dirs -> Reader] : r = reader
  BY Zenon DEF IInv, Types
<1>12. PICK g \in Seq(Things), b \in Seq(Things) : g = reader[d].got /\ b = reader[d].buffer
  BY DirFacts, Zenon
<1>13. /\ reader' \in [Dirs -> Reader]
       /\ \A e \in Dirs : e # d => reader'[e] = reader[e]
       /\ reader'[d].frame = f /\ reader'[d].next = m + 1 /\ reader'[d].size = reader[d].size
       /\ reader'[d].buffer = b \o x /\ reader'[d].got = g /\ reader'[d].ended = FALSE
  <2>1. PICK v : v = reader'
    OBVIOUS
  <2>2. v = [r EXCEPT ![d].next = @ + 1, ![d].buffer = @ \o x]
    BY <1>4, <1>6, <1>7, <1>8, <1>9, <1>11, <2>1, ZenonT(120) DEF ReadChunk
  <2>3. /\ r[d] \in Reader /\ m = r[d].next
        /\ b = r[d].buffer /\ g = r[d].got /\ f = r[d].frame /\ r[d].ended = FALSE
    BY <1>1, <1>4, <1>11, <1>12, DirFacts, ZenonT(120)
  <2>4. PICK q : q = [r[d] EXCEPT !.next = m + 1, !.buffer = b \o x]
    OBVIOUS
  <2>5. /\ q \in Reader /\ q.frame = f /\ q.next = m + 1 /\ q.size = r[d].size
        /\ q.buffer = b \o x /\ q.got = g /\ q.ended = FALSE
    <3>1. b \o x \in Seq(Things)
      OBVIOUS
    <3> QED BY <1>5, <2>3, <2>4, <3>1, Zenon DEF Reader
  <2>6. v = [r EXCEPT ![d] = q]
    BY <2>2, <2>3, <2>4, Zenon
  <2>7. v \in [Dirs -> Reader] /\ v[d] = q /\ \A e \in Dirs : e # d => v[e] = r[e]
    BY <2>5, <2>6
  <2> QED BY <1>11, <2>1, <2>5, <2>7, ZenonT(120)
<1>14. /\ wire' \in [Dirs -> [Members -> Seq(Things)]]
       /\ \A e \in Dirs : e # d => wire'[e] = wire[e]
       /\ \A j \in Members : j # m => wire'[d][j] = wire[d][j]
       /\ wire'[d][m] = y
  <2>0. PICK v : v = wire'
    OBVIOUS
  <2>1. PICK a \in [Dirs -> [Members -> Seq(Things)]] : a = wire
    BY Zenon DEF IInv, Types
  <2>2. v = [a EXCEPT ![d][m] = SubSeq(@, c + 1, Len(@))] /\ a[d][m] = w
    BY <1>4, <1>6, <1>7, <1>8, <2>0, <2>1, ZenonT(120) DEF ReadChunk
  <2>3. v = [a EXCEPT ![d][m] = y]
    BY <1>9, <2>2, ZenonT(120)
  <2>4. /\ v \in [Dirs -> [Members -> Seq(Things)]]
        /\ \A e \in Dirs : e # d => v[e] = a[e]
        /\ \A j \in Members : j # m => v[d][j] = a[d][j]
        /\ v[d][m] = y
    BY <2>3, WireFacts
  <2> QED BY <2>0, <2>1, <2>4, ZenonT(120)
<1>15. S(d)' = S(d)
  BY <1>1, Zenon DEF S
<1>16. ASSUME NEW i \in Members PROVE Lane(d, i)'
  <2>1. Sent(d, i)' = Sent(d, i)
    BY <1>1, <1>15, ZenonT(120) DEF Sent
  <2>2. Taken(d, i) = Place(d, i, s, f, m) /\ Taken(d, i)' = Place(d, i, s, f, m + 1)
    BY <1>2, <1>4, <1>13, <1>15, ZenonT(120) DEF Taken
  <2>3. Place(d, i, s, f, m + 1) =
          IF i = m THEN Place(d, i, s, f, m) + Lens(d, s[f])[i] ELSE Place(d, i, s, f, m)
    BY <1>5, PlaceMoves, ZenonT(120)
  <2>4. CASE i = m
    <3>1. Taken(d, i)' = from + c
      BY <1>6, <1>8, <2>2, <2>3, <2>4, ZenonT(120)
    <3> QED BY <1>1, <1>2, <1>6, <1>10, <1>14, <1>15, <2>1, <2>4, <3>1, Zenon DEF Lane
  <2>5. CASE i # m
    <3>1. Taken(d, i)' = Taken(d, i)
      BY <2>2, <2>3, <2>5, ZenonT(120)
    <3>2. IsLane(d, i, S(d), wire[d][i], Taken(d, i), Sent(d, i), link[i])
      BY LaneFacts, Zenon
    <3> QED BY <1>1, <1>14, <1>15, <2>1, <2>5, <3>1, <3>2, ZenonT(120) DEF Lane
  <2> QED BY <2>4, <2>5, Zenon
<1>17. Counters(d)'
  BY <1>1, <1>2, <1>3, <1>4, <1>13, <1>15, DirFacts, ZenonT(120) DEF Counters
<1>18. Flow(d)'
  <2>1. PICK a \in Nat : a = Received(d) /\ IsFlow(g, b, a)
    BY <1>1, <1>12, FlowFacts, ZenonT(120)
  <2>2. /\ a = Start(d, m, s, f) /\ a = Amount(d, s, f, m)
        /\ Amount(d, s, f, m + 1) = Amount(d, s, f, m) + Lens(d, s[f])[m]
    <3>1. Received(d) = Amount(d, s, f, m)
      BY <1>2, <1>4, Zenon DEF Received
    <3> QED BY <2>1, <3>1, AmountMoves, ZenonT(120)
  <2>3. Received(d)' = a + Len(x)
    <3>1. Received(d)' = Amount(d, s, f, m + 1)
      BY <1>2, <1>13, <1>15, ZenonT(120) DEF Received
    <3> QED BY <1>8, <1>9, <2>2, <3>1, ZenonT(120)
  <2>4. \A k \in 1 .. Len(x) : x[k] = Byte(a + k)
    BY <1>9, <1>10, <2>2, ZenonT(120)
  <2>5. IsFlow(g, b, a)
    BY <2>1, Zenon
  <2>6. IsFlow(g, b \o x, a + Len(x))
    BY <2>4, <2>5, FlowGrows, ZenonT(120)
  <2> QED BY <1>13, <2>3, <2>6, ZenonT(120) DEF Flow
<1>19. StreamInv(d)'
  BY <1>13, <1>16, <1>17, <1>18, ZenonT(120) DEF StreamInv
<1>20. writer' \in [Dirs -> Writer] /\ \A e \in Dirs : writer'[e] = writer[e]
  BY <1>1, ZenonT(120) DEF IInv, Types
<1> QED BY <1>1, <1>13, <1>14, <1>15, <1>19, <1>20, StreamStep, ZenonT(120)

LEMMA ReadFailsStep ==
  ASSUME IInv, NEW d \in Dirs, ReadFails(d)
  PROVE  IInv'
<1>1. /\ end[ReaderOf(d)].phase = "bonded" /\ ~ reader[d].ended
      /\ UNCHANGED <<assembly, end, link>> /\ writer' = writer /\ wire' = wire
  BY Zenon DEF ReadFails, Reads
<1>2. PICK g \in Seq(Things), b \in Seq(Things) : g = reader[d].got /\ b = reader[d].buffer
  BY DirFacts, Zenon
<1>3. PICK i \in Members : i = (IF reader[d].next > N THEN 1 ELSE reader[d].next) /\ ~ link[i]
  <2>1. (IF reader[d].next > N THEN 1 ELSE reader[d].next) \in Members
    BY DirFacts, RatioFacts DEF Members
  <2>2. ~ link[IF reader[d].next > N THEN 1 ELSE reader[d].next]
    BY ZenonT(120) DEF ReadFails
  <2> QED BY <2>1, <2>2, ZenonT(120)
<1>4. PICK n \in Nat : n = (IF reader[d].next > N THEN 0 ELSE Len(b) + Len(wire[d][i]))
  <2>1. wire[d][i] \in Seq(Things)
    BY LaneFacts, Zenon
  <2> QED BY <2>1
<1>5. PICK x \in Seq(Things) : x = [k \in 1 .. n |-> Unfilled] /\ Len(x) = n /\ \A k \in 1 .. n : x[k] = Unfilled
  <2>1. PICK x : x = [k \in 1 .. n |-> Unfilled]
    BY Zenon
  <2>2. x \in Seq(Things) /\ Len(x) = n /\ \A k \in 1 .. n : x[k] = Unfilled
    BY <2>1, ThingFacts
  <2> QED BY <2>1, <2>2
<1>6. PICK r \in [Dirs -> Reader] : r = reader
  BY Zenon DEF IInv, Types
<1>7. /\ reader' \in [Dirs -> Reader]
      /\ \A e \in Dirs : e # d => reader'[e] = reader[e]
      /\ reader'[d].frame = reader[d].frame /\ reader'[d].next = reader[d].next
      /\ reader'[d].size = reader[d].size
      /\ reader'[d].got = g \o x /\ reader'[d].ended = TRUE
  <2>1. PICK v : v = reader'
    OBVIOUS
  <2>2. v = [r EXCEPT ![d].ended = TRUE, ![d].got = @ \o x]
    BY <1>2, <1>3, <1>4, <1>5, <1>6, <2>1, ZenonT(120) DEF ReadFails
  <2>3. r[d] \in Reader /\ g = r[d].got
    BY <1>2, <1>6, Zenon
  <2>4. PICK q : q = [r[d] EXCEPT !.ended = TRUE, !.got = g \o x]
    OBVIOUS
  <2>5. /\ q \in Reader /\ q.frame = r[d].frame /\ q.next = r[d].next /\ q.size = r[d].size
        /\ q.got = g \o x /\ q.ended = TRUE
    <3>1. g \o x \in Seq(Things)
      OBVIOUS
    <3> QED BY <2>3, <2>4, <3>1, Zenon DEF Reader
  <2>6. v = [r EXCEPT ![d] = q]
    BY <2>2, <2>3, <2>4, Zenon
  <2>7. v \in [Dirs -> Reader] /\ v[d] = q /\ \A e \in Dirs : e # d => v[e] = r[e]
    BY <2>5, <2>6
  <2> QED BY <1>6, <2>1, <2>5, <2>7, Zenon
<1>8. S(d)' = S(d) /\ writer'[d].next = writer[d].next /\ wire'[d] = wire[d]
  BY <1>1, Zenon DEF S
<1>9. \A j \in Members : Lane(d, j)'
  BY <1>1, <1>7, <1>8, SameFades, LanesKept, ZenonT(120)
<1>10. Counters(d)'
  BY <1>1, <1>7, <1>8, DirFacts, ZenonT(120) DEF Counters
<1>11. Right(d)'
  <2>1. \A k \in 1 .. Len(g) : g[k] = Byte(k) /\ k <= Sum(S(d))
    BY <1>1, <1>2, FlowFacts, Zenon
  <2>2. PICK h \in Seq(Things) : h = g \o x
    <3>1. g \o x \in Seq(Things)
      OBVIOUS
    <3> QED BY <3>1, Zenon
  <2>3. \A k \in 1 .. Len(h) : (k \in 1 .. Len(g) /\ h[k] = g[k]) \/ h[k] = Unfilled
    BY <1>5, <2>2
  <2>4. ~ link'[i]
    BY <1>1, <1>3, Zenon
  <2> QED BY <1>7, <1>8, <2>1, <2>2, <2>3, <2>4, ZenonT(120) DEF Right
<1>12. StreamInv(d)'
  BY <1>7, <1>9, <1>10, <1>11, ZenonT(120) DEF StreamInv
<1>13. /\ writer' \in [Dirs -> Writer] /\ wire' \in [Dirs -> [Members -> Seq(Things)]]
       /\ \A e \in Dirs : writer'[e] = writer[e] /\ wire'[e] = wire[e]
  BY <1>1, Zenon DEF IInv, Types
<1> QED BY <1>1, <1>7, <1>8, <1>12, <1>13, StreamStep, ZenonT(120)

LEMMA ReadBufferedStep ==
  ASSUME IInv, NEW d \in Dirs, NEW n \in 1 .. Len(reader[d].buffer), ReadBuffered(d, n)
  PROVE  IInv'
<1>1. /\ end[ReaderOf(d)].phase = "bonded" /\ ~ reader[d].ended
      /\ UNCHANGED <<assembly, end, link>> /\ writer' = writer /\ wire' = wire
  BY Zenon DEF ReadBuffered, Reads
<1>2. PICK g \in Seq(Things), b \in Seq(Things) : g = reader[d].got /\ b = reader[d].buffer
  BY DirFacts, Zenon
<1>3. n \in 0 .. Len(b)
  BY <1>2
<1>4. PICK x \in Seq(Things), y \in Seq(Things) : x = g \o SubSeq(b, 1, n) /\ y = SubSeq(b, n + 1, Len(b))
  <2>1. SubSeq(b, n + 1, Len(b)) \in Seq(Things) /\ g \o SubSeq(b, 1, n) \in Seq(Things)
    BY <1>3
  <2> QED BY <2>1, Zenon
<1>5. PICK r \in [Dirs -> Reader] : r = reader
  BY Zenon DEF IInv, Types
<1>6. /\ reader' \in [Dirs -> Reader]
      /\ \A e \in Dirs : e # d => reader'[e] = reader[e]
      /\ reader'[d].frame = reader[d].frame /\ reader'[d].next = reader[d].next
      /\ reader'[d].size = reader[d].size
      /\ reader'[d].got = x /\ reader'[d].buffer = y /\ reader'[d].ended = reader[d].ended
  <2>1. PICK v : v = reader'
    OBVIOUS
  <2>2. v = [r EXCEPT ![d].got = @ \o SubSeq(r[d].buffer, 1, n), ![d].buffer = SubSeq(@, n + 1, Len(@))]
    BY <1>5, <2>1, Zenon DEF ReadBuffered
  <2>3. r[d] \in Reader /\ g = r[d].got /\ b = r[d].buffer
    BY <1>2, <1>5, Zenon
  <2>4. PICK q : q = [r[d] EXCEPT !.got = x, !.buffer = y]
    OBVIOUS
  <2>5. /\ q \in Reader /\ q.frame = r[d].frame /\ q.next = r[d].next /\ q.size = r[d].size
        /\ q.got = x /\ q.buffer = y /\ q.ended = r[d].ended
    BY <2>3, <2>4, Zenon DEF Reader
  <2>6. v = [r EXCEPT ![d] = q]
    BY <1>4, <2>2, <2>3, <2>4, Zenon DEF Reader
  <2>7. v \in [Dirs -> Reader] /\ v[d] = q /\ \A e \in Dirs : e # d => v[e] = r[e]
    BY <2>5, <2>6
  <2> QED BY <1>5, <2>1, <2>5, <2>7, Zenon
<1>7. S(d)' = S(d) /\ writer'[d].next = writer[d].next /\ wire'[d] = wire[d]
  BY <1>1, Zenon DEF S
<1>8. \A j \in Members : Lane(d, j)'
  BY <1>1, <1>6, <1>7, SameFades, LanesKept, ZenonT(120)
<1>9. Counters(d)'
  BY <1>1, <1>6, <1>7, DirFacts, ZenonT(120) DEF Counters
<1>10. Flow(d)'
  <2>1. PICK a \in Nat : a = Received(d) /\ IsFlow(g, b, a)
    BY <1>1, <1>2, FlowFacts, Zenon
  <2>2. Received(d)' = a
    BY <1>6, <1>7, <2>1, Zenon DEF Received
  <2>3. IsFlow(g, b, a)
    BY <2>1, Zenon
  <2>4. IsFlow(x, y, a)
    BY <1>3, <1>4, <2>3, FlowReads, Zenon
  <2> QED BY <1>6, <2>2, <2>4, ZenonT(120) DEF Flow
<1>11. StreamInv(d)'
  BY <1>1, <1>6, <1>8, <1>9, <1>10, ZenonT(120) DEF StreamInv
<1>12. /\ writer' \in [Dirs -> Writer] /\ wire' \in [Dirs -> [Members -> Seq(Things)]]
       /\ \A e \in Dirs : writer'[e] = writer[e] /\ wire'[e] = wire[e]
  BY <1>1, Zenon DEF IInv, Types
<1> QED BY <1>1, <1>6, <1>7, <1>11, <1>12, StreamStep, ZenonT(120)

LEMMA LoseStep ==
  ASSUME IInv, NEW d \in Dirs, NEW m \in Members, Lose(d, m)
  PROVE  IInv'
<1>1. /\ ~ link[m] /\ wire[d][m] # << >>
      /\ UNCHANGED <<assembly, end, link>> /\ writer' = writer /\ reader' = reader
  BY Zenon DEF Lose
<1>2. PICK s \in Seq(Nat) : s = S(d)
  BY DirFacts, Zenon
<1>3. PICK w \in Seq(Things), from \in Nat, to \in Nat :
        /\ w = wire[d][m] /\ from = Taken(d, m) /\ to = Sent(d, m)
        /\ IsLane(d, m, s, w, from, to, FALSE)
  <2>1. wire[d][m] \in Seq(Things) /\ Taken(d, m) \in Nat /\ Sent(d, m) \in Nat
    BY LaneFacts, Zenon
  <2>2. IsLane(d, m, S(d), wire[d][m], Taken(d, m), Sent(d, m), link[m])
    BY LaneFacts, Zenon
  <2>3. IsLane(d, m, S(d), wire[d][m], Taken(d, m), Sent(d, m), FALSE)
    BY <2>2, Zenon DEF IsLane
  <2> QED BY <1>2, <2>1, <2>3, Zenon
<1>4. PICK y \in Seq(Things) : y = SubSeq(w, 1, Len(w) - 1)
  <2>1. w # << >>
    BY <1>1, <1>3, Zenon
  <2>2. Len(w) - 1 \in 0 .. Len(w)
    BY <2>1
  <2> QED BY <2>2, PrefixFacts, Zenon
<1>5. /\ wire' \in [Dirs -> [Members -> Seq(Things)]]
      /\ \A e \in Dirs : e # d => wire'[e] = wire[e]
      /\ \A j \in Members : j # m => wire'[d][j] = wire[d][j]
      /\ wire'[d][m] = y
  <2>1. PICK v : v = wire'
    OBVIOUS
  <2>2. PICK a \in [Dirs -> [Members -> Seq(Things)]] : a = wire
    BY Zenon DEF IInv, Types
  <2>3. v = [a EXCEPT ![d][m] = SubSeq(@, 1, Len(@) - 1)] /\ a[d][m] = w
    BY <1>3, <2>1, <2>2, ZenonT(120) DEF Lose
  <2>4. v = [a EXCEPT ![d][m] = y]
    BY <1>4, <2>3, ZenonT(120)
  <2>5. /\ v \in [Dirs -> [Members -> Seq(Things)]]
        /\ \A e \in Dirs : e # d => v[e] = a[e]
        /\ \A j \in Members : j # m => v[d][j] = a[d][j]
        /\ v[d][m] = y
    BY <2>4, WireFacts
  <2> QED BY <2>1, <2>2, <2>5, ZenonT(120)
<1>6. S(d)' = S(d)
  BY <1>1, Zenon DEF S
<1>7. ASSUME NEW i \in Members PROVE Lane(d, i)'
  <2>1. Sent(d, i)' = Sent(d, i) /\ Taken(d, i)' = Taken(d, i)
    BY <1>1, <1>6, Zenon DEF Sent, Taken
  <2>2. CASE i = m
    <3>1. w # << >> /\ IsLane(d, m, s, w, from, to, FALSE)
      BY <1>1, <1>3, Zenon
    <3>2. IsLane(d, m, s, y, from, to, FALSE)
      BY <1>4, <3>1, LaneLoses, ZenonT(120)
    <3>3. link'[i] = FALSE
      BY <1>1, <2>2 DEF IInv, Types
    <3> QED BY <1>2, <1>3, <1>5, <1>6, <2>1, <2>2, <3>2, <3>3, ZenonT(120) DEF Lane
  <2>3. CASE i # m
    <3>1. IsLane(d, i, S(d), wire[d][i], Taken(d, i), Sent(d, i), link[i])
      BY LaneFacts, Zenon
    <3> QED BY <1>1, <1>5, <1>6, <2>1, <2>3, <3>1, ZenonT(120) DEF Lane
  <2> QED BY <2>2, <2>3, Zenon
<1>8. StreamInv(d)'
  <2>1. Counters(d)'
    BY <1>1, <1>6, DirFacts, Zenon DEF Counters
  <2>2. IF reader[d].ended THEN Right(d) ELSE Flow(d)
    BY Zenon DEF IInv, StreamInv
  <2>3. Received(d)' = Received(d)
    BY <1>1, <1>6, Zenon DEF Received
  <2>4. Flow(d)' = Flow(d)
    BY <1>1, <2>3, Zenon DEF Flow
  <2>5. Right(d)' = Right(d)
    BY <1>1, <1>6, Zenon DEF Right
  <2> QED BY <1>1, <1>7, <2>1, <2>2, <2>4, <2>5, ZenonT(120) DEF StreamInv
<1>9. /\ writer' \in [Dirs -> Writer] /\ reader' \in [Dirs -> Reader]
      /\ \A e \in Dirs : writer'[e] = writer[e] /\ reader'[e] = reader[e]
  BY <1>1, Zenon DEF IInv, Types
<1> QED BY <1>1, <1>5, <1>6, <1>8, <1>9, StreamStep, ZenonT(120)

-----------------------------------------------------------------------------
LEMMA InitIInv == Init => IInv
<1> SUFFICES ASSUME Init PROVE IInv
  OBVIOUS
<1>1. N \in Nat /\ N > 0 /\ N + 1 \in 1 .. N + 1 /\ N + 1 > N /\ 0 \notin Members
  BY RatioFacts DEF Members, Dirs
<1>2. /\ \A d \in Dirs : wire[d] = [i \in Members |-> << >>]
      /\ \A d \in Dirs : writer[d] = [sizes |-> << >>, next |-> N + 1, failed |-> FALSE]
      /\ \A d \in Dirs : reader[d] = [frame |-> 0, size |-> 0, next |-> N + 1,
                                      buffer |-> << >>, got |-> << >>, ended |-> FALSE]
  BY ZenonT(120) DEF Init
<1>3. /\ \A d \in Dirs : S(d) = << >> /\ writer[d].next = N + 1
      /\ \A d \in Dirs : /\ reader[d].frame = 0 /\ reader[d].next = N + 1 /\ reader[d].ended = FALSE
                         /\ reader[d].buffer = << >> /\ reader[d].got = << >>
  BY <1>2 DEF S
<1>4. Types
  <2>1. /\ dial \in [Members -> {"dialling", "sent", "failed"}] /\ link \in [Members -> BOOLEAN]
        /\ handled \in SUBSET Members /\ maps \in [Members -> SUBSET Members]
        /\ cache \in {None} \union Members /\ evicted \in SUBSET Members /\ closed \in SUBSET Members
    BY Zenon DEF Init
  <2>2. end \in [Ends -> [phase : Phases, download : Seq(0 .. 100), upload : Seq(0 .. 100)]]
    <3>1. end = [e \in Ends |-> [phase |-> "none", download |-> << >>, upload |-> << >>]]
      BY Zenon DEF Init
    <3> QED BY <3>1 DEF Phases
  <2>3. wire \in [Dirs -> [Members -> Seq(Things)]]
    BY DEF Init
  <2>4. writer \in [Dirs -> Writer]
    <3>1. writer = [d \in Dirs |-> [sizes |-> << >>, next |-> N + 1, failed |-> FALSE]]
      BY Zenon DEF Init
    <3>2. [sizes |-> << >>, next |-> N + 1, failed |-> FALSE] \in Writer
      BY <1>1 DEF Writer
    <3> QED BY <3>1, <3>2, Zenon
  <2>5. reader \in [Dirs -> Reader]
    <3>1. reader = [d \in Dirs |-> [frame |-> 0, size |-> 0, next |-> N + 1,
                                     buffer |-> << >>, got |-> << >>, ended |-> FALSE]]
      BY Zenon DEF Init
    <3>2. [frame |-> 0, size |-> 0, next |-> N + 1, buffer |-> << >>, got |-> << >>, ended |-> FALSE] \in Reader
      BY <1>1 DEF Reader
    <3> QED BY <3>1, <3>2, Zenon
  <2> QED BY <2>1, <2>2, <2>3, <2>4, <2>5, ZenonT(120) DEF Types
<1>5. \A e \in Ends : end[e].phase = "none"
  BY Zenon DEF Init
<1>6. Gathered
  <2>1. \A m \in Members : maps[m] = {}
    BY DEF Init
  <2>2. end["server"].phase = "none"
    BY <1>5 DEF Ends
  <2> QED BY <2>1, <2>2, ZenonT(120) DEF Init, Gathered
<1>7. Bonded
  <2>1. \A d \in Dirs : WriterOf(d) \in Ends /\ ReaderOf(d) \in Ends
    BY DEF WriterOf, ReaderOf, Ends
  <2>2. "none" # "bonded"
    OBVIOUS
  <2> QED BY <1>3, <1>5, <2>1, <2>2, Zenon DEF Bonded
<1>8. ASSUME NEW d \in Dirs PROVE StreamInv(d)
  <2>1. PICK s : s = << >>
    OBVIOUS
  <2>2. s \in Seq(Nat) /\ Len(s) = 0 /\ 0 \in 0 .. Len(s)
    BY <2>1
  <2>3. Counters(d)
    BY <1>1, <1>3 DEF Counters
  <2>4. ASSUME NEW i \in Members PROVE Lane(d, i)
    <3>1. Loads(d, i, s)[0] = 0
      BY <2>2, LoadFacts, Zenon
    <3>2. Place(d, i, s, 0, N + 1) = 0
      <4>1. ~ (N + 1 <= i) /\ 0 - 0 = 0
        BY <1>1 DEF Members
      <4> QED BY <3>1, <4>1, Zenon DEF Place
    <3>3. wire[d][i] = s /\ S(d) = s /\ Taken(d, i) = 0 /\ Sent(d, i) = 0
      BY <1>2, <1>3, <2>1, <2>2, <3>2, ZenonT(120) DEF Taken, Sent
    <3>4. 0 + Len(s) = 0 /\ 0 <= 0 /\ \A p \in 1 .. Len(s) : FALSE
      BY <2>2
    <3>5. IsLane(d, i, s, s, 0, 0, link[i])
      BY <3>4, Zenon DEF IsLane
    <3> QED BY <3>3, <3>5, Zenon DEF Lane
  <2>5. Flow(d)
    <3>1. Sums(s)[0] = 0
      <4>1. s \in Seq(Int)
        BY <2>1
      <4> QED BY <4>1, SumsSteps, Zenon
    <3>2. Received(d) = 0
      <4>1. ~ (N + 1 <= N)
        BY <1>1
      <4> QED BY <1>3, <2>1, <3>1, <4>1, ZenonT(120) DEF Received, Amount
    <3>3. IsFlow(s, s, 0)
      BY <2>2 DEF IsFlow
    <3> QED BY <1>3, <2>1, <3>2, <3>3, ZenonT(120) DEF Flow
  <2> QED BY <1>3, <2>3, <2>4, <2>5, ZenonT(120) DEF StreamInv
<1> QED BY <1>4, <1>6, <1>7, <1>8, ZenonT(120) DEF IInv

LEMMA NextIInv == IInv /\ [Next]_vars => IInv'
<1> SUFFICES ASSUME IInv, [Next]_vars PROVE IInv'
  OBVIOUS
<1>1. CASE UNCHANGED vars
  <2>1. UNCHANGED <<dial, end, link, handled, maps, cache, evicted, closed, wire, writer, reader>>
    BY <1>1, Zenon DEF vars
  <2>2. UNCHANGED <<assembly, end, link>> /\ UNCHANGED <<dial, stream>> /\ UNCHANGED assembly
    BY <2>1, Zenon DEF assembly, stream
  <2>3. Types'
    BY <2>1, Zenon DEF IInv, Types
  <2>4. Gathered'
    BY <2>1, <2>2, GatheredKept, Zenon
  <2>5. Bonded'
    BY <2>1, <2>2, BondedKept, Zenon
  <2>6. \A d \in Dirs : StreamInv(d)'
    BY <2>1, <2>2, SameFades, StreamKept, Zenon
  <2> QED BY <2>3, <2>4, <2>5, <2>6, ZenonT(120) DEF IInv
<1>2. ASSUME NEW i \in Members,
             \/ DialSent(i) \/ DialFails(i) \/ connHandler(i) \/ ReadRequestFails(i)
             \/ OnEvicted(i) \/ Break(i)
      PROVE  IInv'
  BY <1>2, DialSentStep, DialFailsStep, connHandlerStep, ReadRequestFailsStep, OnEvictedStep, BreakStep,
     ZenonT(120)
<1>3. CASE Dialled
  BY <1>3, DialledStep, Zenon
<1>4. CASE Expire
  BY <1>4, ExpireStep, Zenon
<1>5. ASSUME NEW d \in Dirs, NEW n \in Sizes, Write(d, n) PROVE IInv'
  BY <1>5, WriteStep, Zenon
<1>6. ASSUME NEW d \in Dirs,
             WriteChunk(d) \/ WriteFails(d) \/ ReadHeader(d) \/ ReadChunk(d) \/ ReadFails(d)
      PROVE  IInv'
  BY <1>6, WriteChunkStep, WriteFailsStep, ReadHeaderStep, ReadChunkStep, ReadFailsStep, ZenonT(120)
<1>7. ASSUME NEW d \in Dirs, NEW n \in 1 .. Len(reader[d].buffer), ReadBuffered(d, n) PROVE IInv'
  BY <1>7, ReadBufferedStep, Zenon
<1>8. ASSUME NEW d \in Dirs, NEW i \in Members, Lose(d, i) PROVE IInv'
  BY <1>8, LoseStep, Zenon
<1>9. ASSUME NEW e \in Ends, Close(e) PROVE IInv'
  BY <1>9, CloseStep, Zenon
<1> QED BY <1>1, <1>2, <1>3, <1>4, <1>5, <1>6, <1>7, <1>8, <1>9, ZenonT(120) DEF Next

LEMMA SpecIInv == Spec => []IInv
BY InitIInv, NextIInv, PTL DEF Spec

(* No length that splitByRatios yields is negative, of whatever size the   *)
(* slice and whatever the ratios that NewOutbound accepts: the lengths     *)
(* that are rounded down leave the last connection the rest.               *)
THEOREM LengthsStayNatural == Spec => []TypeOK
<1>1. IInv => TypeOK
  <2> SUFFICES ASSUME IInv PROVE TypeOK
    OBVIOUS
  <2>1. /\ dial \in [Members -> {"dialling", "sent", "failed"}]
        /\ link \in [Members -> BOOLEAN]
        /\ handled \subseteq Members
        /\ maps \in [Members -> SUBSET Members]
        /\ cache \in {None} \union Members
        /\ evicted \subseteq Members
        /\ closed \subseteq Members
    BY Zenon DEF IInv, Types
  <2>2. \A e \in Ends : end[e].phase \in {"none", "bonded", "closed"}
    BY DEF IInv, Types, Phases
  <2>3. ASSUME NEW d \in Dirs, Writing(d) PROVE ToWrite(d) \in [Members -> Nat]
    <3>1. S(d) \in Seq(Nat) /\ Len(S(d)) \in Nat /\ Len(S(d)) > 0
      BY <2>3, DirFacts, Zenon DEF Writing
    <3>2. Length(d) \in Nat /\ S(d) # << >>
      BY <3>1 DEF Length, S
    <3>3. end[WriterOf(d)].upload = Ratios(d)
      BY <3>2, Zenon DEF IInv, Bonded
    <3>4. ToWrite(d) = Lens(d, Length(d))
      BY <3>3, Zenon DEF ToWrite, Lens
    <3> QED BY <3>2, <3>4, LensFacts, ZenonT(120)
  <2>4. ASSUME NEW d \in Dirs, Reads(d), reader[d].next <= N PROVE ToRead(d) \in [Members -> Nat]
    <3>1. end[ReaderOf(d)].download = Ratios(d)
      BY <2>4, Zenon DEF IInv, Bonded, Reads
    <3>2. reader[d].size \in Nat
      BY DirFacts, Zenon
    <3>3. ToRead(d) = Lens(d, reader[d].size)
      BY <3>1, ZenonT(120) DEF ToRead, Lens
    <3> QED BY <3>2, <3>3, LensFacts, ZenonT(120)
  <2> QED BY <2>1, <2>2, <2>3, <2>4, ZenonT(120) DEF TypeOK
<1> QED BY <1>1, SpecIInv, PTL

(* What Read returns is what the other end's Write took, in order and      *)
(* without a gap, over any number of connections, with any ratios, for any *)
(* lengths that a header can carry and any order of arrival.               *)
THEOREM StreamStaysIntact == Spec => []StreamIntact
<1>1. IInv => StreamIntact
  <2> SUFFICES ASSUME IInv, NEW d \in Dirs, NEW k \in DOMAIN reader[d].got
               PROVE  \/ reader[d].got[k] = Byte(k) /\ k <= Sum(writer[d].sizes)
                      \/ reader[d].got[k] = Unfilled /\ reader[d].ended /\ \E i \in Members : ~ link[i]
    BY ZenonT(120) DEF StreamIntact
  <2>1. k \in 1 .. Len(reader[d].got)
    BY DirFacts
  <2>2. CASE reader[d].ended
    <3>1. Right(d)
      BY <2>2, Zenon DEF IInv, StreamInv
    <3> QED BY <2>1, <2>2, <3>1, ZenonT(120) DEF Right, S
  <2>3. CASE ~ reader[d].ended
    <3>1. \A j \in 1 .. Len(reader[d].got) : reader[d].got[j] = Byte(j) /\ j <= Sum(S(d))
      BY <2>3, FlowFacts, ZenonT(120)
    <3> QED BY <2>1, <3>1, Zenon DEF S
  <2> QED BY <2>2, <2>3, Zenon
<1> QED BY <1>1, SpecIInv, PTL

(* The callback of the cache finds the connections of a bond in no map:    *)
(* connHandler has emptied the map under the lock of the UUID, or the      *)
(* callback ran before the last connection was handled and the bond does   *)
(* not come about.                                                         *)
THEOREM EvictionStaysOff == Spec => []EvictionSparesBond
<1>1. IInv => EvictionSparesBond
  BY Zenon DEF IInv, Gathered, EvictionSparesBond
<1> QED BY <1>1, SpecIInv, PTL
=============================================================================
