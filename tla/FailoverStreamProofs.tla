------------------------ MODULE FailoverStreamProofs ------------------------
(***************************************************************************)
(* The stream of a failover session is intact, for every BufferSize, every *)
(* IndexSpace and every index the session may have when the run begins,    *)
(* and any number of connections.                                          *)
(*                                                                         *)
(* StreamIntact speaks of what has been read.  The invariant adds where    *)
(* the frames that have not been read are: the frames under way to a side  *)
(* are the ones it reads next (Lane), and what the ring of a side holds    *)
(* for an index is the frame last written with that slot (Ring).           *)
(***************************************************************************)
EXTENDS FailoverStream, SequenceTheorems, TLAPS

(* What a leaf is tried with that names no prover of its own. *)
USE SMT, Zenon, Z3T(40), SMTT(40), ZenonT(120)

Units2 == Nat \X Nat

Link == [up : BOOLEAN, to : [Sides -> Seq(Nat)], index : [Sides -> Seq(Nat)]]

FailoverConn ==
  [phase : {"up", "down", "restore", "over"}, conn : Nat, next : Nat,
   readIndex : Nat, readBuffer : Seq(Units2), writeIndex : Nat,
   writeBuffers : [0 .. BufferSize - 1 -> Nat],
   err : {"none", "EOF", "notfound", "broken", "expired"}, closed : BOOLEAN]

Types ==
  /\ links \in Seq(Link)
  /\ end \in [Sides -> FailoverConn]
  /\ got \in [Sides -> Seq(Units2)]
  /\ spoilt \in BOOLEAN

W(s) == end[s].writeIndex
R(s) == end[s].readIndex

Slot(n) == Index(n) % BufferSize

(* The frame that side s wrote n-th, counted from 0. *)
FrameAt(s, n) ==
  IF n = W(s) - 1 /\ end[s].writeBuffers[Slot(n)] = Closing THEN Closing ELSE n + 1

(* The ring holds the frames whose slot has not been used again. *)
Ring(s) ==
  \A n \in 0 .. W(s) - 1 :
    (\A m \in n + 1 .. W(s) - 1 : Slot(m) # Slot(n))
      => end[s].writeBuffers[Slot(n)] = FrameAt(s, n)

(* The empty frame is the last frame, and only Close writes it. *)
WriteInv(s) ==
  /\ end[s].closed => end[s].err # "none" /\ W(s) <= MaxFrames + 1
  /\ ~ end[s].closed => W(s) <= MaxFrames /\ (W(s) > 0 => FrameAt(s, W(s) - 1) # Closing)
  /\ Ring(s)

(* A side moves on to newer connections only. *)
ConnInv(s) ==
  /\ end[s].conn \in 1 .. Len(links)
  /\ end[s].next \in 0 .. Len(links)
  /\ end[s].next # 0 => end[s].conn <= end[s].next
  /\ end[s].next = 0 => end[s].conn = 1
  /\ end[s].phase = "restore" => end[s].conn < end[s].next

(* The client is not on a connection the server has not accepted. *)
Met == end["client"].conn = 1 \/ end["client"].conn <= end["server"].next

(* A connection carries nothing to a side before its peer has moved on to  *)
(* it, and no index of a side that does not know it.                       *)
LinkInv(k, s) ==
  /\ links[k].index[s] # << >> => k <= end[s].next
  /\ end[Peer(s)].conn < k => links[k].to[s] = << >>

Structure ==
  /\ Types
  /\ \A s \in Sides : WriteInv(s) /\ ConnInv(s)
  /\ Met
  /\ \A s \in Sides : \A k \in 1 .. Len(links) : LinkInv(k, s)

(* Side s has read all that its peer wrote before the empty frame. *)
Ended(s) ==
  /\ end[Peer(s)].closed
  /\ R(s) = W(Peer(s)) - 1
  /\ FrameAt(Peer(s), R(s)) = Closing

(* The unit that is read i-th, counted from 1. *)
UnitAt(i) == <<(i + 1) \div 2, 2 - (i % 2)>>

(* What side s has read. *)
Flow(s) ==
  /\ R(s) <= W(Peer(s))
  /\ end[s].readBuffer = << >>
  /\ Len(got[s]) = 2 * R(s)
  /\ \A i \in 1 .. Len(got[s]) : got[s][i] = UnitAt(i)
  /\ end[s].err = "EOF" /\ ~ end[s].closed => Ended(s)

(* Side s reads from connection k, or will when it is restored. *)
Live(s, k) ==
  \/ end[s].phase = "up" /\ end[s].conn = k
  \/ end[s].phase = "restore" /\ end[s].next = k

(* What side s will read from connection k.  If the connection is up, that *)
(* is all the peer has written; before the peer has moved on to it, the    *)
(* index that it was told is where s is.                                   *)
Lane(s, k) ==
  Live(s, k) =>
    /\ R(s) + Len(links[k].to[s]) <= W(Peer(s))
    /\ \A i \in 1 .. Len(links[k].to[s]) : links[k].to[s][i] = FrameAt(Peer(s), R(s) + i - 1)
    /\ end[Peer(s)].conn = k /\ links[k].up => R(s) + Len(links[k].to[s]) = W(Peer(s))
    /\ end[Peer(s)].conn < k => links[k].index[s] = <<Index(R(s))>>

Stream == \A s \in Sides : Flow(s) /\ \A k \in 1 .. Len(links) : Lane(s, k)

IInv == Structure /\ (~ spoilt => Stream)

LEMMA PeerFacts ==
  ASSUME NEW s \in Sides
  PROVE  Peer(s) \in Sides /\ Peer(s) # s /\ Peer(Peer(s)) = s /\ \A t \in Sides : t = s \/ t = Peer(s)
  BY DEF Sides, Peer

-----------------------------------------------------------------------------
(* Indexes and slots. *)

(* What % and \div compute. *)
LEMMA ModDef ==
  \A a \in Int, b \in Nat \ {0} :
    a % b \in 0 .. b - 1 /\ a \div b \in Int /\ a = b * (a \div b) + (a % b)
  OBVIOUS

(* The only multiple of b between -b and b is zero. *)
LEMMA Multiple == \A b \in Nat \ {0}, k \in Int : (b * k < b /\ - b < b * k) => k = 0
  OBVIOUS

LEMMA ModUnique ==
  ASSUME NEW b \in Nat \ {0}, NEW a \in Int, NEW q \in Int, NEW x \in 0 .. b - 1, a = b * q + x
  PROVE  a % b = x
<1>1. a % b \in 0 .. b - 1 /\ a = b * (a \div b) + (a % b) /\ a \div b \in Int
  BY ModDef, Zenon
<1>2. b * (q - (a \div b)) = b * q - b * (a \div b)
  BY <1>1
<1>3. q - (a \div b) = 0
  BY <1>1, <1>2, Multiple
<1> QED BY <1>1, <1>3

(* Numbers with the same rest differ by a multiple. *)
LEMMA SameResidue ==
  ASSUME NEW b \in Nat \ {0}, NEW a \in Int, NEW c \in Int, a % b = c % b
  PROVE  \E k \in Int : a - c = b * k
<1>1. a = b * (a \div b) + (a % b) /\ a \div b \in Int
  BY ModDef
<1>2. c = b * (c \div b) + (c % b) /\ c \div b \in Int
  BY ModDef
<1>3. a % b \in Int
  BY ModDef
<1>4. b * ((a \div b) - (c \div b)) = b * (a \div b) - b * (c \div b)
  BY <1>1, <1>2
<1>5. a - c = b * ((a \div b) - (c \div b))
  BY <1>1, <1>2, <1>3, <1>4
<1>6. (a \div b) - (c \div b) \in Int
  BY <1>1, <1>2
<1> QED BY <1>5, <1>6, Zenon

(* In a run the indexes wrap once. *)
LEMMA IndexIs ==
  ASSUME NEW n \in 0 .. IndexSpace
  PROVE  Index(n) = IF Start + n < IndexSpace THEN Start + n
                                                     ELSE Start + n - IndexSpace
<1>1. CASE Start + n < IndexSpace
  <2>1. Start + n = IndexSpace * 0 + (Start + n) /\ Start + n \in 0 .. IndexSpace - 1
    BY <1>1, StreamAssumption
  <2> QED BY <2>1, ModUnique, StreamAssumption DEF Index
<1>2. CASE Start + n >= IndexSpace
  <2>1. Start + n = IndexSpace * 1 + (Start + n - IndexSpace) /\ Start + n - IndexSpace \in 0 .. IndexSpace - 1
    BY <1>2, StreamAssumption
  <2> QED BY <2>1, <1>2, ModUnique, StreamAssumption DEF Index
<1> QED BY <1>1, <1>2, StreamAssumption

(* The difference of two indexes is that of the counts. *)
LEMMA GapIs ==
  ASSUME NEW w \in 0 .. MaxFrames + 1, NEW r \in 0 .. w
  PROVE  (Index(w) - Index(r)) % IndexSpace = w - r
<1>0. w \in 0 .. IndexSpace /\ r \in 0 .. IndexSpace
  BY StreamAssumption
<1>1. Index(w) - Index(r) \in {w - r, w - r - IndexSpace}
  BY StreamAssumption, <1>0, IndexIs
<1>2. w - r \in 0 .. IndexSpace - 1 /\ Index(w) - Index(r) \in Int
  BY StreamAssumption, <1>1
<1>3. CASE Index(w) - Index(r) = w - r
  <2>1. w - r = IndexSpace * 0 + (w - r)
    BY StreamAssumption
  <2> QED BY <1>2, <1>3, <2>1, ModUnique, StreamAssumption
<1>4. CASE Index(w) - Index(r) = w - r - IndexSpace
  <2>1. w - r - IndexSpace = IndexSpace * (-1) + (w - r)
    BY StreamAssumption
  <2> QED BY <1>2, <1>4, <2>1, ModUnique, StreamAssumption
<1> QED BY <1>1, <1>3, <1>4

(* Counting an index up counts the frames. *)
LEMMA IndexPlus ==
  ASSUME NEW r \in 0 .. MaxFrames + 1, NEW j \in Nat, r + j <= MaxFrames + 1
  PROVE  (Index(r) + j) % IndexSpace = Index(r + j)
<1>0. r \in 0 .. IndexSpace /\ r + j \in 0 .. IndexSpace
  BY StreamAssumption
<1>1. Index(r + j) \in 0 .. IndexSpace - 1 /\ Index(r) \in 0 .. IndexSpace - 1
  BY StreamAssumption, <1>0, IndexIs
<1>2. \/ Index(r) + j = IndexSpace * 0 + Index(r + j)
      \/ Index(r) + j = IndexSpace * 1 + Index(r + j)
  BY StreamAssumption, <1>0, IndexIs
<1>3. Index(r) + j \in Int /\ IndexSpace \in Nat \ {0}
  BY <1>1, StreamAssumption
<1>4. CASE Index(r) + j = IndexSpace * 0 + Index(r + j)
  BY <1>1, <1>3, <1>4, ModUnique
<1>5. CASE Index(r) + j = IndexSpace * 1 + Index(r + j)
  <2>1. 1 \in Int
    BY ONLY TRUE
  <2> QED BY <1>1, <1>3, <1>5, <2>1, ModUnique, Zenon
<1> QED BY <1>2, <1>4, <1>5

LEMMA IndexIsNat == \A n \in Nat : Index(n) \in Nat
<1> SUFFICES ASSUME NEW n \in Nat PROVE Index(n) \in Nat
  OBVIOUS
<1>1. Start + n \in Int /\ IndexSpace \in Nat \ {0}
  BY StreamAssumption
<1> QED BY <1>1, ModDef DEF Index

LEMMA SlotIsSlot == \A i \in Nat : i % BufferSize \in 0 .. BufferSize - 1
  BY ModDef, StreamAssumption

(* The frames that RestoreConn writes again, from r on, have slots of      *)
(* their own: r is at most BufferSize behind, and where the ring shifts at *)
(* the wrap, less.                                                         *)
LEMMA NoClash ==
  ASSUME NEW w \in 0 .. MaxFrames + 1, NEW r \in 0 .. w, w - r <= BufferSize,
         Index(r) > Index(w) /\ Index(w) # 0 /\ IndexSpace % BufferSize # 0
           => w - r <= IndexSpace % BufferSize,
         NEW n \in r .. w - 1, NEW m \in n + 1 .. w - 1
  PROVE  Slot(m) # Slot(n)
<1> SUFFICES ASSUME Slot(m) = Slot(n) PROVE FALSE
  OBVIOUS
<1>1. {w, r, n, m} \subseteq 0 .. IndexSpace
  BY StreamAssumption
<1>2. Index(w) \in Int /\ Index(n) \in Int /\ Index(m) \in Int
  BY StreamAssumption, <1>1, IndexIs
<1>3. PICK k \in Int : Index(m) - Index(n) = BufferSize * k
  BY <1>2, SameResidue, StreamAssumption, Zenon DEF Slot
<1>4. CASE Index(m) - Index(n) = m - n
  <2>1. k = 0
    BY <1>3, <1>4, Multiple, StreamAssumption
  <2> QED BY <1>3, <1>4, <2>1, StreamAssumption
<1>5. CASE Index(m) - Index(n) # m - n
  <2> DEFINE rest == IndexSpace % BufferSize
             q == IndexSpace \div BufferSize
  <2>1. /\ Index(m) - Index(n) = m - n - IndexSpace
        /\ Index(r) > Index(w) /\ Index(w) # 0
    BY <1>1, <1>5, StreamAssumption, IndexIs
  <2>2. rest \in 0 .. BufferSize - 1 /\ q \in Int /\ IndexSpace = BufferSize * q + rest
    BY ModDef, StreamAssumption
  <2>3. w - r <= rest \/ rest = 0
    BY <2>1
  <2> HIDE DEF rest, q
  <2>4. m - n - rest = BufferSize * k + BufferSize * q
    BY <2>1, <2>2, <1>3, StreamAssumption
  <2>5. BufferSize * (k + q) = BufferSize * k + BufferSize * q /\ k + q \in Int
    BY <2>2, StreamAssumption
  <2>6. k + q = 0
    BY <2>2, <2>4, <2>5, Multiple, StreamAssumption
  <2>7. m - n = rest
    BY <2>2, <2>4, <2>5, <2>6, StreamAssumption
  <2> QED BY <2>3, <2>7
<1> QED BY <1>4, <1>5

-----------------------------------------------------------------------------
(* Steps that write nothing. *)

LEMMA Typed ==
  ASSUME Types, NEW s \in Sides
  PROVE  /\ end[s] \in FailoverConn
         /\ W(s) \in Nat /\ R(s) \in Nat /\ end[s].conn \in Nat /\ end[s].next \in Nat
         /\ end[s].writeBuffers \in [0 .. BufferSize - 1 -> Nat]
         /\ end[s].readBuffer \in Seq(Units2)
         /\ got[s] \in Seq(Units2)
  BY DEF Types, FailoverConn, W, R

LEMMA LinkTyped ==
  ASSUME NEW ls \in Seq(Link), NEW k \in 1 .. Len(ls)
  PROVE  /\ ls[k] \in Link
         /\ ls[k].up \in BOOLEAN
         /\ ls[k].to \in [Sides -> Seq(Nat)]
         /\ ls[k].index \in [Sides -> Seq(Nat)]
         /\ \A s \in Sides : /\ ls[k].to[s] \in Seq(Nat)
                             /\ ls[k].index[s] \in Seq(Nat)
                             /\ Len(ls[k].to[s]) \in Nat
<1>1. ls[k] \in Link
  OBVIOUS
<1>2. ls[k].up \in BOOLEAN
  BY <1>1, Zenon DEF Link
<1>3. ls[k].to \in [Sides -> Seq(Nat)] /\ ls[k].index \in [Sides -> Seq(Nat)]
  BY <1>1 DEF Link
<1>4. \A s \in Sides : ls[k].to[s] \in Seq(Nat) /\ ls[k].index[s] \in Seq(Nat)
  BY <1>3
<1> QED BY <1>1, <1>2, <1>3, <1>4

LEMMA WithinLonger == \A m, n \in Nat : m <= n => \A i \in 1 .. m : i \in 1 .. n
  OBVIOUS

LEMMA LessBelow == \A a, b, c, d \in Nat : a + b <= c /\ d <= b => a + d <= c
  OBVIOUS

(* What side s has written is the same after the step. *)
SameFrames(s) == W(s)' = W(s) /\ (end[s].writeBuffers)' = end[s].writeBuffers

LEMMA FramesKept ==
  ASSUME NEW s, SameFrames(s)
  PROVE  \A n : FrameAt(s, n)' = FrameAt(s, n)
  BY DEF SameFrames, FrameAt, W

LEMMA WriteInvKept ==
  ASSUME NEW s \in Sides, WriteInv(s), SameFrames(s), Types, MaxFrames \in Nat,
         end[s].closed => (end[s].closed)', (end[s].closed)' => (end[s].err)' # "none"
  PROVE  WriteInv(s)'
<1>1. W(s) \in Nat
  BY Typed
<1>2. Ring(s)'
  <2>1. Ring(s)
    BY DEF WriteInv
  <2> QED BY <2>1, FramesKept DEF Ring, SameFrames
<1>3. W(s)' = W(s) /\ FrameAt(s, W(s) - 1)' = FrameAt(s, W(s) - 1)
  BY FramesKept DEF SameFrames
<1>4. W(s) <= MaxFrames + 1
  BY <1>1 DEF WriteInv
<1> QED BY <1>1, <1>2, <1>3, <1>4 DEF WriteInv

(* The step leaves conn and next of side s alone and begins no RestoreConn. *)
Stays(s) ==
  /\ (end[s].conn)' = end[s].conn
  /\ (end[s].next)' = end[s].next
  /\ (end[s].phase)' \in {end[s].phase, "down", "over"}

(* The step puts nothing into a connection. *)
NothingSent ==
  /\ Len(links)' = Len(links)
  /\ \A k \in 1 .. Len(links) :
       /\ (links[k].index)' = links[k].index
       /\ \A s \in Sides : Len(links[k].to[s])' <= Len(links[k].to[s])

LEMMA StructureKept ==
  ASSUME Structure, Types', NothingSent,
         \A s \in Sides : /\ SameFrames(s) /\ Stays(s)
                          /\ end[s].closed => (end[s].closed)'
                          /\ (end[s].closed)' => (end[s].err)' # "none"
  PROVE  Structure'
<1>1. ASSUME NEW s \in Sides PROVE WriteInv(s)' /\ ConnInv(s)'
  <2>1. WriteInv(s)'
    BY WriteInvKept, StreamAssumption DEF Structure
  <2>2. ConnInv(s)'
    BY DEF Structure, ConnInv, Stays, NothingSent
  <2> QED BY <2>1, <2>2
<1>2. Met'
  BY DEF Structure, Met, Stays, Sides
<1>3. ASSUME NEW s \in Sides, NEW k \in 1 .. Len(links)
      PROVE  LinkInv(k, s)'
  <2>1. LinkInv(k, s) /\ Peer(s) \in Sides
    BY PeerFacts DEF Structure
  <2>2. (links[k].index[s])' = links[k].index[s] /\ (end[s].next)' = end[s].next
    BY DEF NothingSent, Stays
  <2>3. (end[Peer(s)].conn)' = end[Peer(s)].conn
    BY <2>1 DEF Stays
  <2>4. links[k].to[s] = << >> => (links[k].to[s])' = << >>
    <3>1. links[k].to[s] \in Seq(Nat) /\ (links[k].to[s])' \in Seq(Nat)
      BY LinkTyped DEF Structure, NothingSent, Types
    <3>2. Len(links[k].to[s])' <= Len(links[k].to[s])
      BY DEF NothingSent
    <3> QED BY <3>1, <3>2
  <2> QED BY <2>1, <2>2, <2>3, <2>4 DEF LinkInv
<1>4. Len(links)' = Len(links)
  BY DEF NothingSent
<1> QED BY <1>1, <1>2, <1>3, <1>4 DEF Structure

(* What is under way over a connection may be lost from the end, once the  *)
(* connection is down.                                                     *)
Prefixes(to, all) ==
  \A s \in Sides : Len(to[s]) <= Len(all[s]) /\ \A i \in 1 .. Len(to[s]) : to[s][i] = all[s][i]

Fades(l, m) ==
  /\ m.index = l.index
  /\ m.up => l.up /\ m.to = l.to
  /\ Prefixes(m.to, l.to)

AllFade(ls) ==
  /\ ls \in Seq(Link)
  /\ Len(ls) = Len(links)
  /\ \A k \in 1 .. Len(links) : Fades(links[k], ls[k])

(* A step that writes and returns nothing. *)
LEMMA LossStep ==
  ASSUME IInv, Types', UNCHANGED got, ~ spoilt' => ~ spoilt,
         AllFade(links'),
         \A s \in Sides : /\ SameFrames(s) /\ Stays(s) /\ R(s)' = R(s)
                          /\ end[s].closed => (end[s].closed)'
                          /\ (end[s].closed)' => (end[s].err)' # "none"
                          /\ ~ spoilt' => /\ (end[s].readBuffer)' = end[s].readBuffer
                                          /\ (end[s].err)' = "EOF" /\ ~ (end[s].closed)' => Ended(s)
  PROVE  IInv'
<1>1. Structure'
  <2>1. NothingSent
    BY DEF NothingSent, AllFade, Fades, Prefixes
  <2> QED BY <2>1, StructureKept DEF IInv
<1>2. ASSUME ~ spoilt', NEW s \in Sides
      PROVE  Flow(s)' /\ \A k \in 1 .. Len(links) : Lane(s, k)'
  <2> DEFINE p == Peer(s)
  <2>1. p \in Sides
    BY PeerFacts
  <2>2. Flow(s) /\ \A k \in 1 .. Len(links) : Lane(s, k)
    BY <1>2 DEF IInv, Stream
  <2>3. /\ R(s)' = R(s) /\ W(p)' = W(p)
        /\ \A n : FrameAt(p, n)' = FrameAt(p, n)
        /\ end[p].closed => (end[p].closed)'
        /\ (end[p].conn)' = end[p].conn
    BY <2>1, FramesKept DEF SameFrames, Stays
  <2>4. Flow(s)'
    BY <2>2, <2>3, <1>2 DEF Flow, Ended
  <2>5. ASSUME NEW k \in 1 .. Len(links)
        PROVE  Lane(s, k)'
    <3> SUFFICES ASSUME Live(s, k)' PROVE Lane(s, k)'
      BY DEF Lane
    <3>1. Live(s, k)
      BY DEF Live, Stays
    <3>2. /\ R(s) + Len(links[k].to[s]) <= W(p)
          /\ \A i \in 1 .. Len(links[k].to[s]) : links[k].to[s][i] = FrameAt(p, R(s) + i - 1)
          /\ end[p].conn = k /\ links[k].up => R(s) + Len(links[k].to[s]) = W(p)
          /\ end[p].conn < k => links[k].index[s] = <<Index(R(s))>>
      BY <3>1, <2>2, Zenon DEF Lane
    <3>3. /\ (links[k].index[s])' = links[k].index[s]
          /\ (links[k].up)' => links[k].up /\ (links[k].to[s])' = links[k].to[s]
          /\ Len(links[k].to[s])' <= Len(links[k].to[s])
          /\ \A i \in 1 .. Len(links[k].to[s])' : (links[k].to[s][i])' = links[k].to[s][i]
      BY DEF AllFade, Fades, Prefixes
    <3>4. /\ R(s) \in Nat /\ W(p) \in Nat
          /\ Len(links[k].to[s]) \in Nat /\ Len(links[k].to[s])' \in Nat
      <4>1. links[k].to[s] \in Seq(Nat) /\ (links[k].to[s])' \in Seq(Nat)
        BY LinkTyped DEF IInv, Structure, Types, AllFade
      <4>2. Types
        BY Zenon DEF IInv, Structure
      <4>3. R(s) \in Nat /\ W(p) \in Nat
        BY <4>2, <2>1, Typed, Zenon
      <4>4. Len(links[k].to[s]) \in Nat /\ Len((links[k].to[s])') \in Nat
        BY <4>1, LenProperties, Zenon
      <4> QED BY <4>3, <4>4
    <3> HIDE DEF p
    <3>5. (R(s) + Len(links[k].to[s]) <= W(p))'
      <4>1. R(s) + Len(links[k].to[s]) <= W(p) /\ Len(links[k].to[s])' <= Len(links[k].to[s])
        BY <3>2, <3>3, Zenon
      <4>2. R(s) + Len(links[k].to[s])' <= W(p)
        BY <4>1, <3>4, LessBelow, Zenon
      <4> QED BY <4>2, <2>3, Zenon
    <3>6. ASSUME NEW i \in 1 .. Len(links[k].to[s])'
          PROVE  (links[k].to[s][i])' = FrameAt(p, R(s) + i - 1)'
      <4>1. i \in 1 .. Len(links[k].to[s])
        <5>1. Len(links[k].to[s])' <= Len(links[k].to[s])
          BY <3>3, Zenon
        <5>2. PICK m \in Nat, l \in Nat : m = Len(links[k].to[s])' /\ l = Len(links[k].to[s])
          BY <3>4, Zenon
        <5>3. m <= l /\ i \in 1 .. m
          BY <5>1, <5>2, Zenon
        <5>4. i \in 1 .. l
          BY <5>3, WithinLonger, Zenon
        <5> QED BY <5>2, <5>4, Zenon
      <4>2. (links[k].to[s][i])' = FrameAt(p, R(s) + i - 1)
        BY <4>1, <3>2, <3>3, Zenon
      <4> QED BY <4>2, <2>3, Zenon
    <3>7. (end[p].conn = k /\ links[k].up => R(s) + Len(links[k].to[s]) = W(p))'
      BY <3>2, <3>3, <2>3
    <3>8. (end[p].conn < k => links[k].index[s] = <<Index(R(s))>>)'
      BY <3>2, <3>3, <2>3
    <3> QED BY <3>5, <3>6, <3>7, <3>8 DEF Lane, p
  <2> QED BY <2>4, <2>5
<1>3. Len(links)' = Len(links)
  BY DEF AllFade
<1> QED BY <1>1, <1>2, <1>3 DEF IInv, Stream

LEMMA EndChanged ==
  ASSUME Types, NEW s \in Sides, NEW e \in FailoverConn, end' = [end EXCEPT ![s] = e]
  PROVE  /\ end' \in [Sides -> FailoverConn]
         /\ end'[s] = e
         /\ \A t \in Sides : t # s => end'[t] = end[t]
  BY DEF Types

(* The same for a step of side s, whose failoverConn becomes e. *)
LEMMA LossAt ==
  ASSUME IInv, UNCHANGED got, spoilt' \in BOOLEAN, ~ spoilt' => ~ spoilt,
         AllFade(links'),
         NEW s \in Sides, NEW e \in FailoverConn, end' = [end EXCEPT ![s] = e],
         e.writeIndex = W(s), e.writeBuffers = end[s].writeBuffers, e.readIndex = R(s),
         e.conn = end[s].conn, e.next = end[s].next, e.phase \in {end[s].phase, "down", "over"},
         end[s].closed => e.closed, e.closed => e.err # "none",
         ~ spoilt' => e.readBuffer = end[s].readBuffer,
         ~ spoilt' /\ e.err = "EOF" /\ ~ e.closed => Ended(s)
  PROVE  IInv'
<1>1. Types
  BY DEF IInv, Structure
<1>2. end' \in [Sides -> FailoverConn] /\ end'[s] = e /\ \A t \in Sides : t # s => end'[t] = end[t]
  BY <1>1, EndChanged, Zenon
<1>3. Types'
  BY <1>1, <1>2 DEF Types, AllFade
<1>4. ASSUME NEW t \in Sides
      PROVE  /\ SameFrames(t) /\ Stays(t) /\ R(t)' = R(t)
             /\ end[t].closed => (end[t].closed)'
             /\ (end[t].closed)' => (end[t].err)' # "none"
             /\ ~ spoilt' => /\ (end[t].readBuffer)' = end[t].readBuffer
                             /\ (end[t].err)' = "EOF" /\ ~ (end[t].closed)' => Ended(t)
  <2>1. CASE t = s
    BY <2>1, <1>2 DEF SameFrames, Stays, W, R
  <2>2. CASE t # s
    <3>1. end'[t] = end[t]
      BY <2>2, <1>2
    <3>2. end[t].closed => end[t].err # "none"
      BY DEF IInv, Structure, WriteInv
    <3>3. ~ spoilt' /\ end[t].err = "EOF" /\ ~ end[t].closed => Ended(t)
      BY DEF IInv, Stream, Flow
    <3> QED BY <3>1, <3>2, <3>3 DEF SameFrames, Stays, W, R
  <2> QED BY <2>1, <2>2
<1> QED BY <1>3, <1>4, LossStep

(* c.err and Close, in a state of the invariant. *)
LEMMA ErrFacts ==
  ASSUME IInv, NEW s \in Sides
  PROVE  /\ end[s].closed => end[s].err # "none"
         /\ ~ spoilt /\ end[s].err = "EOF" /\ ~ end[s].closed => Ended(s)
         /\ spoilt \in BOOLEAN
<1>1. end[s].closed => end[s].err # "none"
  BY DEF IInv, Structure, WriteInv
<1>2. ~ spoilt /\ end[s].err = "EOF" /\ ~ end[s].closed => Ended(s)
  BY DEF IInv, Stream, Flow
<1>3. spoilt \in BOOLEAN
  BY Zenon DEF IInv, Structure, Types
<1> QED BY <1>1, <1>2, <1>3

LEMMA FadesItself == ASSUME IInv PROVE AllFade(links)
<1>1. links \in Seq(Link)
  BY DEF IInv, Structure, Types
<1>2. \A k \in 1 .. Len(links) : \A s \in Sides : Len(links[k].to[s]) \in Nat
  BY <1>1, LinkTyped
<1> QED BY <1>1, <1>2 DEF AllFade, Fades, Prefixes

LEMMA LinkReplaced ==
  ASSUME NEW ls \in Seq(Link), NEW k \in 1 .. Len(ls), NEW m \in Link, NEW ms, ms = [ls EXCEPT ![k] = m]
  PROVE  /\ ms \in Seq(Link) /\ Len(ms) = Len(ls) /\ ms[k] = m
         /\ \A j \in 1 .. Len(ls) : j # k => ms[j] = ls[j]
  OBVIOUS

(* A connection that goes down. *)
LEMMA OneFades ==
  ASSUME IInv, NEW k \in 1 .. Len(links), NEW to \in [Sides -> Seq(Nat)], Prefixes(to, links[k].to)
  PROVE  AllFade([links EXCEPT ![k] = [links[k] EXCEPT !.up = FALSE, !.to = to]])
<1>1. links \in Seq(Link) /\ links[k] \in Link /\ \A j \in 1 .. Len(links) : Fades(links[j], links[j])
  BY FadesItself, LinkTyped DEF AllFade
<1>2. PICK m \in Link : m = [links[k] EXCEPT !.up = FALSE, !.to = to]
  BY <1>1, Zenon DEF Link
<1>3. PICK ls : ls = [links EXCEPT ![k] = m]
  BY Zenon
<1>4. /\ ls \in Seq(Link) /\ Len(ls) = Len(links) /\ ls[k] = m
      /\ \A j \in 1 .. Len(links) : j # k => ls[j] = links[j]
  BY <1>1, <1>3, LinkReplaced
<1>5. m.up = FALSE /\ m.index = links[k].index /\ m.to = to
  BY <1>1, <1>2, Zenon DEF Link
<1>6. Fades(links[k], m)
  BY <1>5, Zenon DEF Fades
<1>7. AllFade(ls)
  BY <1>1, <1>4, <1>6 DEF AllFade
<1> QED BY <1>2, <1>3, <1>7, Zenon

LEMMA ClosedByFades ==
  ASSUME IInv, NEW s \in Sides
  PROVE  AllFade(ClosedBy(s, links))
<1>1. PICK k \in 1 .. Len(links) : k = end[s].conn
  BY DEF IInv, Structure, ConnInv
<1>2. links \in Seq(Link) /\ links[k] \in Link /\ links[k].to \in [Sides -> Seq(Nat)]
  BY FadesItself, LinkTyped DEF AllFade
<1>3. << >> \in Seq(Nat) /\ Len(<< >>) = 0
  OBVIOUS
<1>4. PICK to \in [Sides -> Seq(Nat)] : to = [links[k].to EXCEPT ![s] = << >>]
  BY <1>2, <1>3, Zenon
<1>5. ClosedBy(s, links) = [links EXCEPT ![k] = [links[k] EXCEPT !.up = FALSE, !.to = to]]
  BY <1>1, <1>2, <1>4, Zenon DEF ClosedBy, Link
<1>6. ASSUME NEW t \in Sides
      PROVE  Len(to[t]) <= Len(links[k].to[t]) /\ \A i \in 1 .. Len(to[t]) : to[t][i] = links[k].to[t][i]
  <2>1. links[k].to[t] \in Seq(Nat)
    BY <1>2
  <2>2. CASE t = s
    BY <1>2, <1>3, <1>4, <2>1, <2>2
  <2>3. CASE t # s
    <3>1. to[t] = links[k].to[t]
      BY <1>2, <1>4, <2>3
    <3> QED BY <2>1, <3>1
  <2> QED BY <2>2, <2>3
<1>7. Prefixes(to, links[k].to)
  BY <1>6, Zenon DEF Prefixes
<1> QED BY <1>5, <1>7, OneFades, Zenon

LEMMA BrokenFades ==
  ASSUME IInv, NEW k \in 1 .. Len(links),
         NEW c \in 0 .. Len(links[k].to["client"]), NEW v \in 0 .. Len(links[k].to["server"])
  PROVE  AllFade(Broken(k, c, v))
<1>1. links \in Seq(Link) /\ links[k] \in Link /\ links[k].to \in [Sides -> Seq(Nat)]
  BY FadesItself, LinkTyped DEF AllFade
<1> DEFINE n(s) == IF s = "client" THEN c ELSE v
           to == [s \in Sides |-> SubSeq(links[k].to[s], 1, n(s))]
<1>2. \A s \in Sides : n(s) \in 0 .. Len(links[k].to[s])
  BY <1>1 DEF Sides
<1>3. ASSUME NEW s \in Sides
      PROVE  /\ to[s] \in Seq(Nat)
             /\ Len(to[s]) <= Len(links[k].to[s])
             /\ \A i \in 1 .. Len(to[s]) : to[s][i] = links[k].to[s][i]
  <2>1. PICK q \in Seq(Nat) : q = links[k].to[s]
    BY <1>1
  <2>2. n(s) \in 0 .. Len(q) /\ Len(q) \in Nat
    BY <1>2, <2>1
  <2>3. to[s] = SubSeq(q, 1, n(s))
    BY <2>1
  <2> HIDE DEF to, n
  <2>4. \A i \in 1 .. n(s) : q[i] \in Nat
    <3>1. \A i \in 1 .. Len(q) : q[i] \in Nat
      OBVIOUS
    <3> QED BY <2>2, <3>1
  <2>5. /\ to[s] \in Seq(Nat)
        /\ Len(to[s]) = n(s)
        /\ \A i \in 1 .. n(s) : to[s][i] = q[i]
    BY <2>2, <2>3, <2>4, SubSeqProperties
  <2> QED BY <2>1, <2>2, <2>5
<1>4. to \in [Sides -> Seq(Nat)]
  BY <1>3
<1>5. Broken(k, c, v) = [links EXCEPT ![k] = [links[k] EXCEPT !.up = FALSE, !.to = to]]
  BY <1>1, Zenon DEF Broken
<1> HIDE DEF to
<1>6. Prefixes(to, links[k].to)
  BY <1>3, Zenon DEF Prefixes
<1> QED BY <1>4, <1>5, <1>6, OneFades, Zenon

LEMMA CutStep == ASSUME IInv, NEW k \in 1 .. Len(links), Cut(k) PROVE IInv'
<1>1. PICK c \in 0 .. Len(links[k].to["client"]), v \in 0 .. Len(links[k].to["server"]) :
        links' = Broken(k, c, v)
  BY DEF Cut
<1>2. end' = end /\ got' = got /\ spoilt' = spoilt
  BY DEF Cut
<1>3. PICK e \in FailoverConn : e = end["client"]
  BY DEF IInv, Structure, Types, Sides
<1>4. end' = [end EXCEPT !["client"] = e]
  BY <1>2, <1>3 DEF IInv, Structure, Types
<1>5. "client" \in Sides
  BY DEF Sides
<1> QED BY <1>1, <1>2, <1>3, <1>4, <1>5, BrokenFades, ErrFacts, LossAt, Zenon DEF W, R

(* A step that changes phase and c.err of side s only. *)
LEMMA PhaseStep ==
  ASSUME IInv, UNCHANGED <<got, spoilt>>, AllFade(links'), NEW s \in Sides,
         NEW phase \in {end[s].phase, "down", "over"},
         NEW err \in {"none", "EOF", "notfound", "broken", "expired"},
         end' = [end EXCEPT ![s] = [end[s] EXCEPT !.phase = phase, !.err = err]],
         err = end[s].err \/ (err # "none" /\ (err = "EOF" /\ ~ spoilt => Ended(s)))
  PROVE  IInv'
<1>1. end[s] \in FailoverConn
  BY Typed DEF IInv, Structure
<1>2. phase \in {"up", "down", "restore", "over"}
  BY <1>1 DEF FailoverConn
<1>3. PICK e \in FailoverConn : e = [end[s] EXCEPT !.phase = phase, !.err = err]
  BY <1>1, <1>2, Zenon DEF FailoverConn
<1>4. /\ e.phase = phase /\ e.err = err /\ e.closed = end[s].closed
      /\ e.writeIndex = W(s) /\ e.writeBuffers = end[s].writeBuffers /\ e.readIndex = R(s)
      /\ e.conn = end[s].conn /\ e.next = end[s].next /\ e.readBuffer = end[s].readBuffer
  BY <1>1, <1>3, Zenon DEF FailoverConn, W, R
<1>5. end' = [end EXCEPT ![s] = e]
  BY <1>3, Zenon
<1>6. e.closed => e.err # "none"
  BY <1>4, ErrFacts, Zenon
<1>7. UNCHANGED got /\ spoilt' \in BOOLEAN /\ (~ spoilt' => ~ spoilt)
  BY ErrFacts
<1>8. ~ spoilt' /\ e.err = "EOF" /\ ~ e.closed => Ended(s)
  BY <1>4, <1>7, ErrFacts, Zenon
<1>9. /\ e.phase \in {end[s].phase, "down", "over"}
      /\ end[s].closed => e.closed
      /\ ~ spoilt' => e.readBuffer = end[s].readBuffer
  BY <1>4, Zenon
<1> QED BY <1>4, <1>5, <1>6, <1>7, <1>8, <1>9, LossAt, Zenon

(* An update of one field, as an update of both. *)
LEMMA TwoFields ==
  ASSUME IInv, NEW s \in Sides, NEW phase
  PROVE  /\ [end EXCEPT ![s].phase = phase]
              = [end EXCEPT ![s] = [end[s] EXCEPT !.phase = phase, !.err = end[s].err]]
         /\ end[s].err \in {"none", "EOF", "notfound", "broken", "expired"}
         /\ end[s].phase \in {"up", "down", "restore", "over"}
<1>1. end \in [Sides -> FailoverConn] /\ end[s] \in FailoverConn
  BY Typed DEF IInv, Structure, Types
<1>2. [end[s] EXCEPT !.phase = phase] = [end[s] EXCEPT !.phase = phase, !.err = end[s].err]
  BY <1>1, Zenon DEF FailoverConn
<1>3. [end EXCEPT ![s].phase = phase] = [end EXCEPT ![s] = [end[s] EXCEPT !.phase = phase]]
  BY Zenon
<1> QED BY <1>1, <1>2, <1>3, Zenon DEF FailoverConn

LEMMA PhaseOnlyStep ==
  ASSUME IInv, UNCHANGED <<got, spoilt>>, AllFade(links'), NEW s \in Sides,
         NEW phase \in {end[s].phase, "down", "over"}, end' = [end EXCEPT ![s].phase = phase]
  PROVE  IInv'
<1>1. PICK err \in {"none", "EOF", "notfound", "broken", "expired"} : err = end[s].err
  BY TwoFields, Zenon
<1>2. end' = [end EXCEPT ![s] = [end[s] EXCEPT !.phase = phase, !.err = err]]
  BY <1>1, TwoFields, Zenon
<1> QED BY <1>1, <1>2, PhaseStep, ZenonT(120)

LEMMA FailedStep ==
  ASSUME IInv, NEW s \in Sides, UNCHANGED <<got, spoilt>>, AllFade(links'), end' = Failed(s)
  PROVE  IInv'
<1>1. PICK phase \in {"down", "over"} : phase = IF end[s].err = "none" THEN "down" ELSE "over"
  OBVIOUS
<1>2. end' = [end EXCEPT ![s].phase = phase]
  BY <1>1 DEF Failed
<1>3. phase \in {end[s].phase, "down", "over"}
  OBVIOUS
<1> QED BY <1>2, <1>3, PhaseOnlyStep, Zenon

LEMMA WriteFailsStep == ASSUME IInv, NEW s \in Sides, WriteFails(s) PROVE IInv'
  BY ClosedByFades, FailedStep DEF WriteFails

LEMMA ReadFailsStep == ASSUME IInv, NEW s \in Sides, ReadFails(s) PROVE IInv'
  BY FadesItself, FailedStep DEF ReadFails

LEMMA DialNotFoundStep == ASSUME IInv, DialNotFound PROVE IInv'
<1> DEFINE s == "client"
<1>1. s \in Sides
  BY DEF Sides
<1>2. end' = [end EXCEPT ![s] = [end[s] EXCEPT !.phase = "over", !.err = "notfound"]]
  BY <1>1, Zenon DEF DialNotFound, IInv, Structure, Types
<1>3. AllFade(links') /\ UNCHANGED <<got, spoilt>>
  BY FadesItself DEF DialNotFound
<1> HIDE DEF s
<1> QED BY <1>1, <1>2, <1>3, PhaseStep, Zenon

LEMMA RestoreFailsStep == ASSUME IInv, NEW s \in Sides, RestoreFails(s) PROVE IInv'
<1>1. PICK phase \in {"down", "over"} :
        phase = IF s = "client" \/ end[s].err = "none" THEN "down" ELSE "over"
  OBVIOUS
<1>2. end' = [end EXCEPT ![s].phase = phase]
  BY <1>1 DEF RestoreFails
<1>3. AllFade(links') /\ UNCHANGED <<got, spoilt>>
  BY FadesItself DEF RestoreFails
<1>4. phase \in {end[s].phase, "down", "over"}
  OBVIOUS
<1> QED BY <1>2, <1>3, <1>4, PhaseOnlyStep, Zenon

LEMMA ExpireStep == ASSUME IInv, NEW s \in Sides, Expire(s) PROVE IInv'
<1>1. PICK phase \in {end[s].phase, "over"} :
        phase = IF end[s].phase = "down" THEN "over" ELSE end[s].phase
  OBVIOUS
<1>2. end' = [end EXCEPT ![s] = [end[s] EXCEPT !.phase = phase, !.err = "expired"]]
  <2>1. end[s] \in FailoverConn
    BY Typed DEF IInv, Structure
  <2> QED BY <1>1, <2>1, Zenon DEF Expire, FailoverConn
<1>3. AllFade(links') /\ UNCHANGED <<got, spoilt>>
  BY FadesItself DEF Expire
<1> QED BY <1>2, <1>3, PhaseStep, Zenon

(* What a frame of data carries, and the two parts a Read makes of it. *)
LEMMA UnitsFacts ==
  ASSUME NEW f \in Nat
  PROVE  /\ Units(f) \in Seq(Units2) /\ Len(Units(f)) = 2
         /\ Units(f)[1] = <<f, 1>> /\ Units(f)[2] = <<f, 2>>
         /\ SubSeq(Units(f), 1, 1) \in Seq(Units2)
         /\ SubSeq(Units(f), 1, 2) = Units(f)
         /\ SubSeq(Units(f), 2, 2) \in Seq(Units2)
         /\ SubSeq(Units(f), 3, 2) = << >>
<1>1. /\ Units(f) \in Seq(Units2) /\ Len(Units(f)) = 2
      /\ Units(f)[1] = <<f, 1>> /\ Units(f)[2] = <<f, 2>>
  BY DEF Units, Units2
<1>2. PICK u \in Seq(Units2) : u = Units(f)
  BY <1>1
<1>3. Len(u) = 2 /\ \A i \in 1 .. 2 : u[i] \in Units2
  BY <1>1, <1>2
<1>4. SubSeq(u, 1, 1) \in Seq(Units2) /\ SubSeq(u, 2, 2) \in Seq(Units2)
  <2>1. (\A i \in 1 .. 1 : u[i] \in Units2) /\ (\A i \in 2 .. 2 : u[i] \in Units2)
    BY <1>3
  <2> QED BY <2>1, SubSeqProperties
<1>5. SubSeq(u, 1, 2) = u
  <2>1. /\ SubSeq(u, 1, 2) \in Seq(Units2)
        /\ Len(SubSeq(u, 1, 2)) = 2
        /\ \A i \in 1 .. 2 : SubSeq(u, 1, 2)[i] = u[i]
    BY <1>3, SubSeqProperties
  <2> QED BY <1>3, <2>1, SeqEqual
<1>6. SubSeq(u, 3, 2) = << >>
  BY SubSeqEmpty
<1> QED BY <1>1, <1>2, <1>4, <1>5, <1>6

(* The connection that side s reads from. *)
LEMMA ConnFacts ==
  ASSUME IInv, NEW s \in Sides
  PROVE  /\ end[s].conn \in 1 .. Len(links)
         /\ links[end[s].conn] \in Link
         /\ Conn(s) = links[end[s].conn]
         /\ Conn(s).to[s] \in Seq(Nat)
         /\ Len(Conn(s).to[s]) \in Nat
<1>1. end[s].conn \in 1 .. Len(links) /\ links \in Seq(Link)
  BY DEF IInv, Structure, ConnInv, Types
<1> QED BY <1>1, LinkTyped DEF Conn

(* The next frame that side s reads is the one it has to read next. *)
LEMMA HeadIsNext ==
  ASSUME IInv, ~ spoilt, NEW s \in Sides, Up(s), Conn(s).to[s] # << >>
  PROVE  /\ Head(Conn(s).to[s]) = FrameAt(Peer(s), R(s))
         /\ R(s) < W(Peer(s))
<1>1. Peer(s) \in Sides
  BY PeerFacts
<1>2. R(s) \in Nat /\ W(Peer(s)) \in Nat
  BY <1>1, Typed DEF IInv, Structure
<1>3. PICK k \in 1 .. Len(links) : k = end[s].conn
  BY ConnFacts
<1>4. PICK q \in Seq(Nat) : q = links[k].to[s] /\ q = Conn(s).to[s]
  BY <1>3, ConnFacts
<1>5. Live(s, k) /\ Lane(s, k)
  BY <1>3 DEF Live, Up, IInv, Stream
<1>6. R(s) + Len(q) <= W(Peer(s)) /\ \A i \in 1 .. Len(q) : q[i] = FrameAt(Peer(s), R(s) + i - 1)
  BY <1>4, <1>5, Zenon DEF Lane
<1>7. q # << >> /\ Len(q) \in Nat /\ Len(q) >= 1 /\ Head(q) = q[1]
  BY <1>4
<1>8. R(s) + 1 - 1 = R(s) /\ R(s) < W(Peer(s)) /\ 1 \in 1 .. Len(q)
  BY <1>2, <1>6, <1>7
<1>9. q[1] = FrameAt(Peer(s), R(s))
  BY <1>6, <1>8
<1> QED BY <1>4, <1>7, <1>8, <1>9

(* The empty frame is the last one of a side that is closed. *)
LEMMA ClosingIsLast ==
  ASSUME IInv, NEW p \in Sides, NEW n \in Nat, n < W(p), FrameAt(p, n) = Closing
  PROVE  n = W(p) - 1 /\ end[p].closed
<1>1. W(p) \in Nat
  BY Typed DEF IInv, Structure
<1>2. n = W(p) - 1
  BY DEF FrameAt, Closing
<1>3. ~ end[p].closed => (W(p) > 0 => FrameAt(p, W(p) - 1) # Closing)
  BY DEF IInv, Structure, WriteInv
<1> QED BY <1>1, <1>2, <1>3

LEMMA ReadClosedStep == ASSUME IInv, NEW s \in Sides, ReadClosed(s) PROVE IInv'
<1>1. AllFade(links') /\ UNCHANGED <<got, spoilt>>
  BY ClosedByFades DEF ReadClosed
<1>2. end' = [end EXCEPT ![s] = [end[s] EXCEPT !.phase = "over", !.err = "EOF"]]
  <2>1. end[s] \in FailoverConn
    BY Typed DEF IInv, Structure
  <2> QED BY <2>1, Zenon DEF ReadClosed, FailoverConn
<1>3. ASSUME ~ spoilt PROVE Ended(s)
  <2>1. Peer(s) \in Sides /\ R(s) \in Nat
    BY PeerFacts, Typed DEF IInv, Structure
  <2>2. FrameAt(Peer(s), R(s)) = Closing /\ R(s) < W(Peer(s))
    BY <1>3, HeadIsNext DEF ReadClosed
  <2> QED BY <2>1, <2>2, ClosingIsLast DEF Ended
<1> QED BY <1>1, <1>2, <1>3, PhaseStep, Zenon

(* The frame that was cut spoils the stream. *)
LEMMA ReadCutStep == ASSUME IInv, NEW s \in Sides, ReadCut(s) PROVE IInv'
<1>1. end[s] \in FailoverConn /\ end \in [Sides -> FailoverConn]
  BY Typed DEF IInv, Structure, Types
<1>2. PICK phase \in {"down", "over"} : phase = IF end[s].err = "none" THEN "down" ELSE "over"
  OBVIOUS
<1>3. PICK u \in Seq(Units2) : u = SubSeq(Units(Head(Conn(s).to[s])), 1, 1)
  <2>1. Head(Conn(s).to[s]) \in Nat
    BY ConnFacts DEF ReadCut
  <2> QED BY <2>1, UnitsFacts, Zenon
<1>4. PICK e \in FailoverConn : e = [end[s] EXCEPT !.phase = phase, !.readBuffer = u]
  BY <1>1, Zenon DEF FailoverConn
<1>5. /\ e.phase = phase /\ e.err = end[s].err /\ e.closed = end[s].closed
      /\ e.writeIndex = W(s) /\ e.writeBuffers = end[s].writeBuffers /\ e.readIndex = R(s)
      /\ e.conn = end[s].conn /\ e.next = end[s].next
  BY <1>1, <1>4, ZenonT(120) DEF FailoverConn, W, R
<1>6. end' = [end EXCEPT ![s] = e]
  <2>1. end' = [[end EXCEPT ![s].phase = phase] EXCEPT ![s].readBuffer = u]
    BY <1>2, <1>3 DEF ReadCut, Failed
  <2>2. [end EXCEPT ![s].phase = phase] = [end EXCEPT ![s] = [end[s] EXCEPT !.phase = phase]]
    BY Zenon
  <2> QED BY <1>1, <1>4, <2>1, <2>2, Zenon
<1>7. UNCHANGED got /\ spoilt' = TRUE /\ AllFade(links')
  BY ClosedByFades DEF ReadCut
<1>8. /\ spoilt' \in BOOLEAN
      /\ ~ spoilt' => ~ spoilt
      /\ ~ spoilt' => e.readBuffer = end[s].readBuffer
      /\ ~ spoilt' /\ e.err = "EOF" /\ ~ e.closed => Ended(s)
  BY <1>7
<1>9. e.phase \in {end[s].phase, "down", "over"} /\ (end[s].closed => e.closed) /\ (e.closed => e.err # "none")
  BY <1>5, ErrFacts, Zenon
<1> QED BY <1>5, <1>6, <1>7, <1>8, <1>9, LossAt, Zenon

LEMMA RestoreBrokenStep == ASSUME IInv, NEW s \in Sides, RestoreBroken(s) PROVE IInv'
<1>1. end[s] \in FailoverConn /\ end[s].next \in 1 .. Len(links)
  <2>1. end[s] \in FailoverConn /\ end[s].next \in Nat /\ end[s].conn \in Nat
    BY Typed DEF IInv, Structure
  <2>2. end[s].conn \in 1 .. Len(links) /\ end[s].next \in 0 .. Len(links) /\ end[s].conn < end[s].next
    BY DEF IInv, Structure, ConnInv, RestoreBroken
  <2> QED BY <2>1, <2>2
<1>2. CASE s = "client"
  <2>1. end' = [end EXCEPT ![s] = [end[s] EXCEPT !.phase = "over", !.err = "broken"]]
    BY <1>1, <1>2, Zenon DEF RestoreBroken, FailoverConn
  <2>2. AllFade(links') /\ UNCHANGED <<got, spoilt>>
    BY <1>2, FadesItself DEF RestoreBroken
  <2> QED BY <2>1, <2>2, PhaseStep, Zenon
<1>3. CASE s # "client"
  <2>1. PICK phase \in {"down", "over"} : phase = IF end[s].err = "none" THEN "down" ELSE "over"
    OBVIOUS
  <2>2. end' = [end EXCEPT ![s].phase = phase]
    BY <1>3, <2>1 DEF RestoreBroken
  <2>3. UNCHANGED <<got, spoilt>>
    BY DEF RestoreBroken
  <2>4. AllFade(links')
    <3>1. PICK k \in 1 .. Len(links) : k = end[s].next
      BY <1>1
    <3>2. links[k] \in Link /\ links[k].to \in [Sides -> Seq(Nat)] /\ \A t \in Sides : Len(links[k].to[t]) \in Nat
      BY LinkTyped DEF IInv, Structure, Types
    <3>3. PICK to \in [Sides -> Seq(Nat)] : to = links[k].to
      BY <3>2
    <3>4. links' = [links EXCEPT ![k] = [links[k] EXCEPT !.up = FALSE, !.to = to]]
      <4>1. [links[k] EXCEPT !.up = FALSE, !.to = to] = [links[k] EXCEPT !.up = FALSE]
        BY <3>2, <3>3, Zenon DEF Link
      <4>2. links' = [links EXCEPT ![k] = [links[k] EXCEPT !.up = FALSE]]
        BY <1>3, <3>1 DEF RestoreBroken
      <4> QED BY <4>1, <4>2, Zenon
    <3>5. Prefixes(to, links[k].to)
      BY <3>2, <3>3 DEF Prefixes
    <3> QED BY <3>4, <3>5, OneFades, Zenon
  <2>5. phase \in {end[s].phase, "down", "over"}
    OBVIOUS
  <2> QED BY <2>2, <2>3, <2>4, <2>5, PhaseOnlyStep, Zenon
<1> QED BY <1>2, <1>3

-----------------------------------------------------------------------------
(* Steps that write. *)

(* Side s has put fs into connection k, if that is up. *)
SentTo(ls, k, s, fs) ==
  /\ ls \in Seq(Link) /\ Len(ls) = Len(links)
  /\ \A j \in 1 .. Len(links) : /\ ls[j].up = links[j].up
                                /\ ls[j].index = links[j].index
                                /\ ls[j].to[s] = links[j].to[s]
                                /\ j # k \/ ~ links[j].up => ls[j] = links[j]
  /\ links[k].up => ls[k].to[Peer(s)] = links[k].to[Peer(s)] \o fs

LEMMA SentFacts ==
  ASSUME IInv, NEW s \in Sides, NEW k \in 1 .. Len(links), NEW fs \in Seq(Nat)
  PROVE  SentTo(Sent(k, s, fs), k, s, fs)
<1> PICK ls : ls = Sent(k, s, fs)
  BY Zenon
<1> SUFFICES SentTo(ls, k, s, fs)
  BY Zenon
<1> USE DEF SentTo
<1>1. /\ links \in Seq(Link) /\ links[k] \in Link /\ links[k].to \in [Sides -> Seq(Nat)]
      /\ Peer(s) \in Sides /\ Peer(s) # s
  BY LinkTyped, PeerFacts DEF IInv, Structure, Types
<1>2. CASE ~ links[k].up
  BY <1>1, <1>2, Zenon DEF Sent
<1>3. CASE links[k].up
  <2>1. PICK q \in Seq(Nat) : q = links[k].to[Peer(s)] \o fs
    <3>1. links[k].to[Peer(s)] \in Seq(Nat)
      BY <1>1
    <3> QED BY <3>1, ConcatProperties, Zenon
  <2>2. PICK to \in [Sides -> Seq(Nat)] : to = [links[k].to EXCEPT ![Peer(s)] = q]
    BY <1>1, Zenon
  <2>3. to[s] = links[k].to[s] /\ to[Peer(s)] = q
    BY <1>1, <2>2, Zenon
  <2>4. PICK m \in Link : m = [links[k] EXCEPT !.to = to]
    BY <1>1, Zenon DEF Link
  <2>5. m.up = links[k].up /\ m.index = links[k].index /\ m.to = to
    BY <1>1, <2>4, Zenon DEF Link
  <2>6. ls = [links EXCEPT ![k] = m]
    BY <1>3, <2>1, <2>2, <2>4, Zenon DEF Sent
  <2>7. /\ ls \in Seq(Link) /\ Len(ls) = Len(links) /\ ls[k] = m
        /\ \A j \in 1 .. Len(links) : j # k => ls[j] = links[j]
    BY <1>1, <2>6, LinkReplaced
  <2> QED BY <1>3, <2>1, <2>3, <2>5, <2>7, Zenon
<1> QED BY <1>2, <1>3, Zenon

(* Side s writes the frame f, after w others. *)
Puts(s, w, f) ==
  /\ W(s) = w
  /\ W(s)' = w + 1
  /\ (end[s].writeBuffers)' = [end[s].writeBuffers EXCEPT ![Slot(w)] = f]
  /\ \/ f = w + 1 /\ w < MaxFrames /\ ~ (end[s].closed)'
     \/ f = Closing /\ (end[s].closed)' /\ (end[s].err)' # "none"

(* The frames before f are what they were, and f is the last one. *)
LEMMA FrameAdded ==
  ASSUME IInv, NEW s \in Sides, NEW w \in Nat, NEW f \in Nat, Puts(s, w, f), ~ end[s].closed
  PROVE  /\ \A n \in 0 .. w - 1 : FrameAt(s, n) = n + 1 /\ FrameAt(s, n)' = n + 1
         /\ FrameAt(s, w)' = f
         /\ WriteInv(s)'
<1>1. W(s) = w /\ end[s].writeBuffers \in [0 .. BufferSize - 1 -> Nat]
  BY Typed DEF IInv, Structure, Puts
<1>2. \A n \in Nat : Slot(n) \in 0 .. BufferSize - 1
  BY IndexIsNat, SlotIsSlot DEF Slot
<1>3. w <= MaxFrames /\ (w > 0 => FrameAt(s, w - 1) # Closing) /\ Ring(s) /\ MaxFrames \in Nat
  BY <1>1, StreamAssumption DEF IInv, Structure, WriteInv
<1>4. W(s)' = w + 1
  BY DEF Puts
<1>5. /\ (end[s].writeBuffers)'[Slot(w)] = f
      /\ \A i \in 0 .. BufferSize - 1 : i # Slot(w) => (end[s].writeBuffers)'[i] = end[s].writeBuffers[i]
  BY <1>1, <1>2, Zenon DEF Puts
<1>6. \A n \in 0 .. w - 1 : FrameAt(s, n) = n + 1
  BY <1>1, <1>3 DEF FrameAt, Closing
<1>7. \A n \in 0 .. w - 1 : FrameAt(s, n)' = n + 1
  BY <1>1, <1>4 DEF FrameAt
<1>8. FrameAt(s, w)' = f
  <2>1. FrameAt(s, w)' = IF f = Closing THEN Closing ELSE w + 1
    BY <1>1, <1>4, <1>5 DEF FrameAt
  <2> QED BY <2>1 DEF Puts
<1>9. Ring(s)'
  <2> SUFFICES ASSUME NEW n \in 0 .. W(s)' - 1, \A m \in n + 1 .. W(s)' - 1 : Slot(m) # Slot(n)
               PROVE  (end[s].writeBuffers)'[Slot(n)] = FrameAt(s, n)'
    BY DEF Ring, Slot, Index
  <2>1. CASE n = w
    BY <2>1, <1>5, <1>8
  <2>2. CASE n # w
    <3>1. n \in 0 .. w - 1 /\ n \in Nat
      BY <2>2, <1>1, <1>4
    <3>2. w \in n + 1 .. W(s)' - 1 /\ \A m \in n + 1 .. w - 1 : m \in n + 1 .. W(s)' - 1
      BY <3>1, <1>1, <1>4
    <3>3. Slot(w) # Slot(n) /\ \A m \in n + 1 .. w - 1 : Slot(m) # Slot(n)
      BY <3>2
    <3>4. end[s].writeBuffers[Slot(n)] = FrameAt(s, n)
      BY <3>1, <3>3, <1>1, <1>3, Zenon DEF Ring
    <3>5. (end[s].writeBuffers)'[Slot(n)] = end[s].writeBuffers[Slot(n)]
      BY <3>1, <3>3, <1>2, <1>5
    <3> QED BY <3>1, <3>4, <3>5, <1>6, <1>7
  <2> QED BY <2>1, <2>2
<1>10. WriteInv(s)'
  <2>1. W(s)' <= MaxFrames + 1 /\ W(s)' - 1 = w
    BY <1>1, <1>3, <1>4
  <2>2. (end[s].closed)' => (end[s].err)' # "none"
    BY DEF Puts
  <2>3. FrameAt(s, W(s) - 1)' = f
    BY <2>1, <1>8 DEF FrameAt
  <2>4. ASSUME ~ (end[s].closed)' PROVE W(s)' <= MaxFrames /\ FrameAt(s, W(s) - 1)' # Closing
    BY <2>3, <2>4, <1>1, <1>3, <1>4 DEF Puts, Closing
  <2> QED BY <2>1, <2>2, <2>4, <1>9 DEF WriteInv
<1> QED BY <1>6, <1>7, <1>8, <1>10

(* Lane after a step: q is under way to side s over connection k, s has    *)
(* read r frames and its peer p has written w.                             *)
LaneNext(s, p, k, q, r, w) ==
  /\ q = (links[k].to[s])' /\ r = R(s)' /\ w = W(p)'
  /\ r + Len(q) <= w
  /\ \A i \in 1 .. Len(q) : q[i] = FrameAt(p, r + i - 1)'
  /\ (end[p].conn)' = k /\ (links[k].up)' => r + Len(q) = w
  /\ (end[p].conn)' < k => (links[k].index[s])' = <<Index(r)>>

LEMMA LaneAfter ==
  ASSUME NEW s, NEW p, NEW k, NEW q, NEW r, NEW w, p = Peer(s), LaneNext(s, p, k, q, r, w)
  PROVE  Lane(s, k)'
<1>1. (Index(R(s)))' = Index(r)
  BY DEF Index, LaneNext
<1>2. \A i \in 1 .. Len(q) : FrameAt(p, R(s) + i - 1)' = FrameAt(p, r + i - 1)'
  BY DEF FrameAt, LaneNext
<1>3. \A i \in 1 .. Len(q) : q[i] = FrameAt(p, R(s) + i - 1)'
  BY <1>2, Zenon DEF LaneNext
<1> QED BY <1>1, <1>3, Zenon DEF Lane, LaneNext

LEMMA InLane == \A r, n, w \in Nat : r + n <= w => \A i \in 1 .. n : r + i - 1 \in 0 .. w - 1
  OBVIOUS

LEMMA EndOfLane == \A r, n \in Nat : \A i \in 1 .. n + 1 : i \in 1 .. n \/ (i = n + 1 /\ r + i - 1 = r + n)
  OBVIOUS

(* Adding a frame at the end, and counting it. *)
LEMMA Appended ==
  \A q \in Seq(Nat) : \A f \in Nat :
    /\ Len(q \o <<f>>) = Len(q) + 1 /\ (q \o <<f>>)[Len(q) + 1] = f
    /\ \A i \in 1 .. Len(q) : (q \o <<f>>)[i] = q[i]
  OBVIOUS

LEMMA OneMore == \A r, w \in Nat : r <= w => r <= w + 1
  OBVIOUS

LEMMA RoomForOne == \A r, n, w \in Nat : r + n <= w => r + n <= w + 1
  OBVIOUS

LEMMA OneLonger ==
  \A r, n, w \in Nat : r + n = w => r + (n + 1) = w + 1 /\ r + (n + 1) <= w + 1
  OBVIOUS

LEMMA NotBelow == \A n \in Nat : \A j \in 1 .. n : ~ (j < j)
  OBVIOUS

LEMMA PutStep ==
  ASSUME IInv, Types', NEW s \in Sides, NEW w \in Nat, NEW f \in Nat, Puts(s, w, f), ~ end[s].closed,
         links' = Sent(end[s].conn, s, <<f>>), UNCHANGED <<got, spoilt>>,
         end'[Peer(s)] = end[Peer(s)],
         (end[s].conn)' = end[s].conn, (end[s].next)' = end[s].next, (end[s].phase)' = end[s].phase,
         R(s)' = R(s), (end[s].readBuffer)' = end[s].readBuffer,
         (end[s].err)' = end[s].err \/ (end[s].closed)'
  PROVE  IInv'
<1> DEFINE p == Peer(s)
<1>1. p \in Sides /\ p # s /\ Peer(p) = s /\ \A t \in Sides : t = s \/ t = p
  BY PeerFacts
<1>2. /\ \A n \in 0 .. w - 1 : FrameAt(s, n) = n + 1 /\ FrameAt(s, n)' = n + 1
      /\ FrameAt(s, w)' = f
      /\ WriteInv(s)'
  BY FrameAdded
<1>3. PICK k \in 1 .. Len(links) : k = end[s].conn
  BY ConnFacts
<1>4. /\ Len(links') = Len(links)
      /\ \A j \in 1 .. Len(links) : /\ links'[j].up = links[j].up
                                    /\ links'[j].index = links[j].index
                                    /\ links'[j].to[s] = links[j].to[s]
                                    /\ j # k \/ ~ links[j].up => links'[j] = links[j]
      /\ links[k].up => links'[k].to[p] = links[k].to[p] \o <<f>>
  <2>1. <<f>> \in Seq(Nat)
    OBVIOUS
  <2>2. SentTo(links', k, s, <<f>>)
    BY <1>3, <2>1, SentFacts, Zenon
  <2> QED BY <2>2, Zenon DEF SentTo, p
<1>5. end'[p] = end[p]
  BY Zenon
<1>6. /\ w = W(s) /\ W(s)' = w + 1 /\ R(p) \in Nat /\ R(s) \in Nat /\ W(p) \in Nat
      /\ W(p)' = W(p) /\ R(p)' = R(p)
  BY <1>1, <1>5, Typed, Zenon DEF Puts, W, R, IInv, Structure
<1> HIDE DEF p
<1>7. WriteInv(p)' /\ \A n : FrameAt(p, n)' = FrameAt(p, n)
  <2>1. SameFrames(p)
    BY <1>5, <1>6 DEF SameFrames
  <2>2. WriteInv(p) /\ Types
    BY <1>1 DEF IInv, Structure
  <2>3. end[p].closed => end[p].err # "none"
    BY <2>2 DEF WriteInv
  <2> QED BY <1>1, <1>5, <2>1, <2>2, <2>3, FramesKept, WriteInvKept, StreamAssumption
<1>8. ConnInv(s)' /\ ConnInv(p)' /\ Met'
  <2>1. ConnInv(s) /\ ConnInv(p) /\ Met
    BY <1>1 DEF IInv, Structure
  <2>2. ConnInv(s)' /\ ConnInv(p)'
    BY <2>1, <1>4, <1>5, Zenon DEF ConnInv
  <2>3. \A t \in Sides : (end[t].conn)' = end[t].conn /\ (end[t].next)' = end[t].next
    BY <1>1, <1>5
  <2>4. Met'
    BY <2>1, <2>3 DEF Met, Sides
  <2> QED BY <2>2, <2>4
<1>0. Len(links) \in Nat
  BY Zenon, LenProperties DEF IInv, Structure, Types
<1>9. ASSUME NEW j \in 1 .. Len(links) PROVE LinkInv(j, s)' /\ LinkInv(j, p)'
  <2>1. LinkInv(j, s) /\ LinkInv(j, p)
    BY <1>1 DEF IInv, Structure
  <2>2. LinkInv(j, s)'
    BY <2>1, <1>4, <1>5, Zenon DEF LinkInv, p
  <2>3. (links[j].index[p])' = links[j].index[p] /\ (end[p].next)' = end[p].next
    BY <1>4, <1>5, Zenon
  <2>4. end[s].conn < j => links'[j] = links[j]
    <3>1. end[s].conn < j => j # k
      BY <1>3, <1>0, NotBelow, Zenon
    <3> QED BY <1>4, <3>1, Zenon
  <2>5. LinkInv(j, p)'
    BY <1>1, <2>1, <2>3, <2>4 DEF LinkInv
  <2> QED BY <2>2, <2>5, Zenon
<1>10. Structure'
  <2>1. \A t \in Sides : WriteInv(t)' /\ ConnInv(t)' /\ \A j \in 1 .. Len(links) : LinkInv(j, t)'
    BY <1>1, <1>2, <1>7, <1>8, <1>9, ZenonT(120)
  <2> QED BY <2>1, <1>4, <1>8, Zenon DEF Structure
<1>11. ASSUME ~ spoilt PROVE Flow(s)' /\ Flow(p)'
  <2>1. Flow(s) /\ Flow(p)
    BY <1>1, <1>11 DEF IInv, Stream
  <2>2. Flow(s)'
    <3>1. (end[s].err)' = "EOF" /\ ~ (end[s].closed)' => Ended(s)
      BY <2>1, Zenon DEF Flow
    <3>2. Ended(s) => Ended(s)'
      BY <1>5, <1>6, <1>7, Zenon DEF Ended, p
    <3> QED BY <2>1, <3>1, <3>2, <1>6, ZenonT(120) DEF Flow, p
  <2>3. Flow(p)'
    <3>1. ~ Ended(p)
      BY <1>1, Zenon DEF Ended
    <3>2. ~ (end[p].err = "EOF" /\ ~ end[p].closed)
      BY <2>1, <3>1, Zenon DEF Flow
    <3>3. R(p) <= w /\ (R(p) <= W(Peer(p)))'
      <4>1. R(p) <= w
        BY <2>1, <1>1, <1>6, Zenon DEF Flow
      <4> QED BY <4>1, <1>1, <1>6, OneMore, Zenon
    <3> QED BY <2>1, <3>2, <3>3, <1>5, <1>6, Zenon DEF Flow
  <2> QED BY <2>2, <2>3, Zenon
<1>12. ASSUME ~ spoilt, NEW j \in 1 .. Len(links) PROVE Lane(s, j)'
  <2>1. Lane(s, j)
    BY <1>12 DEF IInv, Stream
  <2>2. Live(s, j)' => Live(s, j)
    BY DEF Live
  <2>3. (links[j].to[s])' = links[j].to[s] /\ (links[j].up)' = links[j].up /\ (links[j].index)' = links[j].index
    BY <1>4, Zenon
  <2> QED BY <2>1, <2>2, <2>3, <1>5, <1>6, <1>7, ZenonT(120) DEF Lane, p
<1>13. ASSUME ~ spoilt, NEW j \in 1 .. Len(links) PROVE Lane(p, j)'
  <2> SUFFICES ASSUME Live(p, j)' PROVE Lane(p, j)'
    BY ZenonT(120) DEF Lane
  <2>1. Live(p, j)
    BY <1>5 DEF Live
  <2>2. PICK q \in Seq(Nat) : q = links[j].to[p]
    BY <1>1, LinkTyped, Zenon DEF IInv, Structure, Types
  <2>3. PICK q1 \in Seq(Nat) : q1 = (links[j].to[p])'
    BY <1>1, <1>4, LinkTyped, ZenonT(120) DEF Types
  <2> PICK r \in Nat : r = R(p)
    BY <1>6
  <2>4. /\ r + Len(q) <= w
        /\ \A i \in 1 .. Len(q) : q[i] = FrameAt(s, r + i - 1)
        /\ end[s].conn = j /\ links[j].up => r + Len(q) = w
        /\ end[s].conn < j => links[j].index[p] = <<Index(r)>>
        /\ Len(q) \in Nat /\ r = R(p)'
    <3>1. Lane(p, j)
      BY <1>1, <1>13, Zenon DEF IInv, Stream
    <3>2. Len(q) \in Nat
      OBVIOUS
    <3> QED BY <1>1, <1>6, <2>1, <2>2, <3>1, <3>2, Zenon DEF Lane
  <2>5. \A i \in 1 .. Len(q) : q[i] = FrameAt(s, r + i - 1)'
    <3> TAKE i \in 1 .. Len(q)
    <3>1. r + i - 1 \in 0 .. w - 1
      BY <2>4, InLane, Zenon
    <3>2. PICK n \in 0 .. w - 1 : n = r + i - 1
      BY <3>1, Zenon
    <3>3. FrameAt(s, n)' = FrameAt(s, n)
      BY <1>2, Zenon
    <3> QED BY <2>4, <3>2, <3>3, Zenon
  <2>6. CASE end[s].conn = j /\ links[j].up
    <3>1. q1 = q \o <<f>> /\ r + Len(q) = w
      BY <2>2, <2>3, <2>4, <2>6, <1>3, <1>4, ZenonT(120)
    <3>2. Len(q1) = Len(q) + 1 /\ q1[Len(q) + 1] = f /\ \A i \in 1 .. Len(q) : q1[i] = q[i]
      BY <3>1, Appended, Zenon
    <3>3. r + Len(q1) = w + 1 /\ r + Len(q1) <= w + 1
      <4>1. r + (Len(q) + 1) = w + 1 /\ r + (Len(q) + 1) <= w + 1
        BY <3>1, <2>4, OneLonger, Zenon
      <4> QED BY <4>1, <3>2, Zenon
    <3>4. ASSUME NEW i \in 1 .. Len(q1) PROVE q1[i] = FrameAt(s, r + i - 1)'
      <4>1. i \in 1 .. Len(q) \/ (i = Len(q) + 1 /\ r + i - 1 = w)
        <5>1. i \in 1 .. Len(q) + 1
          BY <3>2
        <5> QED BY <5>1, <2>4, <3>1, EndOfLane, ZenonT(120)
      <4>2. CASE i \in 1 .. Len(q)
        BY <4>2, <2>5, <3>2, Zenon
      <4>3. CASE i = Len(q) + 1 /\ r + i - 1 = w
        BY <4>3, <3>2, <1>2, ZenonT(120)
      <4> QED BY <4>1, <4>2, <4>3
    <3>5. ~ ((end[s].conn)' < j)
      BY <2>6, <1>0, NotBelow, Zenon
    <3>6. LaneNext(p, s, j, q1, r, w + 1)
      BY <2>3, <3>3, <3>4, <3>5, <1>6, <2>4, Zenon DEF LaneNext
    <3> QED BY <3>6, <1>1, LaneAfter, Zenon
  <2>7. CASE ~ (end[s].conn = j /\ links[j].up)
    <3>1. links'[j] = links[j] /\ q1 = q
      BY <2>2, <2>3, <2>7, <1>3, <1>4, ZenonT(120)
    <3>2. r + Len(q1) <= w + 1
      BY <2>4, <3>1, RoomForOne, Zenon
    <3>3. \A i \in 1 .. Len(q1) : q1[i] = FrameAt(s, r + i - 1)'
      BY <2>5, <3>1, Zenon
    <3>4. /\ (end[s].conn)' = j /\ (links[j].up)' => r + Len(q1) = w + 1
          /\ (end[s].conn)' < j => (links[j].index[p])' = <<Index(r)>>
      BY <2>4, <2>7, <3>1, Zenon
    <3>5. LaneNext(p, s, j, q1, r, w + 1)
      BY <2>3, <2>4, <3>2, <3>3, <3>4, <1>6, Zenon DEF LaneNext
    <3> QED BY <3>5, <1>1, LaneAfter, Zenon
  <2> QED BY <2>6, <2>7
<1> QED BY <1>1, <1>4, <1>10, <1>11, <1>12, <1>13, ZenonT(120) DEF IInv, Stream

(* The failoverConn of side s when it has written the frame f. *)
LEMMA WrittenFacts ==
  ASSUME IInv, NEW s \in Sides, NEW f \in Nat
  PROVE  \E e \in FailoverConn :
           /\ Written(s, f) = [end EXCEPT ![s] = e]
           /\ e.writeIndex = W(s) + 1
           /\ e.writeBuffers = [end[s].writeBuffers EXCEPT ![Slot(W(s))] = f]
           /\ e.phase = end[s].phase /\ e.conn = end[s].conn /\ e.next = end[s].next
           /\ e.readIndex = R(s) /\ e.readBuffer = end[s].readBuffer
           /\ e.err = end[s].err /\ e.closed = end[s].closed
<1>1. /\ end[s] \in FailoverConn /\ end \in [Sides -> FailoverConn]
      /\ W(s) \in Nat /\ end[s].writeBuffers \in [0 .. BufferSize - 1 -> Nat]
  BY Typed DEF IInv, Structure, Types
<1>2. Slot(W(s)) \in 0 .. BufferSize - 1
  BY <1>1, IndexIsNat, SlotIsSlot, Zenon DEF Slot
<1>3. PICK wb \in [0 .. BufferSize - 1 -> Nat] : wb = [end[s].writeBuffers EXCEPT ![Slot(W(s))] = f]
  BY <1>1, <1>2, Zenon
<1>4. PICK wi \in Nat : wi = W(s) + 1
  BY <1>1
<1>5. PICK e \in FailoverConn : e = [end[s] EXCEPT !.writeIndex = wi, !.writeBuffers = wb]
  BY <1>1, Zenon DEF FailoverConn
<1>6. /\ e.writeIndex = wi /\ e.writeBuffers = wb
      /\ e.phase = end[s].phase /\ e.conn = end[s].conn /\ e.next = end[s].next
      /\ e.readIndex = R(s) /\ e.readBuffer = end[s].readBuffer
      /\ e.err = end[s].err /\ e.closed = end[s].closed
  BY <1>1, <1>5, Zenon DEF FailoverConn, R
<1>7. Written(s, f) = [end EXCEPT ![s] = e]
  <2>1. Written(s, f) = [end EXCEPT ![s] = [end[s] EXCEPT !.writeIndex = wi, !.writeBuffers = wb]]
    BY <1>1, <1>3, <1>4, Zenon DEF Written, W, Slot, FailoverConn
  <2> QED BY <2>1, <1>5, Zenon
<1> QED BY <1>3, <1>4, <1>6, <1>7, Zenon

LEMMA SentTyped ==
  ASSUME IInv, NEW s \in Sides, NEW f \in Nat
  PROVE  Sent(end[s].conn, s, <<f>>) \in Seq(Link)
<1>1. <<f>> \in Seq(Nat)
  OBVIOUS
<1> QED BY <1>1, SentFacts, ConnFacts, Zenon DEF SentTo

LEMMA WriteStep == ASSUME IInv, NEW s \in Sides, Write(s) PROVE IInv'
<1>1. Peer(s) \in Sides /\ Peer(s) # s /\ Types
  BY PeerFacts DEF IInv, Structure
<1>2. PICK w \in Nat : w = W(s)
  BY <1>1, Typed
<1>3. PICK f \in Nat : f = w + 1
  OBVIOUS
<1>4. /\ end[s].err = "none" /\ w < MaxFrames
      /\ links' = Sent(end[s].conn, s, <<f>>)
      /\ end' = Written(s, f)
      /\ UNCHANGED <<got, spoilt>>
  BY <1>2, <1>3 DEF Write, W
<1>5. ~ end[s].closed
  BY <1>4, ErrFacts, Zenon
<1>6. PICK e \in FailoverConn :
        /\ Written(s, f) = [end EXCEPT ![s] = e]
        /\ e.writeIndex = W(s) + 1
        /\ e.writeBuffers = [end[s].writeBuffers EXCEPT ![Slot(W(s))] = f]
        /\ e.phase = end[s].phase /\ e.conn = end[s].conn /\ e.next = end[s].next
        /\ e.readIndex = R(s) /\ e.readBuffer = end[s].readBuffer
        /\ e.err = end[s].err /\ e.closed = end[s].closed
  BY WrittenFacts
<1>7. end' \in [Sides -> FailoverConn] /\ end'[s] = e /\ end'[Peer(s)] = end[Peer(s)]
  BY <1>1, <1>4, <1>6, EndChanged, Zenon
<1>8. Types'
  BY <1>1, <1>4, <1>7, SentTyped, Zenon DEF Types
<1>9. Puts(s, w, f)
  BY <1>2, <1>3, <1>4, <1>5, <1>6, <1>7, Zenon DEF Puts, W
<1>10. /\ (end[s].conn)' = end[s].conn /\ (end[s].next)' = end[s].next /\ (end[s].phase)' = end[s].phase
       /\ R(s)' = R(s) /\ (end[s].readBuffer)' = end[s].readBuffer /\ (end[s].err)' = end[s].err
  BY <1>6, <1>7, Zenon DEF R
<1> QED BY <1>4, <1>5, <1>7, <1>8, <1>9, <1>10, PutStep, ZenonT(120)

LEMMA CloseStep == ASSUME IInv, NEW s \in Sides, Close(s) PROVE IInv'
<1>1. /\ Peer(s) \in Sides /\ Peer(s) # s /\ Types
      /\ end \in [Sides -> FailoverConn] /\ end[s] \in FailoverConn
  BY PeerFacts, Typed DEF IInv, Structure, Types
<1>2. PICK w \in Nat : w = W(s)
  BY <1>1, Typed
<1>3. PICK ok :
        /\ links' = IF ok THEN Sent(end[s].conn, s, <<Closing>>) ELSE links
        /\ end' = [(IF ok THEN Written(s, Closing) ELSE end) EXCEPT
                     ![s].phase = IF @ = "up" /\ ~ ok THEN "over" ELSE @,
                     ![s].err = "EOF",
                     ![s].closed = TRUE]
  BY ZenonT(120) DEF Close
<1>4. ~ end[s].closed /\ UNCHANGED <<got, spoilt>> /\ Closing \in Nat
  BY DEF Close, Closing
<1>5. CASE ok
  <2>1. PICK e \in FailoverConn :
          /\ Written(s, Closing) = [end EXCEPT ![s] = e]
          /\ e.writeIndex = W(s) + 1
          /\ e.writeBuffers = [end[s].writeBuffers EXCEPT ![Slot(W(s))] = Closing]
          /\ e.phase = end[s].phase /\ e.conn = end[s].conn /\ e.next = end[s].next
          /\ e.readIndex = R(s) /\ e.readBuffer = end[s].readBuffer
          /\ e.err = end[s].err /\ e.closed = end[s].closed
    BY <1>4, WrittenFacts
  <2>2. PICK e1 \in FailoverConn : e1 = [e EXCEPT !.err = "EOF", !.closed = TRUE]
    BY Zenon DEF FailoverConn
  <2>3. /\ e1.writeIndex = e.writeIndex /\ e1.writeBuffers = e.writeBuffers
        /\ e1.phase = e.phase /\ e1.conn = e.conn /\ e1.next = e.next
        /\ e1.readIndex = e.readIndex /\ e1.readBuffer = e.readBuffer
        /\ e1.err = "EOF" /\ e1.closed = TRUE
    BY <2>2, Zenon DEF FailoverConn
  <2>4. end' = [end EXCEPT ![s] = e1]
    <3>1. end' = [[end EXCEPT ![s] = e] EXCEPT ![s].phase = IF @ = "up" /\ ~ ok THEN "over" ELSE @,
                                               ![s].err = "EOF", ![s].closed = TRUE]
      BY <1>3, <1>5, <2>1, Zenon
    <3>2. [e EXCEPT !.phase = e.phase, !.err = "EOF", !.closed = TRUE] = e1
      BY <2>2, Zenon DEF FailoverConn
    <3>3. [end EXCEPT ![s] = e][s] = e
      BY <1>1
    <3> QED BY <1>1, <1>5, <3>1, <3>2, <3>3, Zenon
  <2>5. end' \in [Sides -> FailoverConn] /\ end'[s] = e1 /\ end'[Peer(s)] = end[Peer(s)]
    BY <1>1, <2>4, EndChanged, Zenon
  <2>6. links' = Sent(end[s].conn, s, <<Closing>>)
    BY <1>3, <1>5, Zenon
  <2>7. Types'
    BY <1>1, <1>4, <2>5, <2>6, SentTyped, Zenon DEF Types
  <2>8. Puts(s, w, Closing)
    <3>1. "EOF" # "none"
      OBVIOUS
    <3> QED BY <1>2, <2>1, <2>3, <2>5, <3>1, Zenon DEF Puts, W
  <2>9. /\ (end[s].conn)' = end[s].conn /\ (end[s].next)' = end[s].next /\ (end[s].phase)' = end[s].phase
        /\ R(s)' = R(s) /\ (end[s].readBuffer)' = end[s].readBuffer /\ (end[s].closed)'
    BY <2>1, <2>3, <2>5, Zenon DEF R
  <2> QED BY <1>4, <2>5, <2>6, <2>7, <2>8, <2>9, PutStep, Zenon
<1>6. CASE ~ ok
  <2>1. PICK phase \in {end[s].phase, "over"} :
          phase = IF end[s].phase = "up" THEN "over" ELSE end[s].phase
    OBVIOUS
  <2>2. PICK e \in FailoverConn : e = [end[s] EXCEPT !.phase = phase, !.err = "EOF", !.closed = TRUE]
    BY <1>1, Zenon DEF FailoverConn
  <2>3. /\ e.writeIndex = W(s) /\ e.writeBuffers = end[s].writeBuffers
        /\ e.phase = phase /\ e.conn = end[s].conn /\ e.next = end[s].next
        /\ e.readIndex = R(s) /\ e.readBuffer = end[s].readBuffer
        /\ e.err = "EOF" /\ e.closed = TRUE
    BY <1>1, <2>2, Zenon DEF FailoverConn, W, R
  <2>4. end' = [end EXCEPT ![s] = e]
    <3>1. end' = [end EXCEPT ![s].phase = phase, ![s].err = "EOF", ![s].closed = TRUE]
      BY <1>3, <1>6, <2>1
    <3> QED BY <3>1, <2>2, <1>1, Zenon
  <2>5. AllFade(links')
    BY <1>3, <1>6, FadesItself, Zenon
  <2>6. UNCHANGED got /\ spoilt' \in BOOLEAN /\ (~ spoilt' => ~ spoilt)
    BY <1>4, ErrFacts, Zenon
  <2>7. /\ e.phase \in {end[s].phase, "down", "over"}
        /\ end[s].closed => e.closed
        /\ e.closed => e.err # "none"
        /\ ~ spoilt' => e.readBuffer = end[s].readBuffer
        /\ ~ spoilt' /\ e.err = "EOF" /\ ~ e.closed => Ended(s)
    BY <2>3
  <2> QED BY <2>3, <2>4, <2>5, <2>6, <2>7, LossAt, Zenon
<1> QED BY <1>5, <1>6, Zenon

-----------------------------------------------------------------------------
(* Steps that read. *)

(* Side s reads: its failoverConn becomes e, its connection is shortened. *)
LEMMA ReadStructure ==
  ASSUME IInv, NEW s \in Sides, NEW u \in Seq(Units2), NEW n \in 1 .. 2, n <= Len(u), Returns(s, u, n),
         NothingSent, links' \in Seq(Link), spoilt' \in BOOLEAN
  PROVE  /\ Structure'
         /\ R(s)' = R(s) + 1
         /\ end'[Peer(s)] = end[Peer(s)]
         /\ (end[s].readBuffer)' = SubSeq(u, n + 1, Len(u))
         /\ got'[s] = got[s] \o SubSeq(u, 1, n)
         /\ got'[Peer(s)] = got[Peer(s)]
         /\ \A t \in Sides : /\ SameFrames(t) /\ Stays(t) /\ (end[t].phase)' = end[t].phase
                             /\ (end[t].closed)' = end[t].closed /\ (end[t].err)' = end[t].err
<1>1. /\ Peer(s) \in Sides /\ Peer(s) # s /\ Types /\ \A t \in Sides : t = s \/ t = Peer(s)
      /\ end \in [Sides -> FailoverConn] /\ end[s] \in FailoverConn /\ R(s) \in Nat
      /\ got \in [Sides -> Seq(Units2)] /\ got[s] \in Seq(Units2)
  <2>1. Types /\ end \in [Sides -> FailoverConn] /\ got \in [Sides -> Seq(Units2)]
    BY Zenon DEF IInv, Structure, Types
  <2> QED BY <2>1, PeerFacts, Typed, Zenon
<1>2. SubSeq(u, n + 1, Len(u)) \in Seq(Units2) /\ SubSeq(u, 1, n) \in Seq(Units2)
  <2>1. \A i \in 1 .. Len(u) : u[i] \in Units2
    OBVIOUS
  <2>2. (\A i \in n + 1 .. Len(u) : u[i] \in Units2) /\ (\A i \in 1 .. n : u[i] \in Units2) /\ Len(u) \in Int
    BY <2>1
  <2>3. n + 1 \in Int /\ 1 \in Int /\ n \in Int
    OBVIOUS
  <2> QED BY <2>2, <2>3, SubSeqProperties
<1>3. PICK rest \in Seq(Units2) : rest = SubSeq(u, n + 1, Len(u))
  BY <1>2, Zenon
<1>4. PICK ri \in Nat : ri = R(s) + 1
  BY <1>1
<1>5. PICK e \in FailoverConn : e = [end[s] EXCEPT !.readBuffer = rest, !.readIndex = ri]
  BY <1>1, Zenon DEF FailoverConn
<1>6. /\ e.writeIndex = W(s) /\ e.writeBuffers = end[s].writeBuffers
      /\ e.phase = end[s].phase /\ e.conn = end[s].conn /\ e.next = end[s].next
      /\ e.readIndex = ri /\ e.readBuffer = rest
      /\ e.err = end[s].err /\ e.closed = end[s].closed
  BY <1>1, <1>5, Zenon DEF FailoverConn, W
<1>7. end' = [end EXCEPT ![s] = e]
  <2>1. end' = [end EXCEPT ![s].readBuffer = rest, ![s].readIndex = ri]
    BY <1>3, <1>4 DEF Returns, R
  <2> QED BY <1>1, <1>5, <2>1, Zenon
<1>8. end' \in [Sides -> FailoverConn] /\ end'[s] = e /\ end'[Peer(s)] = end[Peer(s)]
  BY <1>1, <1>7, EndChanged, Zenon
<1>9. got[s] \o SubSeq(u, 1, n) \in Seq(Units2)
  BY <1>1, <1>2, ConcatProperties, Zenon
<1>10. /\ got' \in [Sides -> Seq(Units2)]
       /\ got'[s] = got[s] \o SubSeq(u, 1, n)
       /\ got'[Peer(s)] = got[Peer(s)]
  BY <1>1, <1>9, Zenon DEF Returns
<1>11. Types'
  BY <1>8, <1>10, ZenonT(120) DEF Types
<1>12. ASSUME NEW t \in Sides
       PROVE  /\ SameFrames(t) /\ Stays(t) /\ (end[t].phase)' = end[t].phase
              /\ (end[t].closed)' = end[t].closed /\ (end[t].err)' = end[t].err
  <2>1. CASE t = s
    BY <2>1, <1>6, <1>8 DEF SameFrames, Stays, W
  <2>2. CASE t = Peer(s)
    BY <2>2, <1>8 DEF SameFrames, Stays, W
  <2> QED BY <2>1, <2>2, <1>1, ZenonT(120)
<1>13. Structure'
  <2>1. \A t \in Sides : end[t].closed => end[t].err # "none"
    BY ErrFacts, Zenon
  <2> QED BY <2>1, <1>11, <1>12, StructureKept, Zenon DEF IInv
<1>14. R(s)' = R(s) + 1 /\ (end[s].readBuffer)' = SubSeq(u, n + 1, Len(u))
  BY <1>3, <1>4, <1>6, <1>8, Zenon DEF R
<1> QED BY <1>8, <1>10, <1>12, <1>13, <1>14, ZenonT(120)

(* A Read of the rest of a frame: the stream was spoilt before. *)
LEMMA ReadRestStep == ASSUME IInv, NEW s \in Sides, ReadRest(s) PROVE IInv'
<1>1. spoilt /\ spoilt' = spoilt /\ spoilt' \in BOOLEAN
  BY ErrFacts DEF ReadRest, IInv, Stream, Flow
<1>2. PICK u \in Seq(Units2) : u = end[s].readBuffer
  BY Typed DEF IInv, Structure
<1>3. u # << >> /\ Returns(s, u, 1) /\ UNCHANGED links
  BY <1>2 DEF ReadRest
<1>4. 1 <= Len(u) /\ 1 \in 1 .. 2
  BY <1>3
<1>5. NothingSent /\ links' \in Seq(Link)
  <2>1. links \in Seq(Link)
    BY DEF IInv, Structure, Types
  <2>2. \A k \in 1 .. Len(links) : \A t \in Sides : Len(links[k].to[t]) \in Nat
    BY <2>1, LinkTyped
  <2> QED BY <1>3, <2>1, <2>2 DEF NothingSent
<1>6. Structure'
  BY <1>1, <1>3, <1>4, <1>5, ReadStructure
<1> QED BY <1>1, <1>6, Zenon DEF IInv

(* The connection after the first frame under way to s has been taken. *)
TakenFrom(k, s, ls) ==
  /\ ls \in Seq(Link) /\ Len(ls) = Len(links)
  /\ \A j \in 1 .. Len(links) : /\ ls[j].up = links[j].up
                                /\ ls[j].index = links[j].index
                                /\ ls[j].to[Peer(s)] = links[j].to[Peer(s)]
                                /\ j # k => ls[j] = links[j]
  /\ ls[k].to[s] = Tail(links[k].to[s])

LEMMA TakenFacts ==
  ASSUME IInv, NEW s \in Sides, NEW k \in 1 .. Len(links), links[k].to[s] # << >>
  PROVE  TakenFrom(k, s, [links EXCEPT ![k].to[s] = Tail(@)])
<1>1. PICK ls : ls = [links EXCEPT ![k].to[s] = Tail(@)]
  BY ZenonT(120)
<1>2. /\ links \in Seq(Link) /\ links[k] \in Link /\ links[k].to \in [Sides -> Seq(Nat)]
      /\ Peer(s) \in Sides /\ Peer(s) # s
  <2>1. links \in Seq(Link)
    BY Zenon DEF IInv, Structure, Types
  <2> QED BY <2>1, LinkTyped, PeerFacts, Zenon
<1>3. PICK q \in Seq(Nat) : q = Tail(links[k].to[s])
  BY <1>2, HeadTailProperties, Zenon
<1>4. PICK to \in [Sides -> Seq(Nat)] : to = [links[k].to EXCEPT ![s] = q]
  BY <1>2, Zenon
<1>5. to[s] = q /\ to[Peer(s)] = links[k].to[Peer(s)]
  BY <1>2, <1>4, Zenon
<1>6. PICK m \in Link : m = [links[k] EXCEPT !.to = to]
  BY <1>2, Zenon DEF Link
<1>7. m.up = links[k].up /\ m.index = links[k].index /\ m.to = to
  BY <1>2, <1>6, Zenon DEF Link
<1>8. ls = [links EXCEPT ![k] = m]
  BY <1>1, <1>3, <1>4, <1>6, Zenon
<1>9. /\ ls \in Seq(Link) /\ Len(ls) = Len(links) /\ ls[k] = m
      /\ \A j \in 1 .. Len(links) : j # k => ls[j] = links[j]
  BY <1>2, <1>8, LinkReplaced
<1>10. TakenFrom(k, s, ls)
  BY <1>3, <1>5, <1>7, <1>9, Zenon DEF TakenFrom
<1> QED BY <1>1, <1>10, Zenon

LEMMA OneOn ==
  \A r, a, b \in Nat : a = b - 1 => \A i \in 1 .. a : i + 1 \in 1 .. b /\ r + (i + 1) - 1 = (r + 1) + i - 1
  OBVIOUS

(* Two units more, in their places. *)
LEMMA UnitsAppended ==
  ASSUME NEW g \in Seq(Units2), NEW r \in Nat, Len(g) = 2 * r, NEW h, h = g \o Units(r + 1),
         \A i \in 1 .. Len(g) : g[i] = UnitAt(i)
  PROVE  /\ Len(h) = 2 * (r + 1)
         /\ \A i \in 1 .. Len(h) : h[i] = UnitAt(i)
<1>1. PICK u \in Seq(Units2) : u = Units(r + 1) /\ Len(u) = 2 /\ u[1] = <<r + 1, 1>> /\ u[2] = <<r + 1, 2>>
  BY UnitsFacts
<1>2. u[1] = UnitAt(2 * r + 1) /\ u[2] = UnitAt(2 * r + 2)
  <2>1. /\ ((2 * r + 1) + 1) \div 2 = r + 1 /\ 2 - ((2 * r + 1) % 2) = 1
        /\ ((2 * r + 2) + 1) \div 2 = r + 1 /\ 2 - ((2 * r + 2) % 2) = 2
    OBVIOUS
  <2> QED BY <1>1, <2>1, Zenon DEF UnitAt
<1>3. /\ Len(h) = 2 * r + 2
      /\ \A i \in 1 .. 2 * r + 2 : h[i] = IF i <= 2 * r THEN g[i] ELSE u[i - 2 * r]
  <2>1. /\ Len(h) = Len(g) + Len(u)
        /\ \A i \in 1 .. Len(g) + Len(u) : h[i] = IF i <= Len(g) THEN g[i] ELSE u[i - Len(g)]
    BY <1>1, ConcatProperties, Zenon
  <2> QED BY <2>1, <1>1, Zenon
<1>4. ASSUME NEW i \in 1 .. 2 * r + 2 PROVE h[i] = UnitAt(i)
  <2>1. \/ i \in 1 .. 2 * r /\ i <= 2 * r
        \/ i = 2 * r + 1 /\ ~ i <= 2 * r /\ i - 2 * r = 1
        \/ i = 2 * r + 2 /\ ~ i <= 2 * r /\ i - 2 * r = 2
    OBVIOUS
  <2>2. h[i] = IF i <= 2 * r THEN g[i] ELSE u[i - 2 * r]
    BY <1>3, Zenon
  <2> QED BY <2>1, <2>2, <1>2, Zenon
<1> QED BY <1>3, <1>4

LEMMA ReadFrameStep == ASSUME IInv, NEW s \in Sides, NEW n \in 1 .. 2, ReadFrame(s, n) PROVE IInv'
<1> DEFINE p == Peer(s)
<1>1. p \in Sides /\ p # s /\ Peer(p) = s /\ \A t \in Sides : t = s \/ t = p
  BY PeerFacts
<1>2. PICK k \in 1 .. Len(links) : k = end[s].conn /\ Conn(s) = links[k]
  BY ConnFacts
<1>3. PICK q \in Seq(Nat) : q = links[k].to[s]
  BY <1>2, ConnFacts
<1>4. /\ Up(s) /\ q # << >> /\ Head(q) # Closing /\ Returns(s, Units(Head(q)), n)
      /\ links' = [links EXCEPT ![k].to[s] = Tail(@)]
      /\ spoilt' = (spoilt \/ n < 2)
  BY <1>2, <1>3, Zenon DEF ReadFrame
<1>5. Head(q) \in Nat /\ Tail(q) \in Seq(Nat) /\ Len(Tail(q)) = Len(q) - 1
      /\ Len(q) \in Nat /\ Len(Tail(q)) \in Nat
      /\ \A i \in 1 .. Len(Tail(q)) : Tail(q)[i] = q[i + 1]
  BY <1>4, HeadTailProperties
<1>6. /\ Len(links') = Len(links) /\ links' \in Seq(Link)
      /\ \A j \in 1 .. Len(links) : /\ links'[j].up = links[j].up
                                    /\ links'[j].index = links[j].index
                                    /\ links'[j].to[p] = links[j].to[p]
                                    /\ j # k => links'[j] = links[j]
      /\ links'[k].to[s] = Tail(q)
  <2>1. TakenFrom(k, s, links')
    BY <1>3, <1>4, TakenFacts, Zenon
  <2> QED BY <2>1, <1>3, Zenon DEF TakenFrom, p
<1> HIDE DEF p
<1>7. NothingSent
  <2>1. \A j \in 1 .. Len(links) : \A t \in Sides : Len(links[j].to[t]) \in Nat
    BY LinkTyped DEF IInv, Structure, Types
  <2>2. ASSUME NEW j \in 1 .. Len(links), NEW t \in Sides
        PROVE  Len(links[j].to[t])' <= Len(links[j].to[t])
    <3>1. CASE (links[j].to[t])' = links[j].to[t]
      BY <3>1, <2>1
    <3>2. CASE (links[j].to[t])' # links[j].to[t]
      <4>1. j = k /\ t = s
        BY <3>2, <1>1, <1>6, Zenon
      <4>2. Len(Tail(q)) <= Len(q)
        BY <1>5
      <4> QED BY <4>1, <4>2, <1>3, <1>6, Zenon
    <3> QED BY <3>1, <3>2
  <2> QED BY <2>2, <1>6, Zenon DEF NothingSent
<1>8. spoilt' \in BOOLEAN
  BY <1>4
<1>9. PICK u \in Seq(Units2) : u = Units(Head(q)) /\ Len(u) = 2
  BY <1>5, UnitsFacts
<1>10. /\ Structure'
       /\ R(s)' = R(s) + 1
       /\ end'[p] = end[p]
       /\ (end[s].readBuffer)' = SubSeq(u, n + 1, 2)
       /\ got'[s] = got[s] \o SubSeq(u, 1, n)
       /\ got'[p] = got[p]
       /\ \A t \in Sides : /\ SameFrames(t) /\ Stays(t) /\ (end[t].phase)' = end[t].phase
                           /\ (end[t].closed)' = end[t].closed /\ (end[t].err)' = end[t].err
  <2>1. n <= Len(u) /\ Returns(s, u, n)
    <3>1. n <= 2
      OBVIOUS
    <3> QED BY <3>1, <1>4, <1>9, Zenon
  <2>2. /\ Structure'
        /\ R(s)' = R(s) + 1
        /\ end'[Peer(s)] = end[Peer(s)]
        /\ (end[s].readBuffer)' = SubSeq(u, n + 1, Len(u))
        /\ got'[s] = got[s] \o SubSeq(u, 1, n)
        /\ got'[Peer(s)] = got[Peer(s)]
        /\ \A t \in Sides : /\ SameFrames(t) /\ Stays(t) /\ (end[t].phase)' = end[t].phase
                            /\ (end[t].closed)' = end[t].closed /\ (end[t].err)' = end[t].err
    BY <2>1, <1>6, <1>7, <1>8, ReadStructure, Zenon
  <2> QED BY <2>2, <1>9, Zenon DEF p
<1>11. ASSUME ~ spoilt' PROVE Stream'
  <2>1. ~ spoilt /\ n = 2 /\ Stream
    <3>1. ~ spoilt /\ ~ (n < 2)
      BY <1>4, <1>11, Zenon
    <3>2. n = 2
      BY ONLY <3>1, n \in 1 .. 2
    <3> QED BY <3>1, <3>2, Zenon DEF IInv
  <2>2. PICK r \in Nat, w \in Nat : r = R(s) /\ w = W(p) /\ w = W(p)' /\ r + 1 = R(s)'
    BY <1>1, <1>10, Typed DEF IInv, Structure, SameFrames
  <2>3. \A t \in Sides : \A i : FrameAt(t, i)' = FrameAt(t, i)
    BY <1>10, FramesKept, Zenon
  <2>4. Head(q) = FrameAt(p, r) /\ r < w
    BY <1>2, <1>3, <1>4, <2>1, <2>2, HeadIsNext, ZenonT(120) DEF p
  <2>5. Head(q) = r + 1
    BY <1>4, <2>4, Zenon DEF FrameAt
  <2>6. (end[s].readBuffer)' = << >> /\ got'[s] = got[s] \o Units(r + 1)
    <3>1. r + 1 \in Nat /\ 2 + 1 = 3
      OBVIOUS
    <3>2. SubSeq(Units(r + 1), 3, 2) = << >> /\ SubSeq(Units(r + 1), 1, 2) = Units(r + 1)
      BY <3>1, UnitsFacts, Zenon
    <3> QED BY <3>1, <3>2, <1>9, <1>10, <2>1, <2>5, Zenon
  <2>7. Flow(s)'
    <3>1. Flow(s) /\ got[s] \in Seq(Units2)
      BY <2>1, Typed DEF Stream, IInv, Structure
    <3>2. /\ Len(got'[s]) = 2 * (r + 1)
          /\ \A i \in 1 .. Len(got'[s]) : got'[s][i] = UnitAt(i)
      BY <3>1, <2>2, <2>6, UnitsAppended, ZenonT(120) DEF Flow
    <3>3. ~ (end[s].err = "EOF" /\ ~ end[s].closed)
      BY <3>1, <1>4, <2>2, <2>4, Zenon DEF Flow, Ended, p
    <3>4. r + 1 <= w
      BY <2>4
    <3> QED BY <3>2, <3>3, <3>4, <1>10, <2>2, <2>6, ZenonT(120) DEF Flow, p
  <2>8. Flow(p)'
    <3>1. Flow(p) /\ SameFrames(s)
      BY <2>1, <1>1, <1>10 DEF Stream
    <3>2. Ended(p) => Ended(p)'
      BY <1>1, <1>10, <2>3, <3>1, Zenon DEF Ended, SameFrames, R
    <3> QED BY <3>1, <3>2, <1>1, <1>10, Zenon DEF Flow, SameFrames, R
  <2>9. ASSUME NEW j \in 1 .. Len(links) PROVE Lane(s, j)'
    <3> SUFFICES ASSUME Live(s, j)' PROVE Lane(s, j)'
      BY Zenon DEF Lane
    <3>1. j = k /\ Live(s, k)
      BY <1>2, <1>4, <1>10, Zenon DEF Live, Up, Stays
    <3>2. /\ r + Len(q) <= w
          /\ \A i \in 1 .. Len(q) : q[i] = FrameAt(p, r + i - 1)
          /\ end[p].conn = k /\ links[k].up => r + Len(q) = w
      BY <3>1, <2>1, <2>2, <1>3, ZenonT(120) DEF Stream, Lane, p
    <3>3. (r + 1) + Len(Tail(q)) = r + Len(q) /\ (r + 1) + Len(Tail(q)) <= w
      BY <1>5, <3>2
    <3>4. ASSUME NEW i \in 1 .. Len(Tail(q)) PROVE Tail(q)[i] = FrameAt(p, (r + 1) + i - 1)'
      <4>1. i + 1 \in 1 .. Len(q) /\ r + (i + 1) - 1 = (r + 1) + i - 1
        <5>1. PICK a \in Nat, b \in Nat : a = Len(Tail(q)) /\ b = Len(q) /\ a = b - 1
          BY <1>5, Zenon
        <5>2. i \in 1 .. a
          BY <5>1, Zenon
        <5>3. i + 1 \in 1 .. b /\ r + (i + 1) - 1 = (r + 1) + i - 1
          BY <5>1, <5>2, OneOn
        <5> QED BY <5>1, <5>3, Zenon
      <4> QED BY <4>1, <3>2, <1>1, <1>5, <2>3, Zenon
    <3>5. ~ ((end[p].conn)' < k)
      <4>1. LinkInv(k, s)
        BY DEF IInv, Structure
      <4> QED BY <4>1, <1>3, <1>4, <1>10, Zenon DEF LinkInv, p
    <3>6. LaneNext(s, p, k, Tail(q), r + 1, w)
      BY <1>6, <1>10, <2>2, <3>2, <3>3, <3>4, <3>5, Zenon DEF LaneNext
    <3> QED BY <3>1, <3>6, LaneAfter, Zenon DEF p
  <2>10. ASSUME NEW j \in 1 .. Len(links) PROVE Lane(p, j)'
    <3>1. Lane(p, j) /\ SameFrames(s) /\ Stays(s)
      BY <2>1, <1>1, <1>10 DEF Stream
    <3>2. Live(p, j)' => Live(p, j)
      BY <1>10, Zenon DEF Live
    <3>3. (links[j].to[p])' = links[j].to[p] /\ (links[j].up)' = links[j].up /\ (links[j].index)' = links[j].index
      BY <1>6, Zenon
    <3>4. R(p)' = R(p) /\ W(s)' = W(s) /\ (end[s].conn)' = end[s].conn
      BY <1>10, <3>1, Zenon DEF R, SameFrames, Stays
    <3> QED BY <3>1, <3>2, <3>3, <3>4, <1>1, <2>3, ZenonT(120) DEF Lane
  <2> QED BY <2>7, <2>8, <2>9, <2>10, <1>1, <1>6, Zenon DEF Stream
<1> QED BY <1>10, <1>11 DEF IInv


-----------------------------------------------------------------------------
(* Reconnection. *)

(* The connection that side s restores. *)
LEMMA NextFacts ==
  ASSUME IInv, NEW s \in Sides, end[s].phase = "restore"
  PROVE  end[s].next \in 1 .. Len(links) /\ end[s].conn < end[s].next
<1>1. ConnInv(s) /\ Types
  BY DEF IInv, Structure
<1>2. Len(links) \in Nat /\ end[s].next \in Nat /\ end[s].conn \in Nat
  BY <1>1, Typed DEF Types
<1>3. /\ end[s].conn \in 1 .. Len(links) /\ end[s].next \in 0 .. Len(links)
      /\ end[s].conn < end[s].next
  BY <1>1, Zenon DEF ConnInv
<1> QED BY <1>2, <1>3

LEMMA TableIsSeq ==
  ASSUME NEW n \in Nat, NEW f, f \in [1 .. n -> Nat]
  PROVE  f \in Seq(Nat) /\ Len(f) = n
  OBVIOUS

(* What RestoreConn writes again is made of frames. *)
LEMMA UnreadTyped ==
  ASSUME IInv, NEW s \in Sides, NEW x \in Nat
  PROVE  /\ Behind(s, x) \in Nat
         /\ Unread(s, x) \in Seq(Nat)
         /\ Len(Unread(s, x)) = Behind(s, x)
<1>1. W(s) \in Nat /\ end[s].writeBuffers \in [0 .. BufferSize - 1 -> Nat]
  BY Typed DEF IInv, Structure
<1>2. Index(W(s)) \in Nat /\ IndexSpace \in Nat \ {0}
  BY <1>1, IndexIsNat, StreamAssumption
<1>3. Index(W(s)) - x \in Int
  BY <1>2
<1>4. PICK n \in Nat : n = Behind(s, x)
  BY <1>2, <1>3, ModDef DEF Behind, W
<1>5. ASSUME NEW i \in 1 .. n
      PROVE  end[s].writeBuffers[((x + i - 1) % IndexSpace) % BufferSize] \in Nat
  <2>1. x + i - 1 \in Int
    OBVIOUS
  <2>2. (x + i - 1) % IndexSpace \in Nat
    BY <1>2, <2>1, ModDef
  <2>3. ((x + i - 1) % IndexSpace) % BufferSize \in 0 .. BufferSize - 1
    BY <2>2, SlotIsSlot, Zenon
  <2> QED BY <1>1, <2>3, Zenon
<1>6. Unread(s, x) = [i \in 1 .. n |-> end[s].writeBuffers[((x + i - 1) % IndexSpace) % BufferSize]]
  BY <1>4, Zenon DEF Unread
<1>7. Unread(s, x) \in [1 .. n -> Nat]
  BY <1>5, <1>6, Zenon
<1> QED BY <1>4, <1>7, TableIsSeq, Zenon

LEMMA Onward ==
  \A w, r \in Nat : \A i \in 1 .. w - r :
    r <= w => i - 1 \in Nat /\ r + (i - 1) \in r .. w - 1 /\ r + (i - 1) <= w /\ r + (i - 1) \in 0 .. w - 1
              /\ r + (i - 1) = r + i - 1
  OBVIOUS

(* RestoreConn writes again the frames from the one the peer reads next to *)
(* the last one.                                                           *)
LEMMA UnreadIsNext ==
  ASSUME IInv, NEW s \in Sides, NEW r \in Nat, NEW w \in Nat, w = W(s), r <= w,
         Kept(s, Index(r)), ~ Shifted(s, Index(r))
  PROVE  /\ Behind(s, Index(r)) = w - r
         /\ \A i \in 1 .. w - r : Unread(s, Index(r))[i] = FrameAt(s, r + i - 1)
<1>1. w <= MaxFrames + 1 /\ MaxFrames \in Nat /\ Ring(s)
  <2>1. WriteInv(s)
    BY DEF IInv, Structure
  <2> QED BY <2>1, StreamAssumption DEF WriteInv
<1>2. w \in 0 .. MaxFrames + 1 /\ r \in 0 .. w /\ r \in 0 .. MaxFrames + 1
  BY <1>1
<1>3. Behind(s, Index(r)) = w - r
  BY <1>2, GapIs DEF Behind, W
<1>4. w - r <= BufferSize
  BY <1>3, Zenon DEF Kept
<1>5. Index(r) > Index(w) /\ Index(w) # 0 /\ IndexSpace % BufferSize # 0
        => w - r <= IndexSpace % BufferSize
  <2>1. IndexSpace % BufferSize \in Int
    BY StreamAssumption, ModDef
  <2>2. Index(r) > Index(w) /\ Index(w) # 0 /\ IndexSpace % BufferSize # 0
          => ~ (w - r > IndexSpace % BufferSize)
    BY <1>3, Zenon DEF Shifted, W
  <2> QED BY <2>1, <2>2
<1>6. ASSUME NEW i \in 1 .. w - r PROVE Unread(s, Index(r))[i] = FrameAt(s, r + i - 1)
  <2>1. PICK n \in r .. w - 1 : n = r + (i - 1)
    BY Onward, Zenon
  <2>2. n \in 0 .. w - 1 /\ r + (i - 1) = r + i - 1 /\ i - 1 \in Nat
    BY <2>1, Onward, Zenon
  <2>3. r + (i - 1) <= MaxFrames + 1 /\ (Index(r) + (i - 1)) = (Index(r) + i - 1)
    <3>1. Index(r) \in Nat
      BY IndexIsNat
    <3> QED BY <1>1, <2>1, <3>1
  <2>4. (Index(r) + i - 1) % IndexSpace = Index(n)
    BY <1>2, <2>1, <2>2, <2>3, IndexPlus
  <2>5. Unread(s, Index(r))[i] = end[s].writeBuffers[Slot(n)]
    <3>1. Unread(s, Index(r))[i] = end[s].writeBuffers[((Index(r) + i - 1) % IndexSpace) % BufferSize]
      BY <1>3, Zenon DEF Unread
    <3> QED BY <2>4, <3>1, Zenon DEF Slot
  <2>6. \A m \in n + 1 .. w - 1 : Slot(m) # Slot(n)
    BY <1>2, <1>4, <1>5, NoClash
  <2>7. end[s].writeBuffers[Slot(n)] = FrameAt(s, n)
    BY <1>1, <2>2, <2>6, Zenon DEF Ring
  <2> QED BY <2>1, <2>2, <2>5, <2>7, Zenon
<1> QED BY <1>3, <1>6

LEMMA RestoreStep == ASSUME IInv, NEW s \in Sides, Restore(s) PROVE IInv'
<1> DEFINE p == Peer(s)
<1>1. /\ p \in Sides /\ p # s /\ Peer(p) = s /\ \A t \in Sides : t = s \/ t = p
      /\ Types /\ end \in [Sides -> FailoverConn] /\ end[s] \in FailoverConn
      /\ end[s].conn \in Nat
  BY PeerFacts, Typed DEF IInv, Structure, Types
<1>2. PICK k \in 1 .. Len(links) : k = end[s].next /\ end[s].conn < k
  BY NextFacts DEF Restore
<1>3. links[k].index[p] \in Seq(Nat) /\ links[k].index[p] # << >> /\ PeerIndex(s) = links[k].index[p]
  <2>1. PeerIndex(s) = links[k].index[p]
    BY <1>2, Zenon DEF PeerIndex
  <2> QED BY <1>1, <2>1, LinkTyped, Zenon DEF Types, Restore
<1>4. PICK x \in Nat : x = PeerIndex(s)[1]
  <2>1. PICK ix \in Seq(Nat) : ix = links[k].index[p]
    BY <1>3, ZenonT(120)
  <2>2. ix[1] \in Nat
    BY <1>3, <2>1
  <2> QED BY <1>3, <2>1, <2>2, Zenon
<1>5. PICK fs \in Seq(Nat) : fs = Unread(s, x) /\ Len(fs) = Behind(s, x)
  BY UnreadTyped, Zenon
<1>6. PICK phase \in {"up", "over"} : phase = Resumed(s)
  BY Zenon DEF Resumed
<1>7. /\ end[s].phase = "restore" /\ Kept(s, x)
      /\ links' = Sent(k, s, fs)
      /\ end' = [end EXCEPT ![s].phase = phase, ![s].conn = k]
      /\ spoilt' = (spoilt \/ Shifted(s, x))
      /\ UNCHANGED got
  BY <1>2, <1>4, <1>5, <1>6, Zenon DEF Restore
<1>8. PICK e \in FailoverConn : e = [end[s] EXCEPT !.phase = phase, !.conn = k]
  <2>1. k \in Nat
    OBVIOUS
  <2>2. phase \in {"up", "down", "restore", "over"}
    OBVIOUS
  <2> QED BY <1>1, <2>1, <2>2, Zenon DEF FailoverConn
<1>9. /\ e.writeIndex = end[s].writeIndex /\ e.writeBuffers = end[s].writeBuffers
      /\ e.phase = phase /\ e.conn = k /\ e.next = end[s].next
      /\ e.readIndex = end[s].readIndex /\ e.readBuffer = end[s].readBuffer
      /\ e.err = end[s].err /\ e.closed = end[s].closed
  BY <1>1, <1>8, ZenonT(120) DEF FailoverConn
<1>10. end' = [end EXCEPT ![s] = e]
  BY <1>1, <1>7, <1>8, Zenon
<1>11. end' \in [Sides -> FailoverConn] /\ end'[s] = e /\ end'[p] = end[p]
  BY <1>1, <1>10, EndChanged, Zenon
<1>12. /\ links' \in Seq(Link) /\ Len(links') = Len(links)
       /\ \A j \in 1 .. Len(links) : /\ links'[j].up = links[j].up
                                     /\ links'[j].index = links[j].index
                                     /\ links'[j].to[s] = links[j].to[s]
                                     /\ j # k \/ ~ links[j].up => links'[j] = links[j]
       /\ links[k].up => links'[k].to[p] = links[k].to[p] \o fs
  <2>1. SentTo(links', k, s, fs)
    BY <1>7, SentFacts, Zenon
  <2> QED BY <2>1, Zenon DEF SentTo
<1>13. Types'
  <2>1. spoilt' \in BOOLEAN
    BY <1>7
  <2> QED BY <2>1, <1>1, <1>7, <1>11, <1>12, Zenon DEF Types
<1>14. \A t \in Sides : /\ SameFrames(t) /\ R(t)' = R(t) /\ (end[t].next)' = end[t].next
                        /\ (end[t].readBuffer)' = end[t].readBuffer
                        /\ (end[t].closed)' = end[t].closed /\ (end[t].err)' = end[t].err
  BY <1>1, <1>9, <1>11, Zenon DEF SameFrames, W, R
<1>15. \A t \in Sides : \A n : FrameAt(t, n)' = FrameAt(t, n)
  BY <1>14, FramesKept, ZenonT(120)
<1> HIDE DEF p
<1>16. ASSUME NEW t \in Sides PROVE WriteInv(t)'
  <2>1. WriteInv(t) /\ (end[t].closed => end[t].err # "none")
    BY ErrFacts, Zenon DEF IInv, Structure
  <2> QED BY <1>1, <1>14, <2>1, WriteInvKept, StreamAssumption, ZenonT(120)
<1>17. ConnInv(s)' /\ ConnInv(p)'
  <2>1. ConnInv(s) /\ ConnInv(p)
    BY <1>1 DEF IInv, Structure
  <2>2. ConnInv(p)'
    BY <2>1, <1>11, <1>12, Zenon DEF ConnInv
  <2>3. (end[s].conn)' = k /\ (end[s].next)' = k /\ (end[s].phase)' # "restore" /\ Len(links)' = Len(links)
    BY <1>2, <1>9, <1>11, <1>12, Zenon
  <2> QED BY <2>2, <2>3 DEF ConnInv
<1>18. Met'
  <2>1. Met /\ LinkInv(k, p)
    BY <1>1 DEF IInv, Structure
  <2>2. k <= end[p].next
    BY <2>1, <1>3, Zenon DEF LinkInv
  <2>3. CASE s = "client"
    <3>1. p = "server"
      BY <2>3 DEF p, Peer
    <3> QED BY <2>2, <2>3, <3>1, <1>9, <1>11, Zenon DEF Met
  <2>4. CASE s = "server"
    <3>1. p = "client"
      BY <2>4 DEF p, Peer
    <3>2. (end["client"].conn)' = end["client"].conn /\ (end["server"].next)' = end["server"].next
      BY <2>4, <3>1, <1>9, <1>11, ZenonT(120)
    <3> QED BY <2>1, <3>2, Zenon DEF Met
  <2> QED BY <2>3, <2>4 DEF Sides
<1>19. ASSUME NEW j \in 1 .. Len(links) PROVE LinkInv(j, s)' /\ LinkInv(j, p)'
  <2>1. LinkInv(j, s) /\ LinkInv(j, p)
    BY <1>1 DEF IInv, Structure
  <2>2. LinkInv(j, s)'
    BY <2>1, <1>11, <1>12, <1>14, Zenon DEF LinkInv, p
  <2>3. (links[j].index[p])' = links[j].index[p] /\ (end[p].next)' = end[p].next /\ (end[s].conn)' = k
    BY <1>9, <1>11, <1>12, Zenon
  <2>4. k < j => links'[j] = links[j] /\ end[s].conn < j
    <3>1. k < j => j # k /\ end[s].conn < j
      BY <1>1, <1>2
    <3> QED BY <1>12, <3>1, Zenon
  <2>5. LinkInv(j, p)'
    BY <1>1, <2>1, <2>3, <2>4, Zenon DEF LinkInv
  <2> QED BY <2>2, <2>5
<1>20. Structure'
  <2>1. \A t \in Sides : WriteInv(t)' /\ ConnInv(t)' /\ \A j \in 1 .. Len(links) : LinkInv(j, t)'
    BY <1>1, <1>16, <1>17, <1>19, Zenon
  <2> QED BY <2>1, <1>12, <1>13, <1>18, Zenon DEF Structure
<1>21. ASSUME ~ spoilt', NEW t \in Sides PROVE Flow(t)'
  <2>1. Flow(t) /\ Peer(t) \in Sides
    BY <1>7, <1>21, PeerFacts, ZenonT(120) DEF IInv, Stream
  <2>2. Ended(t) => Ended(t)'
    BY <2>1, <1>14, <1>15, Zenon DEF Ended, SameFrames
  <2> QED BY <2>1, <2>2, <1>7, <1>14, ZenonT(120) DEF Flow, SameFrames
<1>22. ASSUME ~ spoilt', NEW j \in 1 .. Len(links) PROVE Lane(s, j)'
  <2> SUFFICES ASSUME Live(s, j)' PROVE Lane(s, j)'
    BY Zenon DEF Lane
  <2>1. Lane(s, j)
    BY <1>7, <1>22, Zenon DEF IInv, Stream
  <2>2. Live(s, j)
    BY <1>2, <1>7, <1>9, <1>11 DEF Live
  <2>3. /\ (links[j].to[s])' = links[j].to[s] /\ (links[j].up)' = links[j].up
        /\ (links[j].index)' = links[j].index /\ (end[p].conn)' = end[p].conn
    BY <1>11, <1>12, Zenon
  <2>4. R(s)' = R(s) /\ W(p)' = W(p)
    BY <1>1, <1>14, Zenon DEF SameFrames
  <2> QED BY <1>1, <1>15, <2>1, <2>2, <2>3, <2>4, ZenonT(120) DEF Lane, p
<1>23. ASSUME ~ spoilt', NEW j \in 1 .. Len(links) PROVE Lane(p, j)'
  <2> SUFFICES ASSUME Live(p, j)' PROVE Lane(p, j)'
    BY Zenon DEF Lane
  <2>1. Lane(p, j) /\ Live(p, j) /\ Flow(p) /\ ~ Shifted(s, x)
    BY <1>1, <1>7, <1>11, <1>23, ZenonT(120) DEF IInv, Stream, Live
  <2>2. PICK r \in Nat, w \in Nat : r = R(p) /\ w = W(s) /\ r = R(p)' /\ w = W(s)'
    BY <1>1, <1>14, Typed DEF SameFrames
  <2>3. PICK q \in Seq(Nat) : q = links[j].to[p]
    BY <1>1, LinkTyped, Zenon DEF Types
  <2>4. /\ r + Len(q) <= w
        /\ \A i \in 1 .. Len(q) : q[i] = FrameAt(s, r + i - 1)
        /\ end[s].conn < j => links[j].index[p] = <<Index(r)>>
    BY <1>1, <2>1, <2>2, <2>3, Zenon DEF Lane
  <2>5. (end[s].conn)' = k
    BY <1>9, <1>11, Zenon
  <2>6. CASE j = k
    <3>1. q = << >>
      <4>1. LinkInv(k, p)
        BY <1>1 DEF IInv, Structure
      <4> QED BY <4>1, <1>1, <1>2, <2>3, <2>6, ZenonT(120) DEF LinkInv
    <3>2. x = Index(r) /\ links[k].index[p] = <<Index(r)>>
      <4>1. links[k].index[p] = <<Index(r)>>
        BY <1>2, <2>4, <2>6, Zenon
      <4>2. <<Index(r)>>[1] = Index(r)
        OBVIOUS
      <4> QED BY <4>1, <4>2, <1>3, <1>4, Zenon
    <3>3. r <= w
      BY <2>1, <2>2, <1>1, Zenon DEF Flow
    <3>4. Len(fs) = w - r /\ \A i \in 1 .. w - r : fs[i] = FrameAt(s, r + i - 1)
      <4>1. Kept(s, Index(r)) /\ ~ Shifted(s, Index(r))
        BY <1>7, <2>1, <3>2, Zenon
      <4>2. /\ Behind(s, Index(r)) = w - r
            /\ \A i \in 1 .. w - r : Unread(s, Index(r))[i] = FrameAt(s, r + i - 1)
        BY <2>2, <3>3, <4>1, UnreadIsNext, Zenon
      <4> QED BY <1>5, <3>2, <4>2, Zenon
    <3>5. ~ ((end[s].conn)' < k)
      BY <2>5
    <3>6. CASE links[k].up
      <4>1. << >> \o fs = fs
        OBVIOUS
      <4>2. fs = (links[k].to[p])'
        BY <1>12, <2>3, <2>6, <3>1, <3>6, <4>1, Zenon
      <4>3. r + Len(fs) = w /\ r + Len(fs) <= w
        BY <3>4, <3>3
      <4>4. \A i \in 1 .. Len(fs) : fs[i] = FrameAt(s, r + i - 1)'
        BY <3>4, <1>15, Zenon
      <4>5. LaneNext(p, s, k, fs, r, w)
        BY <2>2, <3>5, <4>2, <4>3, <4>4, Zenon DEF LaneNext
      <4> QED BY <1>1, <2>6, <4>5, LaneAfter, Zenon
    <3>7. CASE ~ links[k].up
      <4>1. q = (links[k].to[p])' /\ ~ (links[k].up)'
        BY <1>12, <2>3, <2>6, <3>7, Zenon
      <4>2. \A i \in 1 .. Len(q) : q[i] = FrameAt(s, r + i - 1)'
        BY <2>4, <1>15, Zenon
      <4>3. LaneNext(p, s, k, q, r, w)
        BY <2>2, <2>4, <3>5, <4>1, <4>2, Zenon DEF LaneNext
      <4> QED BY <1>1, <2>6, <4>3, LaneAfter, Zenon
    <3> QED BY <3>6, <3>7
  <2>7. CASE j # k
    <3>1. links'[j] = links[j] /\ q = (links[j].to[p])' /\ (links[j].index[p])' = links[j].index[p]
      BY <1>12, <2>3, <2>7, ZenonT(120)
    <3>2. \A i \in 1 .. Len(q) : q[i] = FrameAt(s, r + i - 1)'
      BY <2>4, <1>15, Zenon
    <3>3. (end[s].conn)' < j => end[s].conn < j
      BY <1>1, <1>2, <2>5
    <3>4. LaneNext(p, s, j, q, r, w)
      BY <2>2, <2>4, <2>5, <2>7, <3>1, <3>2, <3>3, Zenon DEF LaneNext
    <3> QED BY <1>1, <3>4, LaneAfter, Zenon
  <2> QED BY <2>6, <2>7
<1> QED BY <1>1, <1>12, <1>20, <1>21, <1>22, <1>23, ZenonT(120) DEF IInv, Stream

LEMMA LinkAppended ==
  ASSUME NEW ls \in Seq(Link), NEW m \in Link, NEW ms, ms = Append(ls, m)
  PROVE  /\ ms \in Seq(Link) /\ Len(ls) \in Nat /\ Len(ms) = Len(ls) + 1 /\ ms[Len(ls) + 1] = m
         /\ \A j \in 1 .. Len(ls) : ms[j] = ls[j]
  OBVIOUS

LEMMA OneFrame == \A i \in Nat : <<i>> \in Seq(Nat)
  OBVIOUS

LEMMA LaneKept ==
  ASSUME NEW s, NEW p, NEW k, p = Peer(s), Live(s, k), Lane(s, k),
         R(s)' = R(s), W(p)' = W(p), (end[p].conn)' = end[p].conn, \A n : FrameAt(p, n)' = FrameAt(p, n),
         (links[k].to[s])' = links[k].to[s], (links[k].up)' = links[k].up, (links[k].index)' = links[k].index
  PROVE  Lane(s, k)'
<1>1. PICK q, r, w : q = links[k].to[s] /\ r = R(s) /\ w = W(p)
  BY Zenon
<1>2. /\ r + Len(q) <= w
      /\ \A i \in 1 .. Len(q) : q[i] = FrameAt(p, r + i - 1)
      /\ end[p].conn = k /\ links[k].up => r + Len(q) = w
      /\ end[p].conn < k => links[k].index[s] = <<Index(r)>>
  BY <1>1, Zenon DEF Lane
<1>3. LaneNext(s, p, k, q, r, w)
  BY <1>1, <1>2, Zenon DEF LaneNext
<1> QED BY <1>3, LaneAfter, Zenon

LEMMA UpTo == \A n \in Nat : \A j \in 1 .. n + 1 : j \in 1 .. n \/ j = n + 1
  OBVIOUS

(* Nothing is under way over a connection before both sides have moved on  *)
(* to it, and the client does not until the server has told its index.     *)
LEMMA DialStep == ASSUME IInv, Dial PROVE IInv'
<1>1. PICK s \in Sides, p \in Sides : s = "client" /\ p = "server"
  BY DEF Sides
<1>2. p = Peer(s) /\ s = Peer(p) /\ s # p /\ \A t \in Sides : t = s \/ t = p
  BY <1>1 DEF Peer, Sides
<1>3. /\ Types /\ end \in [Sides -> FailoverConn] /\ end[s] \in FailoverConn /\ links \in Seq(Link)
  BY Typed DEF IInv, Structure, Types
<1>4. PICK r \in Nat : r = R(s)
  BY <1>3, Typed
<1>5. PICK x \in Seq(Nat) : x = <<Index(r)>>
  <2>1. Index(r) \in Nat
    BY IndexIsNat
  <2> QED BY <2>1, OneFrame, Zenon
<1>6. << >> \in Seq(Nat) /\ Len(<< >>) = 0
  OBVIOUS
<1>7. PICK to \in [Sides -> Seq(Nat)] : to = [t \in Sides |-> << >>]
  BY <1>6, Zenon
<1>8. PICK ix \in [Sides -> Seq(Nat)] : ix = [to EXCEPT ![s] = x]
  BY Zenon
<1>9. PICK l \in Link : l = NewLink /\ l.up = TRUE /\ l.to = to /\ l.index = to
  <2>1. NewLink = [up |-> TRUE, to |-> to, index |-> to]
    BY <1>7, Zenon DEF NewLink
  <2>2. PICK l \in Link : l = [up |-> TRUE, to |-> to, index |-> to]
    BY Zenon DEF Link
  <2>3. l.up = TRUE /\ l.to = to /\ l.index = to
    BY <2>2, Zenon DEF Link
  <2> QED BY <2>1, <2>2, <2>3, Zenon
<1>10. PICK m \in Link : /\ m = [l EXCEPT !.index[s] = x] /\ m.up = TRUE
                         /\ m.to[s] = << >> /\ m.to[p] = << >> /\ m.index[s] = x /\ m.index[p] = << >>
  <2>1. PICK m \in Link : m = [l EXCEPT !.index = ix]
    BY Zenon DEF Link
  <2>2. m.up = TRUE /\ m.to = to /\ m.index = ix
    BY <1>9, <2>1, Zenon DEF Link
  <2>3. m = [l EXCEPT !.index[s] = x]
    BY <1>8, <1>9, <2>1, Zenon
  <2>4. to[s] = << >> /\ to[p] = << >> /\ ix[s] = x /\ ix[p] = << >>
    BY <1>2, <1>7, <1>8, Zenon
  <2> QED BY <2>2, <2>3, <2>4, Zenon
<1>11. links' = Append(links, m)
  BY <1>1, <1>4, <1>5, <1>9, <1>10, ZenonT(120) DEF Dial, R
<1>12. PICK n \in Nat : n = Len(links)
  BY <1>3
<1>13. /\ links' \in Seq(Link) /\ Len(links') = n + 1 /\ links'[n + 1] = m
       /\ \A j \in 1 .. n : links'[j] = links[j]
  <2>1. /\ links' \in Seq(Link) /\ Len(links') = Len(links) + 1 /\ links'[Len(links) + 1] = m
        /\ \A j \in 1 .. Len(links) : links'[j] = links[j]
    BY <1>3, <1>11, LinkAppended
  <2> QED BY <2>1, <1>12, ZenonT(120)
<1>14. PICK n1 \in Nat : n1 = n + 1
  OBVIOUS
<1>15. PICK e \in FailoverConn : e = [end[s] EXCEPT !.phase = "restore", !.next = n1]
  BY <1>3, Zenon DEF FailoverConn
<1>16. /\ e.writeIndex = end[s].writeIndex /\ e.writeBuffers = end[s].writeBuffers
       /\ e.phase = "restore" /\ e.conn = end[s].conn /\ e.next = n1
       /\ e.readIndex = end[s].readIndex /\ e.readBuffer = end[s].readBuffer
       /\ e.err = end[s].err /\ e.closed = end[s].closed
  BY <1>3, <1>15, ZenonT(120) DEF FailoverConn
<1>17. end' = [end EXCEPT ![s] = e]
  <2>1. end' = [end EXCEPT ![s].phase = "restore", ![s].next = n1]
    BY <1>1, <1>12, <1>14, Zenon DEF Dial
  <2> QED BY <2>1, <1>3, <1>15, Zenon
<1>18. end' \in [Sides -> FailoverConn] /\ end'[s] = e /\ end'[p] = end[p]
  BY <1>2, <1>3, <1>17, EndChanged, ZenonT(120)
<1>19. got' = got /\ spoilt' = spoilt
  BY DEF Dial
<1>20. Types'
  BY <1>3, <1>13, <1>18, <1>19, ZenonT(120) DEF Types
<1>21. \A t \in Sides : /\ SameFrames(t) /\ R(t)' = R(t) /\ (end[t].conn)' = end[t].conn
                        /\ (end[t].readBuffer)' = end[t].readBuffer
                        /\ (end[t].closed)' = end[t].closed /\ (end[t].err)' = end[t].err
  BY <1>2, <1>16, <1>18, ZenonT(120) DEF SameFrames, W, R
<1>22. \A t \in Sides : \A i : FrameAt(t, i)' = FrameAt(t, i)
  BY <1>21, FramesKept, Zenon
<1>23. ASSUME NEW t \in Sides PROVE WriteInv(t)'
  <2>1. WriteInv(t) /\ (end[t].closed => end[t].err # "none")
    BY ErrFacts, ZenonT(120) DEF IInv, Structure
  <2> QED BY <1>3, <1>21, <2>1, WriteInvKept, StreamAssumption, ZenonT(120)
<1>24. \A t \in Sides : /\ ConnInv(t) /\ end[t].conn \in 1 .. n /\ end[t].next \in 0 .. n
                        /\ end[t].conn \in 1 .. n1 /\ end[t].next \in 0 .. n1
                        /\ end[t].conn < n1 /\ end[t].conn <= n1 /\ end[t].conn # n1 /\ end[t].next # n1
  <2> TAKE t \in Sides
  <2>1. ConnInv(t) /\ end[t].conn \in 1 .. n /\ end[t].next \in 0 .. n
    BY <1>12, Zenon DEF IInv, Structure, ConnInv
  <2>2. PICK a \in 1 .. n, b \in 0 .. n : a = end[t].conn /\ b = end[t].next
    BY <2>1, Zenon
  <2>3. /\ a \in 1 .. n1 /\ b \in 0 .. n1
        /\ a < n1 /\ a <= n1 /\ a # n1 /\ b # n1
    BY ONLY <1>14, a \in 1 .. n, b \in 0 .. n
  <2> QED BY <2>1, <2>2, <2>3, Zenon
<1>25. ConnInv(s)' /\ ConnInv(p)' /\ Met'
  <2>1. n1 \in 0 .. n1 /\ n1 # 0
    BY <1>14
  <2>2. ConnInv(s)'
    BY <1>13, <1>14, <1>16, <1>18, <1>24, <2>1, ZenonT(120) DEF ConnInv
  <2>3. ConnInv(p)'
    BY <1>13, <1>14, <1>18, <1>24, Zenon DEF ConnInv
  <2>4. Met'
    <3>1. Met
      BY DEF IInv, Structure
    <3> QED BY <3>1, <1>1, <1>18, <1>21, ZenonT(120) DEF Met
  <2> QED BY <2>2, <2>3, <2>4
<1>26. ASSUME NEW j \in 1 .. n1 PROVE LinkInv(j, s)' /\ LinkInv(j, p)'
  <2>1. j <= n1
    OBVIOUS
  <2>2. CASE j \in 1 .. n
    <3>1. LinkInv(j, s) /\ LinkInv(j, p) /\ links'[j] = links[j]
      BY <2>2, <1>12, <1>13, ZenonT(120) DEF IInv, Structure
    <3> QED BY <3>1, <2>1, <1>2, <1>16, <1>18, <1>21, ZenonT(120) DEF LinkInv
  <2>3. CASE j = n1
    <3>1. links'[j] = m
      BY <2>3, <1>13, <1>14, Zenon
    <3> QED BY <3>1, <2>1, <1>2, <1>10, <1>16, <1>18, ZenonT(120) DEF LinkInv
  <2> QED BY <2>2, <2>3, <1>14, UpTo, ZenonT(120)
<1>27. Structure'
  <2>1. \A t \in Sides : WriteInv(t)' /\ ConnInv(t)' /\ \A j \in 1 .. n1 : LinkInv(j, t)'
    BY <1>2, <1>23, <1>25, <1>26, Zenon
  <2> QED BY <2>1, <1>13, <1>14, <1>20, <1>25, ZenonT(120) DEF Structure
<1>28. ASSUME ~ spoilt, NEW t \in Sides PROVE Flow(t)'
  <2>1. Flow(t) /\ Peer(t) \in Sides
    BY <1>28, PeerFacts, Zenon DEF IInv, Stream
  <2>2. Ended(t) => Ended(t)'
    BY <2>1, <1>21, <1>22, Zenon DEF Ended, SameFrames
  <2> QED BY <2>1, <2>2, <1>19, <1>21, Zenon DEF Flow, SameFrames
<1>29. ASSUME ~ spoilt, NEW j \in 1 .. n1 PROVE Lane(s, j)'
  <2> SUFFICES ASSUME Live(s, j)' PROVE Lane(s, j)'
    BY ZenonT(120) DEF Lane
  <2>1. j = n1
    BY <1>16, <1>18, Zenon DEF Live
  <2>2. PICK w \in Nat : w = W(p) /\ w = W(p)'
    BY <1>3, <1>21, Typed, ZenonT(120) DEF SameFrames
  <2>3. r <= w
    BY <1>2, <1>4, <1>29, <2>2, ZenonT(120) DEF IInv, Stream, Flow
  <2>4. r + Len(<< >>) <= w /\ \A i \in 1 .. Len(<< >>) : << >>[i] = FrameAt(p, r + i - 1)'
    BY <2>3
  <2>5. (end[p].conn)' # n1
    BY <1>21, <1>24, Zenon
  <2>6. LaneNext(s, p, n1, << >>, r, w)
    BY <1>4, <1>5, <1>10, <1>13, <1>14, <1>21, <2>2, <2>4, <2>5, ZenonT(120) DEF LaneNext
  <2> QED BY <2>1, <2>6, <1>2, LaneAfter, ZenonT(120)
<1>30. ASSUME ~ spoilt, NEW j \in 1 .. n1 PROVE Lane(p, j)'
  <2> SUFFICES ASSUME Live(p, j)' PROVE Lane(p, j)'
    BY Zenon DEF Lane
  <2>1. Live(p, j)
    BY <1>18, Zenon DEF Live
  <2>2. j \in 1 .. n
    <3>1. j # n1
      BY <1>24, <2>1, Zenon DEF Live
    <3> QED BY <3>1, <1>14, UpTo, Zenon
  <2>3. Lane(p, j) /\ links'[j] = links[j]
    BY <1>12, <1>13, <1>30, <2>2, Zenon DEF IInv, Stream
  <2>4. R(p)' = R(p) /\ W(s)' = W(s) /\ (end[s].conn)' = end[s].conn
    BY <1>21, Zenon DEF SameFrames
  <2>5. (links[j].to[p])' = links[j].to[p] /\ (links[j].up)' = links[j].up /\ (links[j].index)' = links[j].index
    BY <2>3, Zenon
  <2> QED BY <1>2, <1>22, <2>1, <2>3, <2>4, <2>5, LaneKept, ZenonT(120)
<1> QED BY <1>2, <1>13, <1>14, <1>19, <1>27, <1>28, <1>29, <1>30, ZenonT(120) DEF IInv, Stream

(* Closing its connection changes no other connection of side s. *)
LEMMA ClosedByOthers ==
  ASSUME IInv, NEW s \in Sides, NEW ls, ls = ClosedBy(s, links)
  PROVE  \A j \in 1 .. Len(links) : j # end[s].conn => ls[j] = links[j]
<1>1. PICK k \in 1 .. Len(links) : k = end[s].conn
  BY ConnFacts, Zenon
<1>2. /\ links \in Seq(Link) /\ links[k] \in Link /\ links[k].to \in [Sides -> Seq(Nat)]
      /\ << >> \in Seq(Nat)
  BY LinkTyped DEF IInv, Structure, Types
<1>3. PICK to \in [Sides -> Seq(Nat)] : to = [links[k].to EXCEPT ![s] = << >>]
  BY <1>2, Zenon
<1>4. ls = [links EXCEPT ![k] = [links[k] EXCEPT !.up = FALSE, !.to = to]]
  BY <1>1, <1>2, <1>3, Zenon DEF ClosedBy, Link
<1>5. PICK m \in Link : m = [links[k] EXCEPT !.up = FALSE, !.to = to]
  BY <1>2, Zenon DEF Link
<1>6. ls = [links EXCEPT ![k] = m]
  BY <1>4, <1>5, Zenon
<1>7. \A j \in 1 .. Len(links) : j # k => ls[j] = links[j]
  BY <1>2, <1>6, LinkReplaced
<1> QED BY <1>1, <1>7, Zenon

LEMMA Shorter == \A a, b \in Nat : a <= b => \A i \in 1 .. a : i \in 1 .. b
  OBVIOUS

(* The server gives up its connection: the client may still receive part   *)
(* of what is under way over it.                                           *)
LEMMA AcceptStep == ASSUME IInv, Accept PROVE IInv'
<1>1. PICK s \in Sides, p \in Sides : s = "server" /\ p = "client"
  BY DEF Sides
<1>2. p = Peer(s) /\ s = Peer(p) /\ s # p /\ \A t \in Sides : t = s \/ t = p
  BY <1>1 DEF Peer, Sides
<1>3. /\ Types /\ end \in [Sides -> FailoverConn] /\ end[s] \in FailoverConn /\ links \in Seq(Link)
      /\ end[s].conn \in Nat /\ end[s].next \in Nat /\ end[p].conn \in Nat
  BY Typed DEF IInv, Structure, Types
<1>4. PICK r \in Nat : r = R(s)
  BY <1>3, Typed
<1>5. PICK x \in Seq(Nat) : x = <<Index(r)>>
  <2>1. Index(r) \in Nat
    BY IndexIsNat
  <2> QED BY <2>1, OneFrame, Zenon
<1>6. PICK n \in 1 .. Len(links) : n = Len(links) /\ n > 1 /\ end[s].next < n /\ n \in Nat
  <2>1. end[s].next < Len(links) /\ Len(links) > 1
    BY <1>1, Zenon DEF Accept
  <2>2. PICK n \in Nat : n = Len(links)
    BY <1>3, LenProperties, Zenon
  <2>3. n > 1 => n \in 1 .. n
    BY ONLY n \in Nat
  <2> QED BY <2>1, <2>2, <2>3, Zenon
<1>7. PICK k \in 1 .. n : k = end[s].conn /\ k < n /\ end[p].conn < n
  <2>1. ConnInv(s) /\ Met
    BY DEF IInv, Structure
  <2>2. end[s].conn \in 1 .. n /\ end[s].conn < n
    BY <2>1, <1>3, <1>6 DEF ConnInv
  <2>3. end[p].conn = 1 \/ end[p].conn <= end[s].next
    BY <2>1, <1>1, Zenon DEF Met
  <2>4. end[p].conn < n
    BY <2>3, <1>3, <1>6
  <2> QED BY <2>2, <2>4, Zenon
<1>8. PICK ls \in Seq(Link) :
        /\ ls = ClosedBy(s, links) /\ Len(ls) = n
        /\ \A j \in 1 .. n : /\ Fades(links[j], ls[j])
                             /\ j # k => ls[j] = links[j]
  <2>1. PICK ls : ls = ClosedBy(s, links)
    BY Zenon
  <2>2. AllFade(ls)
    BY <2>1, ClosedByFades, Zenon
  <2>3. \A j \in 1 .. Len(links) : j # end[s].conn => ls[j] = links[j]
    BY <2>1, ClosedByOthers, Zenon
  <2> QED BY <2>1, <2>2, <2>3, <1>6, <1>7, Zenon DEF AllFade
<1>9. ls[n] = links[n] /\ ls[n] \in Link /\ ls[n].index \in [Sides -> Seq(Nat)]
  <2>1. n # k /\ n \in 1 .. n /\ n \in 1 .. Len(ls)
    BY <1>6, <1>7, <1>8
  <2> QED BY <2>1, <1>8, LinkTyped, ZenonT(120)
<1>10. PICK ix \in [Sides -> Seq(Nat)] : ix = [ls[n].index EXCEPT ![s] = x]
  BY <1>9, Zenon
<1>11. PICK m \in Link : m = [ls[n] EXCEPT !.index = ix]
  BY <1>9, Zenon DEF Link
<1>12. /\ m.up = links[n].up /\ m.to = links[n].to
       /\ m.index[s] = x /\ m.index[p] = links[n].index[p]
  <2>1. m.up = ls[n].up /\ m.to = ls[n].to /\ m.index = ix
    BY <1>9, <1>11, Zenon DEF Link
  <2>2. ix[s] = x /\ ix[p] = ls[n].index[p]
    BY <1>2, <1>9, <1>10, Zenon
  <2> QED BY <2>1, <2>2, <1>9, Zenon
<1>13. links' = [ls EXCEPT ![n] = m]
  <2>1. links' = [ls EXCEPT ![n].index[s] = x]
    BY <1>1, <1>4, <1>5, <1>6, <1>8, Zenon DEF Accept, R
  <2> QED BY <2>1, <1>10, <1>11, Zenon
<1>14. /\ links' \in Seq(Link) /\ Len(links') = n /\ links'[n] = m
       /\ \A j \in 1 .. n : j # n => links'[j] = ls[j]
  <2>1. n \in 1 .. Len(ls)
    BY <1>6, <1>8
  <2>2. /\ links' \in Seq(Link) /\ Len(links') = Len(ls) /\ links'[n] = m
        /\ \A j \in 1 .. Len(ls) : j # n => links'[j] = ls[j]
    BY <2>1, <1>13, LinkReplaced
  <2> QED BY <2>2, <1>8, Zenon
<1>15. ASSUME NEW j \in 1 .. n
       PROVE  /\ links'[j].index[p] = links[j].index[p]
              /\ links'[j].up => links[j].up /\ links'[j].to = links[j].to
              /\ \A t \in Sides : Len(links'[j].to[t]) \in Nat /\ Len(links[j].to[t]) \in Nat
              /\ Prefixes(links'[j].to, links[j].to)
  <2>0. \A t \in Sides : Len(links'[j].to[t]) \in Nat /\ Len(links[j].to[t]) \in Nat
    BY <1>3, <1>6, <1>14, LinkTyped, Zenon
  <2>1. CASE j # n
    BY <2>0, <2>1, <1>8, <1>14, Zenon DEF Fades
  <2>2. CASE j = n
    <3>1. Prefixes(links[j].to, links[j].to)
      BY <2>0 DEF Prefixes
    <3> QED BY <2>0, <2>2, <3>1, <1>12, <1>14, Zenon
  <2> QED BY <2>1, <2>2
<1>16. PICK e \in FailoverConn : e = [end[s] EXCEPT !.phase = "restore", !.next = n]
  BY <1>3, <1>6, Zenon DEF FailoverConn
<1>17. /\ e.writeIndex = end[s].writeIndex /\ e.writeBuffers = end[s].writeBuffers
       /\ e.phase = "restore" /\ e.conn = end[s].conn /\ e.next = n
       /\ e.readIndex = end[s].readIndex /\ e.readBuffer = end[s].readBuffer
       /\ e.err = end[s].err /\ e.closed = end[s].closed
  BY <1>3, <1>16, Zenon DEF FailoverConn
<1>18. end' = [end EXCEPT ![s] = e]
  <2>1. end' = [end EXCEPT ![s].phase = "restore", ![s].next = n]
    BY <1>1, <1>6, Zenon DEF Accept
  <2> QED BY <2>1, <1>3, <1>16, Zenon
<1>19. end' \in [Sides -> FailoverConn] /\ end'[s] = e /\ end'[p] = end[p]
  BY <1>2, <1>3, <1>18, EndChanged, Zenon
<1>20. got' = got /\ spoilt' = spoilt
  BY DEF Accept
<1>21. Types'
  BY <1>3, <1>14, <1>19, <1>20, Zenon DEF Types
<1>22. \A t \in Sides : /\ SameFrames(t) /\ R(t)' = R(t) /\ (end[t].conn)' = end[t].conn
                        /\ (end[t].readBuffer)' = end[t].readBuffer
                        /\ (end[t].closed)' = end[t].closed /\ (end[t].err)' = end[t].err
  BY <1>2, <1>17, <1>19, Zenon DEF SameFrames, W, R
<1>23. \A t \in Sides : \A i : FrameAt(t, i)' = FrameAt(t, i)
  BY <1>22, FramesKept, Zenon
<1>24. ASSUME NEW t \in Sides PROVE WriteInv(t)'
  <2>1. WriteInv(t) /\ (end[t].closed => end[t].err # "none")
    BY ErrFacts DEF IInv, Structure
  <2> QED BY <1>3, <1>22, <2>1, WriteInvKept, StreamAssumption, ZenonT(120)
<1>25. ConnInv(s)' /\ ConnInv(p)' /\ Met'
  <2>1. ConnInv(s) /\ ConnInv(p) /\ Met
    BY DEF IInv, Structure
  <2>2. ConnInv(s)'
    <3>1. n \in 0 .. n /\ n # 0 /\ k <= n
      BY <1>6, <1>7
    <3> QED BY <3>1, <1>7, <1>14, <1>17, <1>19, ZenonT(120) DEF ConnInv
  <2>3. ConnInv(p)'
    BY <2>1, <1>6, <1>14, <1>19, Zenon DEF ConnInv
  <2>4. Met'
    <3>1. end[p].conn <= n
      BY <1>3, <1>7
    <3> QED BY <3>1, <1>1, <1>17, <1>19, ZenonT(120) DEF Met
  <2> QED BY <2>2, <2>3, <2>4, ZenonT(120)
<1>26. ASSUME NEW j \in 1 .. n PROVE LinkInv(j, s)' /\ LinkInv(j, p)'
  <2>1. LinkInv(j, s) /\ LinkInv(j, p)
    BY <1>6, Zenon DEF IInv, Structure
  <2>2. ASSUME NEW t \in Sides, links[j].to[t] = << >> PROVE (links[j].to[t])' = << >>
    <3>1. Len(links'[j].to[t]) <= Len(links[j].to[t])
      BY <1>15, Zenon DEF Prefixes
    <3>2. links'[j].to[t] \in Seq(Nat)
      BY <1>14, LinkTyped, Zenon
    <3> QED BY <2>2, <3>1, <3>2
  <2>3. j <= n
    OBVIOUS
  <2>4. LinkInv(j, s)'
    BY <2>1, <2>2, <2>3, <1>2, <1>17, <1>19, Zenon DEF LinkInv
  <2>5. LinkInv(j, p)'
    BY <2>1, <2>2, <1>2, <1>15, <1>19, <1>22, ZenonT(120) DEF LinkInv
  <2> QED BY <2>4, <2>5
<1>27. Structure'
  <2>1. \A t \in Sides : WriteInv(t)' /\ ConnInv(t)' /\ \A j \in 1 .. n : LinkInv(j, t)'
    BY <1>2, <1>24, <1>25, <1>26, Zenon
  <2> QED BY <2>1, <1>14, <1>21, <1>25, Zenon DEF Structure
<1>28. ASSUME ~ spoilt, NEW t \in Sides PROVE Flow(t)'
  <2>1. Flow(t) /\ Peer(t) \in Sides
    BY <1>28, PeerFacts, Zenon DEF IInv, Stream
  <2>2. Ended(t) => Ended(t)'
    BY <2>1, <1>22, <1>23, ZenonT(120) DEF Ended, SameFrames
  <2> QED BY <2>1, <2>2, <1>20, <1>22, Zenon DEF Flow, SameFrames
<1>29. ASSUME ~ spoilt, NEW j \in 1 .. n PROVE Lane(s, j)'
  <2> SUFFICES ASSUME Live(s, j)' PROVE Lane(s, j)'
    BY ZenonT(120) DEF Lane
  <2>1. j = n
    BY <1>17, <1>19, Zenon DEF Live
  <2>2. PICK w \in Nat : w = W(p) /\ w = W(p)'
    BY <1>3, <1>22, Typed DEF SameFrames
  <2>3. r <= w
    BY <1>2, <1>4, <1>29, <2>2, ZenonT(120) DEF IInv, Stream, Flow
  <2>4. r + Len(<< >>) <= w /\ \A i \in 1 .. Len(<< >>) : << >>[i] = FrameAt(p, r + i - 1)'
    BY <2>3
  <2>5. (end[p].conn)' # n
    <3>1. end[p].conn # n
      BY <1>3, <1>7
    <3> QED BY <3>1, <1>22, Zenon
  <2>6. (links[n].to[s])' = << >>
    <3>1. LinkInv(n, s)
      BY <1>6, Zenon DEF IInv, Structure
    <3> QED BY <3>1, <1>2, <1>7, <1>12, <1>14, Zenon DEF LinkInv
  <2>7. LaneNext(s, p, n, << >>, r, w)
    BY <1>4, <1>5, <1>12, <1>14, <1>22, <2>2, <2>4, <2>5, <2>6, ZenonT(120) DEF LaneNext
  <2> QED BY <2>1, <2>7, <1>2, LaneAfter, ZenonT(120)
<1>30. ASSUME ~ spoilt, NEW j \in 1 .. n PROVE Lane(p, j)'
  <2> SUFFICES ASSUME Live(p, j)' PROVE Lane(p, j)'
    BY Zenon DEF Lane
  <2>1. Live(p, j)
    BY <1>19, Zenon DEF Live
  <2>2. Lane(p, j)
    BY <1>6, <1>30, Zenon DEF IInv, Stream
  <2>3. PICK q \in Seq(Nat), q1 \in Seq(Nat) : q = links[j].to[p] /\ q1 = (links[j].to[p])'
    BY <1>3, <1>6, <1>14, LinkTyped, ZenonT(120)
  <2>4. PICK c \in Nat, w \in Nat : c = R(p) /\ w = W(s) /\ c = R(p)' /\ w = W(s)'
    BY <1>3, <1>22, Typed, ZenonT(120) DEF SameFrames
  <2>5. /\ c + Len(q) <= w
        /\ \A i \in 1 .. Len(q) : q[i] = FrameAt(s, c + i - 1)
        /\ end[s].conn = j /\ links[j].up => c + Len(q) = w
        /\ end[s].conn < j => links[j].index[p] = <<Index(c)>>
    BY <1>2, <2>1, <2>2, <2>3, <2>4, Zenon DEF Lane
  <2>6. /\ Len(q) \in Nat /\ Len(q1) \in Nat /\ Len(q1) <= Len(q)
        /\ \A i \in 1 .. Len(q1) : q1[i] = q[i]
        /\ (links[j].up)' => links[j].up /\ q1 = q
        /\ (links[j].index[p])' = links[j].index[p]
    BY <1>15, <2>3, ZenonT(120) DEF Prefixes
  <2>7. c + Len(q1) <= w
    BY <2>5, <2>6, LessBelow, Zenon
  <2>8. \A i \in 1 .. Len(q1) : q1[i] = FrameAt(s, c + i - 1)'
    <3> TAKE i \in 1 .. Len(q1)
    <3>1. i \in 1 .. Len(q)
      BY <2>6, Shorter, Zenon
    <3> QED BY <3>1, <2>5, <2>6, <1>23, ZenonT(120)
  <2>9. /\ (end[s].conn)' = j /\ (links[j].up)' => c + Len(q1) = w
        /\ (end[s].conn)' < j => (links[j].index[p])' = <<Index(c)>>
    BY <2>5, <2>6, <1>22, Zenon
  <2>10. LaneNext(p, s, j, q1, c, w)
    BY <2>3, <2>4, <2>7, <2>8, <2>9, ZenonT(120) DEF LaneNext
  <2> QED BY <2>10, <1>2, LaneAfter, Zenon
<1> QED BY <1>2, <1>14, <1>20, <1>27, <1>28, <1>29, <1>30, Zenon DEF IInv, Stream

-----------------------------------------------------------------------------
(* The theorems. *)

LEMMA InitInvariant == Init => IInv
<1> SUFFICES ASSUME Init PROVE IInv
  OBVIOUS
<1>1. << >> \in Seq(Nat) /\ << >> \in Seq(Units2) /\ Len(<< >>) = 0 /\ 0 \in Nat /\ 1 \in Nat
  OBVIOUS
<1>2. PICK to \in [Sides -> Seq(Nat)] : to = [t \in Sides |-> << >>]
  BY <1>1, Zenon
<1>3. PICK l \in Link : l = NewLink /\ l.to = to /\ l.index = to
  <2>1. NewLink = [up |-> TRUE, to |-> to, index |-> to]
    BY <1>2, Zenon DEF NewLink
  <2>2. PICK l \in Link : l = [up |-> TRUE, to |-> to, index |-> to]
    BY Zenon DEF Link
  <2>3. l.to = to /\ l.index = to
    BY <2>2, Zenon DEF Link
  <2> QED BY <2>1, <2>2, <2>3, Zenon
<1>4. PICK wb \in [0 .. BufferSize - 1 -> Nat] : wb = [i \in 0 .. BufferSize - 1 |-> None]
  BY <1>1, Zenon DEF None
<1>5. PICK e \in FailoverConn :
        /\ e = NewFailoverConn
        /\ e.phase = "up" /\ e.conn = 1 /\ e.next = 0 /\ e.readIndex = 0 /\ e.readBuffer = << >>
        /\ e.writeIndex = 0 /\ e.err = "none" /\ e.closed = FALSE
  <2> DEFINE new == [phase |-> "up", conn |-> 1, next |-> 0, readIndex |-> 0, readBuffer |-> << >>,
                     writeIndex |-> 0, writeBuffers |-> wb, err |-> "none", closed |-> FALSE]
  <2>1. NewFailoverConn = new
    BY <1>4, Zenon DEF NewFailoverConn, None
  <2>2. PICK e \in FailoverConn : e = new
    BY <1>1, Zenon DEF FailoverConn
  <2>3. /\ e.phase = "up" /\ e.conn = 1 /\ e.next = 0 /\ e.readIndex = 0 /\ e.readBuffer = << >>
        /\ e.writeIndex = 0 /\ e.err = "none" /\ e.closed = FALSE
    BY <2>2, Zenon
  <2> QED BY <2>1, <2>2, <2>3, Zenon
<1>6. links = <<l>> /\ links \in Seq(Link) /\ Len(links) = 1 /\ links[1] = l
  BY <1>3 DEF Init
<1>7. end \in [Sides -> FailoverConn] /\ \A s \in Sides : end[s] = e
  BY <1>5, Zenon DEF Init
<1>8. got \in [Sides -> Seq(Units2)] /\ \A s \in Sides : got[s] = << >>
  BY <1>1, Zenon DEF Init
<1>9. Types
  <2>1. spoilt \in BOOLEAN
    BY Zenon DEF Init
  <2> QED BY <2>1, <1>6, <1>7, <1>8, Zenon DEF Types
<1>10. \A s \in Sides : W(s) = 0 /\ R(s) = 0 /\ Peer(s) \in Sides
  BY <1>5, <1>7, PeerFacts, ZenonT(120) DEF W, R
<1>11. ASSUME NEW s \in Sides PROVE WriteInv(s) /\ ConnInv(s)
  <2>1. end[s] = e /\ W(s) = 0
    BY <1>7, <1>10
  <2>2. Ring(s)
    BY <2>1 DEF Ring
  <2>3. WriteInv(s)
    BY <1>5, <2>1, <2>2, StreamAssumption DEF WriteInv
  <2>4. ConnInv(s)
    BY <1>5, <1>6, <2>1 DEF ConnInv
  <2> QED BY <2>3, <2>4
<1>12. Met
  BY <1>5, <1>7 DEF Met, Sides
<1>13. ASSUME NEW s \in Sides, NEW k \in 1 .. Len(links)
       PROVE  k = 1 /\ links[k].to[s] = << >> /\ links[k].index[s] = << >>
  <2>1. k = 1
    BY <1>6
  <2> QED BY <2>1, <1>2, <1>3, <1>6, ZenonT(120)
<1>14. ASSUME NEW s \in Sides, NEW k \in 1 .. Len(links) PROVE LinkInv(k, s)
  BY <1>13, Zenon DEF LinkInv
<1>15. Structure
  BY <1>9, <1>11, <1>12, <1>14, Zenon DEF Structure
<1>16. ASSUME NEW s \in Sides PROVE Flow(s)
  <2>1. /\ R(s) = 0 /\ W(Peer(s)) = 0 /\ got[s] = << >> /\ end[s].readBuffer = << >> /\ end[s].err = "none"
    BY <1>5, <1>7, <1>8, <1>10, ZenonT(120)
  <2> QED BY <2>1 DEF Flow
<1>17. ASSUME NEW s \in Sides, NEW k \in 1 .. Len(links) PROVE Lane(s, k)
  <2>1. R(s) = 0 /\ W(Peer(s)) = 0 /\ links[k].to[s] = << >> /\ ~ end[Peer(s)].conn < k
    <3>1. ~ 1 < 1
      OBVIOUS
    <3> QED BY <3>1, <1>5, <1>7, <1>10, <1>13, Zenon
  <2> QED BY <2>1 DEF Lane
<1> QED BY <1>15, <1>16, <1>17 DEF IInv, Stream

LEMMA StutterStep == ASSUME IInv, UNCHANGED vars PROVE IInv'
<1>1. links' = links /\ end' = end /\ got' = got /\ spoilt' = spoilt
  BY DEF vars
<1>2. AllFade(links')
  BY <1>1, FadesItself, Zenon
<1>3. "client" \in Sides
  BY DEF Sides
<1>4. PICK e \in FailoverConn : e = end["client"]
  BY <1>3 DEF IInv, Structure, Types
<1>5. end' = [end EXCEPT !["client"] = e]
  BY <1>1, <1>4 DEF IInv, Structure, Types
<1> QED BY <1>1, <1>2, <1>3, <1>4, <1>5, ErrFacts, LossAt, ZenonT(120) DEF W, R

LEMMA StepInvariant == IInv /\ [Next]_vars => IInv'
<1> SUFFICES ASSUME IInv, [Next]_vars PROVE IInv'
  OBVIOUS
<1>1. ASSUME NEW k \in DOMAIN links, Cut(k) PROVE IInv'
  <2>1. k \in 1 .. Len(links)
    BY DEF IInv, Structure, Types
  <2> QED BY <1>1, <2>1, CutStep
<1>2. ASSUME NEW s \in Sides, Write(s) \/ WriteFails(s) \/ Close(s) PROVE IInv'
  BY <1>2, WriteStep, WriteFailsStep, CloseStep
<1>3. ASSUME NEW s \in Sides, NEW n \in 1 .. 2, ReadFrame(s, n) PROVE IInv'
  BY <1>3, ReadFrameStep
<1>4. ASSUME NEW s \in Sides, ReadRest(s) \/ ReadClosed(s) \/ ReadFails(s) \/ ReadCut(s) PROVE IInv'
  BY <1>4, ReadRestStep, ReadClosedStep, ReadFailsStep, ReadCutStep, ZenonT(120)
<1>5. ASSUME NEW s \in Sides, Restore(s) \/ RestoreBroken(s) \/ RestoreFails(s) \/ Expire(s) PROVE IInv'
  BY <1>5, RestoreStep, RestoreBrokenStep, RestoreFailsStep, ExpireStep
<1>6. ASSUME Dial \/ DialNotFound \/ Accept PROVE IInv'
  BY <1>6, DialStep, DialNotFoundStep, AcceptStep
<1>7. CASE UNCHANGED vars
  BY <1>7, StutterStep
<1> QED BY <1>1, <1>2, <1>3, <1>4, <1>5, <1>6, <1>7, ZenonT(120) DEF Next

(* Over any Writes, Reads, losses, reconnects and Closes (conn.go), the    *)
(* ring holds the latest frames and what is under way to a side is what it *)
(* reads next.                                                             *)
THEOREM StreamInvariant == Spec => []IInv
  BY InitInvariant, StepInvariant, PTL DEF Spec

(* What Read returns is, in order and without gap or repetition, what the  *)
(* Write of the peer took, over any number of broken and restored          *)
(* connections and across the wrap of the indexes, for rings and index     *)
(* spaces of any size (conn.go, Read, Write and RestoreConn).              *)
THEOREM StreamStaysIntact == Spec => []StreamIntact
<1>1. ASSUME IInv PROVE StreamIntact
  <2> SUFFICES ASSUME ~ spoilt, NEW s \in Sides, NEW i \in DOMAIN got[s]
               PROVE  got[s][i] = <<(i + 1) \div 2, 2 - (i % 2)>>
    BY Zenon DEF StreamIntact
  <2>1. Flow(s) /\ got[s] \in Seq(Units2)
    BY <1>1, Typed, Zenon DEF IInv, Stream, Structure
  <2>2. i \in 1 .. Len(got[s])
    BY <2>1
  <2> QED BY <2>1, <2>2, Zenon DEF Flow, UnitAt
<1> QED BY <1>1, StreamInvariant, PTL

(* A Read that reports io.EOF for the peer's empty frame comes after all   *)
(* the data the peer wrote before it closed (conn.go, Read and Close).     *)
THEOREM EndMeansEnd == Spec => []EndIsEnd
<1>1. ASSUME IInv PROVE EndIsEnd
  <2> SUFFICES ASSUME NEW s \in Sides, ~ spoilt, end[s].err = "EOF", ~ end[s].closed
               PROVE  Len(got[s]) = 2 * (end[Peer(s)].writeIndex - 1)
    BY DEF EndIsEnd
  <2>1. Flow(s)
    BY <1>1 DEF IInv, Stream
  <2> QED BY <2>1, Zenon DEF Flow, Ended, W
<1> QED BY <1>1, StreamInvariant, PTL
=============================================================================
