----------------------------- MODULE KcpProofs -----------------------------
(***************************************************************************)
(* Proofs about the KCP transport: the stream arrives in order, nothing is *)
(* lost, and io.EOF is the end, for any size of the windows, any number of *)
(* segments and of packets on their way, and any place where the numbers   *)
(* wrap.  The proofs need that two segments of the stream never share a    *)
(* number and that less than half of the numbers is in use                 *)
(* (NumbersAssumption).                                                    *)
(*                                                                         *)
(* The sections: the inductive invariant, facts about numbers and states,  *)
(* sending, Write and Read, Input, Close and the timers, the theorems.     *)
(***************************************************************************)
EXTENDS Kcp, TLAPS

(* What a leaf is tried with that names no prover of its own. *)
USE SMT, Zenon, Z3T(40), SMTT(40), ZenonT(120)

TypeOK ==
  /\ state \in [Ends -> States]
  /\ pushed \in [Ends -> Nat] /\ next \in [Ends -> Nat]
  /\ cache \in [Ends -> SUBSET [number : Numbers, data : Nat]]
  /\ window \in [Ends -> SUBSET [number : Numbers, data : Nat]]
  /\ stream \in [Ends -> SUBSET [at : Nat, data : Nat]]
  /\ acks \in [Ends -> SUBSET Numbers]
  /\ reader \in [Ends -> {"idle", "empty", "end"}]
  /\ DOMAIN net = Ends
  /\ excuse \in [Ends -> SUBSET {"sending", "reading"}]

(* No more is read than was written, and no more written than the bound. *)
Bounds(e) ==
  /\ First \in Nat /\ MaxSegments \in Nat /\ ReceivingWindow \in Nat
  /\ next[e] \in Nat /\ pushed[e] \in Nat /\ pushed[Peer(e)] \in Nat
  /\ First =< next[e] /\ next[e] =< pushed[Peer(e)] /\ pushed[e] =< First + MaxSegments

(* The payloads an end has written. *)
Written(e) == First .. pushed[e] - 1

(* Payload d has reached end e. *)
Received(e, d) == d < next[e] \/ Segment(d) \in window[e]

(* Segments carry the number of their payload. *)
CacheInv(e)  == \A s \in cache[e] : s.data \in Written(e) /\ s = Segment(s.data)
WindowInv(e) == \A s \in window[e] : s.data \in Written(Peer(e)) /\ s = Segment(s.data)

(* What was read is the beginning of what was written. *)
StreamInv(e) ==
  /\ \A r \in stream[e] : r.data = r.at
  /\ \A d \in First .. next[e] - 1 : \E r \in stream[e] : r.data = d

(* Only what was received is acknowledged. *)
Covers(e, n) == \E d \in Written(Peer(e)) : n = Number(d) /\ Received(e, d)
Reached(e, n) == \E d \in First .. next[e] : n = Number(d)
AckInv(e) == \A n \in acks[e] : Covers(e, n)

Gone(e) == state[e] \in {Terminating, Terminated}

(* A packet sent by end e. *)
Packet(e, m) ==
  \/ /\ m.type = "data" /\ m.data \in Written(e) /\ m.number = Number(m.data)
  \/ /\ m.type = "ack" /\ Reached(e, m.receivingNext) /\ \A n \in m.numbers : Covers(e, n)
  \/ /\ m.type \in {"ping", "terminate"} /\ Reached(e, m.receivingNext)
     /\ m.type = "terminate" => Gone(e) /\ ~ m.close
NetInv(e) == \A m \in net[Peer(e)] : Packet(e, m)

(* What the sender may still have to send. *)
KeptInv(e) ==
  "sending" \notin excuse[e] =>
    /\ \A d \in Written(e) : Segment(d) \in cache[e] \/ Received(Peer(e), d)
    /\ ClosesWrite(state[e]) => cache[e] = {}

(* The reader knows the end when it sees it. *)
AtEnd(e) == Gone(Peer(e)) /\ ("sending" \notin excuse[Peer(e)] => next[e] = pushed[Peer(e)])
EndInv(e) ==
  /\ state[e] = PeerTerminating => Gone(Peer(e))
  /\ "reading" \notin excuse[e] =>
       /\ state[e] # ReadyToClose
       /\ reader[e] = "empty" => ~ Has(e, Number(next[e]))
       /\ Gone(e) \/ reader[e] = "end" => AtEnd(e)

EndsInv(e) == /\ Bounds(e) /\ CacheInv(e) /\ WindowInv(e) /\ StreamInv(e) /\ AckInv(e)
              /\ NetInv(e) /\ KeptInv(e) /\ EndInv(e)

IInv == TypeOK /\ \A e \in Ends : EndsInv(e)

----------------------------------------------------------------------------
(* The other end of the other end is this one (EndsAssumption). *)
LEMMA PeerFacts ==
  ASSUME NEW e \in Ends
  PROVE  /\ Peer(e) \in Ends /\ Peer(e) # e /\ Peer(Peer(e)) = e
         /\ \A x \in Ends : x = e \/ x = Peer(e)
<1>1. PICK a \in Ends, b \in Ends : a # b /\ Ends = {a, b}
  BY EndsAssumption
<1>2. \A x \in Ends : Peer(x) \in Ends /\ Peer(x) # x
  BY <1>1 DEF Peer
<1> QED
  BY <1>1, <1>2

(* uint32 arithmetic: the payloads of a connection have numbers of their   *)
(* own, and the distance between two of them is what it seems.             *)
LEMMA NumberFacts ==
  /\ \A d \in First .. First + MaxSegments + ReceivingWindow : Number(d) \in Numbers
  /\ \A c, d \in First .. First + MaxSegments + ReceivingWindow :
       Number(c) = Number(d) => c = d
  /\ \A c, d \in First .. First + MaxSegments :
       c =< d /\ d < First + MaxSegments => Minus(Number(d), Number(c)) =< Half
<1> DEFINE H == NumberSpace \div 2
<1>1. H \in Nat /\ 2 * H =< NumberSpace
  BY NumbersAssumption
<1>2. MaxSegments + ReceivingWindow =< H
  BY NumbersAssumption
<1>3. Half = H - 1
  BY DEF Half
<1> HIDE DEF H
<1> QED
  BY <1>1, <1>2, <1>3, NumbersAssumption DEF Number, Numbers, Minus

(* The numbers of what was written. *)
LEMMA WrittenFacts ==
  ASSUME NEW e \in Ends, Bounds(e)
  PROVE  /\ \A d \in Written(e) : d \in Nat /\ Number(d) \in Numbers /\ Segment(d).data = d
                                  /\ Segment(d) \in [number : Numbers, data : Nat]
         /\ \A c, d \in Written(e) : Number(c) = Number(d) => c = d
<1>1. \A d \in Written(e) : d \in Nat /\ d \in First .. First + MaxSegments + ReceivingWindow
  BY DEF Written, Bounds
<1>2. \A d \in Written(e) : d \in Nat /\ Number(d) \in Numbers
  BY <1>1, NumberFacts
<1>3. \A c, d \in Written(e) : Number(c) = Number(d) => c = d
  BY <1>1, NumberFacts
<1>4. \A d \in Written(e) : Segment(d).data = d /\ Segment(d) \in [number : Numbers, data : Nat]
  BY <1>2 DEF Segment
<1> QED
  BY <1>2, <1>3, <1>4

(* Received, Covers, Reached and Packet never become false. *)
Grown(e) ==
  /\ Written(e) \subseteq Written(e)' /\ Written(Peer(e)) \subseteq Written(Peer(e))'
  /\ First .. next[e] \subseteq (First .. next[e])'
  /\ \A d \in Written(Peer(e)) : Received(e, d) => Received(e, d)'
  /\ Gone(e) => Gone(e)'

(* What has been received, acknowledged or sent truly stays true. *)
LEMMA Growth ==
  ASSUME NEW e \in Ends, Grown(e)
  PROVE  /\ \A n : Covers(e, n) => Covers(e, n)'
         /\ \A n : Reached(e, n) => Reached(e, n)'
         /\ \A m : Packet(e, m) => Packet(e, m)'
<1>1. \A n : Covers(e, n) => Covers(e, n)'
  BY DEF Covers, Grown
<1>2. \A n : Reached(e, n) => Reached(e, n)'
  BY DEF Reached, Grown
<1>3. \A m : Packet(e, m) => Packet(e, m)'
  BY <1>1, <1>2 DEF Packet, Grown
<1> QED
  BY <1>1, <1>2, <1>3

----------------------------------------------------------------------------
(* SetState and the Close that may overlap with it. *)
LEMMA OutcomeFacts ==
  ASSUME TypeOK, NEW e \in Ends, NEW s \in States, NEW o \in Outcomes(e, s)
  PROVE  /\ o.state \in {s, OnClose(state[e])} /\ o.state \in States
         /\ o.why \subseteq {"sending", "reading"} /\ o.cache \subseteq cache[e]
         /\ "reading" \notin o.why => o.state = s
         /\ Gone(e) => o.state = s
         /\ "sending" \notin o.why \union GivesUp(e, s) =>
              /\ o.cache = cache[e]
              /\ ClosesWrite(o.state) => cache[e] = {}
<1> DEFINE t == OnClose(state[e])
<1>1. state[e] \in States /\ t \in States
  BY DEF TypeOK, OnClose, States
<1>2. \A u, C : CacheIn(u, C) \subseteq C /\ (~ ClosesWrite(u) => CacheIn(u, C) = C)
  BY DEF CacheIn, CloseWrite, Clear
<1>3. GivesUp(e, s) \subseteq {"sending"} /\ GivesUp(e, t) \subseteq {"sending"}
  BY DEF GivesUp, Because
<1>4. \A u : "sending" \notin GivesUp(e, u) => ~ ClosesWrite(u) \/ cache[e] = {}
  BY DEF GivesUp, Because
<1>5. Gone(e) => t = state[e]
  BY DEF Gone, OnClose, Terminating, Terminated, Active, PeerClosed, PeerTerminating
<1>6. CASE o = [state |-> s, cache |-> CacheIn(s, cache[e]), why |-> {}]
  <2>1. o.state = s /\ o.cache = CacheIn(s, cache[e]) /\ o.why = {}
    BY <1>6
  <2> QED
    BY <1>2, <1>4, <2>1
<1>7. CASE /\ t # state[e]
           /\ \E u \in {s, t} :
                o = [state |-> u, cache |-> CacheIn(s, CacheIn(t, cache[e])),
                     why |-> {"reading"} \union GivesUp(e, t)]
  <2>1. /\ o.state \in {s, t} /\ o.cache = CacheIn(s, CacheIn(t, cache[e]))
        /\ o.why = {"reading"} \union GivesUp(e, t)
    BY <1>7
  <2>2. o.cache \subseteq cache[e]
    BY <1>2, <2>1
  <2>3. "sending" \notin o.why \union GivesUp(e, s) =>
          /\ o.cache = cache[e]
          /\ ClosesWrite(o.state) => cache[e] = {}
    BY <1>2, <1>4, <2>1
  <2> QED
    BY <1>1, <1>3, <1>5, <1>7, <2>1, <2>2, <2>3
<1> QED
  BY <1>6, <1>7 DEF Outcomes

(* A change of state keeps the invariant when it excuses what it gives up, *)
(* and tells the end of the stream only where it is.                       *)
LEMMA SetStateStep ==
  ASSUME IInv, NEW e \in Ends, NEW s \in States, NEW E \in SUBSET {"sending", "reading"},
         SetState(e, s, E), UNCHANGED <<receiving, reader, net>>,
         GivesUp(e, s) \subseteq E \/ cache[e] = {},
         Gone(e) => s \in {Terminating, Terminated},
         s # PeerTerminating, OnClose(state[e]) # PeerTerminating \/ state[e] = PeerTerminating,
         "reading" \notin excuse[e] \union E =>
           s # ReadyToClose /\ (s \in {Terminating, Terminated} => AtEnd(e))
  PROVE  IInv'
<1> DEFINE p == Peer(e)
<1>0. p \in Ends /\ p # e /\ Peer(p) = e /\ \A x \in Ends : x = e \/ x = p
  BY PeerFacts
<1>i. EndsInv(e) /\ EndsInv(p) /\ TypeOK
  BY <1>0 DEF IInv
<1>n. Bounds(e) /\ Bounds(p)
  BY <1>i DEF EndsInv
<1>1. PICK o \in Outcomes(e, s) :
        /\ state' = [state EXCEPT ![e] = o.state]
        /\ cache' = [cache EXCEPT ![e] = o.cache]
        /\ excuse' = [excuse EXCEPT ![e] = @ \union E \union o.why]
  BY Zenon DEF SetState
<1>2. /\ UNCHANGED <<pushed, next, window, stream, acks, reader, net>>
  BY DEF SetState, receiving
<1>3. TypeOK
  BY DEF IInv
<1>4. /\ o.state \in {s, OnClose(state[e])} /\ o.state \in States
      /\ o.why \subseteq {"sending", "reading"} /\ o.cache \subseteq cache[e]
      /\ "reading" \notin o.why => o.state = s
      /\ Gone(e) => o.state = s
      /\ "sending" \notin o.why \union GivesUp(e, s) =>
           /\ o.cache = cache[e]
           /\ ClosesWrite(o.state) => cache[e] = {}
  BY <1>3, OutcomeFacts
<1>5. /\ state'[e] = o.state /\ state'[p] = state[p]
      /\ cache'[e] = o.cache /\ cache'[p] = cache[p]
      /\ excuse'[e] = excuse[e] \union E \union o.why /\ excuse'[p] = excuse[p]
  BY <1>0, <1>1, <1>3 DEF TypeOK
<1>6. TypeOK'
  BY <1>1, <1>2, <1>3, <1>4, ZenonT(120) DEF TypeOK
<1>7. Gone(e) => Gone(e)'
  BY <1>4, <1>5 DEF Gone
<1>8. Grown(e) /\ Grown(p)
  BY <1>0, <1>2, <1>5, <1>7 DEF Grown, Received, Gone, Written
<1>9. /\ Bounds(e)' /\ Bounds(p)'
      /\ WindowInv(e)' /\ StreamInv(e)' /\ AckInv(e)' /\ NetInv(e)'
      /\ WindowInv(p)' /\ StreamInv(p)' /\ AckInv(p)' /\ NetInv(p)'
  <2>1. Bounds(e)' /\ Bounds(p)' /\ WindowInv(e)' /\ StreamInv(e)' /\ WindowInv(p)' /\ StreamInv(p)'
    BY <1>2, <1>i, Zenon DEF EndsInv, Bounds, WindowInv, StreamInv, Written
  <2>2. AckInv(e)' /\ NetInv(e)'
    BY <1>2, <1>8, <1>i, Growth DEF EndsInv, AckInv, NetInv
  <2>3. AckInv(p)' /\ NetInv(p)'
    BY <1>0, <1>2, <1>8, <1>i, Growth DEF EndsInv, AckInv, NetInv
  <2> QED
    BY <2>1, <2>2, <2>3
<1>10. CacheInv(e)' /\ CacheInv(p)'
  BY <1>i, <1>0, <1>2, <1>4, <1>5 DEF EndsInv, CacheInv, Written
<1>11. KeptInv(e)' /\ KeptInv(p)'
  <2>1. KeptInv(p)'
    BY <1>i, <1>0, <1>2, <1>5 DEF EndsInv, KeptInv, Received, Written
  <2>2. KeptInv(e)'
    <3> SUFFICES ASSUME "sending" \notin excuse'[e] PROVE KeptInv(e)'
      BY DEF KeptInv
    <3>1. "sending" \notin excuse[e] \union E \union o.why
      BY <1>5
    <3>2. cache'[e] = cache[e] /\ (ClosesWrite(o.state) => cache[e] = {})
      BY <1>4, <1>5, <3>1, Zenon
    <3> QED
      BY <1>i, <1>0, <1>2, <1>5, <3>1, <3>2 DEF EndsInv, KeptInv, Received, Written
  <2> QED
    BY <2>1, <2>2
<1>12. EndInv(e)' /\ EndInv(p)'
  <2>1. EndInv(p)'
    BY <1>i, <1>0, <1>2, <1>5, <1>7, Zenon DEF EndsInv, EndInv, AtEnd, Gone, Has
  <2>2. EndInv(e)'
    BY <1>i, <1>0, <1>2, <1>4, <1>5, ZenonT(120) DEF EndsInv, EndInv, AtEnd, Gone, Has
  <2> QED
    BY <2>1, <2>2, Zenon
<1> QED
  BY <1>0, <1>6, <1>9, <1>10, <1>11, <1>12 DEF IInv, EndsInv

----------------------------------------------------------------------------
(* A step that only adds and removes packets adds true ones. *)
LEMMA NetStep ==
  ASSUME IInv, NEW e \in Ends, DOMAIN net' = Ends,
         UNCHANGED <<state, pushed, cache, next, window, stream, acks, reader, excuse>>,
         \A m \in net'[e] : m \in net[e] \/ Packet(Peer(e), m),
         \A m \in net'[Peer(e)] : m \in net[Peer(e)] \/ Packet(e, m)
  PROVE  IInv'
<1> DEFINE p == Peer(e)
<1>0. p \in Ends /\ p # e /\ Peer(p) = e /\ \A x \in Ends : x = e \/ x = p
  BY PeerFacts
<1>i. EndsInv(e) /\ EndsInv(p) /\ TypeOK
  BY <1>0 DEF IInv
<1>1. TypeOK'
  BY <1>i DEF TypeOK
<1>2. Grown(e) /\ Grown(p)
  BY <1>0, Zenon DEF Grown, Received, Gone, Written
<1>3. NetInv(e)' /\ AckInv(e)'
  BY <1>i, <1>2, Growth, Zenon DEF EndsInv, NetInv, AckInv
<1>4. NetInv(p)' /\ AckInv(p)'
  BY <1>0, <1>i, <1>2, Growth DEF EndsInv, NetInv, AckInv
<1>5. Bounds(e)' /\ Bounds(p)'
  BY <1>i DEF EndsInv, Bounds
<1>6. CacheInv(e)' /\ CacheInv(p)' /\ WindowInv(e)' /\ WindowInv(p)' /\ StreamInv(e)' /\ StreamInv(p)'
  BY <1>i, Zenon DEF EndsInv, CacheInv, WindowInv, StreamInv, Written
<1>7. KeptInv(e)' /\ KeptInv(p)'
  BY <1>i, Zenon DEF EndsInv, KeptInv, Received, Written
<1>8. EndInv(e)' /\ EndInv(p)'
  BY <1>i DEF EndsInv, EndInv, AtEnd, Gone, Has
<1> QED
  BY <1>0, <1>1, <1>3, <1>4, <1>5, <1>6, <1>7, <1>8 DEF IInv, EndsInv

(* What an end sends is true of it. *)
LEMMA SendStep ==
  ASSUME IInv, NEW e \in Ends, FlushAcks(e) \/ FlushData(e) \/ Ping(e) \/ PingTerminate(e)
  PROVE  IInv'
<1> DEFINE p == Peer(e)
<1>0. p \in Ends /\ p # e /\ Peer(p) = e /\ \A x \in Ends : x = e \/ x = p
  BY PeerFacts
<1>i. EndsInv(e) /\ EndsInv(p) /\ TypeOK
  BY <1>0 DEF IInv
<1>n. Bounds(e) /\ Bounds(p)
  BY <1>i DEF EndsInv
<1>1. Reached(e, Number(next[e]))
  BY <1>n DEF Bounds, Reached
<1>2. ASSUME NEW m, Sends(e, m), Packet(e, m) PROVE IInv'
  <2>1. /\ DOMAIN net' = Ends /\ net'[e] = net[e]
        /\ \A k \in net'[p] : k \in net[p] \/ k = m
    BY <1>i, <1>0, <1>2 DEF Sends, Transmit, TypeOK
  <2> QED
    BY <1>2, <2>1, NetStep DEF Sends, sending, receiving
<1>3. CASE FlushAcks(e)
  <2> DEFINE m == Ack(acks[e], Number(next[e]), Closing(e))
  <2>1. m.type = "ack" /\ m.numbers = acks[e] /\ m.receivingNext = Number(next[e])
    BY Zenon DEF Ack
  <2>2. Packet(e, m)
    BY <1>1, <2>1 DEF Packet, IInv, EndsInv, AckInv
  <2> QED
    BY <1>2, <1>3, <2>2 DEF FlushAcks
<1>4. CASE FlushData(e)
  <2>1. PICK s \in cache[e] : Sends(e, Data(s.number, s.data, una[e], Closing(e)))
    BY <1>4 DEF FlushData
  <2> DEFINE m == Data(s.number, s.data, una[e], Closing(e))
  <2>2. m.type = "data" /\ m.number = s.number /\ m.data = s.data
    BY DEF Data
  <2>3. s.data \in Written(e) /\ s.number = Number(s.data)
    BY <1>i DEF EndsInv, CacheInv, Segment
  <2>4. Packet(e, m)
    BY <2>2, <2>3 DEF Packet
  <2> QED
    BY <1>2, <2>1, <2>4
<1>5. CASE Ping(e)
  <2> DEFINE m == Cmd("ping", una[e], Number(next[e]), Closing(e))
  <2>1. m.type = "ping" /\ m.receivingNext = Number(next[e])
    BY Zenon DEF Cmd
  <2>2. Packet(e, m)
    BY <1>1, <2>1 DEF Packet
  <2> QED
    BY <1>2, <1>5, <2>2 DEF Ping
<1>6. CASE PingTerminate(e)
  <2> DEFINE m == Cmd("terminate", una[e], Number(next[e]), FALSE)
  <2>1. m.type = "terminate" /\ m.receivingNext = Number(next[e]) /\ ~ m.close
    BY DEF Cmd
  <2>2. Packet(e, m)
    BY <1>1, <1>6, <2>1, Zenon DEF Packet, Gone, PingTerminate
  <2> QED
    BY <1>2, <1>6, <2>2, Zenon DEF PingTerminate
<1> QED
  BY <1>3, <1>4, <1>5, <1>6
-----------------------------------------------------------------------------

(* Push: the new segment is in the window, or a promise is gone. *)
LEMMA PushStep ==
  ASSUME IInv, NEW e \in Ends, Push(e)
  PROVE  IInv'
<1> DEFINE p == Peer(e)
           d == pushed[e]
<1>0. p \in Ends /\ p # e /\ Peer(p) = e /\ \A x \in Ends : x = e \/ x = p
  BY PeerFacts
<1>i. EndsInv(e) /\ EndsInv(p) /\ TypeOK
  BY <1>0 DEF IInv
<1>n. Bounds(e) /\ Bounds(p)
  BY <1>i DEF EndsInv
<1>1. /\ UNCHANGED <<state, next, window, stream, acks, reader, net>>
      /\ cache'[e] = cache[e] \union {Segment(d)} /\ cache'[p] = cache[p]
      /\ pushed'[e] = d + 1 /\ pushed'[p] = pushed[p]
      /\ excuse'[e] = excuse[e] \union Because("sending", state[e] # Active) /\ excuse'[p] = excuse[p]
  BY <1>i, <1>0 DEF Push, receiving, TypeOK
<1>2. d \in Nat /\ d < First + MaxSegments /\ d \in First .. First + MaxSegments + ReceivingWindow
  BY <1>0, <1>n DEF Push, Bounds
<1>3. Written(e)' = Written(e) \union {d} /\ Written(p)' = Written(p)
  BY <1>1, <1>2, <1>n, <1>0 DEF Written, Bounds
<1>4. Bounds(e)' /\ Bounds(p)'
  <2>1. next'[e] = next[e] /\ next'[p] = next[p] /\ pushed'[e] = d + 1 /\ pushed'[p] = pushed[p]
    BY <1>1
  <2>2. d \in Nat /\ d < First + MaxSegments
    BY <1>2
  <2>3. Bounds(e)'
    BY <1>n, <2>1, <2>2 DEF Bounds
  <2>4. Bounds(p)'
    BY <1>0, <1>n, <2>1, <2>2 DEF Bounds
  <2> QED
    BY <2>3, <2>4
<1>5. Segment(d) \in [number : Numbers, data : Nat] /\ Segment(d).data = d
  BY <1>2, NumberFacts DEF Segment
<1>6. TypeOK'
  <2>0. pushed[e] + 1 \in Nat
    BY <1>2
  <2>1. pushed' \in [Ends -> Nat]
    BY <1>i, <2>0 DEF Push, TypeOK
  <2>3. cache' \in [Ends -> SUBSET [number : Numbers, data : Nat]]
    BY <1>i, <1>5 DEF Push, TypeOK
  <2>2. excuse' \in [Ends -> SUBSET {"sending", "reading"}]
    BY <1>i, ZenonT(120) DEF Push, Because, TypeOK
  <2> QED
    BY <1>i, <1>1, <2>1, <2>2, <2>3 DEF TypeOK
<1>7. Grown(e) /\ Grown(p)
  <2>1. Written(e) \subseteq Written(e)' /\ Written(p) \subseteq Written(p)'
    BY <1>3, Zenon
  <2>2. ASSUME NEW x \in Ends
        PROVE  /\ First .. next[x] \subseteq (First .. next[x])'
               /\ \A y : Received(x, y) => Received(x, y)'
               /\ Gone(x) => Gone(x)'
    BY <1>1, Zenon DEF Received, Gone, Segment
  <2>3. Peer(p)' = e /\ Peer(e)' = p
    BY <1>0, Zenon DEF Peer
  <2> HIDE DEF p
  <2>4. p = Peer(e)
    BY Zenon DEF p
  <2>5. Grown(e)
    BY <1>0, <2>1, <2>2, <2>4, Zenon DEF Grown
  <2>6. Grown(p)
    BY <1>0, <2>1, <2>2, <2>4, Zenon DEF Grown
  <2> QED BY <2>5, <2>6
<1>8. StreamInv(e)' /\ AckInv(e)' /\ NetInv(e)'
  BY <1>i, <1>1, <1>7, Growth, ZenonT(120) DEF EndsInv, StreamInv, AckInv, NetInv
<1>9. StreamInv(p)' /\ AckInv(p)' /\ NetInv(p)'
  BY <1>0, <1>i, <1>1, <1>7, Growth, ZenonT(120) DEF EndsInv, StreamInv, AckInv, NetInv
<1>10. CacheInv(e)' /\ CacheInv(p)' /\ WindowInv(e)' /\ WindowInv(p)'
  BY <1>i, <1>0, <1>1, <1>3, <1>5 DEF EndsInv, CacheInv, WindowInv
<1>11. KeptInv(p)'
  BY <1>i, <1>0, <1>1, <1>3 DEF EndsInv, KeptInv, Received
<1>12. KeptInv(e)'
  BY <1>i, <1>0, <1>1, <1>3, Zenon DEF EndsInv, KeptInv, Received, Because, ClosesWrite,
       Active, PeerClosed, Terminating, PeerTerminating, Terminated
<1>13. EndInv(e)' /\ EndInv(p)'
  BY <1>i, <1>0, <1>1, Zenon DEF EndsInv, EndInv, AtEnd, Gone, Has, Because, Active, Terminating, Terminated
<1> QED
  BY <1>0, <1>4, <1>6, <1>8, <1>9, <1>10, <1>11, <1>12, <1>13 DEF IInv, EndsInv

(* Read takes payloads at their own place. *)
LEMMA ReadDataStep ==
  ASSUME IInv, NEW e \in Ends, ReadData(e)
  PROVE  IInv'
<1> DEFINE p == Peer(e)
           Taken(i) == CHOOSE s \in window[e] : s.number = Number(i)
<1>0. p \in Ends /\ p # e /\ Peer(p) = e /\ \A x \in Ends : x = e \/ x = p
  BY PeerFacts
<1>i. EndsInv(e) /\ EndsInv(p) /\ TypeOK
  BY <1>0 DEF IInv
<1>n. Bounds(e) /\ Bounds(p)
  BY <1>i DEF EndsInv
<1>1. PICK k \in 1 .. ReceivingWindow :
        /\ \A i \in next[e] .. next[e] + k - 1 : Has(e, Number(i))
        /\ window' = [window EXCEPT ![e] = @ \ {Taken(i) : i \in next[e] .. next[e] + k - 1}]
        /\ stream' = [stream EXCEPT ![e] = @ \union
                        {[at |-> i, data |-> Taken(i).data] : i \in next[e] .. next[e] + k - 1}]
        /\ next' = [next EXCEPT ![e] = @ + k]
  BY ZenonT(120) DEF ReadData
<1> DEFINE Places == next[e] .. next[e] + k - 1
<1> HIDE DEF Places
<1>2a. k \in Nat /\ k >= 1 /\ k =< ReceivingWindow
  BY <1>n DEF Bounds
<1>2. /\ next[e] + k - 1 \in Places
      /\ \A i \in Places : i \in Nat /\ i < next[e] + k
                           /\ i \in First .. First + MaxSegments + ReceivingWindow
      /\ \A d \in First .. (next[e] + k) - 1 : d \in First .. next[e] - 1 \/ d \in Places
  BY <1>2a, <1>0, <1>n DEF Places, Bounds
<1>3. \A i \in Places : Taken(i) \in window[e] /\ Taken(i).number = Number(i)
  BY <1>1 DEF Has, Places
<1>4. \A i \in Places : Taken(i) = Segment(i) /\ Taken(i).data = i /\ i \in Written(p)
  <2> SUFFICES ASSUME NEW i \in Places PROVE Taken(i) = Segment(i) /\ Taken(i).data = i /\ i \in Written(p)
    OBVIOUS
  <2>1. PICK d \in Written(p) : Taken(i) = Segment(d) /\ Taken(i).data = d
    BY <1>i, <1>3, ZenonT(120) DEF EndsInv, WindowInv
  <2>2. Number(d) = Number(i)
    BY <1>3, <2>1 DEF Segment
  <2>3. d \in First .. First + MaxSegments + ReceivingWindow
    BY <1>0, <1>n DEF Written, Bounds
  <2>4. d = i
    BY <1>2, <2>2, <2>3, NumberFacts, Zenon
  <2> QED
    BY <2>1, <2>4
<1>5. /\ window'[e] = window[e] \ {Taken(i) : i \in Places} /\ window'[p] = window[p]
      /\ stream'[e] = stream[e] \union {[at |-> i, data |-> Taken(i).data] : i \in Places}
      /\ stream'[p] = stream[p]
      /\ next'[e] = next[e] + k /\ next'[p] = next[p]
  BY <1>i, <1>0, <1>1, Zenon DEF TypeOK, Places
<1> HIDE DEF Taken
<1>6. /\ UNCHANGED <<state, pushed, cache, acks, reader, net, excuse>>
      /\ reader[e] = "idle" /\ ~ Gone(e)
  BY DEF ReadData, Reading, Gone, sending
<1>7. Bounds(e)' /\ Bounds(p)'
  <2>1. next[e] + k - 1 \in Written(p)
    BY <1>2, <1>4
  <2>2. next[e] + k =< pushed[p] /\ next[e] + k \in Nat /\ First =< next[e] + k
    BY <1>2a, <1>n, <2>1 DEF Written, Bounds
  <2>3. next'[e] = next[e] + k /\ next'[p] = next[p] /\ pushed'[e] = pushed[e] /\ pushed'[p] = pushed[p]
    BY <1>5, <1>6, Zenon
  <2>4. Bounds(e)'
    BY <1>n, <2>2, <2>3 DEF Bounds
  <2>5. Bounds(p)'
    BY <1>0, <1>n, <2>2, <2>3, Zenon DEF Bounds
  <2> QED
    BY <2>4, <2>5
<1>8. /\ \A r \in stream'[e] : r.data = r.at
      /\ stream'[e] \subseteq [at : Nat, data : Nat]
      /\ \A d \in First .. next'[e] - 1 : \E r \in stream'[e] : r.data = d
  <2> DEFINE New == {[at |-> i, data |-> Taken(i).data] : i \in Places}
  <2>1. \A r \in New : r.data = r.at /\ r \in [at : Nat, data : Nat]
    BY <1>2, <1>4
  <2>2. \A i \in Places : [at |-> i, data |-> Taken(i).data] \in New
    OBVIOUS
  <2>3. \A i \in Places : \E r \in New : r.data = i
    BY <1>4, <2>2, Zenon
  <2>4. stream'[e] = stream[e] \union New
    BY <1>5
  <2> HIDE DEF New
  <2>5. stream[e] \subseteq [at : Nat, data : Nat]
    BY <1>i DEF TypeOK
  <2>6. \A d \in First .. next'[e] - 1 : d \in First .. next[e] - 1 \/ d \in Places
    BY <1>2, <1>5, Zenon
  <2> QED
    BY <1>i, <2>1, <2>3, <2>4, <2>5, <2>6 DEF EndsInv, StreamInv
<1>9. TypeOK'
  <2>0. next[e] + k \in Nat
    BY <1>2a, <1>n DEF Bounds
  <2>1. next' \in [Ends -> Nat]
    BY <1>i, <1>1, <2>0 DEF TypeOK
  <2>2. window' \in [Ends -> SUBSET [number : Numbers, data : Nat]]
    BY <1>i, <1>1, ZenonT(120) DEF TypeOK
  <2>3. stream' \in [Ends -> SUBSET [at : Nat, data : Nat]]
    BY <1>i, <1>0, <1>1, <1>5, <1>8, Zenon DEF TypeOK
  <2> QED
    BY <1>i, <1>6, <2>1, <2>2, <2>3, Zenon DEF TypeOK
<1>10. \A d \in Written(p) : Received(e, d) => Received(e, d)'
  <2> SUFFICES ASSUME NEW d \in Written(p), Received(e, d) PROVE Received(e, d)'
    OBVIOUS
  <2>0. d \in Int /\ next[e] \in Int
    BY <1>0, <1>n DEF Written, Bounds
  <2>1. CASE d < next[e]
    <3>1. d < next[e] + k
      BY <1>2a, <2>0, <2>1
    <3> QED
      BY <1>5, <3>1 DEF Received
  <2>2. CASE d \in Places
    BY <1>2, <1>5, <2>2, Zenon DEF Received
  <2>3. CASE Segment(d) \in window[e] /\ d \notin Places
    <3>0. Segment(d).data = d
      BY DEF Segment
    <3>1. \A i \in Places : Taken(i) # Segment(d)
      BY <1>4, <2>3, <3>0, Zenon
    <3> QED
      BY <1>5, <2>3, <3>1 DEF Received
  <2> QED
    BY <2>1, <2>2, <2>3 DEF Received
<1>11. Grown(e) /\ Grown(p)
  <2>0. First .. next[e] \subseteq First .. next[e] + k
    BY <1>2a, <1>n DEF Bounds
  <2>1. First .. next[e] \subseteq First .. next'[e]
    BY <1>5, <2>0, Zenon
  <2> QED
    BY <1>0, <1>5, <1>6, <1>10, <2>1 DEF Grown, Received, Gone, Written
<1>12. AckInv(e)' /\ NetInv(e)'
  BY <1>i, <1>6, <1>11, Growth, Zenon DEF EndsInv, AckInv, NetInv
<1>13. AckInv(p)' /\ NetInv(p)'
  BY <1>0, <1>i, <1>6, <1>11, Growth, ZenonT(120) DEF EndsInv, AckInv, NetInv
<1>14. CacheInv(e)' /\ CacheInv(p)' /\ WindowInv(e)' /\ WindowInv(p)' /\ StreamInv(e)' /\ StreamInv(p)'
  BY <1>i, <1>0, <1>5, <1>6, <1>8 DEF EndsInv, CacheInv, WindowInv, StreamInv, Written
<1>15. KeptInv(e)' /\ KeptInv(p)'
  BY <1>i, <1>0, <1>5, <1>6, <1>10, Zenon DEF EndsInv, KeptInv, Received, Written
<1>16. EndInv(e)' /\ EndInv(p)'
  BY <1>i, <1>0, <1>5, <1>6, Zenon DEF EndsInv, EndInv, AtEnd, Gone, Has
<1> QED
  BY <1>0, <1>7, <1>9, <1>12, <1>13, <1>14, <1>15, <1>16 DEF IInv, EndsInv

(* Read returns io.EOF where the stream ends, or is excused. *)
LEMMA ReaderStep ==
  ASSUME IInv, NEW e \in Ends, ReadNothing(e) \/ ReadReturns(e)
  PROVE  IInv'
<1> DEFINE p == Peer(e)
<1>0. p \in Ends /\ p # e /\ Peer(p) = e /\ \A x \in Ends : x = e \/ x = p
  BY PeerFacts
<1>i. EndsInv(e) /\ EndsInv(p) /\ TypeOK
  BY <1>0 DEF IInv
<1>n. Bounds(e) /\ Bounds(p)
  BY <1>i DEF EndsInv
<1>1. UNCHANGED <<state, pushed, cache, next, window, stream, acks, net, excuse>>
  BY DEF ReadNothing, ReadReturns, sending, receiving
<1>2. /\ reader'[p] = reader[p] /\ reader' \in [Ends -> {"idle", "empty", "end"}]
      /\ reader'[e] = "empty" => ~ Has(e, Number(next[e]))
      /\ reader'[e] = "end" => \/ reader[e] = "empty" /\ state[e] = PeerTerminating
                               \/ state[e] = ReadyToClose \/ Gone(e)
  BY <1>i, <1>0 DEF ReadNothing, ReadReturns, Gone, TypeOK
<1>3. TypeOK'
  BY <1>i, <1>1, <1>2 DEF TypeOK
<1>4. ASSUME "reading" \notin excuse[e], reader[e] = "empty", state[e] = PeerTerminating
      PROVE  AtEnd(e)
  <2>1. Gone(p)
    BY <1>i, <1>0, <1>4, Zenon DEF EndsInv, EndInv
  <2>2. ASSUME "sending" \notin excuse[p] PROVE next[e] = pushed[p]
    <3>1. cache[p] = {} /\ \A d \in Written(p) : Received(e, d)
      BY <1>i, <1>0, <2>1, <2>2, ZenonT(120) DEF EndsInv, KeptInv, ClosesWrite, Gone
    <3>2. next[e] \in Nat /\ pushed[p] \in Nat /\ First \in Nat /\ First =< next[e] /\ next[e] =< pushed[p]
      BY <1>n, <1>0, Zenon DEF Bounds
    <3>3. Segment(next[e]) \notin window[e]
      BY <1>i, <1>4 DEF EndsInv, EndInv, Has, Segment
    <3>4. ~ Received(e, next[e])
      BY <3>2, <3>3 DEF Received
    <3>5. next[e] \notin Written(p)
      BY <3>1, <3>4
    <3> QED
      BY <3>2, <3>5 DEF Written
  <2> QED
    BY <2>1, <2>2 DEF AtEnd
<1>5. EndInv(p)'
  BY <1>i, <1>0, <1>1, <1>2, Zenon DEF EndsInv, EndInv, AtEnd, Gone, Has
<1>6. EndInv(e)'
  BY <1>i, <1>0, <1>1, <1>2, <1>4, Zenon DEF EndsInv, EndInv, AtEnd, Gone, Has
<1>7. Grown(e) /\ Grown(p)
  BY <1>0, <1>1, Zenon DEF Grown, Received, Gone, Written
<1>8. AckInv(e)' /\ NetInv(e)' /\ AckInv(p)' /\ NetInv(p)'
  BY <1>0, <1>i, <1>1, <1>7, Growth, Zenon DEF EndsInv, AckInv, NetInv
<1>9. /\ Bounds(e)' /\ CacheInv(e)' /\ WindowInv(e)' /\ StreamInv(e)' /\ KeptInv(e)'
      /\ Bounds(p)' /\ CacheInv(p)' /\ WindowInv(p)' /\ StreamInv(p)' /\ KeptInv(p)'
  BY <1>i, <1>1, Zenon DEF EndsInv, Bounds, CacheInv, WindowInv, StreamInv, KeptInv, Received, Written
<1> QED
  BY <1>0, <1>3, <1>5, <1>6, <1>8, <1>9 DEF IInv, EndsInv

-----------------------------------------------------------------------------

(* What a packet does to the state of the connection. *)
LEMMA HandledFacts ==
  ASSUME IInv, NEW e \in Ends, NEW m \in net[e], NEW o \in Handled(e, m)
  PROVE  /\ Packet(Peer(e), m)
         /\ o.state \in States /\ o.why \subseteq {"sending", "reading"} /\ o.cache \subseteq cache[e]
         /\ Gone(e) => o.state \in {Terminating, Terminated}
         /\ o.state = PeerTerminating => Gone(Peer(e))
         /\ "reading" \notin o.why \union excuse[e] =>
              o.state # ReadyToClose /\ (o.state \in {Terminating, Terminated} => Gone(e))
         /\ "sending" \notin o.why \union excuse[e] =>
              o.cache = cache[e] /\ (ClosesWrite(o.state) => cache[e] = {})
<1>0. Peer(e) \in Ends /\ Peer(Peer(e)) = e
  BY PeerFacts
<1>i. EndInv(e) /\ KeptInv(e) /\ NetInv(Peer(e)) /\ TypeOK
  BY <1>0 DEF IInv, EndsInv
<1>1. Packet(Peer(e), m)
  BY <1>0, <1>i, Zenon DEF NetInv
<1>2. TypeOK /\ state[e] \in States
  BY <1>i DEF TypeOK
<1>3. CASE Asked(e, m) = state[e]
  <2>1. o.state = state[e] /\ o.cache = cache[e] /\ o.why = {}
    BY <1>3 DEF Handled
  <2> QED
    BY <1>i, <1>1, <1>2, <2>1, Zenon DEF EndInv, KeptInv, Gone
<1>4. CASE Asked(e, m) # state[e]
  <2> DEFINE s == Asked(e, m)
  <2>1. PICK q \in Outcomes(e, s) : o = [q EXCEPT !.why = @ \union GivesUp(e, s)]
    BY <1>4 DEF Handled
  <2>2. s \in States
    BY <1>2 DEF Asked, OnPeerClosed, OnTerminate, States
  <2>3. o.state = q.state /\ o.cache = q.cache /\ o.why = q.why \union GivesUp(e, s)
    BY <2>1 DEF Outcomes
  <2>4. /\ q.state \in {s, OnClose(state[e])} /\ q.state \in States
        /\ q.why \subseteq {"sending", "reading"} /\ q.cache \subseteq cache[e]
        /\ "reading" \notin q.why => q.state = s
        /\ Gone(e) => q.state = s
        /\ "sending" \notin q.why \union GivesUp(e, s) =>
             /\ q.cache = cache[e]
             /\ ClosesWrite(q.state) => cache[e] = {}
    BY <1>2, <2>2, OutcomeFacts, ZenonT(120)
  <2>5. GivesUp(e, s) \subseteq {"sending"}
    BY DEF GivesUp, Because
  <2>6. Gone(e) => s \in {Terminating, Terminated}
    BY DEF Gone, Asked, OnPeerClosed, OnTerminate, Active, ReadyToClose, PeerClosed, Terminating, Terminated
  <2>7. s = PeerTerminating => Gone(Peer(e))
    BY <1>1, <1>4 DEF Packet, Asked, OnPeerClosed, OnTerminate, Active, ReadyToClose, PeerClosed,
         Terminating, PeerTerminating, Terminated
  <2>8. OnClose(state[e]) = PeerTerminating => state[e] = PeerTerminating
    BY DEF OnClose, Active, ReadyToClose, PeerClosed, Terminating, PeerTerminating, Terminated
  <2>9. state[e] = PeerTerminating => Gone(Peer(e))
    BY <1>i, Zenon DEF EndInv
  <2>10. "reading" \notin excuse[e] => s # ReadyToClose /\ (s \in {Terminating, Terminated} => Gone(e))
    <3>1. "reading" \notin excuse[e] => state[e] # ReadyToClose
      BY <1>i DEF EndInv
    <3> QED
      BY <3>1, Zenon DEF Gone, Asked, OnPeerClosed, OnTerminate, Active, ReadyToClose,
                                        PeerClosed,
           Terminating, PeerTerminating, Terminated
  <2> QED
    BY <1>1, <2>3, <2>4, <2>5, <2>6, <2>7, <2>8, <2>9, <2>10
<1> QED
  BY <1>3, <1>4, Zenon

(* What a packet does to end e: C, W and A are what it leaves of the       *)
(* sending window, the receiving window and the acks.                      *)
Processed(e, m, o, C, W, A) ==
  /\ UNCHANGED <<pushed, next, stream, reader>>
  /\ DOMAIN net' = Ends /\ \A x \in Ends : net'[x] \subseteq net[x]
  /\ state' = [state EXCEPT ![e] = o.state]
  /\ excuse' = [excuse EXCEPT ![e] = @ \union o.why \union Mishap(e, m)]
  /\ cache' = [cache EXCEPT ![e] = C]
  /\ window' = [window EXCEPT ![e] = W]
  /\ acks' = [acks EXCEPT ![e] = A]

(* ... C truly *)
Kept(e, m, o, C) ==
  /\ C \subseteq o.cache
  /\ "sending" \notin Mishap(e, m) /\ o.cache = cache[e] =>
       \A s \in cache[e] \ C : Received(Peer(e), s.data)

(* ... W and A too *)
Taken(e, m, W, A) ==
  /\ window[e] \subseteq W
  /\ \A s \in W \ window[e] : s.data \in Written(Peer(e)) /\ s = Segment(s.data)
  /\ "reading" \notin Mishap(e, m) /\ reader[e] = "empty" =>
       \A s \in W \ window[e] : s.number # Number(next[e])
  /\ \A n \in A \ acks[e] : \E d \in Written(Peer(e)) : n = Number(d) /\ (d < next[e] \/ Segment(d) \in W)

(* A packet processed in this way preserves the invariant. *)
LEMMA ReceiveStep ==
  ASSUME IInv, NEW e \in Ends, NEW m \in net[e], NEW o \in Handled(e, m), NEW C, NEW W, NEW A,
         Processed(e, m, o, C, W, A), Kept(e, m, o, C), Taken(e, m, W, A)
  PROVE  IInv'
<1> DEFINE p == Peer(e)
<1>0. p \in Ends /\ p # e /\ Peer(p) = e /\ \A x \in Ends : x = e \/ x = p
  BY PeerFacts, Zenon
<1>i. EndsInv(e) /\ EndsInv(p) /\ TypeOK
  BY <1>0 DEF IInv
<1>n. Bounds(e) /\ Bounds(p)
  BY <1>i, Zenon DEF EndsInv
<1>1. /\ o.state \in States /\ o.why \subseteq {"sending", "reading"} /\ o.cache \subseteq cache[e]
      /\ Gone(e) => o.state \in {Terminating, Terminated}
      /\ o.state = PeerTerminating => Gone(p)
      /\ "reading" \notin o.why \union excuse[e] =>
           o.state # ReadyToClose /\ (o.state \in {Terminating, Terminated} => Gone(e))
      /\ "sending" \notin o.why \union excuse[e] =>
           o.cache = cache[e] /\ (ClosesWrite(o.state) => cache[e] = {})
  BY HandledFacts, Zenon
<1>2. /\ state'[e] = o.state /\ state'[p] = state[p]
      /\ excuse'[e] = excuse[e] \union o.why \union Mishap(e, m) /\ excuse'[p] = excuse[p]
      /\ cache'[e] = C /\ cache'[p] = cache[p]
      /\ window'[e] = W /\ window'[p] = window[p]
      /\ acks'[e] = A /\ acks'[p] = acks[p]
      /\ net'[e] \subseteq net[e] /\ net'[p] \subseteq net[p]
      /\ UNCHANGED <<pushed, next, stream, reader>>
  BY <1>i, <1>0, Zenon DEF TypeOK, Processed
<1>3. Written(e)' = Written(e) /\ Written(p)' = Written(p)
  BY <1>2, Zenon DEF Written
<1>4. \A d : Received(e, d) => Received(e, d)'
  BY <1>2, Zenon DEF Received, Taken
<1>5. Grown(e) /\ Grown(p)
  BY <1>0, <1>1, <1>2, <1>3, <1>4, Zenon DEF Grown, Received, Gone
<1>6. NetInv(e)' /\ StreamInv(e)' /\ NetInv(p)' /\ StreamInv(p)'
  BY <1>0, <1>i, <1>2, <1>5, Growth, Zenon DEF EndsInv, NetInv, StreamInv
<1>7. AckInv(p)'
  BY <1>0, <1>i, <1>2, <1>5, Growth, Zenon DEF EndsInv, AckInv
<1>8. AckInv(e)'
  <2>1. \A n \in A \ acks[e] : Covers(e, n)'
    BY <1>2, <1>3, Zenon DEF Covers, Received, Taken
  <2> QED
    BY <1>i, <1>2, <1>5, <2>1, Growth, Zenon DEF EndsInv, AckInv
<1>9. CacheInv(e)' /\ CacheInv(p)' /\ WindowInv(e)' /\ WindowInv(p)'
  <2>1. \A s \in C : s \in cache[e]
    BY <1>1, Zenon DEF Kept
  <2>2. CacheInv(e)' /\ CacheInv(p)'
    BY <1>i, <1>2, <1>3, <2>1, Zenon DEF EndsInv, CacheInv
  <2>3. WindowInv(e)' /\ WindowInv(p)'
    BY <1>i, <1>0, <1>2, <1>3, Zenon DEF EndsInv, WindowInv, Taken
  <2> QED
    BY <2>2, <2>3, Zenon
<1>10. Bounds(e)' /\ Bounds(p)'
  BY <1>n, <1>2, Zenon DEF Bounds
<1>11. KeptInv(p)'
  BY <1>i, <1>0, <1>2, <1>3, <1>4, Zenon DEF EndsInv, KeptInv
<1>12. KeptInv(e)'
  <2> SUFFICES ASSUME "sending" \notin excuse'[e] PROVE KeptInv(e)'
    BY ZenonT(120) DEF KeptInv
  <2>1. "sending" \notin excuse[e] /\ "sending" \notin o.why /\ "sending" \notin Mishap(e, m)
    BY <1>2
  <2>2. /\ o.cache = cache[e] /\ (ClosesWrite(o.state) => cache[e] = {})
        /\ \A s \in cache[e] \ C : Received(p, s.data)
    BY <1>1, <2>1, Zenon DEF Kept
  <2>3. \A d \in Written(e) : Segment(d) \in cache[e] \/ Received(p, d)
    BY <1>i, <2>1, Zenon DEF EndsInv, KeptInv
  <2>4. \A d : Segment(d).data = d
    BY ZenonT(120) DEF Segment
  <2>5. \A d \in Written(e) : Segment(d) \in C \/ Received(p, d)
    BY <2>2, <2>3, <2>4
  <2>6. \A d : Received(p, d)' = Received(p, d)
    BY <1>2, Zenon DEF Received
  <2>7. ClosesWrite(o.state) => C = {}
    BY <2>2, Zenon DEF Kept
  <2> QED
    BY <1>2, <1>3, <2>5, <2>6, <2>7, Zenon DEF KeptInv
<1>13. EndInv(p)'
  BY <1>i, <1>0, <1>1, <1>2, Zenon DEF EndsInv, EndInv, AtEnd, Gone, Has
<1>14. EndInv(e)'
  <2>1. reader[e] = "empty" /\ "reading" \notin excuse'[e] => ~ Has(e, Number(next[e]))'
    BY <1>i, <1>2, Zenon DEF EndsInv, EndInv, Has, Taken
  <2> QED
    BY <1>i, <1>0, <1>1, <1>2, <2>1, Zenon DEF EndsInv, EndInv, AtEnd, Gone
<1>15. /\ W \in SUBSET [number : Numbers, data : Nat] /\ A \in SUBSET Numbers
       /\ C \in SUBSET [number : Numbers, data : Nat]
  <2>1. \A s \in W : s \in window[e] \/ (s.data \in Written(p) /\ s = Segment(s.data))
    BY Zenon DEF Taken
  <2>2. \A n \in A : n \in acks[e] \/ \E d \in Written(p) : n = Number(d)
    BY Zenon DEF Taken
  <2>3. /\ window[e] \subseteq [number : Numbers, data : Nat] /\ acks[e] \subseteq Numbers
        /\ cache[e] \subseteq [number : Numbers, data : Nat]
    BY <1>i, Zenon DEF TypeOK
  <2>4. \A d \in Written(p) : Number(d) \in Numbers /\ Segment(d) \in [number : Numbers, data : Nat]
    BY <1>0, <1>n, WrittenFacts, Zenon
  <2>5. C \subseteq cache[e]
    BY <1>1, Zenon DEF Kept
  <2> QED
    BY <2>1, <2>2, <2>3, <2>4, <2>5, ZenonT(120)
<1>16. TypeOK'
  <2>1. Mishap(e, m) \subseteq {"sending", "reading"}
    BY Zenon DEF Mishap, Because
  <2>2. state' \in [Ends -> States] /\ excuse' \in [Ends -> SUBSET {"sending", "reading"}]
    BY <1>i, <1>1, <2>1, Zenon DEF Processed, TypeOK
  <2>3. /\ cache' \in [Ends -> SUBSET [number : Numbers, data : Nat]]
        /\ window' \in [Ends -> SUBSET [number : Numbers, data : Nat]]
        /\ acks' \in [Ends -> SUBSET Numbers]
    BY <1>i, <1>15, Zenon DEF Processed, TypeOK
  <2> QED
    BY <1>i, <2>2, <2>3 DEF Processed, TypeOK
<1> QED
  BY <1>0, <1>6, <1>7, <1>8, <1>9, <1>10, <1>11, <1>12, <1>13, <1>14, <1>16, ZenonT(120) DEF IInv, EndsInv

(* Clear removes what was received, except where the comparison is wrong. *)
LEMMA ClearFacts ==
  ASSUME NEW e \in Ends, Bounds(e), Bounds(Peer(e)), CacheInv(e), NEW upto, Reached(Peer(e), upto),
         ~ ClearedInError(cache[e], upto)
  PROVE  \A s \in cache[e] \ Clear(cache[e], upto) : Received(Peer(e), s.data)
<1>0. /\ First \in Nat /\ MaxSegments \in Nat /\ ReceivingWindow \in Nat
      /\ next[Peer(e)] \in Nat /\ pushed[e] \in Nat
      /\ next[Peer(e)] =< pushed[e] /\ pushed[e] =< First + MaxSegments
  BY PeerFacts, Zenon DEF Bounds
<1>1. PICK k \in First .. next[Peer(e)] : upto = Number(k)
  BY DEF Reached
<1> SUFFICES ASSUME NEW s \in cache[e], s \notin Clear(cache[e], upto) PROVE Received(Peer(e), s.data)
  OBVIOUS
<1>2. PICK d : d = s.data /\ d \in Written(e) /\ s.number = Number(d)
  <2>1. s.data \in Written(e) /\ s.number = Number(s.data)
    BY DEF CacheInv, Segment
  <2> QED BY <2>1, Zenon
<1>a. d \in Written(e)
  BY <1>2, Zenon
<1>3. d \in Nat /\ First =< d /\ d < First + MaxSegments
  BY ONLY <1>0, <1>a DEF Written
<1>4. k \in Nat /\ First =< k /\ k =< First + MaxSegments
  BY ONLY <1>0, k \in First .. next[Peer(e)]
<1>b. /\ k \in First .. First + MaxSegments /\ d \in First .. First + MaxSegments
      /\ k \in First .. First + MaxSegments + ReceivingWindow
      /\ d \in First .. First + MaxSegments + ReceivingWindow
  BY ONLY <1>0, <1>3, <1>4
<1>5. Number(d) \in Numbers /\ Number(k) \in Numbers
  BY <1>b, NumberFacts, Zenon
<1>6. s.number < upto
  <2>1. ~ (s.number >= upto)
    BY Zenon DEF Clear
  <2>2. s.number \in Nat /\ upto \in Nat
    <3>1. \A n \in Numbers : n \in Nat
      BY ONLY NumbersAssumption DEF Numbers
    <3> QED BY <1>1, <1>2, <1>5, <3>1, Zenon
  <2> QED BY ONLY <2>1, <2>2
<1>7. ~ (Minus(Number(d), Number(k)) =< Half)
  BY <1>1, <1>2, <1>6, Zenon DEF ClearedInError
<1>8. ~ (k =< d)
  BY <1>3, <1>7, <1>b, NumberFacts, ZenonT(120)
<1>9. d < next[Peer(e)]
  BY ONLY <1>0, <1>3, <1>8, k \in First .. next[Peer(e)]
<1> QED
  BY <1>2, <1>9, ZenonT(120) DEF Received

(* An ack removes what it names, and that was received. *)
LEMMA AcknowledgedFacts ==
  ASSUME NEW e \in Ends, Bounds(e), CacheInv(e), NEW C \in SUBSET cache[e], NEW u, NEW N,
         \A n \in N : Covers(Peer(e), n), NEW D \in Acknowledged(C, u, pushed[e], N)
  PROVE  D \subseteq C /\ \A s \in C \ D : Received(Peer(e), s.data)
<1>1. D \subseteq C /\ \A s \in C \ D : s.number \in N
  BY DEF Acknowledged
<1> SUFFICES ASSUME NEW s \in C, s \notin D PROVE Received(Peer(e), s.data)
  BY <1>1, Zenon
<1>2. PICK d \in Written(e) : s.number = Number(d) /\ Received(Peer(e), d)
  BY <1>1, PeerFacts DEF Covers
<1>3. s.data \in Written(e) /\ s.number = Number(s.data)
  BY DEF CacheInv, Segment
<1>4. s.data = d
  BY <1>2, <1>3, WrittenFacts, ZenonT(120)
<1> QED
  BY <1>2, <1>4, Zenon

(* Input processes every segment in this way. *)
LEMMA ReceiveInv ==
  ASSUME IInv, NEW e \in Ends, Receive(e)
  PROVE  IInv'
<1> DEFINE p == Peer(e)
<1>0. p \in Ends /\ p # e /\ Peer(p) = e
  BY PeerFacts
<1>i. Bounds(e) /\ Bounds(p) /\ CacheInv(e) /\ WindowInv(e) /\ TypeOK
  BY <1>0 DEF IInv, EndsInv
<1>a. PICK m \in net[e] : \E o \in Handled(e, m) :
        /\ Delivered(e, m)
        /\ state' = [state EXCEPT ![e] = o.state]
        /\ excuse' = [excuse EXCEPT ![e] = @ \union o.why \union Mishap(e, m)]
        /\ \/ m.type = "data" /\ ProcessData(e, m, o.cache)
           \/ m.type = "ack" /\ ProcessAck(e, m, o.cache)
           \/ m.type \in {"ping", "terminate"} /\ ProcessCmd(e, m, o.cache)
  BY Zenon DEF Receive
<1>1. PICK o \in Handled(e, m) :
        /\ Delivered(e, m)
        /\ state' = [state EXCEPT ![e] = o.state]
        /\ excuse' = [excuse EXCEPT ![e] = @ \union o.why \union Mishap(e, m)]
        /\ \/ m.type = "data" /\ ProcessData(e, m, o.cache)
           \/ m.type = "ack" /\ ProcessAck(e, m, o.cache)
           \/ m.type \in {"ping", "terminate"} /\ ProcessCmd(e, m, o.cache)
  BY <1>a, Zenon
<1>2. ASSUME NEW C, NEW W, NEW A, UNCHANGED <<pushed, next, stream>>,
             cache' = [cache EXCEPT ![e] = C], window' = [window EXCEPT ![e] = W],
             acks' = [acks EXCEPT ![e] = A]
      PROVE  Processed(e, m, o, C, W, A)
  <2>0. Delivered(e, m) /\ DOMAIN net = Ends
    BY <1>i, <1>1 DEF TypeOK
  <2>1. DOMAIN net' = Ends /\ \A x \in Ends : net'[x] \subseteq net[x]
    BY <2>0, Zenon DEF Delivered
  <2>2. reader' = reader
    BY DEF Receive
  <2> QED
    BY <1>1, <1>2, <2>1, <2>2, ZenonT(120) DEF Processed
<1>3. Packet(p, m) /\ o.cache \subseteq cache[e]
  BY HandledFacts, ZenonT(120)
<1>4. window = [window EXCEPT ![e] = window[e]] /\ acks = [acks EXCEPT ![e] = acks[e]]
  BY <1>i DEF TypeOK
<1>5. \A A \in SUBSET acks[e] : Taken(e, m, window[e], A)
  BY Zenon DEF Taken
<1>6. CASE m.type = "data" /\ ProcessData(e, m, o.cache)
  <2> DEFINE Fits == Minus(m.number, Number(next[e])) < ReceivingWindow
             A == IF Fits THEN {n \in acks[e] : n >= m.sendingNext} \union {m.number} ELSE acks[e]
             W == IF Fits /\ ~ Has(e, m.number)
                  THEN window[e] \union {[number |-> m.number, data |-> m.data]} ELSE window[e]
  <2>1. /\ cache' = [cache EXCEPT ![e] = o.cache] /\ window' = [window EXCEPT ![e] = W]
        /\ acks' = [acks EXCEPT ![e] = A] /\ UNCHANGED <<pushed, next, stream>>
    BY <1>6, Zenon DEF ProcessData
  <2>2. m.data \in Written(p) /\ m.number = Number(m.data)
    BY <1>3, <1>6, Zenon DEF Packet
  <2>3. Segment(m.data) = [number |-> m.number, data |-> m.data]
    BY <2>2, ZenonT(120) DEF Segment
  <2>4. /\ window[e] \subseteq W
        /\ \A s \in W \ window[e] : s = Segment(m.data) /\ s.data = m.data /\ s.number = m.number
    <3>1. Segment(m.data).data = m.data /\ Segment(m.data).number = m.number
      BY <2>2, Zenon DEF Segment
    <3>2. W \in {window[e], window[e] \union {Segment(m.data)}}
      BY <2>3
    <3> HIDE DEF W
    <3> QED
      BY <3>1, <3>2, ZenonT(120)
  <2>5. Has(e, m.number) => Segment(m.data) \in window[e]
    <3> SUFFICES ASSUME NEW s \in window[e], s.number = m.number PROVE Segment(m.data) \in window[e]
      BY DEF Has
    <3>1. s.data \in Written(p) /\ s = Segment(s.data) /\ s.number = Number(s.data)
      BY <1>i DEF WindowInv, Segment
    <3>2. s.data = m.data
      BY <1>0, <1>i, <2>2, <3>1, WrittenFacts, ZenonT(120)
    <3> QED
      BY <3>1, <3>2
  <2>6. Fits => Segment(m.data) \in W
    BY <2>3, <2>5
  <2>7. \A n \in A \ acks[e] : n = m.number /\ Fits
    OBVIOUS
  <2> HIDE DEF A, W, Fits
  <2>8. "reading" \notin Mishap(e, m) /\ reader[e] = "empty" => m.number # Number(next[e])
    BY <1>6, Zenon DEF Mishap, Because
  <2>9. Taken(e, m, W, A)
    BY <2>2, <2>4, <2>6, <2>7, <2>8, Zenon DEF Taken
  <2>10. Kept(e, m, o, o.cache)
    BY DEF Kept
  <2> QED
    BY <1>2, <2>1, <2>9, <2>10, ReceiveStep, Zenon
<1>7. ASSUME m.type # "data", Reached(p, m.receivingNext), "sending" \notin Mishap(e, m)
      PROVE  \A s \in cache[e] \ Clear(cache[e], m.receivingNext) : Received(p, s.data)
  <2>1. ~ ClearedInError(cache[e], m.receivingNext)
    BY <1>7, Zenon DEF Mishap, Because
  <2> QED
    BY <1>i, <1>7, <2>1, ClearFacts, ZenonT(120)
<1>8. \A upto : Clear(o.cache, upto) \subseteq o.cache
  BY Zenon DEF Clear
<1>9. CASE m.type = "ack" /\ ProcessAck(e, m, o.cache)
  <2> DEFINE L == Clear(o.cache, m.receivingNext)
             u == FirstUnacknowledged(L, pushed[e])
  <2>1. PICK D \in Acknowledged(L, u, pushed[e], m.numbers) : cache' = [cache EXCEPT ![e] = D]
    BY <1>9, ZenonT(120) DEF ProcessAck
  <2>2. UNCHANGED <<pushed, next, stream, window, acks>>
    BY <1>9 DEF ProcessAck, receiving
  <2>3. Reached(p, m.receivingNext) /\ \A n \in m.numbers : Covers(p, n)
    BY <1>3, <1>9, ZenonT(120) DEF Packet
  <2>4. L \in SUBSET cache[e]
    BY <1>3, <1>8
  <2> HIDE DEF u
  <2>5. D \subseteq L /\ \A s \in L \ D : Received(p, s.data)
    <3> HIDE DEF L
    <3> QED
      BY <1>i, <2>1, <2>3, <2>4, AcknowledgedFacts, Zenon
  <2>6. Kept(e, m, o, D)
    BY <1>7, <1>8, <1>9, <2>3, <2>5, Zenon DEF Kept
  <2>7. Processed(e, m, o, D, window[e], acks[e])
    BY <1>2, <1>4, <2>1, <2>2, ZenonT(120)
  <2> QED
    BY <1>5, <2>6, <2>7, ReceiveStep
<1>10. CASE m.type \in {"ping", "terminate"} /\ ProcessCmd(e, m, o.cache)
  <2> DEFINE L == Clear(o.cache, m.receivingNext)
             A == {n \in acks[e] : n >= m.sendingNext}
  <2>1. /\ cache' = [cache EXCEPT ![e] = L] /\ acks' = [acks EXCEPT ![e] = A]
        /\ UNCHANGED <<pushed, next, stream, window>>
    BY <1>10, Zenon DEF ProcessCmd
  <2>2. Reached(p, m.receivingNext)
    BY <1>3, <1>10, Zenon DEF Packet
  <2>3. Kept(e, m, o, L)
    <3>1. m.type # "data"
      BY <1>10, Zenon
    <3> QED BY <1>7, <1>8, <2>2, <3>1, Zenon DEF Kept
  <2>4. A \in SUBSET acks[e]
    OBVIOUS
  <2> HIDE DEF A, L
  <2>5. Processed(e, m, o, L, window[e], A)
    BY <1>2, <1>4, <2>1, ZenonT(120)
  <2>6. Taken(e, m, window[e], A)
    BY <1>5, <2>4, Zenon
  <2> QED
    BY <2>3, <2>5, <2>6, ReceiveStep, Zenon
<1> QED
  BY <1>1, <1>6, <1>9, <1>10

-----------------------------------------------------------------------------

(* Close, and the timers of updateTask. *)
LEMMA TimerStep ==
  ASSUME IInv, NEW e \in Ends, Close(e) \/ Drained(e) \/ Expire(e)
  PROVE  IInv'
<1> USE DEF Active, ReadyToClose, PeerClosed, Terminating, PeerTerminating, Terminated
<1>0. Peer(e) \in Ends /\ Peer(Peer(e)) = e
  BY PeerFacts
<1>i. EndsInv(e) /\ EndsInv(Peer(e)) /\ TypeOK
  BY <1>0 DEF IInv
<1>n. Bounds(e) /\ Bounds(Peer(e))
  BY <1>i DEF EndsInv
<1>1. /\ UNCHANGED <<receiving, reader, net>>
      /\ OnClose(state[e]) # PeerTerminating \/ state[e] = PeerTerminating
      /\ \A s : GivesUp(e, s) \subseteq {"sending"}
      /\ state[e] = ReadyToClose => "reading" \in excuse[e]
      /\ Gone(e) /\ "reading" \notin excuse[e] => AtEnd(e)
  BY <1>i DEF Close, Drained, Expire, OnClose, GivesUp, Because, EndsInv, EndInv
<1>2. CASE Close(e)
  <2> DEFINE s == OnClose(state[e])
             E == {"reading"} \union GivesUp(e, s)
  <2>1. s \in States /\ s # PeerTerminating /\ ~ Gone(e) /\ SetState(e, s, E)
    BY <1>i, <1>2, Zenon DEF Close, OnClose, States, Gone, TypeOK
  <2>2. E \in SUBSET {"sending", "reading"} /\ GivesUp(e, s) \subseteq E /\ "reading" \in E
    BY <1>1, Zenon
  <2> HIDE DEF s, E
  <2> QED
    BY <1>1, <2>1, <2>2, SetStateStep, Zenon
<1>3. CASE Drained(e)
  <2>1. /\ SetState(e, Terminating, {}) /\ Terminating \in States /\ cache[e] = {} /\ "reading" \in excuse[e]
    BY <1>1, <1>3, Zenon DEF Drained, States
  <2> QED
    BY <1>1, <2>1, SetStateStep, Zenon
<1>4. CASE state[e] = ReadyToClose /\ SetState(e, Terminating, GivesUp(e, Terminating))
  <2> DEFINE E == GivesUp(e, Terminating)
  <2>1. E \in SUBSET {"sending", "reading"} /\ GivesUp(e, Terminating) \subseteq E /\ "reading" \in excuse[e]
    BY <1>1, <1>4
  <2>2. SetState(e, Terminating, E) /\ Terminating \in States
    BY <1>4, Zenon DEF States
  <2> HIDE DEF E
  <2> QED
    BY <1>1, <2>1, <2>2, SetStateStep, Zenon
<1>5. CASE /\ state[e] = PeerTerminating
           /\ SetState(e, Terminating, GivesUp(e, Terminating)
                \union Because("reading", window[e] # {} \/ reader[e] = "empty"))
  <2> DEFINE E == GivesUp(e, Terminating) \union Because("reading", window[e] # {} \/ reader[e] = "empty")
  <2>1. E \in SUBSET {"sending", "reading"} /\ GivesUp(e, Terminating) \subseteq E
    BY <1>1, Zenon DEF Because
  <2>2. SetState(e, Terminating, E) /\ Terminating \in States /\ ~ Gone(e)
    BY <1>5, Zenon DEF States, Gone
  <2>3. ASSUME "reading" \notin E PROVE AtEnd(e)
    <3>1. window[e] = {} /\ Gone(Peer(e))
      BY <1>i, <1>5, <2>3, Zenon DEF Because, EndsInv, EndInv
    <3>2. ASSUME "sending" \notin excuse[Peer(e)] PROVE next[e] = pushed[Peer(e)]
      <4>1. cache[Peer(e)] = {} /\ \A d \in Written(Peer(e)) : d < next[e]
        BY <1>i, <1>0, <3>1, <3>2, Zenon DEF EndsInv, KeptInv, ClosesWrite, Gone, Received
      <4>2. QED
        <5>1. /\ next[e] \in Nat /\ pushed[Peer(e)] \in Nat /\ First \in Nat
              /\ First =< next[e] /\ next[e] =< pushed[Peer(e)]
          BY <1>n, Zenon DEF Bounds
        <5>2. next[e] \notin Written(Peer(e))
          BY <4>1, <5>1
        <5> QED
          BY <5>1, <5>2 DEF Written
    <3> QED
      BY <3>1, <3>2 DEF AtEnd
  <2> HIDE DEF E
  <2> QED
    BY <1>1, <2>1, <2>2, <2>3, SetStateStep, Zenon
<1>6. CASE state[e] = Terminating /\ SetState(e, Terminated, GivesUp(e, Terminated))
  <2> DEFINE E == GivesUp(e, Terminated)
  <2>1. E \in SUBSET {"sending", "reading"} /\ GivesUp(e, Terminated) \subseteq E
    BY <1>1
  <2>2. SetState(e, Terminated, E) /\ Terminated \in States /\ Gone(e)
    BY <1>6 DEF States, Gone
  <2> HIDE DEF E
  <2> QED
    BY <1>1, <2>1, <2>2, SetStateStep, ZenonT(120)
<1> QED
  BY <1>2, <1>3, <1>4, <1>5, <1>6 DEF Expire

(* A new connection satisfies the invariant. *)
LEMMA InitInv == Init => IInv
<1> SUFFICES ASSUME Init PROVE IInv
  OBVIOUS
<1>1. TypeOK
  BY PeerFacts, NumbersAssumption DEF Init, TypeOK, States
<1>2. \A e \in Ends : Bounds(e) /\ Written(e) = {} /\ First .. next[e] - 1 = {} /\ Peer(e) \in Ends
  BY PeerFacts, NumbersAssumption DEF Init, Bounds, Written
<1>3. \A e \in Ends : CacheInv(e) /\ WindowInv(e) /\ StreamInv(e) /\ AckInv(e) /\ NetInv(e)
  BY <1>2 DEF Init, CacheInv, WindowInv, StreamInv, AckInv, NetInv
<1>4. \A e \in Ends : KeptInv(e) /\ EndInv(e)
  BY <1>2 DEF Init, KeptInv, EndInv, Gone, Active, ReadyToClose, Terminating, PeerTerminating, Terminated
<1> QED
  BY <1>1, <1>2, <1>3, <1>4 DEF IInv, EndsInv

(* Every step of the connection and of the network preserves it. *)
LEMMA NextInv == IInv /\ [Next]_vars => IInv'
<1> SUFFICES ASSUME IInv, [Next]_vars PROVE IInv'
  OBVIOUS
<1>1. ASSUME NEW e \in Ends,
             DOMAIN net' = Ends, \A x \in Ends : net'[x] \subseteq net[x],
             UNCHANGED <<state, sending, receiving, reader, excuse>>
      PROVE  IInv'
  <2>1. net'[e] \subseteq net[e] /\ net'[Peer(e)] \subseteq net[Peer(e)]
    BY <1>1, PeerFacts, Zenon
  <2> QED
    BY <1>1, <2>1, NetStep, Zenon DEF sending, receiving
<1>2. CASE UNCHANGED vars
  <2>1. PICK e \in Ends : TRUE
    BY EndsAssumption
  <2> QED
    BY <1>1, <1>2, <2>1 DEF vars, sending, receiving, IInv, TypeOK
<1>3. CASE Next
  <2>1. PICK e \in Ends :
          \/ Lose(e)
          \/ BeginWrite(e) \/ Push(e) \/ WriteFails(e)
          \/ ReadData(e) \/ ReadNothing(e) \/ ReadReturns(e) \/ Close(e)
          \/ Receive(e)
          \/ Drained(e) \/ Expire(e)
          \/ FlushAcks(e) \/ FlushData(e) \/ Ping(e) \/ PingTerminate(e)
    BY <1>3 DEF Next
  <2>0. DOMAIN net = Ends
    BY DEF IInv, TypeOK
  <2>2. CASE Lose(e)
    <3>1. DOMAIN net' = Ends /\ \A x \in Ends : net'[x] \subseteq net[x]
      BY <2>0, <2>2 DEF Lose
    <3> QED
      BY <1>1, <2>2, <3>1 DEF Lose
  <2>3. CASE BeginWrite(e) \/ WriteFails(e)
    BY <1>1, <2>0, <2>3 DEF BeginWrite, WriteFails
  <2> QED
    BY <2>1, <2>2, <2>3, PushStep, ReadDataStep, ReaderStep, TimerStep, ReceiveInv, SendStep
<1> QED
  BY <1>2, <1>3

(* Read gives out what was written, in order and once, whatever the        *)
(* network does, for all windows and wherever the numbers wrap.            *)
THEOREM StreamStaysIntact == Spec => []StreamIntact
<1>1. IInv => StreamIntact
  BY Zenon DEF IInv, EndsInv, StreamInv, StreamIntact
<1> QED
  BY <1>1, InitInv, NextInv, PTL DEF Spec

(* What has left the sending window has arrived: no ack and no             *)
(* ReceivingNext covers more, unless the end has given up sending or       *)
(* SendingWindow.Clear has compared wrapped numbers.                       *)
THEOREM NothingIsLost == Spec => []NothingLost
<1>1. IInv => NothingLost
  <2> SUFFICES ASSUME IInv, NEW e \in Ends, "sending" \notin excuse[e], NEW d \in Written(e)
               PROVE  \/ \E s \in cache[e] \union window[Peer(e)] : s.data = d
                      \/ \E r \in stream[Peer(e)] : r.data = d
    BY Zenon DEF NothingLost, Written
  <2>1. Segment(d) \in cache[e] \/ d < next[Peer(e)] \/ Segment(d) \in window[Peer(e)]
    BY DEF IInv, EndsInv, KeptInv, Received
  <2>2. Segment(d).data = d
    BY DEF Segment
  <2>3. ASSUME d < next[Peer(e)] PROVE \E r \in stream[Peer(e)] : r.data = d
    <3>1. Bounds(e) /\ Bounds(Peer(e)) /\ StreamInv(Peer(e))
      BY PeerFacts, Zenon DEF IInv, EndsInv
    <3>2. First \in Nat /\ next[Peer(e)] \in Nat /\ pushed[e] \in Nat
      BY <3>1 DEF Bounds
    <3>3. d \in First .. next[Peer(e)] - 1
      BY <2>3, <3>2 DEF Written
    <3> QED
      BY <3>1, <3>3, Zenon DEF StreamInv
  <2> QED
    BY <2>1, <2>2, <2>3
<1> QED
  BY <1>1, InitInv, NextInv, PTL DEF Spec

(* io.EOF comes after everything the other end wrote, with the exceptions  *)
(* the excuses name.                                                       *)
THEOREM EofComesLast == Spec => []EofIsEnd
<1>1. IInv => EofIsEnd
  BY DEF IInv, EndsInv, EndInv, AtEnd, EofIsEnd
<1> QED
  BY <1>1, InitInv, NextInv, PTL DEF Spec

=============================================================================
