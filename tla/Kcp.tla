-------------------------------- MODULE Kcp --------------------------------
(* The KCP transport, transport/v2raykcp: a connection between two ends    *)
(* over a network that loses, repeats and reorders packets.                *)
(*                                                                         *)
(* A segment is its 32-bit number and its payload; the payloads an end     *)
(* writes are First, First + 1, ... and the number of payload d is d       *)
(* modulo NumberSpace, 2^32 in the code.  All comparisons of the code are  *)
(* on numbers.  The windows are sets: payloads give the order of the       *)
(* sender's list, and the receiver's window is a map by number.            *)
(*                                                                         *)
(* Timers (retransmission, ack interval, ping interval, the 4, 8, 15 and   *)
(* 30 seconds of updateTask) may fire at any time.  How many segments one  *)
(* Flush writes (windows and congestion control) is left open.             *)
(*                                                                         *)
(* excuse[e] has "sending" once something e wrote may be lost, and         *)
(* "reading" once what e reads may be cut short; the operations that do it *)
(* say so.                                                                 *)
EXTENDS Integers, FiniteSets

CONSTANTS Ends,            \* the two ends of the connection
          Writers,         \* the ends whose application writes
          Readers,         \* the ends whose application reads
          NumberSpace,     \* how many segment numbers there are
          First,           \* the first payload; the connection may be old
          MaxSegments,     \* payloads an application writes
          SendingBuffer,   \* SendingWorker.windowSize
          ReceivingWindow, \* ReceivingWorker.windowSize
          Capacity         \* packets on their way

ASSUME NumbersAssumption ==
  /\ NumberSpace \in Nat /\ First \in Nat
  /\ First < NumberSpace
  /\ MaxSegments \in Nat /\ ReceivingWindow \in Nat
  /\ MaxSegments + ReceivingWindow =< NumberSpace \div 2

ASSUME EndsAssumption == \E a, b \in Ends : a # b /\ Ends = {a, b}

VARIABLES state,    \* Connection.state
          pushed,   \* SendingWorker.nextNumber, as a payload
          cache,    \* SendingWindow.cache
          una,      \* SendingWorker.firstUnacknowledged
          acks,     \* AckList.numbers
          next,     \* ReceivingWorker.nextNumber, as a payload
          window,   \* ReceivingWindow.cache
          stream,   \* what Read has taken: [at, data] for place and payload
          writer,   \* where the application's Write is
          reader,   \* where the application's Read is
          net,      \* packets on their way to an end
          excuse    \* what an end can no longer promise

vars == <<state, pushed, cache, una, acks, next, window, stream, writer,
          reader, net, excuse>>

sending   == <<pushed, cache, una>>
receiving == <<acks, next, window, stream>>

Active          == "Active"
ReadyToClose    == "ReadyToClose"
PeerClosed      == "PeerClosed"
Terminating     == "Terminating"
PeerTerminating == "PeerTerminating"
Terminated      == "Terminated"
States == {Active, ReadyToClose, PeerClosed, Terminating, PeerTerminating, Terminated}

Peer(e) == CHOOSE p \in Ends : p # e

(* uint32 arithmetic. *)
Numbers    == 0 .. NumberSpace - 1
Half       == NumberSpace \div 2 - 1
Minus(a, b) == IF a >= b THEN a - b ELSE a - b + NumberSpace
Number(d)   == IF d < NumberSpace THEN d ELSE d - NumberSpace
Segment(d)  == [number |-> Number(d), data |-> d]

Data(n, d, s, c) == [type |-> "data", number |-> n, data |-> d, sendingNext |-> s, close |-> c]
Ack(N, r, c)     == [type |-> "ack", numbers |-> N, receivingNext |-> r, close |-> c]
Cmd(t, s, r, c)  == [type |-> t, sendingNext |-> s, receivingNext |-> r, close |-> c]

Init ==
  /\ state = [e \in Ends |-> Active]
  /\ pushed = [e \in Ends |-> First]
  /\ cache = [e \in Ends |-> {}]
  /\ una = [e \in Ends |-> First]
  /\ acks = [e \in Ends |-> {}]
  /\ next = [e \in Ends |-> First]
  /\ window = [e \in Ends |-> {}]
  /\ stream = [e \in Ends |-> {}]
  /\ writer = [e \in Ends |-> "idle"]
  /\ reader = [e \in Ends |-> "idle"]
  /\ net = [e \in Ends |-> {}]
  /\ excuse = [e \in Ends |-> {}]

----------------------------------------------------------------------------
(* The network. *)

(* output.Write: a packet for which there is no room is lost.  One that    *)
(* arrives at a terminated end changes nothing that is looked at again.    *)
Transmit(e, m) ==
  LET Room == Cardinality(net[e]) + Cardinality(net[Peer(e)]) < Capacity
  IN  net' = [net EXCEPT ![Peer(e)] = IF Room /\ state[Peer(e)] # Terminated THEN @ \union {m} ELSE @]

Lose(e) ==
  /\ \E m \in net[e] : net' = [net EXCEPT ![e] = @ \ {m}]
  /\ UNCHANGED <<state, sending, receiving, writer, reader, excuse>>

(* The packet is delivered, and perhaps again later. *)
Delivered(e, m) == net' = [net EXCEPT ![e] = @ \ {m}] \/ UNCHANGED net

----------------------------------------------------------------------------
(* The sending window. *)

Before(C, s) == {t \in C : t.data < s.data}

(* Mutant: the segment the other end waits for goes too. *)
ClearThrough(C, upto) == {s \in C : \E t \in Before(C, s) \union {s} : t.number > upto}

(* SendingWindow.Clear removes from the front while the number is below. *)
Clear(C, upto) == {s \in C : \E t \in Before(C, s) \union {s} : t.number >= upto}

(* FindFirstUnacknowledged *)
FirstUnacknowledged(C, p) ==
  IF C = {} THEN Number(p) ELSE (CHOOSE s \in C : Before(C, s) = {}).number

(* What may be left when the numbers of an ack have been processed, in any *)
(* order: processAck ignores numbers outside the window, and Remove gives  *)
(* up at a larger number, which can stand before its own after a wrap.     *)
Acknowledged(C, u, p, N) ==
  LET Named  == {s \in C : /\ s.number \in N
                           /\ Minus(s.number, u) =< Half
                           /\ Minus(s.number, Number(p)) >= Half}
      InTheWay(s) == {t \in Before(C, s) : t.number > s.number}
  IN  {D \in SUBSET C :
         /\ \A s \in C \ D : s \in Named /\ InTheWay(s) \intersect D = {}
         /\ \A s \in D \intersect Named : InTheWay(s) # {}}

(* Numbers wrap, and Clear compares them as if they did not. *)
ClearedInError(C, upto) ==
  \E s \in C \ Clear(C, upto) : s.number < upto /\ Minus(s.number, upto) =< Half

Because(why, holds) == IF holds THEN {why} ELSE {}

----------------------------------------------------------------------------
(* The connection's state. *)

(* OnPeerClosed, the handling of CommandTerminate, and Close. *)
OnPeerClosed(s) == CASE s = ReadyToClose -> Terminating
                     [] s = Active       -> PeerClosed
                     [] OTHER            -> s
OnTerminate(s)  == CASE s \in {Active, PeerClosed} -> PeerTerminating
                     [] s = ReadyToClose -> Terminating
                     [] s = Terminating  -> Terminated
                     [] OTHER            -> s
OnClose(s)      == CASE s = Active          -> ReadyToClose
                     [] s = PeerClosed      -> Terminating
                     [] s = PeerTerminating -> Terminated
                     [] OTHER               -> s

ClosesWrite(s) == s \in {PeerClosed, Terminating, PeerTerminating, Terminated}

CloseWrite(C) == Clear(C, NumberSpace - 1)

CacheIn(s, C) == IF ClosesWrite(s) THEN CloseWrite(C) ELSE C

(* What is not acknowledged is given up. *)
GivesUp(e, s) == Because("sending", ClosesWrite(s) /\ cache[e] # {})

(* SetState(s) after a look at the state, which is only atomic by itself:  *)
(* a Close may have looked at the same state, and set its own before or    *)
(* after.                                                                  *)
Outcomes(e, s) ==
  LET t == OnClose(state[e])
  IN  {[state |-> s, cache |-> CacheIn(s, cache[e]), why |-> {}]} \union
      IF t = state[e] THEN {}
      ELSE {[state |-> u, cache |-> CacheIn(s, CacheIn(t, cache[e])),
             why |-> {"reading"} \union GivesUp(e, t)] : u \in {s, t}}

SetState(e, s, E) ==
  /\ \E o \in Outcomes(e, s) :
       /\ state' = [state EXCEPT ![e] = o.state]
       /\ cache' = [cache EXCEPT ![e] = o.cache]
       /\ excuse' = [excuse EXCEPT ![e] = @ \union E \union o.why]
  /\ UNCHANGED <<pushed, una>>

----------------------------------------------------------------------------
(* The application. *)

BeginWrite(e) ==
  /\ e \in Writers
  /\ writer[e] = "idle" /\ state[e] = Active
  /\ writer' = [writer EXCEPT ![e] = "writing"]
  /\ UNCHANGED <<state, sending, receiving, reader, net, excuse>>

(* Push; the state is not looked at again. *)
Push(e) ==
  /\ writer[e] = "writing"
  /\ pushed[e] < First + MaxSegments
  /\ Cardinality(cache[e]) =< SendingBuffer
  /\ cache' = [cache EXCEPT ![e] = @ \union {Segment(pushed[e])}]
  /\ pushed' = [pushed EXCEPT ![e] = @ + 1]
  /\ \E w \in {"idle", "writing"} : writer' = [writer EXCEPT ![e] = w]
  /\ excuse' = [excuse EXCEPT ![e] = @ \union Because("sending", state[e] # Active)]
  /\ UNCHANGED <<state, una, receiving, reader, net>>

(* The window is full, and the connection is not active any more or the    *)
(* write deadline has passed.                                              *)
WriteFails(e) ==
  /\ writer[e] = "writing"
  /\ Cardinality(cache[e]) > SendingBuffer
  /\ writer' = [writer EXCEPT ![e] = "idle"]
  /\ UNCHANGED <<state, sending, receiving, reader, net, excuse>>

Has(e, n) == \E s \in window[e] : s.number = n

(* Read has passed its first look at the state. *)
Reading(e) == e \in Readers /\ reader[e] = "idle" /\ state[e] \notin {ReadyToClose, Terminating, Terminated}

(* Mutant: takes what is there, in order or not. *)
ReadDataUnordered(e) ==
  /\ Reading(e)
  /\ \E s \in window[e] :
       /\ window' = [window EXCEPT ![e] = @ \ {s}]
       /\ stream' = [stream EXCEPT ![e] = @ \union {[at |-> next[e], data |-> s.data]}]
  /\ next' = [next EXCEPT ![e] = @ + 1]
  /\ UNCHANGED <<state, sending, acks, writer, reader, net, excuse>>

(* ReadMultiBuffer takes all that is in order. *)
ReadData(e) ==
  /\ Reading(e)
  /\ \E k \in 1 .. ReceivingWindow :
       LET Places   == next[e] .. next[e] + k - 1
           Taken(i) == CHOOSE s \in window[e] : s.number = Number(i)
       IN  /\ \A i \in Places : Has(e, Number(i))
           /\ ~ Has(e, Number(next[e] + k))
           /\ window' = [window EXCEPT ![e] = @ \ {Taken(i) : i \in Places}]
           /\ stream' = [stream EXCEPT ![e] = @ \union
                           {[at |-> i, data |-> Taken(i).data] : i \in Places}]
           /\ next' = [next EXCEPT ![e] = @ + k]
  /\ UNCHANGED <<state, sending, acks, writer, reader, net, excuse>>

(* ReadMultiBuffer finds nothing; Read then looks at the state. *)
ReadNothing(e) ==
  /\ Reading(e)
  /\ ~ Has(e, Number(next[e]))
  /\ reader' = [reader EXCEPT ![e] = "empty"]
  /\ UNCHANGED <<state, sending, receiving, writer, net, excuse>>

(* ... and returns io.EOF, or waits for dataInput or the time and tries again. *)
ReadReturns(e) ==
  /\ \/ /\ reader[e] = "empty"
        /\ reader' = [reader EXCEPT ![e] = IF state[e] = PeerTerminating THEN "end" ELSE "idle"]
     \/ /\ e \in Readers /\ reader[e] = "idle"
        /\ state[e] \in {ReadyToClose, Terminating, Terminated}
        /\ reader' = [reader EXCEPT ![e] = "end"]
  /\ UNCHANGED <<state, sending, receiving, writer, net, excuse>>

(* Close, which updateTask also calls when nothing was heard for 30        *)
(* seconds.                                                                *)
Close(e) ==
  /\ OnClose(state[e]) # state[e]
  /\ SetState(e, OnClose(state[e]), {"reading"} \union GivesUp(e, OnClose(state[e])))
  /\ UNCHANGED <<receiving, writer, reader, net>>

----------------------------------------------------------------------------
(* Input: first the state a segment asks for, then its content. *)

Asked(e, m) == IF m.close THEN OnPeerClosed(state[e])
               ELSE IF m.type = "terminate" THEN OnTerminate(state[e]) ELSE state[e]

(* HandleOption and the handling of CommandTerminate. *)
Handled(e, m) ==
  IF Asked(e, m) = state[e] THEN {[state |-> state[e], cache |-> cache[e], why |-> {}]}
  ELSE {[o EXCEPT !.why = @ \union GivesUp(e, Asked(e, m))] : o \in Outcomes(e, Asked(e, m))}

(* ReceivingWorker.ProcessSegment; a segment outside the window is dropped *)
(* without an ack.                                                         *)
ProcessData(e, m, C) ==
  LET Fits == Minus(m.number, Number(next[e])) < ReceivingWindow
  IN  /\ acks' = [acks EXCEPT ![e] =
           IF Fits THEN {n \in @ : n >= m.sendingNext} \union {m.number} ELSE @]
      /\ window' = [window EXCEPT ![e] =
           IF Fits /\ ~ Has(e, m.number)
           THEN @ \union {[number |-> m.number, data |-> m.data]} ELSE @]
      /\ cache' = [cache EXCEPT ![e] = C]
      /\ UNCHANGED <<pushed, una, next, stream>>

(* SendingWorker.ProcessSegment *)
ProcessAck(e, m, C) ==
  LET L == Clear(C, m.receivingNext)
  IN  /\ \E D \in Acknowledged(L, FirstUnacknowledged(L, pushed[e]), pushed[e], m.numbers) :
           /\ cache' = [cache EXCEPT ![e] = D]
           /\ una' = [una EXCEPT ![e] = FirstUnacknowledged(D, pushed[e])]
      /\ UNCHANGED <<pushed, receiving>>

(* ProcessReceivingNext and ProcessSendingNext *)
ProcessCmd(e, m, C) ==
  LET L == Clear(C, m.receivingNext)
  IN  /\ cache' = [cache EXCEPT ![e] = L]
      /\ una' = [una EXCEPT ![e] = FirstUnacknowledged(L, pushed[e])]
      /\ acks' = [acks EXCEPT ![e] = {n \in @ : n >= m.sendingNext}]
      /\ UNCHANGED <<pushed, next, window, stream>>

(* Data that arrives between the two looks of Read, and a ReceivingNext    *)
(* that is compared wrongly.                                               *)
Mishap(e, m) ==
  IF m.type = "data" THEN Because("reading", reader[e] = "empty" /\ m.number = Number(next[e]))
  ELSE Because("sending", ClearedInError(cache[e], m.receivingNext))

Receive(e) ==
  /\ \E m \in net[e] : \E o \in Handled(e, m) :
       /\ Delivered(e, m)
       /\ state' = [state EXCEPT ![e] = o.state]
       /\ excuse' = [excuse EXCEPT ![e] = @ \union o.why \union Mishap(e, m)]
       /\ \/ m.type = "data" /\ ProcessData(e, m, o.cache)
          \/ m.type = "ack" /\ ProcessAck(e, m, o.cache)
          \/ m.type \in {"ping", "terminate"} /\ ProcessCmd(e, m, o.cache)
  /\ UNCHANGED <<writer, reader>>

----------------------------------------------------------------------------
(* updateTask, run by the two updaters. *)

(* Mutant: without the look at IsEmpty. *)
DrainedUnchecked(e) ==
  /\ state[e] = ReadyToClose
  /\ SetState(e, Terminating, {})
  /\ UNCHANGED <<receiving, writer, reader, net>>

(* Everything is acknowledged. *)
Drained(e) ==
  /\ state[e] = ReadyToClose /\ cache[e] = {}
  /\ SetState(e, Terminating, {})
  /\ UNCHANGED <<receiving, writer, reader, net>>

(* 15, 4 and 8 seconds in a state. *)
Expire(e) ==
  /\ \/ state[e] = ReadyToClose /\ SetState(e, Terminating, GivesUp(e, Terminating))
     \/ /\ state[e] = PeerTerminating
        /\ SetState(e, Terminating, GivesUp(e, Terminating)
             \union Because("reading", window[e] # {} \/ reader[e] = "empty"))
     \/ state[e] = Terminating /\ SetState(e, Terminated, GivesUp(e, Terminated))
  /\ UNCHANGED <<receiving, writer, reader, net>>

(* An updateTask that has just set Terminating, or looked before it was    *)
(* set, still flushes.                                                     *)
Flushing(e) == state[e] # Terminated
Closing(e)  == state[e] = ReadyToClose
Sends(e, m) ==
  /\ Transmit(e, m)
  /\ UNCHANGED <<state, sending, receiving, writer, reader, excuse>>

(* AckList.Flush: what is due takes the rest along, and a list that has    *)
(* become empty is sent as well.                                           *)
FlushAcks(e) ==
  /\ Flushing(e)
  /\ Sends(e, Ack(acks[e], Number(next[e]), Closing(e)))

(* SendingWindow.Flush writes the segments that are due. *)
FlushData(e) ==
  /\ Flushing(e)
  /\ \E s \in cache[e] : Sends(e, Data(s.number, s.data, una[e], Closing(e)))

Ping(e) == Flushing(e) /\ Sends(e, Cmd("ping", una[e], Number(next[e]), Closing(e)))

PingTerminate(e) ==
  /\ state[e] = Terminating
  /\ Sends(e, Cmd("terminate", una[e], Number(next[e]), FALSE))

----------------------------------------------------------------------------
Next == \E e \in Ends :
  \/ Lose(e)
  \/ BeginWrite(e) \/ Push(e) \/ WriteFails(e)
  \/ ReadData(e) \/ ReadNothing(e) \/ ReadReturns(e) \/ Close(e)
  \/ Receive(e)
  \/ Drained(e) \/ Expire(e)
  \/ FlushAcks(e) \/ FlushData(e) \/ Ping(e) \/ PingTerminate(e)

Spec == Init /\ [][Next]_vars

----------------------------------------------------------------------------
(* Read gives out the payloads in the order they were written, each once,  *)
(* whatever the network does and however the numbers wrap.                 *)
StreamIntact == \A e \in Ends : \A r \in stream[e] : r.data = r.at

(* A segment leaves the sending window only when the other end has it: an  *)
(* ack, or ReceivingNext, never covers what was dropped or not received.   *)
(* CloseWrite with segments unacknowledged, a Write overtaken by a change  *)
(* of state, and Clear when the numbers wrap are the exceptions.           *)
NothingLost == \A e \in Ends :
  "sending" \notin excuse[e] =>
    \A d \in First .. pushed[e] - 1 :
      \/ \E s \in cache[e] \union window[Peer(e)] : s.data = d
      \/ \E r \in stream[Peer(e)] : r.data = d

(* io.EOF for an application that has not closed its end means that it has *)
(* read all the other end wrote.  The exceptions are what the other end    *)
(* lost (see NothingLost), data and terminate that arrive between the two  *)
(* looks of Read, and a Read more than 4 seconds after the terminate.      *)
EofIsEnd == \A e \in Ends :
  /\ reader[e] = "end"
  /\ "sending" \notin excuse[Peer(e)]
  /\ "reading" \notin excuse[e]
  => next[e] = pushed[Peer(e)]
=============================================================================
