--------------------------- MODULE FailoverStream ---------------------------
(***************************************************************************)
(* protocol/failover/conn.go, with the reconnect parts of outbound.go and  *)
(* inbound.go: a session carries a byte stream each way over a connection  *)
(* that may break and be replaced.  Each side counts the frames it has     *)
(* written and the Reads it has done, and keeps the last BufferSize frames *)
(* it wrote.  RestoreConn exchanges the read counts over the new           *)
(* connection and writes again what the peer has not read.                 *)
(*                                                                         *)
(* The counts are uint32.  They are kept here as the numbers of frames and *)
(* Reads since the start of the run, of a session that is Start frames     *)
(* old, and become indexes (Index) where the code uses them.               *)
(*                                                                         *)
(* A frame is two units of data, or the empty frame of Close.  While a     *)
(* side restores its connection, c.mtx keeps its Read and Write out.  The  *)
(* goroutines and locks themselves are the subject of FailoverLocks.       *)
(***************************************************************************)
EXTENDS Integers, Sequences

CONSTANTS
  Writers,     \* the sides that write data
  BufferSize,  \* the number of frames kept for writing again
  IndexSpace,  \* the number of indexes, 2^32
  Start,       \* the index of the next frame of either side
  MaxFrames,   \* bound on the frames of data a side writes
  MaxLinks     \* bound on the connections; the last of them does not break

Sides == {"client", "server"}

(* A run takes the indexes round at most once: a peer that is 2^32 frames  *)
(* behind would count as one that has read everything.                     *)
ASSUME StreamAssumption ==
  /\ BufferSize \in Nat \ {0}
  /\ IndexSpace \in Nat
  /\ Start \in 0 .. IndexSpace - 1
  /\ MaxFrames \in Nat
  /\ MaxFrames + 1 < IndexSpace

Peer(s) == IF s = "client" THEN "server" ELSE "client"
None == 0
Closing == 0                       \* the empty frame
Index(n) == (Start + n) % IndexSpace
Units(f) == <<<<f, 1>>, <<f, 2>>>>   \* what a frame of data carries

VARIABLES
  links,    \* the connections made so far: up, frames under way, indexes exchanged
  end,      \* the failoverConn of each side
  got,      \* what Read has returned at each side, unit by unit
  spoilt    \* auxiliary: a Read was shorter than its frame, a frame was cut,
            \* or the ring was Shifted

vars == <<links, end, got, spoilt>>

NewLink == [up |-> TRUE, to |-> [s \in Sides |-> << >>], index |-> [s \in Sides |-> << >>]]

(* phase: up; down (in awaitConn); restore (in RestoreConn, index sent); over *)
NewFailoverConn ==
  [phase |-> "up", conn |-> 1, next |-> None, readIndex |-> 0, readBuffer |-> << >>,
   writeIndex |-> 0, writeBuffers |-> [i \in 0 .. BufferSize - 1 |-> None], err |-> "none", closed |-> FALSE]

Init ==
  /\ links = <<NewLink>>
  /\ end = [s \in Sides |-> NewFailoverConn]
  /\ got = [s \in Sides |-> << >>]
  /\ spoilt = FALSE

Up(s) == end[s].phase = "up"
Conn(s) == links[end[s].conn]

(* The connection k is closed or has failed; of what is under way each     *)
(* side may still receive a part.                                          *)
Broken(k, client, server) ==
  [links EXCEPT ![k].up = FALSE,
                ![k].to = [s \in Sides |->
                  SubSeq(@[s], 1, IF s = "client" THEN client ELSE server)]]

(* c.Conn.Close() at side s: it reads no more from it, the peer may. *)
ClosedBy(s, ls) == [ls EXCEPT ![end[s].conn].up = FALSE, ![end[s].conn].to[s] = << >>]

Cut(k) ==
  /\ links[k].up
  /\ k < MaxLinks
  /\ \E c \in 0 .. Len(links[k].to["client"]), v \in 0 .. Len(links[k].to["server"]) :
       links' = Broken(k, c, v)
  /\ UNCHANGED <<end, got, spoilt>>

-----------------------------------------------------------------------------
(* A read or write failed: awaitConn gives up at once if c.err is set. *)
Failed(s) == [end EXCEPT ![s].phase = IF end[s].err = "none" THEN "down" ELSE "over"]

(* Write. *)

Sent(k, s, fs) ==
  IF links[k].up THEN [links EXCEPT ![k].to[Peer(s)] = @ \o fs] ELSE links

(* Mutant: the frame is not kept. *)
WrittenUnkept(s, f) == [end EXCEPT ![s].writeIndex = @ + 1]

(* The frame is kept for writing again. *)
Written(s, f) ==
  [end EXCEPT ![s].writeIndex = @ + 1, ![s].writeBuffers[Index(end[s].writeIndex) % BufferSize] = f]

(* A write into a connection that has broken may still succeed. *)
Write(s) ==
  /\ Up(s)
  /\ s \in Writers
  /\ end[s].err = "none"
  /\ end[s].writeIndex < MaxFrames
  /\ links' = Sent(end[s].conn, s, <<end[s].writeIndex + 1>>)
  /\ end' = Written(s, end[s].writeIndex + 1)
  /\ UNCHANGED <<got, spoilt>>

WriteFails(s) ==
  /\ Up(s)
  /\ ~ Conn(s).up
  /\ end' = Failed(s)
  /\ links' = ClosedBy(s, links)
  /\ UNCHANGED <<got, spoilt>>

(* Close.  c.err is set before the empty frame is written: a write that    *)
(* fails is not tried again.  The connection itself is left open.          *)
Close(s) ==
  /\ ~ end[s].closed
  /\ end[s].phase # "restore"
  /\ \E ok \in IF end[s].phase = "down" THEN {FALSE} ELSE {Conn(s).up, Up(s)} :
       /\ links' = IF ok THEN Sent(end[s].conn, s, <<Closing>>) ELSE links
       /\ end' = [(IF ok THEN Written(s, Closing) ELSE end) EXCEPT
                     ![s].phase = IF @ = "up" /\ ~ ok THEN "over" ELSE @,
                     ![s].err = "EOF",
                     ![s].closed = TRUE]
  /\ UNCHANGED <<got, spoilt>>

-----------------------------------------------------------------------------
(* Read. *)

(* Read returns n units of the buffer u and counts itself. *)
Returns(s, u, n) ==
  /\ got' = [got EXCEPT ![s] = @ \o SubSeq(u, 1, n)]
  /\ end' = [end EXCEPT ![s].readBuffer = SubSeq(u, n + 1, Len(u)), ![s].readIndex = @ + 1]

(* A frame is read into readBuffer; the caller's buffer takes n units of it. *)
ReadFrame(s, n) ==
  /\ Up(s)
  /\ end[s].readBuffer = << >>
  /\ Conn(s).to[s] # << >>
  /\ Head(Conn(s).to[s]) # Closing
  /\ Returns(s, Units(Head(Conn(s).to[s])), n)
  /\ links' = [links EXCEPT ![end[s].conn].to[s] = Tail(@)]
  /\ spoilt' = (spoilt \/ n < 2)

ReadRest(s) ==
  /\ Up(s)
  /\ end[s].readBuffer # << >>
  /\ Returns(s, end[s].readBuffer, 1)
  /\ UNCHANGED <<links, spoilt>>

(* The empty frame: SessionClosed, and the connection is closed. *)
ReadClosed(s) ==
  /\ Up(s)
  /\ end[s].readBuffer = << >>
  /\ Conn(s).to[s] # << >>
  /\ Head(Conn(s).to[s]) = Closing
  /\ end' = [end EXCEPT ![s].phase = "over", ![s].err = "EOF"]
  /\ links' = ClosedBy(s, links)
  /\ UNCHANGED <<got, spoilt>>

ReadFails(s) ==
  /\ Up(s)
  /\ end[s].readBuffer = << >>
  /\ ~ Conn(s).up
  /\ Conn(s).to[s] = << >>
  /\ end' = Failed(s)
  /\ UNCHANGED <<links, got, spoilt>>

(* io.CopyN fails in the middle of a frame and leaves the first part of it *)
(* in readBuffer.                                                          *)
ReadCut(s) ==
  /\ Up(s)
  /\ end[s].readBuffer = << >>
  /\ ~ Conn(s).up
  /\ Conn(s).to[s] # << >>
  /\ Head(Conn(s).to[s]) # Closing
  /\ end' = [Failed(s) EXCEPT
                        ![s].readBuffer = SubSeq(Units(Head(Conn(s).to[s])), 1, 1)]
  /\ links' = ClosedBy(s, links)
  /\ spoilt' = TRUE
  /\ UNCHANGED got

-----------------------------------------------------------------------------
(* Reconnection. *)

(* The client dials, sends CommandReconnect, gets StatusOK and sends its   *)
(* readIndex over the new connection.                                      *)
Dial ==
  /\ end["client"].phase = "down"
  /\ ~ end["server"].closed
  /\ Len(links) < MaxLinks
  /\ links' = Append(links, [NewLink EXCEPT !.index["client"] = <<Index(end["client"].readIndex)>>])
  /\ end' = [end EXCEPT !["client"].phase = "restore", !["client"].next = Len(links) + 1]
  /\ UNCHANGED <<got, spoilt>>

(* The server's Close has deleted the session. *)
DialNotFound ==
  /\ end["client"].phase = "down"
  /\ end["server"].closed
  /\ end' = [end EXCEPT !["client"].phase = "over", !["client"].err = "notfound"]
  /\ UNCHANGED <<links, got, spoilt>>

(* RestoreConn at the server: the old connection is closed, Read and Write *)
(* are kept out, readIndex is sent.                                        *)
Accept ==
  /\ end["server"].next < Len(links)
  /\ Len(links) > 1
  /\ end["server"].phase # "restore"
  /\ ~ end["server"].closed
  /\ links' = [ClosedBy("server", links) EXCEPT
                  ![Len(links)].index["server"] = <<Index(end["server"].readIndex)>>]
  /\ end' = [end EXCEPT !["server"].phase = "restore", !["server"].next = Len(links)]
  /\ UNCHANGED <<got, spoilt>>

(* Mutant: compares the indexes as numbers. *)
BehindUnwrapped(s, r) == IF Index(end[s].writeIndex) >= r THEN Index(end[s].writeIndex) - r ELSE 0

(* How often RestoreConn has to count r up to writeIndex. *)
Behind(s, r) == (Index(end[s].writeIndex) - r) % IndexSpace

(* The frames from r on are all in writeBuffers. *)
Kept(s, r) == Behind(s, r) =< BufferSize

(* BufferSize does not divide 2^32: after the wrap the frames take the     *)
(* slots of frames that are less than BufferSize behind.                   *)
Shifted(s, r) == /\ r > Index(end[s].writeIndex) /\ Index(end[s].writeIndex) # 0
                 /\ Behind(s, r) > IndexSpace % BufferSize
                 /\ IndexSpace % BufferSize # 0

PeerIndex(s) == links[end[s].next].index[Peer(s)]

(* Mutant: the frame the peer has read last is written again. *)
UnreadFromLast(s, r) ==
  [i \in 1 .. Behind(s, r) |-> end[s].writeBuffers[((r + i - 2) % IndexSpace) % BufferSize]]

(* The frames the peer has not read. *)
Unread(s, r) ==
  [i \in 1 .. Behind(s, r) |-> end[s].writeBuffers[((r + i - 1) % IndexSpace) % BufferSize]]

(* A session that expired while the handler was at work stays over. *)
Resumed(s) == IF end[s].err \in {"none", "EOF"} THEN "up" ELSE "over"

Restore(s) ==
  /\ end[s].phase = "restore"
  /\ PeerIndex(s) # << >>
  /\ Kept(s, PeerIndex(s)[1])
  /\ links' = Sent(end[s].next, s, Unread(s, PeerIndex(s)[1]))
  /\ end' = [end EXCEPT ![s].phase = Resumed(s), ![s].conn = end[s].next]
  /\ spoilt' = (spoilt \/ Shifted(s, PeerIndex(s)[1]))
  /\ UNCHANGED got

(* SessionBroken: final for the client; the server's handler returns and   *)
(* the connection is closed.                                               *)
RestoreBroken(s) ==
  /\ end[s].phase = "restore"
  /\ PeerIndex(s) # << >>
  /\ ~ Kept(s, PeerIndex(s)[1])
  /\ IF s = "client"
     THEN /\ end' = [end EXCEPT ![s].phase = "over", ![s].err = "broken"]
          /\ UNCHANGED links
     ELSE /\ end' = [end EXCEPT ![s].phase = IF end[s].err = "none" THEN "down" ELSE "over"]
          /\ links' = [links EXCEPT ![end[s].next].up = FALSE]
  /\ UNCHANGED <<got, spoilt>>

(* The new connection fails before RestoreConn is through. *)
RestoreFails(s) ==
  /\ end[s].phase = "restore"
  /\ ~ links[end[s].next].up
  /\ end' = [end EXCEPT ![s].phase =
                IF s = "client" \/ end[s].err = "none" THEN "down" ELSE "over"]
  /\ UNCHANGED <<links, got, spoilt>>

(* The timer of awaitConn; the client looks at it between two dials. *)
Expire(s) ==
  /\ end[s].phase = "down" \/ (s = "server" /\ end[s].phase = "restore")
  /\ end' = [end EXCEPT ![s].err = "expired",
                        ![s].phase = IF @ = "down" THEN "over" ELSE @]
  /\ UNCHANGED <<links, got, spoilt>>

-----------------------------------------------------------------------------
Next ==
  \/ \E k \in DOMAIN links : Cut(k)
  \/ \E s \in Sides :
       \/ Write(s) \/ WriteFails(s) \/ Close(s)
       \/ \E n \in 1 .. 2 : ReadFrame(s, n)
       \/ ReadRest(s) \/ ReadClosed(s) \/ ReadFails(s) \/ ReadCut(s)
       \/ Restore(s) \/ RestoreBroken(s) \/ RestoreFails(s) \/ Expire(s)
  \/ Dial \/ DialNotFound \/ Accept

Spec == Init /\ [][Next]_vars

(* Readers keep reading, a side whose connection broke notices it, and     *)
(* reconnection goes on.  Nothing has to be written, closed, cut or to     *)
(* expire.                                                                 *)
Progress ==
  \/ \E s \in Sides : \/ ReadFrame(s, 2) \/ ReadRest(s) \/ ReadClosed(s) \/ ReadFails(s)
                      \/ Restore(s) \/ RestoreBroken(s) \/ RestoreFails(s)
  \/ Dial \/ DialNotFound \/ Accept

FairSpec == Spec /\ WF_vars(Progress)

-----------------------------------------------------------------------------
(* What Read returned is, unit by unit, what the peer's Write took, from   *)
(* the start, however often the connection was replaced: RestoreConn       *)
(* neither loses nor repeats a frame, and the indexes may wrap.  It holds  *)
(* as long as every Read took its whole frame, no frame was cut in two,    *)
(* and no more than IndexSpace % BufferSize frames are written again at    *)
(* the wrap.                                                               *)
StreamIntact ==
  ~ spoilt => \A s \in Sides : \A i \in DOMAIN got[s] :
                got[s][i] = <<(i + 1) \div 2, 2 - (i % 2)>>

(* Read reports the end of the stream for the peer's empty frame only when *)
(* it has returned all that the peer wrote before its Close.               *)
EndIsEnd ==
  \A s \in Sides : ~ spoilt /\ end[s].err = "EOF" /\ ~ end[s].closed
                     => Len(got[s]) = 2 * (end[Peer(s)].writeIndex - 1)

(* When connections stop breaking, every frame a side wrote is read by the *)
(* peer, unless one of them closes or gives up the session.                *)
DataArrives ==
  \A s \in Sides : \A n \in 1 .. MaxFrames :
    end[s].writeIndex = n
      ~> \/ Len(got[Peer(s)]) >= 2 * n
         \/ spoilt
         \/ \E t \in Sides : end[t].err # "none"
=============================================================================
