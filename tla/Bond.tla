-------------------------------- MODULE Bond --------------------------------
(***************************************************************************)
(* protocol/bond: one stream each way over N connections.                  *)
(*                                                                         *)
(* The outbound dials the connections in parallel and writes a request on  *)
(* each.  The inbound gathers the connections of one UUID in a cache that  *)
(* forgets them after a while, and routes the bonded connection once all   *)
(* are there.  A Write is announced on the first connection and divided    *)
(* among all of them by their ratios.                                      *)
(*                                                                         *)
(* The model is of one UUID: keys keep the sessions of an inbound apart    *)
(* (h.mtx is the keyed mutex of Kmutex).  A byte is its position in the    *)
(* stream, a header the number it carries.                                 *)
(***************************************************************************)
EXTENDS Integers, FiniteSets, Sequences

CONSTANTS
  UploadRatios,    \* of the outbound's options, one per connection
  DownloadRatios,
  Sizes,           \* the lengths of the slices given to Write
  MaxWrites,       \* bound on the Writes of both ends together
  MaxBroken        \* the network breaks a connection while fewer are down

N == Len(UploadRatios)
Members == 1 .. N

(* Sums(s)[n] adds up the first n of s. *)
Sums(s) ==
  LET sum[n \in 0 .. Len(s)] == IF n = 0 THEN 0 ELSE sum[n - 1] + s[n]
  IN sum

Sum(s) == Sums(s)[Len(s)]

(* NewOutbound adds the ratios up in a uint8 and refuses any other total.  *)
(* A total of 356 would pass it, and make a chunk's length negative.       *)
ASSUME RatiosAssumption ==
  /\ N > 0
  /\ Len(DownloadRatios) = N
  /\ {UploadRatios, DownloadRatios} \subseteq Seq(0 .. 100)
  /\ Sum(UploadRatios) = 100
  /\ Sum(DownloadRatios) = 100

HeaderValues == 65536   \* of a uint16

ASSUME SizesAssumption == Sizes \subseteq 0 .. HeaderValues - 1

Dirs == {"up", "down"}                    \* from the client, to the client
Ends == {"client", "server"}
WriterOf(d) == IF d = "up" THEN "client" ELSE "server"
ReaderOf(d) == IF d = "up" THEN "server" ELSE "client"
None == 0

VARIABLES
  dial,     \* the goroutine of each connection in DialContext: dialling, sent, failed
  end,      \* the bondedConn of each end: none, bonded or closed, and its ratios
  link,     \* whether a connection carries data
  handled,  \* the connections whose handler has run in the inbound
  maps,     \* the maps ratioConns, each named after the connection it was made for
  cache,    \* the map in h.conns
  evicted,  \* maps taken out of h.conns whose OnEvicted has not run
  closed,   \* the connections that the inbound has closed itself
  wire,     \* what is under way, for each direction and connection
  writer,   \* the lengths given to Write, and the chunk the last Write is at
  reader    \* the frame that Read is at, readBuffer, and what Read has returned

assembly == <<dial, handled, maps, cache, evicted, closed>>
stream == <<wire, writer, reader>>
vars == <<dial, end, link, handled, maps, cache, evicted, closed, wire, writer, reader>>

Init ==
  /\ dial = [i \in Members |-> "dialling"]
  /\ end = [e \in Ends |-> [phase |-> "none", download |-> << >>, upload |-> << >>]]
  /\ link = [i \in Members |-> FALSE]
  /\ handled = {}
  /\ maps = [m \in Members |-> {}]
  /\ cache = None
  /\ evicted = {}
  /\ closed = {}
  /\ wire = [d \in Dirs |-> [i \in Members |-> << >>]]
  /\ writer = [d \in Dirs |-> [sizes |-> << >>, next |-> N + 1, failed |-> FALSE]]
  /\ reader = [d \in Dirs |-> [frame |-> 0, size |-> 0, next |-> N + 1,
                               buffer |-> << >>, got |-> << >>, ended |-> FALSE]]

Cutting(is) == link' = [i \in Members |-> link[i] /\ i \notin is]

-----------------------------------------------------------------------------
(* The outbound. *)

DialSent(i) ==
  /\ dial[i] = "dialling"
  /\ dial' = [dial EXCEPT ![i] = "sent"]
  /\ link' = [link EXCEPT ![i] = TRUE]
  /\ UNCHANGED <<end, handled, maps, cache, evicted, closed, stream>>

(* The dial or the request failed; in the second case the connection is closed. *)
DialFails(i) ==
  /\ dial[i] = "dialling"
  /\ dial' = [dial EXCEPT ![i] = "failed"]
  /\ UNCHANGED <<end, link, handled, maps, cache, evicted, closed, stream>>

(* After wg.Wait: one error closes all the connections. *)
Dialled ==
  /\ end["client"].phase = "none"
  /\ \A i \in Members : dial[i] # "dialling"
  /\ IF \E i \in Members : dial[i] = "failed"
       THEN /\ end' = [end EXCEPT !["client"].phase = "closed"]
            /\ Cutting(Members)
       ELSE /\ end' = [end EXCEPT !["client"] =
                         [phase |-> "bonded", download |-> DownloadRatios, upload |-> UploadRatios]]
            /\ UNCHANGED link
  /\ UNCHANGED <<assembly, stream>>

-----------------------------------------------------------------------------
(* The inbound. *)

(* Mutant: each end names its own directions. *)
RequestUnswapped(i) == [download |-> DownloadRatios[i], upload |-> UploadRatios[i]]

(* What the client uploads the server downloads. *)
Request(i) == [download |-> UploadRatios[i], upload |-> DownloadRatios[i]]

(* Mutant: the connections of a bond stay in the map. *)
TakenOutKept(m, conns) == [maps EXCEPT ![m] = conns]

(* The map m after its connections conns have been bonded. *)
TakenOut(m, conns) == [maps EXCEPT ![m] = {}]

connHandler(i) ==
  LET m == IF cache # None THEN cache ELSE i
      conns == maps[m] \union {i}
      download == [j \in Members |-> Request(j).download]
      upload == [j \in Members |-> Request(j).upload]
      valid == Sum(download) % 256 = 100 /\ Sum(upload) % 256 = 100
  IN
  /\ dial[i] = "sent"
  /\ i \notin handled
  /\ handled' = handled \union {i}
  /\ cache' = m
  /\ maps' = IF Cardinality(conns) = N THEN TakenOut(m, conns) ELSE [maps EXCEPT ![m] = conns]
  /\ end' = IF Cardinality(conns) = N /\ valid
              THEN [end EXCEPT !["server"] = [phase |-> "bonded", download |-> download, upload |-> upload]]
              ELSE end
  /\ closed' = IF Cardinality(conns) = N /\ ~ valid THEN closed \union conns ELSE closed
  /\ Cutting(closed')
  /\ UNCHANGED <<dial, evicted, stream>>

(* ReadRequest fails on a connection that is gone; the router closes it. *)
ReadRequestFails(i) ==
  /\ dial[i] = "sent"
  /\ i \notin handled
  /\ ~ link[i]
  /\ handled' = handled \union {i}
  /\ closed' = closed \union {i}
  /\ UNCHANGED <<dial, end, link, maps, cache, evicted, stream>>

(* The cache takes the expired map out, and calls OnEvicted afterwards. *)
Expire ==
  /\ cache # None
  /\ cache' = None
  /\ evicted' = evicted \union {cache}
  /\ UNCHANGED <<dial, end, link, handled, maps, closed, stream>>

(* Mutant: the callback closes one connection only. *)
ToCloseFirst(m) == IF maps[m] = {} THEN {} ELSE {CHOOSE i \in maps[m] : \A j \in maps[m] : i <= j}

(* The connections that OnEvicted finds in the map. *)
ToClose(m) == maps[m]

(* OnEvicted, under the lock of the UUID. *)
OnEvicted(m) ==
  /\ m \in evicted
  /\ evicted' = evicted \ {m}
  /\ closed' = closed \union ToClose(m)
  /\ Cutting(ToClose(m))
  /\ UNCHANGED <<dial, end, handled, maps, cache, stream>>

-----------------------------------------------------------------------------
(* bondedConn. *)

(* Mutant: parts are rounded up. *)
splitByRatiosRounded(number, ratios) ==
  LET parts == [i \in 1 .. N - 1 |-> (number * ratios[i] + 99) \div 100]
  IN [i \in Members |-> IF i < N THEN parts[i] ELSE number - Sum(parts)]

splitByRatios(number, ratios) ==
  LET parts == [i \in 1 .. N - 1 |-> (number * ratios[i]) \div 100]
  IN [i \in Members |-> IF i < N THEN parts[i] ELSE number - Sum(parts)]

Header(n) == <<"header", n % HeaderValues>>
Byte(p) == <<"byte", p>>
Unfilled == <<"unfilled", 0>>   \* counted by a Read that did not set it

(* A write into a connection that has broken may still succeed. *)
Put(d, i, s) == wire' = IF link[i] THEN [wire EXCEPT ![d][i] = @ \o s] ELSE wire

(* The Write under way: its slice, after what was written before it. *)
Length(d) == writer[d].sizes[Len(writer[d].sizes)]
Before(d) == Sums(writer[d].sizes)[Len(writer[d].sizes) - 1]
ToWrite(d) == splitByRatios(Length(d), end[WriterOf(d)].upload)
Writing(d) == writer[d].next <= N /\ ~ writer[d].failed

CanCall(d) ==
  /\ end[WriterOf(d)].phase = "bonded"
  /\ writer[d].next > N
  /\ ~ writer[d].failed
  /\ Len(writer["up"].sizes) + Len(writer["down"].sizes) < MaxWrites

(* Write: the header, on the first connection. *)
Write(d, n) ==
  /\ CanCall(d)
  /\ Put(d, 1, <<Header(n)>>)
  /\ writer' = [writer EXCEPT ![d].sizes = Append(@, n), ![d].next = 1]
  /\ UNCHANGED <<assembly, end, link, reader>>

(* The next chunk; an empty one is passed over. *)
WriteChunk(d) ==
  /\ end[WriterOf(d)].phase = "bonded"
  /\ Writing(d)
  /\ LET i == writer[d].next
         from == Before(d) + Sums(ToWrite(d))[i - 1]
     IN Put(d, i, [k \in 1 .. ToWrite(d)[i] |-> Byte(from + k)])
  /\ writer' = [writer EXCEPT ![d].next = @ + 1]
  /\ UNCHANGED <<assembly, end, link, reader>>

(* The write of a header or of a chunk fails, and Write returns. *)
WriteFails(d) ==
  /\ \/ CanCall(d) /\ ~ link[1]
     \/ Writing(d) /\ ~ link[writer[d].next] /\ ToWrite(d)[writer[d].next] # 0
  /\ writer' = [writer EXCEPT ![d].failed = TRUE]
  /\ UNCHANGED <<assembly, end, link, wire, reader>>

Reads(d) == end[ReaderOf(d)].phase = "bonded" /\ ~ reader[d].ended
ToRead(d) == splitByRatios(reader[d].size, end[ReaderOf(d)].download)

(* Read with readBuffer empty: the header.  A header of zero leaves the    *)
(* buffer empty, and reading from that is io.EOF.                          *)
ReadHeader(d) ==
  /\ Reads(d)
  /\ reader[d].next > N
  /\ reader[d].buffer = << >>
  /\ wire[d][1] # << >>
  /\ LET size == Head(wire[d][1])[2]
     IN reader' = [reader EXCEPT ![d].frame = @ + 1, ![d].size = size, ![d].next = 1, ![d].ended = (size = 0)]
  /\ wire' = [wire EXCEPT ![d][1] = Tail(@)]
  /\ UNCHANGED <<assembly, end, link, writer>>

(* io.CopyN has the whole chunk; an empty one is passed over. *)
ReadChunk(d) ==
  /\ Reads(d)
  /\ reader[d].next <= N
  /\ LET i == reader[d].next
         chunkLen == ToRead(d)[i]
     IN /\ Len(wire[d][i]) >= chunkLen
        /\ reader' = [reader EXCEPT ![d].next = @ + 1, ![d].buffer = @ \o SubSeq(wire[d][i], 1, chunkLen)]
        /\ wire' = [wire EXCEPT ![d][i] = SubSeq(@, chunkLen + 1, Len(@))]
  /\ UNCHANGED <<assembly, end, link, writer>>

(* The connection of the next header or chunk is at its end.  Read returns *)
(* the number of bytes it has, which are in readBuffer and not in the      *)
(* caller's slice, together with the error.                                *)
ReadFails(d) ==
  LET header == reader[d].next > N
      i == IF header THEN 1 ELSE reader[d].next
      total == IF header THEN 0 ELSE Len(reader[d].buffer) + Len(wire[d][i])
  IN
  /\ Reads(d)
  /\ ~ link[i]
  /\ IF header THEN reader[d].buffer = << >> /\ wire[d][1] = << >>
               ELSE Len(wire[d][i]) < ToRead(d)[i]
  /\ reader' = [reader EXCEPT ![d].ended = TRUE, ![d].got = @ \o [k \in 1 .. total |-> Unfilled]]
  /\ UNCHANGED <<assembly, end, link, wire, writer>>

(* Read takes n bytes from readBuffer. *)
ReadBuffered(d, n) ==
  /\ Reads(d)
  /\ reader[d].next > N
  /\ n <= Len(reader[d].buffer)
  /\ reader' = [reader EXCEPT ![d].got = @ \o SubSeq(reader[d].buffer, 1, n),
                              ![d].buffer = SubSeq(@, n + 1, Len(@))]
  /\ UNCHANGED <<assembly, end, link, wire, writer>>

(* Close closes every connection. *)
Close(e) ==
  /\ end[e].phase = "bonded"
  /\ end' = [end EXCEPT ![e].phase = "closed"]
  /\ Cutting(Members)
  /\ UNCHANGED <<assembly, stream>>

(* The network: a connection breaks, and what was under way may be lost. *)
Break(i) ==
  /\ link[i]
  /\ Cardinality({j \in Members : dial[j] = "sent" /\ ~ link[j]}) < MaxBroken
  /\ Cutting({i})
  /\ UNCHANGED <<assembly, end, stream>>

Lose(d, i) ==
  /\ ~ link[i]
  /\ end[ReaderOf(d)].phase # "closed"
  /\ ~ reader[d].ended
  /\ wire[d][i] # << >>
  /\ wire' = [wire EXCEPT ![d][i] = SubSeq(@, 1, Len(@) - 1)]
  /\ UNCHANGED <<assembly, end, link, writer, reader>>

Next ==
  \/ \E i \in Members : \/ DialSent(i) \/ DialFails(i) \/ connHandler(i) \/ ReadRequestFails(i)
                        \/ OnEvicted(i) \/ Break(i)
  \/ Dialled
  \/ Expire
  \/ \E d \in Dirs : \/ \E n \in Sizes : Write(d, n)
                     \/ WriteChunk(d) \/ WriteFails(d) \/ ReadHeader(d) \/ ReadChunk(d) \/ ReadFails(d)
                     \/ \E n \in 1 .. Len(reader[d].buffer) : ReadBuffered(d, n)
                     \/ \E i \in Members : Lose(d, i)
  \/ \E e \in Ends : Close(e)

Spec == Init /\ [][Next]_vars

(* The timer of the cache runs on, and a callback gets the lock of its     *)
(* UUID: handlers hold it for a bounded time.                              *)
FairSpec == Spec /\ WF_vars(Expire) /\ \A m \in Members : WF_vars(OnEvicted(m))

-----------------------------------------------------------------------------
(* Every variable keeps its type; in particular splitByRatios yields no    *)
(* negative length, which would panic when Write slices the buffer.        *)
TypeOK ==
  /\ dial \in [Members -> {"dialling", "sent", "failed"}]
  /\ \A e \in Ends : end[e].phase \in {"none", "bonded", "closed"}
  /\ link \in [Members -> BOOLEAN]
  /\ handled \subseteq Members
  /\ maps \in [Members -> SUBSET Members]
  /\ cache \in {None} \union Members
  /\ evicted \subseteq Members
  /\ closed \subseteq Members
  /\ \A d \in Dirs : /\ Writing(d) => ToWrite(d) \in [Members -> Nat]
                     /\ Reads(d) /\ reader[d].next <= N => ToRead(d) \in [Members -> Nat]

(* Read returns the bytes that the other end's Write took, in order and    *)
(* without a gap, although they come over several connections that keep    *)
(* no common order.  Only a Read that fails within a frame counts bytes    *)
(* that it did not set, and then a connection is gone.                     *)
StreamIntact ==
  \A d \in Dirs : \A k \in DOMAIN reader[d].got :
    \/ reader[d].got[k] = Byte(k) /\ k <= Sum(writer[d].sizes)
    \/ reader[d].got[k] = Unfilled /\ reader[d].ended /\ \E i \in Members : ~ link[i]

(* The eviction callback never closes a connection of a bond that was      *)
(* routed, even if the entry expired while the last handler was at work.   *)
EvictionSparesBond == end["server"].phase # "none" => closed = {}

Held == {i \in handled : i \notin closed /\ end["server"].phase = "none"}

(* A connection that the inbound has taken in is bonded or closed in the   *)
(* end: when others of its UUID never come, or come after the map they     *)
(* belong to has expired, eviction closes it.                              *)
NothingHeldForever == \A i \in Members : (i \in Held) ~> (i \notin Held)
=============================================================================
