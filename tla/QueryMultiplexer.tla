-------------------------- MODULE QueryMultiplexer --------------------------
(***************************************************************************)
(* dns/transport/multiplexer.go: DNS queries of many callers over the one  *)
(* connection of a ConnPool.  A query is registered under a 16-bit id and  *)
(* written; its callback is then called by whoever takes the entry of the  *)
(* id out of m.queries first: recvLoop with a response, the AfterFunc of   *)
(* the query's context, the AfterFunc of the connection's context, or the  *)
(* writer itself when the write has failed.                                *)
(*                                                                         *)
(* The pool is the SharedLink it implements.  exchangeAsync runs at most   *)
(* twice for a query: the second run is the retry that completeConnDone    *)
(* starts, and the first may then still be inside its write.  An AfterFunc *)
(* that has been started, but has not reached take, is an element of       *)
(* fired: stopping it comes too late.                                      *)
(***************************************************************************)
EXTENDS Naturals, FiniteSets

CONSTANTS
  Queries,    \* the calls of ExchangeAsync
  Links,      \* the connections the pool may make
  IdSpace,    \* the number of query ids: 2^16
  MaxReads,   \* bound on the messages read
  RetryReadError,  \* options.retryReadError
  None

ASSUME IdSpaceAssumption == IdSpace \in Nat \ {0} /\ MaxReads \in Nat /\ RetryReadError \in BOOLEAN
ASSUME LinksAssumption == IsFiniteSet(Links)

Ids == 0 .. IdSpace - 1
Runs == {1, 2}

(* pendingQuery; the two flags say that its AfterFuncs have not started. *)
Pending == [query : Queries, conn : Links, epoch : Nat,
            retry : BOOLEAN, onCtx : BOOLEAN, onConn : BOOLEAN]

ASSUME NoneAssumption == None \notin Queries \cup Links \cup Pending

VARIABLES
  link,      \* the pool's connections, see SharedLink
  cause,     \* the cause of the end of a connection's context
  epoch,     \* conn.readEpoch
  receiver,  \* recvLoop of each connection: off, on or over
  wire,      \* requests sent and not answered yet, by connection
  queryId,   \* m.queryId
  queries,   \* m.queries: id -> pendingQuery, or None
  run,       \* the runs of exchangeAsync of each query
  ctx,       \* the query's context: live or done
  fired,     \* AfterFuncs that have started and not yet called take
  calls,     \* how often the query's callback has been called
  answer,    \* the query whose response the callback was given, or None
  reused     \* auxiliary: an id was given out while an old user of it was left

poolVars == <<link, cause, epoch, receiver>>
vars == <<poolVars, wire, queryId, queries, run, ctx, fired, calls, answer, reused>>

Pool == INSTANCE SharedLink

(* The variables of a run of exchangeAsync; they go out of scope with it. *)
NoRun(label) == [pc |-> label, first |-> TRUE, conn |-> None, created |-> FALSE, id |-> 0]
NewRun == NoRun("acquire")

Init ==
  /\ Pool!Init
  /\ cause = [l \in Links |-> "none"]
  /\ epoch = [l \in Links |-> 0]
  /\ receiver = [l \in Links |-> "off"]
  /\ wire = {}
  /\ queryId = 0
  /\ queries = [i \in Ids |-> None]
  /\ run = [q \in Queries |-> <<NewRun, NoRun("off")>>]
  /\ ctx = [q \in Queries |-> "live"]
  /\ fired = {}
  /\ calls = [q \in Queries |-> 0]
  /\ answer = [q \in Queries |-> None]
  /\ reused = FALSE

-----------------------------------------------------------------------------
(* The pieces the actions are made of. *)

At(q, n, label) == run[q][n].pc = label

Return(q, n) == run' = [run EXCEPT ![q][n] = NoRun("over")]

Callback(q, from) ==
  /\ calls' = [calls EXCEPT ![q] = @ + 1]
  /\ answer' = [answer EXCEPT ![q] = from]

NoCallback == UNCHANGED <<calls, answer>>

(* m.take: delete the entry of an id. *)
take(i) == queries' = [queries EXCEPT ![i] = None]

(* ConnPool.Invalidate: ends the connection's context if it is the current one. *)
Invalidate(l, why) ==
  IF Pool!Current(l)
  THEN Pool!Remove(l) /\ cause' = [cause EXCEPT ![l] = why]
  ELSE UNCHANGED <<link, cause>>

(* The ids that a write in progress, a started AfterFunc or a request on   *)
(* the wire still refers to.                                               *)
Referenced ==
  {f.id : f \in fired} \cup {m.id : m \in wire} \cup
  {i \in Ids : \E q \in Queries, n \in Runs : At(q, n, "write") /\ run[q][n].id = i}

-----------------------------------------------------------------------------
(* exchangeAsync. *)

(* AcquireShared has failed: the dial did, the context is done or the pool closed. *)
AcquireFails(q, n) ==
  /\ At(q, n, "acquire")
  /\ Callback(q, None)
  /\ Return(q, n)
  /\ UNCHANGED <<poolVars, wire, queryId, queries, ctx, fired, reused>>

(* AcquireShared has returned the current connection; who created it reads from it. *)
Acquire(q, n, l) ==
  /\ At(q, n, "acquire")
  /\ Pool!Current(l)
  /\ IF link[l] = "fresh"
     THEN Pool!Claim(l) /\ receiver' = [receiver EXCEPT ![l] = "on"]
     ELSE UNCHANGED <<link, receiver>>
  /\ run' = [run EXCEPT ![q][n].pc = "register", ![q][n].conn = l,
                        ![q][n].created = (link[l] = "fresh")]
  /\ NoCallback
  /\ UNCHANGED <<cause, epoch, wire, queryId, queries, ctx, fired, reused>>

(* register: the first unused id after m.queryId, cyclically. *)
Free == {i \in Ids : queries[i] = None}

Distance(i) == IF i > queryId THEN i - queryId ELSE i + IdSpace - queryId

RegisterFails(q, n) ==
  /\ At(q, n, "register")
  /\ Free = {}
  /\ Callback(q, None)
  /\ Return(q, n)
  /\ UNCHANGED <<poolVars, wire, queryId, queries, ctx, fired, reused>>

(* Mutant: the id is not brought back into the range of ids. *)
RegisterUnwrapped(q, n) ==
  /\ At(q, n, "register")
  /\ queryId' = queryId + 1
  /\ LET r == run[q][n] IN
       queries' = [queries EXCEPT ![queryId + 1] =
         [query |-> q, conn |-> r.conn, epoch |-> epoch[r.conn],
          retry |-> n = 1 /\ RetryReadError /\ ~ r.created, onCtx |-> TRUE, onConn |-> TRUE]]
  /\ run' = [run EXCEPT ![q][n].pc = "write", ![q][n].id = queryId + 1]
  /\ NoCallback
  /\ UNCHANGED <<poolVars, wire, ctx, fired, reused>>

Register(q, n) ==
  /\ At(q, n, "register")
  /\ \E i \in Free :
       /\ \A j \in Free : Distance(i) <= Distance(j)
       /\ queryId' = i
       /\ LET r == run[q][n] IN
            queries' = [queries EXCEPT ![i] =
              [query |-> q, conn |-> r.conn, epoch |-> epoch[r.conn],
               retry |-> n = 1 /\ RetryReadError /\ ~ r.created, onCtx |-> TRUE, onConn |-> TRUE]]
       /\ run' = [run EXCEPT ![q][n].pc = "write", ![q][n].id = i]
       /\ reused' = (reused \/ i \in Referenced)
  /\ NoCallback
  /\ UNCHANGED <<poolVars, wire, ctx, fired>>

Write(q, n) ==
  /\ At(q, n, "write")
  /\ link[run[q][n].conn] # "done"
  /\ wire' = wire \cup {[conn |-> run[q][n].conn, id |-> run[q][n].id, query |-> q]}
  /\ Return(q, n)
  /\ NoCallback
  /\ UNCHANGED <<poolVars, queryId, queries, ctx, fired, reused>>

(* Mutant: the callback is called although the entry was gone already. *)
WriteFailsLoudly(q, n) ==
  /\ At(q, n, "write")
  /\ LET r == run[q][n] IN
       /\ take(r.id)
       /\ Invalidate(r.conn, "write")
       /\ Callback(q, None)
       /\ Return(q, n)
  /\ UNCHANGED <<epoch, receiver, wire, queryId, ctx, fired, reused>>

(* The write has failed: take the entry back, drop the connection and, on  *)
(* a connection made by someone else, try once more.                       *)
WriteFails(q, n) ==
  /\ At(q, n, "write")
  /\ LET r == run[q][n] IN
       /\ take(r.id)
       /\ Invalidate(r.conn, "write")
       /\ \/ /\ queries[r.id] = None
             /\ NoCallback
             /\ Return(q, n)
          \/ /\ queries[r.id] # None
             /\ ~ r.created /\ r.first
             /\ NoCallback
             /\ run' = [run EXCEPT ![q][n].pc = "acquire", ![q][n].first = FALSE]
          \/ /\ queries[r.id] # None
             /\ r.created \/ ~ r.first
             /\ Callback(q, None)
             /\ Return(q, n)
  /\ UNCHANGED <<epoch, receiver, wire, queryId, ctx, fired, reused>>

-----------------------------------------------------------------------------
(* The AfterFuncs of a pending query. *)

(* The runtime starts one in a goroutine of its own ... *)
FireContext(i) ==
  /\ queries[i] # None
  /\ queries[i].onCtx
  /\ ctx[queries[i].query] # "live"
  /\ fired' = fired \cup {[on |-> "ctx", id |-> i, of |-> queries[i].query]}
  /\ queries' = [queries EXCEPT ![i].onCtx = FALSE]
  /\ NoCallback
  /\ UNCHANGED <<poolVars, wire, queryId, run, ctx, reused>>

FireConn(i) ==
  /\ queries[i] # None
  /\ queries[i].onConn
  /\ link[queries[i].conn] = "done"
  /\ fired' = fired \cup {[on |-> "conn", id |-> i, of |-> queries[i].conn]}
  /\ queries' = [queries EXCEPT ![i].onConn = FALSE]
  /\ NoCallback
  /\ UNCHANGED <<poolVars, wire, queryId, run, ctx, reused>>

(* ... where it finds the entry gone, or completes the query. *)
FiredTooLate(f) ==
  /\ queries[f.id] = None
  /\ fired' = fired \ {f}
  /\ NoCallback
  /\ UNCHANGED <<poolVars, wire, queryId, queries, run, ctx, reused>>

(* The context was cancelled, or its deadline has passed; then a silent    *)
(* connection is dropped.                                                  *)
completeContextDone(f) ==
  /\ f.on = "ctx"
  /\ queries[f.id] # None
  /\ LET p == queries[f.id] IN
       /\ \/ epoch[p.conn] = p.epoch /\ Invalidate(p.conn, "deadline")
          \/ UNCHANGED <<link, cause>>
       /\ Callback(p.query, None)
  /\ take(f.id)
  /\ fired' = fired \ {f}
  /\ UNCHANGED <<epoch, receiver, wire, queryId, run, ctx, reused>>

(* Mutant: a query that may not be retried is dropped on a read error. *)
completeConnDoneDrops(f) ==
  /\ f.on = "conn"
  /\ queries[f.id] # None
  /\ LET p == queries[f.id] IN
       IF p.retry /\ cause[f.of] = "read"
       THEN run' = [run EXCEPT ![p.query][2] = NewRun]
       ELSE UNCHANGED run
  /\ NoCallback
  /\ take(f.id)
  /\ fired' = fired \ {f}
  /\ UNCHANGED <<poolVars, wire, queryId, ctx, reused>>

(* A read error of a connection made by someone else is retried, once. *)
completeConnDone(f) ==
  /\ f.on = "conn"
  /\ queries[f.id] # None
  /\ LET p == queries[f.id] IN
       IF p.retry /\ cause[f.of] = "read"
       THEN run' = [run EXCEPT ![p.query][2] = NewRun] /\ NoCallback
       ELSE Callback(p.query, None) /\ UNCHANGED run
  /\ take(f.id)
  /\ fired' = fired \ {f}
  /\ UNCHANGED <<poolVars, wire, queryId, ctx, reused>>

-----------------------------------------------------------------------------
(* recvLoop. *)

Reads == Cardinality({p \in Links \X (1 .. MaxReads) : p[2] <= epoch[p[1]]})

(* Mutant: responses are taken to arrive in the order of the requests. *)
ReceiveInOrder(l, m, again) ==
  /\ receiver[l] = "on"
  /\ Reads < MaxReads
  /\ epoch' = [epoch EXCEPT ![l] = @ + 1]
  /\ wire' = IF again THEN wire ELSE wire \ {m}
  /\ \E i \in Ids :
       /\ queries[i] # None
       /\ \A j \in Ids : queries[j] # None => i <= j
       /\ take(i)
       /\ Callback(queries[i].query, m.query)
  /\ UNCHANGED <<link, cause, receiver, queryId, run, ctx, fired, reused>>

(* The response to the request m has been read (and, with again, will be   *)
(* read once more), perhaps before the connection was lost: complete.      *)
(* Release(conn, true) leaves the pool alone.                              *)
Receive(l, m, again) ==
  /\ receiver[l] = "on"
  /\ Reads < MaxReads
  /\ epoch' = [epoch EXCEPT ![l] = @ + 1]
  /\ wire' = IF again THEN wire ELSE wire \ {m}
  /\ take(m.id)
  /\ IF queries[m.id] = None THEN NoCallback ELSE Callback(queries[m.id].query, m.query)
  /\ UNCHANGED <<link, cause, receiver, queryId, run, ctx, fired, reused>>

(* A message was read that readNext drops. *)
ReceiveNothing(l) ==
  /\ receiver[l] = "on"
  /\ Reads < MaxReads
  /\ epoch' = [epoch EXCEPT ![l] = @ + 1]
  /\ NoCallback
  /\ UNCHANGED <<link, cause, receiver, wire, queryId, queries, run, ctx, fired, reused>>

ReceiveFails(l) ==
  /\ receiver[l] = "on"
  /\ receiver' = [receiver EXCEPT ![l] = "over"]
  /\ Invalidate(l, "read")
  /\ wire' = {m \in wire : m.conn # l}
  /\ NoCallback
  /\ UNCHANGED <<epoch, queryId, queries, run, ctx, fired, reused>>

-----------------------------------------------------------------------------
(* The pool's own steps, and the contexts of the callers. *)

Establish(l) ==
  /\ \E q \in Queries, n \in Runs : At(q, n, "acquire")
  /\ Pool!Establish(l)
  /\ NoCallback
  /\ UNCHANGED <<cause, epoch, receiver, wire, queryId, queries, run, ctx, fired, reused>>

Detach(l) ==
  /\ Pool!Detach(l)
  /\ NoCallback
  /\ UNCHANGED <<cause, epoch, receiver, wire, queryId, queries, run, ctx, fired, reused>>

Signal(l) ==
  /\ Pool!Signal(l)
  /\ cause' = [cause EXCEPT ![l] = "closed"]
  /\ NoCallback
  /\ UNCHANGED <<epoch, receiver, wire, queryId, queries, run, ctx, fired, reused>>

(* The context of a query that has been called back is of no more use. *)
ContextEnds(q) ==
  /\ ctx[q] = "live"
  /\ calls[q] = 0
  /\ ctx' = [ctx EXCEPT ![q] = "done"]
  /\ NoCallback
  /\ UNCHANGED <<poolVars, wire, queryId, queries, run, fired, reused>>

exchangeAsync(q, n) ==
  \/ AcquireFails(q, n) \/ \E l \in Links : Acquire(q, n, l)
  \/ RegisterFails(q, n) \/ Register(q, n) \/ Write(q, n) \/ WriteFails(q, n)

AfterFuncs ==
  \/ \E i \in Ids : FireContext(i) \/ FireConn(i)
  \/ \E f \in fired : FiredTooLate(f) \/ completeContextDone(f) \/ completeConnDone(f)

(* Nothing is claimed of what happens after an id has been reused too early. *)
Next ==
  /\ ~ reused
  /\ \/ \E q \in Queries : ContextEnds(q) \/ \E n \in Runs : exchangeAsync(q, n)
     \/ AfterFuncs
     \/ \E l \in Links :
          Establish(l) \/ Detach(l) \/ Signal(l) \/ ReceiveNothing(l) \/ ReceiveFails(l)
     \/ \E m \in wire, again \in BOOLEAN : Receive(m.conn, m, again)

Spec == Init /\ [][Next]_vars

(* A goroutine that can go on does, the pool signals what it has detached, *)
(* and every query's context ends some time: the DNS client sets a         *)
(* deadline.  A write may block as long as it likes.                       *)
FairSpec ==
  /\ Spec
  /\ WF_vars(AfterFuncs)
  /\ \A q \in Queries :
       /\ WF_vars(ContextEnds(q))
       /\ WF_vars(\E n \in Runs : ~ At(q, n, "write") /\ exchangeAsync(q, n))

-----------------------------------------------------------------------------
(* The types; ids stay within IdSpace as queryId wraps around. *)
TypeOK ==
  /\ link \in [Links -> {"none", "fresh", "claimed", "detached", "done"}]
  /\ cause \in [Links -> {"none", "read", "write", "deadline", "closed"}]
  /\ epoch \in [Links -> 0 .. MaxReads]
  /\ receiver \in [Links -> {"off", "on", "over"}]
  /\ wire \subseteq [conn : Links, id : Ids, query : Queries]
  /\ queryId \in Ids
  /\ queries \in [Ids -> Pending \cup {None}]
  /\ run \in [Queries -> [Runs ->
       [pc : {"off", "acquire", "register", "write", "over"}, first : BOOLEAN,
        conn : Links \cup {None}, created : BOOLEAN, id : Ids]]]
  /\ ctx \in [Queries -> {"live", "done"}]
  /\ fired \subseteq [on : {"ctx", "conn"}, id : Ids, of : Queries \cup Links]
  /\ calls \in [Queries -> Nat]
  /\ answer \in [Queries -> Queries \cup {None}]
  /\ reused \in BOOLEAN

(* No callback is called twice: the four ways a query can end race for its *)
(* entry, and only the one that takes it out of m.queries may call.  This  *)
(* rests on ids being unique among those that are still referred to, which *)
(* 2^16 ids make so in practice (reused tells when it is not).             *)
CalledAtMostOnce ==
  ~ reused => \A q \in Queries : calls[q] <= 1

(* A response reaches the query it answers: late, repeated and reordered   *)
(* responses, also those of a connection that is no longer current, are    *)
(* dropped or go to their own query.                                       *)
RightAnswer ==
  ~ reused => \A q \in Queries : answer[q] \in {q, None}

(* No query is forgotten: one whose callback has not been called has a run *)
(* of exchangeAsync that will, or an entry that someone will take.         *)
NoneForgotten ==
  ~ reused => \A q \in Queries : calls[q] = 0 =>
    \/ \E n \in Runs : run[q][n].pc \in {"acquire", "register"}
    \/ \E i \in Ids : queries[i] # None /\ queries[i].query = q

(* Every query's callback is called in the end. *)
EveryQueryCompletes ==
  \A q \in Queries : (calls[q] = 0) ~> (calls[q] > 0 \/ reused)

=============================================================================
