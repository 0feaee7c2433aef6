---------------------------- MODULE FailoverLocks ----------------------------
(***************************************************************************)
(* The goroutines and locks around one session of the failover inbound:    *)
(* calls of Read and Write, the Close of the session, and the handlers of  *)
(* reconnecting clients (protocol/failover conn.go and inbound.go).        *)
(*                                                                         *)
(* Who holds a lock is told by where each goroutine is: c.mtx is held for  *)
(* reading in "io" and in the locked part of Close, for writing in         *)
(* "restore"; a goroutine at "lock" waits to write and keeps new readers   *)
(* out; awaitMtx is held in "check", "make", "select" and "wait"; the      *)
(* session's key of sessionMtx, a keyed lock as in Kmutex, in the places   *)
(* of HoldsSession.  h.mtx is only ever held for one access to conns.      *)
(***************************************************************************)
CONSTANTS
  Users,     \* goroutines that call Read or Write
  Closer,    \* the goroutine that calls Close
  Handlers,  \* goroutines of connHandler, each with a new connection
  None       \* no channel; also the name of the first connection

ASSUME RolesAssumption ==
  Closer \notin Users \union Handlers /\ Users \intersect Handlers = {}

VARIABLES
  place,          \* where each goroutine is
  old,         \* the connection a Read or Write was using
  conn,        \* c.Conn: None or the handler that brought it
  working,     \* the connections that have not failed
  await,       \* c.await: the goroutine that made the channel, or None
  closedChan,  \* the goroutines whose channel has been closed
  err,         \* c.err
  registered   \* the session is in h.conns

locksVars == <<place, old, conn, working, await, closedChan, err, registered>>

Callers == Users \union {Closer}
Procs == Callers \union Handlers
Conns == Handlers \union {None}

At(p, places) == place[p] \in places
Goto(p, to) == place' = [place EXCEPT ![p] = to]

(* Mutant: Read and Write keep c.mtx during awaitConn. *)
HoldsReadInAwait(p) ==
  At(p, {"io", "onClose", "delete", "await", "check", "make", "select", "wait"})

HoldsRead(p) == At(p, {"io", "onClose", "delete"})
HoldsAwait(p) == At(p, {"check", "make", "select", "wait"})
HoldsSession(p) == At(p, {"lookup", "status", "shut", "lock", "restore", "kept", "delete"})

CanRLock == \A h \in Handlers : ~ At(h, {"lock", "restore"})
CanLock == \A p \in Callers : ~ HoldsRead(p)
CanLockAwait == \A p \in Callers : ~ HoldsAwait(p)
CanLockSession == \A p \in Procs : ~ HoldsSession(p)

LocksInit ==
  /\ place = [p \in Procs |-> IF p = Closer THEN "closer" ELSE IF p \in Users THEN "call" ELSE "handler"]
  /\ old = [p \in Callers |-> None]
  /\ conn = None
  /\ working = Conns
  /\ await = None
  /\ closedChan = {}
  /\ err = "none"
  /\ registered = TRUE

-----------------------------------------------------------------------------
(* Read and Write. *)

RLock(p) ==
  /\ At(p, {"call"})
  /\ CanRLock
  /\ old' = [old EXCEPT ![p] = conn]
  /\ Goto(p, "io")
  /\ UNCHANGED <<conn, working, await, closedChan, err, registered>>

(* The operation succeeds; the Write in Close is the last one. *)
Done(p) ==
  /\ At(p, {"io"})
  /\ old[p] \in working
  /\ Goto(p, IF p = Closer THEN "done" ELSE "call")
  /\ UNCHANGED <<old, conn, working, await, closedChan, err, registered>>

(* Read finds the empty frame of the peer's Close. *)
SessionClosed(p) ==
  /\ p \in Users
  /\ At(p, {"io"})
  /\ old[p] \in working
  /\ err' = "EOF"
  /\ working' = working \ {old[p]}
  /\ Goto(p, "done")
  /\ UNCHANGED <<old, conn, await, closedChan, registered>>

Fails(p) ==
  /\ At(p, {"io"})
  /\ old[p] \notin working
  /\ Goto(p, "await")
  /\ UNCHANGED <<old, conn, working, await, closedChan, err, registered>>

Break ==
  /\ conn \in working
  /\ working' = working \ {conn}
  /\ UNCHANGED <<place, old, conn, await, closedChan, err, registered>>

-----------------------------------------------------------------------------
(* awaitConn at the server. *)

LockAwait(p) ==
  /\ At(p, {"await"})
  /\ CanLockAwait
  /\ Goto(p, "check")
  /\ UNCHANGED <<old, conn, working, await, closedChan, err, registered>>

CheckErr(p) ==
  /\ At(p, {"check"})
  /\ err # "none"
  /\ Goto(p, "done")
  /\ UNCHANGED <<old, conn, working, await, closedChan, err, registered>>

CheckReplaced(p) ==
  /\ At(p, {"check"})
  /\ err = "none"
  /\ conn # old[p]
  /\ Goto(p, "call")
  /\ UNCHANGED <<old, conn, working, await, closedChan, err, registered>>

CheckSame(p) ==
  /\ At(p, {"check"})
  /\ err = "none"
  /\ conn = old[p]
  /\ Goto(p, "make")
  /\ UNCHANGED <<old, conn, working, await, closedChan, err, registered>>

(* c.await is made, without c.mtx. *)
MakeAwait(p) ==
  /\ At(p, {"make"})
  /\ await' = p
  /\ closedChan' = closedChan \ {p}
  /\ Goto(p, "select")
  /\ UNCHANGED <<old, conn, working, err, registered>>

(* The select reads c.await: nil if RestoreConn has closed it by now. *)
Select(p) ==
  /\ At(p, {"select"})
  /\ closedChan' = closedChan \ {p}
  /\ Goto(p, "wait")
  /\ UNCHANGED <<old, conn, working, await, err, registered>>

Wake(p) ==
  /\ At(p, {"wait"})
  /\ p \in closedChan
  /\ Goto(p, "call")
  /\ UNCHANGED <<old, conn, working, await, closedChan, err, registered>>

(* Mutant: there is no timer. *)
ExpireNever(p) == FALSE /\ At(p, {"wait"}) /\ UNCHANGED locksVars

Expire(p) ==
  /\ At(p, {"wait"})
  /\ err' = "expired"
  /\ Goto(p, "done")
  /\ UNCHANGED <<old, conn, working, await, closedChan, registered>>

-----------------------------------------------------------------------------
(* connHandler for CommandReconnect, and RestoreConn. *)

LockSession(h) ==
  /\ At(h, {"handler"})
  /\ CanLockSession
  /\ Goto(h, "lookup")
  /\ UNCHANGED <<old, conn, working, await, closedChan, err, registered>>

NotFound(h) ==
  /\ At(h, {"lookup"})
  /\ ~ registered
  /\ Goto(h, "done")
  /\ UNCHANGED <<old, conn, working, await, closedChan, err, registered>>

Found(h) ==
  /\ At(h, {"lookup"})
  /\ registered
  /\ Goto(h, "shut")
  /\ UNCHANGED <<old, conn, working, await, closedChan, err, registered>>

(* Writing StatusOK fails: the handler returns and keeps the key locked. *)
StatusFails(h) ==
  /\ At(h, {"lookup"})
  /\ registered
  /\ working' = working \ {h}
  /\ Goto(h, "kept")
  /\ UNCHANGED <<old, conn, await, closedChan, err, registered>>

(* Mutant: RestoreConn leaves the old connection open. *)
NoShut(h) ==
  /\ At(h, {"shut"})
  /\ Goto(h, "lock")
  /\ UNCHANGED <<old, conn, working, await, closedChan, err, registered>>

(* c.Conn.Close() lets the goroutines in an operation go. *)
Shut(h) ==
  /\ At(h, {"shut"})
  /\ working' = working \ {conn}
  /\ Goto(h, "lock")
  /\ UNCHANGED <<old, conn, await, closedChan, err, registered>>

Lock(h) ==
  /\ At(h, {"lock"})
  /\ CanLock
  /\ Goto(h, "restore")
  /\ UNCHANGED <<old, conn, working, await, closedChan, err, registered>>

(* Indexes and frames are exchanged; the connection is set, the channel closed. *)
Restored(h) ==
  /\ At(h, {"restore"})
  /\ conn' = h
  /\ closedChan' = closedChan \union ({await} \ {None})
  /\ await' = None
  /\ Goto(h, "done")
  /\ UNCHANGED <<old, working, err, registered>>

RestoreFails(h) ==
  /\ At(h, {"restore"})
  /\ working' = working \ {h}
  /\ Goto(h, "done")
  /\ UNCHANGED <<old, conn, await, closedChan, err, registered>>

-----------------------------------------------------------------------------
(* Close. *)

CloseRLock ==
  /\ At(Closer, {"closer"})
  /\ CanRLock
  /\ Goto(Closer, "onClose")
  /\ UNCHANGED <<old, conn, working, await, closedChan, err, registered>>

(* onClose asks for the session's key with c.mtx held for reading. *)
CloseLockSession ==
  /\ At(Closer, {"onClose"})
  /\ CanLockSession
  /\ Goto(Closer, "delete")
  /\ UNCHANGED <<old, conn, working, await, closedChan, err, registered>>

(* Mutant: the session stays in conns. *)
CloseForgets ==
  /\ At(Closer, {"delete"})
  /\ err' = "EOF"
  /\ Goto(Closer, "call")
  /\ UNCHANGED <<old, conn, working, await, closedChan, registered>>

(* The session is deleted and unlocked, c.err set, c.mtx released; then    *)
(* the empty frame is written.                                             *)
CloseDelete ==
  /\ At(Closer, {"delete"})
  /\ registered' = FALSE
  /\ err' = "EOF"
  /\ Goto(Closer, "call")
  /\ UNCHANGED <<old, conn, working, await, closedChan>>

Call(p) ==
  \/ RLock(p) \/ Done(p) \/ SessionClosed(p) \/ Fails(p)
  \/ LockAwait(p) \/ CheckErr(p) \/ CheckReplaced(p) \/ CheckSame(p)
  \/ MakeAwait(p) \/ Select(p) \/ Wake(p) \/ Expire(p)

Handler(h) ==
  \/ LockSession(h) \/ NotFound(h) \/ Found(h) \/ StatusFails(h)
  \/ Shut(h) \/ Lock(h) \/ Restored(h) \/ RestoreFails(h)

LocksNext ==
  \/ \E p \in Callers : Call(p)
  \/ \E h \in Handlers : Handler(h)
  \/ CloseRLock \/ CloseLockSession \/ CloseDelete
  \/ Break

LocksSpec == LocksInit /\ [][LocksNext]_locksVars

(* What a goroutine does by itself: a Read or Write under way may wait for *)
(* the peer for ever.                                                      *)
Runs(p) ==
  \/ RLock(p) \/ Fails(p) \/ LockAwait(p) \/ CheckErr(p) \/ CheckReplaced(p)
  \/ CheckSame(p) \/ MakeAwait(p) \/ Select(p) \/ Wake(p) \/ Expire(p)

(* Every goroutine runs, and what it may lock again and again it gets.  A  *)
(* connection need not break and Close need not be called.                 *)
Fairness ==
  /\ \A p \in Callers : WF_locksVars(Runs(p))
  /\ \A p \in Callers : SF_locksVars(LockAwait(p))
  /\ \A h \in Handlers : WF_locksVars(Handler(h)) /\ SF_locksVars(LockSession(h) \/ Lock(h))
  /\ WF_locksVars(CloseDelete) /\ SF_locksVars(CloseLockSession)

FairLocksSpec == LocksSpec /\ Fairness

-----------------------------------------------------------------------------
WaitsFor(p, q) ==
  \/ At(p, {"call", "closer"}) /\ At(q, {"lock", "restore"})
  \/ At(p, {"lock"}) /\ HoldsRead(q)
  \/ At(p, {"await"}) /\ HoldsAwait(q)
  \/ At(p, {"handler", "onClose"}) /\ HoldsSession(q)
  \/ At(p, {"wait"}) /\ p \notin closedChan /\ At(q, {"shut", "lock", "restore"})

(* Each of S waits for one of S. *)
WaitForEachOther(S) == S # {} /\ \A p \in S : \E q \in S : WaitsFor(p, q)

(* Close, inside onClose, waits for a handler that waits for c.mtx. *)
Crossed == At(Closer, {"onClose"}) /\ \E h \in Handlers : At(h, {"shut", "lock"})

(* A handler returned without unlocking the session. *)
KeptLocked == \E h \in Handlers : At(h, {"kept"})

(* Of all the ways in which Read, Write, Close and RestoreConn take c.mtx, *)
(* awaitMtx and sessionMtx and wait for c.await, only one can make         *)
(* goroutines wait for each other in a circle: Close, which calls onClose  *)
(* under c.mtx, crossing a reconnect, which calls RestoreConn under        *)
(* sessionMtx.                                                             *)
OnlyCloseCrosses ==
  (\E S \in SUBSET Procs : WaitForEachOther(S)) => Crossed

(* A goroutine that found its connection broken does not wait for ever:    *)
(* it goes on with another connection or its call returns an error.        *)
AwaitEnds ==
  \A p \in Callers : At(p, {"await"}) ~> At(p, {"call", "done"})

(* A reconnect that found its session comes to an end, however long a Read *)
(* waits for data on the connection it replaces, unless it crosses Close.  *)
ReconnectEnds ==
  \A h \in Handlers : At(h, {"lookup"}) ~> (At(h, {"done", "kept"}) \/ Crossed)

(* Once Close has begun, the session is deleted, unless Close crosses a    *)
(* reconnect or a handler kept the session locked.                         *)
CloseDeletes ==
  At(Closer, {"onClose"}) ~> (~ registered \/ Crossed \/ KeptLocked)
=============================================================================
