--------------------------- MODULE SharedConnPool ---------------------------
(***************************************************************************)
(* dns/transport/conn_pool.go in ConnPoolSingle mode: every caller of      *)
(* AcquireShared is given the same connection, which the first of them     *)
(* dials, in a goroutine of its own (connectSingle) and under the context  *)
(* of its own call.  Reset replaces the pool's state by an empty one and   *)
(* Close by none; both let go of p.access before they close what the old   *)
(* state tracked.                                                          *)
(*                                                                         *)
(* One action is one critical section of p.access, or one step taken       *)
(* outside of it.  A dial names the connection it yields.  An options.Close *)
(* that follows the release of p.access is part of the same action: the    *)
(* pool has let go of the connection and does not look at it again.        *)
(***************************************************************************)
EXTENDS Naturals, Sequences, FiniteSets

CONSTANTS
  Calls,      \* the calls of AcquireShared; each is made once
  MaxResets,  \* bound on the number of Resets
  MaxDials    \* bound on the number of dials

ASSUME BoundsAssumption == MaxResets \in Nat /\ MaxDials \in Nat

VARIABLES
  states,     \* every connPoolState made so far
  cur,        \* p.state, an index of states; None once p.closed
  dials,      \* every connectSingle so far, its connPoolConnect and its connection
  calls,      \* the calls of AcquireShared and what they returned
  draining    \* states about to be passed to closeState

vars == <<states, cur, dials, calls, draining>>

None == 0

newConnPoolState ==
  [all |-> {}, shared |-> None, claimed |-> FALSE, connecting |-> None, cancelled |-> FALSE]

(* stage: dialing, install (dial has returned), finish (has left p.access) *)
(* or done (connPoolConnect.done is closed); conn: none before it is there *)
(* and after options.Close; connDone: sharedCtx is cancelled.              *)
newDial(c) ==
  [home |-> cur, starter |-> c, stage |-> "dialing", err |-> "none",
   conn |-> "none", connDone |-> FALSE]

IsAlive(d) == dials[d].conn = "open"

Init ==
  /\ states = <<newConnPoolState>>
  /\ cur = 1
  /\ dials = << >>
  /\ calls = [c \in Calls |-> [pc |-> "acquire", at |-> None, created |-> FALSE,
                               result |-> "none", ctxDone |-> FALSE]]
  /\ draining = {}

-----------------------------------------------------------------------------
(* Helpers of the actions. *)

Goto(c, label) == calls' = [calls EXCEPT ![c].pc = label]

Return(c, res) == calls' = [calls EXCEPT ![c].pc = "over", ![c].result = res]

(* Mutant: the removed connection's context is left alone. *)
removeConnKeepsContext(s, d) ==
  /\ states' = [states EXCEPT ![s].all = @ \ {d},
                              ![s].shared = IF @ = d THEN None ELSE @,
                              ![s].claimed = @ /\ states[s].shared # d]
  /\ dials' = [dials EXCEPT ![d].conn = "none"]

(* Mutant: the connection is not closed. *)
removeConnWithoutClose(s, d) ==
  /\ states' = [states EXCEPT ![s].all = @ \ {d},
                              ![s].shared = IF @ = d THEN None ELSE @,
                              ![s].claimed = @ /\ states[s].shared # d]
  /\ dials' = [dials EXCEPT ![d].connDone = @ \/ states[s].shared = d]

(* Mutant: the next connection passes for one that was claimed already. *)
removeConnKeepsClaim(s, d) ==
  /\ states' = [states EXCEPT ![s].all = @ \ {d},
                              ![s].shared = IF @ = d THEN None ELSE @]
  /\ dials' = [dials EXCEPT ![d].conn = "none", ![d].connDone = @ \/ states[s].shared = d]

(* removeConn followed by options.Close, as at each of its call sites. *)
removeConn(s, d) ==
  /\ states' = [states EXCEPT ![s].all = @ \ {d},
                              ![s].shared = IF @ = d THEN None ELSE @,
                              ![s].claimed = @ /\ states[s].shared # d]
  /\ dials' = [dials EXCEPT ![d].conn = "none", ![d].connDone = @ \/ states[s].shared = d]

(* Mutant: whoever gets the connection is told that it was created for them. *)
GiveUnclaimed(c) ==
  /\ UNCHANGED states
  /\ calls' = [calls EXCEPT ![c].pc = "holding", ![c].at = states[cur].shared,
                            ![c].created = ~ states[cur].claimed, ![c].result = "conn"]

(* The shared connection is claimed; the first to do so has created it. *)
Give(c) ==
  /\ states' = [states EXCEPT ![cur].claimed = TRUE]
  /\ calls' = [calls EXCEPT ![c].pc = "holding", ![c].at = states[cur].shared,
                            ![c].created = ~ states[cur].claimed, ![c].result = "conn"]

(* What acquireShared and collectShared do when they find a shared connection. *)
TakeShared(c) ==
  /\ states[cur].shared # None
  /\ \/ /\ IsAlive(states[cur].shared)
        /\ Give(c)
        /\ UNCHANGED dials
     \/ /\ ~ IsAlive(states[cur].shared)
        /\ removeConn(cur, states[cur].shared)
        /\ Goto(c, "acquire")

-----------------------------------------------------------------------------
(* acquireShared: one pass of the loop up to the select. *)

AcquireClosed(c) ==
  /\ calls[c].pc = "acquire"
  /\ cur = None
  /\ Return(c, "closed")
  /\ UNCHANGED <<states, cur, dials, draining>>

AcquireFound(c) ==
  /\ calls[c].pc = "acquire"
  /\ cur # None
  /\ TakeShared(c)
  /\ UNCHANGED <<cur, draining>>

AcquireJoin(c) ==
  /\ calls[c].pc = "acquire"
  /\ cur # None
  /\ states[cur].shared = None
  /\ states[cur].connecting # None
  /\ calls' = [calls EXCEPT ![c].pc = "select", ![c].at = states[cur].connecting]
  /\ UNCHANGED <<states, cur, dials, draining>>

AcquireDial(c) ==
  /\ calls[c].pc = "acquire"
  /\ cur # None
  /\ states[cur].shared = None
  /\ states[cur].connecting = None
  /\ Len(dials) < MaxDials
  /\ dials' = Append(dials, newDial(c))
  /\ states' = [states EXCEPT ![cur].connecting = Len(dials) + 1]
  /\ calls' = [calls EXCEPT ![c].pc = "select", ![c].at = Len(dials) + 1]
  /\ UNCHANGED <<cur, draining>>

(* The select of acquireShared: the dial is done (collectShared), the      *)
(* caller's context is done, or the state the dial belongs to is.          *)

(* Mutant: everyone who waited is given the dial's error. *)
CollectErrorForAll(c) ==
  /\ calls[c].pc = "select"
  /\ LET d == calls[c].at IN
       /\ dials[d].stage = "done"
       /\ dials[d].err # "none"
       /\ Return(c, dials[d].err)
  /\ UNCHANGED <<states, cur, dials, draining>>

CollectError(c) ==
  /\ calls[c].pc = "select"
  /\ LET d == calls[c].at IN
       /\ dials[d].stage = "done"
       /\ dials[d].err # "none"
       /\ IF dials[d].starter = c THEN Return(c, dials[d].err) ELSE Goto(c, "acquire")
  /\ UNCHANGED <<states, cur, dials, draining>>

CollectStale(c) ==
  /\ calls[c].pc = "select"
  /\ LET d == calls[c].at IN
       /\ dials[d].stage = "done"
       /\ dials[d].err = "none"
       /\ cur # dials[d].home
       /\ Return(c, "closed")
  /\ UNCHANGED <<states, cur, dials, draining>>

CollectGone(c) ==
  /\ calls[c].pc = "select"
  /\ LET d == calls[c].at IN
       /\ dials[d].stage = "done"
       /\ dials[d].err = "none"
       /\ cur = dials[d].home
       /\ states[cur].shared = None
       /\ Goto(c, "acquire")
  /\ UNCHANGED <<states, cur, dials, draining>>

CollectFound(c) ==
  /\ calls[c].pc = "select"
  /\ LET d == calls[c].at IN
       /\ dials[d].stage = "done"
       /\ dials[d].err = "none"
       /\ cur = dials[d].home
       /\ TakeShared(c)
  /\ UNCHANGED <<cur, draining>>

SelectContext(c) ==
  /\ calls[c].pc = "select"
  /\ calls[c].ctxDone
  /\ Return(c, "ctx")
  /\ UNCHANGED <<states, cur, dials, draining>>

SelectState(c) ==
  /\ calls[c].pc = "select"
  /\ states[dials[calls[c].at].home].cancelled
  /\ IF cur = None THEN Return(c, "closed") ELSE Goto(c, "acquire")
  /\ UNCHANGED <<states, cur, dials, draining>>

-----------------------------------------------------------------------------
(* connectSingle. *)

(* Why the dial's context is done: the starter's is, or the state's. *)
DialCauses(d) ==
  (IF calls[dials[d].starter].ctxDone THEN {"ctx"} ELSE {}) \cup
  (IF states[dials[d].home].cancelled THEN {"closed"} ELSE {})

(* dial fails, or its context is done by the time it has returned; what it *)
(* has yielded then is closed.                                             *)
DialFails(d) ==
  /\ dials[d].stage = "dialing"
  /\ \E e \in (IF DialCauses(d) = {} THEN {"dial"} ELSE DialCauses(d)) :
       dials' = [dials EXCEPT ![d].stage = "install", ![d].err = e]
  /\ UNCHANGED <<states, cur, calls, draining>>

DialSucceeds(d) ==
  /\ dials[d].stage = "dialing"
  /\ DialCauses(d) = {}
  /\ dials' = [dials EXCEPT ![d].stage = "install", ![d].conn = "open"]
  /\ UNCHANGED <<states, cur, calls, draining>>

InstallError(d) ==
  /\ dials[d].stage = "install"
  /\ dials[d].err # "none"
  /\ states' = [states EXCEPT ![dials[d].home].connecting = None]
  /\ dials' = [dials EXCEPT ![d].stage = "finish"]
  /\ UNCHANGED <<cur, calls, draining>>

InstallStale(d) ==
  /\ dials[d].stage = "install"
  /\ dials[d].err = "none"
  /\ cur # dials[d].home
  /\ states' = [states EXCEPT ![dials[d].home].connecting = None]
  /\ dials' = [dials EXCEPT ![d].stage = "finish", ![d].err = "closed", ![d].conn = "none"]
  /\ UNCHANGED <<cur, calls, draining>>

Install(d) ==
  /\ dials[d].stage = "install"
  /\ dials[d].err = "none"
  /\ cur = dials[d].home
  /\ states' = [states EXCEPT ![cur].connecting = None,
                              ![cur].shared = d,
                              ![cur].all = @ \cup {d}]
  /\ dials' = [dials EXCEPT ![d].stage = "finish"]
  /\ UNCHANGED <<cur, calls, draining>>

(* Mutant: a failing dial leaves without closing the done channel. *)
FinishOnSuccess(d) ==
  /\ dials[d].stage = "finish"
  /\ dials[d].err # "dial"
  /\ dials' = [dials EXCEPT ![d].stage = "done"]
  /\ UNCHANGED <<states, cur, calls, draining>>

Finish(d) ==
  /\ dials[d].stage = "finish"
  /\ dials' = [dials EXCEPT ![d].stage = "done"]
  /\ UNCHANGED <<states, cur, calls, draining>>

-----------------------------------------------------------------------------
(* The other operations of the pool, by the holder of a connection or by anyone. *)

Tracked(d) == cur # None /\ d \in states[cur].all

ReleaseUntracked(c) ==
  /\ calls[c].pc = "holding"
  /\ ~ Tracked(calls[c].at)
  /\ dials' = [dials EXCEPT ![calls[c].at].conn = "none"]
  /\ Goto(c, "over")
  /\ UNCHANGED <<states, cur, draining>>

(* Release(conn, reuse) without reuse or of a dead connection, and Invalidate. *)
Discard(c) ==
  /\ calls[c].pc = "holding"
  /\ Tracked(calls[c].at)
  /\ removeConn(cur, calls[c].at)
  /\ Goto(c, "over")
  /\ UNCHANGED <<cur, draining>>

ReleaseForReuse(c) ==
  /\ calls[c].pc = "holding"
  /\ Tracked(calls[c].at)
  /\ IsAlive(calls[c].at)
  /\ Goto(c, "over")
  /\ UNCHANGED <<states, cur, dials, draining>>

InvalidateUntracked(c) ==
  /\ calls[c].pc = "holding"
  /\ ~ Tracked(calls[c].at)
  /\ dials' = [dials EXCEPT ![calls[c].at].conn = IF cur = None THEN "none" ELSE @]
  /\ Goto(c, "over")
  /\ UNCHANGED <<states, cur, draining>>

Reset ==
  /\ cur # None
  /\ Len(states) <= MaxResets
  /\ states' = Append(states, newConnPoolState)
  /\ cur' = Len(states) + 1
  /\ draining' = draining \cup {cur}
  /\ UNCHANGED <<dials, calls>>

Close ==
  /\ cur # None
  /\ cur' = None
  /\ draining' = draining \cup {cur}
  /\ UNCHANGED <<states, dials, calls>>

CloseAll(ds) ==
  dials' = [d \in DOMAIN dials |-> IF d \in ds THEN [dials[d] EXCEPT !.conn = "none"] ELSE dials[d]]

closeState(s) ==
  /\ s \in draining
  /\ states' = [states EXCEPT ![s].cancelled = TRUE]
  /\ CloseAll(states[s].all)
  /\ draining' = draining \ {s}
  /\ UNCHANGED <<cur, calls>>

-----------------------------------------------------------------------------
(* The environment: a connection dies, a caller's context is done.  What   *)
(* happens after the pool let go of the connection, or after the call has  *)
(* returned, is of no concern to the pool.                                 *)

Die(d) ==
  /\ dials[d].conn = "open"
  /\ d \in states[dials[d].home].all
  /\ dials' = [dials EXCEPT ![d].conn = "dead"]
  /\ UNCHANGED <<states, cur, calls, draining>>

Cancel(c) ==
  /\ calls[c].pc \in {"acquire", "select"}
  /\ ~ calls[c].ctxDone
  /\ calls' = [calls EXCEPT ![c].ctxDone = TRUE]
  /\ UNCHANGED <<states, cur, dials, draining>>

Acquire(c) ==
  \/ AcquireClosed(c) \/ AcquireFound(c) \/ AcquireJoin(c) \/ AcquireDial(c)
  \/ CollectError(c) \/ CollectStale(c) \/ CollectGone(c) \/ CollectFound(c)
  \/ SelectContext(c) \/ SelectState(c)

Dispose(c) ==
  ReleaseUntracked(c) \/ Discard(c) \/ ReleaseForReuse(c) \/ InvalidateUntracked(c)

connectSingle(d) ==
  \/ DialFails(d) \/ DialSucceeds(d)
  \/ InstallError(d) \/ InstallStale(d) \/ Install(d) \/ Finish(d)

Next ==
  \/ \E c \in Calls : Acquire(c) \/ Dispose(c) \/ Cancel(c)
  \/ \E d \in DOMAIN dials : connectSingle(d) \/ Die(d)
  \/ \E s \in DOMAIN states : closeState(s)
  \/ Reset \/ Close

Spec == Init /\ [][Next]_vars

(* Whatever the pool itself has to do is not held up forever: a goroutine  *)
(* that can go on does, a dial returns (it runs under a deadline).  This   *)
(* is weaker than fairness to each goroutine.                              *)
Progress ==
  \/ \E c \in Calls : Acquire(c)
  \/ \E d \in DOMAIN dials : connectSingle(d)
  \/ \E s \in DOMAIN states : closeState(s)

FairSpec == Spec /\ WF_vars(Progress)

-----------------------------------------------------------------------------
Installed(d) == dials[d].stage \in {"finish", "done"} /\ dials[d].err = "none"

(* No connection leaks: one that is not closed is tracked by the current   *)
(* state, or by a replaced state that closeState will visit, or has just   *)
(* been dialled and is still to be installed.                              *)
NoLeak ==
  \A d \in DOMAIN dials : dials[d].conn # "none" =>
    \/ dials[d].stage = "install"
    \/ d \in states[dials[d].home].all /\ dials[d].home \in {cur} \cup draining

(* At most one call is told that its connection was created for it; the    *)
(* multiplexer retries a failed write only on a connection it did not      *)
(* create.                                                                 *)
CreatedOnce ==
  \A b, c \in Calls :
    calls[b].created /\ calls[c].created /\ calls[b].at = calls[c].at => b = c

(* A call fails for its own reasons only: with a context error when its    *)
(* own context is done, with a dial error when it started that dial, with  *)
(* net.ErrClosed when the pool was closed or reset under it.  The end of   *)
(* the starter's context, which ends the dial for all, fails nobody else.  *)
OwnErrorsOnly ==
  \A c \in Calls : calls[c].pc = "over" =>
    /\ calls[c].result = "ctx" => calls[c].ctxDone
    /\ calls[c].result = "dial" => dials[calls[c].at].starter = c
    /\ calls[c].result = "closed" => cur = None \/ dials[calls[c].at].home # cur

(* A connection that is no longer shared has a cancelled context, or       *)
(* belongs to a state that closeState has cancelled or will cancel: that   *)
(* is how the multiplexer's pending queries learn of the loss.             *)
LossIsSignalled ==
  \A d \in DOMAIN dials : Installed(d) =>
    \/ dials[d].connDone
    \/ states[dials[d].home].cancelled
    \/ dials[d].home \in draining
    \/ dials[d].home = cur /\ states[cur].shared = d

(* The pool is a SharedLink: one current connection, a single creator, no  *)
(* way back for a connection that was lost.                                *)
Link == INSTANCE SharedLink WITH
  Links <- 1 .. MaxDials,
  link <- [d \in 1 .. MaxDials |->
             IF d \notin DOMAIN dials THEN "none"
             ELSE IF ~ Installed(d) THEN "none"
             ELSE IF dials[d].connDone \/ states[dials[d].home].cancelled THEN "done"
             ELSE IF dials[d].home # cur THEN "detached"
             ELSE IF states[cur].claimed THEN "claimed" ELSE "fresh"]

ImplementsSharedLink == Link!Spec

(* Every call of AcquireShared returns, whatever becomes of the dial it    *)
(* waits for, of its starter and of the state it was started in (or finds  *)
(* the model's dials used up).                                             *)
EveryCallReturns ==
  \A c \in Calls :
    calls[c].pc \in {"acquire", "select"}
      ~> (calls[c].pc \in {"holding", "over"} \/ (calls[c].pc = "acquire" /\ Len(dials) = MaxDials))

=============================================================================
