------------------------------- MODULE Kmutex -------------------------------
(***************************************************************************)
(* common/kmutex/mutex.go: a mutex per key, made of one global mutex km.l  *)
(* and a map km.s from key to klock.  A klock counts in ref the goroutines *)
(* that own or await the key and parks the waiting ones on a sync.Cond.    *)
(*                                                                         *)
(* Each critical section of km.l is one action.  A key that is not in km.s *)
(* is a key with ref = 0: Unlock deletes the entry as soon as ref drops to *)
(* zero.  The panic of Unlock is out of reach: a goroutine here, as in the *)
(* failover and bond inbounds, unlocks only what it locked.                *)
(***************************************************************************)
EXTENDS Naturals, Sequences

CONSTANTS Keys, Goroutines

VARIABLES
  ref,    \* km.s[k].ref; 0 when km.s has no entry for k
  cond,   \* km.s[k].cond: the notify list of the klock's sync.Cond
  pc,     \* where each goroutine is
  key     \* the argument of the call it last made; no meaning while Idle

vars == <<ref, cond, pc, key>>

Idle   == "idle"     \* outside Lock and Unlock, owning nothing
Parked == "parked"   \* inside cond.Wait, on the notify list
Woken  == "woken"    \* signalled, about to re-acquire km.l and return
Held   == "held"     \* Lock has returned

Owns(g, k)  == key[g] = k /\ pc[g] \in {Woken, Held}
Waits(g, k) == key[g] = k /\ pc[g] = Parked

(* sync.Cond: Signal takes the longest waiting goroutine, if any, off the list. *)
Signalled(k)   == IF cond[k] = << >> THEN {} ELSE {Head(cond[k])}
WithoutHead(s) == IF s = << >> THEN s ELSE Tail(s)

-----------------------------------------------------------------------------
Init ==
  /\ ref = [k \in Keys |-> 0]
  /\ cond = [k \in Keys |-> << >>]
  /\ pc = [g \in Goroutines |-> Idle]
  /\ key \in [Goroutines -> Keys]

(* Lock on a key without an entry: install a klock with ref = 1. *)
LockNew(g, k) ==
  /\ pc[g] = Idle
  /\ ref[k] = 0
  /\ ref' = [ref EXCEPT ![k] = 1]
  /\ pc' = [pc EXCEPT ![g] = Held]
  /\ key' = [key EXCEPT ![g] = k]
  /\ UNCHANGED cond

(* Mutant: Lock takes the key from a goroutine that was signalled and has  *)
(* not returned from cond.Wait; that one waits on.                         *)
LockBarges(g, k) ==
  /\ pc[g] = Idle
  /\ ref[k] > 0
  /\ ref' = [ref EXCEPT ![k] = @ + 1]
  /\ \/ \E h \in Goroutines :
          /\ key[h] = k /\ pc[h] = Woken
          /\ cond' = [cond EXCEPT ![k] = Append(@, h)]
          /\ pc' = [pc EXCEPT ![g] = Held, ![h] = Parked]
     \/ /\ cond' = [cond EXCEPT ![k] = Append(@, g)]
        /\ pc' = [pc EXCEPT ![g] = Parked]
  /\ key' = [key EXCEPT ![g] = k]

(* Lock on a key with an entry: count up and park on the condition. *)
LockWait(g, k) ==
  /\ pc[g] = Idle
  /\ ref[k] > 0
  /\ ref' = [ref EXCEPT ![k] = @ + 1]
  /\ cond' = [cond EXCEPT ![k] = Append(@, g)]
  /\ pc' = [pc EXCEPT ![g] = Parked]
  /\ key' = [key EXCEPT ![g] = k]

(* The signalled goroutine re-acquires km.l and Lock returns. *)
LockReturn(g) ==
  /\ pc[g] = Woken
  /\ pc' = [pc EXCEPT ![g] = Held]
  /\ UNCHANGED <<ref, cond, key>>

(* Unlock of the last reference deletes the entry. *)
UnlockDelete(g) ==
  /\ pc[g] = Held
  /\ ref[key[g]] = 1
  /\ ref' = [ref EXCEPT ![key[g]] = 0]
  /\ cond' = [cond EXCEPT ![key[g]] = << >>]
  /\ pc' = [pc EXCEPT ![g] = Idle]
  /\ UNCHANGED key

(* Mutant: Unlock does not count the leaving goroutine down. *)
UnlockWithoutDecrement(g) ==
  /\ pc[g] = Held
  /\ ref[key[g]] > 1
  /\ cond' = [cond EXCEPT ![key[g]] = WithoutHead(@)]
  /\ pc' = [h \in Goroutines |-> IF h = g THEN Idle
                                 ELSE IF h \in Signalled(key[g]) THEN Woken ELSE pc[h]]
  /\ UNCHANGED <<ref, key>>

(* Mutant: Broadcast where the code says Signal. *)
UnlockBroadcast(g) ==
  /\ pc[g] = Held
  /\ ref[key[g]] > 1
  /\ ref' = [ref EXCEPT ![key[g]] = @ - 1]
  /\ cond' = [cond EXCEPT ![key[g]] = << >>]
  /\ pc' = [h \in Goroutines |-> IF h = g THEN Idle
                                 ELSE IF Waits(h, key[g]) THEN Woken ELSE pc[h]]
  /\ UNCHANGED key

(* Mutant: the goroutine that has waited least is signalled. *)
UnlockSignalLast(g) ==
  /\ pc[g] = Held
  /\ ref[key[g]] > 1
  /\ ref' = [ref EXCEPT ![key[g]] = @ - 1]
  /\ LET waiters == cond[key[g]] IN
       /\ cond' = [cond EXCEPT ![key[g]] = SubSeq(waiters, 1, Len(waiters) - 1)]
       /\ pc' = [pc EXCEPT ![g] = Idle, ![waiters[Len(waiters)]] = Woken]
  /\ UNCHANGED key

(* Unlock with others counted: count down, keep the entry, Signal. *)
UnlockSignal(g) ==
  /\ pc[g] = Held
  /\ ref[key[g]] > 1
  /\ ref' = [ref EXCEPT ![key[g]] = @ - 1]
  /\ cond' = [cond EXCEPT ![key[g]] = WithoutHead(@)]
  /\ pc' = [h \in Goroutines |-> IF h = g THEN Idle
                                 ELSE IF h \in Signalled(key[g]) THEN Woken ELSE pc[h]]
  /\ UNCHANGED key

Unlock(g) == UnlockDelete(g) \/ UnlockSignal(g)

Next ==
  \/ \E g \in Goroutines, k \in Keys : LockNew(g, k) \/ LockWait(g, k)
  \/ \E g \in Goroutines : LockReturn(g) \/ Unlock(g)

Spec == Init /\ [][Next]_vars

(* A signalled goroutine is scheduled, and an owner unlocks some time. *)
FairSpec ==
  /\ Spec
  /\ \A g \in Goroutines : WF_vars(LockReturn(g)) /\ WF_vars(Unlock(g))

-----------------------------------------------------------------------------
(* The types: ref never drops below zero and only goroutines are parked. *)
TypeOK ==
  /\ ref \in [Keys -> Nat]
  /\ cond \in [Keys -> Seq(Goroutines)]
  /\ pc \in [Goroutines -> {Idle, Parked, Woken, Held}]
  /\ key \in [Goroutines -> Keys]

(* Two goroutines never own the same key, a signalled goroutine that has   *)
(* not returned from cond.Wait yet counting as the owner: no third one may *)
(* overtake it by finding the entry deleted.                               *)
MutualExclusion ==
  \A k \in Keys : \A g, h \in Goroutines : Owns(g, k) /\ Owns(h, k) => g = h

(* No lost wake-up: while a goroutine is parked in Lock some goroutine     *)
(* owns its key, and the parked one is on the list that owner will signal. *)
NoneStranded ==
  \A g \in Goroutines : pc[g] = Parked =>
    /\ \E h \in Goroutines : Owns(h, key[g])
    /\ \E i \in 1 .. Len(cond[key[g]]) : cond[key[g]][i] = g

(* The entry of a key is in km.s exactly while it is in use, and its ref   *)
(* is the owner plus the parked goroutines: the map does not leak.         *)
RefCounts ==
  \A k \in Keys :
    /\ (\E g \in Goroutines : Owns(g, k)) => ref[k] = Len(cond[k]) + 1
    /\ (\A g \in Goroutines : ~ Owns(g, k)) => ref[k] = 0 /\ cond[k] = << >>

(* kmutex implements the lock its users rely on. *)
Abstract == INSTANCE KeyedLock WITH
  owner <- [k \in Keys |-> {g \in Goroutines : Owns(g, k)}],
  waiting <- [k \in Keys |-> {g \in Goroutines : Waits(g, k)}]

ImplementsKeyedLock == Abstract!Spec

(* Every Lock returns: the notify list is served in order, so a stream of  *)
(* later callers cannot starve a parked goroutine.                         *)
EveryLockReturns == \A g \in Goroutines : pc[g] = Parked ~> pc[g] = Held

=============================================================================
