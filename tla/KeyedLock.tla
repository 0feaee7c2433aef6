----------------------------- MODULE KeyedLock -----------------------------
(***************************************************************************)
(* What a keyed mutex promises its callers: every key has at most one      *)
(* owner, and a goroutine that asked for a key is either its owner or one  *)
(* of those still waiting for it.  common/kmutex implements it (module     *)
(* Kmutex); the failover and bond inbounds are written against it.         *)
(***************************************************************************)
CONSTANTS Keys, Goroutines

VARIABLES
  owner,    \* owner[k]: the set of owners of key k, of at most one element
  waiting   \* waiting[k]: the goroutines blocked in Lock(k)

klVars == <<owner, waiting>>

Free(g) == \A k \in Keys : g \notin owner[k] \cup waiting[k]

Init ==
  /\ owner = [k \in Keys |-> {}]
  /\ waiting = [k \in Keys |-> {}]

(* Lock(k) on a free key. *)
Acquire(g, k) ==
  /\ Free(g)
  /\ owner[k] = {}
  /\ owner' = [owner EXCEPT ![k] = {g}]
  /\ UNCHANGED waiting

(* Lock(k) on a key that is owned: the caller blocks. *)
Block(g, k) ==
  /\ Free(g)
  /\ owner[k] # {}
  /\ waiting' = [waiting EXCEPT ![k] = @ \cup {g}]
  /\ UNCHANGED owner

(* Unlock(k) hands the key to one of the waiting goroutines, if any. *)
HandOver(g, k) ==
  /\ owner[k] = {g}
  /\ \/ /\ waiting[k] = {}
        /\ owner' = [owner EXCEPT ![k] = {}]
        /\ UNCHANGED waiting
     \/ \E w \in waiting[k] :
          /\ owner' = [owner EXCEPT ![k] = {w}]
          /\ waiting' = [waiting EXCEPT ![k] = @ \ {w}]

Next ==
  \E g \in Goroutines, k \in Keys : Acquire(g, k) \/ Block(g, k) \/ HandOver(g, k)

Spec == Init /\ [][Next]_klVars

=============================================================================
