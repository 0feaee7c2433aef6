----------------------------- MODULE LockProofs -----------------------------
(***************************************************************************)
(* The locks of the failover and bond inbounds.  Kmutex is a mutex per     *)
(* key, for any set of keys and of goroutines; the goroutines around a     *)
(* session of the failover inbound, any number of them, wait for each      *)
(* other in a circle in one way only.                                      *)
(***************************************************************************)
EXTENDS Kmutex, FailoverLocks, TLAPS

(* What a leaf is tried with that names no prover of its own. *)
USE SMT, Zenon, Z3T(40), SMTT(40), ZenonT(120)

(* The parked goroutines of a key are exactly those on its notify list, each once. *)
ListsWaiters ==
  /\ \A k \in Keys : \A i \in 1 .. Len(cond[k]) : Waits(cond[k][i], k)
  /\ \A k \in Keys : \A i, j \in 1 .. Len(cond[k]) : cond[k][i] = cond[k][j] => i = j
  /\ \A g \in Goroutines : pc[g] = Parked =>
       \E i \in 1 .. Len(cond[key[g]]) : cond[key[g]][i] = g

(* The inductive invariant: MutualExclusion alone is not inductive, since  *)
(* LockNew looks at ref only and UnlockSignal at the head of the list.     *)
IInv == TypeOK /\ MutualExclusion /\ RefCounts /\ ListsWaiters

USE DEF Idle, Parked, Woken, Held

(* What Go's notify list does to a list of waiters. *)
LEMMA WithoutHeadFacts ==
  ASSUME NEW S, NEW s \in Seq(S), s # << >>
  PROVE  /\ WithoutHead(s) \in Seq(S)
         /\ Len(WithoutHead(s)) = Len(s) - 1
         /\ \A i \in 1 .. Len(s) - 1 : WithoutHead(s)[i] = s[i + 1]
         /\ Head(s) = s[1] /\ Head(s) \in S
         /\ Len(s) \in Nat /\ Len(s) > 0
  BY DEF WithoutHead

LEMMA InitInvariant == Init => IInv
<1> SUFFICES ASSUME Init PROVE IInv
  OBVIOUS
<1>2. TypeOK
  BY DEF Init, TypeOK
<1>3. MutualExclusion /\ RefCounts
  BY DEF Init, MutualExclusion, RefCounts, Owns
<1>4. ListsWaiters
  BY DEF Init, ListsWaiters
<1> QED BY <1>2, <1>3, <1>4 DEF IInv

(* A key has no entry in km.s exactly when nobody owns it. *)
LEMMA NoEntryNoOwner ==
  ASSUME TypeOK, RefCounts, NEW k \in Keys
  PROVE  ref[k] = 0 <=> \A h \in Goroutines : ~ Owns(h, k)
<1>1. Len(cond[k]) \in Nat
  BY DEF TypeOK
<1>2. (\E h \in Goroutines : Owns(h, k)) => ref[k] = Len(cond[k]) + 1
  BY DEF RefCounts
<1>3. (\A h \in Goroutines : ~ Owns(h, k)) => ref[k] = 0
  BY DEF RefCounts
<1>4. Len(cond[k]) + 1 # 0
  BY <1>1
<1> QED BY <1>2, <1>3, <1>4

(* A step that leaves the lists alone, and neither parks nor moves a parked *)
(* goroutine, keeps every list right.                                       *)
LEMMA ListsKept ==
  ASSUME TypeOK, ListsWaiters, cond' = cond,
         \A h \in Goroutines : pc'[h] = Parked <=> pc[h] = Parked,
         \A h \in Goroutines : pc[h] = Parked => key'[h] = key[h]
  PROVE  ListsWaiters'
<1>1. ASSUME NEW j \in Keys, NEW i \in 1 .. Len(cond[j])
      PROVE  Waits(cond[j][i], j)'
  <2>1. cond[j][i] \in Goroutines
    BY DEF TypeOK
  <2>2. Waits(cond[j][i], j)
    BY DEF ListsWaiters
  <2> QED BY <2>1, <2>2 DEF Waits
<1>2. ASSUME NEW h \in Goroutines, pc'[h] = Parked
      PROVE  \E i \in 1 .. Len(cond'[key'[h]]) : cond'[key'[h]][i] = h
  <2>1. pc[h] = Parked /\ key'[h] = key[h]
    BY <1>2
  <2> QED BY <2>1 DEF ListsWaiters
<1>3. \A j \in Keys : \A a, b \in 1 .. Len(cond'[j]) : cond'[j][a] = cond'[j][b] => a = b
  BY DEF ListsWaiters
<1> QED BY <1>1, <1>2, <1>3 DEF ListsWaiters

(* Lock on a free key: nobody owns it, since ref = 0. *)
LEMMA LockNewInvariant ==
  ASSUME IInv, NEW g \in Goroutines, NEW k \in Keys, LockNew(g, k)
  PROVE  IInv'
<1> USE DEF IInv, LockNew
<1>1. TypeOK' /\ Len(cond[k]) \in Nat
  BY DEF TypeOK
<1>2. \A h \in Goroutines : ~ Owns(h, k)
  BY NoEntryNoOwner
<1>3. cond[k] = << >>
  BY <1>2 DEF RefCounts
<1>4. \A h \in Goroutines, j \in Keys : Owns(h, j)' <=> (Owns(h, j) \/ (h = g /\ j = k))
  BY DEF Owns, TypeOK
<1>5. MutualExclusion'
  <2> SUFFICES ASSUME NEW j \in Keys, NEW a \in Goroutines, NEW b \in Goroutines,
                      Owns(a, j)', Owns(b, j)'
               PROVE  a = b
    BY DEF MutualExclusion
  <2> QED BY <1>2, <1>4 DEF MutualExclusion
<1>6. RefCounts'
  BY <1>2, <1>3, <1>4 DEF RefCounts, TypeOK
<1>7. ListsWaiters'
  <2>1. cond' = cond
    BY DEF LockNew
  <2>2. /\ \A h \in Goroutines : pc'[h] = Parked <=> pc[h] = Parked
        /\ \A h \in Goroutines : pc[h] = Parked => key'[h] = key[h]
    BY DEF LockNew, TypeOK
  <2> QED BY <2>1, <2>2, ListsKept
<1> QED BY <1>1, <1>5, <1>6, <1>7

(* Lock on an owned key: the caller joins the list and ref counts it. *)
LEMMA LockWaitInvariant ==
  ASSUME IInv, NEW g \in Goroutines, NEW k \in Keys, LockWait(g, k)
  PROVE  IInv'
<1> USE DEF IInv, LockWait
<1>1. TypeOK'
  BY DEF TypeOK
<1>2. \A h \in Goroutines, j \in Keys : Owns(h, j)' <=> Owns(h, j)
  BY DEF Owns, TypeOK
<1>3. MutualExclusion'
  BY <1>2 DEF MutualExclusion
<1>4. cond[k] \in Seq(Goroutines) /\ Len(cond'[k]) = Len(cond[k]) + 1
  BY DEF TypeOK
<1>5. RefCounts'
  <2> SUFFICES ASSUME NEW j \in Keys
               PROVE  /\ (\E h \in Goroutines : Owns(h, j)') => ref'[j] = Len(cond'[j]) + 1
                      /\ (\A h \in Goroutines : ~ Owns(h, j)') => ref'[j] = 0 /\ cond'[j] = << >>
    BY DEF RefCounts
  <2>1. CASE j = k
    <3>1. \E h \in Goroutines : Owns(h, k)
      <4>1. ref[k] # 0
        BY DEF TypeOK
      <4> QED BY <4>1, NoEntryNoOwner
    <3> QED BY <2>1, <3>1, <1>2, <1>4, Zenon DEF RefCounts, TypeOK
  <2>2. CASE j # k
    BY <2>2, <1>2 DEF RefCounts, TypeOK
  <2> QED BY <2>1, <2>2
<1>6. /\ \A i \in 1 .. Len(cond[k]) : cond'[k][i] = cond[k][i]
      /\ cond'[k][Len(cond[k]) + 1] = g
      /\ \A j \in Keys \ {k} : cond'[j] = cond[j]
  BY <1>4 DEF TypeOK
<1>7. \A j \in Keys : \A i \in 1 .. Len(cond[j]) : cond[j][i] # g
  BY DEF ListsWaiters, Waits
<1>8. Len(cond[k]) \in Nat
  BY <1>4
<1>9. ListsWaiters'
  <2>1. ASSUME NEW j \in Keys, NEW i \in 1 .. Len(cond'[j]) PROVE Waits(cond[j][i], j)'
    <3>1. CASE j = k /\ i = Len(cond[k]) + 1
      BY <3>1, <1>6 DEF Waits, TypeOK
    <3>2. CASE ~ (j = k /\ i = Len(cond[k]) + 1)
      <4>1. i \in 1 .. Len(cond[j]) /\ cond'[j][i] = cond[j][i]
        BY <3>2, <1>4, <1>6, <1>8
      <4>2. cond[j][i] \in Goroutines
        BY <4>1 DEF TypeOK
      <4>3. Waits(cond[j][i], j) /\ cond[j][i] # g
        BY <4>1, <1>7 DEF ListsWaiters
      <4> QED BY <4>1, <4>2, <4>3, Zenon DEF Waits, TypeOK
    <3> QED BY <3>1, <3>2
  <2>2. ASSUME NEW j \in Keys, NEW a \in 1 .. Len(cond'[j]), NEW b \in 1 .. Len(cond'[j]),
               cond'[j][a] = cond'[j][b]
        PROVE  a = b
    BY <2>2, <1>4, <1>6, <1>7, <1>8 DEF ListsWaiters
  <2>3. ASSUME NEW h \in Goroutines, pc'[h] = Parked
        PROVE  \E i \in 1 .. Len(cond'[key'[h]]) : cond'[key'[h]][i] = h
    <3>1. CASE h = g
      BY <3>1, <1>4, <1>6, <1>8 DEF TypeOK
    <3>2. CASE h # g
      <4>1. pc[h] = Parked /\ key'[h] = key[h] /\ key[h] \in Keys
        BY <2>3, <3>2 DEF TypeOK
      <4>2. PICK i \in 1 .. Len(cond[key[h]]) : cond[key[h]][i] = h
        BY <4>1 DEF ListsWaiters
      <4> QED BY <4>1, <4>2, <1>4, <1>6, <1>8
    <3> QED BY <3>1, <3>2
  <2> QED BY <2>1, <2>2, <2>3 DEF ListsWaiters
<1> QED BY <1>1, <1>3, <1>5, <1>9

LEMMA LockReturnInvariant ==
  ASSUME IInv, NEW g \in Goroutines, LockReturn(g)
  PROVE  IInv'
<1> USE DEF IInv, LockReturn
<1>1. TypeOK'
  BY DEF TypeOK
<1>2. \A h \in Goroutines, j \in Keys : Owns(h, j)' <=> Owns(h, j)
  BY DEF Owns, TypeOK
<1>3. MutualExclusion' /\ RefCounts'
  BY <1>2 DEF MutualExclusion, RefCounts
<1>4. ListsWaiters'
  <2>1. cond' = cond
    BY DEF LockReturn, TypeOK
  <2>2. /\ \A h \in Goroutines : pc'[h] = Parked <=> pc[h] = Parked
        /\ \A h \in Goroutines : pc[h] = Parked => key'[h] = key[h]
    BY DEF LockReturn, TypeOK
  <2> QED BY <2>1, <2>2, ListsKept
<1> QED BY <1>1, <1>3, <1>4

(* Unlock with ref = 1: the owner leaves and nobody waits. *)
LEMMA UnlockDeleteInvariant ==
  ASSUME IInv, NEW g \in Goroutines, UnlockDelete(g)
  PROVE  IInv'
<1> DEFINE k == key[g]
<1> USE DEF IInv
<1>1. TypeOK' /\ k \in Keys /\ Len(cond[k]) \in Nat
  BY DEF TypeOK, UnlockDelete
<1>2. Owns(g, k)
  BY DEF Owns, UnlockDelete
<1>3. cond[k] = << >>
  <2>1. ref[k] = Len(cond[k]) + 1
    BY <1>1, <1>2 DEF RefCounts
  <2>2. ref[k] = 1 /\ cond[k] \in Seq(Goroutines)
    BY <1>1 DEF UnlockDelete, TypeOK
  <2> QED BY <2>1, <2>2, <1>1
<1>4. \A h \in Goroutines : Owns(h, k) => h = g
  BY <1>1, <1>2 DEF MutualExclusion
<1>5. \A h \in Goroutines, j \in Keys : Owns(h, j)' <=> Owns(h, j) /\ h # g
  BY DEF Owns, TypeOK, UnlockDelete
<1>6. MutualExclusion'
  BY <1>5 DEF MutualExclusion
<1>7. RefCounts'
  <2> SUFFICES ASSUME NEW j \in Keys
               PROVE  /\ (\E h \in Goroutines : Owns(h, j)') => ref'[j] = Len(cond'[j]) + 1
                      /\ (\A h \in Goroutines : ~ Owns(h, j)') => ref'[j] = 0 /\ cond'[j] = << >>
    BY DEF RefCounts
  <2>1. CASE j = k
    BY <2>1, <1>1, <1>4, <1>5 DEF UnlockDelete, TypeOK
  <2>2. CASE j # k
    <3>1. ~ Owns(g, j) /\ ref'[j] = ref[j] /\ cond'[j] = cond[j]
      BY <2>2, <1>1 DEF Owns, UnlockDelete, TypeOK
    <3> QED BY <3>1, <1>5 DEF RefCounts
  <2> QED BY <2>1, <2>2
<1>8. ListsWaiters'
  <2>1. cond' = cond
    BY <1>1, <1>3 DEF UnlockDelete, TypeOK
  <2>2. /\ \A h \in Goroutines : pc'[h] = Parked <=> pc[h] = Parked
        /\ \A h \in Goroutines : pc[h] = Parked => key'[h] = key[h]
    BY DEF UnlockDelete, TypeOK
  <2> QED BY <2>1, <2>2, ListsKept
<1> QED BY <1>1, <1>6, <1>7, <1>8

(* Unlock with others waiting: the head of the list becomes the owner. *)
LEMMA UnlockSignalInvariant ==
  ASSUME IInv, NEW g \in Goroutines, UnlockSignal(g)
  PROVE  IInv'
<1> DEFINE k == key[g]
           w == Head(cond[k])
<1> USE DEF IInv
<1>1. k \in Keys /\ cond[k] \in Seq(Goroutines) /\ Len(cond[k]) \in Nat
  BY DEF TypeOK
<1>2. Owns(g, k)
  BY DEF Owns, UnlockSignal
<1>3. ref[k] = Len(cond[k]) + 1 /\ cond[k] # << >>
  <2>1. ref[k] = Len(cond[k]) + 1
    BY <1>1, <1>2 DEF RefCounts
  <2> QED BY <2>1, <1>1 DEF UnlockSignal
<1>4. /\ cond'[k] = WithoutHead(cond[k])
      /\ \A j \in Keys \ {k} : cond'[j] = cond[j] /\ ref'[j] = ref[j]
      /\ ref'[k] = ref[k] - 1
      /\ key' = key
  BY <1>1 DEF UnlockSignal, TypeOK
<1>5. /\ WithoutHead(cond[k]) \in Seq(Goroutines)
      /\ Len(WithoutHead(cond[k])) = Len(cond[k]) - 1
      /\ \A i \in 1 .. Len(cond[k]) - 1 : WithoutHead(cond[k])[i] = cond[k][i + 1]
      /\ w = cond[k][1] /\ w \in Goroutines
      /\ Len(cond[k]) > 0
  BY <1>1, <1>3, WithoutHeadFacts, Zenon
<1>6. Waits(w, k) /\ w # g
  <2>1. Waits(w, k)
    BY <1>1, <1>5 DEF ListsWaiters
  <2> QED BY <2>1 DEF Waits, UnlockSignal
<1>7. pc' = [h \in Goroutines |-> IF h = g THEN Idle ELSE IF h = w THEN Woken ELSE pc[h]]
  BY <1>3 DEF UnlockSignal, Signalled
<1>8. TypeOK'
  <2>1. ref' \in [Keys -> Nat]
    BY <1>1, <1>3 DEF UnlockSignal, TypeOK
  <2>2. cond' \in [Keys -> Seq(Goroutines)]
    BY <1>1, <1>5 DEF UnlockSignal, TypeOK
  <2>3. pc' \in [Goroutines -> {Idle, Parked, Woken, Held}] /\ key' \in [Goroutines -> Keys]
    BY <1>4, <1>7 DEF TypeOK
  <2> QED BY <2>1, <2>2, <2>3 DEF TypeOK
<1>9. \A h \in Goroutines : Owns(h, k) => h = g
  BY <1>1, <1>2 DEF MutualExclusion
<1>10. \A h \in Goroutines, j \in Keys :
         Owns(h, j)' <=> (Owns(h, j) /\ h # g) \/ (h = w /\ j = k)
  BY <1>4, <1>5, <1>6, <1>7 DEF Owns, Waits
<1>11. MutualExclusion'
  <2> SUFFICES ASSUME NEW j \in Keys, NEW a \in Goroutines, NEW b \in Goroutines,
                      Owns(a, j)', Owns(b, j)'
               PROVE  a = b
    BY DEF MutualExclusion
  <2> QED BY <1>9, <1>10 DEF MutualExclusion
<1>12. RefCounts'
  <2> SUFFICES ASSUME NEW j \in Keys
               PROVE  /\ (\E h \in Goroutines : Owns(h, j)') => ref'[j] = Len(cond'[j]) + 1
                      /\ (\A h \in Goroutines : ~ Owns(h, j)') => ref'[j] = 0 /\ cond'[j] = << >>
    BY DEF RefCounts
  <2>1. CASE j = k
    <3>1. ref'[k] = Len(cond'[k]) + 1
      BY <1>1, <1>3, <1>4, <1>5
    <3>2. \E h \in Goroutines : Owns(h, j)'
      BY <2>1, <1>5, <1>10
    <3> QED BY <2>1, <3>1, <3>2
  <2>2. CASE j # k
    <3>1. ~ Owns(g, j)
      BY <2>2 DEF Owns
    <3> QED BY <2>2, <3>1, <1>4, <1>10 DEF RefCounts
  <2> QED BY <2>1, <2>2
<1>13. ListsWaiters'
  <2>1. \A j \in Keys : \A i \in 1 .. Len(cond'[j]) :
          \E n \in 1 .. Len(cond[j]) :
            /\ cond'[j][i] = cond[j][n]
            /\ n = (IF j = k THEN i + 1 ELSE i)
    BY <1>1, <1>4, <1>5
  <2>2. ASSUME NEW j \in Keys, NEW i \in 1 .. Len(cond'[j]) PROVE Waits(cond[j][i], j)'
    <3>1. PICK n \in 1 .. Len(cond[j]) : cond'[j][i] = cond[j][n] /\ n = (IF j = k THEN i + 1 ELSE i)
      BY <2>1
    <3>2. Waits(cond[j][n], j) /\ cond[j][n] \in Goroutines
      BY DEF ListsWaiters, TypeOK
    <3>3. cond[j][n] # w
      <4>1. CASE j = k
        <5>1. n # 1 /\ n \in 1 .. Len(cond[k]) /\ 1 \in 1 .. Len(cond[k])
          BY <4>1, <3>1, <1>1, <1>5
        <5> QED BY <4>1, <5>1, <1>1, <1>5 DEF ListsWaiters
      <4>2. CASE j # k
        BY <4>2, <3>2, <1>6 DEF Waits
      <4> QED BY <4>1, <4>2
    <3>4. cond[j][n] # g
      BY <3>2 DEF Waits, UnlockSignal
    <3> QED BY <3>1, <3>2, <3>3, <3>4, <1>4, <1>7 DEF Waits
  <2>3. ASSUME NEW j \in Keys, NEW a \in 1 .. Len(cond'[j]), NEW b \in 1 .. Len(cond'[j]),
               cond'[j][a] = cond'[j][b]
        PROVE  a = b
    <3>1. PICK m \in 1 .. Len(cond[j]) : cond'[j][a] = cond[j][m] /\ m = (IF j = k THEN a + 1 ELSE a)
      BY <2>1
    <3>2. PICK n \in 1 .. Len(cond[j]) : cond'[j][b] = cond[j][n] /\ n = (IF j = k THEN b + 1 ELSE b)
      BY <2>1
    <3>3. cond[j][m] = cond[j][n]
      BY <2>3, <3>1, <3>2, Zenon
    <3>4. m = n
      BY <3>3 DEF ListsWaiters
    <3> QED BY <3>1, <3>2, <3>4
  <2>4. ASSUME NEW h \in Goroutines, pc'[h] = Parked
        PROVE  \E i \in 1 .. Len(cond'[key'[h]]) : cond'[key'[h]][i] = h
    <3>1. pc[h] = Parked /\ h # w /\ key'[h] = key[h] /\ key[h] \in Keys
      BY <2>4, <1>4, <1>7 DEF TypeOK
    <3>2. PICK n \in 1 .. Len(cond[key[h]]) : cond[key[h]][n] = h
      BY <3>1 DEF ListsWaiters
    <3>3. CASE key[h] = k
      <4>1. n # 1
        BY <3>1, <3>2, <3>3, <1>5
      <4>2. n - 1 \in 1 .. Len(cond'[k]) /\ cond'[k][n - 1] = h
        BY <4>1, <3>2, <3>3, <1>1, <1>4, <1>5
      <4> QED BY <4>2, <3>1, <3>3
    <3>4. CASE key[h] # k
      BY <3>1, <3>2, <3>4, <1>4
    <3> QED BY <3>3, <3>4
  <2> QED BY <2>2, <2>3, <2>4 DEF ListsWaiters
<1> QED BY <1>8, <1>11, <1>12, <1>13

(* Every step keeps the invariant. *)
LEMMA StepInvariant == IInv /\ [Next]_vars => IInv'
<1> SUFFICES ASSUME IInv, [Next]_vars PROVE IInv'
  OBVIOUS
<1>1. CASE UNCHANGED vars
  BY <1>1 DEF vars, IInv, TypeOK, MutualExclusion, RefCounts, ListsWaiters, Owns, Waits
<1>2. CASE Next
  BY <1>2, LockNewInvariant, LockWaitInvariant, LockReturnInvariant,
     UnlockDeleteInvariant, UnlockSignalInvariant DEF Next, Unlock
<1> QED BY <1>1, <1>2

(* What the failover and bond inbounds rely on: for any keys and any       *)
(* goroutines, kmutex lets at most one goroutine own a key, never strands  *)
(* a parked one, and keeps a map entry exactly while a key is in use.      *)
THEOREM KmutexSafety ==
  Spec => [](TypeOK /\ MutualExclusion /\ NoneStranded /\ RefCounts)
<1>2. IInv => TypeOK /\ MutualExclusion /\ NoneStranded /\ RefCounts
  <2> SUFFICES ASSUME IInv, NEW g \in Goroutines, pc[g] = Parked
               PROVE  \E h \in Goroutines : Owns(h, key[g])
    BY DEF IInv, NoneStranded, ListsWaiters
  <2>1. key[g] \in Keys /\ cond[key[g]] # << >>
    BY DEF IInv, ListsWaiters, TypeOK
  <2> QED BY <2>1 DEF IInv, RefCounts
<1> QED BY InitInvariant, StepInvariant, <1>2, PTL DEF Spec

(* An entry of km.s counts exactly those who own its key or wait for it,   *)
(* so it leaves the map with its last user and the map does not grow with  *)
(* the sessions that have been.                                            *)
THEOREM EntriesCountUsers == Spec => []RefCounts
  BY KmutexSafety, PTL

-----------------------------------------------------------------------------
(* The refinement of KeyedLock. *)

Owners(k) == {g \in Goroutines : Owns(g, k)}
Waiters(k) == {g \in Goroutines : Waits(g, k)}

(* An idle goroutine owns nothing and waits for nothing. *)
LEMMA IdleIsFree ==
  ASSUME NEW g \in Goroutines, pc[g] = Idle
  PROVE  Abstract!Free(g)
  BY DEF Abstract!Free, Owns, Waits

LEMMA LockNewRefines ==
  ASSUME IInv, NEW g \in Goroutines, NEW k \in Keys, LockNew(g, k)
  PROVE  Abstract!Acquire(g, k)
<1> USE DEF LockNew
<1>1. Abstract!Free(g)
  BY IdleIsFree
<1>2. Owners(k) = {}
  BY NoEntryNoOwner DEF IInv, Owners
<1>3. \A j \in Keys : Owners(j)' = IF j = k THEN {g} ELSE Owners(j)
  BY <1>2 DEF Owners, Owns, IInv, TypeOK
<1>4. \A j \in Keys : Waiters(j)' = Waiters(j)
  BY DEF Waiters, Waits, IInv, TypeOK
<1> QED BY <1>1, <1>2, <1>3, <1>4, Zenon DEF Abstract!Acquire, Owners, Waiters

LEMMA LockWaitRefines ==
  ASSUME IInv, NEW g \in Goroutines, NEW k \in Keys, LockWait(g, k)
  PROVE  Abstract!Block(g, k)
<1> USE DEF LockWait
<1>1. Abstract!Free(g)
  BY IdleIsFree
<1>2. Owners(k) # {}
  <2>1. ref[k] # 0
    BY DEF IInv, TypeOK
  <2> QED BY <2>1, NoEntryNoOwner DEF IInv, Owners
<1>3. \A j \in Keys : Owners(j)' = Owners(j)
  BY DEF Owners, Owns, IInv, TypeOK
<1>4. \A j \in Keys : Waiters(j)' = IF j = k THEN Waiters(k) \union {g} ELSE Waiters(j)
  BY Zenon DEF Waiters, Waits, IInv, TypeOK
<1> QED BY <1>1, <1>2, <1>3, <1>4, Zenon DEF Abstract!Block, Owners, Waiters

(* A woken goroutine owns the key already: its return is a stuttering step. *)
LEMMA LockReturnRefines ==
  ASSUME IInv, NEW g \in Goroutines, LockReturn(g)
  PROVE  UNCHANGED Abstract!klVars
<1>1. \A j \in Keys : Owners(j)' = Owners(j) /\ Waiters(j)' = Waiters(j)
  BY DEF LockReturn, Owners, Owns, Waiters, Waits, IInv, TypeOK
<1> QED BY <1>1 DEF Abstract!klVars, Owners, Waiters

LEMMA UnlockDeleteRefines ==
  ASSUME IInv, NEW g \in Goroutines, UnlockDelete(g)
  PROVE  Abstract!HandOver(g, key[g])
<1> DEFINE k == key[g]
<1>1. k \in Keys /\ Len(cond[k]) \in Nat /\ Owns(g, k)
  BY DEF IInv, TypeOK, UnlockDelete, Owns
<1>2. Owners(k) = {g}
  BY <1>1 DEF IInv, MutualExclusion, Owners
<1>3. Waiters(k) = {}
  <2>1. ref[k] = Len(cond[k]) + 1 /\ ref[k] = 1
    BY <1>1 DEF IInv, RefCounts, UnlockDelete
  <2>2. Len(cond[k]) = 0
    BY <2>1, <1>1
  <2> QED BY <2>2 DEF IInv, ListsWaiters, Waiters, Waits
<1>4. \A j \in Keys : Owners(j)' = IF j = k THEN {} ELSE Owners(j)
  BY <1>1, <1>2 DEF Owners, Owns, UnlockDelete, IInv, TypeOK
<1>5. \A j \in Keys : Waiters(j)' = Waiters(j)
  BY DEF Waiters, Waits, UnlockDelete, IInv, TypeOK
<1> QED BY <1>1, <1>2, <1>3, <1>4, <1>5, Zenon DEF Abstract!HandOver, Owners, Waiters

LEMMA UnlockSignalRefines ==
  ASSUME IInv, NEW g \in Goroutines, UnlockSignal(g)
  PROVE  Abstract!HandOver(g, key[g])
<1> DEFINE k == key[g]
           w == Head(cond[k])
<1>1. k \in Keys /\ cond[k] \in Seq(Goroutines) /\ Len(cond[k]) \in Nat /\ Owns(g, k)
  BY DEF IInv, TypeOK, UnlockSignal, Owns
<1>2. Owners(k) = {g}
  BY <1>1 DEF IInv, MutualExclusion, Owners
<1>3. cond[k] # << >>
  <2>1. ref[k] = Len(cond[k]) + 1
    BY <1>1 DEF IInv, RefCounts
  <2> QED BY <2>1, <1>1 DEF UnlockSignal
<1>4. w = cond[k][1] /\ w \in Goroutines /\ Len(cond[k]) > 0
  BY <1>1, <1>3, WithoutHeadFacts
<1>5. Waits(w, k) /\ w # g /\ w \in Waiters(k)
  <2>1. Waits(w, k)
    BY <1>1, <1>4 DEF IInv, ListsWaiters
  <2> QED BY <2>1, <1>4 DEF Waits, Waiters, UnlockSignal
<1>6. /\ pc' = [h \in Goroutines |-> IF h = g THEN Idle ELSE IF h = w THEN Woken ELSE pc[h]]
      /\ key' = key
  BY <1>3 DEF UnlockSignal, Signalled
<1>7. \A j \in Keys : Owners(j)' = IF j = k THEN {w} ELSE Owners(j)
  BY <1>1, <1>2, <1>4, <1>5, <1>6 DEF Owners, Owns, Waits, IInv, TypeOK
<1>8. \A j \in Keys : Waiters(j)' = IF j = k THEN Waiters(k) \ {w} ELSE Waiters(j)
  BY <1>1, <1>4, <1>5, <1>6 DEF Waiters, Waits, UnlockSignal, IInv, TypeOK
<1> DEFINE own == [j \in Keys |-> {h \in Goroutines : Owns(h, j)}]
           wait == [j \in Keys |-> {h \in Goroutines : Waits(h, j)}]
<1>9. own[k] = {g} /\ w \in wait[k]
  BY <1>1, <1>2, <1>5, Zenon DEF Owners, Waiters
<1>10. own' = [own EXCEPT ![k] = {w}]
  BY <1>1, <1>7, Zenon DEF Owners
<1>11. wait' = [wait EXCEPT ![k] = wait[k] \ {w}]
  BY <1>1, <1>8, Zenon DEF Waiters
<1> HIDE DEF k, w
<1> QED BY <1>9, <1>10, <1>11, Zenon DEF Abstract!HandOver, k

(* The code implements the lock that its users are written against: every  *)
(* critical section of km.l is a step of KeyedLock, or invisible to it.    *)
THEOREM KmutexRefinement == Spec => ImplementsKeyedLock
<1>1. Init => Abstract!Init
  BY DEF Init, Abstract!Init, Owns, Waits
<1>2. IInv /\ [Next]_vars => [Abstract!Next]_(Abstract!klVars)
  <2> SUFFICES ASSUME IInv, [Next]_vars PROVE [Abstract!Next]_(Abstract!klVars)
    OBVIOUS
  <2>1. CASE UNCHANGED vars
    BY <2>1 DEF vars, Abstract!klVars, Owns, Waits
  <2>2. ASSUME NEW g \in Goroutines, NEW k \in Keys, LockNew(g, k) \/ LockWait(g, k)
        PROVE  Abstract!Next
    BY <2>2, LockNewRefines, LockWaitRefines DEF Abstract!Next
  <2>3. ASSUME NEW g \in Goroutines, LockReturn(g)
        PROVE  UNCHANGED Abstract!klVars
    BY <2>3, LockReturnRefines
  <2>4. ASSUME NEW g \in Goroutines, Unlock(g)
        PROVE  Abstract!Next
    <3>1. key[g] \in Keys
      BY DEF IInv, TypeOK
    <3> QED BY <2>4, <3>1, UnlockDeleteRefines, UnlockSignalRefines DEF Unlock, Abstract!Next
  <2> QED BY <2>1, <2>2, <2>3, <2>4 DEF Next
<1> QED BY <1>1, <1>2, InitInvariant, StepInvariant, PTL DEF Spec, ImplementsKeyedLock, Abstract!Spec


-----------------------------------------------------------------------------
(* The goroutines around a session of the failover inbound: who can wait   *)
(* for whom in a circle (OnlyCloseCrosses), and that the places by which   *)
(* FailoverLocks tells who holds a lock never let two into what a lock     *)
(* protects (LocksExclude).                                                *)
CallPlaces == {"call", "io", "await", "check", "make", "select", "wait", "done"}
ClosePlaces == {"closer", "onClose", "delete"}
HandlerPlaces == {"handler", "lookup", "shut", "lock", "restore", "kept", "done"}

(* A goroutine is where its code takes it. *)
InPlace ==
  /\ DOMAIN place = Procs
  /\ \A p \in Users : place[p] \in CallPlaces
  /\ place[Closer] \in CallPlaces \union ClosePlaces
  /\ \A h \in Handlers : place[h] \in HandlerPlaces

(* c.mtx has many readers or one writer, awaitMtx and the session's key    *)
(* have one holder.                                                        *)
LocksExclude ==
  /\ \A h \in Handlers, p \in Callers : ~ (At(h, {"restore"}) /\ HoldsRead(p))
  /\ \A p, q \in Callers : HoldsAwait(p) /\ HoldsAwait(q) => p = q
  /\ \A p, q \in Procs : HoldsSession(p) /\ HoldsSession(q) => p = q

LocksInv == InPlace /\ LocksExclude

-----------------------------------------------------------------------------
(* Read, Write, the end of Close and awaitConn.  Only LockAwait enters     *)
(* what awaitMtx protects, only RLock what c.mtx does.                     *)
LEMMA CallStep ==
  ASSUME LocksInv, NEW p \in Callers, Call(p)
  PROVE  LocksInv'
<1>1. /\ p \in Procs /\ p \notin Handlers /\ DOMAIN place = Procs
      /\ p \in Users \/ p = Closer
  BY RolesAssumption DEF LocksInv, InPlace, Callers, Procs
<1>2. PICK to \in CallPlaces :
        /\ place' = [place EXCEPT ![p] = to]
        /\ place[p] \in CallPlaces
        /\ to \in {"check", "make", "select", "wait"} => HoldsAwait(p) \/ CanLockAwait
        /\ to = "io" => CanRLock
  BY DEF Call, RLock, Done, SessionClosed, Fails, LockAwait,
         CheckErr, CheckReplaced, CheckSame,
         MakeAwait, Select, Wake, Expire, Goto, At, CallPlaces,
         HoldsAwait
<1>3. DOMAIN place' = Procs /\ place'[p] = to /\ \A q \in Procs \ {p} : place'[q] = place[q]
  BY <1>1, <1>2
<1>4. InPlace'
  BY <1>1, <1>2, <1>3, RolesAssumption DEF LocksInv, InPlace, Callers, Procs
<1>5. LocksExclude'
  <2>1. \A h \in Handlers, q \in Callers : ~ (At(h, {"restore"}) /\ HoldsRead(q))'
    BY <1>1, <1>2, <1>3 DEF LocksInv, LocksExclude, At, HoldsRead, CanRLock, CallPlaces,
                            Callers, Procs
  <2>2. \A q, r \in Callers : (HoldsAwait(q) /\ HoldsAwait(r))' => q = r
    BY <1>1, <1>2, <1>3 DEF LocksInv, LocksExclude, At, HoldsAwait, CanLockAwait,
                            Callers, Procs
  <2>3. \A q, r \in Procs : (HoldsSession(q) /\ HoldsSession(r))' => q = r
    BY <1>1, <1>2, <1>3 DEF LocksInv, LocksExclude, At, HoldsSession, CallPlaces
  <2> QED BY <2>1, <2>2, <2>3 DEF LocksExclude
<1> QED BY <1>4, <1>5 DEF LocksInv

(* connHandler and RestoreConn: c.mtx is locked when no one reads.         *)
LEMMA HandlerStep ==
  ASSUME LocksInv, NEW h \in Handlers, Handler(h)
  PROVE  LocksInv'
<1>1. h \in Procs /\ h \notin Callers /\ DOMAIN place = Procs
  BY RolesAssumption DEF LocksInv, InPlace, Callers, Procs
<1>2. PICK to \in HandlerPlaces :
        /\ place' = [place EXCEPT ![h] = to]
        /\ to \in {"lookup", "shut", "lock", "restore", "kept"} => HoldsSession(h) \/ CanLockSession
        /\ to = "restore" => CanLock
  BY DEF Handler, LockSession, NotFound, Found, StatusFails, Shut,
         Lock, Restored, RestoreFails,
         Goto, At, HandlerPlaces, HoldsSession
<1>3. DOMAIN place' = Procs /\ place'[h] = to /\ \A q \in Procs \ {h} : place'[q] = place[q]
  BY <1>1, <1>2
<1>4. InPlace'
  BY <1>1, <1>2, <1>3, RolesAssumption DEF LocksInv, InPlace, Callers, Procs
<1>5. LocksExclude'
  <2>1. \A g \in Handlers, q \in Callers : ~ (At(g, {"restore"}) /\ HoldsRead(q))'
    BY <1>1, <1>2, <1>3 DEF LocksInv, LocksExclude, At, HoldsRead, CanLock, Callers,
                            Procs
  <2>2. \A q, r \in Callers : (HoldsAwait(q) /\ HoldsAwait(r))' => q = r
    BY <1>1, <1>3 DEF LocksInv, LocksExclude, At, HoldsAwait, Callers, Procs
  <2>3. \A q, r \in Procs : (HoldsSession(q) /\ HoldsSession(r))' => q = r
    BY <1>1, <1>2, <1>3 DEF LocksInv, LocksExclude, At, HoldsSession, CanLockSession,
                            HandlerPlaces
  <2> QED BY <2>1, <2>2, <2>3 DEF LocksExclude
<1> QED BY <1>4, <1>5 DEF LocksInv

(* Close, up to the write of the empty frame. *)
LEMMA CloseStep ==
  ASSUME LocksInv, CloseRLock \/ CloseLockSession \/ CloseDelete
  PROVE  LocksInv'
<1>1. Closer \in Procs /\ Closer \in Callers /\ Closer \notin Handlers /\ DOMAIN place = Procs
  BY RolesAssumption DEF LocksInv, InPlace, Callers, Procs
<1>2. PICK to \in {"onClose", "delete", "call"} :
        /\ place' = [place EXCEPT ![Closer] = to]
        /\ to = "onClose" => CanRLock
        /\ to = "delete" => CanLockSession /\ HoldsRead(Closer)
  BY DEF CloseRLock, CloseLockSession, CloseDelete, Goto, At, HoldsRead
<1>3. DOMAIN place' = Procs /\ place'[Closer] = to /\ \A q \in Procs \ {Closer} : place'[q] = place[q]
  BY <1>1, <1>2
<1>4. InPlace'
  BY <1>1, <1>2, <1>3, RolesAssumption DEF LocksInv, InPlace, Callers, Procs, CallPlaces, ClosePlaces
<1>5. LocksExclude'
  <2>1. \A g \in Handlers, q \in Callers : ~ (At(g, {"restore"}) /\ HoldsRead(q))'
    BY <1>1, <1>2, <1>3 DEF LocksInv, LocksExclude, At, HoldsRead, CanRLock, Callers,
                            Procs
  <2>2. \A q, r \in Callers : (HoldsAwait(q) /\ HoldsAwait(r))' => q = r
    BY <1>1, <1>2, <1>3 DEF LocksInv, LocksExclude, At, HoldsAwait, Callers, Procs
  <2>3. \A q, r \in Procs : (HoldsSession(q) /\ HoldsSession(r))' => q = r
    BY <1>1, <1>2, <1>3 DEF LocksInv, LocksExclude, At, HoldsSession, CanLockSession
  <2> QED BY <2>1, <2>2, <2>3 DEF LocksExclude
<1> QED BY <1>4, <1>5 DEF LocksInv

LEMMA LocksInvariance == LocksSpec => []LocksInv
<1>1. LocksInit => LocksInv
  BY RolesAssumption DEF LocksInit, LocksInv, InPlace, LocksExclude, Callers, Procs, At, HoldsRead,
     HoldsAwait, HoldsSession, CallPlaces, ClosePlaces, HandlerPlaces
<1>2. LocksInv /\ [LocksNext]_locksVars => LocksInv'
  <2> SUFFICES ASSUME LocksInv, [LocksNext]_locksVars PROVE LocksInv'
    OBVIOUS
  <2>1. CASE UNCHANGED locksVars \/ Break
    BY <2>1 DEF locksVars, Break, LocksInv, InPlace, LocksExclude, At, HoldsRead,
                HoldsAwait, HoldsSession
  <2> QED BY <2>1, CallStep, HandlerStep, CloseStep DEF LocksNext
<1> QED BY <1>1, <1>2, PTL DEF LocksSpec

-----------------------------------------------------------------------------
(* A goroutine that waits in a circle is not at a place where it runs. *)
LEMMA WaitingPlaces ==
  ASSUME NEW p, NEW q, WaitsFor(p, q)
  PROVE  place[p] \in {"call", "closer", "lock", "await", "handler", "onClose", "wait"}
BY DEF WaitsFor, At

(* In a circle someone waits to write-lock c.mtx. *)
LEMMA SomeoneLocks ==
  ASSUME NEW S \in SUBSET Procs, WaitForEachOther(S)
  PROVE  \E p \in S : place[p] = "lock"
<1>1. ASSUME NEW p \in S
      PROVE  \E q \in S : /\ WaitsFor(p, q)
                          /\ place[q] \in {"call", "closer", "lock", "await", "handler", "onClose", "wait"}
  BY WaitingPlaces DEF WaitForEachOther
<1>2. ASSUME NEW p \in S, place[p] # "await"
      PROVE  \E q \in S : place[q] = "lock"
  <2>1. PICK q \in S : /\ WaitsFor(p, q)
                       /\ place[q] \in {"call", "closer", "lock", "await", "handler", "onClose", "wait"}
    BY <1>1
  <2>2. CASE place[p] = "lock"
    BY <2>2
  <2>3. CASE place[p] # "lock"
    BY <1>2, <2>1, <2>3 DEF WaitsFor, At, HoldsSession, HoldsAwait
  <2> QED BY <2>2, <2>3
<1>3. ASSUME NEW p \in S, place[p] = "await"
      PROVE  \E q \in S : place[q] = "wait"
  BY <1>1, <1>3 DEF WaitsFor, At, HoldsAwait
<1>4. PICK p \in S : TRUE
  BY DEF WaitForEachOther
<1>5. CASE place[p] = "await"
  <2>1. PICK q \in S : place[q] = "wait"
    BY <1>3, <1>5
  <2> QED BY <1>2, <2>1
<1> QED BY <1>2, <1>4, <1>5

(* Goroutines wait for each other in a circle only if Close, inside        *)
(* onClose, meets a RestoreConn: who waits for c.mtx waits for a reader    *)
(* that waits itself, and the only reader that does is Close.              *)
THEOREM CirclesNeedClose == LocksSpec => []OnlyCloseCrosses
<1>1. LocksInv => OnlyCloseCrosses
  <2> SUFFICES ASSUME LocksInv, NEW S \in SUBSET Procs, WaitForEachOther(S) PROVE Crossed
    BY DEF OnlyCloseCrosses
  <2>1. PICK p \in S : place[p] = "lock"
    BY SomeoneLocks
  <2>2. PICK q \in S : WaitsFor(p, q) /\ \E r \in S : WaitsFor(q, r)
    BY DEF WaitForEachOther
  <2>3. place[q] = "onClose"
    BY <2>1, <2>2, WaitingPlaces DEF WaitsFor, At, HoldsRead
  <2>4. p \in Handlers /\ q = Closer
    BY <2>1, <2>3 DEF LocksInv, InPlace, Procs, Callers, CallPlaces, ClosePlaces, HandlerPlaces
  <2> QED BY <2>1, <2>3, <2>4 DEF Crossed, At
<1> QED BY <1>1, LocksInvariance, PTL

(* RestoreConn has the connection to itself, one goroutine at a time is in *)
(* awaitConn, and one handler, or the onClose of Close, has the session.   *)
THEOREM LocksKeepOthersOut == LocksSpec => []LocksExclude
<1>1. LocksInv => LocksExclude
  BY DEF LocksInv
<1> QED BY <1>1, LocksInvariance, PTL
=============================================================================
