----------------------- MODULE QueryMultiplexerProofs -----------------------
(***************************************************************************)
(* TypeOK, CalledAtMostOnce, RightAnswer and NoneForgotten for any number  *)
(* of queries, connections, ids and reads.  A query that has not been      *)
(* called back is in exactly one hand: one of its runs of exchangeAsync is *)
(* before its write, or it has one entry in m.queries (OneHand).  And      *)
(* while no id is reused too early, whoever still refers to an id, a write *)
(* or a request on the wire, finds there the entry of its own query or     *)
(* none (OwnEntry).  The last section is about the reuse probe.            *)
(***************************************************************************)
EXTENDS QueryMultiplexer, ReuseProbe, FiniteSetTheorems, TLAPS

(* What a leaf is tried with that names no prover of its own. *)
USE SMT, Zenon, Z3T(40), SMTT(40), ZenonT(120)

Run == [pc : {"off", "acquire", "register", "write", "over"}, first : BOOLEAN,
        conn : Links \cup {None}, created : BOOLEAN, id : Ids]

Types ==
  /\ epoch \in [Links -> Nat]
  /\ wire \subseteq [conn : Links, id : Ids, query : Queries]
  /\ queries \in [Ids -> Pending \cup {None}]
  /\ run \in [Queries -> [Runs -> Run]]
  /\ \A q \in Queries, n \in Runs : run[q][n].pc \in {"register", "write"} => run[q][n].conn \in Links
  /\ \A f \in fired : f.id \in Ids
  /\ calls \in [Queries -> Nat]
  /\ answer \in [Queries -> Queries \cup {None}]

(* The run n of the query will register it; the id i is the query's. *)
Waiting(q, n) == run[q][n].pc \in {"acquire", "register"}
Entry(q, i) == queries[i] # None /\ queries[i].query = q

(* The query is in one hand, and in none once it has been called back. *)
OneHand(q) ==
  /\ \A m, n \in Runs : Waiting(q, m) /\ Waiting(q, n) => m = n
  /\ \A i, j \in Ids : Entry(q, i) /\ Entry(q, j) => i = j
  /\ \A n \in Runs, i \in Ids : ~ (Waiting(q, n) /\ Entry(q, i))
  /\ calls[q] = 0 => (\E n \in Runs : Waiting(q, n)) \/ (\E i \in Ids : Entry(q, i))
  /\ calls[q] # 0 =>
       /\ calls[q] = 1
       /\ \A n \in Runs : ~ Waiting(q, n)
       /\ \A i \in Ids : ~ Entry(q, i)
  /\ answer[q] \in {q, None}

OwnEntry ==
  /\ \A q \in Queries, n \in Runs :
       At(q, n, "write") => queries[run[q][n].id] = None \/ Entry(q, run[q][n].id)
  /\ \A m \in wire : queries[m.id] = None \/ Entry(m.query, m.id)

IInv == Types /\ (~ reused => OwnEntry /\ \A q \in Queries : OneHand(q))

-----------------------------------------------------------------------------
(* NewRun and what Return leaves are runs. *)
LEMMA RunsAreRuns == NoRun("acquire") \in Run /\ NoRun("off") \in Run /\ NoRun("over") \in Run
BY IdSpaceAssumption DEF NoRun, Run, Ids

(* Before the first call of ExchangeAsync has gone anywhere. *)
LEMMA InitIInv == Init => IInv
<1> SUFFICES ASSUME Init PROVE IInv
  OBVIOUS
<1>1. \A q \in Queries : run[q] = <<NoRun("acquire"), NoRun("off")>>
  BY DEF Init, NewRun
<1>2. \A q \in Queries : run[q][1] = NoRun("acquire") /\ run[q][2] = NoRun("off")
  BY <1>1
<1>3. run \in [Queries -> [Runs -> Run]]
  <2>1. <<NoRun("acquire"), NoRun("off")>> \in [Runs -> Run]
    BY RunsAreRuns DEF Runs
  <2> QED
    BY <2>1 DEF Init, NewRun
<1>4. \A q \in Queries : Waiting(q, 1) /\ ~ Waiting(q, 2)
  BY <1>2 DEF Waiting, NoRun
<1>5. \A q \in Queries, n \in Runs : ~ At(q, n, "register") /\ ~ At(q, n, "write")
  BY <1>2 DEF At, NoRun, Runs
<1>6. Types
  BY <1>3, <1>5 DEF Init, Types, At
<1>7. \A q \in Queries : OneHand(q)
  BY <1>4 DEF Init, OneHand, Entry, Runs
<1>8. OwnEntry
  BY <1>5 DEF Init, OwnEntry
<1> QED
  BY <1>6, <1>7, <1>8 DEF IInv

(* What happens to one query is nothing to the others. *)
LEMMA Others ==
  ASSUME \A q \in Queries : OneHand(q), NEW q \in Queries, OneHand(q)',
         \A p \in Queries \ {q} :
           /\ \A n \in Runs : run'[p][n] = run[p][n]
           /\ \A i \in Ids : Entry(p, i)' <=> Entry(p, i)
           /\ calls'[p] = calls[p]
           /\ answer'[p] = answer[p]
  PROVE  \A p \in Queries : OneHand(p)'
<1> SUFFICES ASSUME NEW p \in Queries \ {q} PROVE OneHand(p)'
  OBVIOUS
<1>1. \A n \in Runs : Waiting(p, n)' <=> Waiting(p, n)
  BY DEF Waiting
<1> QED
  BY <1>1 DEF OneHand

(* The runs that a step may change without anyone losing a query: writes   *)
(* that are over.                                                          *)
SomeReturn ==
  /\ run' \in [Queries -> [Runs -> Run]]
  /\ \A q \in Queries, n \in Runs :
       run'[q][n] = run[q][n] \/ (At(q, n, "write") /\ run'[q][n].pc = "over")

LEMMA ReturnStep ==
  ASSUME Types, NEW q \in Queries, NEW n \in Runs, At(q, n, "write"), Return(q, n)
  PROVE  SomeReturn
<1>1. /\ run' \in [Queries -> [Runs -> Run]]
      /\ run'[q][n] = NoRun("over")
      /\ \A p \in Queries, m \in Runs : (p # q \/ m # n) => run'[p][m] = run[p][m]
  BY RunsAreRuns DEF Return, Types
<1>2. run'[q][n].pc = "over"
  BY <1>1 DEF NoRun
<1> QED
  BY <1>1, <1>2 DEF SomeReturn

(* A step that moves no query from hand to hand. *)
LEMMA SameHands ==
  ASSUME IInv, ~ reused, UNCHANGED <<queries, calls, answer, reused>>, SomeReturn,
         epoch' \in [Links -> Nat], fired' \subseteq fired,
         \A m \in wire' : \/ m \in wire
                          \/ /\ m \in [conn : Links, id : Ids, query : Queries]
                             /\ queries[m.id] = None \/ Entry(m.query, m.id)
  PROVE  IInv'
<1>1. Types'
  BY DEF IInv, Types, At, SomeReturn
<1>2. OwnEntry'
  BY DEF IInv, OwnEntry, At, Entry, SomeReturn
<1>3. \A q \in Queries, n \in Runs : Waiting(q, n)' <=> Waiting(q, n)
  BY DEF Waiting, At, SomeReturn
<1>4. \A q \in Queries : OneHand(q)'
  BY <1>3 DEF IInv, OneHand, Entry
<1> QED
  BY <1>1, <1>2, <1>4 DEF IInv

(* m.take. *)
LEMMA TakeStep ==
  ASSUME Types, NEW i \in Ids, take(i)
  PROVE  /\ queries' \in [Ids -> Pending \cup {None}]
         /\ queries'[i] = None
         /\ \A j \in Ids \ {i} : queries'[j] = queries[j]
         /\ \A q \in Queries, j \in Ids : Entry(q, j)' <=> (Entry(q, j) /\ j # i)
BY DEF Types, take, Entry

(* Whoever takes the entry of a query calls its callback. *)
LEMMA CompleteIInv ==
  ASSUME IInv, ~ reused, NEW q \in Queries, NEW i \in Ids, Entry(q, i), take(i),
         NEW a \in {q, None}, Callback(q, a), SomeReturn, UNCHANGED reused,
         epoch' \in [Links -> Nat], fired' \subseteq fired, wire' \subseteq wire
  PROVE  IInv'
<1>1. /\ queries' \in [Ids -> Pending \cup {None}]
      /\ queries'[i] = None
      /\ \A j \in Ids \ {i} : queries'[j] = queries[j]
      /\ \A p \in Queries, j \in Ids : Entry(p, j)' <=> (Entry(p, j) /\ j # i)
  BY TakeStep DEF IInv
<1>2. calls' \in [Queries -> Nat] /\ answer' \in [Queries -> Queries \cup {None}]
  BY DEF IInv, Types, Callback
<1>3. Types'
  <2>1. \A p \in Queries, n \in Runs :
          run'[p][n].pc \in {"register", "write"} => run'[p][n].conn \in Links
    BY DEF IInv, Types, At, SomeReturn
  <2> QED
    BY <1>1, <1>2, <2>1 DEF IInv, Types, SomeReturn
<1>4. OwnEntry'
  <2>1. \A p \in Queries, n \in Runs : At(p, n, "write")' => run'[p][n] = run[p][n] /\ run[p][n].id \in Ids
    BY DEF IInv, Types, Run, SomeReturn, At
  <2>2. \A m \in wire' : m.id \in Ids /\ m.query \in Queries /\ m \in wire
    BY DEF IInv, Types
  <2> QED
    BY <1>1, <2>1, <2>2 DEF IInv, OwnEntry, At
<1>5. \A p \in Queries, n \in Runs : Waiting(p, n)' <=> Waiting(p, n)
  BY DEF Waiting, At, SomeReturn
<1>6. OneHand(q)'
  <2>1. \A n \in Runs : ~ Waiting(q, n)'
    BY <1>5 DEF IInv, OneHand
  <2>2. \A j \in Ids : ~ Entry(q, j)'
    BY <1>1 DEF IInv, OneHand
  <2>3. calls[q] = 0 /\ calls'[q] = 1 /\ answer'[q] = a
    BY DEF IInv, Types, OneHand, Callback
  <2> QED
    BY <2>1, <2>2, <2>3 DEF OneHand
<1>7. ASSUME NEW p \in Queries \ {q} PROVE OneHand(p)'
  <2>1. calls'[p] = calls[p] /\ answer'[p] = answer[p]
    BY DEF IInv, Types, Callback
  <2>2. \A j \in Ids : Entry(p, j)' <=> Entry(p, j)
    BY <1>1 DEF Entry
  <2> QED
    BY <1>5, <2>1, <2>2 DEF IInv, OneHand
<1> QED
  BY <1>3, <1>4, <1>6, <1>7 DEF IInv

(* Whoever takes the entry of a query tries the query again. *)
LEMMA RetryIInv ==
  ASSUME IInv, ~ reused, NEW q \in Queries, NEW i \in Ids, Entry(q, i), take(i),
         NEW n \in Runs, NEW r \in Run, r.pc = "acquire", run' = [run EXCEPT ![q][n] = r],
         UNCHANGED <<epoch, wire, calls, answer, reused>>, fired' \subseteq fired
  PROVE  IInv'
<1>1. /\ queries' \in [Ids -> Pending \cup {None}]
      /\ queries'[i] = None
      /\ \A j \in Ids \ {i} : queries'[j] = queries[j]
      /\ \A p \in Queries, j \in Ids : Entry(p, j)' <=> (Entry(p, j) /\ j # i)
  BY TakeStep DEF IInv
<1>2. /\ run' \in [Queries -> [Runs -> Run]]
      /\ run'[q][n] = r
      /\ \A p \in Queries, m \in Runs : (p # q \/ m # n) => run'[p][m] = run[p][m]
  BY DEF IInv, Types
<1>3. Types'
  BY <1>1, <1>2 DEF IInv, Types, At
<1>4. OwnEntry'
  <2>1. \A p \in Queries, m \in Runs : At(p, m, "write")' => run'[p][m] = run[p][m] /\ run[p][m].id \in Ids
    BY <1>2 DEF IInv, Types, Run, At
  <2>2. \A m \in wire : m.id \in Ids /\ m.query \in Queries
    BY DEF IInv, Types
  <2> QED
    BY <1>1, <2>1, <2>2 DEF IInv, OwnEntry, At
<1>5. OneHand(q)'
  <2>1. \A m \in Runs : Waiting(q, m)' <=> m = n
    BY <1>2 DEF IInv, OneHand, Waiting
  <2>2. \A j \in Ids : ~ Entry(q, j)'
    BY <1>1 DEF IInv, OneHand
  <2>3. calls'[q] = 0 /\ answer'[q] \in {q, None}
    BY DEF IInv, OneHand
  <2> QED
    BY <2>1, <2>2, <2>3 DEF OneHand
<1>6. \A p \in Queries \ {q}, j \in Ids : Entry(p, j)' <=> Entry(p, j)
  BY <1>1 DEF Entry
<1>7. \A p \in Queries : OneHand(p)'
  BY <1>2, <1>5, <1>6, Others DEF IInv
<1> QED
  BY <1>3, <1>4, <1>7 DEF IInv

-----------------------------------------------------------------------------
(* exchangeAsync. *)

(* AcquireShared or register has failed: the run that had the query calls  *)
(* back and returns.                                                       *)
LEMMA GiveUpIInv ==
  ASSUME IInv, ~ reused, NEW q \in Queries, NEW n \in Runs, Waiting(q, n),
         Callback(q, None), Return(q, n), UNCHANGED <<epoch, wire, queries, fired, reused>>
  PROVE  IInv'
<1>1. /\ run' \in [Queries -> [Runs -> Run]]
      /\ run'[q][n] = NoRun("over")
      /\ \A p \in Queries, m \in Runs : (p # q \/ m # n) => run'[p][m] = run[p][m]
  BY RunsAreRuns DEF Return, IInv, Types
<1>2. run'[q][n].pc = "over"
  BY <1>1 DEF NoRun
<1>3. Types'
  <2>1. calls' \in [Queries -> Nat] /\ answer' \in [Queries -> Queries \cup {None}]
    BY DEF IInv, Types, Callback
  <2> QED
    BY <1>1, <1>2, <2>1 DEF IInv, Types, At
<1>4. OwnEntry'
  BY <1>1, <1>2 DEF IInv, OwnEntry, At, Entry
<1>5. calls[q] = 0 /\ calls'[q] = 1 /\ answer'[q] = None
  BY DEF IInv, Types, OneHand, Callback
<1>6. OneHand(q)'
  <2>1. \A m \in Runs : ~ Waiting(q, m)'
    BY <1>1, <1>2 DEF IInv, OneHand, Waiting
  <2>2. \A i \in Ids : ~ Entry(q, i)'
    BY DEF IInv, OneHand, Entry
  <2> QED
    BY <1>5, <2>1, <2>2 DEF OneHand
<1>7. \A p \in Queries : OneHand(p)'
  BY <1>1, <1>6, Others, Zenon DEF IInv, Types, Entry, Callback
<1> QED
  BY <1>3, <1>4, <1>7 DEF IInv

(* AcquireShared has returned a connection: the run keeps the query. *)
LEMMA AcquireIInv ==
  ASSUME IInv, ~ reused, NEW q \in Queries, NEW n \in Runs, NEW l \in Links, Acquire(q, n, l)
  PROVE  IInv'
<1>1. PICK r \in Run : r.pc = "register" /\ r.conn = l /\ run' = [run EXCEPT ![q][n] = r]
  <2>1. run[q][n] \in Run
    BY DEF IInv, Types
  <2>2. PICK b \in BOOLEAN : b = (link[l] = "fresh")
    BY Zenon
  <2> DEFINE r == [run[q][n] EXCEPT !.pc = "register", !.conn = l, !.created = b]
  <2>3. r \in Run /\ r.pc = "register" /\ r.conn = l
    BY <2>1, Zenon DEF Run
  <2>4. run' = [run EXCEPT ![q][n] = r]
    BY <2>2, ZenonT(120) DEF Acquire, IInv, Types
  <2> HIDE DEF r
  <2> QED
    BY <2>3, <2>4, Zenon
<1>2. Types
  BY DEF IInv
<1>3. /\ run' \in [Queries -> [Runs -> Run]]
      /\ run'[q][n] = r
      /\ \A p \in Queries, m \in Runs : (p # q \/ m # n) => run'[p][m] = run[p][m]
  BY <1>1, <1>2 DEF Types
<1>4. UNCHANGED <<epoch, wire, queries, fired, calls, answer, reused>>
  BY DEF Acquire, NoCallback
<1>5. Types'
  BY <1>1, <1>3, <1>4 DEF IInv, Types, At
<1>6. OwnEntry'
  <2>1. OwnEntry /\ wire' = wire /\ queries' = queries
    BY <1>4, Zenon DEF IInv
  <2>2. \A p \in Queries, m \in Runs :
          At(p, m, "write")' => At(p, m, "write") /\ run'[p][m] = run[p][m]
    BY <1>1, <1>3, Zenon DEF At
  <2>3. ASSUME NEW p \in Queries, NEW m \in Runs, At(p, m, "write")'
        PROVE  queries'[run'[p][m].id] = None \/ Entry(p, run[p][m].id)'
    <3>1. At(p, m, "write") /\ run'[p][m] = run[p][m]
      BY <2>2, <2>3, Zenon
    <3>2. queries[run[p][m].id] = None \/ Entry(p, run[p][m].id)
      BY <2>1, <3>1, Zenon DEF OwnEntry
    <3> QED
      BY <2>1, <3>1, <3>2, Zenon DEF Entry
  <2>4. \A m \in wire' : queries'[m.id] = None \/ Entry(m.query, m.id)'
    BY <2>1, Zenon DEF OwnEntry, Entry
  <2> QED
    BY <2>3, <2>4, Zenon DEF OwnEntry
<1>7. \A p \in Queries, m \in Runs : Waiting(p, m)' <=> Waiting(p, m)
  BY <1>1, <1>3 DEF Acquire, At, Waiting
<1>8. ASSUME NEW p \in Queries PROVE OneHand(p)'
  <2>1. OneHand(p) /\ calls' = calls /\ answer' = answer
    BY <1>4, Zenon DEF IInv
  <2>2. \A i \in Ids : Entry(p, i)' <=> Entry(p, i)
    BY <1>4, Zenon DEF Entry
  <2> QED
    BY <1>7, <2>1, <2>2, Zenon DEF OneHand
<1> QED
  BY <1>4, <1>5, <1>6, <1>8 DEF IInv

(* register: the query goes from the run to the entry, whose id nobody     *)
(* else refers to unless reused says so.                                   *)
LEMMA RegisterIInv ==
  ASSUME IInv, ~ reused, NEW q \in Queries, NEW n \in Runs, Register(q, n)
  PROVE  IInv'
<1> DEFINE new == [query |-> q, conn |-> run[q][n].conn, epoch |-> epoch[run[q][n].conn],
                   retry |-> n = 1 /\ RetryReadError /\ ~ run[q][n].created,
                   onCtx |-> TRUE, onConn |-> TRUE]
<1>1. PICK i \in Free : /\ queries' = [queries EXCEPT ![i] = new]
                        /\ run' = [run EXCEPT ![q][n].pc = "write", ![q][n].id = i]
                        /\ reused' = (reused \/ i \in Referenced)
  BY Zenon DEF Register
<1>2. UNCHANGED <<epoch, wire, fired, calls, answer>>
  BY DEF Register, NoCallback, poolVars
<1>3. i \in Ids /\ queries[i] = None
  BY DEF Free
<1>4. new \in Pending /\ new.query = q /\ new # None
  <2>1. run[q][n].conn \in Links /\ epoch[run[q][n].conn] \in Nat
    BY DEF Register, IInv, Types, At
  <2>2. new \in Pending
    BY <2>1 DEF Pending
  <2> QED
    BY <2>2, NoneAssumption, Zenon
<1>6. PICK r \in Run : r.pc = "write" /\ r.id = i /\ r.conn \in Links /\ run' = [run EXCEPT ![q][n] = r]
  <2> DEFINE r == [run[q][n] EXCEPT !.pc = "write", !.id = i]
  <2>1. run[q][n] \in Run /\ run[q][n].conn \in Links
    BY DEF IInv, Types, Register, At
  <2>2. r \in Run /\ r.pc = "write" /\ r.id = i /\ r.conn \in Links
    BY <1>3, <2>1, Zenon DEF Run
  <2>3. run' = [run EXCEPT ![q][n] = r]
    BY <1>1, Zenon DEF IInv, Types
  <2> HIDE DEF r
  <2> QED
    BY <2>2, <2>3, Zenon
<1> HIDE DEF new
<1>7. Types
  BY DEF IInv
<1>8. /\ run' \in [Queries -> [Runs -> Run]]
      /\ run'[q][n] = r
      /\ \A p \in Queries, m \in Runs : (p # q \/ m # n) => run'[p][m] = run[p][m]
  BY <1>6, <1>7 DEF Types
<1>9. /\ queries' \in [Ids -> Pending \cup {None}]
      /\ queries'[i] = new
      /\ \A j \in Ids \ {i} : queries'[j] = queries[j]
  BY <1>1, <1>3, <1>4, ZenonT(120) DEF IInv, Types
<1>10. Types'
  BY <1>2, <1>6, <1>8, <1>9 DEF IInv, Types, At
<1>11. ASSUME ~ reused' PROVE OwnEntry'
  <2>1. i \notin Referenced
    BY <1>1, <1>11, Zenon
  <2>2. \A p \in Queries, m \in Runs : At(p, m, "write") => run[p][m].id \in Ids \ {i}
    BY <2>1, <1>3 DEF Referenced, IInv, Types, Run
  <2>3. \A m \in wire : m.id \in Ids \ {i}
    BY <2>1, Zenon DEF Referenced, IInv, Types
  <2>4. \A p \in Queries, m \in Runs :
          At(p, m, "write")' => queries'[run'[p][m].id] = None \/ Entry(p, run[p][m].id)'
    <3> SUFFICES ASSUME NEW p \in Queries, NEW m \in Runs, At(p, m, "write")'
                 PROVE  queries'[run'[p][m].id] = None \/ Entry(p, run[p][m].id)'
      BY Zenon
    <3>1. CASE p = q /\ m = n
      BY <3>1, <1>4, <1>6, <1>8, <1>9, Zenon DEF Entry
    <3>2. CASE p # q \/ m # n
      <4>1. run'[p][m] = run[p][m] /\ At(p, m, "write")
        BY <3>2, <1>8, Zenon DEF At
      <4>2. queries'[run[p][m].id] = queries[run[p][m].id]
        BY <4>1, <2>2, <1>9, Zenon
      <4>3. queries[run[p][m].id] = None \/ Entry(p, run[p][m].id)
        BY <4>1, Zenon DEF IInv, OwnEntry
      <4> QED
        BY <4>1, <4>2, <4>3, Zenon DEF Entry
    <3> QED
      BY <3>1, <3>2, Zenon
  <2>5. ASSUME NEW m \in wire' PROVE queries'[m.id] = None \/ Entry(m.query, m.id)'
    <3>1. m \in wire /\ queries'[m.id] = queries[m.id]
      BY <2>3, <1>2, <1>9, Zenon
    <3> QED
      BY <3>1, Zenon DEF IInv, OwnEntry, Entry
  <2> QED
    BY <2>4, <2>5, Zenon DEF OwnEntry
<1>12. Waiting(q, n) /\ ~ Waiting(q, n)' /\ Entry(q, i)'
  BY <1>4, <1>6, <1>8, <1>9, ZenonT(120) DEF Register, At, Waiting, Entry
<1>13. OneHand(q)'
  <2>1. \A m \in Runs : ~ Waiting(q, m)'
    BY <1>8, <1>12, ZenonT(120) DEF IInv, OneHand, Waiting
  <2>2. \A j \in Ids : Entry(q, j)' => j = i
    BY <1>9, <1>12 DEF IInv, OneHand, Entry
  <2>3. calls'[q] = 0 /\ answer'[q] \in {q, None}
    BY <1>2, <1>12 DEF IInv, OneHand
  <2> QED
    BY <1>3, <1>12, <2>1, <2>2, <2>3, ZenonT(120) DEF OneHand
<1>14. \A p \in Queries \ {q}, j \in Ids : Entry(p, j)' <=> Entry(p, j)
  BY <1>3, <1>4, <1>9 DEF Entry
<1>15. \A p \in Queries : OneHand(p)'
  BY <1>2, <1>8, <1>13, <1>14, Others, Zenon DEF IInv
<1> QED
  BY <1>10, <1>11, <1>15 DEF IInv

(* The request is on the wire, under the id of the query's entry. *)
LEMMA WriteIInv ==
  ASSUME IInv, ~ reused, NEW q \in Queries, NEW n \in Runs, Write(q, n)
  PROVE  IInv'
<1> DEFINE m == [conn |-> run[q][n].conn, id |-> run[q][n].id, query |-> q]
<1>1. run[q][n] \in Run /\ run[q][n].conn \in Links
  BY DEF IInv, Types, Write, At
<1>2. m \in [conn : Links, id : Ids, query : Queries]
  BY <1>1, Zenon DEF Run
<1>3. queries[m.id] = None \/ Entry(m.query, m.id)
  BY Zenon DEF IInv, OwnEntry, Write
<1>4. wire' = wire \cup {m}
  BY DEF Write
<1> HIDE DEF m
<1>5. SomeReturn
  BY ReturnStep DEF Write, IInv
<1>6. UNCHANGED <<queries, calls, answer, reused, epoch, fired>>
  BY Zenon DEF Write, NoCallback, poolVars
<1> QED
  BY <1>2, <1>3, <1>4, <1>5, <1>6, SameHands, Zenon DEF IInv, Types

(* The write has failed: only the run that still finds the entry calls     *)
(* back or tries again.                                                    *)
LEMMA WriteFailsIInv ==
  ASSUME IInv, ~ reused, NEW q \in Queries, NEW n \in Runs, WriteFails(q, n)
  PROVE  IInv'
<1>1. PICK i \in Ids : i = run[q][n].id
  BY DEF IInv, Types, Run
<1>2. At(q, n, "write") /\ take(i) /\ UNCHANGED <<epoch, wire, fired, reused>>
  BY <1>1 DEF WriteFails
<1>3. Types /\ epoch' \in [Links -> Nat]
  BY <1>2 DEF IInv, Types
<1>4. queries[i] = None \/ Entry(q, i)
  BY <1>1, <1>2 DEF IInv, OwnEntry
<1>5. CASE queries[i] = None /\ NoCallback /\ Return(q, n)
  <2>1. queries' = queries
    BY <1>2, <1>3, <1>5 DEF take, Types
  <2>2. SomeReturn
    BY <1>2, <1>3, <1>5, ReturnStep
  <2> QED
    BY <1>2, <1>3, <1>5, <2>1, <2>2, SameHands DEF NoCallback
<1>6. CASE queries[i] # None /\ Callback(q, None) /\ Return(q, n)
  <2>1. SomeReturn
    BY <1>2, <1>3, <1>6, ReturnStep
  <2> QED
    BY <1>2, <1>3, <1>4, <1>6, <2>1, CompleteIInv
<1>7. CASE queries[i] # None /\ NoCallback
           /\ run' = [run EXCEPT ![q][n].pc = "acquire", ![q][n].first = FALSE]
  <2>1. PICK r \in Run : r.pc = "acquire" /\ run' = [run EXCEPT ![q][n] = r]
    <3> DEFINE r == [run[q][n] EXCEPT !.pc = "acquire", !.first = FALSE]
    <3>1. run[q][n] \in Run
      BY <1>3 DEF Types
    <3>2. r \in Run /\ r.pc = "acquire"
      BY <3>1, Zenon DEF Run
    <3>3. run' = [run EXCEPT ![q][n] = r]
      BY <1>3, <1>7, Zenon DEF Types
    <3> HIDE DEF r
    <3> QED
      BY <3>2, <3>3, Zenon
  <2> QED
    BY <1>2, <1>4, <1>7, <2>1, RetryIInv, Zenon DEF NoCallback
<1> QED
  BY <1>1, <1>5, <1>6, <1>7 DEF WriteFails

-----------------------------------------------------------------------------
(* The AfterFuncs and recvLoop. *)

(* An AfterFunc that starts leaves the entry where it is. *)
LEMMA FireIInv ==
  ASSUME IInv, ~ reused, NEW i \in Ids, FireContext(i) \/ FireConn(i)
  PROVE  IInv'
<1>1. queries[i] # None /\ queries[i] \in Pending
  BY DEF FireContext, FireConn, IInv, Types
<1>2. PICK p \in Pending : queries' = [queries EXCEPT ![i] = p] /\ p.query = queries[i].query
  <2> DEFINE c == [queries[i] EXCEPT !.onCtx = FALSE]
             d == [queries[i] EXCEPT !.onConn = FALSE]
  <2>1. c \in Pending /\ c.query = queries[i].query /\ d \in Pending /\ d.query = queries[i].query
    BY <1>1, Zenon DEF Pending
  <2>2. queries' = [queries EXCEPT ![i] = c] \/ queries' = [queries EXCEPT ![i] = d]
    BY DEF FireContext, FireConn, IInv, Types
  <2> HIDE DEF c, d
  <2> QED
    BY <2>1, <2>2
<1>3. p # None
  BY NoneAssumption
<1>4. UNCHANGED <<epoch, wire, run, calls, answer, reused>> /\ \A f \in fired' : f \in fired \/ f.id = i
  BY DEF FireContext, FireConn, NoCallback, poolVars
<1>5. queries' \in [Ids -> Pending \cup {None}] /\ \A j \in Ids \ {i} : queries'[j] = queries[j]
  BY <1>2 DEF IInv, Types
<1>6. \A j \in Ids : (queries'[j] = None <=> queries[j] = None) /\ queries'[j].query = queries[j].query
  BY <1>1, <1>2, <1>3, <1>5, Zenon DEF IInv, Types
<1>7. \A q \in Queries, j \in Ids : Entry(q, j)' <=> Entry(q, j)
  BY <1>6 DEF Entry
<1>8. Types'
  BY <1>4, <1>5, Zenon DEF IInv, Types, At
<1>9. OwnEntry'
  <2>1. \A q \in Queries, n \in Runs : run[q][n].id \in Ids
    BY DEF IInv, Types, Run
  <2>2. \A m \in wire : m.id \in Ids /\ m.query \in Queries
    BY Zenon DEF IInv, Types
  <2> QED
    BY <1>4, <1>6, <1>7, <2>1, <2>2, Zenon DEF IInv, OwnEntry, At
<1>10. \A q \in Queries : OneHand(q)'
  BY <1>4, <1>7 DEF IInv, OneHand, Waiting
<1> QED
  BY <1>8, <1>9, <1>10 DEF IInv

(* An AfterFunc that has started: without the entry it does nothing. *)
LEMMA FiredIInv ==
  ASSUME IInv, ~ reused, NEW f \in fired,
         FiredTooLate(f) \/ completeContextDone(f) \/ completeConnDone(f)
  PROVE  IInv'
<1>1. PICK i \in Ids : i = f.id
  BY Zenon DEF IInv, Types
<1>2. Types /\ UNCHANGED <<epoch, wire, reused>> /\ epoch' \in [Links -> Nat] /\ fired' \subseteq fired
  BY DEF IInv, Types, FiredTooLate, completeContextDone, completeConnDone, poolVars
<1>3. UNCHANGED run => SomeReturn
  BY <1>2 DEF Types, SomeReturn
<1>4. CASE FiredTooLate(f)
  BY <1>2, <1>3, <1>4, SameHands, Zenon DEF FiredTooLate, NoCallback
<1>5. CASE queries[i] # None /\ take(i) /\ UNCHANGED run /\ Callback(queries[i].query, None)
  <2>1. PICK q \in Queries : q = queries[i].query
    BY <1>2, <1>5 DEF Types, Pending
  <2>2. Entry(q, i) /\ Callback(q, None)
    BY <1>5, <2>1 DEF Entry
  <2> QED
    BY <1>2, <1>3, <1>5, <2>2, CompleteIInv, Zenon
<1>6. CASE queries[i] # None /\ take(i) /\ NoCallback
           /\ run' = [run EXCEPT ![queries[i].query][2] = NewRun]
  <2>1. PICK q \in Queries : q = queries[i].query
    BY <1>2, <1>6 DEF Types, Pending
  <2>2. Entry(q, i) /\ run' = [run EXCEPT ![q][2] = NewRun]
    BY <1>6, <2>1 DEF Entry
  <2>3. 2 \in Runs /\ NewRun \in Run /\ NewRun.pc = "acquire"
    BY RunsAreRuns, Zenon DEF Runs, NewRun, NoRun
  <2> QED
    BY <1>2, <1>6, <2>2, <2>3, RetryIInv, ZenonT(120) DEF NoCallback
<1>7. CASE completeContextDone(f)
  BY <1>1, <1>5, <1>7, ZenonT(120) DEF completeContextDone
<1>8. CASE completeConnDone(f)
  BY <1>1, <1>5, <1>6, <1>8 DEF completeConnDone
<1> QED
  BY <1>4, <1>7, <1>8

(* One more message has been read. *)
LEMMA ReadCounted ==
  ASSUME epoch \in [Links -> Nat], NEW l \in Links, epoch' = [epoch EXCEPT ![l] = @ + 1]
  PROVE  epoch' \in [Links -> Nat]
  OBVIOUS

(* A response finds the entry of the query it answers, or none. *)
LEMMA ReceiveIInv ==
  ASSUME IInv, ~ reused, NEW m \in wire, NEW again \in BOOLEAN, Receive(m.conn, m, again)
  PROVE  IInv'
<1>1. Types /\ UNCHANGED <<run, fired, reused>> /\ wire' \subseteq wire
  BY Zenon DEF IInv, Receive
<1>2. SomeReturn /\ epoch' \in [Links -> Nat]
  <2>1. SomeReturn
    BY <1>1, Zenon DEF Types, SomeReturn
  <2>2. m.conn \in Links
    BY <1>1, Zenon DEF Types
  <2> QED
    BY <1>1, <2>1, <2>2, ReadCounted, Zenon DEF Types, Receive
<1>3. PICK i \in Ids, q \in Queries : i = m.id /\ q = m.query
  BY <1>1 DEF Types
<1>4. queries[i] = None \/ Entry(q, i)
  BY <1>3, Zenon DEF IInv, OwnEntry
<1>5. take(i)
  BY <1>3 DEF Receive
<1>6. CASE queries[i] = None
  <2>1. UNCHANGED <<queries, calls, answer>>
    BY <1>1, <1>3, <1>5, <1>6 DEF Receive, NoCallback, take, Types
  <2> QED
    BY <1>1, <1>2, <2>1, SameHands, Zenon
<1>7. CASE queries[i] # None
  <2>1. Entry(q, i) /\ Callback(q, q)
    BY <1>3, <1>4, <1>7 DEF Receive, Entry
  <2> QED
    BY <1>1, <1>2, <1>5, <2>1, CompleteIInv, Zenon
<1> QED
  BY <1>6, <1>7, Zenon

-----------------------------------------------------------------------------
(* Every step keeps every query in one hand. *)
LEMMA NextIInv == ASSUME IInv, [Next]_vars PROVE IInv'
<1>1. CASE UNCHANGED vars
  <2>1. Types'
    BY <1>1, Zenon DEF vars, poolVars, IInv, Types
  <2>2. OwnEntry' <=> OwnEntry
    BY <1>1, Zenon DEF vars, OwnEntry, Entry, At
  <2>3. \A q \in Queries : OneHand(q)' <=> OneHand(q)
    BY <1>1 DEF vars, OneHand, Waiting, Entry
  <2> QED
    BY <1>1, <2>1, <2>2, <2>3, Zenon DEF vars, IInv
<1>2. CASE Next
  <2>1. ~ reused
    BY <1>2 DEF Next
  <2>2. CASE \E q \in Queries, n \in Runs : exchangeAsync(q, n)
    <3>1. PICK q \in Queries, n \in Runs : exchangeAsync(q, n)
      BY <2>2, Zenon
    <3>2. CASE AcquireFails(q, n) \/ RegisterFails(q, n)
      BY <2>1, <3>2, GiveUpIInv DEF AcquireFails, RegisterFails, At, Waiting, poolVars
    <3> QED
      BY <2>1, <3>1, <3>2, AcquireIInv, RegisterIInv, WriteIInv, WriteFailsIInv DEF exchangeAsync
  <2>3. CASE AfterFuncs
    BY <2>1, <2>3, FireIInv, FiredIInv DEF AfterFuncs
  <2>4. CASE \E m \in wire, again \in BOOLEAN : Receive(m.conn, m, again)
    BY <2>1, <2>4, ReceiveIInv
  <2>5. CASE \/ \E q \in Queries : ContextEnds(q)
             \/ \E l \in Links :
                  Establish(l) \/ Detach(l) \/ Signal(l) \/ ReceiveNothing(l) \/ ReceiveFails(l)
    <3>1. UNCHANGED <<queries, run, calls, answer, fired, reused>>
      BY <2>5, Zenon DEF ContextEnds, Establish, Detach, Signal, ReceiveNothing, ReceiveFails,
                                        NoCallback
    <3>2. epoch' \in [Links -> Nat] /\ wire' \subseteq wire
      <4>1. epoch \in [Links -> Nat]
        BY Zenon DEF IInv, Types
      <4>2. ASSUME NEW l \in Links, ReceiveNothing(l) PROVE epoch' \in [Links -> Nat]
        BY <4>1, <4>2, ReadCounted, Zenon DEF ReceiveNothing
      <4>3. ASSUME \/ \E q \in Queries : ContextEnds(q)
                   \/ \E l \in Links : Establish(l) \/ Detach(l) \/ Signal(l) \/ ReceiveFails(l)
            PROVE  epoch' = epoch
        BY <4>3, Zenon DEF poolVars, ContextEnds, Establish, Detach, Signal, ReceiveFails
      <4>4. wire' \subseteq wire
        BY <2>5, Zenon DEF ContextEnds, Establish, Detach, Signal, ReceiveNothing, ReceiveFails
      <4> QED
        BY <2>5, <4>1, <4>2, <4>3, <4>4, Zenon
    <3>3. SomeReturn
      BY <3>1 DEF IInv, Types, SomeReturn
    <3> QED
      BY <2>1, <3>1, <3>2, <3>3, SameHands, Zenon
  <2> QED
    BY <1>2, <2>2, <2>3, <2>4, <2>5 DEF Next
<1> QED
  BY <1>1, <1>2

(* The inductive invariant holds throughout. *)
LEMMA AlwaysIInv == Spec => []IInv
BY InitIInv, NextIInv, PTL DEF Spec

(* Whoever races for the entry of a query (recvLoop, the two AfterFuncs,   *)
(* the writer), its callback is called once at most.                       *)
THEOREM OneCallback == Spec => []CalledAtMostOnce
<1>1. IInv => CalledAtMostOnce
  BY DEF IInv, Types, OneHand, CalledAtMostOnce
<1> QED
  BY <1>1, AlwaysIInv, PTL

(* complete hands a response to the query it answers, however late,        *)
(* repeated or reordered the responses that recvLoop reads are.            *)
THEOREM AnswersAreRight == Spec => []RightAnswer
<1>1. IInv => RightAnswer
  BY Zenon DEF IInv, OneHand, RightAnswer
<1> QED
  BY <1>1, AlwaysIInv, PTL

(* No retry and no failure drops a query: exchangeAsync or m.queries has   *)
(* it until its callback is called.                                        *)
THEOREM NoQueryForgotten == Spec => []NoneForgotten
<1>1. IInv => NoneForgotten
  BY DEF IInv, OneHand, Waiting, Entry, NoneForgotten
<1> QED
  BY <1>1, AlwaysIInv, PTL

-----------------------------------------------------------------------------
(* The types: what IInv does not say of them. *)
PoolTypes ==
  /\ link \in [Links -> {"none", "fresh", "claimed", "detached", "done"}]
  /\ cause \in [Links -> {"none", "read", "write", "deadline", "closed"}]
  /\ epoch \in [Links -> 0 .. MaxReads]
  /\ receiver \in [Links -> {"off", "on", "over"}]

CallTypes ==
  /\ queryId \in Ids
  /\ ctx \in [Queries -> {"live", "done"}]
  /\ fired \subseteq [on : {"ctx", "conn"}, id : Ids, of : Queries \cup Links]

LEMMA InitTypes == Init => PoolTypes /\ CallTypes /\ reused \in BOOLEAN
<1> SUFFICES ASSUME Init PROVE PoolTypes /\ CallTypes /\ reused \in BOOLEAN
  OBVIOUS
<1>1. 0 \in Ids /\ 0 \in 0 .. MaxReads
  BY IdSpaceAssumption DEF Ids
<1>2. reused \in BOOLEAN
  BY Zenon DEF Init
<1> QED BY <1>1, <1>2 DEF Init, Pool!Init, PoolTypes, CallTypes

(* A connection of which MaxReads messages have been read is not read from *)
(* again: Reads counts them.                                               *)
LEMMA ReadsBound ==
  ASSUME epoch \in [Links -> 0 .. MaxReads], NEW l \in Links, Reads < MaxReads
  PROVE  epoch[l] + 1 \in 0 .. MaxReads
<1> DEFINE S == {p \in Links \X (1 .. MaxReads) : p[2] <= epoch[p[1]]}
<1>1. MaxReads \in Nat /\ epoch[l] \in 0 .. MaxReads
  BY IdSpaceAssumption
<1>2. IsFiniteSet(1 .. MaxReads) /\ Cardinality(1 .. MaxReads) = MaxReads
  BY <1>1, FS_Interval
<1>3. IsFiniteSet(S) /\ Cardinality(S) \in Nat
  <2>1. IsFiniteSet(Links \X (1 .. MaxReads)) /\ S \in SUBSET (Links \X (1 .. MaxReads))
    BY <1>2, LinksAssumption, FS_Product, Zenon
  <2> QED BY <2>1, FS_Subset, FS_CardinalityType
<1>4. ASSUME epoch[l] = MaxReads PROVE FALSE
  <2>1. {l} \X (1 .. MaxReads) \in SUBSET S
    BY <1>1, <1>4
  <2>2. Cardinality({l} \X (1 .. MaxReads)) = Cardinality({l}) * Cardinality(1 .. MaxReads)
    BY <1>2, FS_Product, FS_Singleton, Zenon
  <2>3. Cardinality({l}) = 1
    BY FS_Singleton, Zenon
  <2>4. Cardinality({l} \X (1 .. MaxReads)) = MaxReads
    BY <1>1, <1>2, <2>2, <2>3
  <2>5. Cardinality({l} \X (1 .. MaxReads)) <= Cardinality(S)
    BY <1>3, <2>1, FS_Subset
  <2> QED BY <1>1, <1>3, <2>4, <2>5 DEF Reads
<1> QED BY <1>1, <1>4

(* Invalidate ends the context of a connection, for a cause. *)
LEMMA InvalidateTypes ==
  ASSUME PoolTypes, NEW l \in Links, NEW why \in {"read", "write", "deadline"}, Invalidate(l, why)
  PROVE  /\ link' \in [Links -> {"none", "fresh", "claimed", "detached", "done"}]
         /\ cause' \in [Links -> {"none", "read", "write", "deadline", "closed"}]
  BY DEF PoolTypes, Invalidate, Pool!Remove, Pool!Current

LEMMA PoolTypesStep ==
  ASSUME IInv, PoolTypes, CallTypes, Next
  PROVE  PoolTypes'
<1>1. Types
  BY DEF IInv
<1>2. ASSUME NEW q \in Queries, NEW n \in Runs, exchangeAsync(q, n) PROVE PoolTypes'
  <2>1. ASSUME NEW l \in Links, Acquire(q, n, l) PROVE PoolTypes'
    BY <2>1 DEF PoolTypes, Acquire, Pool!Claim
  <2>2. CASE WriteFails(q, n)
    <3>1. run[q][n].conn \in Links
      BY <1>1, <2>2 DEF Types, WriteFails, At
    <3>2. Invalidate(run[q][n].conn, "write") /\ UNCHANGED <<epoch, receiver>>
      BY <2>2 DEF WriteFails
    <3> QED BY <3>1, <3>2, InvalidateTypes DEF PoolTypes
  <2>3. CASE AcquireFails(q, n) \/ RegisterFails(q, n) \/ Register(q, n) \/ Write(q, n)
    <3>1. UNCHANGED poolVars
      BY <2>3 DEF AcquireFails, RegisterFails, Register, Write
    <3> QED BY <3>1 DEF PoolTypes, poolVars
  <2> QED BY <1>2, <2>1, <2>2, <2>3 DEF exchangeAsync
<1>3. CASE AfterFuncs
  <2>1. ASSUME NEW f \in fired, completeContextDone(f) PROVE PoolTypes'
    <3>1. f.id \in Ids
      BY <1>1, Zenon DEF Types
    <3>2. queries[f.id].conn \in Links
      BY <1>1, <2>1, <3>1, Zenon DEF Types, completeContextDone, Pending
    <3>3. /\ Invalidate(queries[f.id].conn, "deadline") \/ UNCHANGED <<link, cause>>
          /\ UNCHANGED <<epoch, receiver>>
      BY <2>1, Zenon DEF completeContextDone
    <3> QED BY <3>2, <3>3, InvalidateTypes DEF PoolTypes
  <2>2. ASSUME UNCHANGED poolVars PROVE PoolTypes'
    BY <2>2, Zenon DEF PoolTypes, poolVars
  <2>3. ASSUME NEW f \in fired, FiredTooLate(f) \/ completeConnDone(f) PROVE UNCHANGED poolVars
    BY <2>3 DEF FiredTooLate, completeConnDone
  <2>4. ASSUME NEW i \in Ids, FireContext(i) \/ FireConn(i) PROVE UNCHANGED poolVars
    BY <2>4, Zenon DEF FireContext, FireConn
  <2> QED BY <1>3, <2>1, <2>2, <2>3, <2>4, Zenon DEF AfterFuncs
<1>4. ASSUME NEW l \in Links, Establish(l) \/ Detach(l) \/ Signal(l) PROVE PoolTypes'
  BY <1>4 DEF PoolTypes, Establish, Detach, Signal, Pool!Establish, Pool!Detach, Pool!Signal
<1>5. ASSUME NEW l \in Links, ReceiveFails(l) PROVE PoolTypes'
  <2>1. Invalidate(l, "read") /\ receiver' = [receiver EXCEPT ![l] = "over"] /\ UNCHANGED epoch
    BY <1>5 DEF ReceiveFails
  <2> QED BY <2>1, InvalidateTypes DEF PoolTypes
<1>6. ASSUME NEW l \in Links, Reads < MaxReads, epoch' = [epoch EXCEPT ![l] = @ + 1],
             UNCHANGED <<link, cause, receiver>>
      PROVE  PoolTypes'
  <2>1. epoch[l] + 1 \in 0 .. MaxReads
    BY <1>6, ReadsBound DEF PoolTypes
  <2> QED BY <1>6, <2>1 DEF PoolTypes
<1>7. ASSUME NEW l \in Links, ReceiveNothing(l) PROVE PoolTypes'
  BY <1>6, <1>7, Zenon DEF ReceiveNothing
<1>8. ASSUME NEW m \in wire, NEW again \in BOOLEAN, Receive(m.conn, m, again) PROVE PoolTypes'
  <2>1. m.conn \in Links
    BY <1>1, Zenon DEF Types
  <2> QED BY <1>6, <1>8, <2>1, Zenon DEF Receive
<1>9. ASSUME NEW q \in Queries, ContextEnds(q) PROVE PoolTypes'
  BY <1>9 DEF ContextEnds, PoolTypes, poolVars
<1> QED BY <1>2, <1>3, <1>4, <1>5, <1>7, <1>8, <1>9, Zenon DEF Next

(* register takes an id out of Free; an AfterFunc keeps the id of its entry. *)
LEMMA CallTypesStep ==
  ASSUME IInv, PoolTypes, CallTypes, reused \in BOOLEAN, Next
  PROVE  CallTypes' /\ reused' \in BOOLEAN
<1>1. Types
  BY DEF IInv
<1>2. ASSUME UNCHANGED <<queryId, ctx, reused>>, fired' \subseteq fired PROVE CallTypes' /\ reused' \in BOOLEAN
  BY <1>2 DEF CallTypes
<1>3. ASSUME NEW q \in Queries, NEW n \in Runs, exchangeAsync(q, n) PROVE CallTypes' /\ reused' \in BOOLEAN
  <2>1. CASE Register(q, n)
    <3>1. queryId' \in Ids /\ UNCHANGED <<ctx, fired>>
      BY <2>1 DEF Register, Free
    <3>2. reused' \in BOOLEAN
      <4>1. PICK i \in Free : reused' = (reused \/ i \in Referenced)
        BY <2>1, Zenon DEF Register
      <4> QED BY <4>1
    <3> QED BY <3>1, <3>2 DEF CallTypes
  <2>2. ASSUME NEW l \in Links, Acquire(q, n, l) PROVE UNCHANGED <<queryId, ctx, fired, reused>>
    BY <2>2 DEF Acquire
  <2>3. CASE AcquireFails(q, n) \/ RegisterFails(q, n) \/ Write(q, n) \/ WriteFails(q, n)
    BY <2>3, <1>2 DEF AcquireFails, RegisterFails, Write, WriteFails
  <2> QED BY <1>2, <1>3, <2>1, <2>2, <2>3 DEF exchangeAsync
<1>4. CASE AfterFuncs
  <2>1. ASSUME NEW i \in Ids, FireContext(i) \/ FireConn(i) PROVE CallTypes' /\ reused' \in BOOLEAN
    <3>1. queries[i] \in Pending
      BY <1>1, <2>1 DEF Types, FireContext, FireConn
    <3>2. queries[i].query \in Queries /\ queries[i].conn \in Links
      BY <3>1 DEF Pending
    <3>3. /\ UNCHANGED <<queryId, ctx, reused>>
          /\ \/ fired' = fired \cup {[on |-> "ctx", id |-> i, of |-> queries[i].query]}
             \/ fired' = fired \cup {[on |-> "conn", id |-> i, of |-> queries[i].conn]}
      BY <2>1, Zenon DEF FireContext, FireConn
    <3>4. fired' \subseteq [on : {"ctx", "conn"}, id : Ids, of : Queries \cup Links]
      BY <3>2, <3>3 DEF CallTypes
    <3> QED BY <3>3, <3>4 DEF CallTypes
  <2>2. ASSUME NEW f \in fired, FiredTooLate(f) \/ completeContextDone(f) \/ completeConnDone(f)
        PROVE  UNCHANGED <<queryId, ctx, reused>> /\ fired' \subseteq fired
    BY <2>2, Zenon DEF FiredTooLate, completeContextDone, completeConnDone
  <2> QED BY <1>2, <1>4, <2>1, <2>2, Zenon DEF AfterFuncs
<1>5. ASSUME NEW l \in Links, Establish(l) \/ Detach(l) \/ Signal(l) \/ ReceiveNothing(l) \/ ReceiveFails(l)
      PROVE  CallTypes' /\ reused' \in BOOLEAN
  BY <1>2, <1>5, Zenon DEF Establish, Detach, Signal, ReceiveNothing, ReceiveFails
<1>6. ASSUME NEW m \in wire, NEW again \in BOOLEAN, Receive(m.conn, m, again)
      PROVE  CallTypes' /\ reused' \in BOOLEAN
  BY <1>2, <1>6, Zenon DEF Receive
<1>7. ASSUME NEW q \in Queries, ContextEnds(q) PROVE CallTypes' /\ reused' \in BOOLEAN
  BY <1>7 DEF ContextEnds, CallTypes
<1> QED BY <1>3, <1>4, <1>5, <1>6, <1>7, Zenon DEF Next

(* Every id in use, in m.queryId, a run, an entry, a request or an         *)
(* AfterFunc, is one of the IdSpace ids, as m.queryId wraps around in      *)
(* register; the rest are the types of the other variables.                *)
THEOREM IdsStayInRange == Spec => []TypeOK
<1> DEFINE More == PoolTypes /\ CallTypes /\ reused \in BOOLEAN
<1>1. Init => More
  BY InitTypes
<1>2. IInv /\ More /\ [Next]_vars => More'
  <2> SUFFICES ASSUME IInv, More, [Next]_vars
               PROVE  PoolTypes' /\ CallTypes' /\ reused' \in BOOLEAN
    OBVIOUS
  <2>1. CASE UNCHANGED vars
    BY <2>1, Zenon DEF vars, poolVars, PoolTypes, CallTypes
  <2>2. CASE Next
    BY <2>2, PoolTypesStep, CallTypesStep, Zenon
  <2> QED BY <2>1, <2>2
<1>3. IInv /\ More => TypeOK
  BY Zenon DEF IInv, Types, PoolTypes, CallTypes, TypeOK, Run
<1> HIDE DEF More
<1> QED BY <1>1, <1>2, <1>3, AlwaysIInv, PTL DEF Spec

-----------------------------------------------------------------------------
(* The reuse probe: one probe at a time, and a Reset forgets, for any      *)
(* number of dispatchers, probes, lost connections and Resets.             *)

Current(p) == prober[p] = probeEpoch

(* ProbingMeansOneProbe is not inductive: a Reset makes a new epoch        *)
(* current, and no probe may be of that epoch already.                     *)
ProbeInv ==
  /\ ReuseTypeOK
  /\ \A p \in Probers : prober[p] # Idle => prober[p] <= probeEpoch
  /\ \A p, q \in Probers : Current(p) /\ Current(q) => p = q
  /\ reuseState = "probing" <=> \E p \in Probers : Current(p)

(* The types without the two flags. *)
TypesButFlags ==
  /\ reuseState \in Findings \cup {"probing"}
  /\ probeEpoch \in 0 .. MaxResets
  /\ demoteFailures \in Nat
  /\ prober \in [Probers -> 0 .. Idle]
  /\ dispatcher \in [Dispatchers -> {"ready", "start"}]
  /\ death \in [Deaths -> {"ready", "add", "demote", "clear"}]

(* A probe that is Idle is not current: Idle is no epoch. *)
LEMMA IdleIsNoEpoch ==
  ASSUME ProbeInv
  PROVE  probeEpoch # Idle /\ probeEpoch \in 0 .. Idle
  BY BoundsAssumption DEF ProbeInv, ReuseTypeOK, Idle

LEMMA ProbeInit == ReuseInit => ProbeInv
<1> SUFFICES ASSUME ReuseInit PROVE ProbeInv
  OBVIOUS
<1>1. TypesButFlags
  BY BoundsAssumption DEF ReuseInit, TypesButFlags, Findings, Idle
<1>2. recent \in BOOLEAN /\ resetting \in BOOLEAN
  BY Zenon DEF ReuseInit
<1>3. \A p \in Probers : prober[p] = Idle /\ ~ Current(p)
  BY BoundsAssumption DEF ReuseInit, Current, Idle
<1>4. reuseState # "probing"
  BY DEF ReuseInit
<1>5. ReuseTypeOK
  BY <1>1, <1>2, ZenonT(120) DEF ReuseTypeOK, TypesButFlags
<1> QED BY <1>3, <1>4, <1>5 DEF ProbeInv

LEMMA StartProbeStep ==
  ASSUME ProbeInv, NEW d \in Dispatchers, NEW p \in Probers, StartProbe(d, p)
  PROVE  ProbeInv'
<1> USE DEF ProbeInv, StartProbe
<1>1. ReuseTypeOK'
  BY IdleIsNoEpoch DEF ReuseTypeOK
<1>2. prober' = [prober EXCEPT ![p] = probeEpoch] /\ prober \in [Probers -> 0 .. Idle]
  BY DEF ReuseTypeOK
<1>3. \A q \in Probers : ~ Current(q)
  OBVIOUS
<1>4. \A q \in Probers : Current(q)' <=> q = p
  BY <1>2, <1>3 DEF Current
<1>5. \A q \in Probers : prober'[q] # Idle => prober'[q] <= probeEpoch'
  <2> TAKE q \in Probers
  <2>1. probeEpoch \in Int
    BY DEF ReuseTypeOK
  <2>2. CASE q = p
    BY <2>1, <2>2, <1>2
  <2>3. CASE q # p
    BY <2>3, <1>2
  <2> QED BY <2>2, <2>3
<1> QED BY <1>1, <1>4, <1>5, Zenon

(* Only the probe of the current epoch sets reuseState. *)
LEMMA FinishProbeStep ==
  ASSUME ProbeInv, NEW p \in Probers, NEW found \in Findings,
         FinishProbe(p, found)
  PROVE  ProbeInv'
<1> USE DEF ProbeInv, FinishProbe
<1>1. ReuseTypeOK'
  BY BoundsAssumption DEF ReuseTypeOK, Idle
<1>2. prober' = [prober EXCEPT ![p] = Idle] /\ prober \in [Probers -> 0 .. Idle]
  BY DEF ReuseTypeOK
<1>3. \A q \in Probers : Current(q)' <=> Current(q) /\ q # p
  BY <1>2, IdleIsNoEpoch DEF Current
<1>4. \A q \in Probers : prober'[q] # Idle => prober'[q] <= probeEpoch'
  BY <1>2
<1>5. reuseState' = "probing" <=> \E q \in Probers : Current(q)'
  <2>1. CASE Current(p)
    <3>1. reuseState' = found /\ found # "probing"
      BY <2>1 DEF Current, Findings
    <3> QED BY <2>1, <3>1, <1>3
  <2>2. CASE ~ Current(p)
    <3>1. reuseState' = reuseState
      BY <2>2 DEF Current
    <3> QED BY <2>2, <3>1, <1>3
  <2> QED BY <2>1, <2>2
<1> QED BY <1>1, <1>3, <1>4, <1>5, Zenon

(* No probe is of the epoch that a Reset begins. *)
LEMMA ResetStep ==
  ASSUME ProbeInv, Reset
  PROVE  ProbeInv'
<1> USE DEF ProbeInv, Reset
<1>1. ReuseTypeOK'
  <2>1. TypesButFlags'
    BY BoundsAssumption DEF ReuseTypeOK, TypesButFlags, Findings
  <2>2. (recent \in BOOLEAN /\ resetting \in BOOLEAN)'
    BY Zenon
  <2> QED BY <2>1, <2>2, Zenon DEF ReuseTypeOK, TypesButFlags
<1>2. ASSUME NEW q \in Probers
      PROVE  ~ Current(q)' /\ (prober'[q] # Idle => prober'[q] <= probeEpoch')
  <2>1. prober[q] \in Int /\ probeEpoch \in Int /\ probeEpoch < MaxResets
    BY BoundsAssumption DEF ReuseTypeOK, Idle
  <2>2. CASE prober[q] = Idle
    BY <2>1, <2>2, BoundsAssumption DEF Current, Idle
  <2>3. CASE prober[q] # Idle
    BY <2>1, <2>3 DEF Current
  <2> QED BY <2>2, <2>3
<1> QED BY <1>1, <1>2

(* The other steps leave the probes and the epoch alone, and probing too. *)
LEMMA OtherProbeSteps ==
  ASSUME ProbeInv, ReuseTypeOK', UNCHANGED <<prober, probeEpoch>>,
         reuseState' = "probing" <=> reuseState = "probing"
  PROVE  ProbeInv'
  BY DEF ProbeInv, Current

LEMMA DeathStep ==
  ASSUME ProbeInv, NEW c \in Deaths,
         NoteDeath(c) \/ CountDeath(c) \/ Demote(c) \/ ClearDeaths(c)
  PROVE  ProbeInv'
<1>1. ReuseTypeOK'
  <2> USE DEF ProbeInv, ReuseTypeOK, Findings
  <2>1. CASE NoteDeath(c)
    BY <2>1 DEF NoteDeath
  <2>2. CASE CountDeath(c)
    BY <2>2 DEF CountDeath
  <2>3. CASE Demote(c)
    BY <2>3, Zenon DEF Demote
  <2>4. CASE ClearDeaths(c)
    BY <2>4 DEF ClearDeaths
  <2> QED BY <2>1, <2>2, <2>3, <2>4, Zenon
<1>2. UNCHANGED <<prober, probeEpoch>> /\ (reuseState' = "probing" <=> reuseState = "probing")
  BY DEF NoteDeath, CountDeath, Demote, ClearDeaths
<1> QED BY <1>1, <1>2, OtherProbeSteps, Zenon

LEMMA ProbeStep == ProbeInv /\ [ReuseNext]_reuseVars => ProbeInv'
<1> SUFFICES ASSUME ProbeInv, [ReuseNext]_reuseVars PROVE ProbeInv'
  OBVIOUS
<1>1. ASSUME NEW d \in Dispatchers, dispatch(d) \/ DontProbe(d)
      PROVE  ProbeInv'
  <2>1. ReuseTypeOK'
    BY <1>1, Zenon DEF dispatch, DontProbe, ProbeInv, ReuseTypeOK
  <2> QED BY <1>1, <2>1, OtherProbeSteps, Zenon DEF dispatch, DontProbe
<1>2. CASE FinishReset \/ Elapse \/ UNCHANGED reuseVars
  <2>1. TypesButFlags'
    BY <1>2 DEF FinishReset, Elapse, reuseVars, ProbeInv, ReuseTypeOK, TypesButFlags
  <2>2. recent \in BOOLEAN /\ resetting \in BOOLEAN
    BY Zenon DEF ProbeInv, ReuseTypeOK
  <2>3. (recent \in BOOLEAN /\ resetting \in BOOLEAN)'
    BY <1>2, <2>2, Zenon DEF FinishReset, Elapse, reuseVars
  <2>4. ReuseTypeOK'
    BY <2>1, <2>3, Zenon DEF ReuseTypeOK, TypesButFlags
  <2> QED BY <1>2, <2>4, OtherProbeSteps, Zenon DEF FinishReset, Elapse, reuseVars
<1> QED BY <1>1, <1>2, StartProbeStep, FinishProbeStep, DeathStep, ResetStep DEF ReuseNext

(* However dispatchers, probes, Resets and lost connections interleave, at *)
(* most one probe of the current epoch runs, and reuseState says probing   *)
(* exactly while it does.                                                  *)
THEOREM OneProbeAtATime == ReuseSpec => [](ReuseTypeOK /\ ProbingMeansOneProbe)
<1>1. ProbeInv => ReuseTypeOK /\ ProbingMeansOneProbe
  <2> SUFFICES ASSUME ProbeInv PROVE ProbingMeansOneProbe
    BY DEF ProbeInv
  <2> DEFINE current == {p \in Probers : prober[p] = probeEpoch}
  <2>1. Cardinality(current) <= 1
    <3>1. CASE current = {}
      BY <3>1, FS_EmptySet
    <3>2. ASSUME NEW p \in current PROVE Cardinality(current) <= 1
      <4>1. current = {p}
        BY <3>2 DEF ProbeInv, Current
      <4>2. Cardinality({p}) = 1
        BY FS_Singleton
      <4> QED BY <4>1, <4>2
    <3> QED BY <3>1, <3>2
  <2>2. reuseState = "probing" <=> current # {}
    BY DEF ProbeInv, Current
  <2> HIDE DEF current
  <2>3. Cardinality(current) <= 1 /\ (reuseState = "probing" <=> current # {})
    BY <2>1, <2>2
  <2> QED BY <2>3, Zenon DEF ProbingMeansOneProbe, current
<1>2. ReuseInit => ProbeInv
  BY ProbeInit
<1> QED BY <1>1, <1>2, ProbeStep, PTL DEF ReuseSpec

(* The types of what dispatch, runReuseProbe and recordConnDeath share:    *)
(* demoteFailures, which is added to and cleared without probeAccess, is   *)
(* never negative, and the epoch counts the Resets.                        *)
THEOREM ProbeTypes == ReuseSpec => []ReuseTypeOK
<1>1. ReuseSpec => [](ReuseTypeOK /\ ProbingMeansOneProbe)
  BY OneProbeAtATime
<1> QED BY <1>1, PTL

(* What was found out before a Reset does not outlive it: the state turns  *)
(* to supported only when a probe of the current epoch ends.               *)
THEOREM ResetForgetsHolds == ReuseSpec => ResetForgets
<1> DEFINE A == reuseState' = "supported" /\ reuseState # "supported"
                  => \E p \in Probers : prober[p] = probeEpoch /\ prober'[p] = Idle
                                          /\ probeEpoch' = probeEpoch
<1>1. ProbeInv /\ [ReuseNext]_reuseVars => [A]_reuseVars
  <2> SUFFICES ASSUME ProbeInv, ReuseNext, reuseState' = "supported", reuseState # "supported"
               PROVE  \E p \in Probers : prober[p] = probeEpoch /\ prober'[p] = Idle
                                          /\ probeEpoch' = probeEpoch
    BY Zenon
  <2>1. PICK p \in Probers, found \in Findings : FinishProbe(p, found)
    BY Zenon DEF ReuseNext, dispatch, DontProbe, StartProbe, NoteDeath, CountDeath,
           Demote, ClearDeaths, Reset, FinishReset, Elapse
  <2>2. prober[p] = probeEpoch /\ prober'[p] = Idle /\ probeEpoch' = probeEpoch
    BY <2>1 DEF FinishProbe, ProbeInv, ReuseTypeOK
  <2> QED BY <2>2
<1>2. ReuseInit => ProbeInv
  BY ProbeInit
<1> QED BY <1>1, <1>2, ProbeStep, PTL DEF ReuseSpec, ResetForgets

=============================================================================
