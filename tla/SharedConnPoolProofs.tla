------------------------ MODULE SharedConnPoolProofs ------------------------
(***************************************************************************)
(* The safety invariants of SharedConnPool and its refinement of           *)
(* SharedLink, for any calls, any number of Resets and any number of       *)
(* dials.                                                                  *)
(*                                                                         *)
(* The inductive invariant ties the three records of the pool together: a  *)
(* state knows the dial under way and the connection it shares, a dial     *)
(* knows its state, a call knows its dial.  A connection whose context is  *)
(* not cancelled is the shared one of its state (DialsInv), and whoever    *)
(* was told that it was created has claimed it (CallsInv).                 *)
(***************************************************************************)
EXTENDS SharedConnPool, TLAPS

(* What a leaf is tried with that names no prover of its own. *)
USE SMT, Zenon, Z3T(40), SMTT(40), ZenonT(120)

State == [all : SUBSET Nat, shared : Nat, claimed : BOOLEAN, connecting : Nat, cancelled : BOOLEAN]

Dial ==
  [home : Nat, starter : Calls, stage : {"dialing", "install", "finish", "done"},
   err : {"none", "dial", "ctx", "closed"}, conn : {"none", "open", "dead"}, connDone : BOOLEAN]

Call ==
  [pc : {"acquire", "select", "holding", "over"}, at : Nat, created : BOOLEAN,
   result : {"none", "conn", "dial", "ctx", "closed"}, ctxDone : BOOLEAN]

(* What each variable is. *)
Types ==
  /\ states \in Seq(State)
  /\ cur \in Nat
  /\ dials \in Seq(Dial)
  /\ calls \in [Calls -> Call]
  /\ draining \in SUBSET Nat

UnderWay(d) == dials[d].stage \in {"dialing", "install"}

(* A state is the current one, which is not cancelled, or was replaced and *)
(* is cancelled by now or about to be.                                     *)
StatesInv ==
  /\ cur \in DOMAIN states \cup {None}
  /\ draining \subseteq DOMAIN states \ {cur}
  /\ \A s \in DOMAIN states : states[s].cancelled \/ s \in draining \/ s = cur
  /\ \A s \in DOMAIN states : states[s].cancelled => s # cur

(* A state tracks its shared connection and no other, shares none while a  *)
(* dial is under way, and has claimed only what it shares.                 *)
SharedInv(s) ==
  /\ states[s].all = {states[s].shared} \ {None}
  /\ states[s].claimed => states[s].shared # None
  /\ states[s].shared # None =>
       /\ states[s].shared \in DOMAIN dials
       /\ dials[states[s].shared].home = s
       /\ Installed(states[s].shared)
       /\ ~ dials[states[s].shared].connDone
  /\ states[s].connecting # None =>
       /\ states[s].connecting \in DOMAIN dials
       /\ dials[states[s].connecting].home = s
       /\ UnderWay(states[s].connecting)
       /\ states[s].shared = None

(* A dial under way is the one its state knows of; a dial that failed has  *)
(* left nothing open and says truly why; a connection that was installed   *)
(* is shared until its context is cancelled.                               *)
DialInv(d) ==
  /\ d \in 1 .. MaxDials
  /\ dials[d].home \in DOMAIN states
  /\ UnderWay(d) => states[dials[d].home].connecting = d
  /\ dials[d].stage = "dialing" => dials[d].conn = "none" /\ dials[d].err = "none"
  /\ ~ Installed(d) => ~ dials[d].connDone
  /\ Installed(d) /\ ~ dials[d].connDone => states[dials[d].home].shared = d
  /\ dials[d].conn # "none" => dials[d].err = "none"
  /\ dials[d].err = "ctx" => calls[dials[d].starter].ctxDone
  /\ dials[d].err = "closed" => dials[d].home # cur

(* A call that waits has a dial; one that was told that its connection was *)
(* created has claimed it; one that failed has a reason of its own.        *)
CallInv(c) ==
  /\ calls[c].pc = "select" => calls[c].at \in DOMAIN dials
  /\ calls[c].pc \in {"acquire", "select"} => ~ calls[c].created /\ calls[c].result = "none"
  /\ calls[c].pc = "holding" \/ calls[c].created =>
       calls[c].at \in DOMAIN dials /\ Installed(calls[c].at)
  /\ calls[c].created /\ states[dials[calls[c].at].home].shared = calls[c].at =>
       states[dials[calls[c].at].home].claimed
  /\ calls[c].result = "ctx" => calls[c].ctxDone
  /\ calls[c].result = "dial" =>
       calls[c].at \in DOMAIN dials /\ dials[calls[c].at].starter = c
  /\ calls[c].result = "closed" =>
       cur = None \/ (calls[c].at \in DOMAIN dials /\ dials[calls[c].at].home # cur)

IInv ==
  /\ Types
  /\ StatesInv
  /\ \A s \in DOMAIN states : SharedInv(s)
  /\ \A d \in DOMAIN dials : DialInv(d)
  /\ NoLeak
  /\ \A c \in Calls : CallInv(c)
  /\ CreatedOnce

(* What a connection is to the users of the pool, as in Link. *)
View(d) ==
  IF d \notin DOMAIN dials THEN "none"
  ELSE IF ~ Installed(d) THEN "none"
  ELSE IF dials[d].connDone \/ states[dials[d].home].cancelled THEN "done"
  ELSE IF dials[d].home # cur THEN "detached"
  ELSE IF states[cur].claimed THEN "claimed" ELSE "fresh"

(* A step that the users do not see, and one that they do. *)
Quiet == \A d \in 1 .. MaxDials : View(d)' = View(d)

Moves(d, to) == View(d)' = to /\ \A e \in 1 .. MaxDials \ {d} : View(e)' = View(e)

LinkStep ==
  \/ Quiet
  \/ \E d \in 1 .. MaxDials :
       \/ /\ View(d) = "none" /\ Moves(d, "fresh")
          /\ \A e \in 1 .. MaxDials : View(e) \notin {"fresh", "claimed"}
       \/ View(d) = "fresh" /\ Moves(d, "claimed")
       \/ View(d) \in {"fresh", "claimed"} /\ Moves(d, "done")
       \/ View(d) \in {"fresh", "claimed"} /\ Moves(d, "detached")
       \/ View(d) = "detached" /\ Moves(d, "done")

(* What is shown of every step. *)
StepOK == IInv' /\ LinkStep

-----------------------------------------------------------------------------
(* A sequence in which one element is replaced. *)
LEMMA Replaced ==
  ASSUME NEW T, NEW s \in Seq(T), NEW i \in DOMAIN s, NEW r \in T
  PROVE  /\ [s EXCEPT ![i] = r] \in Seq(T) /\ DOMAIN [s EXCEPT ![i] = r] = DOMAIN s
         /\ \A j \in DOMAIN s \ {i} : [s EXCEPT ![i] = r][j] = s[j]
         /\ [s EXCEPT ![i] = r][i] = r
  OBVIOUS

(* The types, as the proofs use them. *)
LEMMA TypeFacts ==
  ASSUME Types
  PROVE  /\ DOMAIN states = 1 .. Len(states) /\ Len(states) \in Nat
         /\ DOMAIN dials = 1 .. Len(dials) /\ Len(dials) \in Nat
         /\ \A s \in DOMAIN states : states[s] \in State
         /\ \A d \in DOMAIN dials : dials[d] \in Dial /\ dials[d].starter \in Calls
         /\ \A c \in Calls : calls[c] \in Call
<1>1. \A d \in DOMAIN dials : dials[d] \in Dial
  BY DEF Types
<1>2. \A d \in DOMAIN dials : dials[d].starter \in Calls
  BY <1>1 DEF Dial
<1> QED BY <1>1, <1>2 DEF Types

(* Steps of a call that leave the pool alone: such a step keeps the        *)
(* invariant if it keeps what concerns the call.                           *)
LEMMA OneCall ==
  ASSUME IInv, UNCHANGED <<states, cur, dials, draining>>, calls' \in [Calls -> Call],
         NEW c \in Calls,
         \A b \in Calls \ {c} : calls'[b] = calls[b],
         calls[c].ctxDone => calls'[c].ctxDone,
         calls'[c].created => calls[c].created /\ calls'[c].at = calls[c].at,
         CallInv(c)'
  PROVE  StepOK
<1>0. Types'
  BY DEF IInv, Types
<1>1. StatesInv'
  BY DEF IInv, StatesInv
<1>2. \A s \in DOMAIN states' : SharedInv(s)'
  BY DEF IInv, SharedInv, Installed, UnderWay
<1>3. \A d \in DOMAIN dials' : DialInv(d)'
  <2> SUFFICES ASSUME NEW d \in DOMAIN dials PROVE DialInv(d)'
    OBVIOUS
  <2>1. DialInv(d) /\ dials[d].starter \in Calls
    BY TypeFacts DEF IInv
  <2>2. calls[dials[d].starter].ctxDone => calls'[dials[d].starter].ctxDone
    BY <2>1
  <2> QED BY <2>1, <2>2 DEF DialInv, Installed, UnderWay
<1>4. NoLeak'
  BY Zenon DEF IInv, NoLeak
<1>5. \A b \in Calls : CallInv(b)'
  <2> SUFFICES ASSUME NEW b \in Calls, b # c PROVE CallInv(b)'
    BY Zenon
  <2>1. CallInv(b) /\ calls'[b] = calls[b]
    BY Zenon DEF IInv
  <2> QED BY <2>1, Zenon DEF CallInv, Installed
<1>6. CreatedOnce'
  BY DEF IInv, CreatedOnce
<1>7. LinkStep
  BY DEF LinkStep, Quiet, View, Installed
<1> QED BY <1>0, <1>1, <1>2, <1>3, <1>4, <1>5, <1>6, <1>7 DEF IInv, StepOK

(* acquireShared or collectShared tries again. *)
LEMMA CallGoesOn ==
  ASSUME IInv, UNCHANGED <<states, cur, dials, draining>>, NEW c \in Calls,
         calls[c].pc \in {"acquire", "select"}, Goto(c, "acquire")
  PROVE  StepOK
<1>1. calls \in [Calls -> Call] /\ calls[c] \in Call /\ CallInv(c)
  BY DEF IInv, Types
<1>2. calls' \in [Calls -> Call] /\ \A b \in Calls \ {c} : calls'[b] = calls[b]
  BY <1>1 DEF Goto, Call
<1>3. calls'[c] = [calls[c] EXCEPT !.pc = "acquire"]
  BY <1>1 DEF Goto
<1>4. CallInv(c)'
  BY <1>1, <1>3 DEF CallInv, Call, Installed
<1>5. calls'[c].ctxDone = calls[c].ctxDone /\ calls'[c].created = calls[c].created
  BY <1>1, <1>3 DEF Call
<1> QED BY <1>1, <1>2, <1>4, <1>5, OneCall, Zenon DEF CallInv

(* acquireShared or collectShared returns an error. *)
LEMMA CallFails ==
  ASSUME IInv, UNCHANGED <<states, cur, dials, draining>>, NEW c \in Calls,
         calls[c].pc \in {"acquire", "select"},
         NEW res \in {"ctx", "dial", "closed"}, Return(c, res),
         res = "ctx" => calls[c].ctxDone,
         res = "dial" => calls[c].at \in DOMAIN dials /\ dials[calls[c].at].starter = c,
         res = "closed" => cur = None \/ (calls[c].at \in DOMAIN dials /\ dials[calls[c].at].home # cur)
  PROVE  StepOK
<1>1. calls \in [Calls -> Call] /\ calls[c] \in Call /\ CallInv(c)
  BY DEF IInv, Types
<1>2. calls' \in [Calls -> Call] /\ \A b \in Calls \ {c} : calls'[b] = calls[b]
  BY <1>1, Zenon DEF Return, Call
<1>3. calls'[c] = [calls[c] EXCEPT !.pc = "over", !.result = res]
  BY <1>1, Zenon DEF Return
<1>4. CallInv(c)'
  BY <1>1, <1>3 DEF CallInv, Call, Installed
<1>5. calls'[c].ctxDone = calls[c].ctxDone /\ calls'[c].created = calls[c].created
  BY <1>1, <1>3 DEF Call
<1> QED BY <1>1, <1>2, <1>4, <1>5, OneCall, Zenon DEF CallInv

LEMMA AcquireClosedStep ==
  ASSUME IInv, NEW c \in Calls, AcquireClosed(c) PROVE StepOK
  BY CallFails DEF AcquireClosed

LEMMA CollectErrorStep ==
  ASSUME IInv, NEW c \in Calls, CollectError(c) PROVE StepOK
<1>1. calls[c].at \in DOMAIN dials /\ CallInv(c)
  BY DEF IInv, CallInv, CollectError
<1>2. PICK d \in DOMAIN dials : d = calls[c].at
  BY <1>1
<1>3. PICK e \in {"ctx", "dial", "closed"} : e = dials[d].err /\ DialInv(d)
  BY <1>2, TypeFacts, Zenon DEF IInv, Dial, CollectError
<1>4. CASE dials[d].starter = c
  BY <1>1, <1>2, <1>3, <1>4, CallFails DEF CollectError, DialInv
<1>5. CASE dials[d].starter # c
  BY <1>2, <1>5, CallGoesOn DEF CollectError
<1> QED BY <1>4, <1>5, Zenon

LEMMA CollectStaleStep ==
  ASSUME IInv, NEW c \in Calls, CollectStale(c) PROVE StepOK
<1>1. calls[c].at \in DOMAIN dials
  BY DEF IInv, CallInv, CollectStale
<1> QED BY <1>1, CallFails, Zenon DEF CollectStale

LEMMA CollectGoneStep ==
  ASSUME IInv, NEW c \in Calls, CollectGone(c) PROVE StepOK
  BY CallGoesOn DEF CollectGone

LEMMA SelectContextStep ==
  ASSUME IInv, NEW c \in Calls, SelectContext(c) PROVE StepOK
  BY CallFails DEF SelectContext

LEMMA SelectStateStep ==
  ASSUME IInv, NEW c \in Calls, SelectState(c) PROVE StepOK
<1>1. CASE cur = None
  BY <1>1, CallFails DEF SelectState
<1>2. CASE cur # None
  BY <1>2, CallGoesOn DEF SelectState
<1> QED BY <1>1, <1>2

(* A caller joins the dial under way. *)
LEMMA AcquireJoinStep ==
  ASSUME IInv, NEW c \in Calls, AcquireJoin(c) PROVE StepOK
<1>1. calls \in [Calls -> Call] /\ calls[c] \in Call /\ CallInv(c)
  BY DEF IInv, Types
<1>2. states[cur].connecting \in DOMAIN dials /\ states[cur].connecting \in Nat
  <2>1. cur \in DOMAIN states
    BY DEF IInv, StatesInv, AcquireJoin
  <2>2. states[cur].connecting \in DOMAIN dials
    BY <2>1 DEF IInv, SharedInv, AcquireJoin
  <2> QED BY <2>2, TypeFacts DEF IInv
<1>3. calls' \in [Calls -> Call] /\ \A b \in Calls \ {c} : calls'[b] = calls[b]
  BY <1>1, <1>2, Zenon DEF AcquireJoin, Call
<1>4. calls'[c] = [calls[c] EXCEPT !.pc = "select", !.at = states[cur].connecting]
  BY <1>1, Zenon DEF AcquireJoin
<1>5. CallInv(c)'
  BY <1>1, <1>2, <1>4 DEF CallInv, Call, Installed, AcquireJoin
<1>6. calls'[c].ctxDone = calls[c].ctxDone /\ calls'[c].created = calls[c].created
  BY <1>1, <1>4 DEF Call
<1> QED BY <1>1, <1>3, <1>5, <1>6, OneCall, Zenon DEF CallInv, AcquireJoin

(* A caller's context is done. *)
LEMMA CancelStep ==
  ASSUME IInv, NEW c \in Calls, Cancel(c) PROVE StepOK
<1>1. calls \in [Calls -> Call] /\ calls[c] \in Call /\ CallInv(c)
  BY DEF IInv, Types
<1>2. calls' \in [Calls -> Call] /\ \A b \in Calls \ {c} : calls'[b] = calls[b]
  BY <1>1, Zenon DEF Cancel, Call
<1>3. calls'[c] = [calls[c] EXCEPT !.ctxDone = TRUE]
  BY <1>1, Zenon DEF Cancel
<1>4. CallInv(c)'
  BY <1>1, <1>3 DEF CallInv, Call, Installed, Cancel
<1>5. calls'[c].ctxDone /\ calls'[c].created = calls[c].created /\ calls'[c].at = calls[c].at
  BY <1>1, <1>3 DEF Call
<1> QED BY <1>1, <1>2, <1>4, <1>5, OneCall DEF Cancel

-----------------------------------------------------------------------------
(* Steps that change a dial. *)

(* No call learns anything: one may return what it holds or try again. *)
CallsKept ==
  /\ calls' \in [Calls -> Call]
  /\ \A b \in Calls :
       /\ calls'[b].at = calls[b].at
       /\ calls'[b].created = calls[b].created
       /\ calls'[b].result = calls[b].result
       /\ calls'[b].ctxDone = calls[b].ctxDone
       /\ \/ calls'[b].pc \in {calls[b].pc, "over"}
          \/ calls'[b].pc = "acquire" /\ calls[b].pc \in {"acquire", "select"}

LEMMA GotoKeeps ==
  ASSUME IInv, NEW c \in Calls, NEW label, Goto(c, label),
         \/ label = "over"
         \/ label = "acquire" /\ calls[c].pc \in {"acquire", "select"}
  PROVE  CallsKept
<1>1. calls \in [Calls -> Call] /\ \A b \in Calls : calls[b] \in Call
  BY DEF IInv, Types
<1>2. calls' \in [Calls -> Call] /\ \A b \in Calls \ {c} : calls'[b] = calls[b]
  BY <1>1 DEF Goto, Call
<1>3. calls'[c] = [calls[c] EXCEPT !.pc = label]
  BY <1>1 DEF Goto
<1> QED BY <1>1, <1>2, <1>3 DEF CallsKept, Call

LEMMA SameKeeps ==
  ASSUME IInv, UNCHANGED calls
  PROVE  CallsKept
BY DEF IInv, Types, CallsKept

(* What concerns a call is kept, if its dial stays installed in its state, *)
(* and claimed as long as it is shared, and the call gets no further.      *)
LEMMA CallInvKept ==
  ASSUME NEW b \in Calls, CallInv(b), cur' = cur, DOMAIN dials \subseteq DOMAIN dials',
         \A e \in DOMAIN dials : /\ dials'[e].home = dials[e].home
                                 /\ dials'[e].starter = dials[e].starter
                                 /\ Installed(e) => Installed(e)',
         \A e \in DOMAIN dials : Installed(e) /\ states'[dials[e].home].shared = e =>
           /\ states[dials[e].home].shared = e
           /\ states[dials[e].home].claimed => states'[dials[e].home].claimed,
         calls'[b].pc = "select" => calls[b].pc = "select",
         calls'[b].pc = "holding" => calls[b].pc = "holding",
         calls'[b].pc \in {"acquire", "select"} => calls[b].pc \in {"acquire", "select"},
         calls'[b].at = calls[b].at, calls'[b].created = calls[b].created,
         calls'[b].result = calls[b].result, calls'[b].ctxDone = calls[b].ctxDone
  PROVE  CallInv(b)'
<1>1. PICK e : e = calls[b].at
  OBVIOUS
<1>2. /\ calls[b].pc = "holding" \/ calls[b].created => e \in DOMAIN dials /\ Installed(e)
      /\ calls[b].created /\ states[dials[e].home].shared = e => states[dials[e].home].claimed
      /\ calls[b].result = "dial" => e \in DOMAIN dials /\ dials[e].starter = b
      /\ calls[b].result = "closed" => cur = None \/ (e \in DOMAIN dials /\ dials[e].home # cur)
  BY <1>1, Zenon DEF CallInv
<1>3. calls'[b].pc = "holding" \/ calls'[b].created => e \in DOMAIN dials' /\ Installed(e)'
  BY <1>2, Zenon
<1>4. calls'[b].created /\ states'[dials'[e].home].shared = e => states'[dials'[e].home].claimed
  BY <1>2, Zenon
<1>5. /\ calls'[b].result = "dial" => e \in DOMAIN dials' /\ dials'[e].starter = b
      /\ calls'[b].result = "closed" => cur' = None \/ (e \in DOMAIN dials' /\ dials'[e].home # cur')
  BY <1>2
<1>6. /\ calls'[b].pc = "select" => calls'[b].at \in DOMAIN dials'
      /\ calls'[b].pc \in {"acquire", "select"} => ~ calls'[b].created /\ calls'[b].result = "none"
      /\ calls'[b].result = "ctx" => calls'[b].ctxDone
  BY Zenon DEF CallInv
<1>7. calls'[b].at = e
  BY <1>1, Zenon
<1> QED BY <1>3, <1>4, <1>5, <1>6, <1>7, Zenon DEF CallInv

(* A step that changes one dial, not whether it is under way or installed. *)
LEMMA OneDial ==
  ASSUME IInv, UNCHANGED <<states, cur, draining>>, CallsKept,
         NEW d \in DOMAIN dials,
         dials' \in Seq(Dial), DOMAIN dials' = DOMAIN dials,
         \A e \in DOMAIN dials \ {d} : dials'[e] = dials[e],
         dials'[d].home = dials[d].home,
         dials'[d].starter = dials[d].starter,
         dials'[d].connDone = dials[d].connDone,
         UnderWay(d)' <=> UnderWay(d),
         Installed(d)' <=> Installed(d),
         DialInv(d)',
         \/ dials'[d].conn = "none"
         \/ dials'[d].stage = "install"
         \/ dials[d].conn # "none" /\ dials[d].stage # "install"
  PROVE  StepOK
<1>0. Types'
  BY DEF IInv, Types, CallsKept
<1>1. StatesInv'
  BY DEF IInv, StatesInv
<1>2. \A s \in DOMAIN states' : SharedInv(s)'
  <2> SUFFICES ASSUME NEW s \in DOMAIN states PROVE SharedInv(s)'
    OBVIOUS
  <2>1. SharedInv(s)
    BY DEF IInv
  <2>2. \A e \in DOMAIN dials : /\ dials'[e].home = dials[e].home
                                /\ dials'[e].connDone = dials[e].connDone
                                /\ Installed(e)' <=> Installed(e)
                                /\ UnderWay(e)' <=> UnderWay(e)
    BY ZenonT(120) DEF Installed, UnderWay
  <2> QED BY <2>1, <2>2 DEF SharedInv
<1>3. \A e \in DOMAIN dials' : DialInv(e)'
  <2> SUFFICES ASSUME NEW e \in DOMAIN dials, e # d PROVE DialInv(e)'
    OBVIOUS
  <2>1. DialInv(e) /\ dials[e].starter \in Calls
    BY TypeFacts DEF IInv
  <2>2. calls[dials[e].starter].ctxDone => calls'[dials[e].starter].ctxDone
    BY <2>1 DEF CallsKept
  <2> QED BY <2>1, <2>2 DEF DialInv, Installed, UnderWay
<1>4. NoLeak'
  <2> SUFFICES ASSUME NEW e \in DOMAIN dials, dials'[e].conn # "none", dials'[e].stage # "install"
               PROVE  e \in states[dials[e].home].all /\ dials[e].home \in {cur} \cup draining
    BY DEF NoLeak
  <2>1. dials[e].conn # "none" /\ dials[e].stage # "install"
    BY Zenon
  <2> QED BY <2>1 DEF IInv, NoLeak
<1>5. \A b \in Calls : CallInv(b)'
  <2> SUFFICES ASSUME NEW b \in Calls PROVE CallInv(b)'
    OBVIOUS
  <2>1. CallInv(b)
    BY DEF IInv
  <2>2. \A e \in DOMAIN dials : /\ dials'[e].home = dials[e].home
                                /\ dials'[e].starter = dials[e].starter
                                /\ Installed(e)' <=> Installed(e)
    BY DEF Installed
  <2>3. /\ calls'[b].pc = "select" => calls[b].pc = "select"
        /\ calls'[b].pc = "holding" => calls[b].pc = "holding"
        /\ calls'[b].pc \in {"acquire", "select"} => calls[b].pc \in {"acquire", "select"}
        /\ calls'[b].at = calls[b].at /\ calls'[b].created = calls[b].created
        /\ calls'[b].result = calls[b].result /\ calls'[b].ctxDone = calls[b].ctxDone
    BY DEF CallsKept
  <2> QED BY <2>1, <2>2, <2>3, CallInvKept, Zenon
<1>6. CreatedOnce'
  BY DEF IInv, CreatedOnce, CallsKept
<1>7. LinkStep
  <2> SUFFICES ASSUME NEW e \in 1 .. MaxDials PROVE View(e)' = View(e)
    BY Zenon DEF LinkStep, Quiet
  <2>1. e \in DOMAIN dials => /\ dials'[e].home = dials[e].home
                              /\ dials'[e].connDone = dials[e].connDone
                              /\ Installed(e)' <=> Installed(e)
    BY DEF Installed
  <2> QED BY <2>1, Zenon DEF View
<1> QED BY <1>0, <1>1, <1>2, <1>3, <1>4, <1>5, <1>6, <1>7 DEF IInv, StepOK

LEMMA DialFailsStep ==
  ASSUME IInv, NEW d \in DOMAIN dials, DialFails(d) PROVE StepOK
<1>1. dials \in Seq(Dial) /\ dials[d] \in Dial /\ DialInv(d)
  BY DEF IInv, Types
<1>2. PICK e \in {"dial", "ctx", "closed"} :
        /\ dials' = [dials EXCEPT ![d].stage = "install", ![d].err = e]
        /\ e = "ctx" => calls[dials[d].starter].ctxDone
        /\ e = "closed" => states[dials[d].home].cancelled
  BY Zenon DEF DialFails, DialCauses
<1>3. dials' \in Seq(Dial) /\ DOMAIN dials' = DOMAIN dials /\ \A f \in DOMAIN dials \ {d} : dials'[f] = dials[f]
  <2>1. PICK r \in Dial : r = [dials[d] EXCEPT !.stage = "install", !.err = e]
    BY <1>1, Zenon DEF Dial
  <2>2. dials' = [dials EXCEPT ![d] = r]
    BY <2>1, <1>2, Zenon
  <2> QED BY <1>1, <2>2
<1>4. dials'[d] = [dials[d] EXCEPT !.stage = "install", !.err = e]
  BY <1>1, <1>2
<1>5. /\ dials'[d].home = dials[d].home /\ dials'[d].starter = dials[d].starter
      /\ dials'[d].connDone = dials[d].connDone /\ dials'[d].conn = dials[d].conn
      /\ dials'[d].stage = "install" /\ dials'[d].err = e
  BY <1>1, <1>4 DEF Dial
<1>6. UNCHANGED <<states, cur, calls, draining>> /\ dials[d].stage = "dialing"
  BY DEF DialFails
<1>7. dials[d].home \in DOMAIN states /\ (states[dials[d].home].cancelled => dials[d].home # cur)
  BY <1>1 DEF IInv, StatesInv, DialInv
<1>8. DialInv(d)'
  BY <1>1, <1>2, <1>5, <1>6, <1>7 DEF DialInv, Installed, UnderWay
<1> QED BY <1>1, <1>3, <1>5, <1>6, <1>8, SameKeeps, OneDial DEF Installed, UnderWay

LEMMA DialSucceedsStep ==
  ASSUME IInv, NEW d \in DOMAIN dials, DialSucceeds(d) PROVE StepOK
<1>1. dials \in Seq(Dial) /\ dials[d] \in Dial /\ DialInv(d)
  BY DEF IInv, Types
<1>3. dials' \in Seq(Dial) /\ DOMAIN dials' = DOMAIN dials /\ \A f \in DOMAIN dials \ {d} : dials'[f] = dials[f]
  BY <1>1 DEF Dial, DialSucceeds
<1>4. dials'[d] = [dials[d] EXCEPT !.stage = "install", !.conn = "open"]
  BY <1>1 DEF DialSucceeds
<1>5. /\ dials'[d].home = dials[d].home /\ dials'[d].starter = dials[d].starter
      /\ dials'[d].connDone = dials[d].connDone /\ dials'[d].conn = "open"
      /\ dials'[d].stage = "install" /\ dials'[d].err = dials[d].err
  BY <1>1, <1>4 DEF Dial
<1>6. UNCHANGED <<states, cur, calls, draining>> /\ dials[d].stage = "dialing"
  BY DEF DialSucceeds
<1>8. DialInv(d)'
  BY <1>1, <1>5, <1>6 DEF DialInv, Installed, UnderWay
<1> QED BY <1>1, <1>3, <1>5, <1>6, <1>8, SameKeeps, OneDial DEF Installed, UnderWay

LEMMA FinishStep ==
  ASSUME IInv, NEW d \in DOMAIN dials, Finish(d) PROVE StepOK
<1>1. dials \in Seq(Dial) /\ dials[d] \in Dial /\ DialInv(d)
  BY DEF IInv, Types
<1>3. dials' \in Seq(Dial) /\ DOMAIN dials' = DOMAIN dials /\ \A f \in DOMAIN dials \ {d} : dials'[f] = dials[f]
  <2>1. PICK r \in Dial : r = [dials[d] EXCEPT !.stage = "done"]
    BY <1>1, Zenon DEF Dial
  <2>2. dials' = [dials EXCEPT ![d] = r]
    BY <2>1 DEF Finish
  <2> QED BY <1>1, <2>2
<1>4. dials'[d] = [dials[d] EXCEPT !.stage = "done"]
  BY <1>1 DEF Finish
<1>5. /\ dials'[d].home = dials[d].home /\ dials'[d].starter = dials[d].starter
      /\ dials'[d].connDone = dials[d].connDone /\ dials'[d].conn = dials[d].conn
      /\ dials'[d].stage = "done" /\ dials'[d].err = dials[d].err
  BY <1>1, <1>4 DEF Dial
<1>6. UNCHANGED <<states, cur, calls, draining>> /\ dials[d].stage = "finish"
  BY DEF Finish
<1>8. DialInv(d)'
  BY <1>1, <1>5, <1>6 DEF DialInv, Installed, UnderWay
<1> QED BY <1>1, <1>3, <1>5, <1>6, <1>8, SameKeeps, OneDial DEF Installed, UnderWay

(* The connection dies, or is closed by a holder that finds it untracked. *)
LEMMA ConnChanges ==
  ASSUME IInv, NEW d \in DOMAIN dials, NEW x \in {"none", "dead", dials[d].conn},
         dials' = [dials EXCEPT ![d].conn = x],
         UNCHANGED <<states, cur, draining>>, CallsKept,
         x = "dead" => dials[d].conn # "none",
         Installed(d)
  PROVE  StepOK
<1>1. dials \in Seq(Dial) /\ dials[d] \in Dial /\ DialInv(d) /\ x \in {"none", "open", "dead"}
  <2>1. dials \in Seq(Dial) /\ dials[d] \in Dial /\ DialInv(d)
    BY DEF IInv, Types
  <2> QED BY <2>1 DEF Dial
<1>3. dials' \in Seq(Dial) /\ DOMAIN dials' = DOMAIN dials /\ \A f \in DOMAIN dials \ {d} : dials'[f] = dials[f]
  <2>1. PICK r \in Dial : r = [dials[d] EXCEPT !.conn = x]
    BY <1>1, Zenon DEF Dial
  <2>2. dials' = [dials EXCEPT ![d] = r]
    BY <2>1
  <2> QED BY <1>1, <2>2
<1>4. dials'[d] = [dials[d] EXCEPT !.conn = x]
  BY <1>1
<1>5. /\ dials'[d].home = dials[d].home /\ dials'[d].starter = dials[d].starter
      /\ dials'[d].connDone = dials[d].connDone /\ dials'[d].conn = x
      /\ dials'[d].stage = dials[d].stage /\ dials'[d].err = dials[d].err
  BY <1>1, <1>4, Zenon DEF Dial
<1>7. dials[d].starter \in Calls /\ calls'[dials[d].starter].ctxDone = calls[dials[d].starter].ctxDone
  BY TypeFacts DEF IInv, CallsKept
<1>8. DialInv(d)'
  BY <1>1, <1>5, <1>7 DEF DialInv, Installed, UnderWay
<1> QED BY <1>1, <1>3, <1>5, <1>8, OneDial, ZenonT(120) DEF Installed, UnderWay

LEMMA DieStep ==
  ASSUME IInv, NEW d \in DOMAIN dials, Die(d) PROVE StepOK
<1>1. Installed(d)
  BY DEF Die, IInv, DialInv, SharedInv
<1> QED BY <1>1, SameKeeps, ConnChanges, Zenon DEF Die

LEMMA ReleaseUntrackedStep ==
  ASSUME IInv, NEW c \in Calls, ReleaseUntracked(c) PROVE StepOK
<1>1. PICK d \in DOMAIN dials : d = calls[c].at /\ Installed(d)
  BY DEF IInv, CallInv, ReleaseUntracked
<1> QED BY <1>1, GotoKeeps, ConnChanges, ZenonT(120) DEF ReleaseUntracked

LEMMA InvalidateUntrackedStep ==
  ASSUME IInv, NEW c \in Calls, InvalidateUntracked(c) PROVE StepOK
<1>1. PICK d \in DOMAIN dials : d = calls[c].at /\ Installed(d)
  BY DEF IInv, CallInv, InvalidateUntracked
<1>2. PICK x : x = IF cur = None THEN "none" ELSE dials[d].conn
  OBVIOUS
<1> QED BY <1>1, <1>2, GotoKeeps, ConnChanges, ZenonT(120) DEF InvalidateUntracked

(* A caller hands its connection back, alive and still tracked. *)
LEMMA ReleaseForReuseStep ==
  ASSUME IInv, NEW c \in Calls, ReleaseForReuse(c) PROVE StepOK
<1>1. calls \in [Calls -> Call] /\ calls[c] \in Call /\ CallInv(c)
  BY DEF IInv, Types
<1>2. calls' \in [Calls -> Call] /\ \A b \in Calls \ {c} : calls'[b] = calls[b]
  BY <1>1 DEF ReleaseForReuse, Goto, Call
<1>3. calls'[c] = [calls[c] EXCEPT !.pc = "over"]
  BY <1>1 DEF ReleaseForReuse, Goto
<1>4. CallInv(c)'
  BY <1>1, <1>3 DEF CallInv, Call, Installed, ReleaseForReuse
<1>5. calls'[c].ctxDone = calls[c].ctxDone /\ calls'[c].created = calls[c].created /\ calls'[c].at = calls[c].at
  BY <1>1, <1>3 DEF Call
<1> QED BY <1>1, <1>2, <1>4, <1>5, OneCall DEF ReleaseForReuse

-----------------------------------------------------------------------------
(* Steps that change a state. *)

(* removeConn of the shared connection. *)
LEMMA RemoveStep ==
  ASSUME IInv, cur # None, NEW d, d = states[cur].shared, d # None,
         removeConn(cur, d), CallsKept, UNCHANGED <<cur, draining>>
  PROVE  StepOK
<1>1. /\ states \in Seq(State) /\ cur \in DOMAIN states /\ states[cur] \in State
      /\ SharedInv(cur)
  BY DEF IInv, Types, StatesInv
<1>2. /\ dials \in Seq(Dial) /\ d \in DOMAIN dials /\ dials[d] \in Dial
      /\ DialInv(d) /\ dials[d].home = cur /\ Installed(d) /\ ~ dials[d].connDone
  BY <1>1 DEF IInv, Types, SharedInv
<1>3. /\ states' \in Seq(State) /\ DOMAIN states' = DOMAIN states
      /\ \A s \in DOMAIN states \ {cur} : states'[s] = states[s]
      /\ states'[cur] = [states[cur] EXCEPT !.all = @ \ {d}, !.shared = None, !.claimed = FALSE]
  <2>1. PICK r \in State : r = [states[cur] EXCEPT !.all = @ \ {d}, !.shared = None, !.claimed = FALSE]
    BY <1>1, Zenon DEF State, None
  <2>2. states' = [states EXCEPT ![cur] = r]
    BY <1>1, <2>1, Zenon DEF removeConn
  <2> QED BY <1>1, <2>1, <2>2
<1>4. /\ states'[cur].all = {} /\ states'[cur].shared = None /\ ~ states'[cur].claimed
      /\ states'[cur].connecting = None /\ states'[cur].cancelled = states[cur].cancelled
  BY <1>1, <1>3 DEF State, SharedInv
<1>5. /\ dials' \in Seq(Dial) /\ DOMAIN dials' = DOMAIN dials
      /\ \A e \in DOMAIN dials \ {d} : dials'[e] = dials[e]
      /\ dials'[d] = [dials[d] EXCEPT !.conn = "none", !.connDone = TRUE]
  <2>1. PICK r \in Dial : r = [dials[d] EXCEPT !.conn = "none", !.connDone = TRUE]
    BY <1>2, Zenon DEF Dial
  <2>2. dials' = [dials EXCEPT ![d] = r]
    BY <1>2, <2>1, Zenon DEF removeConn
  <2> QED BY <1>2, <2>1, <2>2
<1>6. /\ dials'[d].home = cur /\ dials'[d].starter = dials[d].starter
      /\ dials'[d].stage = dials[d].stage /\ dials'[d].err = "none"
      /\ dials'[d].conn = "none" /\ dials'[d].connDone
  BY <1>2, <1>5 DEF Dial, Installed
<1>7. Types'
  BY <1>3, <1>5 DEF IInv, Types, CallsKept
<1>8. StatesInv'
  BY <1>3, <1>4, Zenon DEF IInv, StatesInv
<1>9. \A s \in DOMAIN states' : SharedInv(s)'
  <2> SUFFICES ASSUME NEW s \in DOMAIN states, s # cur PROVE SharedInv(s)'
    BY <1>1, <1>3, <1>4, ZenonT(120) DEF SharedInv
  <2>1. SharedInv(s)
    BY DEF IInv
  <2>2. states'[s] = states[s] /\ states[s].shared # d /\ states[s].connecting # d
    <3>1. d # None
      BY TypeFacts, <1>2 DEF IInv, None
    <3> QED BY <1>2, <1>3, <2>1, <3>1 DEF SharedInv
  <2> QED BY <1>5, <2>1, <2>2 DEF SharedInv, Installed, UnderWay
<1>10. \A e \in DOMAIN dials' : DialInv(e)'
  <2>1. DialInv(d)'
    BY <1>1, <1>2, <1>3, <1>6 DEF DialInv, Installed, UnderWay
  <2> SUFFICES ASSUME NEW e \in DOMAIN dials, e # d PROVE DialInv(e)'
    BY <1>5, <2>1
  <2>2. DialInv(e) /\ dials[e].starter \in Calls
    BY TypeFacts DEF IInv
  <2>3. calls'[dials[e].starter].ctxDone = calls[dials[e].starter].ctxDone
    BY <2>2 DEF CallsKept
  <2>4. dials[e].home = cur => ~ UnderWay(e) /\ ~ (Installed(e) /\ ~ dials[e].connDone)
    <3>1. e # None
      BY TypeFacts DEF IInv, None
    <3> QED BY <1>1, <2>2, <3>1 DEF SharedInv, DialInv
  <2> QED BY <1>3, <1>4, <1>5, <2>2, <2>3, <2>4 DEF DialInv, Installed, UnderWay
<1>11. NoLeak'
  <2> SUFFICES ASSUME NEW e \in DOMAIN dials, e # d, dials[e].conn # "none", dials[e].stage # "install"
               PROVE  e \in states'[dials[e].home].all /\ dials[e].home \in {cur} \cup draining
    BY <1>5, <1>6, ZenonT(120) DEF NoLeak
  <2>1. e \in states[dials[e].home].all /\ dials[e].home \in {cur} \cup draining /\ dials[e].home \in DOMAIN states
    BY DEF IInv, NoLeak, DialInv
  <2>2. dials[e].home # cur
    BY <1>1, <2>1 DEF SharedInv
  <2> QED BY <1>3, <2>1, <2>2
<1>12. \A b \in Calls : CallInv(b)'
  <2> SUFFICES ASSUME NEW b \in Calls PROVE CallInv(b)'
    OBVIOUS
  <2>1. CallInv(b)
    BY DEF IInv
  <2>2. \A e \in DOMAIN dials : /\ dials'[e].home = dials[e].home
                                /\ dials'[e].starter = dials[e].starter
                                /\ Installed(e)' <=> Installed(e)
    <3>1. Installed(d)' <=> Installed(d)
      BY <1>2, <1>6 DEF Installed
    <3>2. ASSUME NEW e \in DOMAIN dials \ {d}
          PROVE  dials'[e] = dials[e] /\ (Installed(e)' <=> Installed(e))
      BY <1>5 DEF Installed
    <3> QED BY <1>2, <1>6, <3>1, <3>2
  <2>3. /\ calls'[b].pc = "select" => calls[b].pc = "select"
        /\ calls'[b].pc = "holding" => calls[b].pc = "holding"
        /\ calls'[b].pc \in {"acquire", "select"} => calls[b].pc \in {"acquire", "select"}
        /\ calls'[b].at = calls[b].at /\ calls'[b].created = calls[b].created
        /\ calls'[b].result = calls[b].result /\ calls'[b].ctxDone = calls[b].ctxDone
    BY DEF CallsKept
  <2>4. \A e \in DOMAIN dials : states'[dials[e].home].shared = e =>
          states'[dials[e].home] = states[dials[e].home]
    <3> SUFFICES ASSUME NEW e \in DOMAIN dials, states'[dials[e].home].shared = e
                 PROVE  states'[dials[e].home] = states[dials[e].home]
      OBVIOUS
    <3>1. e # None /\ dials[e].home \in DOMAIN states
      BY TypeFacts DEF IInv, DialInv, None
    <3> QED BY <1>3, <1>4, <3>1, Zenon
  <2> QED BY <1>5, <2>1, <2>2, <2>3, <2>4, CallInvKept, Zenon
<1>13. CreatedOnce'
  BY DEF IInv, CreatedOnce, CallsKept
<1>14. LinkStep
  <2>1. View(d) \in {"fresh", "claimed"}
    BY <1>1, <1>2 DEF View, IInv, StatesInv
  <2>2. View(d)' = "done"
    BY <1>2, <1>5, <1>6 DEF View, Installed
  <2>3. ASSUME NEW e \in 1 .. MaxDials \ {d} PROVE View(e)' = View(e)
    <3>1. CASE e \in DOMAIN dials
      <4>1. DialInv(e) /\ dials'[e] = dials[e]
        BY <1>5, <3>1 DEF IInv
      <4>2. dials[e].home = cur => View(e) = (IF Installed(e) THEN "done" ELSE "none")
        BY <3>1, <4>1 DEF DialInv, View
      <4>3. dials[e].home = cur => View(e)' = (IF Installed(e) THEN "done" ELSE "none")
        BY <1>5, <3>1, <4>1 DEF DialInv, View, Installed
      <4>4. dials[e].home # cur => View(e)' = View(e)
        BY <1>3, <1>5, <3>1, <4>1 DEF DialInv, View, Installed
      <4> QED BY <4>2, <4>3, <4>4
    <3>2. CASE e \notin DOMAIN dials
      BY <1>5, <3>2 DEF View
    <3> QED BY <3>1, <3>2
  <2>4. d \in 1 .. MaxDials
    BY <1>2 DEF DialInv
  <2> QED BY <2>1, <2>2, <2>3, <2>4 DEF LinkStep, Moves
<1> QED BY <1>7, <1>8, <1>9, <1>10, <1>11, <1>12, <1>13, <1>14 DEF IInv, StepOK

LEMMA DiscardStep ==
  ASSUME IInv, NEW c \in Calls, Discard(c) PROVE StepOK
<1>1. cur \in DOMAIN states /\ calls[c].at \in states[cur].all
  BY DEF IInv, StatesInv, Discard, Tracked
<1>2. PICK d : d = calls[c].at /\ d = states[cur].shared /\ d # None
  BY <1>1 DEF IInv, SharedInv
<1>3. CallsKept
  BY GotoKeeps DEF Discard
<1> QED BY <1>2, <1>3, RemoveStep DEF Discard, Tracked

(* The shared connection is given to a call. *)
LEMMA GiveStep ==
  ASSUME IInv, cur # None, NEW c \in Calls, calls[c].pc \in {"acquire", "select"},
         states[cur].shared # None, Give(c), UNCHANGED <<dials, cur, draining>>
  PROVE  StepOK
<1>1. /\ states \in Seq(State) /\ cur \in DOMAIN states /\ states[cur] \in State
      /\ SharedInv(cur)
  BY DEF IInv, Types, StatesInv
<1>2. PICK d \in DOMAIN dials : /\ d = states[cur].shared /\ d \in Nat
                                /\ dials[d].home = cur /\ Installed(d)
  BY <1>1, TypeFacts DEF IInv, SharedInv
<1>3. /\ states' \in Seq(State) /\ DOMAIN states' = DOMAIN states
      /\ \A s \in DOMAIN states \ {cur} : states'[s] = states[s]
      /\ states'[cur] = [states[cur] EXCEPT !.claimed = TRUE]
  <2>1. PICK r \in State : r = [states[cur] EXCEPT !.claimed = TRUE]
    BY <1>1, Zenon DEF State
  <2>2. states' = [states EXCEPT ![cur] = r]
    BY <1>1, <2>1 DEF Give
  <2> QED BY <1>1, <2>1, <2>2
<1>4. /\ states'[cur].all = states[cur].all /\ states'[cur].shared = states[cur].shared
      /\ states'[cur].claimed /\ states'[cur].connecting = states[cur].connecting
      /\ states'[cur].cancelled = states[cur].cancelled
  BY <1>1, <1>3 DEF State
<1>5. calls \in [Calls -> Call] /\ calls[c] \in Call /\ CallInv(c) /\ states[cur].claimed \in BOOLEAN
  BY <1>1 DEF IInv, Types, State
<1>6. calls' \in [Calls -> Call] /\ \A b \in Calls \ {c} : calls'[b] = calls[b]
  BY <1>2, <1>5, Zenon DEF Give, Call
<1>7. calls'[c] = [calls[c] EXCEPT !.pc = "holding", !.at = d, !.created = ~ states[cur].claimed,
                                   !.result = "conn"]
  BY <1>2, <1>5 DEF Give
<1>8. /\ calls'[c].pc = "holding" /\ calls'[c].at = d /\ calls'[c].created = ~ states[cur].claimed
      /\ calls'[c].result = "conn" /\ calls'[c].ctxDone = calls[c].ctxDone
  BY <1>5, <1>7 DEF Call
<1>9. Types'
  BY <1>3, <1>6 DEF IInv, Types
<1>10. StatesInv'
  BY <1>3, <1>4, Zenon DEF IInv, StatesInv
<1>11. \A s \in DOMAIN states' : SharedInv(s)'
  <2>1. SharedInv(cur)'
    BY <1>1, <1>4 DEF SharedInv, Installed, UnderWay
  <2>2. ASSUME NEW s \in DOMAIN states \ {cur} PROVE SharedInv(s)'
    BY <1>3 DEF IInv, SharedInv, Installed, UnderWay
  <2> QED BY <1>3, <2>1, <2>2
<1>12. \A e \in DOMAIN dials' : DialInv(e)'
  <2> SUFFICES ASSUME NEW e \in DOMAIN dials PROVE DialInv(e)'
    OBVIOUS
  <2>1. DialInv(e) /\ dials[e].starter \in Calls
    BY TypeFacts DEF IInv
  <2>2. calls[dials[e].starter].ctxDone => calls'[dials[e].starter].ctxDone
    BY <1>6, <1>8, <2>1
  <2>3. /\ states'[dials[e].home].connecting = states[dials[e].home].connecting
        /\ states'[dials[e].home].shared = states[dials[e].home].shared
    BY <1>3, <1>4, <2>1, Zenon DEF DialInv
  <2> QED BY <1>3, <2>1, <2>2, <2>3 DEF DialInv, Installed, UnderWay
<1>13. NoLeak'
  BY <1>3, <1>4, ZenonT(120) DEF IInv, NoLeak, DialInv
<1>14. \A b \in Calls : CallInv(b)'
  <2>1. CallInv(c)'
    BY <1>2, <1>4, <1>8 DEF CallInv, Installed
  <2> SUFFICES ASSUME NEW b \in Calls, b # c PROVE CallInv(b)'
    BY <2>1
  <2>2. CallInv(b) /\ calls'[b] = calls[b]
    BY <1>6, Zenon DEF IInv
  <2>3. calls[b].created => dials[calls[b].at].home \in DOMAIN states
    BY <2>2 DEF IInv, CallInv, DialInv
  <2>4. \A s \in DOMAIN states : states'[s].shared = states[s].shared /\ (states[s].claimed => states'[s].claimed)
    BY <1>3, <1>4, Zenon
  <2> QED BY <2>2, <2>3, <2>4, ZenonT(120) DEF CallInv, Installed
<1>15. CreatedOnce'
  <2>1. \A b \in Calls \ {c} : calls'[b].created /\ calls'[c].created => calls'[b].at # d
    <3> SUFFICES ASSUME NEW b \in Calls \ {c}, calls[b].created, calls[b].at = d
                 PROVE  states[cur].claimed
      BY <1>6, <1>8, Zenon
    <3> QED BY <1>2 DEF IInv, CallInv
  <2> QED BY <1>6, <1>8, <2>1, ZenonT(120) DEF IInv, CreatedOnce
<1>16. LinkStep
  <2>1. d \in 1 .. MaxDials /\ DialInv(d) /\ ~ dials[d].connDone /\ ~ states[cur].cancelled
    BY <1>1, <1>2 DEF IInv, DialInv, SharedInv, StatesInv
  <2>2. View(d) = (IF states[cur].claimed THEN "claimed" ELSE "fresh")
    BY <1>2, <2>1 DEF View
  <2>3. View(d)' = "claimed"
    BY <1>2, <1>4, <2>1 DEF View, Installed
  <2>4. ASSUME NEW e \in 1 .. MaxDials \ {d} PROVE View(e)' = View(e)
    <3>1. CASE e \in DOMAIN dials
      <4>1. DialInv(e)
        BY <3>1 DEF IInv
      <4>2. dials[e].home = cur => View(e) = (IF Installed(e) THEN "done" ELSE "none")
        BY <1>2, <3>1, <4>1, Zenon DEF DialInv, View
      <4>3. dials[e].home = cur => View(e)' = (IF Installed(e) THEN "done" ELSE "none")
        BY <1>2, <3>1, <4>1 DEF DialInv, View, Installed
      <4>4. dials[e].home # cur => View(e)' = View(e)
        BY <1>3, <3>1, <4>1, Zenon DEF DialInv, View, Installed
      <4> QED BY <4>2, <4>3, <4>4
    <3>2. CASE e \notin DOMAIN dials
      BY <3>2 DEF View
    <3> QED BY <3>1, <3>2
  <2>5. CASE states[cur].claimed
    BY <2>2, <2>3, <2>4, <2>5 DEF LinkStep, Quiet
  <2>6. CASE ~ states[cur].claimed
    BY <2>1, <2>2, <2>3, <2>4, <2>6, Zenon DEF LinkStep, Moves
  <2> QED BY <2>5, <2>6, Zenon
<1> QED BY <1>9, <1>10, <1>11, <1>12, <1>13, <1>14, <1>15, <1>16 DEF IInv, StepOK

LEMMA TakeSharedStep ==
  ASSUME IInv, cur # None, NEW c \in Calls, calls[c].pc \in {"acquire", "select"},
         TakeShared(c), UNCHANGED <<cur, draining>>
  PROVE  StepOK
<1>1. CASE IsAlive(states[cur].shared) /\ Give(c) /\ UNCHANGED dials
  BY <1>1, GiveStep DEF TakeShared
<1>2. CASE removeConn(cur, states[cur].shared) /\ Goto(c, "acquire")
  <2>1. PICK d : d = states[cur].shared
    OBVIOUS
  <2>2. CallsKept
    BY <1>2, GotoKeeps
  <2> QED BY <1>2, <2>1, <2>2, RemoveStep DEF TakeShared
<1> QED BY <1>1, <1>2 DEF TakeShared

LEMMA AcquireFoundStep ==
  ASSUME IInv, NEW c \in Calls, AcquireFound(c) PROVE StepOK
  BY TakeSharedStep DEF AcquireFound

LEMMA CollectFoundStep ==
  ASSUME IInv, NEW c \in Calls, CollectFound(c) PROVE StepOK
<1>1. calls[c].at \in DOMAIN dials /\ dials[calls[c].at].home \in DOMAIN states
  BY DEF IInv, CallInv, DialInv, CollectFound
<1>2. cur # None
  BY <1>1, TypeFacts DEF CollectFound, IInv, None
<1> QED BY <1>2, TakeSharedStep, Zenon DEF CollectFound

(* The first caller starts a dial. *)
LEMMA AcquireDialStep ==
  ASSUME IInv, NEW c \in Calls, AcquireDial(c) PROVE StepOK
<1>1. /\ states \in Seq(State) /\ cur \in DOMAIN states /\ states[cur] \in State
      /\ SharedInv(cur) /\ cur \in Nat
  BY DEF IInv, Types, StatesInv, AcquireDial
<1>2. PICK n \in Nat : /\ n = Len(dials) + 1 /\ n # None
                       /\ dials \in Seq(Dial) /\ DOMAIN dials = 1 .. Len(dials) /\ Len(dials) \in Nat
  BY TypeFacts DEF IInv, Types, None
<1>3. newDial(c) \in Dial
  BY <1>1 DEF newDial, Dial
<1>4. /\ dials' \in Seq(Dial) /\ DOMAIN dials' = DOMAIN dials \cup {n} /\ n \notin DOMAIN dials
      /\ \A e \in DOMAIN dials : dials'[e] = dials[e]
      /\ dials'[n] = newDial(c)
  BY <1>2, <1>3 DEF AcquireDial
<1>5. /\ dials'[n].home = cur /\ dials'[n].starter = c /\ dials'[n].stage = "dialing"
      /\ dials'[n].err = "none" /\ dials'[n].conn = "none" /\ ~ dials'[n].connDone
  BY <1>4 DEF newDial
<1>6. /\ states' \in Seq(State) /\ DOMAIN states' = DOMAIN states
      /\ \A s \in DOMAIN states \ {cur} : states'[s] = states[s]
      /\ states'[cur] = [states[cur] EXCEPT !.connecting = n]
  <2>1. PICK r \in State : r = [states[cur] EXCEPT !.connecting = n]
    BY <1>1, <1>2, Zenon DEF State
  <2>2. states' = [states EXCEPT ![cur] = r]
    BY <1>1, <1>2, <2>1 DEF AcquireDial
  <2> QED BY <1>1, <2>1, <2>2
<1>7. /\ states'[cur].all = states[cur].all /\ states'[cur].shared = None
      /\ states'[cur].claimed = states[cur].claimed /\ states'[cur].connecting = n
      /\ states'[cur].cancelled = states[cur].cancelled
  BY <1>1, <1>6, Zenon DEF State, AcquireDial
<1>8. calls \in [Calls -> Call] /\ calls[c] \in Call /\ CallInv(c)
  BY DEF IInv, Types
<1>9. calls' \in [Calls -> Call] /\ \A b \in Calls \ {c} : calls'[b] = calls[b]
  BY <1>2, <1>8, Zenon DEF AcquireDial, Call
<1>10. calls'[c] = [calls[c] EXCEPT !.pc = "select", !.at = n]
  BY <1>2, <1>8 DEF AcquireDial
<1>11. /\ calls'[c].pc = "select" /\ calls'[c].at = n /\ calls'[c].created = calls[c].created
       /\ calls'[c].result = calls[c].result /\ calls'[c].ctxDone = calls[c].ctxDone
  BY <1>8, <1>10 DEF Call
<1>12. /\ UNCHANGED <<cur, draining>> /\ calls[c].pc = "acquire" /\ states[cur].shared = None
       /\ n \in 1 .. MaxDials
  BY <1>2, BoundsAssumption DEF AcquireDial
<1>13. Types'
  BY <1>4, <1>6, <1>9, <1>12 DEF IInv, Types
<1>14. StatesInv'
  BY <1>6, <1>7, <1>12, Zenon DEF IInv, StatesInv
<1>15. \A s \in DOMAIN states' : SharedInv(s)'
  <2>1. SharedInv(cur)'
    BY <1>1, <1>2, <1>4, <1>5, <1>7, <1>12 DEF SharedInv, UnderWay
  <2>2. ASSUME NEW s \in DOMAIN states \ {cur} PROVE SharedInv(s)'
    BY <1>4, <1>6 DEF IInv, SharedInv, Installed, UnderWay
  <2> QED BY <1>6, <1>12, <2>1, <2>2, Zenon
<1>16. \A e \in DOMAIN dials' : DialInv(e)'
  <2>1. DialInv(n)'
    BY <1>1, <1>5, <1>6, <1>7, <1>12 DEF DialInv, Installed, UnderWay
  <2> SUFFICES ASSUME NEW e \in DOMAIN dials PROVE DialInv(e)'
    BY <1>4, <2>1
  <2>2. DialInv(e) /\ dials[e].starter \in Calls /\ e # None
    BY TypeFacts DEF IInv, None
  <2>3. calls'[dials[e].starter].ctxDone = calls[dials[e].starter].ctxDone
    BY <1>9, <1>11, <2>2
  <2>4. /\ dials[e].home = cur => ~ UnderWay(e) /\ states[cur].shared # e
        /\ dials'[e] = dials[e]
    BY <1>4, <2>2 DEF DialInv, AcquireDial
  <2>5. dials[e].home # cur => states'[dials[e].home] = states[dials[e].home]
    BY <1>6, <2>2 DEF DialInv
  <2> QED BY <1>6, <1>12, <2>2, <2>3, <2>4, <2>5 DEF DialInv, Installed, UnderWay
<1>17. NoLeak'
  <2> SUFFICES ASSUME NEW e \in DOMAIN dials, dials[e].conn # "none", dials[e].stage # "install"
               PROVE  e \in states'[dials[e].home].all /\ dials[e].home \in {cur} \cup draining
    BY <1>4, <1>5, <1>12, Zenon DEF NoLeak
  <2>1. /\ e \in states[dials[e].home].all /\ dials[e].home \in {cur} \cup draining
        /\ dials[e].home \in DOMAIN states
    BY Zenon DEF IInv, NoLeak, DialInv
  <2> QED BY <1>6, <1>7, <2>1, ZenonT(120)
<1>18. \A b \in Calls : CallInv(b)'
  <2>1. CallInv(c)'
    BY <1>4, <1>8, <1>11, <1>12, Zenon DEF CallInv
  <2> SUFFICES ASSUME NEW b \in Calls, b # c PROVE CallInv(b)'
    BY <2>1
  <2>2. CallInv(b) /\ calls'[b] = calls[b]
    BY <1>9 DEF IInv
  <2>3. ASSUME NEW e \in DOMAIN dials
        PROVE  /\ dials'[e] = dials[e] /\ (Installed(e)' <=> Installed(e)) /\ e \in DOMAIN dials'
               /\ dials[e].home \in DOMAIN states
    BY <1>4, Zenon DEF Installed, IInv, DialInv
  <2>4. \A s \in DOMAIN states : states'[s].shared = states[s].shared /\ states'[s].claimed = states[s].claimed
    BY <1>6, <1>7 DEF AcquireDial
  <2>6. DOMAIN dials \subseteq DOMAIN dials' /\ cur' = cur
    BY <1>12, <2>3, Zenon
  <2> QED BY <2>2, <2>3, <2>4, <2>6, CallInvKept, Zenon
<1>19. CreatedOnce'
  <2>1. CreatedOnce /\ CallInv(c)
    BY Zenon DEF IInv
  <2>2. ~ calls'[c].created
    BY <1>11, <1>12, <2>1, Zenon DEF CallInv
  <2>3. \A b \in Calls : b # c => calls'[b] = calls[b]
    BY <1>9, Zenon
  <2> QED BY <2>1, <2>2, <2>3, Zenon DEF CreatedOnce
<1>20. LinkStep
  <2> SUFFICES ASSUME NEW e \in 1 .. MaxDials PROVE View(e)' = View(e)
    BY DEF LinkStep, Quiet
  <2>1. CASE e \in DOMAIN dials
    <3>1. DialInv(e) /\ dials'[e] = dials[e] /\ e \in DOMAIN dials'
      BY <1>4, <2>1 DEF IInv
    <3>2. \A s \in DOMAIN states : states'[s].cancelled = states[s].cancelled /\ states'[s].claimed = states[s].claimed
      BY <1>6, <1>7, Zenon
    <3> QED BY <1>1, <1>12, <2>1, <3>1, <3>2 DEF DialInv, View, Installed
  <2>2. CASE e = n
    BY <1>4, <1>5, <2>2, Zenon DEF View, Installed
  <2>3. CASE e \notin DOMAIN dials'
    BY <1>4, <2>3 DEF View
  <2> QED BY <1>4, <2>1, <2>2, <2>3
<1> QED BY <1>13, <1>14, <1>15, <1>16, <1>17, <1>18, <1>19, <1>20 DEF IInv, StepOK

(* connectSingle takes note of a failed dial. *)
LEMMA InstallFails ==
  ASSUME IInv, NEW d \in DOMAIN dials, dials[d].stage = "install",
         states' = [states EXCEPT ![dials[d].home].connecting = None],
         NEW e \in {"dial", "ctx", "closed"},
         dials' = [dials EXCEPT ![d].stage = "finish", ![d].err = e, ![d].conn = "none"],
         e = "ctx" => calls[dials[d].starter].ctxDone,
         e = "closed" => dials[d].home # cur,
         UNCHANGED <<cur, calls, draining>>
  PROVE  StepOK
<1>1. /\ dials \in Seq(Dial) /\ dials[d] \in Dial /\ DialInv(d)
  BY DEF IInv, Types
<1>2. PICK h \in DOMAIN states : /\ h = dials[d].home /\ states[h] \in State /\ SharedInv(h)
                                 /\ states \in Seq(State) /\ states[h].connecting = d
                                 /\ states[h].shared = None
  BY <1>1, TypeFacts DEF IInv, Types, DialInv, SharedInv, UnderWay, None
<1>3. /\ states' \in Seq(State) /\ DOMAIN states' = DOMAIN states
      /\ \A s \in DOMAIN states \ {h} : states'[s] = states[s]
      /\ states'[h] = [states[h] EXCEPT !.connecting = None]
  <2>1. PICK r \in State : r = [states[h] EXCEPT !.connecting = None]
    BY <1>2, Zenon DEF State, None
  <2>2. states' = [states EXCEPT ![h] = r]
    BY <1>2, <2>1
  <2> QED BY <1>2, <2>1, <2>2
<1>4. /\ states'[h].all = states[h].all /\ states'[h].shared = None
      /\ states'[h].claimed = states[h].claimed /\ states'[h].connecting = None
      /\ states'[h].cancelled = states[h].cancelled
  BY <1>2, <1>3, Zenon DEF State
<1>5. /\ dials' \in Seq(Dial) /\ DOMAIN dials' = DOMAIN dials
      /\ \A f \in DOMAIN dials \ {d} : dials'[f] = dials[f]
      /\ dials'[d] = [dials[d] EXCEPT !.stage = "finish", !.err = e, !.conn = "none"]
  <2>1. PICK r \in Dial : r = [dials[d] EXCEPT !.stage = "finish", !.err = e, !.conn = "none"]
    BY <1>1, Zenon DEF Dial
  <2>2. dials' = [dials EXCEPT ![d] = r]
    BY <1>1, <2>1, Zenon
  <2>3. /\ [dials EXCEPT ![d] = r] \in Seq(Dial) /\ DOMAIN [dials EXCEPT ![d] = r] = DOMAIN dials
        /\ \A f \in DOMAIN dials \ {d} : [dials EXCEPT ![d] = r][f] = dials[f]
        /\ [dials EXCEPT ![d] = r][d] = r
    BY <1>1, Replaced, Zenon
  <2> QED BY <2>1, <2>2, <2>3, Zenon
<1>6. /\ dials'[d].home = h /\ dials'[d].starter = dials[d].starter /\ dials'[d].stage = "finish"
      /\ dials'[d].err = e /\ dials'[d].conn = "none" /\ dials'[d].connDone = dials[d].connDone
      /\ ~ Installed(d) /\ ~ Installed(d)'
  BY <1>1, <1>2, <1>5, Zenon DEF Dial, Installed
<1>7. Types'
  BY <1>3, <1>5 DEF IInv, Types
<1>8. StatesInv'
  BY <1>3, <1>4 DEF IInv, StatesInv
<1>9. \A s \in DOMAIN states' : SharedInv(s)'
  <2>1. SharedInv(h)'
    BY <1>2, <1>4, Zenon DEF SharedInv
  <2>2. ASSUME NEW s \in DOMAIN states \ {h} PROVE SharedInv(s)'
    <3>1. SharedInv(s) /\ states'[s] = states[s] /\ states[s].connecting # d /\ states[s].shared # d
      <4>1. SharedInv(s) /\ states'[s] = states[s] /\ d # None
        BY <1>3, TypeFacts DEF IInv, None
      <4> QED BY <1>2, <4>1 DEF SharedInv
    <3> QED BY <1>5, <3>1, ZenonT(120) DEF SharedInv, Installed, UnderWay
  <2> QED BY <1>3, <2>1, <2>2
<1>10. \A f \in DOMAIN dials' : DialInv(f)'
  <2>1. DialInv(d)'
    BY <1>1, <1>2, <1>3, <1>6 DEF DialInv, UnderWay
  <2> SUFFICES ASSUME NEW f \in DOMAIN dials, f # d PROVE DialInv(f)'
    BY <1>5, <2>1
  <2>2. DialInv(f) /\ dials'[f] = dials[f]
    BY <1>5 DEF IInv
  <2>3. dials[f].home = h => ~ UnderWay(f)
    BY <1>2, <2>2 DEF DialInv
  <2>4. dials[f].home # h => states'[dials[f].home] = states[dials[f].home]
    BY <1>3, <2>2, Zenon DEF DialInv
  <2> QED BY <1>2, <1>3, <1>4, <2>2, <2>3, <2>4 DEF DialInv, Installed, UnderWay
<1>11. NoLeak'
  <2> SUFFICES ASSUME NEW f \in DOMAIN dials, f # d, dials[f].conn # "none", dials[f].stage # "install"
               PROVE  f \in states'[dials[f].home].all /\ dials[f].home \in {cur} \cup draining
    BY <1>5, <1>6 DEF NoLeak
  <2>1. /\ f \in states[dials[f].home].all /\ dials[f].home \in {cur} \cup draining
        /\ dials[f].home \in DOMAIN states
    BY DEF IInv, NoLeak, DialInv
  <2> QED BY <1>3, <1>4, <2>1
<1>12. \A b \in Calls : CallInv(b)'
  <2> SUFFICES ASSUME NEW b \in Calls PROVE CallInv(b)'
    OBVIOUS
  <2>1. CallInv(b) /\ calls'[b] = calls[b]
    BY DEF IInv
  <2>2. ASSUME NEW f \in DOMAIN dials
        PROVE  /\ dials'[f].home = dials[f].home /\ dials'[f].starter = dials[f].starter
               /\ Installed(f)' <=> Installed(f)
               /\ dials[f].home \in DOMAIN states
    <3>1. f # d => dials'[f] = dials[f]
      BY <1>5
    <3> QED BY <1>2, <1>6, <3>1 DEF Installed, IInv, DialInv
  <2>3. \A s \in DOMAIN states : states'[s].shared = states[s].shared /\ states'[s].claimed = states[s].claimed
    BY <1>2, <1>3, <1>4
  <2>4. calls[b].created => calls[b].at \in DOMAIN dials
    BY <2>1 DEF CallInv
  <2>5. calls'[b].created /\ states'[dials'[calls'[b].at].home].shared = calls'[b].at =>
          states'[dials'[calls'[b].at].home].claimed
    <3> SUFFICES ASSUME calls[b].created,
                        states'[dials'[calls[b].at].home].shared = calls[b].at
                 PROVE  states'[dials'[calls[b].at].home].claimed
      BY <2>1, Zenon
    <3>1. /\ dials'[calls[b].at].home = dials[calls[b].at].home
          /\ dials[calls[b].at].home \in DOMAIN states
      BY <2>2, <2>4, Zenon
    <3>2. /\ states'[dials[calls[b].at].home].shared = states[dials[calls[b].at].home].shared
          /\ states'[dials[calls[b].at].home].claimed = states[dials[calls[b].at].home].claimed
      BY <2>3, <3>1, Zenon
    <3> QED BY <2>1, <3>1, <3>2, Zenon DEF CallInv
  <2>6. DOMAIN dials' = DOMAIN dials /\ cur' = cur
    BY <1>5
  <2> QED BY <2>1, <2>2, <2>5, <2>6, ZenonT(120) DEF CallInv
<1>13. CreatedOnce'
  BY DEF IInv, CreatedOnce
<1>14. LinkStep
  <2> SUFFICES ASSUME NEW f \in 1 .. MaxDials PROVE View(f)' = View(f)
    BY DEF LinkStep, Quiet
  <2>1. CASE f \in DOMAIN dials \ {d}
    <3>1. DialInv(f) /\ dials'[f] = dials[f] /\ f \in DOMAIN dials'
      BY <1>5, <2>1 DEF IInv
    <3>2. \A s \in DOMAIN states : states'[s].cancelled = states[s].cancelled /\ states'[s].claimed = states[s].claimed
      BY <1>3, <1>4
    <3> QED BY <2>1, <3>1, <3>2 DEF DialInv, View, Installed
  <2>2. CASE f = d \/ f \notin DOMAIN dials
    BY <1>5, <1>6, <2>2 DEF View
  <2> QED BY <2>1, <2>2
<1> QED BY <1>7, <1>8, <1>9, <1>10, <1>11, <1>12, <1>13, <1>14 DEF IInv, StepOK

LEMMA InstallErrorStep ==
  ASSUME IInv, NEW d \in DOMAIN dials, InstallError(d) PROVE StepOK
<1>1. dials \in Seq(Dial) /\ dials[d] \in Dial /\ DialInv(d)
  BY DEF IInv, Types
<1>2. PICK e \in {"dial", "ctx", "closed"} : e = dials[d].err
  BY <1>1 DEF Dial, InstallError
<1>3. dials[d].conn = "none"
  BY <1>1 DEF DialInv, InstallError
<1>4. [dials[d] EXCEPT !.stage = "finish"] = [dials[d] EXCEPT !.stage = "finish", !.err = e, !.conn = "none"]
  BY <1>1, <1>2, <1>3, Zenon DEF Dial
<1>5. dials' = [dials EXCEPT ![d].stage = "finish", ![d].err = e, ![d].conn = "none"]
  BY <1>1, <1>4, Zenon DEF InstallError
<1> QED BY <1>1, <1>2, <1>5, InstallFails, Zenon DEF InstallError, DialInv

LEMMA InstallStaleStep ==
  ASSUME IInv, NEW d \in DOMAIN dials, InstallStale(d) PROVE StepOK
BY InstallFails, Zenon DEF InstallStale

(* connectSingle puts its connection in the state. *)
LEMMA InstallStep ==
  ASSUME IInv, NEW d \in DOMAIN dials, Install(d) PROVE StepOK
<1>1. /\ dials \in Seq(Dial) /\ dials[d] \in Dial /\ DialInv(d) /\ d # None /\ d \in Nat
  BY TypeFacts DEF IInv, Types, None
<1>2. PICK h \in DOMAIN states : /\ h = dials[d].home /\ h = cur /\ states[h] \in State /\ SharedInv(h)
                                 /\ states \in Seq(State) /\ states[h].connecting = d
                                 /\ states[h].shared = None
  BY <1>1, TypeFacts DEF IInv, Types, DialInv, SharedInv, UnderWay, Install
<1>3. /\ states' \in Seq(State) /\ DOMAIN states' = DOMAIN states
      /\ \A s \in DOMAIN states \ {h} : states'[s] = states[s]
      /\ states'[h] = [states[h] EXCEPT !.connecting = None, !.shared = d, !.all = @ \cup {d}]
  <2>1. PICK r \in State : r = [states[h] EXCEPT !.connecting = None, !.shared = d, !.all = @ \cup {d}]
    BY <1>1, <1>2, Zenon DEF State, None
  <2>2. states' = [states EXCEPT ![h] = r]
    BY <1>2, <2>1, ZenonT(120) DEF Install
  <2> QED BY <1>2, <2>1, <2>2
<1>4. /\ states'[h].all = {d} /\ states'[h].shared = d
      /\ ~ states'[h].claimed /\ states'[h].connecting = None
      /\ states'[h].cancelled = states[h].cancelled /\ states[h].all = {}
  BY <1>2, <1>3 DEF State, SharedInv
<1>5. /\ dials' \in Seq(Dial) /\ DOMAIN dials' = DOMAIN dials
      /\ \A f \in DOMAIN dials \ {d} : dials'[f] = dials[f]
      /\ dials'[d] = [dials[d] EXCEPT !.stage = "finish"]
  <2>1. PICK r \in Dial : r = [dials[d] EXCEPT !.stage = "finish"]
    BY <1>1, Zenon DEF Dial
  <2>2. dials' = [dials EXCEPT ![d] = r]
    BY <1>1, <2>1 DEF Install
  <2> QED BY <1>1, <2>1, <2>2
<1>6. /\ dials'[d].home = h /\ dials'[d].starter = dials[d].starter /\ dials'[d].stage = "finish"
      /\ dials'[d].err = "none" /\ dials'[d].conn = dials[d].conn
      /\ dials'[d].connDone = dials[d].connDone
      /\ dials[d].stage = "install" /\ ~ Installed(d) /\ Installed(d)' /\ ~ dials[d].connDone
  BY <1>1, <1>2, <1>5, Zenon DEF Dial, Installed, Install, DialInv
<1>7. UNCHANGED <<cur, calls, draining>>
  BY DEF Install
<1>8. Types'
  BY <1>3, <1>5, <1>7 DEF IInv, Types
<1>9. StatesInv'
  BY <1>3, <1>4, <1>7, Zenon DEF IInv, StatesInv
<1>10. \A s \in DOMAIN states' : SharedInv(s)'
  <2>1. SharedInv(h)'
    BY <1>1, <1>4, <1>5, <1>6 DEF SharedInv
  <2>2. ASSUME NEW s \in DOMAIN states \ {h} PROVE SharedInv(s)'
    <3>1. SharedInv(s) /\ states'[s] = states[s] /\ states[s].connecting # d /\ states[s].shared # d
      <4>1. SharedInv(s) /\ states'[s] = states[s]
        BY <1>3 DEF IInv
      <4>2. dials[d].home = h /\ h # s /\ d # None
        BY <1>1, <1>2, Zenon
      <4> QED BY <4>1, <4>2, Zenon DEF SharedInv
    <3> QED BY <1>5, <3>1 DEF SharedInv, Installed, UnderWay
  <2> QED BY <1>3, <2>1, <2>2
<1>11. \A f \in DOMAIN dials' : DialInv(f)'
  <2>1. DialInv(d)'
    BY <1>1, <1>2, <1>3, <1>4, <1>6, Zenon DEF DialInv, UnderWay
  <2> SUFFICES ASSUME NEW f \in DOMAIN dials, f # d PROVE DialInv(f)'
    BY <1>5, <2>1
  <2>2. DialInv(f) /\ dials'[f] = dials[f] /\ f # None
    BY <1>5, TypeFacts DEF IInv, None
  <2>3. dials[f].home = h => ~ UnderWay(f) /\ ~ (Installed(f) /\ ~ dials[f].connDone)
    BY <1>2, <2>2 DEF DialInv
  <2>4. dials[f].home # h => states'[dials[f].home] = states[dials[f].home]
    BY <1>3, <2>2 DEF DialInv
  <2> QED BY <1>2, <1>3, <1>4, <1>7, <2>2, <2>3, <2>4 DEF DialInv, Installed, UnderWay
<1>12. NoLeak'
  <2> SUFFICES ASSUME NEW f \in DOMAIN dials, f # d, dials[f].conn # "none", dials[f].stage # "install"
               PROVE  f \in states'[dials[f].home].all /\ dials[f].home \in {cur} \cup draining
    BY <1>2, <1>4, <1>5, <1>6, <1>7, ZenonT(120) DEF NoLeak
  <2>1. /\ f \in states[dials[f].home].all /\ dials[f].home \in {cur} \cup draining
        /\ dials[f].home \in DOMAIN states
    BY Zenon DEF IInv, NoLeak, DialInv
  <2> QED BY <1>3, <1>4, <2>1
<1>13. \A b \in Calls : CallInv(b)'
  <2> SUFFICES ASSUME NEW b \in Calls PROVE CallInv(b)'
    OBVIOUS
  <2>1. CallInv(b) /\ calls'[b] = calls[b]
    BY <1>7 DEF IInv
  <2>2. ASSUME NEW f \in DOMAIN dials
        PROVE  /\ dials'[f].home = dials[f].home /\ dials'[f].starter = dials[f].starter
               /\ Installed(f) => Installed(f)' /\ f # d
               /\ dials[f].home \in DOMAIN states
    <3>1. f # d => dials'[f] = dials[f]
      BY <1>5
    <3> QED BY <1>2, <1>6, <3>1, ZenonT(120) DEF Installed, IInv, DialInv
  <2>3. ASSUME NEW f \in DOMAIN dials, f # d, states'[dials[f].home].shared = f
        PROVE  states'[dials[f].home] = states[dials[f].home]
    BY <1>3, <1>4, <2>2, <2>3, Zenon
  <2>4. DOMAIN dials \subseteq DOMAIN dials' /\ cur' = cur
    BY <1>5, <1>7, Zenon
  <2> QED BY <2>1, <2>2, <2>3, <2>4, CallInvKept, Zenon
<1>14. CreatedOnce'
  BY <1>7 DEF IInv, CreatedOnce
<1>15. LinkStep
  <2>1. d \in 1 .. MaxDials /\ View(d) = "none"
    BY <1>1, <1>6 DEF View, DialInv
  <2>2. View(d)' = "fresh"
    BY <1>2, <1>4, <1>5, <1>6, <1>7 DEF View, IInv, StatesInv
  <2>3. ASSUME NEW e \in 1 .. MaxDials
        PROVE  View(e) \notin {"fresh", "claimed"} /\ (e # d => View(e)' = View(e))
    <3>1. CASE e \in DOMAIN dials
      <4>1. DialInv(e) /\ (e # d => dials'[e] = dials[e]) /\ e # None
        BY <1>5, <3>1, TypeFacts DEF IInv, None
      <4>2. dials[e].home = cur => View(e) = (IF Installed(e) THEN "done" ELSE "none")
        BY <1>2, <3>1, <4>1 DEF DialInv, View
      <4>3. dials[e].home = cur /\ e # d => View(e)' = (IF Installed(e) THEN "done" ELSE "none")
        BY <1>2, <1>5, <3>1, <4>1 DEF DialInv, View, Installed
      <4>4. dials[e].home # cur /\ e # d => View(e)' = View(e)
        BY <1>2, <1>3, <1>5, <1>7, <3>1, <4>1 DEF DialInv, View, Installed
      <4>5. dials[e].home # cur => View(e) \notin {"fresh", "claimed"}
        BY DEF View
      <4> QED BY <4>2, <4>3, <4>4, <4>5
    <3>2. CASE e \notin DOMAIN dials
      BY <1>5, <3>2 DEF View
    <3> QED BY <3>1, <3>2
  <2> QED BY <2>1, <2>2, <2>3 DEF LinkStep, Moves
<1> QED BY <1>8, <1>9, <1>10, <1>11, <1>12, <1>13, <1>14, <1>15 DEF IInv, StepOK

(* Reset and Close detach the shared connection, if there is one. *)
LEMMA LeavesState ==
  ASSUME IInv, cur # None, cur' \notin DOMAIN states, UNCHANGED dials,
         DOMAIN states \subseteq DOMAIN states',
         \A s \in DOMAIN states : states'[s] = states[s]
  PROVE  LinkStep
<1>1. cur \in DOMAIN states /\ SharedInv(cur) /\ ~ states[cur].cancelled
  BY Zenon DEF IInv, StatesInv
<1>2. ASSUME NEW e \in DOMAIN dials
      PROVE  /\ DialInv(e) /\ dials[e].home # cur' /\ states'[dials[e].home] = states[dials[e].home]
             /\ Installed(e)' <=> Installed(e)
  BY DEF IInv, DialInv, Installed
<1>3. ASSUME NEW e \in 1 .. MaxDials, e # states[cur].shared PROVE View(e)' = View(e)
  <2>1. CASE e \in DOMAIN dials
    BY <1>2, <1>3, <2>1 DEF View, DialInv
  <2>2. CASE e \notin DOMAIN dials
    BY <2>2 DEF View
  <2> QED BY <2>1, <2>2
<1>4. CASE states[cur].shared = None
  BY <1>3, <1>4 DEF LinkStep, Quiet, None
<1>5. CASE states[cur].shared # None
  <2>1. PICK d \in DOMAIN dials : /\ d = states[cur].shared /\ dials[d].home = cur /\ Installed(d)
                                  /\ ~ dials[d].connDone
    BY <1>1, <1>5 DEF SharedInv
  <2>2. View(d) \in {"fresh", "claimed"}
    BY <1>1, <2>1 DEF View
  <2>3. View(d)' = "detached"
    BY <1>1, <1>2, <2>1, Zenon DEF View
  <2>4. d \in 1 .. MaxDials
    BY <1>2 DEF DialInv
  <2> QED BY <1>3, <2>1, <2>2, <2>3, <2>4 DEF LinkStep, Moves
<1> QED BY <1>4, <1>5

(* The pool gets an empty state. *)
LEMMA ResetStep ==
  ASSUME IInv, Reset PROVE StepOK
<1>1. PICK n \in Nat : /\ n = Len(states) + 1 /\ n # None
                       /\ states \in Seq(State) /\ DOMAIN states = 1 .. Len(states) /\ Len(states) \in Nat
  BY TypeFacts DEF IInv, Types, None
<1>2. newConnPoolState \in State
  BY DEF newConnPoolState, State, None
<1>3. /\ states' \in Seq(State) /\ DOMAIN states' = DOMAIN states \cup {n} /\ n \notin DOMAIN states
      /\ \A s \in DOMAIN states : states'[s] = states[s]
      /\ states'[n] = newConnPoolState
  BY <1>1, <1>2 DEF Reset
<1>4. /\ states'[n].all = {} /\ states'[n].shared = None /\ ~ states'[n].claimed
      /\ states'[n].connecting = None /\ ~ states'[n].cancelled
  BY <1>3 DEF newConnPoolState
<1>5. /\ cur' = n /\ cur \in DOMAIN states /\ cur \in Nat /\ draining' = draining \cup {cur}
      /\ UNCHANGED <<dials, calls>>
  BY <1>1 DEF Reset, IInv, StatesInv, Types
<1>6. Types'
  BY <1>1, <1>3, <1>5, Zenon DEF IInv, Types
<1>7. StatesInv'
  BY <1>3, <1>4, <1>5 DEF IInv, StatesInv
<1>8. \A s \in DOMAIN states' : SharedInv(s)'
  <2>1. SharedInv(n)'
    BY <1>4, Zenon DEF SharedInv
  <2>2. ASSUME NEW s \in DOMAIN states PROVE SharedInv(s)'
    <3>1. SharedInv(s) /\ states'[s] = states[s] /\ dials' = dials
      BY <1>3, <1>5, Zenon DEF IInv
    <3> QED BY <3>1, Zenon DEF SharedInv, Installed, UnderWay
  <2> QED BY <1>3, <2>1, <2>2, Zenon
<1>9. \A d \in DOMAIN dials' : DialInv(d)'
  <2> SUFFICES ASSUME NEW d \in DOMAIN dials PROVE DialInv(d)'
    BY <1>5, Zenon
  <2>1. DialInv(d) /\ states'[dials[d].home] = states[dials[d].home] /\ dials[d].home # n
    BY <1>3 DEF IInv, DialInv
  <2> QED BY <1>3, <1>5, <2>1 DEF DialInv, Installed, UnderWay
<1>10. NoLeak'
  <2> SUFFICES ASSUME NEW d \in DOMAIN dials, dials[d].conn # "none", dials[d].stage # "install"
               PROVE  d \in states'[dials[d].home].all /\ dials[d].home \in {n} \cup draining'
    BY <1>5, Zenon DEF NoLeak
  <2>1. /\ d \in states[dials[d].home].all /\ dials[d].home \in {cur} \cup draining
        /\ dials[d].home \in DOMAIN states
    BY Zenon DEF IInv, NoLeak, DialInv
  <2> QED BY <1>3, <1>5, <2>1
<1>11. \A c \in Calls : CallInv(c)'
  <2> SUFFICES ASSUME NEW c \in Calls PROVE CallInv(c)'
    OBVIOUS
  <2>1. CallInv(c) /\ cur # None
    BY Zenon DEF IInv, Reset
  <2>2. ASSUME NEW d \in DOMAIN dials
        PROVE  states'[dials[d].home] = states[dials[d].home] /\ dials[d].home # n
    BY <1>3, Zenon DEF IInv, DialInv
  <2> QED BY <1>5, <2>1, <2>2, Zenon DEF CallInv, Installed
<1>12. CreatedOnce'
  BY <1>5 DEF IInv, CreatedOnce
<1>13. LinkStep
  BY <1>3, <1>5, LeavesState DEF Reset
<1> QED BY <1>6, <1>7, <1>8, <1>9, <1>10, <1>11, <1>12, <1>13 DEF IInv, StepOK

LEMMA CloseStep ==
  ASSUME IInv, Close PROVE StepOK
<1>1. /\ cur' = None /\ cur # None /\ cur \in DOMAIN states /\ cur \in Nat /\ None \notin DOMAIN states
      /\ draining' = draining \cup {cur} /\ UNCHANGED <<states, dials, calls>>
  BY TypeFacts DEF Close, IInv, StatesInv, Types, None
<1>2. Types'
  BY <1>1 DEF IInv, Types, None
<1>3. StatesInv'
  BY <1>1, Zenon DEF IInv, StatesInv
<1>4. \A s \in DOMAIN states' : SharedInv(s)'
  BY <1>1, ZenonT(120) DEF IInv, SharedInv, Installed, UnderWay
<1>5. \A d \in DOMAIN dials' : DialInv(d)'
  BY <1>1, ZenonT(120) DEF IInv, DialInv, Installed, UnderWay
<1>6. NoLeak'
  BY <1>1, Zenon DEF IInv, NoLeak
<1>7. \A c \in Calls : CallInv(c)'
  BY <1>1, ZenonT(120) DEF IInv, CallInv, Installed
<1>8. CreatedOnce'
  BY <1>1 DEF IInv, CreatedOnce
<1>9. LinkStep
  BY <1>1, LeavesState
<1> QED BY <1>2, <1>3, <1>4, <1>5, <1>6, <1>7, <1>8, <1>9 DEF IInv, StepOK

(* What was tracked by a replaced state is closed. *)
LEMMA closeStateStep ==
  ASSUME IInv, NEW s \in DOMAIN states, closeState(s) PROVE StepOK
<1>1. states \in Seq(State) /\ states[s] \in State /\ SharedInv(s) /\ s # cur
  BY DEF IInv, Types, closeState, StatesInv
<1>2. /\ states' \in Seq(State) /\ DOMAIN states' = DOMAIN states
      /\ \A t \in DOMAIN states \ {s} : states'[t] = states[t]
      /\ states'[s] = [states[s] EXCEPT !.cancelled = TRUE]
  <2>1. PICK r \in State : r = [states[s] EXCEPT !.cancelled = TRUE]
    BY <1>1, Zenon DEF State
  <2>2. states' = [states EXCEPT ![s] = r]
    BY <1>1, <2>1 DEF closeState
  <2> QED BY <1>1, <2>1, <2>2
<1>3. /\ states'[s].all = states[s].all /\ states'[s].shared = states[s].shared
      /\ states'[s].claimed = states[s].claimed /\ states'[s].connecting = states[s].connecting
      /\ states'[s].cancelled
  BY <1>1, <1>2 DEF State
<1>4. UNCHANGED <<cur, calls>> /\ draining' = draining \ {s} /\ s \in draining
  BY DEF closeState
<1>5. /\ dials' \in Seq(Dial) /\ DOMAIN dials' = DOMAIN dials
      /\ \A d \in DOMAIN dials : dials'[d] = IF d \in states[s].all THEN [dials[d] EXCEPT !.conn = "none"]
                                             ELSE dials[d]
  <2>1. \A d \in DOMAIN dials : dials[d] \in Dial
    BY TypeFacts DEF IInv
  <2>2. \A d \in DOMAIN dials : [dials[d] EXCEPT !.conn = "none"] \in Dial
    BY <2>1 DEF Dial
  <2>3. /\ DOMAIN dials' = DOMAIN dials
        /\ \A d \in DOMAIN dials : dials'[d] = IF d \in states[s].all THEN [dials[d] EXCEPT !.conn = "none"]
                                               ELSE dials[d]
        /\ dials' = [d \in DOMAIN dials |-> dials'[d]]
    BY DEF closeState, CloseAll
  <2>4. \A d \in DOMAIN dials : dials'[d] \in Dial
    BY <2>1, <2>2, <2>3
  <2>5. DOMAIN dials = 1 .. Len(dials) /\ Len(dials) \in Nat
    BY TypeFacts DEF IInv
  <2> QED BY <2>3, <2>4, <2>5
<1>6. \A d \in DOMAIN dials :
        /\ dials'[d].home = dials[d].home /\ dials'[d].starter = dials[d].starter
        /\ dials'[d].stage = dials[d].stage /\ dials'[d].err = dials[d].err
        /\ dials'[d].connDone = dials[d].connDone
        /\ dials'[d].conn = IF d \in states[s].all THEN "none" ELSE dials[d].conn
  <2> SUFFICES ASSUME NEW d \in DOMAIN dials
               PROVE  /\ dials'[d].home = dials[d].home /\ dials'[d].starter = dials[d].starter
                      /\ dials'[d].stage = dials[d].stage /\ dials'[d].err = dials[d].err
                      /\ dials'[d].connDone = dials[d].connDone
                      /\ dials'[d].conn = IF d \in states[s].all THEN "none" ELSE dials[d].conn
    OBVIOUS
  <2>1. dials[d] \in Dial
    BY TypeFacts DEF IInv
  <2> QED BY <1>5, <2>1 DEF Dial
<1>7. \A t \in DOMAIN states :
        /\ states'[t].all = states[t].all /\ states'[t].shared = states[t].shared
        /\ states'[t].claimed = states[t].claimed /\ states'[t].connecting = states[t].connecting
  BY <1>2, <1>3, Zenon
<1>8. Types'
  BY <1>2, <1>4, <1>5 DEF IInv, Types
<1>9. StatesInv'
  BY <1>1, <1>2, <1>3, <1>4, Zenon DEF IInv, StatesInv
<1>10. \A t \in DOMAIN states' : SharedInv(t)'
  BY <1>2, <1>5, <1>6, <1>7 DEF IInv, SharedInv, Installed, UnderWay
<1>11. \A d \in DOMAIN dials' : DialInv(d)'
  <2> SUFFICES ASSUME NEW d \in DOMAIN dials PROVE DialInv(d)'
    BY <1>5
  <2>1. DialInv(d)
    BY DEF IInv
  <2> QED BY <1>2, <1>4, <1>6, <1>7, <2>1 DEF DialInv, Installed, UnderWay
<1>12. NoLeak'
  <2> SUFFICES ASSUME NEW d \in DOMAIN dials, dials'[d].conn # "none", dials[d].stage # "install"
               PROVE  d \in states'[dials[d].home].all /\ dials[d].home \in {cur} \cup draining'
    BY <1>4, <1>5, <1>6 DEF NoLeak
  <2>1. dials[d].conn # "none" /\ d \notin states[s].all
    BY <1>6, Zenon
  <2>2. /\ d \in states[dials[d].home].all /\ dials[d].home \in {cur} \cup draining
        /\ dials[d].home \in DOMAIN states
    BY <2>1, Zenon DEF IInv, NoLeak, DialInv
  <2> QED BY <1>4, <1>7, <2>1, <2>2
<1>13. \A c \in Calls : CallInv(c)'
  <2> SUFFICES ASSUME NEW c \in Calls PROVE CallInv(c)'
    OBVIOUS
  <2>1. CallInv(c)
    BY Zenon DEF IInv
  <2>2. \A d \in DOMAIN dials : dials[d].home \in DOMAIN states
    BY DEF IInv, DialInv
  <2> QED BY <1>4, <1>5, <1>6, <1>7, <2>1, <2>2 DEF CallInv, Installed
<1>14. CreatedOnce'
  BY <1>4 DEF IInv, CreatedOnce
<1>15. LinkStep
  <2>1. ASSUME NEW e \in 1 .. MaxDials, e # states[s].shared PROVE View(e)' = View(e)
    <3>1. CASE e \in DOMAIN dials
      <4>1. DialInv(e) /\ (Installed(e)' <=> Installed(e)) /\ e \in DOMAIN dials'
        BY <1>5, <1>6, <3>1, Zenon DEF IInv, Installed
      <4>2. dials[e].home = s => View(e) = (IF Installed(e) THEN "done" ELSE "none")
        BY <2>1, <3>1, <4>1, Zenon DEF DialInv, View
      <4>3. dials[e].home = s => View(e)' = (IF Installed(e) THEN "done" ELSE "none")
        BY <1>3, <1>6, <3>1, <4>1 DEF View
      <4>4. dials[e].home # s => View(e)' = View(e)
        <5>1. dials[e].home # s => states'[dials[e].home] = states[dials[e].home]
          BY <1>2, <4>1 DEF DialInv
        <5>2. cur # s /\ (dials[e].home = cur => states'[cur] = states[cur])
          BY <1>1, <1>2, <4>1 DEF DialInv
        <5> QED BY <1>4, <1>6, <3>1, <4>1, <5>1, <5>2 DEF View
      <4> QED BY <4>2, <4>3, <4>4
    <3>2. CASE e \notin DOMAIN dials
      BY <1>5, <3>2 DEF View
    <3> QED BY <3>1, <3>2
  <2>2. CASE states[s].shared = None
    BY <2>1, <2>2 DEF LinkStep, Quiet, None
  <2>3. CASE states[s].shared # None
    <3>1. PICK d \in DOMAIN dials : /\ d = states[s].shared /\ dials[d].home = s /\ Installed(d)
                                    /\ DialInv(d) /\ Installed(d)' /\ ~ dials[d].connDone
      BY <1>1, <1>6, <2>3 DEF IInv, SharedInv, Installed
    <3>2. View(d) \in {"detached", "done"}
      BY <1>1, <3>1 DEF View
    <3>3. View(d)' = "done"
      BY <1>3, <1>5, <1>6, <3>1 DEF View
    <3>4. CASE View(d) = "done"
      BY <2>1, <3>1, <3>3, <3>4, Zenon DEF LinkStep, Quiet
    <3>5. CASE View(d) = "detached"
      BY <2>1, <3>1, <3>3, <3>5 DEF LinkStep, Moves, DialInv
    <3> QED BY <3>2, <3>4, <3>5, Zenon
  <2> QED BY <2>2, <2>3
<1> QED BY <1>8, <1>9, <1>10, <1>11, <1>12, <1>13, <1>14, <1>15 DEF IInv, StepOK

-----------------------------------------------------------------------------
LEMMA InitInvariant == Init => IInv
<1> SUFFICES ASSUME Init PROVE IInv
  OBVIOUS
<1>1. newConnPoolState \in State
  BY DEF newConnPoolState, State, None
<1>2. /\ states = <<newConnPoolState>> /\ cur = 1 /\ dials = << >> /\ draining = {}
      /\ DOMAIN states = {1} /\ states[1] = newConnPoolState /\ DOMAIN dials = {}
  BY DEF Init
<1>3. \A c \in Calls : calls[c] = [pc |-> "acquire", at |-> None, created |-> FALSE,
                                   result |-> "none", ctxDone |-> FALSE]
  BY DEF Init
<1>4. Types
  <2>1. calls \in [Calls -> Call]
    BY DEF Init, Call, None
  <2> QED BY <1>1, <1>2, <2>1 DEF Types
<1>5. StatesInv
  BY <1>2 DEF StatesInv, newConnPoolState
<1>6. \A s \in DOMAIN states : SharedInv(s)
  BY <1>2 DEF SharedInv, newConnPoolState
<1>7. (\A d \in DOMAIN dials : DialInv(d)) /\ NoLeak
  BY <1>2, Zenon DEF NoLeak
<1>8. \A c \in Calls : CallInv(c)
  BY <1>3 DEF CallInv
<1>9. CreatedOnce
  BY <1>3 DEF CreatedOnce
<1> QED BY <1>4, <1>5, <1>6, <1>7, <1>8, <1>9 DEF IInv

LEMMA StepInvariant == IInv /\ [Next]_vars => StepOK
<1> SUFFICES ASSUME IInv, [Next]_vars PROVE StepOK
  OBVIOUS
<1>1. CASE UNCHANGED vars
  <2>1. IInv'
    <3>1. Types' /\ StatesInv' /\ NoLeak' /\ CreatedOnce'
      BY <1>1, Zenon DEF vars, IInv, Types, StatesInv, NoLeak, CreatedOnce
    <3>2. \A s \in DOMAIN states' : SharedInv(s)'
      BY <1>1, Zenon DEF vars, IInv, SharedInv, Installed, UnderWay
    <3>3. \A d \in DOMAIN dials' : DialInv(d)'
      BY <1>1 DEF vars, IInv, DialInv, Installed, UnderWay
    <3>4. \A c \in Calls : CallInv(c)'
      BY <1>1, ZenonT(120) DEF vars, IInv, CallInv, Installed
    <3> QED BY <3>1, <3>2, <3>3, <3>4, Zenon DEF IInv
  <2>2. LinkStep
    BY <1>1 DEF vars, LinkStep, Quiet, View, Installed
  <2> QED BY <2>1, <2>2 DEF StepOK
<1>2. ASSUME NEW c \in Calls, Acquire(c) PROVE StepOK
  BY <1>2, AcquireClosedStep, AcquireFoundStep, AcquireJoinStep, AcquireDialStep, CollectErrorStep,
     CollectStaleStep, CollectGoneStep, CollectFoundStep, SelectContextStep, SelectStateStep DEF Acquire
<1>3. ASSUME NEW c \in Calls, Dispose(c) \/ Cancel(c) PROVE StepOK
  BY <1>3, ReleaseUntrackedStep, DiscardStep, ReleaseForReuseStep, InvalidateUntrackedStep,
     CancelStep DEF Dispose
<1>4. ASSUME NEW d \in DOMAIN dials, connectSingle(d) \/ Die(d) PROVE StepOK
  BY <1>4, DialFailsStep, DialSucceedsStep, InstallErrorStep, InstallStaleStep, InstallStep,
     FinishStep, DieStep DEF connectSingle
<1>5. ASSUME NEW s \in DOMAIN states, closeState(s) PROVE StepOK
  BY <1>5, closeStateStep
<1>6. CASE Reset \/ Close
  BY <1>6, ResetStep, CloseStep
<1> QED BY <1>1, <1>2, <1>3, <1>4, <1>5, <1>6 DEF Next

LEMMA Invariance == Spec => []IInv
<1>1. IInv /\ [Next]_vars => IInv'
  BY StepInvariant DEF StepOK
<1> QED BY <1>1, InitInvariant, PTL DEF Spec

-----------------------------------------------------------------------------
(* However Reset, Close, a failing dial and the callers interleave, a      *)
(* connection that conn_pool.go has not closed is tracked by the current   *)
(* state or by one that closeState will visit, or is still in              *)
(* connectSingle.                                                          *)
THEOREM ConnectionsNeverLeak == Spec => []NoLeak
<1>1. IInv => NoLeak
  BY DEF IInv
<1> QED BY <1>1, Invariance, PTL

(* AcquireShared says "created" to one call for each connection. *)
THEOREM OneCreator == Spec => []CreatedOnce
<1>1. IInv => CreatedOnce
  BY Zenon DEF IInv
<1> QED BY <1>1, Invariance, PTL

(* AcquireShared returns an error only for a reason of its own caller,     *)
(* though callers share the dial that failed.                              *)
THEOREM ErrorsAreOwn == Spec => []OwnErrorsOnly
<1>1. IInv => OwnErrorsOnly
  BY Zenon DEF IInv, CallInv, OwnErrorsOnly
<1> QED BY <1>1, Invariance, PTL

(* A connection that AcquireShared no longer gives out has its context     *)
(* cancelled, or is about to by closeState.                                *)
THEOREM LossesAreSignalled == Spec => []LossIsSignalled
<1>1. IInv => LossIsSignalled
  BY DEF IInv, DialInv, StatesInv, LossIsSignalled
<1> QED BY <1>1, Invariance, PTL

(* The pool is the SharedLink that the DNS query multiplexer is verified   *)
(* against: every critical section of p.access is a step of it, or         *)
(* invisible to the pool's users.                                          *)
THEOREM PoolRefinement == Spec => ImplementsSharedLink
<1> DEFINE m == [d \in 1 .. MaxDials |->
             IF d \notin DOMAIN dials THEN "none"
             ELSE IF ~ Installed(d) THEN "none"
             ELSE IF dials[d].connDone \/ states[dials[d].home].cancelled THEN "done"
             ELSE IF dials[d].home # cur THEN "detached"
             ELSE IF states[cur].claimed THEN "claimed" ELSE "fresh"]
<1>1. Init => Link!Init
  BY DEF Init, Link!Init
<1>2. IInv /\ [Next]_vars => [Link!Next]_m
  <2> SUFFICES ASSUME LinkStep PROVE [Link!Next]_m
    BY StepInvariant DEF StepOK
  <2>1. /\ m = [d \in 1 .. MaxDials |-> View(d)]
        /\ m' = [d \in 1 .. MaxDials |-> View(d)']
    BY DEF View
  <2>2. CASE Quiet
    BY <2>1, <2>2 DEF Quiet
  <2>3. ASSUME NEW d \in 1 .. MaxDials,
               \/ /\ View(d) = "none" /\ Moves(d, "fresh")
                  /\ \A e \in 1 .. MaxDials : View(e) \notin {"fresh", "claimed"}
               \/ View(d) = "fresh" /\ Moves(d, "claimed")
               \/ View(d) \in {"fresh", "claimed"} /\ Moves(d, "done")
               \/ View(d) \in {"fresh", "claimed"} /\ Moves(d, "detached")
               \/ View(d) = "detached" /\ Moves(d, "done")
        PROVE  Link!Next
    <3>1. \A to : Moves(d, to) => m' = [m EXCEPT ![d] = to]
      <4> HIDE DEF m
      <4> QED BY <2>1, Zenon DEF Moves
    <3>2. \A e \in 1 .. MaxDials : m[e] = View(e)
      BY <2>1
    <3>3. Link!Establish(d) \/ Link!Claim(d) \/ Link!Remove(d) \/ Link!Detach(d) \/ Link!Signal(d)
      BY <2>3, <3>1, <3>2, Zenon DEF Link!Establish, Link!Claim, Link!Remove, Link!Detach, Link!Signal,
                                     Link!Current
    <3> QED BY <3>3 DEF Link!Next
  <2> QED BY <2>2, <2>3, Zenon DEF LinkStep
<1> QED BY <1>1, <1>2, Invariance, PTL DEF Spec, ImplementsSharedLink, Link!Spec

=============================================================================
