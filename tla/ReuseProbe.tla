----------------------------- MODULE ReuseProbe -----------------------------
(***************************************************************************)
(* dns/transport/multiplexer.go: how a multiplexer with probeReuse finds   *)
(* out whether the server answers several queries on one connection.       *)
(* Queries go over a connection of their own until a probe, run in the     *)
(* background, says that the server does; too many connections lost with   *)
(* queries pending take that back.  Reset forgets what was found out.      *)
(*                                                                         *)
(* One action is one critical section of probeAccess or one access to an   *)
(* atomic variable.                                                        *)
(***************************************************************************)
EXTENDS Integers, FiniteSets

CONSTANTS
  Dispatchers,   \* goroutines in dispatch
  Deaths,        \* goroutines in recordConnDeath
  Probers,       \* goroutines in runReuseProbe
  MaxResets,     \* bound on the number of Resets
  DemoteLimit    \* reuseDemoteFailureLimit

ASSUME BoundsAssumption == MaxResets \in Nat /\ DemoteLimit \in Nat

VARIABLES
  reuseState,     \* m.reuseState
  probeEpoch,     \* m.probeEpoch, counting Resets
  recent,         \* m.lastProbeTime is less than reuseProbeRetryInterval ago
  demoteFailures, \* m.demoteFailures
  prober,         \* the epoch a probe runs for, or Idle
  dispatcher,     \* ready, or start: it has read that reuse is not supported
  death,          \* ready, add, demote, clear
  resetting       \* Reset has left probeAccess and not cleared demoteFailures

reuseVars == <<reuseState, probeEpoch, recent, demoteFailures, prober, dispatcher, death, resetting>>

Idle == MaxResets + 1

ReuseInit ==
  /\ reuseState = "unknown"
  /\ probeEpoch = 0
  /\ recent = FALSE
  /\ demoteFailures = 0
  /\ prober = [p \in Probers |-> Idle]
  /\ dispatcher = [d \in Dispatchers |-> "ready"]
  /\ death = [c \in Deaths |-> "ready"]
  /\ resetting = FALSE

-----------------------------------------------------------------------------
(* dispatch, maybeStartProbe. *)

(* dispatch reads reuseState; exchangeAsync or exchangeSingle is not our concern. *)
dispatch(d) ==
  /\ dispatcher[d] = "ready"
  /\ reuseState # "supported"
  /\ dispatcher' = [dispatcher EXCEPT ![d] = "start"]
  /\ UNCHANGED <<reuseState, probeEpoch, recent, demoteFailures, prober, death, resetting>>

DontProbe(d) ==
  /\ dispatcher[d] = "start"
  /\ reuseState = "probing" \/ recent
  /\ dispatcher' = [dispatcher EXCEPT ![d] = "ready"]
  /\ UNCHANGED <<reuseState, probeEpoch, recent, demoteFailures, prober, death, resetting>>

(* Mutant: only the time of the last probe is looked at. *)
StartProbeAlways(d, p) ==
  /\ dispatcher[d] = "start"
  /\ ~ recent
  /\ prober[p] = Idle
  /\ reuseState' = "probing"
  /\ prober' = [prober EXCEPT ![p] = probeEpoch]
  /\ dispatcher' = [dispatcher EXCEPT ![d] = "ready"]
  /\ UNCHANGED <<recent, probeEpoch, demoteFailures, death, resetting>>

StartProbe(d, p) ==
  /\ dispatcher[d] = "start"
  /\ reuseState # "probing"
  /\ ~ recent
  /\ prober[p] = Idle
  /\ reuseState' = "probing"
  /\ recent' = TRUE
  /\ prober' = [prober EXCEPT ![p] = probeEpoch]
  /\ dispatcher' = [dispatcher EXCEPT ![d] = "ready"]
  /\ UNCHANGED <<probeEpoch, demoteFailures, death, resetting>>

-----------------------------------------------------------------------------
(* runReuseProbe, once executeReuseProbe has returned. *)

(* Mutant: the epoch is not compared. *)
FinishAnyProbe(p, found) ==
  /\ prober[p] # Idle
  /\ reuseState' = found
  /\ demoteFailures' = IF found = "supported" THEN 0 ELSE demoteFailures
  /\ prober' = [prober EXCEPT ![p] = Idle]
  /\ UNCHANGED <<probeEpoch, recent, dispatcher, death, resetting>>

(* Mutant: a probe without reuseProbeTimeout, which a silent server holds  *)
(* until a Reset closes its connection.                                    *)
FinishProbeUntimed(p, found) ==
  /\ prober[p] \notin {Idle, probeEpoch}
  /\ prober' = [prober EXCEPT ![p] = Idle]
  /\ UNCHANGED <<reuseState, demoteFailures, probeEpoch, recent, dispatcher, death, resetting>>

FinishProbe(p, found) ==
  /\ prober[p] # Idle
  /\ IF prober[p] = probeEpoch
     THEN /\ reuseState' = found
          /\ demoteFailures' = IF found = "supported" THEN 0 ELSE demoteFailures
     ELSE UNCHANGED <<reuseState, demoteFailures>>
  /\ prober' = [prober EXCEPT ![p] = Idle]
  /\ UNCHANGED <<probeEpoch, recent, dispatcher, death, resetting>>

Findings == {"supported", "unsupported", "unknown"}

-----------------------------------------------------------------------------
(* recordConnDeath of a connection that has been read from. *)

NoteDeath(c) ==
  /\ death[c] = "ready"
  /\ reuseState = "supported"
  /\ \/ death' = [death EXCEPT ![c] = "add"] /\ UNCHANGED demoteFailures
     \/ UNCHANGED death /\ demoteFailures' = 0      \* no query was pending on it
  /\ UNCHANGED <<reuseState, probeEpoch, recent, prober, dispatcher, resetting>>

CountDeath(c) ==
  /\ death[c] = "add"
  /\ demoteFailures' = demoteFailures + 1
  /\ death' = [death EXCEPT ![c] = IF demoteFailures + 1 < DemoteLimit THEN "ready" ELSE "demote"]
  /\ UNCHANGED <<reuseState, probeEpoch, recent, prober, dispatcher, resetting>>

Demote(c) ==
  /\ death[c] = "demote"
  /\ IF reuseState = "supported"
     THEN reuseState' = "unsupported" /\ recent' = TRUE
     ELSE UNCHANGED <<reuseState, recent>>
  /\ death' = [death EXCEPT ![c] = "clear"]
  /\ UNCHANGED <<probeEpoch, demoteFailures, prober, dispatcher, resetting>>

(* Mutant: the failures that were counted are taken off instead of cleared. *)
ClearDeathsCounted(c) ==
  /\ death[c] = "clear"
  /\ demoteFailures' = demoteFailures - DemoteLimit
  /\ death' = [death EXCEPT ![c] = "ready"]
  /\ UNCHANGED <<reuseState, probeEpoch, recent, prober, dispatcher, resetting>>

ClearDeaths(c) ==
  /\ death[c] = "clear"
  /\ demoteFailures' = 0
  /\ death' = [death EXCEPT ![c] = "ready"]
  /\ UNCHANGED <<reuseState, probeEpoch, recent, prober, dispatcher, resetting>>

-----------------------------------------------------------------------------
Reset ==
  /\ ~ resetting
  /\ probeEpoch < MaxResets
  /\ probeEpoch' = probeEpoch + 1
  /\ reuseState' = "unknown"
  /\ recent' = FALSE
  /\ resetting' = TRUE
  /\ UNCHANGED <<demoteFailures, prober, dispatcher, death>>

FinishReset ==
  /\ resetting
  /\ resetting' = FALSE
  /\ demoteFailures' = 0
  /\ UNCHANGED <<reuseState, probeEpoch, recent, prober, dispatcher, death>>

(* The minute of reuseProbeRetryInterval passes, which it does not while a *)
(* probe is running: a probe takes reuseProbeTimeout, five seconds.        *)
Elapse ==
  /\ recent
  /\ \A p \in Probers : prober[p] # probeEpoch
  /\ recent' = FALSE
  /\ UNCHANGED <<reuseState, probeEpoch, demoteFailures, prober, dispatcher, death, resetting>>

ReuseNext ==
  \/ \E d \in Dispatchers :
       dispatch(d) \/ DontProbe(d) \/ \E p \in Probers : StartProbe(d, p)
  \/ \E p \in Probers, found \in Findings : FinishProbe(p, found)
  \/ \E c \in Deaths : NoteDeath(c) \/ CountDeath(c) \/ Demote(c) \/ ClearDeaths(c)
  \/ Reset \/ FinishReset \/ Elapse

ReuseSpec == ReuseInit /\ [][ReuseNext]_reuseVars

(* A probe has a timeout: it ends. *)
FairReuseSpec ==
  /\ ReuseSpec
  /\ \A p \in Probers : WF_reuseVars(\E found \in Findings : FinishProbe(p, found))

-----------------------------------------------------------------------------
(* The types; demoteFailures, which is added to and cleared without a lock, is never negative. *)
ReuseTypeOK ==
  /\ reuseState \in Findings \cup {"probing"}
  /\ probeEpoch \in 0 .. MaxResets
  /\ recent \in BOOLEAN
  /\ demoteFailures \in Nat
  /\ prober \in [Probers -> 0 .. Idle]
  /\ dispatcher \in [Dispatchers -> {"ready", "start"}]
  /\ death \in [Deaths -> {"ready", "add", "demote", "clear"}]
  /\ resetting \in BOOLEAN

(* The state says probing exactly while one probe of the current epoch is  *)
(* under way: no probe is ever doubled, however dispatchers, Resets and    *)
(* lost connections interleave, and none that is gone blocks the next.     *)
ProbingMeansOneProbe ==
  LET current == {p \in Probers : prober[p] = probeEpoch} IN
    /\ Cardinality(current) <= 1
    /\ reuseState = "probing" <=> current # {}

(* What was found out before a Reset does not outlive it: whatever ran on, *)
(* only a probe that was started since decides that reuse is supported.    *)
ResetForgets ==
  [][reuseState' = "supported" /\ reuseState # "supported"
       => \E p \in Probers : prober[p] = probeEpoch /\ prober'[p] = Idle /\ probeEpoch' = probeEpoch]_reuseVars

(* Probing ends, and dispatch may then probe again or use what was found. *)
ProbingEnds == reuseState = "probing" ~> reuseState # "probing"

=============================================================================
