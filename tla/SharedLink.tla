----------------------------- MODULE SharedLink -----------------------------
(***************************************************************************)
(* What a ConnPool in ConnPoolSingle mode promises its users.  A link is a *)
(* connection of the pool: it is established, handed to a first caller     *)
(* (who is told that it was created) and then to others, and lost.  At     *)
(* most one link is current.  A lost link is never handed out again; its   *)
(* context is done at once, or soon after when Reset or Close lost it.     *)
(* SharedConnPool implements this and QueryMultiplexer is built on it.     *)
(***************************************************************************)
CONSTANT Links

VARIABLE link   \* none -> fresh -> claimed -> detached -> done, skipping some

Current(l) == link[l] \in {"fresh", "claimed"}

Init == link = [l \in Links |-> "none"]

Establish(l) ==
  /\ link[l] = "none"
  /\ \A m \in Links : ~ Current(m)
  /\ link' = [link EXCEPT ![l] = "fresh"]

Claim(l) ==
  /\ link[l] = "fresh"
  /\ link' = [link EXCEPT ![l] = "claimed"]

(* Invalidate, a Release without reuse, or a dead connection found. *)
Remove(l) ==
  /\ Current(l)
  /\ link' = [link EXCEPT ![l] = "done"]

(* Reset and Close, up to the end of the critical section ... *)
Detach(l) ==
  /\ Current(l)
  /\ link' = [link EXCEPT ![l] = "detached"]

(* ... and the cancellation of the state's context that follows. *)
Signal(l) ==
  /\ link[l] = "detached"
  /\ link' = [link EXCEPT ![l] = "done"]

Next == \E l \in Links : Establish(l) \/ Claim(l) \/ Remove(l) \/ Detach(l) \/ Signal(l)

Spec == Init /\ [][Next]_link

=============================================================================
