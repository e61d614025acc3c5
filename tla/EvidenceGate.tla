------------------------------ MODULE EvidenceGate ------------------------------
(***************************************************************************)
(* What a source evidence run promises to the generations that rest on it, *)
(* without requests, transactions, files or rows: it is read before it is  *)
(* used; an observation passes only while it is what its user adopted last,*)
(* and begins to pass only by an adoption; a reading of the source leaves  *)
(* nothing that passes; and a clean-up is the end.                         *)
(***************************************************************************)

CONSTANT Images

VARIABLES
  phase,     \* the status of the run
  approved,  \* images whose observation is the one its user adopted
  passing    \* images whose observation passes the validation

vars == <<phase, approved, passing>>

Init == phase = "none" /\ approved = {} /\ passing = {}

\* The source is read, for the first time or again.
Read ==
  /\ phase \in {"none", "failed", "ready"} /\ phase' \in {"failed", "ready"}
  /\ passing' = {} /\ UNCHANGED approved

Adopt ==
  /\ UNCHANGED phase
  /\ \E f \in Images : approved' = approved \cup {f}
  /\ passing \subseteq passing' /\ passing' \subseteq approved'

\* A revocation, another observation, a retry or the expiry of the run.
Withdraw ==
  /\ UNCHANGED phase
  /\ approved' \subseteq approved
  /\ passing' \subseteq passing \cap approved'

Clean ==
  /\ phase \in {"failed", "ready"} /\ phase' = "cleaned"
  /\ passing' = {} /\ UNCHANGED approved

Contest == phase' = "contested"

Next == Read \/ Adopt \/ Withdraw \/ Clean \/ Contest

Spec == Init /\ [][Next]_vars

=============================================================================
