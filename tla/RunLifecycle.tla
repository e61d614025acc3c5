------------------------------ MODULE RunLifecycle -----------------------------
(***************************************************************************)
(* What a generation run promises its readers, without workers, stages,    *)
(* transactions or requests: it is active until it ends, an end is final   *)
(* except that a partial run may be reopened and that every run expires,   *)
(* and an expired run keeps no details. The coverage audit is apart: a     *)
(* worker that meets the end of the run while it audits leaves its record, *)
(* also in a run that has expired, and nothing removes it there.           *)
(*                                                                         *)
(* The promise holds as long as nobody writes on a stale reading; "what    *)
(* happens then" is the phase "contested", of which nothing is promised.   *)
(***************************************************************************)

VARIABLES
  phase,    \* what the status of the run means to a reader
  details,  \* whether chunks, atoms, cases, a payload or files exist
  audit     \* whether a coverage audit exists

vars == <<phase, details, audit>>

Ends == {"completed", "partial", "failed", "cancelled"}

Init == phase = "active" /\ details = FALSE /\ audit = FALSE

\* A stage is completed, or its results are discarded.
Advance == phase = "active" /\ phase' = "active" /\ details' \in BOOLEAN /\ audit' \in BOOLEAN

Finish == phase = "active" /\ phase' \in Ends /\ details' \in BOOLEAN /\ UNCHANGED audit

\* Failed chunks of a partial run are retried.
Reopen == phase = "partial" /\ phase' = "active" /\ UNCHANGED <<details, audit>>

\* Files of an ended run are rendered again, or cleared before it expires.
Rerender == phase \in Ends /\ details' \in BOOLEAN /\ UNCHANGED <<phase, audit>>

Expire == /\ phase \in Ends \cup {"active"} /\ phase' = "expired"
          /\ details' = FALSE /\ audit' = FALSE

\* The auditing worker is the one that finds the run overdue.
ExpireAudited == /\ phase \in Ends \cup {"active"} /\ phase' = "expired"
                 /\ details' = FALSE /\ audit' = TRUE

\* The auditing worker finds that the run has ended.
LateAudit == /\ phase \in Ends \cup {"expired"} /\ audit' = TRUE
             /\ UNCHANGED <<phase, details>>

Contest == phase' = "contested" /\ details' = TRUE /\ audit' = TRUE

Next == Advance \/ Finish \/ Reopen \/ Rerender \/ Expire \/ ExpireAudited
        \/ LateAudit \/ Contest

Spec == Init /\ [][Next]_vars

=============================================================================
