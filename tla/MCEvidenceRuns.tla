---------------------------- MODULE MCEvidenceRuns ----------------------------
(* One image and one attachment, two resource ids, and two requests, either of
   which may also be the scheduled clean-up. *)
EXTENDS EvidenceRuns, Sequences

CONSTANTS a, b, r1, r2

MCSources == {<<a, b>>, <<b>>}
=============================================================================
