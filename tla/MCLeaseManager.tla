--------------------------- MODULE MCLeaseManager ---------------------------
(* Three lease managers over three timeslots: LM1, which decides in the     *)
(* first, suspects both others in the second and goes on alone beside the   *)
(* real leader LM2, while LM3 is crashed.                                    *)
EXTENDS LeaseManager

MCCrashed  == [s \in Slot |-> IF s = 2 THEN {3} ELSE {}]
MCSuspects == [l \in LM |-> [s \in Slot |-> IF s = 2 /\ l = 1 THEN {2, 3} ELSE {}]]

\* The reply of LM1 to the second round may get lost.
MCMayFail == {<<<<2, 2>>, 1>>}

\* For the majority of a decision: nobody suspects anybody, and two of the
\* three LMs are crashed in the first timeslot.
MCMajorityCrashed == [s \in Slot |-> IF s = 1 THEN {2, 3} ELSE {}]
MCNoSuspects == [l \in LM |-> [s \in Slot |-> {}]]
=============================================================================
