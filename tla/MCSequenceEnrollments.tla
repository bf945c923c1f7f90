------------------------ MODULE MCSequenceEnrollments ------------------------
(* SequenceEnrollments on small instances.                                 *)
EXTENDS SequenceEnrollments

CONSTANTS e1, e2

OneEnrollment  == {e1}
TwoEnrollments == {e1, e2}

SentOrCapped == {"sent", "capped"}
SendResults  == {"sent", "blocked", "transient", "permanent"}
SendOrFail   == {"sent", "transient", "permanent"}
TwoReports   == {"delivered", "failed"}
=============================================================================
