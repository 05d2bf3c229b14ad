---------------------------- MODULE MCEventQuery ----------------------------
(* Every feed of at most four messages, and every answer of at most two.   *)
EXTENDS EventQuery, SequencesExt

MCFeeds == BoundedSeq({"event", "notice", "eose", "other", "bad"}, 4)
MCAnswers == BoundedSeq({"accept", "reject", "notice", "eose"}, 2)
=============================================================================
