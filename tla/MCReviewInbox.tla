---------------------------- MODULE MCReviewInbox ----------------------------
(* One state entry besides the log.                                         *)
EXTENDS ReviewInbox, TLC

CONSTANTS status, log, nothing

MCKeys == {status}

=============================================================================
