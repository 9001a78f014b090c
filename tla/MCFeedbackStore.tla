--------------------------- MODULE MCFeedbackStore ---------------------------
(***************************************************************************)
(* Instance of FeedbackStore for TLC.  Three threads and two contents give  *)
(* duplicates that race and a submission that does not take part.  With     *)
(* four ids, three threads can be in flight beside one stored row, and two  *)
(* beside both.                                                             *)
(***************************************************************************)
EXTENDS FeedbackStore
=============================================================================
