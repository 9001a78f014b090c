--------------------------- MODULE MCFeedbackExport ---------------------------
(***************************************************************************)
(* Instance of FeedbackExport for TLC.  The database is empty or holds one  *)
(* row: one that improves nothing, one without consent, or one from before  *)
(* the licence rule; a submission that belongs in every file arrives at any *)
(* time, before or behind it.  Two of the four training files and the       *)
(* manifest are written: one that holds every eligible row and one that     *)
(* selects.                                                                 *)
(***************************************************************************)
EXTENDS FeedbackExport, TLC

Submission(consent, license, correction, improves) ==
  [consent |-> consent, license |-> license, correction |-> correction,
   improves |-> improves]

Better == Submission(TRUE, TRUE, "response", TRUE)
Same == Submission(TRUE, TRUE, "answer", FALSE)
Private == Submission(FALSE, TRUE, "answer", TRUE)
Unlicensed == Submission(TRUE, FALSE, "answer", TRUE)

MCSubmissions == {Better}
MCLegacy == {Same, Private, Unlicensed}
MCOutputNames == <<"dpo", "raw">>

MCSymmetry == Permutations(Exporters)
=============================================================================
