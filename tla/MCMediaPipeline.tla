--------------------------- MODULE MCMediaPipeline ---------------------------
(***************************************************************************)
(* Instance of MediaPipeline for TLC: two uploads, one after the other or   *)
(* at once, to two streams whose names are rewritten to one evidence        *)
(* directory.  Two intervals follow each other, the third ends with the     *)
(* second one and so shares its frame.                                      *)
(***************************************************************************)
EXTENDS MediaPipeline

CONSTANTS s1, s2

MCStreams == {s1, s2}
MCDirectory == [s \in MCStreams |-> "a_b"]
MCIntervals == {<<0, 1>>, <<1, 2>>, <<0, 2>>}

\* Streams differ in nothing but their names, so that one of the uploads may as well go
\* to s1 always.  Arrivals are under no fairness, so this hides no lasting behaviour.
MCFirstStream ==
  LET first == form'[CHOOSE u \in Uploads : TRUE]
  IN  first # None => first.stream = s1
=============================================================================
