---------------------------- MODULE MCEventRetrieval ----------------------------
(***************************************************************************)
(* Instance of EventRetrieval for TLC: three ids and listings of two, so    *)
(* that the third event of a stream is out of reach.  The records differ in *)
(* stream, age, words and scores, and one of each kind of invalid, of       *)
(* ungrounded and of pipeline events is among them.                         *)
(***************************************************************************)
EXTENDS EventRetrieval

CONSTANTS s1, s2

Symmetry == Permutations(Ids)

Word(root, ending) == [root |-> root, ending |-> ending]

MCRootLength == [alarm |-> 5, glass |-> 5, a |-> 1]
MCStopWords == {Word("a", "none")}

Item(path, fragment, score) == [uri |-> <<path, fragment>>, score |-> score]

Record(stream, start, end, words, evidence, route) ==
  [stream |-> stream, start |-> start, end |-> end, words |-> words,
   evidence |-> evidence, route |-> route, review |-> "unreviewed"]

Alarm == Word("alarm", "s")
Glass == Word("glass", "es")
A == Word("a", "none")

MCRecords ==
  { Record(s1, 1, 2, {Alarm, A}, <<Item("frame", 0, 1)>>, "lightweight"),
    Record(s1, 1, 3, {Alarm, Glass}, <<Item("frame", 0, 1), Item("posted", 1, 2)>>,
           "vlm_escalated"),
    Record(s2, 0, 2, {Alarm}, <<Item("posted", 1, 2)>>, "human_review"),
    Record(s1, 0, 1, {Glass}, <<>>, "abstained"),
    Record(s1, 2, 2, {Alarm}, <<Item("frame", 0, 1)>>, "lightweight"),
    Record(s1, 2, 3, {Alarm}, <<>>, "lightweight") }

MCQuestions == { {Word("alarm", "none"), Word("glass", "es"), A} }
=============================================================================
