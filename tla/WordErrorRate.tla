----------------------------- MODULE WordErrorRate -----------------------------
(***************************************************************************)
(* word_error_rate (src/src/streamsense/evaluation.py): the rows of the     *)
(* edit distance, against what they stand for, the cheapest way to align    *)
(* the two texts.  A text is the sequence of its normalized words.          *)
(***************************************************************************)
EXTENDS Integers, FiniteSetsExt, Sequences

CONSTANTS
  Vocabulary,
  MaxWords   \* bound: of either text

VARIABLES reference, hypothesis

textVars == <<reference, hypothesis>>

Mismatch(v, w) == IF v = w THEN 0 ELSE 1

FirstRow(hyp) == [column \in 0 .. Len(hyp) |-> column]

NextRowWithoutDeletion(previous, word, hyp) ==
  LET current[column \in 0 .. Len(hyp)] ==
        IF column = 0 THEN previous[0] + 1
        ELSE Min({previous[column - 1] + Mismatch(word, hyp[column]),
                  current[column - 1] + 1})
  IN  current

\* From left to right: substitution, insertion, deletion
NextRow(previous, word, hyp) ==
  LET current[column \in 0 .. Len(hyp)] ==
        IF column = 0 THEN previous[0] + 1
        ELSE Min({previous[column - 1] + Mismatch(word, hyp[column]),
                  current[column - 1] + 1,
                  previous[column] + 1})
  IN  current

\* The numerator and the denominator of the rate; an empty reference has rate 0 or 1.
Rate(ref, hyp) ==
  LET row[n \in 0 .. Len(ref)] ==
        IF n = 0 THEN FirstRow(hyp) ELSE NextRow(row[n - 1], ref[n], hyp)
  IN  IF ref = <<>> THEN <<Mismatch(hyp, <<>>), 1>> ELSE <<row[Len(ref)][Len(hyp)], Len(ref)>>

-----------------------------------------------------------------------------

\* A recording: both texts grow.
TextInit == reference = <<>> /\ hypothesis = <<>>

Say(word) ==
  /\ Len(reference) < MaxWords
  /\ reference' = Append(reference, word)
  /\ UNCHANGED hypothesis

Transcribe(word) ==
  /\ Len(hypothesis) < MaxWords
  /\ hypothesis' = Append(hypothesis, word)
  /\ UNCHANGED reference

TextNext == \E word \in Vocabulary : Say(word) \/ Transcribe(word)

TextSpec == TextInit /\ [][TextNext]_textVars

-----------------------------------------------------------------------------

\* An alignment pairs positions of both texts, in order, each at most once.
Alignments(ref, hyp) ==
  {A \in SUBSET ((1 .. Len(ref)) \X (1 .. Len(hyp))) :
     \A a, b \in A : a # b => (a[1] < b[1] /\ a[2] < b[2]) \/ (a[1] > b[1] /\ a[2] > b[2])}

Cost(A, ref, hyp) ==
  Cardinality({a \in A : ref[a[1]] # hyp[a[2]]})
    + (Len(ref) - Cardinality(A)) + (Len(hyp) - Cardinality(A))

\* The errors are the fewest substitutions, deletions and insertions that turn one text
\* into the other, and they are 0 only for equal texts.
ErrorsAreFewest ==
  LET errors == Rate(reference, hypothesis)[1]
  IN  /\ reference # <<>> =>
           errors = Min({Cost(A, reference, hypothesis) : A \in Alignments(reference, hypothesis)})
      /\ errors = 0 <=> reference = hypothesis
=============================================================================
