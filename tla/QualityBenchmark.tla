--------------------------- MODULE QualityBenchmark ---------------------------
(***************************************************************************)
(* src/scripts/quality_benchmark.py: the cases of a fixture, asked one      *)
(* after the other, scored, and reported if every one of them was answered. *)
(***************************************************************************)
EXTENDS Integers, Sequences, FiniteSets

CONSTANTS
  Cases,    \* of the fixture: expected, forbidden, json (a set of pairs, or NoJson)
  Outputs,  \* phrases, json (the pairs of its object, or NoJson)
  NoJson

VARIABLES
  quality,  \* where the program is
  passes    \* for each case asked, whether it passed

qualityVars == <<quality, passes>>

QualityInit == quality = "idle" /\ passes = <<>>

\* score_output; an expected object may lack keys of the answered one.
Passed(case, output) ==
  /\ case.expected \subseteq output.phrases
  /\ case.forbidden \cap output.phrases = {}
  /\ case.json # NoJson => output.json # NoJson /\ case.json \subseteq output.json

StartQuality ==
  /\ quality \in {"idle", "reported", "raised"}
  /\ quality' = "asking"
  /\ passes' = <<>>

AskCase(output) ==
  /\ quality = "asking"
  /\ Len(passes) < Len(Cases)
  /\ passes' = Append(passes, Passed(Cases[Len(passes) + 1], output))
  /\ UNCHANGED quality

\* No answer, an error status, or an answer without a message: nothing catches it, and
\* the scores so far are lost.
AskFails ==
  /\ quality = "asking"
  /\ Len(passes) < Len(Cases)
  /\ quality' = "raised"
  /\ UNCHANGED passes

ReportQuality ==
  /\ quality = "asking"
  /\ Len(passes) = Len(Cases)
  /\ quality' = "reported"
  /\ UNCHANGED passes
=============================================================================
