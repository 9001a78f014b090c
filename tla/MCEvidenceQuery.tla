--------------------------- MODULE MCEvidenceQuery ---------------------------
(***************************************************************************)
(* Instance of EvidenceQuery for TLC: one client beside one administrator.  *)
(* The two models are served by different backends under different names,   *)
(* one of them in its second revision by a profile that is not configured;  *)
(* the second manifest removes the first model.                             *)
(***************************************************************************)
EXTENDS EvidenceQuery, TLC

CONSTANTS m1, m2

MCModels == {m1, m2}
MCRevisions == {"r1", "r2"}

Entry(status0, revision) == [status |-> status0, revision |-> revision]
Served(profile, name) == [profile |-> profile, name |-> name]

MCManifests ==
  { m1 :> Entry("validated", "r1") @@ m2 :> Entry("validated", "r1"),
    m1 :> Entry("deprecated", "r1") @@ m2 :> Entry("validated", "r2"),
    m2 :> Entry("candidate", "r1") }

MCProfiles == {"vllm", "sglang"}
MCDefault == Served("vllm", "base")
MCServes ==
  [key \in MCModels \X MCRevisions |->
     IF key[1] = m1 THEN Served("vllm", "one")
     ELSE IF key[2] = "r1" THEN Served("sglang", "two") ELSE Served("openai", "two")]
MCTargets == {MCDefault} \cup {MCServes[key] : key \in MCModels \X MCRevisions}
=============================================================================
