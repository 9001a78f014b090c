--------------------------- MODULE MCModelRegistry ---------------------------
(***************************************************************************)
(* Instance of ModelRegistry for TLC: three models, and manifests among     *)
(* which every status, a revised artifact and a removed model occur.  With  *)
(* MaxHistory = 2 the history is full, and truncated, after three           *)
(* activations.                                                             *)
(***************************************************************************)
EXTENDS ModelRegistry, TLC

CONSTANTS m1, m2, m3

MCModels == {m1, m2, m3}
MCRevisions == {"r1", "r2"}

Entry(status, revision) == [status |-> status, revision |-> revision]

MCManifests ==
  { m1 :> Entry("validated", "r1") @@ m2 :> Entry("validated", "r1")
      @@ m3 :> Entry("candidate", "r1"),
    m1 :> Entry("deprecated", "r1") @@ m2 :> Entry("candidate", "r2")
      @@ m3 :> Entry("validated", "r2"),
    m2 :> Entry("validated", "r2") @@ m3 :> Entry("validated", "r1") }
=============================================================================
