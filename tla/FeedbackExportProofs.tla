------------------------- MODULE FeedbackExportProofs -------------------------
(***************************************************************************)
(* Proofs about FeedbackExport for every set of submissions, exporters and  *)
(* training files, and every limit of a listing.                            *)
(***************************************************************************)
EXTENDS FeedbackExport, SequenceTheorems, WellFoundedInduction, TLAPS

-----------------------------------------------------------------------------
(* What the loop over the records computes *)

\* Induction over the natural numbers, for a set in the place of a predicate.
LEMMA Induction ==
  ASSUME NEW T, 0 \in T, \A n \in Nat : n \in T => n + 1 \in T
  PROVE  Nat \subseteq T
<1> DEFINE R == {pair \in Nat \X Nat : pair[1] < pair[2]}
           Others == Nat \ T
<1>1. IsWellFoundedOn(R, Nat)
  BY NatLessThanWellFounded DEF OpToRel
<1>2. CASE Others # {}
  <2>1. PICK n \in Others : \A m \in Others : <<m, n>> \notin R
    <3>1. Others \subseteq Nat
      OBVIOUS
    <3> HIDE DEF R, Others
    <3> QED BY <1>1, <1>2, <3>1, WFMin
  <2>2. n # 0 /\ n - 1 \in Nat
    BY <2>1
  <2>4. <<n - 1, n>> \in R
    BY <2>1, <2>2
  <2>5. n - 1 \notin Others
    BY <2>1, <2>4
  <2>3. n - 1 + 1 \in T
    BY <2>2, <2>5
  <2> QED BY <2>1, <2>3
<1> QED BY <1>2

Wanted(s, name) == Eligible(s) /\ Belongs(s, name)

\* f[n] is the file's list after n records.
IsLoop(f, n, records, name) ==
  f = [i \in 0 .. n |->
        IF i = 0 THEN <<>>
        ELSE IF Wanted(records[i], name) THEN Append(f[i - 1], records[i]) ELSE f[i - 1]]

\* The recursion has a solution, so the CHOOSE behind it picks one.
LEMMA LoopExists ==
  ASSUME NEW name, NEW records
  PROVE  \A n \in Nat : \E f : IsLoop(f, n, records, name)
<1> DEFINE T == {n \in Nat : \E f : IsLoop(f, n, records, name)}
<1>1. 0 \in T
  <2>1. IsLoop([i \in 0 .. 0 |-> <<>>], 0, records, name)
    BY DEF IsLoop
  <2> QED BY <2>1
<1>2. ASSUME NEW n \in Nat, n \in T PROVE n + 1 \in T
  <2>1. PICK f : IsLoop(f, n, records, name)
    BY <1>2
  <2> DEFINE last == IF Wanted(records[n + 1], name) THEN Append(f[n], records[n + 1]) ELSE f[n]
             g == [i \in 0 .. n + 1 |-> IF i = n + 1 THEN last ELSE f[i]]
  <2>2. \A i \in 0 .. n : g[i] = f[i]
    OBVIOUS
  <2>3. ASSUME NEW i \in 0 .. n + 1
        PROVE  g[i] = IF i = 0 THEN <<>>
                      ELSE IF Wanted(records[i], name) THEN Append(g[i - 1], records[i]) ELSE g[i - 1]
    <3>1. CASE i = n + 1
      <4>1. g[i - 1] = f[n] /\ g[i] = last
        BY <3>1, <2>2
      <4> QED BY <3>1, <4>1
    <3>2. CASE i = 0
      BY <3>2, <2>1 DEF IsLoop
    <3>3. CASE i \in 1 .. n
      <4>1. g[i] = f[i] /\ g[i - 1] = f[i - 1] /\ i # 0 /\ i \in 0 .. n
        BY <3>3, <2>2
      <4> HIDE DEF g
      <4> QED BY <4>1, <2>1 DEF IsLoop
    <3> QED BY <3>1, <3>2, <3>3
  <2>4. g = [i \in 0 .. n + 1 |-> g[i]]
    OBVIOUS
  <2>5. IsLoop(g, n + 1, records, name)
    <3> HIDE DEF g
    <3> QED BY <2>3, <2>4 DEF IsLoop
  <2> QED BY <2>5
<1> HIDE DEF T
<1>3. Nat \subseteq T
  BY <1>1, <1>2, Induction
<1> QED BY <1>3 DEF T

LEMMA ExamplesIsLoop ==
  ASSUME NEW name, NEW records \in Seq(Records)
  PROVE  \E f : IsLoop(f, Len(records), records, name) /\ Examples(name, records) = f[Len(records)]
<1> DEFINE f == CHOOSE f : IsLoop(f, Len(records), records, name)
<1>1. IsLoop(f, Len(records), records, name)
  BY LoopExists
<1>2. Examples(name, records) = f[Len(records)]
  BY DEF Examples, IsLoop, Wanted
<1> QED BY <1>1, <1>2

EligibleTexts == Seq({s \in Records : Eligible(s)})

Elements(s) == {s[i] : i \in 1 .. Len(s)}

LEMMA ElementsOfAppend ==
  ASSUME NEW S, NEW s \in Seq(S), NEW e \in S
  PROVE  Elements(Append(s, e)) = Elements(s) \cup {e}
<1> DEFINE t == Append(s, e)
<1>1. /\ Len(s) \in Nat /\ Len(t) = Len(s) + 1
      /\ \A i \in 1 .. Len(s) : t[i] = s[i]
      /\ t[Len(s) + 1] = e
  BY AppendProperties
<1> HIDE DEF t
<1>2. \A x \in Elements(t) : x \in Elements(s) \/ x = e
  BY <1>1 DEF Elements
<1>3. \A x \in Elements(s) : x \in Elements(t)
  BY <1>1 DEF Elements
<1>4. e \in Elements(t)
  BY <1>1 DEF Elements
<1> QED BY <1>2, <1>3, <1>4 DEF t

\* A training file holds eligible records only, and every one that belongs in it.
LEMMA ExamplesSelect ==
  ASSUME NEW name, NEW records \in Seq(Records)
  PROVE  /\ Examples(name, records) \in EligibleTexts
         /\ Elements(Examples(name, records)) = {s \in Elements(records) : Wanted(s, name)}
<1>1. PICK f : IsLoop(f, Len(records), records, name) /\ Examples(name, records) = f[Len(records)]
  BY ExamplesIsLoop
<1> DEFINE So(n) == {s \in {records[i] : i \in 1 .. n} : Wanted(s, name)}
           T == {n \in Nat : n <= Len(records) => f[n] \in EligibleTexts /\ Elements(f[n]) = So(n)}
<1>5. \A i \in 0 .. Len(records) : f[i] =
        IF i = 0 THEN <<>>
        ELSE IF Wanted(records[i], name) THEN Append(f[i - 1], records[i]) ELSE f[i - 1]
  BY <1>1 DEF IsLoop
<1>2. 0 \in T
  <2>1. f[0] = <<>>
    BY <1>5
  <2>2. Elements(<<>>) = {} /\ So(0) = {} /\ <<>> \in EligibleTexts
    BY DEF EligibleTexts, Elements
  <2> QED BY <2>1, <2>2
<1>3. ASSUME NEW n \in Nat, n \in T PROVE n + 1 \in T
  <2> SUFFICES ASSUME n + 1 <= Len(records)
               PROVE  f[n + 1] \in EligibleTexts /\ Elements(f[n + 1]) = So(n + 1)
    OBVIOUS
  <2>1. f[n] \in EligibleTexts /\ Elements(f[n]) = So(n) /\ records[n + 1] \in Records
    BY <1>3
  <2>2. f[n + 1] = IF Wanted(records[n + 1], name) THEN Append(f[n], records[n + 1]) ELSE f[n]
    BY <1>5, n + 1 \in 0 .. Len(records), n + 1 # 0, n + 1 - 1 = n
  <2>3. CASE Wanted(records[n + 1], name)
    <3>1. f[n + 1] = Append(f[n], records[n + 1])
      BY <2>2, <2>3
    <3>2. records[n + 1] \in {s \in Records : Eligible(s)}
      BY <2>1, <2>3 DEF Wanted
    <3>3. f[n + 1] \in EligibleTexts
      BY <2>1, <3>1, <3>2, AppendProperties DEF EligibleTexts
    <3>4. Elements(f[n + 1]) = Elements(f[n]) \cup {records[n + 1]}
      BY <2>1, <3>1, <3>2, ElementsOfAppend DEF EligibleTexts
    <3>5. So(n + 1) = So(n) \cup {records[n + 1]}
      BY <2>3
    <3> QED BY <2>1, <3>3, <3>4, <3>5
  <2>4. CASE ~Wanted(records[n + 1], name)
    <3>1. So(n + 1) = So(n)
      BY <2>4
    <3> QED BY <2>1, <2>2, <2>4, <3>1
  <2> QED BY <2>3, <2>4
<1> HIDE DEF T
<1>4. Len(records) \in T
  BY <1>2, <1>3, Induction
<1> QED BY <1>1, <1>4 DEF T, Elements

LEMMA EligibleTextsAreTexts == EligibleTexts \subseteq Texts
BY DEF EligibleTexts, Texts

LEMMA ExamplesAreTexts ==
  ASSUME NEW name, NEW records \in Seq(Records)
  PROVE  /\ Examples(name, records) \in Texts
         /\ Examples(name, records) \notin {None, Torn}
BY EligibleTextsAreTexts, ExamplesSelect, ExportAssumption

\* The file of raw records is the one the manifest counts.
LEMMA RawHoldsEligible ==
  ASSUME NEW records \in Seq(Records)
  PROVE  Elements(Examples("raw", records)) = {s \in Elements(records) : Eligible(s)}
BY ExamplesSelect DEF Wanted, Belongs

-----------------------------------------------------------------------------
(* The inductive invariant *)

Contents == EligibleTexts \cup Manifests \cup {None, Torn}

Types ==
  /\ rows \in Seq(Records)
  /\ temporary \in [Files -> Contents]
  /\ published \in [Files -> Contents]
  /\ at \in [Exporters -> {"idle", "open", "write", "replace", "hash"}]
  /\ file \in [Exporters -> 1 .. Len(Names)]
  /\ handle \in [Exporters -> {"closed", "temporary", "published", "unlinked"}]
  /\ listed \in [Exporters -> Texts]
  /\ digests \in [Exporters -> [Outputs -> EligibleTexts \cup {None, Torn}]]
  /\ failure \in [Exporters -> {"none", "invalid row"}]
  /\ alone \in [Exporters -> BOOLEAN]
  /\ clean \in BOOLEAN
  /\ completed \in Texts \cup {None}

\* A file holds what belongs under its name, or nothing yet, or a part.
FilesOK ==
  /\ \A name \in Outputs : {temporary[name], published[name]} \subseteq EligibleTexts \cup {None, Torn}
  /\ {temporary["manifest"], published["manifest"]} \subseteq Manifests \cup {None, Torn}

\* The outputs that an exporter has renamed so far.
Renamed(t, i) == at[t] = "hash" \/ i < file[t]

Hashed(t, i) ==
  \/ at[t] = "hash" /\ i < file[t]
  \/ at[t] # "hash" /\ file[t] = Len(Names)

\* Wherever an exporter is, what it has renamed is there, whoever renames it again.
ExportersOK ==
  \A t \in Exporters :
    /\ handle[t] # "closed" <=> at[t] = "write"
    /\ at[t] = "hash" => file[t] <= Len(OutputNames)
    /\ Len(listed[t]) <= Limit
    /\ \A i \in 1 .. Len(OutputNames) : Renamed(t, i) => published[OutputNames[i]] # None

\* All files of an exporter that is alone are its own.
OwnFiles(t) ==
  /\ at[t] = "write" => handle[t] = "temporary" /\ temporary[Names[file[t]]] = Torn
  /\ at[t] = "replace" => temporary[Names[file[t]]] = FileContent(t)
  /\ \A i \in 1 .. Len(OutputNames) :
       /\ Renamed(t, i) => published[OutputNames[i]] = Examples(OutputNames[i], listed[t])
       /\ Hashed(t, i) => digests[t][OutputNames[i]] = Examples(OutputNames[i], listed[t])

AloneOK ==
  \A t \in Exporters : alone[t] /\ at[t] # "idle" =>
    OwnFiles(t) /\ \A u \in Exporters \ {t} : at[u] = "idle"

\* As long as nothing overlaps, who exports is alone, and no published file is torn.
CleanOK ==
  clean =>
    /\ \A t \in Exporters : at[t] # "idle" => alone[t]
    /\ \A name \in Files : published[name] # Torn

\* Nobody has started to write since an export succeeded alone.
CompletedOK ==
  completed # None => \A t \in Exporters : at[t] \in {"idle", "open"}

ExportInv ==
  /\ Types /\ FilesOK /\ ExportersOK
  /\ AloneOK /\ CleanOK /\ CompletedOK /\ ManifestDescribesFiles

LEMMA NamesFacts ==
  /\ Len(OutputNames) \in Nat \ {0} /\ Len(Names) = Len(OutputNames) + 1
  /\ \A i \in 1 .. Len(OutputNames) :
       Names[i] = OutputNames[i] /\ OutputNames[i] \in Outputs /\ OutputNames[i] # "manifest"
  /\ Names[Len(Names)] = "manifest"
  /\ \A i \in 1 .. Len(Names) : Names[i] \in Files
  /\ "raw" \in Outputs /\ "manifest" \notin Outputs
<1>1. /\ OutputNames \in Seq({"sft", "dpo", "bridge", "raw"})
      /\ \E i \in 1 .. Len(OutputNames) : OutputNames[i] = "raw"
  BY ExportAssumption
<1>2. /\ Len(Names) = Len(OutputNames) + 1
      /\ \A i \in 1 .. Len(OutputNames) : Names[i] = OutputNames[i]
      /\ Names[Len(OutputNames) + 1] = "manifest"
  BY <1>1 DEF Names
<1>3. \A i \in 1 .. Len(OutputNames) :
        OutputNames[i] \in {"sft", "dpo", "bridge", "raw"}
  BY <1>1
<1> QED BY <1>1, <1>2, <1>3 DEF Outputs, Files

\* What an exporter is about to write under a name belongs there.
LEMMA FileContentBelongs ==
  ASSUME Types, NEW t \in Exporters
  PROVE  /\ file[t] <= Len(OutputNames) =>
              /\ FileContent(t) = Examples(OutputNames[file[t]], listed[t])
              /\ FileContent(t) \in EligibleTexts
         /\ file[t] = Len(Names) =>
              /\ FileContent(t) = Manifest(listed[t], digests[t])
              /\ FileContent(t) \in Manifests
         /\ FileContent(t) \notin {None, Torn}
         /\ FileContent(t) \in Contents
<1>1. file[t] \in 1 .. Len(Names) /\ listed[t] \in Seq(Records)
      /\ digests[t] \in [Outputs -> EligibleTexts \cup {None, Torn}]
  BY DEF Types, Texts
<1>2. CASE file[t] <= Len(OutputNames)
  <2>1. FileContent(t) = Examples(OutputNames[file[t]], listed[t])
    BY <1>1, <1>2, NamesFacts DEF FileContent
  <2>2. FileContent(t) \in EligibleTexts /\ FileContent(t) \notin {None, Torn}
    BY <1>1, <2>1, ExamplesSelect, ExamplesAreTexts
  <2> QED BY <1>2, <2>1, <2>2, NamesFacts DEF Contents
<1>3. CASE file[t] = Len(Names)
  <2>1. FileContent(t) = Manifest(listed[t], digests[t])
    BY <1>3, NamesFacts DEF FileContent
  <2>2. Manifest(listed[t], digests[t]) \in Manifests
    <3>1. {s \in {listed[t][i] : i \in 1 .. Len(listed[t])} : Eligible(s)} \in SUBSET Records
      BY <1>1
    <3>2. [name \in Outputs |-> Len(Examples(name, listed[t]))] \in [Outputs -> Nat]
      BY <1>1, ExamplesAreTexts DEF Texts
    <3>3. digests[t] \in [Outputs -> Texts \cup {None, Torn}]
      BY <1>1, EligibleTextsAreTexts
    <3> QED BY <3>1, <3>2, <3>3 DEF Manifest, Manifests
  <2> QED BY <1>3, <2>1, <2>2, NamesFacts, ExportAssumption DEF Contents
<1> QED BY <1>1, <1>2, <1>3, NamesFacts

LEMMA OldestIsShort ==
  ASSUME NEW records \in Seq(Records)
  PROVE  Oldest(records) \in Texts /\ Len(Oldest(records)) <= Limit
<1> DEFINE n == IF Len(records) < Limit THEN Len(records) ELSE Limit
<1>1. n \in Nat /\ n <= Len(records) /\ n <= Limit
  BY ExportAssumption
<1>2. \A i \in 1 .. n : records[i] \in Records
  BY <1>1
<1> HIDE DEF n
<1>3. SubSeq(records, 1, n) \in Seq(Records) /\ Len(SubSeq(records, 1, n)) <= n
  BY <1>1, <1>2, SubSeqProperties
<1> QED BY <1>1, <1>3, ExportAssumption DEF Oldest, Texts, n

LEMMA ExportInit == Init => ExportInv
<1> SUFFICES ASSUME Init PROVE ExportInv
  OBVIOUS
<1>1. rows \in Seq(Records)
  <2>1. CASE rows = <<>>
    BY <2>1
  <2>2. ASSUME NEW s \in Legacy, rows = <<s>> PROVE rows \in Seq(Records)
    BY <2>2 DEF Records
  <2> QED BY <2>1, <2>2 DEF Init
<1>2. Types
  BY <1>1, NamesFacts DEF Init, Types, Contents, Texts
<1>3. FilesOK
  BY NamesFacts DEF Init, FilesOK, Files
<1>4. ExportersOK
  BY NamesFacts, ExportAssumption DEF Init, ExportersOK, Renamed
<1>5. AloneOK /\ CleanOK /\ CompletedOK /\ ManifestDescribesFiles
  BY ExportAssumption DEF Init, AloneOK, CleanOK, CompletedOK, ManifestDescribesFiles
<1> QED BY <1>2, <1>3, <1>4, <1>5 DEF ExportInv

\* Rows are listed, and failures told, without any effect on what is there.
LEMMA RowsAndFailures ==
  ASSUME ExportInv, rows' \in Seq(Records),
         failure' \in [Exporters -> {"none", "invalid row"}],
         UNCHANGED <<disk, at, file, handle, listed, digests, history>>
  PROVE  ExportInv'
<1> USE DEF ExportInv
<1>1. UNCHANGED <<temporary, published, at, file, handle, listed, digests, alone, clean, completed>>
  BY DEF disk, history
<1>2. Types'
  BY <1>1 DEF Types
<1>3. FilesOK' /\ ExportersOK'
  BY <1>1 DEF FilesOK, ExportersOK, Renamed
<1>6. CleanOK' /\ CompletedOK'
  BY <1>1 DEF CleanOK, CompletedOK
<1>7. ManifestDescribesFiles'
  BY <1>1 DEF ManifestDescribesFiles
<1>4. \A t \in Exporters : OwnFiles(t)' <=> OwnFiles(t)
  BY <1>1 DEF OwnFiles, Renamed, Hashed, FileContent
<1>5. AloneOK'
  BY <1>1, <1>4 DEF AloneOK
<1> QED BY <1>2, <1>3, <1>5, <1>6, <1>7

LEMMA CommitKeeps == ASSUME ExportInv, NEW s \in Submissions, Commit(s) PROVE ExportInv'
<1>1. rows' \in Seq(Records)
  <2>1. PICK k \in 0 .. Len(rows) :
          rows' = SubSeq(rows, 1, k) \o <<s>> \o SubSeq(rows, k + 1, Len(rows))
    BY DEF Commit
  <2>2. rows \in Seq(Records)
    BY DEF ExportInv, Types
  <2>3. s \in Records
    BY DEF Records
  <2>4. <<s>> \in Seq(Records)
    BY <2>3
  <2>5. \A i \in 1 .. Len(rows) : rows[i] \in Records
    BY <2>2
  <2>6. SubSeq(rows, 1, k) \in Seq(Records) /\ SubSeq(rows, k + 1, Len(rows)) \in Seq(Records)
    BY <2>2, <2>5, SubSeqProperties
  <2> QED BY <2>1, <2>4, <2>6, ConcatProperties
<1>2. failure' \in [Exporters -> {"none", "invalid row"}]
  BY DEF Commit, locals, ExportInv, Types
<1> QED BY <1>1, <1>2, RowsAndFailures DEF Commit, locals

LEMMA ListFailsKeeps == ASSUME ExportInv, NEW t \in Exporters, ListFails(t) PROVE ExportInv'
<1>1. rows' \in Seq(Records) /\ failure' \in [Exporters -> {"none", "invalid row"}]
  BY DEF ListFails, ExportInv, Types
<1> QED BY <1>1, RowsAndFailures DEF ListFails

LEMMA ListKeeps == ASSUME ExportInv, NEW t \in Exporters, List(t) PROVE ExportInv'
<1> USE DEF ExportInv
<1> DEFINE others == {u \in Exporters \ {t} : at[u] # "idle"}
<1>1. /\ at[t] = "idle"
      /\ at' = [at EXCEPT ![t] = "open"] /\ file' = [file EXCEPT ![t] = 1]
      /\ listed' = [listed EXCEPT ![t] = Oldest(rows)]
      /\ failure' = [failure EXCEPT ![t] = "none"]
      /\ alone' = [u \in Exporters |-> IF u = t THEN others = {}
                                       ELSE IF u \in others THEN FALSE ELSE alone[u]]
      /\ clean' = (clean /\ others = {})
      /\ UNCHANGED <<rows, temporary, published, handle, digests, completed>>
  BY DEF List, Goto, disk
<1>2. Oldest(rows) \in Texts /\ Len(Oldest(rows)) <= Limit
  BY OldestIsShort DEF Types
<1>3. 1 \in 1 .. Len(Names) /\ 1 # Len(Names) /\ Len(OutputNames) \in Nat
  BY NamesFacts
<1>4. \A u \in Exporters : alone'[u] /\ at'[u] # "idle" => u = t /\ others = {}
  BY <1>1 DEF Types
<1>5. Types'
  <2>1. alone' \in [Exporters -> BOOLEAN]
    BY <1>1 DEF Types
  <2>2. listed' \in [Exporters -> Texts]
    BY <1>1, <1>2 DEF Types
  <2>3. file' \in [Exporters -> 1 .. Len(Names)]
    BY <1>1, <1>3 DEF Types
  <2>4. /\ at' \in [Exporters -> {"idle", "open", "write", "replace", "hash"}]
        /\ failure' \in [Exporters -> {"none", "invalid row"}]
        /\ clean' \in BOOLEAN
    BY <1>1 DEF Types
  <2> QED BY <1>1, <2>1, <2>2, <2>3, <2>4 DEF Types
<1>6. FilesOK'
  BY <1>1 DEF FilesOK
<1>7. ExportersOK'
  <2> SUFFICES ASSUME NEW u \in Exporters
               PROVE  /\ handle'[u] # "closed" <=> at'[u] = "write"
                      /\ at'[u] = "hash" => file'[u] <= Len(OutputNames)
                      /\ Len(listed'[u]) <= Limit
                      /\ \A i \in 1 .. Len(OutputNames) :
                           at'[u] = "hash" \/ i < file'[u] => published'[OutputNames[i]] # None
    BY DEF ExportersOK, Renamed
  <2>1. CASE u = t
    <3>1. at'[t] = "open" /\ file'[t] = 1 /\ listed'[t] = Oldest(rows)
      BY <1>1 DEF Types
    <3>2. handle'[t] = "closed"
      BY <1>1 DEF ExportersOK
    <3> QED BY <1>2, <2>1, <3>1, <3>2
  <2>2. CASE u # t
    BY <1>1, <2>2 DEF ExportersOK, Types, Renamed
  <2> QED BY <2>1, <2>2
<1>8. AloneOK'
  <2>1. others = {} => \A u \in Exporters \ {t} : at'[u] = "idle"
    BY <1>1 DEF Types
  <2>2. at'[t] = "open" /\ file'[t] = 1
    BY <1>1 DEF Types
  <2>3. OwnFiles(t)'
    BY <1>3, <2>2 DEF OwnFiles, Renamed, Hashed
  <2> QED BY <1>4, <2>1, <2>3 DEF AloneOK
<1>9. CleanOK'
  BY <1>1 DEF CleanOK, Types
<1>10. CompletedOK' /\ ManifestDescribesFiles'
  <2>1. CompletedOK'
    BY <1>1 DEF CompletedOK, Types
  <2>2. ManifestDescribesFiles'
    BY <1>1 DEF ManifestDescribesFiles
  <2> QED BY <2>1, <2>2
<1> QED BY <1>5, <1>6, <1>7, <1>8, <1>9, <1>10

\* If somebody is alone, nobody else moves between two steps of an export.
LEMMA OnlyOneIsAlone ==
  ASSUME ExportInv, NEW t \in Exporters, at[t] # "idle",
         alone' = alone, \A u \in Exporters \ {t} : at'[u] = at[u],
         alone[t] /\ at'[t] # "idle" => OwnFiles(t)'
  PROVE  AloneOK'
BY DEF ExportInv, AloneOK

LEMMA OpenKeeps == ASSUME ExportInv, NEW t \in Exporters, Open(t) PROVE ExportInv'
<1> USE DEF ExportInv
<1>1. /\ at[t] = "open"
      /\ temporary' = [temporary EXCEPT ![Names[file[t]]] = Torn]
      /\ handle' = [handle EXCEPT ![t] = "temporary"]
      /\ completed' = None
      /\ at' = [at EXCEPT ![t] = "write"] /\ file' = [file EXCEPT ![t] = file[t]]
      /\ UNCHANGED <<rows, published, listed, digests, failure, alone, clean>>
  BY DEF Open, Goto
<1>2. Names[file[t]] \in Files /\ file' = file
  BY <1>1, NamesFacts DEF Types
<1>3. Types'
  BY <1>1, <1>2 DEF Types, Contents
<1>4. FilesOK'
  <2>1. temporary' \in [Files -> Contents] /\ \A name \in Files : temporary'[name] \in {temporary[name], Torn}
    BY <1>1, <1>2 DEF Types, Contents
  <2>2. "manifest" \in Files /\ Outputs \subseteq Files
    BY DEF Files
  <2> QED BY <1>1, <2>1, <2>2 DEF FilesOK
<1>5. ExportersOK'
  BY <1>1, <1>2 DEF ExportersOK, Types, Renamed
<1>6. AloneOK'
  <2>1. at'[t] = "write" /\ handle'[t] = "temporary" /\ temporary'[Names[file[t]]] = Torn
    BY <1>1, <1>2 DEF Types
  <2>2. \A u \in Exporters \ {t} : at'[u] = at[u]
    BY <1>1 DEF Types
  <2>3. alone[t] => OwnFiles(t)
    BY <1>1 DEF AloneOK
  <2>4. alone[t] => OwnFiles(t)'
    BY <1>1, <1>2, <2>1, <2>3 DEF OwnFiles, Renamed, Hashed
  <2> QED BY <1>1, <2>2, <2>4, OnlyOneIsAlone
<1>7. CleanOK' /\ CompletedOK' /\ ManifestDescribesFiles'
  <2>1. CleanOK'
    BY <1>1 DEF CleanOK, Types
  <2> QED BY <1>1, <2>1 DEF CompletedOK, ManifestDescribesFiles
<1> QED BY <1>3, <1>4, <1>5, <1>6, <1>7

LEMMA WriteKeeps == ASSUME ExportInv, NEW t \in Exporters, Write(t) PROVE ExportInv'
<1> USE DEF ExportInv
<1> DEFINE name == Names[file[t]]
<1>1. /\ at[t] = "write"
      /\ handle' = [handle EXCEPT ![t] = "closed"]
      /\ at' = [at EXCEPT ![t] = "replace"] /\ file' = [file EXCEPT ![t] = file[t]]
      /\ UNCHANGED <<rows, listed, digests, failure, alone, clean, completed>>
  BY DEF Write, Goto, history
<1>2. file[t] \in 1 .. Len(Names) /\ name \in Files /\ file' = file
  BY <1>1, NamesFacts DEF Types
<1>3. \/ /\ handle[t] = "temporary" /\ published' = published
         /\ \E content \in Outcomes(temporary[name], FileContent(t)) :
              temporary' = [temporary EXCEPT ![name] = content]
      \/ /\ handle[t] = "published" /\ temporary' = temporary
         /\ \E content \in Outcomes(published[name], FileContent(t)) :
              published' = [published EXCEPT ![name] = content]
      \/ handle[t] = "unlinked" /\ UNCHANGED <<temporary, published>>
  BY DEF Write, disk
<1>4. \A old : Outcomes(old, FileContent(t)) \subseteq {FileContent(t), Torn}
  BY DEF Outcomes
<1> DEFINE Changed(old, new) ==
             /\ new \in [Files -> Contents]
             /\ \A other \in Files :
                  \/ new[other] = old[other]
                  \/ other = name /\ new[other] \in {FileContent(t), Torn}
<1>5. Changed(temporary, temporary') /\ Changed(published, published')
  <2>1. FileContent(t) \in Contents /\ Torn \in Contents
    BY FileContentBelongs DEF Contents
  <2>5. temporary \in [Files -> Contents] /\ published \in [Files -> Contents]
    BY DEF Types
  <2> HIDE DEF name, ExportInv
  <2>2. CASE UNCHANGED <<temporary, published>>
    BY <2>2, <2>5
  <2>3. ASSUME NEW content \in {FileContent(t), Torn}, published' = published,
               temporary' = [temporary EXCEPT ![name] = content]
        PROVE  Changed(temporary, temporary') /\ Changed(published, published')
    BY <1>2, <2>1, <2>3, <2>5
  <2>4. ASSUME NEW content \in {FileContent(t), Torn}, temporary' = temporary,
               published' = [published EXCEPT ![name] = content]
        PROVE  Changed(temporary, temporary') /\ Changed(published, published')
    BY <1>2, <2>1, <2>4, <2>5
  <2> QED BY <1>3, <1>4, <2>2, <2>3, <2>4
<1>6. Types'
  <2>1. /\ at' \in [Exporters -> {"idle", "open", "write", "replace", "hash"}]
        /\ handle' \in [Exporters -> {"closed", "temporary", "published", "unlinked"}]
    BY <1>1 DEF Types
  <2> QED BY <1>1, <1>2, <1>5, <2>1 DEF Types
<1>7. FilesOK'
  <2>1. "manifest" \in Files /\ Outputs \subseteq Files
    BY DEF Files
  <2>2. \A other \in Outputs : name = other => FileContent(t) \in EligibleTexts
    BY <1>2, FileContentBelongs, NamesFacts
  <2>3. name = "manifest" => FileContent(t) \in Manifests
    BY <1>2, FileContentBelongs, NamesFacts
  <2> HIDE DEF name
  <2> QED BY <1>5, <2>1, <2>2, <2>3 DEF FilesOK
<1>8. ExportersOK'
  <2>1. \A other \in Files : published[other] # None => published'[other] # None
    BY <1>5, FileContentBelongs, ExportAssumption
  <2>2. \A i \in 1 .. Len(OutputNames) : OutputNames[i] \in Files
    BY NamesFacts DEF Files
  <2>3. \A u \in Exporters, i \in 1 .. Len(OutputNames) : Renamed(u, i)' => Renamed(u, i)
    BY <1>1, <1>2 DEF Renamed, Types
  <2>4. \A u \in Exporters : /\ handle'[u] # "closed" <=> at'[u] = "write"
                             /\ at'[u] = "hash" => file'[u] <= Len(OutputNames)
    BY <1>1, <1>2 DEF ExportersOK, Types
  <2> QED BY <1>1, <2>1, <2>2, <2>3, <2>4 DEF ExportersOK
<1>9. alone[t] => handle[t] = "temporary" /\ temporary[name] = Torn
  BY <1>1 DEF AloneOK, OwnFiles
<1>10. alone[t] => published' = published /\ temporary' = [temporary EXCEPT ![name] = FileContent(t)]
  BY <1>3, <1>9 DEF Outcomes
<1>11. AloneOK'
  <2>1. at'[t] = "replace"
    BY <1>1 DEF Types
  <2>2. \A u \in Exporters \ {t} : at'[u] = at[u]
    BY <1>1 DEF Types
  <2>3. alone[t] => OwnFiles(t)
    BY <1>1 DEF AloneOK
  <2>4. FileContent(t)' = FileContent(t)
    BY <1>1, <1>2 DEF FileContent
  <2>5. alone[t] => temporary'[name] = FileContent(t)
    BY <1>2, <1>10 DEF Types
  <2>6. alone[t] => OwnFiles(t)'
    BY <1>1, <1>2, <1>10, <2>1, <2>3, <2>4, <2>5 DEF OwnFiles, Renamed, Hashed
  <2> QED BY <1>1, <2>2, <2>6, OnlyOneIsAlone
<1>12. CleanOK'
  <2>1. clean => alone[t]
    BY <1>1 DEF CleanOK
  <2> QED BY <1>1, <1>10, <2>1 DEF CleanOK, Types
<1>13. completed' = None
  BY <1>1 DEF CompletedOK
<1> QED BY <1>6, <1>7, <1>8, <1>11, <1>12, <1>13 DEF CompletedOK, ManifestDescribesFiles

\* An export that ends early leaves the files as they are.
LEMMA AbortKeeps ==
  ASSUME ExportInv, NEW t \in Exporters, at[t] # "idle", Abort(t), UNCHANGED <<rows, disk, history>>
  PROVE  ExportInv'
<1> USE DEF ExportInv
<1>1. /\ at' = [at EXCEPT ![t] = "idle"] /\ file' = [file EXCEPT ![t] = 1]
      /\ listed' = [listed EXCEPT ![t] = <<>>]
      /\ digests' = [digests EXCEPT ![t] = [name \in Outputs |-> None]]
      /\ failure' = [failure EXCEPT ![t] = "none"]
      /\ handle' = [handle EXCEPT ![t] = "closed"]
      /\ UNCHANGED <<rows, temporary, published, alone, clean, completed>>
  BY DEF Abort, Finish, Goto, disk, history
<1>2. 1 \in 1 .. Len(Names) /\ Len(OutputNames) \in Nat /\ Limit \in Nat
  BY NamesFacts, ExportAssumption
<1>3. Types'
  <2>1. <<>> \in Texts
    BY DEF Texts
  <2>2. [name \in Outputs |-> None] \in [Outputs -> EligibleTexts \cup {None, Torn}]
    OBVIOUS
  <2> QED BY <1>1, <1>2, <2>1, <2>2 DEF Types
<1>4. FilesOK'
  BY <1>1 DEF FilesOK
<1>5. /\ at'[t] = "idle" /\ file'[t] = 1 /\ handle'[t] = "closed" /\ listed'[t] = <<>>
      /\ \A u \in Exporters \ {t} : /\ at'[u] = at[u] /\ file'[u] = file[u]
                                  /\ handle'[u] = handle[u] /\ listed'[u] = listed[u]
  BY <1>1 DEF Types
<1>6. ExportersOK'
  BY <1>1, <1>2, <1>5 DEF ExportersOK, Renamed
<1>7. AloneOK'
  BY <1>1, <1>5, OnlyOneIsAlone
<1>8. CleanOK' /\ CompletedOK'
  BY <1>1, <1>5 DEF CleanOK, CompletedOK
<1>9. ManifestDescribesFiles'
  BY <1>1 DEF ManifestDescribesFiles
<1> QED BY <1>3, <1>4, <1>6, <1>7, <1>8, <1>9

\* The rename publishes what is under the temporary name, whoever has written it.
LEMMA RenameKeepsFiles ==
  ASSUME ExportInv, NEW t \in Exporters, Replace(t)
  PROVE  /\ published' \in [Files -> Contents] /\ temporary' \in [Files -> Contents]
         /\ FilesOK'
         /\ \A name \in Files : published[name] # None => published'[name] # None
         /\ published'[Names[file[t]]] # None
         /\ alone[t] => published' = [published EXCEPT ![Names[file[t]]] = FileContent(t)]
<1> DEFINE name == Names[file[t]]
<1>1. /\ at[t] = "replace" /\ temporary[name] # None
      /\ published' = [published EXCEPT ![name] = temporary[name]]
      /\ temporary' = [temporary EXCEPT ![name] = None]
  BY DEF Replace
<1>2. /\ temporary \in [Files -> Contents] /\ published \in [Files -> Contents]
      /\ name \in Files /\ None \in Contents
  BY NamesFacts DEF ExportInv, Types, Contents
<1>3. alone[t] => temporary[name] = FileContent(t)
  BY <1>1 DEF ExportInv, AloneOK, OwnFiles
<1> HIDE DEF name
<1>4. published' \in [Files -> Contents] /\ temporary' \in [Files -> Contents]
  BY <1>1, <1>2
<1>5. \A other \in Files :
        /\ published'[other] = IF other = name THEN temporary[name] ELSE published[other]
        /\ temporary'[other] = IF other = name THEN None ELSE temporary[other]
  BY <1>1, <1>2
<1>6. FilesOK'
  <2>1. "manifest" \in Files /\ Outputs \subseteq Files
    BY DEF Files
  <2> QED BY <1>5, <2>1 DEF ExportInv, FilesOK
<1> QED BY <1>1, <1>2, <1>3, <1>4, <1>5, <1>6 DEF name

\* Other descriptors stay open, on the file that was renamed or on a removed one.
LEMMA RenameKeepsHandles ==
  ASSUME ExportInv, NEW t \in Exporters, Replace(t)
  PROVE  /\ handle' \in [Exporters -> {"closed", "temporary", "published", "unlinked"}]
         /\ handle'[t] = "closed"
         /\ \A u \in Exporters \ {t} : handle'[u] = "closed" <=> handle[u] = "closed"
<1> DEFINE Moved(u) == CASE u = t -> "closed"
                         [] handle[u] = "temporary" /\ file[u] = file[t] -> "published"
                         [] handle[u] = "published" /\ file[u] = file[t] -> "unlinked"
                         [] OTHER -> handle[u]
<1>1. handle' = [u \in Exporters |-> Moved(u)] /\ at[t] = "replace"
  BY DEF Replace
<1>2. handle \in [Exporters -> {"closed", "temporary", "published", "unlinked"}]
  BY DEF ExportInv, Types
<1>3. handle[t] = "closed"
  BY <1>1 DEF ExportInv, ExportersOK
<1>4. /\ Moved(t) = "closed"
      /\ \A u \in Exporters : Moved(u) \in {"closed", "temporary", "published", "unlinked"}
      /\ \A u \in Exporters \ {t} : Moved(u) = "closed" <=> handle[u] = "closed"
  BY <1>2, <1>3
<1> QED BY <1>1, <1>4

\* After an output: the next one, or the digests.
LEMMA ReplaceOutputKeeps ==
  ASSUME ExportInv, NEW t \in Exporters, Replace(t), file[t] <= Len(OutputNames)
  PROVE  ExportInv'
<1> USE DEF ExportInv
<1> DEFINE place == IF file[t] = Len(OutputNames) THEN "hash" ELSE "open"
           next == IF file[t] = Len(OutputNames) THEN 1 ELSE file[t] + 1
<1>1. /\ file[t] \in 1 .. Len(OutputNames) /\ Names[file[t]] = OutputNames[file[t]]
      /\ Names[file[t]] # "manifest" /\ Len(Names) = Len(OutputNames) + 1
      /\ Len(OutputNames) \in Nat \ {0}
      /\ next \in 1 .. Len(OutputNames) /\ next \in 1 .. Len(Names)
  <2>1. file[t] \in 1 .. Len(Names) /\ Len(Names) = Len(OutputNames) + 1
        /\ Len(OutputNames) \in Nat \ {0}
    BY NamesFacts DEF Types
  <2>2. file[t] \in 1 .. Len(OutputNames)
    BY <2>1
  <2> QED BY <2>1, <2>2, NamesFacts
<1>2. /\ at[t] = "replace"
      /\ at' = [at EXCEPT ![t] = place] /\ file' = [file EXCEPT ![t] = next]
      /\ UNCHANGED <<rows, listed, digests, failure, alone, clean, completed>>
  BY <1>1 DEF Replace, Goto, history
<1> HIDE DEF place, next
<1>3. /\ at'[t] = place /\ file'[t] = next /\ place \in {"hash", "open"}
      /\ \A u \in Exporters \ {t} : at'[u] = at[u] /\ file'[u] = file[u]
  BY <1>2 DEF Types, place
<1>4. Types'
  <2>1. /\ at' \in [Exporters -> {"idle", "open", "write", "replace", "hash"}]
        /\ file' \in [Exporters -> 1 .. Len(Names)]
    <3>1. at \in [Exporters -> {"idle", "open", "write", "replace", "hash"}]
          /\ file \in [Exporters -> 1 .. Len(Names)]
      BY DEF Types
    <3> QED BY <1>1, <1>2, <1>3, <3>1
  <2> QED BY <1>2, <2>1, RenameKeepsFiles, RenameKeepsHandles DEF Types
<1>5. \A i \in 1 .. Len(OutputNames) :
        /\ Renamed(t, i)' => i = file[t] \/ Renamed(t, i)
        /\ ~Hashed(t, i)'
  BY <1>1, <1>2, <1>3 DEF Renamed, Hashed, place, next
<1>6. \A i \in 1 .. Len(OutputNames) : OutputNames[i] \in Files
  BY NamesFacts DEF Files
<1>7. ExportersOK'
  <2>1. \A u \in Exporters \ {t}, i \in 1 .. Len(OutputNames) : Renamed(u, i)' => Renamed(u, i)
    BY <1>3 DEF Renamed
  <2>2. \A u \in Exporters : /\ handle'[u] # "closed" <=> at'[u] = "write"
                             /\ at'[u] = "hash" => file'[u] <= Len(OutputNames)
    BY <1>1, <1>3, RenameKeepsHandles DEF ExportersOK
  <2>3. \A u \in Exporters, i \in 1 .. Len(OutputNames) :
          Renamed(u, i)' => published'[OutputNames[i]] # None
    BY <1>1, <1>5, <1>6, <2>1, RenameKeepsFiles DEF ExportersOK
  <2> QED BY <1>2, <2>2, <2>3 DEF ExportersOK
<1>8. AloneOK'
  <2> SUFFICES ASSUME alone[t] PROVE OwnFiles(t)'
    BY <1>2, <1>3, OnlyOneIsAlone
  <2>1. OwnFiles(t)
    BY <1>2 DEF AloneOK
  <2>2. FileContent(t) = Examples(OutputNames[file[t]], listed[t])
    BY <1>1, FileContentBelongs
  <2>3. published' = [published EXCEPT ![OutputNames[file[t]]] = FileContent(t)]
    BY <1>1, RenameKeepsFiles
  <2>4. \A i \in 1 .. Len(OutputNames) :
          OutputNames[i] = OutputNames[file[t]] => i = file[t]
    BY <1>1, ExportAssumption
  <2>5. \A i \in 1 .. Len(OutputNames) :
          Renamed(t, i)' => published'[OutputNames[i]] = Examples(OutputNames[i], listed[t])
    BY <1>5, <1>6, <2>1, <2>2, <2>3, <2>4 DEF OwnFiles, Types
  <2> QED BY <1>2, <1>3, <1>5, <2>5 DEF OwnFiles
<1>9. CleanOK'
  <2>1. clean => alone[t]
    BY <1>2 DEF CleanOK
  <2>2. FileContent(t) # Torn
    BY FileContentBelongs
  <2>3. clean => \A name \in Files : published'[name] # Torn
    BY <1>6, <2>1, <2>2, RenameKeepsFiles DEF CleanOK, Types
  <2> QED BY <1>2, <1>3, <2>1, <2>3 DEF CleanOK
<1>10. completed' = None
  BY <1>2 DEF CompletedOK
<1> QED BY <1>4, <1>7, <1>8, <1>9, <1>10, RenameKeepsFiles DEF CompletedOK, ManifestDescribesFiles

\* After the manifest: whoever was alone has finished, and its files agree.
LEMMA ReplaceManifestKeeps ==
  ASSUME ExportInv, NEW t \in Exporters, Replace(t), file[t] = Len(Names)
  PROVE  ExportInv'
<1> USE DEF ExportInv
<1>1. /\ Names[file[t]] = "manifest" /\ "manifest" \in Files /\ Outputs \subseteq Files
      /\ "manifest" \notin Outputs /\ "raw" \in Outputs
      /\ 1 \in 1 .. Len(Names) /\ Len(OutputNames) \in Nat /\ Limit \in Nat
  BY NamesFacts, ExportAssumption DEF Files
<1>2. /\ at[t] = "replace"
      /\ at' = [at EXCEPT ![t] = "idle"] /\ file' = [file EXCEPT ![t] = 1]
      /\ listed' = [listed EXCEPT ![t] = <<>>]
      /\ digests' = [digests EXCEPT ![t] = [name \in Outputs |-> None]]
      /\ failure' = [failure EXCEPT ![t] = "none"]
      /\ clean' = (clean \/ alone[t])
      /\ completed' = IF alone[t] THEN listed[t] ELSE None
      /\ UNCHANGED <<rows, alone>>
  BY <1>1 DEF Replace, Finish, Goto
<1>3. /\ at'[t] = "idle" /\ file'[t] = 1 /\ listed'[t] = <<>>
      /\ \A u \in Exporters \ {t} : at'[u] = at[u] /\ file'[u] = file[u] /\ listed'[u] = listed[u]
  BY <1>2 DEF Types
<1>4. Types'
  <2>1. listed' \in [Exporters -> Texts] /\ listed[t] \in Texts
    <3>1. <<>> \in Texts
      BY DEF Texts
    <3> QED BY <1>2, <3>1 DEF Types
  <2>2. digests' \in [Exporters -> [Outputs -> EligibleTexts \cup {None, Torn}]]
    BY <1>2 DEF Types
  <2>3. /\ at' \in [Exporters -> {"idle", "open", "write", "replace", "hash"}]
        /\ file' \in [Exporters -> 1 .. Len(Names)]
        /\ failure' \in [Exporters -> {"none", "invalid row"}]
    BY <1>1, <1>2 DEF Types
  <2>4. clean' \in BOOLEAN /\ completed' \in Texts \cup {None}
    BY <1>2, <2>1 DEF Types
  <2> QED BY <1>2, <2>1, <2>2, <2>3, <2>4, RenameKeepsFiles, RenameKeepsHandles DEF Types
<1>5. ExportersOK'
  <2>1. \A i \in 1 .. Len(OutputNames) : OutputNames[i] \in Files
    BY NamesFacts DEF Files
  <2>2. \A u \in Exporters, i \in 1 .. Len(OutputNames) :
          Renamed(u, i)' => published'[OutputNames[i]] # None
    BY <1>3, <2>1, RenameKeepsFiles DEF ExportersOK, Renamed
  <2>3. \A u \in Exporters : /\ handle'[u] # "closed" <=> at'[u] = "write"
                             /\ at'[u] = "hash" => file'[u] <= Len(OutputNames)
                             /\ Len(listed'[u]) <= Limit
    BY <1>1, <1>3, RenameKeepsHandles DEF ExportersOK
  <2> QED BY <2>2, <2>3 DEF ExportersOK
<1>6. AloneOK'
  BY <1>2, <1>3, OnlyOneIsAlone
\* What the last rename of an exporter that is alone leaves
<1>7. ASSUME alone[t]
      PROVE  /\ \A name \in Outputs : published'[name] = Examples(name, listed[t])
             /\ published'["manifest"] = Manifest(listed[t], [name \in Outputs |-> published'[name]])
             /\ \A name \in Files : published'[name] # Torn
             /\ \A u \in Exporters : at'[u] = "idle"
  <2>1. OwnFiles(t) /\ \A u \in Exporters \ {t} : at[u] = "idle"
    BY <1>2, <1>7 DEF AloneOK
  <2>2. published' = [published EXCEPT !["manifest"] = FileContent(t)]
    BY <1>1, <1>7, RenameKeepsFiles
  <2>3. \A i \in 1 .. Len(OutputNames) :
          /\ published[OutputNames[i]] = Examples(OutputNames[i], listed[t])
          /\ digests[t][OutputNames[i]] = Examples(OutputNames[i], listed[t])
    BY <1>2, <2>1, NamesFacts DEF OwnFiles, Renamed, Hashed
  <2>4. \A name \in Outputs : published'[name] = Examples(name, listed[t])
    <3>1. \A name \in Outputs : published'[name] = published[name]
      <4>1. published \in [Files -> Contents]
        BY DEF Types
      <4> HIDE DEF ExportInv
      <4> QED BY <1>1, <2>2, <4>1
    <3> QED BY <2>3, <3>1 DEF Outputs
  <2>5. digests[t] = [name \in Outputs |-> published'[name]]
    <3>1. digests[t] = [name \in Outputs |-> digests[t][name]]
      BY DEF Types
    <3>2. \A name \in Outputs : digests[t][name] = published'[name]
      BY <2>3, <2>4 DEF Outputs
    <3> QED BY <3>1, <3>2
  <2>6. published'["manifest"] = FileContent(t) /\ FileContent(t) = Manifest(listed[t], digests[t])
    BY <1>1, <2>2, FileContentBelongs DEF Types
  <2>7. \A name \in Outputs : Examples(name, listed[t]) # Torn
    BY ExamplesAreTexts DEF Types, Texts
  <2>8. FileContent(t) # Torn
    BY FileContentBelongs
  <2> QED BY <1>3, <2>1, <2>4, <2>5, <2>6, <2>7, <2>8 DEF Files
<1>8. CleanOK'
  <2>1. clean => alone[t]
    BY <1>2 DEF CleanOK
  <2> QED BY <1>2, <1>7, <2>1 DEF CleanOK
<1>9. CompletedOK'
  BY <1>2, <1>7 DEF CompletedOK
<1>10. ManifestDescribesFiles'
  <2> SUFFICES ASSUME alone[t], completed' = listed[t]
               PROVE  ManifestDescribesFiles'
    BY <1>2 DEF ManifestDescribesFiles
  <2> DEFINE sha == [name \in Outputs |-> published'[name]]
  <2>1. /\ published'["manifest"].sha256 = sha
        /\ published'["manifest"].examples = [name \in Outputs |-> Len(Examples(name, listed[t]))]
        /\ published'["manifest"].sources = {s \in Elements(listed[t]) : Eligible(s)}
    BY <1>7 DEF Manifest, Elements
  <2>2. Elements(published'["raw"]) = {s \in Elements(listed[t]) : Eligible(s)}
    BY <1>1, <1>7, RawHoldsEligible DEF Types, Texts
  <2>3. [name \in Outputs |-> Len(Examples(name, listed[t]))] = [name \in Outputs |-> Len(published'[name])]
    BY <1>7
  <2> QED BY <1>7, <2>1, <2>2, <2>3 DEF ManifestDescribesFiles, Elements
<1> QED BY <1>4, <1>5, <1>6, <1>8, <1>9, <1>10, RenameKeepsFiles

LEMMA ReplaceKeeps == ASSUME ExportInv, NEW t \in Exporters, Replace(t) PROVE ExportInv'
<1>1. file[t] \in 1 .. Len(Names) /\ Len(Names) = Len(OutputNames) + 1 /\ Len(OutputNames) \in Nat
  BY NamesFacts DEF ExportInv, Types
<1>2. file[t] <= Len(OutputNames) \/ file[t] = Len(Names)
  BY <1>1
<1> QED BY <1>2, ReplaceOutputKeeps, ReplaceManifestKeeps

LEMMA HashKeeps == ASSUME ExportInv, NEW t \in Exporters, Hash(t) PROVE ExportInv'
<1> USE DEF ExportInv
<1> DEFINE place == IF file[t] = Len(OutputNames) THEN "open" ELSE "hash"
           next == IF file[t] = Len(OutputNames) THEN Len(Names) ELSE file[t] + 1
<1>1. /\ at[t] = "hash"
      /\ digests' = [digests EXCEPT ![t][Names[file[t]]] = published[Names[file[t]]]]
      /\ at' = [at EXCEPT ![t] = place] /\ file' = [file EXCEPT ![t] = next]
      /\ UNCHANGED <<rows, temporary, published, handle, listed, failure, alone, clean, completed>>
  BY DEF Hash, Goto, disk, history
<1>2. /\ file[t] \in 1 .. Len(OutputNames) /\ Len(OutputNames) \in Nat \ {0}
      /\ Len(Names) = Len(OutputNames) + 1
      /\ next \in 1 .. Len(Names)
      /\ place = "hash" => next <= Len(OutputNames)
  <2>1. /\ file[t] \in 1 .. Len(Names) /\ file[t] <= Len(OutputNames)
        /\ Len(OutputNames) \in Nat \ {0} /\ Len(Names) = Len(OutputNames) + 1
    BY <1>1, NamesFacts DEF Types, ExportersOK
  <2> QED BY <2>1
<1>3. Names[file[t]] = OutputNames[file[t]] /\ OutputNames[file[t]] \in Outputs
  BY <1>2, NamesFacts
<1> HIDE DEF place, next
<1>5. /\ at'[t] = place /\ file'[t] = next /\ place \in {"hash", "open"}
      /\ \A u \in Exporters \ {t} : at'[u] = at[u] /\ file'[u] = file[u]
  BY <1>1 DEF Types, place
<1>4. \A i \in 1 .. Len(OutputNames) :
        Hashed(t, i)' => i = file[t] \/ Hashed(t, i)
  BY <1>1, <1>2, <1>5 DEF Hashed, place, next
<1>6. published[OutputNames[file[t]]] \in EligibleTexts \cup {None, Torn}
  BY <1>3 DEF FilesOK
<1>7. digests' = [digests EXCEPT ![t] = [digests[t] EXCEPT ![OutputNames[file[t]]] = published[OutputNames[file[t]]]]]
  BY <1>1, <1>3
<1>8. Types'
  <2>1. digests' \in [Exporters -> [Outputs -> EligibleTexts \cup {None, Torn}]]
    BY <1>3, <1>6, <1>7 DEF Types
  <2>2. at' \in [Exporters -> {"idle", "open", "write", "replace", "hash"}]
    BY <1>1, <1>5 DEF Types
  <2>3. file' \in [Exporters -> 1 .. Len(Names)]
    <3>1. file \in [Exporters -> 1 .. Len(Names)]
      BY DEF Types
    <3> HIDE DEF ExportInv
    <3> QED BY <1>1, <1>2, <3>1
  <2> QED BY <1>1, <2>1, <2>2, <2>3 DEF Types
<1>9. FilesOK' /\ CleanOK'
  <2>1. CleanOK'
    BY <1>1, <1>5 DEF CleanOK
  <2> QED BY <1>1, <2>1 DEF FilesOK
<1>10. ExportersOK'
  <2>1. \A i \in 1 .. Len(OutputNames) : published[OutputNames[i]] # None
    BY <1>1 DEF ExportersOK, Renamed
  <2>2. \A u \in Exporters : /\ handle'[u] # "closed" <=> at'[u] = "write"
                             /\ at'[u] = "hash" => file'[u] <= Len(OutputNames)
    <3>1. handle[t] = "closed" /\ at'[t] # "write" /\ (at'[t] = "hash" => file'[t] <= Len(OutputNames))
      BY <1>1, <1>2, <1>5 DEF ExportersOK
    <3> QED BY <1>1, <1>5, <3>1 DEF ExportersOK
  <2> QED BY <1>1, <2>1, <2>2 DEF ExportersOK
<1>11. AloneOK'
  <2> SUFFICES ASSUME alone[t] PROVE OwnFiles(t)'
    BY <1>1, <1>5, OnlyOneIsAlone
  <2>1. OwnFiles(t)
    BY <1>1 DEF AloneOK
  <2>2. \A i \in 1 .. Len(OutputNames) : published[OutputNames[i]] = Examples(OutputNames[i], listed[t])
    BY <1>1, <2>1 DEF OwnFiles, Renamed
  <2>3. /\ digests'[t][OutputNames[file[t]]] = published[OutputNames[file[t]]]
        /\ \A name \in Outputs \ {OutputNames[file[t]]} : digests'[t][name] = digests[t][name]
    BY <1>3, <1>7 DEF Types
  <2>4. \A i \in 1 .. Len(OutputNames) : OutputNames[i] \in Outputs
    BY NamesFacts
  <2>5. \A i \in 1 .. Len(OutputNames) :
          Hashed(t, i)' => digests'[t][OutputNames[i]] = Examples(OutputNames[i], listed[t])
    BY <1>4, <2>1, <2>2, <2>3, <2>4 DEF OwnFiles
  <2> QED BY <1>1, <1>5, <2>2, <2>5 DEF OwnFiles
<1>12. completed' = None
  BY <1>1 DEF CompletedOK
<1> QED BY <1>8, <1>9, <1>10, <1>11, <1>12 DEF CompletedOK, ManifestDescribesFiles

LEMMA CrashKeeps == ASSUME ExportInv, Crash PROVE ExportInv'
<1> USE DEF ExportInv
<1>1. /\ at' = [t \in Exporters |-> "idle"] /\ file' = [t \in Exporters |-> 1]
      /\ handle' = [t \in Exporters |-> "closed"] /\ listed' = [t \in Exporters |-> <<>>]
      /\ digests' = [t \in Exporters |-> [name \in Outputs |-> None]]
      /\ failure' = [t \in Exporters |-> "none"]
      /\ UNCHANGED <<rows, temporary, published, alone, clean, completed>>
  BY DEF Crash, disk, history
<1>2. 1 \in 1 .. Len(Names) /\ Len(OutputNames) \in Nat /\ Limit \in Nat
  BY NamesFacts, ExportAssumption
<1>3. Types'
  <2>1. <<>> \in Texts
    BY DEF Texts
  <2>2. [name \in Outputs |-> None] \in [Outputs -> EligibleTexts \cup {None, Torn}]
    OBVIOUS
  <2> QED BY <1>1, <1>2, <2>1, <2>2 DEF Types
<1>4. ExportersOK'
  BY <1>1, <1>2 DEF ExportersOK, Renamed
<1>5. FilesOK' /\ AloneOK' /\ CleanOK' /\ CompletedOK'
  BY <1>1 DEF FilesOK, AloneOK, CleanOK, CompletedOK
<1>6. ManifestDescribesFiles'
  BY <1>1 DEF ManifestDescribesFiles
<1> QED BY <1>3, <1>4, <1>5, <1>6

LEMMA ExportNext == ExportInv /\ [Next]_vars => ExportInv'
<1> SUFFICES ASSUME ExportInv, [Next]_vars PROVE ExportInv'
  OBVIOUS
<1>1. CASE \E s \in Submissions : Commit(s)
  BY <1>1, CommitKeeps
<1>2. ASSUME NEW t \in Exporters, List(t) \/ ListFails(t) PROVE ExportInv'
  BY <1>2, ListKeeps, ListFailsKeeps
<1>3. ASSUME NEW t \in Exporters, Open(t) \/ Write(t) PROVE ExportInv'
  BY <1>3, OpenKeeps, WriteKeeps
<1>4. ASSUME NEW t \in Exporters, WriteFails(t) \/ ReplaceFails(t) PROVE ExportInv'
  BY <1>4, AbortKeeps DEF WriteFails, ReplaceFails
<1>5. ASSUME NEW t \in Exporters, Replace(t) \/ Hash(t) PROVE ExportInv'
  BY <1>5, ReplaceKeeps, HashKeeps
<1>6. CASE Crash
  BY <1>6, CrashKeeps
<1>7. CASE UNCHANGED vars
  <2>1. rows' \in Seq(Records) /\ failure' \in [Exporters -> {"none", "invalid row"}]
    BY <1>7 DEF vars, locals, ExportInv, Types
  <2> QED BY <1>7, <2>1, RowsAndFailures DEF vars, locals
<1> QED BY <1>1, <1>2, <1>3, <1>4, <1>5, <1>6, <1>7 DEF Next

LEMMA ExportInvariant == Spec => []ExportInv
BY ExportInit, ExportNext, PTL DEF Spec

-----------------------------------------------------------------------------
(* The properties of FeedbackExport *)

\* Every variable keeps its type, descriptors are open only between open and write, and
\* digests are read of files that exist.
THEOREM ExportTypeCorrect == Spec => []TypeOK
<1>1. ExportInv => TypeOK
  <2> SUFFICES ASSUME ExportInv PROVE TypeOK
    OBVIOUS
  <2>1. DOMAIN temporary = Files /\ DOMAIN published = Files
    BY DEF ExportInv, Types
  <2>2. ASSUME NEW t \in Exporters, at[t] = "hash" PROVE published[Names[file[t]]] # None
    <3>1. file[t] \in 1 .. Len(OutputNames)
      <4>1. file[t] \in 1 .. Len(Names) /\ file[t] <= Len(OutputNames) /\ Len(OutputNames) \in Nat
        BY <2>2, NamesFacts DEF ExportInv, Types, ExportersOK
      <4> QED BY <4>1
    <3> QED BY <2>2, <3>1, NamesFacts DEF ExportInv, ExportersOK, Renamed
  <2> QED BY <2>1, <2>2 DEF ExportInv, Types, ExportersOK, TypeOK
<1> QED BY <1>1, ExportInvariant, PTL

\* Nothing without consent, licence and correction ever reaches a file, whatever fails or
\* overlaps.
THEOREM OnlyConsentedIsEverWritten == Spec => []OnlyConsentedIsWritten
<1>1. ExportInv => OnlyConsentedIsWritten
  <2> SUFFICES ASSUME ExportInv, NEW name \in Outputs,
                      NEW content \in {temporary[name], published[name]},
                      content \notin {Torn, None}, NEW i \in 1 .. Len(content)
               PROVE  Eligible(content[i])
    BY DEF OnlyConsentedIsWritten, Eligible
  <2>1. content \in EligibleTexts
    BY DEF ExportInv, FilesOK
  <2> QED BY <2>1 DEF EligibleTexts
<1> QED BY <1>1, ExportInvariant, PTL

\* As long as exports do not overlap, no published file is half written.
THEOREM PublishedStaysWhole == Spec => []WholeUnlessOverlapped
<1>1. ExportInv => WholeUnlessOverlapped
  BY DEF ExportInv, CleanOK, WholeUnlessOverlapped
<1> QED BY <1>1, ExportInvariant, PTL

\* What an export publishes alone comes from one listing, whatever was there before.
THEOREM ManifestAlwaysDescribesFiles == Spec => []ManifestDescribesFiles
<1>1. ExportInv => ManifestDescribesFiles
  BY DEF ExportInv
<1> QED BY <1>1, ExportInvariant, PTL
=============================================================================
