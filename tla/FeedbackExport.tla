---------------------------- MODULE FeedbackExport ----------------------------
(***************************************************************************)
(* FeedbackStore.export_training_data (src/src/streamsense/feedback.py):    *)
(* one listing of the store, four training files and a manifest with their  *)
(* digests, each file written to a temporary name and renamed.  The store   *)
(* is the append-only log of FeedbackLog, listed in order of created_at.    *)
(* A rename moves a file under the descriptors that other exports still     *)
(* have open on it, so each descriptor records where its file is now.       *)
(***************************************************************************)
EXTENDS Naturals, Sequences, FiniteSets

CONSTANTS
  Submissions,  \* submissions clients may send
  Legacy,       \* submissions stored before the licence rule was enforced
  OutputNames,  \* the training files in the order they are written: <<"sft", "dpo",
                \* "bridge", "raw">> in the code, a subsequence in a small instance
  Limit,        \* 10_000 in the code: the rows one export lists
  Exporters,    \* worker threads that serve POST /v2/feedback/export
  None,
  Torn          \* content of a file between open and the end of its write

Records == Submissions \cup Legacy

Outputs == {OutputNames[i] : i \in 1 .. Len(OutputNames)}
\* The manifest is written last.
Names == Append(OutputNames, "manifest")
Files == Outputs \cup {"manifest"}

Texts == Seq(Records)
Manifests ==
  [sources  : SUBSET Records,
   examples : [Outputs -> Nat],
   sha256   : [Outputs -> Texts \cup {None, Torn}]]

ASSUME ExportAssumption ==
  /\ Limit \in Nat \ {0}
  /\ OutputNames \in Seq({"sft", "dpo", "bridge", "raw"})
  /\ \E i \in 1 .. Len(OutputNames) : OutputNames[i] = "raw"
  /\ \A i, j \in 1 .. Len(OutputNames) : OutputNames[i] = OutputNames[j] => i = j
  /\ \A s \in Records :
       /\ s.consent \in BOOLEAN /\ s.license \in BOOLEAN /\ s.improves \in BOOLEAN
       /\ s.correction \in {"none", "answer", "response"}
  /\ None # Torn
  /\ {None, Torn} \cap (Texts \cup Manifests) = {}

VARIABLES
  rows,       \* the committed feedback, oldest created_at first
  temporary,  \* content of the file under each temporary name, or None
  published,  \* content of the file under each final name, or None
  at,         \* where each exporter is
  file,       \* index in Names of the file it is working on
  handle,     \* where the file it has open is now
  listed,     \* the rows it listed
  digests,    \* the digests it has read so far
  failure,    \* why its last export was answered 500
  alone,      \* history: no other export has run since this one began
  clean,      \* history: no exports have overlapped since one last succeeded alone
  completed   \* history: what the last export listed, if it succeeded alone and
              \* none has started to write since; else None

disk == <<temporary, published>>
locals == <<at, file, handle, listed, digests, failure>>
history == <<alone, clean, completed>>
vars == <<rows, disk, locals, history>>

-----------------------------------------------------------------------------
(* What an export contains *)

\* FeedbackSubmission's validator: consent needs a licence.
Valid(s) == s.consent => s.license

EligibleWithoutConsent(s) == s.license /\ s.correction # "none"

Eligible(s) == s.consent /\ s.license /\ s.correction # "none"

Belongs(s, name) ==
  CASE name = "dpo"    -> s.improves
    [] name = "bridge" -> s.correction = "response"
    [] OTHER           -> TRUE

\* The loop over the records; Chosen[n] is the file's list after n of them.
Examples(name, records) ==
  LET Chosen[n \in 0 .. Len(records)] ==
        IF n = 0 THEN <<>>
        ELSE IF Eligible(records[n]) /\ Belongs(records[n], name)
             THEN Append(Chosen[n - 1], records[n])
             ELSE Chosen[n - 1]
  IN  Chosen[Len(records)]

\* A digest stands for the content it was computed from.
Manifest(records, sha) ==
  [sources  |-> {s \in {records[i] : i \in 1 .. Len(records)} : Eligible(s)},
   examples |-> [name \in Outputs |-> Len(Examples(name, records))],
   sha256   |-> sha]

FileContent(t) ==
  IF Names[file[t]] = "manifest" THEN Manifest(listed[t], digests[t])
  ELSE Examples(Names[file[t]], listed[t])

\* SELECT ... ORDER BY created_at ASC LIMIT ?
Oldest(records) == SubSeq(records, 1, IF Len(records) < Limit THEN Len(records) ELSE Limit)

-----------------------------------------------------------------------------

Init ==
  /\ rows \in {<<>>} \cup {<<s>> : s \in Legacy}
  /\ temporary = [name \in Files |-> None]
  /\ published = [name \in Files |-> None]
  /\ at = [t \in Exporters |-> "idle"]
  /\ file = [t \in Exporters |-> 1]
  /\ handle = [t \in Exporters |-> "closed"]
  /\ listed = [t \in Exporters |-> <<>>]
  /\ digests = [t \in Exporters |-> [name \in Outputs |-> None]]
  /\ failure = [t \in Exporters |-> "none"]
  /\ alone = [t \in Exporters |-> FALSE]
  /\ clean = TRUE
  /\ completed = None

\* FeedbackStore.add commits a submission; created_at was taken before the write
\* lock, so a row may be committed behind a younger one.
Commit(s) ==
  /\ Valid(s)
  /\ \A i \in 1 .. Len(rows) : rows[i] # s
  /\ \E k \in 0 .. Len(rows) :
       rows' = SubSeq(rows, 1, k) \o <<s>> \o SubSeq(rows, k + 1, Len(rows))
  /\ UNCHANGED <<disk, locals, history>>

Goto(t, label, n) ==
  /\ at' = [at EXCEPT ![t] = label]
  /\ file' = [file EXCEPT ![t] = n]

Finish(t) ==
  /\ Goto(t, "idle", 1)
  /\ listed' = [listed EXCEPT ![t] = <<>>]
  /\ digests' = [digests EXCEPT ![t] = [name \in Outputs |-> None]]
  /\ failure' = [failure EXCEPT ![t] = "none"]

AbortLeakingFile(t) ==
  /\ Finish(t)
  /\ UNCHANGED handle

\* An exception leaves the export and closes its file.
Abort(t) ==
  /\ Finish(t)
  /\ handle' = [handle EXCEPT ![t] = "closed"]

\* list(limit=10_000) parses every row it reads with FeedbackSubmission.
List(t) ==
  /\ at[t] = "idle"
  /\ \A i \in 1 .. Len(Oldest(rows)) : Valid(Oldest(rows)[i])
  /\ listed' = [listed EXCEPT ![t] = Oldest(rows)]
  /\ Goto(t, "open", 1)
  /\ failure' = [failure EXCEPT ![t] = "none"]
  /\ LET others == {u \in Exporters \ {t} : at[u] # "idle"}
     IN  /\ alone' = [u \in Exporters |-> IF u = t THEN others = {}
                                         ELSE IF u \in others THEN FALSE ELSE alone[u]]
         /\ clean' = (clean /\ others = {})
  /\ UNCHANGED <<rows, disk, handle, digests, completed>>

\* A row that the validator refuses raises out of list, and out of the export.
ListFails(t) ==
  /\ at[t] = "idle"
  /\ \E i \in 1 .. Len(Oldest(rows)) : ~Valid(Oldest(rows)[i])
  /\ failure' = [failure EXCEPT ![t] = "invalid row"]
  /\ UNCHANGED <<rows, disk, at, file, handle, listed, digests, history>>

OpenInPlace(t) ==
  /\ at[t] = "open"
  /\ published' = [published EXCEPT ![Names[file[t]]] = Torn]
  /\ temporary' = [temporary EXCEPT ![Names[file[t]]] = Torn]
  /\ handle' = [handle EXCEPT ![t] = "temporary"]
  /\ completed' = None
  /\ Goto(t, "write", file[t])
  /\ UNCHANGED <<rows, listed, digests, failure, alone, clean>>

\* temporary.open("w"): a new file, or the one that is there, truncated.
Open(t) ==
  /\ at[t] = "open"
  /\ temporary' = [temporary EXCEPT ![Names[file[t]]] = Torn]
  /\ handle' = [handle EXCEPT ![t] = "temporary"]
  /\ completed' = None
  /\ Goto(t, "write", file[t])
  /\ UNCHANGED <<rows, published, listed, digests, failure, alone, clean>>

WriteRelisted(t) ==
  /\ at[t] = "write"
  /\ temporary' = [temporary EXCEPT ![Names[file[t]]] =
       IF Names[file[t]] = "manifest" THEN FileContent(t)
       ELSE Examples(Names[file[t]], Oldest(rows))]
  /\ Goto(t, "replace", file[t])
  /\ UNCHANGED <<rows, published, handle, listed, digests, failure, history>>

\* What a complete write leaves in a file: its own content, or a mixture when
\* another descriptor has written to the file since it was truncated.  The buffer
\* reaches the file in one write.
Outcomes(old, content) == IF old = Torn THEN {content} ELSE {content, Torn}

\* write, flush, fsync and close
Write(t) ==
  LET name == Names[file[t]]
  IN  /\ at[t] = "write"
      /\ \/ /\ handle[t] = "temporary"
            /\ \E content \in Outcomes(temporary[name], FileContent(t)) :
                 temporary' = [temporary EXCEPT ![name] = content]
            /\ UNCHANGED published
         \/ /\ handle[t] = "published"
            /\ \E content \in Outcomes(published[name], FileContent(t)) :
                 published' = [published EXCEPT ![name] = content]
            /\ UNCHANGED temporary
         \/ /\ handle[t] = "unlinked"
            /\ UNCHANGED disk
      /\ handle' = [handle EXCEPT ![t] = "closed"]
      /\ Goto(t, "replace", file[t])
      /\ UNCHANGED <<rows, listed, digests, failure, history>>

\* open, write or fsync raises OSError: nothing cleans the temporary file up.
WriteFails(t) ==
  /\ at[t] \in {"open", "write"}
  /\ Abort(t)
  /\ UNCHANGED <<rows, disk, history>>

\* os.replace; after the last output the digests are read, after the manifest
\* the export is answered 200.
Replace(t) ==
  LET name == Names[file[t]]
      Moved(u) == CASE u = t -> "closed"
                    [] handle[u] = "temporary" /\ file[u] = file[t] -> "published"
                    [] handle[u] = "published" /\ file[u] = file[t] -> "unlinked"
                    [] OTHER -> handle[u]
  IN  /\ at[t] = "replace"
      /\ temporary[name] # None
      /\ published' = [published EXCEPT ![name] = temporary[name]]
      /\ temporary' = [temporary EXCEPT ![name] = None]
      /\ handle' = [u \in Exporters |-> Moved(u)]
      /\ IF name = "manifest"
         THEN /\ Finish(t)
              /\ clean' = (clean \/ alone[t])
              /\ completed' = IF alone[t] THEN listed[t] ELSE None
              /\ UNCHANGED alone
         ELSE /\ IF file[t] = Len(OutputNames) THEN Goto(t, "hash", 1) ELSE Goto(t, "open", file[t] + 1)
              /\ UNCHANGED <<listed, digests, failure, history>>
      /\ UNCHANGED rows

\* Another export renamed this temporary file away: FileNotFoundError.
ReplaceFails(t) ==
  /\ at[t] = "replace"
  /\ temporary[Names[file[t]]] = None
  /\ Abort(t)
  /\ UNCHANGED <<rows, disk, history>>

\* _file_sha256 of each published output in turn
Hash(t) ==
  /\ at[t] = "hash"
  /\ digests' = [digests EXCEPT ![t][Names[file[t]]] = published[Names[file[t]]]]
  /\ IF file[t] = Len(OutputNames) THEN Goto(t, "open", Len(Names)) ELSE Goto(t, "hash", file[t] + 1)
  /\ UNCHANGED <<rows, disk, handle, listed, failure, history>>

\* The process dies and comes back; rows and files stay as they are.
Crash ==
  /\ at' = [t \in Exporters |-> "idle"]
  /\ file' = [t \in Exporters |-> 1]
  /\ handle' = [t \in Exporters |-> "closed"]
  /\ listed' = [t \in Exporters |-> <<>>]
  /\ digests' = [t \in Exporters |-> [name \in Outputs |-> None]]
  /\ failure' = [t \in Exporters |-> "none"]
  /\ UNCHANGED <<rows, disk, history>>

Next ==
  \/ \E s \in Submissions : Commit(s)
  \/ \E t \in Exporters :
       \/ List(t) \/ ListFails(t)
       \/ Open(t) \/ Write(t) \/ WriteFails(t)
       \/ Replace(t) \/ ReplaceFails(t)
       \/ Hash(t)
  \/ Crash

Spec == Init /\ [][Next]_vars

-----------------------------------------------------------------------------
(* Properties *)

\* A descriptor is open only between open and write, a file that is waiting to be
\* renamed was not removed by the export itself, and the digests that are read are
\* those of files that exist.
TypeOK ==
  /\ rows \in Seq(Records)
  /\ DOMAIN temporary = Files /\ DOMAIN published = Files
  /\ at \in [Exporters -> {"idle", "open", "write", "replace", "hash"}]
  /\ file \in [Exporters -> 1 .. Len(Names)]
  /\ handle \in [Exporters -> {"closed", "temporary", "published", "unlinked"}]
  /\ \A t \in Exporters :
       /\ handle[t] # "closed" <=> at[t] = "write"
       /\ at[t] = "hash" => published[Names[file[t]]] # None
       /\ Len(listed[t]) <= Limit
  /\ failure \in [Exporters -> {"none", "invalid row"}]
  /\ alone \in [Exporters -> BOOLEAN]
  /\ clean \in BOOLEAN

\* docs/PROJECT_PLAN.md: "Export fails closed unless consent is true, a source
\* license is recorded, and a correction exists": no published file and no
\* temporary file holds anything of another submission, whatever failed or overlapped.
OnlyConsentedIsWritten ==
  \A name \in Outputs : \A content \in {temporary[name], published[name]} :
    content \notin {Torn, None} =>
      \A i \in 1 .. Len(content) :
        /\ content[i].consent
        /\ content[i].license
        /\ content[i].correction # "none"

\* A published file is never half written, however often the process dies, a disk
\* fails or an export is repeated, as long as exports do not overlap.
WholeUnlessOverlapped ==
  clean => \A name \in Files : published[name] # Torn

\* An export that runs alone and succeeds leaves files that agree: every
\* output and every number in the manifest comes from one listing of the store, and
\* the digests are those of the published files.  It does so over whatever crashed,
\* failed or overlapping exports have left behind.
ManifestDescribesFiles ==
  completed # None =>
    /\ \A name \in Outputs : published[name] = Examples(name, completed)
    /\ published["manifest"].sha256 = [name \in Outputs |-> published[name]]
    /\ published["manifest"].examples = [name \in Outputs |-> Len(published[name])]
    /\ published["manifest"].sources =
         {published["raw"][i] : i \in 1 .. Len(published["raw"])}

\* docs/PROJECT_PLAN.md: "exports are replaced atomically": what is published is
\* whole, also when two exports run at once.
PublishedIsWhole ==
  \A name \in Files : published[name] # Torn
=============================================================================
