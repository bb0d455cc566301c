---------------------------- MODULE ArtifactIndex ----------------------------
(***************************************************************************)
(* The index of saved evidence, src/demo/artifacts.py.  Importers read a   *)
(* directory file by file, read it again, look for earlier imports with    *)
(* three queries that no transaction holds together, and insert all rows   *)
(* in one transaction.  Readers get the bytes of an indexed file if they   *)
(* still are what was indexed.  The directories are edited all the while.  *)
(*                                                                         *)
(* A file's content is the number of its version.  Every edit writes a     *)
(* content the file never had: two contents of one file are never equal    *)
(* again, nor are their hashes.  What one file must say about another      *)
(* (the comparison rows, the manifests, the metrics of each run) is one    *)
(* agreement of two versions.  MaxEdits bounds the edits and MaxImports    *)
(* the imports that are started, MaxReads what is served.  Imports are     *)
(* numbered in the order they begin (n), so that the reports of two        *)
(* imports of one directory with one request are two.                      *)
(***************************************************************************)
EXTENDS Integers, Sequences, FiniteSets

CONSTANTS Importers, Dirs, Owners,
          Synthetic,     \* versions of protocol.json that say so
          Reviewed,      \* REVIEWED_V2_PROTOCOLS: <<directory, version>>
          MaxEdits, MaxImports, MaxReads

ASSUME BoundsAssumption == MaxEdits \in Nat /\ MaxImports \in Nat /\ MaxReads \in Nat
ASSUME ReviewedAssumption == Synthetic \subseteq Nat /\ Reviewed \subseteq Dirs \X Nat

VARIABLES
  disk, past,      \* the files of each directory, now and ever
  edits, started,
  pc, job,         \* the importers
  imports,         \* the rows of an import, of all three tables
  reports,         \* every ImportReport: <<id, imported, job>>, a job per import
  served           \* every ImportedArtifact: <<import id, file, content>>
vars == <<disk, past, edits, started, pc, job, imports, reports, served>>

Absent == -1
Order == <<"protocol.json", "comparison.json", "report", "metrics.json">>
Files == {Order[i] : i \in DOMAIN Order}
Required == Files \ {"report"}
Contents == 0..MaxEdits
Present(files) == {f \in DOMAIN files : files[f] # Absent}
Manifest(files) == [f \in Present(files) |-> files[f]]      \* source_manifest_sha256

Requests == [dir : Dirs, owner : Owners, synthetic : BOOLEAN]
NoJob == [files |-> <<>>, verified |-> {}]

Init ==
  /\ disk = [d \in Dirs |-> [f \in Files |-> 0]]
  /\ past = [d \in Dirs |-> {disk[d]}]
  /\ edits = 0 /\ started = 0
  /\ pc = [i \in Importers |-> "idle"] /\ job = [i \in Importers |-> NoJob]
  /\ imports = {} /\ reports = {} /\ served = {}

directories == <<disk, past, edits>>

(* Somebody writes or removes a file (external). *)
Fresh(d, f) == CHOOSE c \in 1..(MaxEdits + 1) :
                 /\ \A s \in past[d] : s[f] < c
                 /\ c = 1 \/ \E s \in past[d] : s[f] = c - 1
Edit(d, f) ==
  /\ edits < MaxEdits /\ edits' = edits + 1
  /\ \E c \in {Fresh(d, f), Absent} : disk' = [disk EXCEPT ![d][f] = c]
  /\ past' = [past EXCEPT ![d] = @ \cup {disk'[d]}]
  /\ UNCHANGED <<started, pc, job, imports, reports, served>>

-----------------------------------------------------------------------------
(* import_directory. *)

Goto(i, label) == pc' = [pc EXCEPT ![i] = label]
Finish(i) == Goto(i, "idle") /\ job' = [job EXCEPT ![i] = NoJob]
Refuse(i) == Finish(i) /\ UNCHANGED <<imports, reports>>    \* ArtifactImportError
Report(i, id, imported) == reports' = reports \cup {<<id, imported, job[i]>>}

Begin(i, request) ==
  /\ pc[i] = "idle" /\ started < MaxImports /\ started' = started + 1
  /\ Goto(i, "collect")
  /\ job' = [job EXCEPT ![i] =
               [n |-> started + 1, dir |-> request.dir, owner |-> request.owner,
                synthetic |-> request.synthetic, files |-> <<>>, verified |-> {}]]
  /\ UNCHANGED <<directories, imports, reports, served>>

(* _SourceSnapshot.file: each file is read once, the next one in the order *)
(* of the code; parsed values and hashes come from these bytes.            *)
NextFile(i) == Order[Cardinality(DOMAIN job[i].files) + 1]
OnDisk(i, f) == disk[job[i].dir][f]

(* What the files say of each other, and of how they may be labelled. *)
Agree(files) == files["comparison.json"] = files["metrics.json"]
Provenance(files, dir, synthetic) ==
  LET protocol == files["protocol.json"] IN
  IF synthetic THEN protocol \in Synthetic
               ELSE protocol \notin Synthetic /\ <<dir, protocol>> \in Reviewed
Projection(r) == <<r.synthetic, IF r.synthetic THEN "protocol" ELSE r.dir>>

Collect(i) ==
  LET f == NextFile(i)
      files == [g \in DOMAIN job[i].files \cup {f} |->
                  IF g = f THEN OnDisk(i, f) ELSE job[i].files[g]]
      last == DOMAIN files = Files
  IN  /\ pc[i] = "collect"
      /\ IF \/ OnDisk(i, f) = Absent /\ f \in Required
            \/ last /\ ~(Agree(files) /\ Provenance(files, job[i].dir, job[i].synthetic))
         THEN Refuse(i)
         ELSE /\ job' = [job EXCEPT ![i].files = files]
              /\ IF last THEN Goto(i, "verify") ELSE UNCHANGED pc
              /\ UNCHANGED <<imports, reports>>
      /\ UNCHANGED <<directories, started, served>>

(* verify_unchanged: every file that was there is read again. *)
SameBytesMutant(i, f) == TRUE     \* Mutant: nothing is compared.
SameBytes(i, f) == OnDisk(i, f) = job[i].files[f]
NextToVerify(i) ==
  LET left == Present(job[i].files) \ job[i].verified
      at(f) == CHOOSE n \in DOMAIN Order : Order[n] = f
  IN  CHOOSE f \in left : \A g \in left : at(f) <= at(g)
Verify(i) ==
  /\ pc[i] = "verify"
  /\ IF Present(job[i].files) = job[i].verified
     THEN Goto(i, "source") /\ UNCHANGED <<job, imports, reports>>
     ELSE IF SameBytes(i, NextToVerify(i))
     THEN /\ job' = [job EXCEPT ![i].verified = @ \cup {NextToVerify(i)}]
          /\ UNCHANGED <<pc, imports, reports>>
     ELSE Refuse(i)
  /\ UNCHANGED <<directories, started, served>>

(* The three queries. *)
SameManifest(row, i) == row.manifest = Manifest(job[i].files)
FromSource(i) == {row \in imports : row.dir = job[i].dir}
Matches(row, i) ==
  row.owner = job[i].owner /\ SameManifest(row, i) /\ Projection(row) = Projection(job[i])

(* Mutant: who finds the row of an earlier import is told that it is new.  *)
prior_sourceMutant(i) ==
  /\ pc[i] = "source"
  /\ IF FromSource(i) = {} THEN Goto(i, "manifest") /\ UNCHANGED <<job, imports, reports>>
     ELSE \E row \in FromSource(i) :
            IF Matches(row, i) THEN Report(i, row.id, TRUE) /\ Finish(i) /\ UNCHANGED imports
                               ELSE Refuse(i)
  /\ UNCHANGED <<directories, started, served>>

prior_source(i) ==
  /\ pc[i] = "source"
  /\ IF FromSource(i) = {} THEN Goto(i, "manifest") /\ UNCHANGED <<job, imports, reports>>
     ELSE \E row \in FromSource(i) :
            IF Matches(row, i) THEN Report(i, row.id, FALSE) /\ Finish(i) /\ UNCHANGED imports
                               ELSE Refuse(i)
  /\ UNCHANGED <<directories, started, served>>

prior_manifest(i) ==
  /\ pc[i] = "manifest"
  /\ IF \E row \in imports : row.owner = job[i].owner /\ SameManifest(row, i)
     THEN Refuse(i)
     ELSE Goto(i, "owner") /\ UNCHANGED <<job, imports, reports>>
  /\ UNCHANGED <<directories, started, served>>

cross_owner(i) ==
  /\ pc[i] = "owner"
  /\ IF \E row \in imports : SameManifest(row, i)
     THEN Refuse(i)
     ELSE Goto(i, "insert") /\ UNCHANGED <<job, imports, reports>>
  /\ UNCHANGED <<directories, started, served>>

(* The public records fail their schema, or all rows are inserted, or one  *)
(* of the two UNIQUE constraints ends in an exception.                     *)
UniqueMutant(i) == TRUE           \* Mutant: no constraint.
Unique(i) ==
  /\ FromSource(i) = {}
  /\ ~\E row \in imports : row.owner = job[i].owner /\ row.manifest = Manifest(job[i].files)
Insert(i) ==
  LET id == Cardinality(imports) + 1 IN
  /\ pc[i] = "insert"
  /\ \/ Refuse(i)
     \/ /\ Unique(i)
        /\ imports' = imports \cup
             {[id |-> id, dir |-> job[i].dir, owner |-> job[i].owner,
               manifest |-> Manifest(job[i].files), synthetic |-> job[i].synthetic]}
        /\ Report(i, id, TRUE) /\ Finish(i)
  /\ UNCHANGED <<directories, started, served>>

-----------------------------------------------------------------------------
(* resolve_artifact: the row of an artifact of the caller, and its bytes    *)
(* if they are those of the row.  Rows never change, so that the query may *)
(* be taken in the step that reads the file.                               *)
resolve_artifact(owner) ==
  /\ Cardinality(served) < MaxReads
  /\ \E row \in imports : \E f \in DOMAIN row.manifest :
       /\ row.owner = owner
       /\ disk[row.dir][f] = row.manifest[f]
       /\ served' = served \cup {<<row.id, f, disk[row.dir][f]>>}
  /\ UNCHANGED <<directories, started, pc, job, imports, reports>>

ImportStep(i) ==
  \/ \E request \in Requests : Begin(i, request)
  \/ Collect(i) \/ Verify(i)
  \/ prior_source(i) \/ prior_manifest(i) \/ cross_owner(i) \/ Insert(i)

Next ==
  \/ \E i \in Importers : ImportStep(i)
  \/ \E d \in Dirs, f \in Files : Edit(d, f)
  \/ \E owner \in Owners : resolve_artifact(owner)

Spec == Init /\ [][Next]_vars

-----------------------------------------------------------------------------
(* Properties. *)

TypeOK ==
  /\ disk \in [Dirs -> [Files -> Contents \cup {Absent}]]
  /\ edits \in 0..MaxEdits /\ started \in 0..MaxImports
  /\ pc \in [Importers -> {"idle", "collect", "verify", "source", "manifest", "owner", "insert"}]
  /\ \A i \in Importers : DOMAIN job[i].files \subseteq Files /\ job[i].verified \subseteq Files
  /\ \A row \in imports : Required \subseteq DOMAIN row.manifest
  /\ \A s \in served : s[1] \in {row.id : row \in imports}

(* The evidence of an import is one state of its directory: all files that *)
(* were indexed were there together at some instant, agreed with each      *)
(* other, and all that is ever served of the import is of that state,      *)
(* however the directory is edited before, while and after it is read.     *)
EvidenceIsOneInstant ==
  /\ TypeOK
  /\ \A row \in imports :
       \E state \in past[row.dir] :
         /\ \A f \in DOMAIN row.manifest : state[f] = row.manifest[f]
         /\ Agree(state) /\ Provenance(state, row.dir, row.synthetic)
         /\ \A s \in served : s[1] = row.id => state[s[2]] = s[3]

(* A directory is indexed once and one owner's evidence once, although the *)
(* queries of two importers may all come before either inserts.            *)
OneImportPerEvidence ==
  \A row, other \in imports :
    row # other =>
      row.dir # other.dir /\ <<row.owner, row.manifest>> # <<other.owner, other.manifest>>

(* A report names a row that says what its import has read, and of all the *)
(* imports that are answered with a row exactly one is told that it is     *)
(* new, also when the others sent the same request for the same bytes.     *)
(* Each import has at most one report.                                     *)
ReportIsTruthful ==
  /\ \A r \in reports :
       \E row \in imports :
         /\ row.id = r[1] /\ row.dir = r[3].dir /\ row.owner = r[3].owner
         /\ row.manifest = Manifest(r[3].files)
  /\ \A row \in imports : Cardinality({r \in reports : r[1] = row.id /\ r[2]}) = 1
  /\ \A r, q \in reports : r[3].n = q[3].n => r = q
=============================================================================
