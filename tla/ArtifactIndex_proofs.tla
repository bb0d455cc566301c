------------------------ MODULE ArtifactIndex_proofs ------------------------
(***************************************************************************)
(* What importing, serving and editing keep true of the index of saved     *)
(* evidence, for any number of importers, directories, owners, edits and   *)
(* imports.                                                                *)
(***************************************************************************)
EXTENDS ArtifactIndex, FiniteSetTheorems, TLAPS

-----------------------------------------------------------------------------
(* The inductive invariant. *)

States == [Files -> Contents \cup {Absent}]
Readings == UNION {[S -> Contents \cup {Absent}] : S \in SUBSET Files}
Working == [n : Nat, dir : Dirs, owner : Owners, synthetic : BOOLEAN,
            files : Readings, verified : SUBSET Files]
Labels == {"idle", "collect", "verify", "source", "manifest", "owner", "insert"}

Types ==
  /\ disk \in [Dirs -> States] /\ past \in [Dirs -> SUBSET States]
  /\ edits \in 0..MaxEdits /\ started \in 0..MaxImports
  /\ pc \in [Importers -> Labels]
  /\ job \in [Importers -> Working \cup {NoJob}]
  /\ \A i \in Importers : pc[i] # "idle" => job[i] \in Working

(* What a directory holds it has held; the greatest content a file ever    *)
(* had is not above the number of edits, so that a fresh one exists.       *)
DirectoryInv(d) ==
  /\ disk[d] \in past[d]
  /\ \A f \in Files : \E s \in past[d] :
       s[f] \in 0..edits /\ \A t \in past[d] : t[f] <= s[f]

(* A content that was read was on the disk. *)
WasThere(d, f, c) == \E s \in past[d] : s[f] = c

(* An instant: all files that were read, except those that were changed    *)
(* since and have not been read again.                                     *)
InstantOf(j) ==
  \E s \in past[j.dir] : \A f \in Present(j.files) :
    s[f] = j.files[f] \/ (f \notin j.verified /\ disk[j.dir][f] # j.files[f])

(* An importer that has read all files. *)
Complete(j) ==
  /\ DOMAIN j.files = Files /\ Required \subseteq Present(j.files)
  /\ Agree(j.files) /\ Provenance(j.files, j.dir, j.synthetic)
  /\ j.verified \subseteq Present(j.files)
  /\ InstantOf(j)

JobInv(i) ==
  LET j == job[i] IN
  pc[i] # "idle" =>
    /\ \A f \in DOMAIN j.files : WasThere(j.dir, f, j.files[f])
    /\ pc[i] = "collect" =>
         /\ DOMAIN j.files # Files /\ j.verified = {}
         /\ Required \cap DOMAIN j.files \subseteq Present(j.files)
    /\ pc[i] # "collect" => Complete(j)
    /\ pc[i] \notin {"collect", "verify"} => j.verified = Present(j.files)

(* The rows of an import are of one state of its directory. *)
OneInstant(row) ==
  \E s \in past[row.dir] :
    /\ \A f \in DOMAIN row.manifest : s[f] = row.manifest[f]
    /\ Agree(s) /\ Provenance(s, row.dir, row.synthetic)

RowInv(row) ==
  row.dir \in Dirs /\ Required \subseteq DOMAIN row.manifest /\ OneInstant(row)

(* The imports are numbered. *)
IdsInv ==
  /\ IsFiniteSet(imports)
  /\ \A row \in imports : row.id \in 1..Cardinality(imports)
  /\ \A row, other \in imports : row.id = other.id => row = other

ServedInv ==
  \A s \in served : \E row \in imports :
    s[1] = row.id /\ s[2] \in DOMAIN row.manifest /\ s[3] = row.manifest[s[2]]

(* A report names a row with what its importer has read; one report is of  *)
(* the import itself.                                                      *)
ReportNamesRow(r) ==
  \E row \in imports :
    /\ row.id = r[1] /\ row.dir = r[3].dir /\ row.owner = r[3].owner
    /\ row.manifest = Manifest(r[3].files)
OneIsNew(row) ==
  \E r \in reports : /\ r[1] = row.id /\ r[2]
                     /\ \A q \in reports : q[1] = row.id /\ q[2] => q = r

(* The imports under way have numbers of their own, which no report bears. *)
NumbersInv ==
  /\ \A i \in Importers : pc[i] # "idle" =>
       /\ job[i].n <= started
       /\ \A k \in Importers : pc[k] # "idle" /\ job[k].n = job[i].n => k = i
       /\ \A r \in reports : r[3].n # job[i].n
  /\ \A r, q \in reports : r[3].n = q[3].n => r = q
  /\ \A r \in reports : r[3].n \in Nat /\ r[3].n <= started

IndexInv ==
  /\ Types
  /\ \A d \in Dirs : DirectoryInv(d)
  /\ \A i \in Importers : JobInv(i)
  /\ \A row \in imports : RowInv(row)
  /\ IdsInv /\ ServedInv /\ OneImportPerEvidence
  /\ \A r \in reports : ReportNamesRow(r)
  /\ \A row \in imports : OneIsNew(row)

LEMMA IndexInit == Init => IndexInv
<1> SUFFICES ASSUME Init PROVE IndexInv
  OBVIOUS
<1>1. Types
  BY BoundsAssumption DEF Init, Types, States, Contents, Labels, Absent
<1>2. ASSUME NEW d \in Dirs PROVE DirectoryInv(d)
  BY BoundsAssumption DEF Init, DirectoryInv
<1>3. \A i \in Importers : JobInv(i)
  BY DEF Init, JobInv
<1>4. IdsInv
  BY FS_EmptySet DEF Init, IdsInv
<1> QED
  BY <1>1, <1>2, <1>3, <1>4 DEF Init, IndexInv, ServedInv, OneImportPerEvidence

-----------------------------------------------------------------------------
(* Edits. *)

(* The content an edit writes is one the file never had. *)
LEMMA FreshIsNew ==
  ASSUME IndexInv, NEW d \in Dirs, NEW f \in Files, edits < MaxEdits
  PROVE  /\ Fresh(d, f) \in 1..(edits + 1)
         /\ \A s \in past[d] : s[f] < Fresh(d, f)
<1>1. PICK s \in past[d] : s[f] \in 0..edits /\ \A t \in past[d] : t[f] <= s[f]
  BY DEF IndexInv, DirectoryInv
<1>2. edits \in Nat /\ MaxEdits \in Nat /\ \A t \in past[d] : t[f] \in Int
  BY BoundsAssumption DEF IndexInv, Types, States, Contents, Absent
<1> DEFINE IsFresh(c) == /\ \A t \in past[d] : t[f] < c
                         /\ c = 1 \/ \E t \in past[d] : t[f] = c - 1
<1>3. s[f] + 1 \in 1..(MaxEdits + 1) /\ IsFresh(s[f] + 1)
  BY <1>1, <1>2
<1>4. Fresh(d, f) \in 1..(MaxEdits + 1) /\ IsFresh(Fresh(d, f))
  BY <1>3 DEF Fresh
<1>5. Fresh(d, f) <= s[f] + 1
  BY <1>1, <1>2, <1>4
<1> QED
  BY <1>1, <1>2, <1>4, <1>5

(* A file that is no longer what was read never is again. *)
LEMMA EditNeverRestores ==
  ASSUME IndexInv, NEW d \in Dirs, NEW f \in Files, Edit(d, f),
         NEW e \in Dirs, NEW g \in Files, NEW c \in Contents,
         WasThere(e, g, c), disk[e][g] # c
  PROVE  disk'[e][g] # c
<1>1. PICK s \in past[e] : s[g] = c
  BY DEF WasThere
<1>2. PICK n \in {Fresh(d, f), Absent} : disk' = [disk EXCEPT ![d][f] = n]
  BY DEF Edit
<1>3. CASE e = d /\ g = f
  <2>1. disk'[e][g] = n
    BY <1>2, <1>3 DEF IndexInv, Types, States
  <2>2. c < Fresh(d, f) /\ Fresh(d, f) \in Int
    BY <1>1, <1>3, FreshIsNew DEF Edit
  <2>3. c # Absent /\ c \in Int
    BY DEF Contents, Absent
  <2> QED
    BY <1>2, <2>1, <2>2, <2>3
<1>4. CASE ~ (e = d /\ g = f)
  BY <1>2, <1>4 DEF IndexInv, Types, States
<1> QED
  BY <1>3, <1>4

LEMMA EditKeeps ==
  ASSUME IndexInv, NEW d \in Dirs, NEW f \in Files, Edit(d, f)
  PROVE  IndexInv'
<1>1. PICK n \in {Fresh(d, f), Absent} : disk' = [disk EXCEPT ![d][f] = n]
  BY DEF Edit
<1>2. /\ edits < MaxEdits /\ edits' = edits + 1 /\ edits \in Nat /\ MaxEdits \in Nat
      /\ past' = [past EXCEPT ![d] = @ \cup {disk'[d]}]
      /\ UNCHANGED <<started, pc, job, imports, reports, served>>
  BY BoundsAssumption DEF Edit, IndexInv, Types
<1>3. n \in Contents \cup {Absent} /\ n <= edits'
  BY <1>1, <1>2, FreshIsNew DEF Contents, Absent
<1>4. disk' \in [Dirs -> States]
  BY <1>1, <1>3 DEF IndexInv, Types, States
<1>5. Types'
  <2>1. past' \in [Dirs -> SUBSET States]
    BY <1>2, <1>4 DEF IndexInv, Types
  <2>2. edits' \in 0..MaxEdits
    BY <1>2
  <2> QED
    BY <1>2, <1>4, <2>1, <2>2 DEF IndexInv, Types
<1>6. \A e \in Dirs : past[e] \subseteq past'[e]
  BY <1>2 DEF IndexInv, Types
<1>7. ASSUME NEW e \in Dirs PROVE DirectoryInv(e)'
  <2>1. disk'[e] \in past'[e]
    BY <1>1, <1>2 DEF IndexInv, Types, DirectoryInv
  <2>2. ASSUME NEW g \in Files
        PROVE  \E s \in past'[e] : s[g] \in 0..edits' /\ \A t \in past'[e] : t[g] <= s[g]
    <3>1. PICK s \in past[e] : s[g] \in 0..edits /\ \A t \in past[e] : t[g] <= s[g]
      BY DEF IndexInv, DirectoryInv
    <3>2. CASE e # d
      BY <1>2, <3>1, <3>2 DEF IndexInv, Types
    <3>3. CASE e = d
      <4>1. past'[d] = past[d] \cup {disk'[d]}
        BY <1>2 DEF IndexInv, Types
      <4>2. CASE g = f /\ n # Absent
        <5>1. disk'[d][f] = n /\ n = Fresh(d, f)
          BY <1>1, <4>2 DEF IndexInv, Types, States
        <5>2. n \in 1..(edits + 1) /\ \A t \in past[d] : t[f] < n
          BY <1>2, <5>1, FreshIsNew
        <5>3. \A t \in past[d] : t[f] \in Int
          BY DEF IndexInv, Types, States, Contents, Absent
        <5>4. n \in 0..edits' /\ \A t \in past'[d] : t[f] <= n
          BY <1>2, <4>1, <5>1, <5>2, <5>3
        <5> QED
          BY <2>1, <3>3, <4>2, <5>1, <5>4
      <4>3. CASE ~ (g = f /\ n # Absent)
        <5>1. disk'[d][g] <= s[g]
          <6>1. CASE g = f
            BY <1>1, <3>1, <4>3, <6>1 DEF IndexInv, Types, States, Absent
          <6>2. CASE g # f
            <7>1. disk'[d][g] = disk[d][g] /\ disk[d] \in past[d]
              BY <1>1, <6>2 DEF IndexInv, Types, States, DirectoryInv
            <7> QED
              BY <3>1, <3>3, <7>1
          <6> QED
            BY <6>1, <6>2
        <5> QED
          BY <1>2, <3>1, <3>3, <4>1, <5>1
      <4> QED
        BY <4>2, <4>3
    <3> QED
      BY <3>2, <3>3
  <2> QED
    BY <2>1, <2>2 DEF DirectoryInv
<1>8. ASSUME NEW i \in Importers PROVE JobInv(i)'
  <2> SUFFICES ASSUME pc[i] # "idle" PROVE JobInv(i)'
    BY <1>2 DEF JobInv
  <2> DEFINE j == job[i]
  <2>1. j \in Working /\ j.dir \in Dirs /\ j.files \in Readings
    BY DEF IndexInv, Types, Working
  <2>2. \A g \in DOMAIN j.files : WasThere(j.dir, g, j.files[g])
    BY DEF IndexInv, JobInv
  <2>3. \A g \in DOMAIN j.files : WasThere(j.dir, g, j.files[g])'
    BY <1>2, <1>6, <2>1, <2>2 DEF WasThere
  <2>4. ASSUME InstantOf(j), DOMAIN j.files = Files PROVE InstantOf(j)'
    <3>1. PICK s \in past[j.dir] : \A g \in Present(j.files) :
            s[g] = j.files[g] \/ (g \notin j.verified /\ disk[j.dir][g] # j.files[g])
      BY <2>4 DEF InstantOf
    <3>2. ASSUME NEW g \in Present(j.files), disk[j.dir][g] # j.files[g]
          PROVE  disk'[j.dir][g] # j.files[g]
      <4>1. g \in Files /\ j.files[g] \in Contents
        BY <2>1, <2>4 DEF Present, Readings
      <4> QED
        BY <2>1, <2>2, <2>4, <3>2, <4>1, EditNeverRestores
    <3>3. s \in past'[j.dir] /\ j' = j
      BY <1>2, <1>6, <2>1
    <3> QED
      BY <3>1, <3>2, <3>3 DEF InstantOf
  <2>5. Complete(j) => Complete(j)'
    BY <1>2, <2>4 DEF Complete
  <2> QED
    BY <1>2, <2>3, <2>5 DEF IndexInv, JobInv
<1>9. ASSUME NEW row \in imports PROVE RowInv(row)'
  <2>1. RowInv(row) /\ row.dir \in Dirs
    BY DEF IndexInv, RowInv
  <2> QED
    BY <1>6, <2>1 DEF RowInv, OneInstant
<1>10. IdsInv' /\ ServedInv' /\ OneImportPerEvidence'
  BY <1>2 DEF IndexInv, IdsInv, ServedInv, OneImportPerEvidence
<1>11. /\ \A r \in reports : ReportNamesRow(r)'
       /\ \A row \in imports : OneIsNew(row)'
  BY <1>2 DEF IndexInv, ReportNamesRow, OneIsNew
<1> QED
  BY <1>2, <1>5, <1>7, <1>8, <1>9, <1>10, <1>11 DEF IndexInv

-----------------------------------------------------------------------------
(* Importers. *)

(* A step that moves one importer, touches no directory and adds no row or *)
(* report keeps the invariant when the importer's own part is kept.        *)
LEMMA OneImporterMoves ==
  ASSUME IndexInv, NEW i \in Importers,
         UNCHANGED <<disk, past, edits, imports, reports, served>>,
         started' \in 0..MaxImports,
         NEW label \in Labels, pc' = [pc EXCEPT ![i] = label],
         NEW j \in Working \cup {NoJob}, job' = [job EXCEPT ![i] = j],
         label # "idle" => j \in Working, JobInv(i)'
  PROVE  IndexInv'
<1>1. Types'
  BY DEF IndexInv, Types
<1>2. ASSUME NEW k \in Importers PROVE JobInv(k)'
  <2>1. CASE k = i
    BY <2>1
  <2>2. CASE k # i
    <3>1. pc'[k] = pc[k] /\ job'[k] = job[k]
      BY <2>2 DEF IndexInv, Types
    <3>2. JobInv(k)
      BY DEF IndexInv
    <3> QED
      BY <3>1, <3>2 DEF JobInv, WasThere, Complete, InstantOf
  <2> QED
    BY <2>1, <2>2
<1>3. \A d \in Dirs : DirectoryInv(d)'
  BY DEF IndexInv, DirectoryInv
<1>4. \A row \in imports : RowInv(row)'
  BY DEF IndexInv, RowInv, OneInstant
<1>5. IdsInv' /\ ServedInv' /\ OneImportPerEvidence'
  BY DEF IndexInv, IdsInv, ServedInv, OneImportPerEvidence
<1>6. /\ \A r \in reports : ReportNamesRow(r)'
      /\ \A row \in imports : OneIsNew(row)'
  BY DEF IndexInv, ReportNamesRow, OneIsNew
<1> QED
  BY <1>1, <1>2, <1>3, <1>4, <1>5, <1>6 DEF IndexInv

LEMMA NoFilesYet == <<>> \in Readings /\ DOMAIN <<>> = {}
  BY DEF Readings

(* A refused import leaves nothing behind. *)
LEMMA RefuseKeeps ==
  ASSUME IndexInv, NEW i \in Importers, Refuse(i), UNCHANGED <<disk, past, edits, started, served>>
  PROVE  IndexInv'
<1>1. pc' = [pc EXCEPT ![i] = "idle"] /\ job' = [job EXCEPT ![i] = NoJob]
  BY DEF Refuse, Finish, Goto
<1>2. JobInv(i)'
  BY <1>1 DEF JobInv, IndexInv, Types
<1>3. UNCHANGED <<disk, past, edits, imports, reports, served>> /\ started' \in 0..MaxImports
  BY DEF Refuse, IndexInv, Types
<1> QED
  BY <1>1, <1>2, <1>3, OneImporterMoves DEF Labels

(* import_directory is called *)
LEMMA BeginKeeps ==
  ASSUME IndexInv, NEW i \in Importers, NEW request \in Requests, Begin(i, request)
  PROVE  IndexInv'
<1> DEFINE j == [n |-> started + 1, dir |-> request.dir, owner |-> request.owner,
                 synthetic |-> request.synthetic, files |-> <<>>, verified |-> {}]
<1>1. /\ pc' = [pc EXCEPT ![i] = "collect"] /\ job' = [job EXCEPT ![i] = j]
      /\ UNCHANGED <<disk, past, edits, imports, reports, served>>
  BY DEF Begin, Goto, directories
<1>2. j \in Working /\ j.files = <<>> /\ j.verified = {}
  BY NoFilesYet, BoundsAssumption DEF Requests, Working, IndexInv, Types
<1>3. started' \in 0..MaxImports
  BY BoundsAssumption DEF Begin, IndexInv, Types
<1>4. pc'[i] = "collect" /\ job'[i] = j
  BY <1>1 DEF IndexInv, Types
<1>5. JobInv(i)'
  BY <1>2, <1>4, NoFilesYet DEF JobInv, Files, Order
<1> HIDE DEF j
<1> QED
  BY <1>1, <1>2, <1>3, <1>5, OneImporterMoves DEF Labels

LEMMA FilesAreFour == /\ IsFiniteSet(Files) /\ Cardinality(Files) = 4
                      /\ \A n \in 1..4 : Order[n] \in Files
<1>1. Files = {"protocol.json", "comparison.json", "report", "metrics.json"}
  BY DEF Files, Order
<1>2. Files = (({"protocol.json"} \cup {"comparison.json"}) \cup {"report"}) \cup {"metrics.json"}
  BY <1>1
<1>3. IsFiniteSet({"protocol.json"}) /\ Cardinality({"protocol.json"}) = 1
  BY FS_Singleton
<1>4. /\ IsFiniteSet({"protocol.json"} \cup {"comparison.json"})
      /\ Cardinality({"protocol.json"} \cup {"comparison.json"}) = 2
  BY <1>3, FS_AddElement
<1>5. /\ IsFiniteSet(({"protocol.json"} \cup {"comparison.json"}) \cup {"report"})
      /\ Cardinality(({"protocol.json"} \cup {"comparison.json"}) \cup {"report"}) = 3
  BY <1>4, FS_AddElement
<1>6. IsFiniteSet(Files) /\ Cardinality(Files) = 4
  BY <1>2, <1>5, FS_AddElement
<1> QED
  BY <1>1, <1>6 DEF Order

(* An importer that has not read all files has one to read next. *)
LEMMA NextFileIsAFile ==
  ASSUME IndexInv, NEW i \in Importers, pc[i] = "collect"
  PROVE  NextFile(i) \in Files
<1> DEFINE read == DOMAIN job[i].files
<1>1. read \subseteq Files /\ read # Files
  BY DEF IndexInv, Types, JobInv, Working, Readings
<1>2. Cardinality(read) \in Nat /\ Cardinality(read) < 4
  BY <1>1, FilesAreFour, FS_Subset, FS_CardinalityType
<1>3. Cardinality(read) + 1 \in 1..4
  BY <1>2
<1> QED
  BY <1>3, FilesAreFour DEF NextFile

(* The first reading of a file; after the last, the files on the disk are  *)
(* the instant: what was read before and differs has been changed since.   *)
LEMMA CollectKeeps ==
  ASSUME IndexInv, NEW i \in Importers, Collect(i)
  PROVE  IndexInv'
<1> DEFINE f == NextFile(i)
           old == job[i].files
           files == [g \in DOMAIN old \cup {f} |-> IF g = f THEN OnDisk(i, f) ELSE old[g]]
           j == [job[i] EXCEPT !.files = files]
<1>1. /\ job[i] \in Working /\ f \in Files /\ job[i].dir \in Dirs
      /\ job[i].verified = {} /\ old \in Readings /\ DOMAIN old \subseteq Files
  BY NextFileIsAFile DEF Collect, IndexInv, Types, JobInv, Working, Readings
<1>2. OnDisk(i, f) \in Contents \cup {Absent} /\ disk[job[i].dir] \in States
  BY <1>1 DEF OnDisk, IndexInv, Types, States
<1>3. /\ DOMAIN files = DOMAIN old \cup {f}
      /\ files[f] = OnDisk(i, f) /\ \A g \in DOMAIN old : g # f => files[g] = old[g]
  OBVIOUS
<1>4. files \in Readings
  <2>1. files \in [DOMAIN old \cup {f} -> Contents \cup {Absent}]
    BY <1>1, <1>2 DEF Readings
  <2> QED
    BY <1>1, <2>1 DEF Readings
<1>5. j \in Working /\ j.dir = job[i].dir /\ j.synthetic = job[i].synthetic
      /\ j.files = files /\ j.verified = {}
  <2> HIDE DEF files
  <2> QED
    BY <1>1, <1>4 DEF Working
<1>6. CASE Refuse(i)
  BY <1>6, RefuseKeeps DEF Collect, directories
<1>7. CASE /\ ~ (OnDisk(i, f) = Absent /\ f \in Required)
           /\ ~ (DOMAIN files = Files
                   /\ ~ (Agree(files) /\ Provenance(files, job[i].dir, job[i].synthetic)))
           /\ job' = [job EXCEPT ![i] = j]
           /\ pc' = [pc EXCEPT ![i] = IF DOMAIN files = Files THEN "verify" ELSE "collect"]
           /\ UNCHANGED <<imports, reports>>
  <2> DEFINE label == IF DOMAIN files = Files THEN "verify" ELSE "collect"
  <2>1. job'[i] = j /\ pc'[i] = label
    BY <1>7 DEF IndexInv, Types
  <2>2. UNCHANGED <<disk, past, edits, imports, reports, served>> /\ started' \in 0..MaxImports
    BY <1>7 DEF Collect, directories, IndexInv, Types
  <2>3. ASSUME NEW g \in DOMAIN files PROVE WasThere(j.dir, g, files[g])
    <3>1. CASE g = f
      BY <1>1, <1>3, <1>5, <3>1 DEF WasThere, OnDisk, IndexInv, DirectoryInv
    <3>2. CASE g # f
      <4>1. WasThere(job[i].dir, g, old[g])
        BY <1>3, <3>2 DEF Collect, IndexInv, JobInv
      <4> QED
        BY <1>3, <1>5, <3>2, <4>1
    <3> QED
      BY <3>1, <3>2
  <2>4. Required \cap DOMAIN files \subseteq Present(files)
    BY <1>3, <1>7 DEF Collect, IndexInv, JobInv, Present
  <2>5. ASSUME DOMAIN files = Files PROVE Complete(j)
    <3>1. InstantOf(j)
      <4>1. disk[j.dir] \in past[j.dir]
        BY <1>1, <1>5 DEF IndexInv, DirectoryInv
      <4> QED
        BY <1>5, <4>1 DEF InstantOf
    <3> HIDE DEF files
    <3> QED
      BY <1>5, <1>7, <2>4, <2>5, <3>1 DEF Complete, Required
  <2>6. JobInv(i)'
    <3>1. PICK w, to : w = j /\ to = label
      OBVIOUS
    <3>2. job'[i] = w /\ pc'[i] = to
      BY <2>1, <3>1
    <3> HIDE DEF files, j, label
    <3>3. (Complete(w)' <=> Complete(w)) /\ UNCHANGED past
      BY <2>2 DEF Complete, InstantOf
    <3>4. \A g \in DOMAIN w.files : WasThere(w.dir, g, w.files[g])'
      BY <1>5, <2>3, <3>1, <3>3 DEF WasThere
    <3>5. \/ /\ to = "collect" /\ DOMAIN w.files # Files /\ w.verified = {}
             /\ Required \cap DOMAIN w.files \subseteq Present(w.files)
          \/ to = "verify" /\ Complete(w)'
      BY <1>5, <2>4, <2>5, <3>1, <3>3 DEF label
    <3> QED
      BY <3>2, <3>4, <3>5 DEF JobInv
  <2> HIDE DEF j, files
  <2> QED
    BY <1>5, <1>7, <2>2, <2>6, OneImporterMoves DEF Labels
<1> QED
  <2>1. CASE ~ Refuse(i)
    <3>1. job' = [job EXCEPT ![i] = j]
      BY <2>1 DEF Collect
    <3>2. pc' = [pc EXCEPT ![i] = IF DOMAIN files = Files THEN "verify" ELSE "collect"]
      BY <2>1 DEF Collect, Goto, IndexInv, Types
    <3> QED
      BY <1>7, <2>1, <3>1, <3>2 DEF Collect
  <2> QED
    BY <1>6, <2>1

(* verify_unchanged takes the files that are left in the order of the code. *)
LEMMA NextToVerifyIsLeft ==
  ASSUME NEW i \in Importers, Present(job[i].files) \subseteq Files,
         ~ (Present(job[i].files) \subseteq job[i].verified)
  PROVE  NextToVerify(i) \in Present(job[i].files) \ job[i].verified
<1> DEFINE left == Present(job[i].files) \ job[i].verified
           at(f) == CHOOSE n \in DOMAIN Order : Order[n] = f
<1>1. left # {} /\ left \subseteq {"protocol.json", "comparison.json", "report", "metrics.json"}
  BY DEF Files, Order
<1>2. /\ at("protocol.json") = 1 /\ at("comparison.json") = 2
      /\ at("report") = 3 /\ at("metrics.json") = 4
  BY DEF Order
<1> HIDE DEF left, at
<1>3. \E f \in left : \A g \in left : at(f) <= at(g)
  <2>1. CASE "protocol.json" \in left
    <3>1. \A g \in left : at("protocol.json") <= at(g)
      BY <1>1, <1>2
    <3> QED
      BY <2>1, <3>1
  <2>2. CASE "protocol.json" \notin left /\ "comparison.json" \in left
    <3>1. \A g \in left : at("comparison.json") <= at(g)
      BY <1>1, <1>2, <2>2
    <3> QED
      BY <2>2, <3>1
  <2>3. CASE "protocol.json" \notin left /\ "comparison.json" \notin left /\ "report" \in left
    <3>1. \A g \in left : at("report") <= at(g)
      BY <1>1, <1>2, <2>3
    <3> QED
      BY <2>3, <3>1
  <2>4. CASE left = {"metrics.json"}
    BY <1>2, <2>4
  <2> QED
    BY <1>1, <2>1, <2>2, <2>3, <2>4
<1> QED
  BY <1>3 DEF NextToVerify, left, at

(* A file that is read again and is the same was so at the instant: had it *)
(* been changed in between, it could not be the same again.                *)
LEMMA VerifyKeeps ==
  ASSUME IndexInv, NEW i \in Importers, Verify(i)
  PROVE  IndexInv'
<1> DEFINE old == job[i]
           f == NextToVerify(i)
<1>1. /\ old \in Working /\ Complete(old) /\ Present(old.files) \subseteq Files
      /\ \A g \in DOMAIN old.files : WasThere(old.dir, g, old.files[g])
  BY DEF Verify, IndexInv, Types, JobInv, Complete, Present
<1>2. UNCHANGED <<disk, past, edits, served, started>> /\ started' \in 0..MaxImports
      /\ pc[i] = "verify"
  BY DEF Verify, directories, IndexInv, Types
<1>3. CASE Refuse(i)
  BY <1>2, <1>3, RefuseKeeps
<1>4. CASE Present(old.files) = old.verified /\ Goto(i, "source") /\ UNCHANGED <<job, imports, reports>>
  <2>1. pc'[i] = "source" /\ job'[i] = old /\ job' = [job EXCEPT ![i] = old]
    BY <1>4 DEF Goto, IndexInv, Types
  <2>2. PICK w : w = old
    OBVIOUS
  <2>3. Complete(w)'
    BY <1>1, <1>2, <2>2 DEF Complete, InstantOf
  <2>4. JobInv(i)'
    BY <1>1, <1>2, <1>4, <2>1, <2>2, <2>3 DEF JobInv, WasThere
  <2> QED
    BY <1>1, <1>2, <1>4, <2>1, <2>4, OneImporterMoves DEF Goto, Labels
<1>5. CASE /\ Present(old.files) # old.verified /\ SameBytes(i, f)
           /\ job' = [job EXCEPT ![i].verified = @ \cup {f}]
           /\ UNCHANGED <<pc, imports, reports>>
  <2>1. PICK w : w = [old EXCEPT !.verified = @ \cup {f}]
    OBVIOUS
  <2>2. f \in Present(old.files) \ old.verified
    BY <1>1, <1>5, NextToVerifyIsLeft DEF Complete
  <2>3. /\ w \in Working /\ w.dir = old.dir /\ w.synthetic = old.synthetic
        /\ w.files = old.files /\ w.verified = old.verified \cup {f}
    BY <1>1, <2>1, <2>2 DEF Working
  <2>4. job' = [job EXCEPT ![i] = w] /\ job'[i] = w /\ pc' = [pc EXCEPT ![i] = "verify"]
    BY <1>2, <1>5, <2>1 DEF IndexInv, Types
  <2>5. InstantOf(w)
    <3>1. PICK s \in past[old.dir] : \A g \in Present(old.files) :
            s[g] = old.files[g] \/ (g \notin old.verified /\ disk[old.dir][g] # old.files[g])
      BY <1>1 DEF Complete, InstantOf
    <3>2. disk[old.dir][f] = old.files[f]
      BY <1>5 DEF SameBytes, OnDisk
    <3> QED
      BY <2>2, <2>3, <3>1, <3>2 DEF InstantOf
  <2>6. Complete(w)'
    BY <1>1, <1>2, <2>2, <2>3, <2>5 DEF Complete, InstantOf
  <2>7. JobInv(i)'
    <3>1. pc'[i] = "verify"
      BY <1>2, <1>5
    <3>2. \A g \in DOMAIN w.files : WasThere(w.dir, g, w.files[g])'
      BY <1>1, <1>2, <2>3 DEF WasThere
    <3> QED
      BY <2>4, <2>6, <3>1, <3>2 DEF JobInv
  <2> QED
    BY <1>2, <1>5, <2>3, <2>4, <2>7, OneImporterMoves DEF Labels
<1> QED
  BY <1>3, <1>4, <1>5 DEF Verify

-----------------------------------------------------------------------------
(* The queries and the insertion. *)

(* A query that finds nothing takes the importer to the next. *)
LEMMA QueryKeeps ==
  ASSUME IndexInv, NEW i \in Importers, pc[i] \in {"source", "manifest", "owner"},
         NEW label \in {"manifest", "owner", "insert"}, Goto(i, label),
         UNCHANGED <<disk, past, edits, started, served, job, imports, reports>>
  PROVE  IndexInv'
<1> DEFINE old == job[i]
<1>1. /\ old \in Working /\ Complete(old) /\ old.verified = Present(old.files)
      /\ \A g \in DOMAIN old.files : WasThere(old.dir, g, old.files[g])
  BY DEF IndexInv, Types, JobInv
<1>2. pc'[i] = label /\ job'[i] = old /\ job' = [job EXCEPT ![i] = old]
  BY DEF Goto, IndexInv, Types
<1>3. PICK w : w = old
  OBVIOUS
<1>4. Complete(w)'
  BY <1>1, <1>3 DEF Complete, InstantOf
<1>5. JobInv(i)'
  BY <1>1, <1>2, <1>3, <1>4 DEF JobInv, WasThere
<1>6. started' \in 0..MaxImports /\ label \in Labels /\ label # "idle"
  BY DEF IndexInv, Types, Labels
<1> QED
  BY <1>1, <1>2, <1>5, <1>6, OneImporterMoves DEF Goto

(* The end of an import concerns no other importer. *)
LEMMA EndKeepsJobs ==
  ASSUME IndexInv, NEW i \in Importers, Finish(i), UNCHANGED <<disk, past, edits, started>>
  PROVE  Types' /\ \A k \in Importers : JobInv(k)'
<1>1. pc' = [pc EXCEPT ![i] = "idle"] /\ job' = [job EXCEPT ![i] = NoJob]
  BY DEF Finish, Goto
<1>2. Types'
  BY <1>1 DEF IndexInv, Types, Labels
<1>3. ASSUME NEW k \in Importers PROVE JobInv(k)'
  <2>1. CASE k = i
    BY <1>1, <2>1 DEF JobInv, IndexInv, Types
  <2>2. CASE k # i
    <3>1. pc'[k] = pc[k] /\ job'[k] = job[k] /\ JobInv(k)
      BY <1>1, <2>2 DEF IndexInv, Types
    <3> QED
      BY <3>1 DEF JobInv, WasThere, Complete, InstantOf
  <2> QED
    BY <2>1, <2>2
<1> QED
  BY <1>2, <1>3

(* The first query ends the import with the row that is already there, or  *)
(* refuses it.                                                             *)
LEMMA prior_sourceKeeps ==
  ASSUME IndexInv, NEW i \in Importers, prior_source(i)
  PROVE  IndexInv'
<1>1. UNCHANGED <<disk, past, edits, served, started>> /\ pc[i] = "source"
  BY DEF prior_source, directories
<1>2. CASE Refuse(i)
  BY <1>1, <1>2, RefuseKeeps
<1>3. CASE Goto(i, "manifest") /\ UNCHANGED <<job, imports, reports>>
  BY <1>1, <1>3, QueryKeeps
<1>4. ASSUME NEW row \in FromSource(i), Matches(row, i), Report(i, row.id, FALSE), Finish(i),
             UNCHANGED imports
      PROVE  IndexInv'
  <2>1. reports' = reports \cup {<<row.id, FALSE, job[i]>>}
    BY <1>4 DEF Report
  <2>2. /\ row \in imports /\ row.dir = job[i].dir /\ row.owner = job[i].owner
        /\ row.manifest = Manifest(job[i].files)
    BY <1>4 DEF FromSource, Matches, SameManifest
  <2>3. \A r \in reports' : ReportNamesRow(r)'
    <3>1. ASSUME NEW r \in reports' PROVE \E q \in imports :
             /\ q.id = r[1] /\ q.dir = r[3].dir /\ q.owner = r[3].owner
             /\ q.manifest = Manifest(r[3].files)
      <4>1. CASE r \in reports
        BY <4>1 DEF IndexInv, ReportNamesRow
      <4>2. CASE r = <<row.id, FALSE, job[i]>>
        BY <2>2, <4>2
      <4> QED
        BY <2>1, <4>1, <4>2
    <3> QED
      BY <1>4, <3>1 DEF ReportNamesRow
  <2>4. \A q \in imports : OneIsNew(q)'
    <3> SUFFICES ASSUME NEW q \in imports PROVE OneIsNew(q)'
      OBVIOUS
    <3>1. PICK r \in reports : /\ r[1] = q.id /\ r[2]
                              /\ \A t \in reports : t[1] = q.id /\ t[2] => t = r
      BY DEF IndexInv, OneIsNew
    <3>2. ASSUME NEW t \in reports', t[1] = q.id, t[2] PROVE t = r
      <4>1. CASE t \in reports
        BY <3>1, <3>2, <4>1
      <4>2. CASE t = <<row.id, FALSE, job[i]>>
        <5>1. t[2] = FALSE
          BY <4>2
        <5> QED
          BY <3>2, <5>1, Zenon
      <4> QED
        BY <2>1, <4>1, <4>2
    <3> QED
      BY <2>1, <3>1, <3>2 DEF OneIsNew
  <2>5. Types' /\ \A k \in Importers : JobInv(k)'
    BY <1>1, <1>4, EndKeepsJobs
  <2>6. /\ \A d \in Dirs : DirectoryInv(d)'
        /\ \A q \in imports : RowInv(q)'
        /\ IdsInv' /\ ServedInv' /\ OneImportPerEvidence'
    BY <1>1, <1>4 DEF IndexInv, DirectoryInv, RowInv, OneInstant, IdsInv, ServedInv,
                      OneImportPerEvidence
  <2> QED
    BY <1>4, <2>3, <2>4, <2>5, <2>6 DEF IndexInv
<1> QED
  BY <1>2, <1>3, <1>4 DEF prior_source

LEMMA prior_manifestKeeps ==
  ASSUME IndexInv, NEW i \in Importers, prior_manifest(i)
  PROVE  IndexInv'
  BY RefuseKeeps, QueryKeeps DEF prior_manifest, directories

LEMMA cross_ownerKeeps ==
  ASSUME IndexInv, NEW i \in Importers, cross_owner(i)
  PROVE  IndexInv'
  BY RefuseKeeps, QueryKeeps DEF cross_owner, directories

(* The row that an importer inserts after it has read all files twice is   *)
(* of the instant between its two readings.                                *)
LEMMA RowOfInstant ==
  ASSUME IndexInv, NEW i \in Importers, pc[i] = "insert", NEW row,
         row.dir = job[i].dir, row.manifest = Manifest(job[i].files),
         row.synthetic = job[i].synthetic
  PROVE  RowInv(row)
<1> DEFINE j == job[i]
<1>1. j \in Working /\ j.dir \in Dirs /\ Complete(j) /\ j.verified = Present(j.files)
  BY DEF IndexInv, Types, JobInv, Working
<1>2. PICK s \in past[j.dir] : \A f \in Present(j.files) :
        s[f] = j.files[f] \/ (f \notin j.verified /\ disk[j.dir][f] # j.files[f])
  BY <1>1 DEF Complete, InstantOf
<1>3. \A f \in Present(j.files) : s[f] = j.files[f]
  BY <1>1, <1>2
<1>4. DOMAIN row.manifest = Present(j.files) /\ \A f \in Present(j.files) : row.manifest[f] = j.files[f]
  BY DEF Manifest
<1>5. {"protocol.json", "comparison.json", "metrics.json"} \subseteq Present(j.files)
  BY <1>1 DEF Complete, Required, Files, Order
<1>6. Agree(s) /\ Provenance(s, j.dir, j.synthetic)
  BY <1>1, <1>3, <1>5 DEF Complete, Agree, Provenance
<1>7. Required \subseteq DOMAIN row.manifest
  BY <1>1, <1>4 DEF Complete
<1> QED
  BY <1>1, <1>3, <1>4, <1>6, <1>7 DEF RowInv, OneInstant

(* All rows of the import are inserted at once, if none of the constraints *)
(* forbids it.                                                             *)
LEMMA InsertKeeps ==
  ASSUME IndexInv, NEW i \in Importers, Insert(i)
  PROVE  IndexInv'
<1> DEFINE n == Cardinality(imports)
           row == [id |-> n + 1, dir |-> job[i].dir, owner |-> job[i].owner,
                   manifest |-> Manifest(job[i].files), synthetic |-> job[i].synthetic]
           new == <<n + 1, TRUE, job[i]>>
<1>1. UNCHANGED <<disk, past, edits, served, started>> /\ pc[i] = "insert"
  BY DEF Insert, directories
<1>2. CASE Refuse(i)
  BY <1>1, <1>2, RefuseKeeps
<1>3. ASSUME Unique(i), imports' = imports \cup {row}, reports' = reports \cup {new}, Finish(i)
      PROVE  IndexInv'
  <2>1. /\ row.id = n + 1 /\ row.dir = job[i].dir /\ row.owner = job[i].owner
        /\ row.manifest = Manifest(job[i].files) /\ row.synthetic = job[i].synthetic
    OBVIOUS
  <2>2. PICK r0, w : r0 = row /\ w = job[i]
    OBVIOUS
  <2>3. /\ r0.id = n + 1 /\ r0.dir = w.dir /\ r0.owner = w.owner
        /\ r0.manifest = Manifest(w.files) /\ RowInv(r0)
        /\ imports' = imports \cup {r0} /\ reports' = reports \cup {<<n + 1, TRUE, w>>}
    BY <1>1, <1>3, <2>1, <2>2, RowOfInstant
  <2> HIDE DEF row, new
  <2>4. /\ n \in Nat /\ IsFiniteSet(imports)
        /\ \A q \in imports : q.id \in 1..n
    BY FS_CardinalityType DEF IndexInv, IdsInv
  <2>5. r0 \notin imports
    BY <2>3, <2>4
  <2>6. IsFiniteSet(imports') /\ Cardinality(imports') = n + 1
    BY <2>3, <2>4, <2>5, FS_AddElement
  <2>7. IdsInv'
    <3>1. \A q \in imports' : q.id \in 1..(n + 1)
      BY <2>3, <2>4
    <3>2. \A q, other \in imports' : q.id = other.id => q = other
      <4>1. \A q \in imports : q.id # n + 1
        BY <2>4
      <4> QED
        BY <2>3, <4>1 DEF IndexInv, IdsInv
    <3> QED
      BY <2>6, <3>1, <3>2 DEF IdsInv
  <2>8. \A q \in imports' : RowInv(q)'
    <3>1. \A q \in imports' : RowInv(q)
      BY <2>3 DEF IndexInv
    <3> QED
      BY <1>1, <3>1 DEF RowInv, OneInstant
  <2>9. ServedInv'
    BY <1>1, <2>3 DEF IndexInv, ServedInv
  <2>10. OneImportPerEvidence'
    <3>1. \A q \in imports : /\ q.dir # r0.dir
                             /\ <<q.owner, q.manifest>> # <<r0.owner, r0.manifest>>
      BY <1>3, <2>2, <2>3 DEF Unique, FromSource
    <3> QED
      BY <2>3, <3>1 DEF IndexInv, OneImportPerEvidence
  <2>11. \A r \in reports' : ReportNamesRow(r)'
    <3>1. ASSUME NEW r \in reports' PROVE \E q \in imports' :
             /\ q.id = r[1] /\ q.dir = r[3].dir /\ q.owner = r[3].owner
             /\ q.manifest = Manifest(r[3].files)
      <4>1. CASE r \in reports
        BY <2>3, <4>1 DEF IndexInv, ReportNamesRow
      <4>2. CASE r = <<n + 1, TRUE, w>>
        BY <2>3, <4>2
      <4> QED
        BY <2>3, <4>1, <4>2
    <3> QED
      BY <3>1 DEF ReportNamesRow
  <2>12. \A r \in reports : r[1] \in 1..n
    BY <2>4 DEF IndexInv, ReportNamesRow
  <2>13. ASSUME NEW q \in imports' PROVE OneIsNew(q)'
    <3>1. CASE q \in imports
      <4>1. PICK r \in reports : /\ r[1] = q.id /\ r[2]
                                /\ \A t \in reports : t[1] = q.id /\ t[2] => t = r
        BY <3>1 DEF IndexInv, OneIsNew
      <4>2. q.id # n + 1
        BY <2>4, <3>1
      <4>3. ASSUME NEW t \in reports', t[1] = q.id, t[2] PROVE t = r
        <5>1. t \in reports
          <6>1. ASSUME t = <<n + 1, TRUE, w>> PROVE FALSE
            <7>1. t[1] = n + 1
              BY <6>1
            <7> QED
              BY <4>2, <4>3, <7>1, Zenon
          <6> QED
            BY <2>3, <6>1
        <5> QED
          BY <4>1, <4>3, <5>1, Zenon
      <4> QED
        BY <2>3, <4>1, <4>3 DEF OneIsNew
    <3>2. CASE q = r0
      <4> DEFINE r == <<n + 1, TRUE, w>>
      <4>1. r \in reports' /\ r[1] = q.id /\ r[2]
        BY <2>3, <3>2
      <4>2. ASSUME NEW t \in reports', t[1] = q.id PROVE t = r
        <5>1. t \notin reports
          BY <2>3, <2>4, <2>12, <3>2, <4>2
        <5> QED
          BY <2>3, <5>1
      <4> QED
        BY <4>1, <4>2 DEF OneIsNew
    <3> QED
      BY <2>3, <3>1, <3>2
  <2>14. Types' /\ \A k \in Importers : JobInv(k)'
    BY <1>1, <1>3, EndKeepsJobs
  <2>15. \A d \in Dirs : DirectoryInv(d)'
    BY <1>1 DEF IndexInv, DirectoryInv
  <2> QED
    BY <2>7, <2>8, <2>9, <2>10, <2>11, <2>13, <2>14, <2>15 DEF IndexInv
<1> QED
  BY <1>2, <1>3 DEF Insert, Report

(* resolve_artifact *)
LEMMA resolve_artifactKeeps ==
  ASSUME IndexInv, NEW owner \in Owners, resolve_artifact(owner)
  PROVE  IndexInv'
<1>1. UNCHANGED <<disk, past, edits, started, pc, job, imports, reports>>
  BY DEF resolve_artifact, directories
<1>2. PICK row \in imports : \E f \in DOMAIN row.manifest :
        /\ disk[row.dir][f] = row.manifest[f]
        /\ served' = served \cup {<<row.id, f, disk[row.dir][f]>>}
  BY DEF resolve_artifact
<1>3. PICK f \in DOMAIN row.manifest :
        served' = served \cup {<<row.id, f, row.manifest[f]>>}
  BY <1>2
<1>4. ServedInv'
  BY <1>1, <1>3 DEF IndexInv, ServedInv
<1>5. \A i \in Importers : JobInv(i)'
  BY <1>1 DEF IndexInv, JobInv, WasThere, Complete, InstantOf
<1>6. \A q \in imports : RowInv(q)'
  BY <1>1 DEF IndexInv, RowInv, OneInstant
<1>7. Types' /\ \A d \in Dirs : DirectoryInv(d)'
  BY <1>1 DEF IndexInv, Types, DirectoryInv
<1>8. /\ IdsInv' /\ OneImportPerEvidence'
      /\ \A r \in reports : ReportNamesRow(r)'
      /\ \A q \in imports : OneIsNew(q)'
  BY <1>1 DEF IndexInv, IdsInv, OneImportPerEvidence, ReportNamesRow, OneIsNew
<1> QED
  BY <1>1, <1>4, <1>5, <1>6, <1>7, <1>8 DEF IndexInv

-----------------------------------------------------------------------------
(* The invariant and the properties. *)

LEMMA IndexStutters ==
  ASSUME IndexInv, UNCHANGED vars
  PROVE  IndexInv'
<1>1. UNCHANGED <<disk, past, edits, started, pc, job, imports, reports, served>>
  BY DEF vars
<1>2. Types' /\ \A d \in Dirs : DirectoryInv(d)'
  BY <1>1 DEF IndexInv, Types, DirectoryInv
<1>3. \A i \in Importers : JobInv(i)'
  BY <1>1 DEF IndexInv, JobInv, WasThere, Complete, InstantOf
<1>4. \A row \in imports : RowInv(row)' /\ OneIsNew(row)'
  BY <1>1 DEF IndexInv, RowInv, OneInstant, OneIsNew
<1>5. /\ IdsInv' /\ ServedInv' /\ OneImportPerEvidence'
      /\ \A r \in reports : ReportNamesRow(r)'
  BY <1>1 DEF IndexInv, IdsInv, ServedInv, OneImportPerEvidence, ReportNamesRow
<1> QED
  BY <1>1, <1>2, <1>3, <1>4, <1>5 DEF IndexInv

LEMMA IndexStep == IndexInv /\ [Next]_vars => IndexInv'
<1> SUFFICES ASSUME IndexInv, Next PROVE IndexInv'
  BY IndexStutters
<1>1. CASE \E i \in Importers : ImportStep(i)
  BY <1>1, BeginKeeps, CollectKeeps, VerifyKeeps, prior_sourceKeeps, prior_manifestKeeps,
     cross_ownerKeeps, InsertKeeps DEF ImportStep
<1>2. CASE \E d \in Dirs, f \in Files : Edit(d, f)
  BY <1>2, EditKeeps
<1>3. CASE \E owner \in Owners : resolve_artifact(owner)
  BY <1>3, resolve_artifactKeeps
<1> QED
  BY <1>1, <1>2, <1>3 DEF Next

THEOREM IndexInvariant == Spec => []IndexInv
  BY IndexInit, IndexStep, PTL DEF Spec

(* What a step of an import does to the numbers: it goes on under its own, *)
(* or ends, with one report or without.                                    *)
LEMMA ImportGoesOn ==
  ASSUME IndexInv, NEW i \in Importers, ImportStep(i),
         ~ \E request \in Requests : Begin(i, request)
  PROVE  /\ pc[i] # "idle" /\ UNCHANGED started
         /\ \A k \in Importers : k # i => pc'[k] = pc[k] /\ job'[k] = job[k]
         /\ \/ job'[i].n = job[i].n /\ UNCHANGED reports
            \/ /\ pc'[i] = "idle"
               /\ UNCHANGED reports \/ \E id, new : reports' = reports \cup {<<id, new, job[i]>>}
<1>1. /\ pc \in [Importers -> Labels] /\ job \in [Importers -> Working \cup {NoJob}]
      /\ pc[i] # "idle" => job[i] \in Working
  BY DEF IndexInv, Types
<1>2. Collect(i) \/ Verify(i) \/ prior_source(i) \/ prior_manifest(i) \/ cross_owner(i) \/ Insert(i)
  BY DEF ImportStep
<1>3. pc[i] # "idle" /\ UNCHANGED started
  BY <1>2 DEF Collect, Verify, prior_source, prior_manifest, cross_owner, Insert
<1>4. CASE Refuse(i)
  BY <1>1, <1>3, <1>4 DEF Refuse, Finish, Goto
<1>5. ASSUME NEW id, NEW new, Report(i, id, new), Finish(i)
      PROVE  /\ \A k \in Importers : k # i => pc'[k] = pc[k] /\ job'[k] = job[k]
             /\ pc'[i] = "idle"
             /\ reports' = reports \cup {<<id, new, job[i]>>}
  BY <1>1, <1>5 DEF Report, Finish, Goto
<1>6. ASSUME NEW files, job' = [job EXCEPT ![i].files = files]
      PROVE  job'[i].n = job[i].n /\ \A k \in Importers : k # i => job'[k] = job[k]
  BY <1>1, <1>3, <1>6 DEF Working
<1>7. ASSUME NEW files, job' = [job EXCEPT ![i].verified = files]
      PROVE  job'[i].n = job[i].n /\ \A k \in Importers : k # i => job'[k] = job[k]
  BY <1>1, <1>3, <1>7 DEF Working
<1>8. ASSUME NEW to, Goto(i, to)
      PROVE  \A k \in Importers : k # i => pc'[k] = pc[k]
  BY <1>1, <1>8 DEF Goto
<1>9. CASE Collect(i) /\ ~Refuse(i)
  <2>1. /\ \E files : job' = [job EXCEPT ![i].files = files]
        /\ (\E to : Goto(i, to)) \/ UNCHANGED pc
        /\ UNCHANGED reports
    BY <1>9 DEF Collect
  <2> QED
    BY <1>3, <1>6, <1>8, <2>1
<1>10. CASE Verify(i) /\ ~Refuse(i)
  <2>1. /\ UNCHANGED reports
        /\ \/ UNCHANGED job /\ \E to : Goto(i, to)
           \/ UNCHANGED pc /\ \E files : job' = [job EXCEPT ![i].verified = files]
    BY <1>10 DEF Verify
  <2> QED
    BY <1>3, <1>7, <1>8, <2>1
<1>11. CASE (prior_source(i) \/ prior_manifest(i) \/ cross_owner(i) \/ Insert(i)) /\ ~Refuse(i)
  <2>1. \/ (\E id, new : Report(i, id, new)) /\ Finish(i)
        \/ UNCHANGED <<job, reports>> /\ \E to : Goto(i, to)
    BY <1>11 DEF prior_source, prior_manifest, cross_owner, Insert
  <2> QED
    BY <1>3, <1>5, <1>8, <2>1
<1> QED
  BY <1>2, <1>4, <1>9, <1>10, <1>11

LEMMA NumbersStep == IndexInv /\ NumbersInv /\ [Next]_vars => NumbersInv'
<1> SUFFICES ASSUME IndexInv, NumbersInv, [Next]_vars PROVE NumbersInv'
  OBVIOUS
<1>1. /\ pc \in [Importers -> Labels] /\ job \in [Importers -> Working \cup {NoJob}]
      /\ started \in Nat
      /\ \A i \in Importers : pc[i] # "idle" => job[i].n \in Nat
  BY BoundsAssumption DEF IndexInv, Types, Working
<1>2. CASE UNCHANGED <<started, pc, job, reports>>
  BY <1>2 DEF NumbersInv
<1>3. ASSUME NEW i \in Importers, NEW request \in Requests, Begin(i, request)
      PROVE  NumbersInv'
  <2>1. /\ started' = started + 1 /\ reports' = reports
        /\ job'[i].n = started + 1
        /\ \A k \in Importers : k # i => pc'[k] = pc[k] /\ job'[k] = job[k]
    BY <1>1, <1>3 DEF Begin, Goto
  <2>2. \A k \in Importers : k # i /\ pc[k] # "idle" => job[k].n <= started /\ job[k].n # started + 1
    BY <1>1 DEF NumbersInv
  <2>3. \A r \in reports : r[3].n <= started /\ r[3].n # started + 1 /\ r[3].n <= started'
    BY <1>1, <2>1 DEF NumbersInv
  <2> QED
    BY <1>1, <2>1, <2>2, <2>3 DEF NumbersInv
<1>4. ASSUME NEW i \in Importers, ImportStep(i),
             ~ \E request \in Requests : Begin(i, request)
      PROVE  NumbersInv'
  <2>1. /\ pc[i] # "idle" /\ UNCHANGED started
        /\ \A k \in Importers : k # i => pc'[k] = pc[k] /\ job'[k] = job[k]
    BY <1>4, ImportGoesOn
  <2>2. CASE job'[i].n = job[i].n /\ UNCHANGED reports
    BY <2>1, <2>2 DEF NumbersInv
  <2>3. CASE pc'[i] = "idle" /\ UNCHANGED reports
    BY <2>1, <2>3 DEF NumbersInv
  <2>4. ASSUME NEW id, NEW new, pc'[i] = "idle", reports' = reports \cup {<<id, new, job[i]>>}
        PROVE  NumbersInv'
    <3>1. job[i].n \in Nat /\ job[i].n <= started /\ \A r \in reports : r[3].n # job[i].n
      BY <1>1, <2>1 DEF NumbersInv
    <3>2. \A r \in reports' : r \in reports \/ (r[3].n = job[i].n /\ r = <<id, new, job[i]>>)
      BY <2>4
    <3> QED
      BY <2>1, <2>4, <3>1, <3>2 DEF NumbersInv
  <2> QED
    BY <1>4, <2>2, <2>3, <2>4, ImportGoesOn
<1>5. CASE \E i \in Importers : ImportStep(i)
  BY <1>3, <1>4, <1>5
<1> QED
  BY <1>2, <1>5 DEF Next, Edit, resolve_artifact, directories, vars

(* What was indexed of a directory is what it held at one instant, and all *)
(* that is ever served of the import is of that instant: reading the files *)
(* twice is enough, as long as no edit brings an old content back.         *)
THEOREM EvidenceIsOneInstantHolds == Spec => []EvidenceIsOneInstant
<1>1. ASSUME IndexInv PROVE TypeOK
  <2>1. \A i \in Importers : DOMAIN job[i].files \subseteq Files /\ job[i].verified \subseteq Files
    BY <1>1, NoFilesYet DEF IndexInv, Types, Working, Readings, NoJob
  <2>2. \A s \in served : s[1] \in {row.id : row \in imports}
    BY <1>1 DEF IndexInv, ServedInv
  <2> QED
    BY <1>1, <2>1, <2>2 DEF TypeOK, IndexInv, Types, States, Labels, RowInv
<1>2. ASSUME IndexInv, NEW row \in imports
      PROVE  \E s \in past[row.dir] :
               /\ \A f \in DOMAIN row.manifest : s[f] = row.manifest[f]
               /\ Agree(s) /\ Provenance(s, row.dir, row.synthetic)
               /\ \A t \in served : t[1] = row.id => s[t[2]] = t[3]
  <2>1. PICK s \in past[row.dir] :
          /\ \A f \in DOMAIN row.manifest : s[f] = row.manifest[f]
          /\ Agree(s) /\ Provenance(s, row.dir, row.synthetic)
    BY <1>2 DEF IndexInv, RowInv, OneInstant
  <2>2. ASSUME NEW t \in served, t[1] = row.id PROVE s[t[2]] = t[3]
    <3>1. PICK q \in imports :
            t[1] = q.id /\ t[2] \in DOMAIN q.manifest /\ t[3] = q.manifest[t[2]]
      BY <1>2 DEF IndexInv, ServedInv
    <3>2. q = row
      BY <1>2, <2>2, <3>1 DEF IndexInv, IdsInv
    <3> QED
      BY <2>1, <3>1, <3>2
  <2> QED
    BY <2>1, <2>2
<1>3. IndexInv => EvidenceIsOneInstant
  BY <1>1, <1>2 DEF EvidenceIsOneInstant
<1> QED
  BY <1>3, IndexInvariant, PTL

(* No directory is imported twice, and no evidence twice for one owner:    *)
(* what the three queries may miss, the constraints of the table refuse.   *)
THEOREM OneImportPerEvidenceHolds == Spec => []OneImportPerEvidence
<1>1. IndexInv => OneImportPerEvidence
  BY DEF IndexInv
<1> QED
  BY <1>1, IndexInvariant, PTL

(* A report names the row of what its import has read, each row is         *)
(* reported as new to exactly one import, and no import is answered twice. *)
THEOREM ReportIsTruthfulHolds == Spec => []ReportIsTruthful
<1>1. ASSUME IndexInv, NEW row \in imports
      PROVE  Cardinality({r \in reports : r[1] = row.id /\ r[2]}) = 1
  <2>1. PICK r \in reports : /\ r[1] = row.id /\ r[2]
                            /\ \A q \in reports : q[1] = row.id /\ q[2] => q = r
    BY <1>1 DEF IndexInv, OneIsNew
  <2>2. {q \in reports : q[1] = row.id /\ q[2]} = {r}
    BY <2>1
  <2> QED
    BY <2>2, FS_Singleton
<1>2. IndexInv /\ NumbersInv => ReportIsTruthful
  BY <1>1 DEF IndexInv, NumbersInv, ReportNamesRow, ReportIsTruthful
<1>3. Init => NumbersInv
  BY DEF Init, NumbersInv
<1> QED
  BY <1>2, <1>3, NumbersStep, IndexInvariant, PTL DEF Spec
=============================================================================
