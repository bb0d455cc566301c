--------------------------- MODULE JobSubmission ---------------------------
(***************************************************************************)
(* Submitting and listing runs: submit, _job_for_key and list_jobs of      *)
(* src/demo/jobs.py, called by several clients at once.                    *)
(*                                                                         *)
(* submit looks the key up before it holds the write lock, reads the       *)
(* dataset without any lock, and looks the key up again in the transaction *)
(* that inserts the row.  A row is named by its seq, its place in rows.    *)
(* MaxRows bounds the table; clients repeat themselves without a bound.    *)
(***************************************************************************)
EXTENDS Naturals, Sequences, FiniteSets

CONSTANTS Clients, Owners, Keys, Fingerprints,
          Readers,    \* the owners that page through their runs
          PageSize,   \* limit of list_jobs
          MaxRows

ASSUME PageSizeAssumption == PageSize \in Nat \ {0}
ASSUME MaxRowsAssumption == MaxRows \in Nat
ASSUME ReadersAssumption == Readers \subseteq Owners

VARIABLES rows,       \* table demo_jobs in the order of seq
          building,   \* requests a client is building, Idle between calls
          answered,   \* what submit has returned: <<request, seq, created>>
          created,    \* how often a caller was told that it created the run
          refused,    \* requests answered with IdempotencyConflict
          available,  \* the datasets of the catalog can be read
          cursor,     \* the cursor a reader sends next, Start or Done
          seen        \* how often a reader has been shown a run, over all pages

replies == <<answered, created, refused>>
vars == <<rows, building, replies, available, cursor, seen>>

Requests == [owner : Owners, key : Keys, fingerprint : Fingerprints]
Idle == [owner |-> "nobody"]
Start == MaxRows + 1
Done == 0

TypeOK ==
  /\ rows \in Seq(Requests) /\ Len(rows) <= MaxRows
  /\ building \in [Clients -> Requests \cup {Idle}]
  /\ answered \subseteq Requests \X (1..MaxRows) \X BOOLEAN
  /\ created \in [1..MaxRows -> Nat]
  /\ refused \subseteq Requests
  /\ available \in BOOLEAN
  /\ cursor \in [Readers -> 0..Start]
  /\ seen \in [Readers -> [1..MaxRows -> Nat]]

Init ==
  /\ rows = <<>>
  /\ building = [c \in Clients |-> Idle]
  /\ answered = {} /\ refused = {}
  /\ created = [i \in 1..MaxRows |-> 0]
  /\ available = TRUE
  /\ cursor = [r \in Readers |-> Start]
  /\ seen = [r \in Readers |-> [i \in 1..MaxRows |-> 0]]

(* Mutant: the key is looked up without its owner. *)
WithKeyMutant(req) == {i \in DOMAIN rows : rows[i].key = req.key}

(* _job_for_key: the rows that hold the key, and what a hit answers. *)
WithKey(req) == {i \in DOMAIN rows : rows[i].owner = req.owner /\ rows[i].key = req.key}

(* The pair submit returns: the row, and whether this call inserted it.    *)
Answer(req, i, isNew) ==
  /\ answered' = answered \cup {<<req, i, isNew>>}
  /\ created' = [created EXCEPT ![i] = IF isNew THEN @ + 1 ELSE @]
  /\ UNCHANGED refused

Refuse(req) == refused' = refused \cup {req} /\ UNCHANGED <<answered, created>>

(* Mutant: a hit is returned as a run that this call created. *)
AnswerExistingMutant(req) ==
  \E i \in WithKey(req) :
    IF rows[i].fingerprint = req.fingerprint THEN Answer(req, i, TRUE) ELSE Refuse(req)

AnswerExisting(req) ==
  \E i \in WithKey(req) :
    IF rows[i].fingerprint = req.fingerprint THEN Answer(req, i, FALSE) ELSE Refuse(req)

(* The lookup before the build. *)
Submit(c, req) ==
  /\ building[c] = Idle
  /\ \/ AnswerExisting(req) /\ UNCHANGED building
     \/ /\ WithKey(req) = {}
        /\ building' = [building EXCEPT ![c] = req]
        /\ UNCHANGED replies
  /\ UNCHANGED <<rows, available, cursor, seen>>

(* build_replay_request rejects the request when it cannot read the bars. *)
Reject(c) ==
  /\ building[c] # Idle
  /\ ~available
  /\ building' = [building EXCEPT ![c] = Idle]
  /\ UNCHANGED <<rows, replies, available, cursor, seen>>

(* Mutant: no second lookup. *)
InsertMutant(c) ==
  /\ building[c] # Idle
  /\ building' = [building EXCEPT ![c] = Idle]
  /\ Len(rows) < MaxRows
  /\ rows' = Append(rows, building[c])
  /\ Answer(building[c], Len(rows) + 1, TRUE)
  /\ UNCHANGED <<available, cursor, seen>>

(* The transaction: the second lookup, then the INSERT. *)
Insert(c) ==
  /\ building[c] # Idle
  /\ building' = [building EXCEPT ![c] = Idle]
  /\ \/ AnswerExisting(building[c]) /\ UNCHANGED rows
     \/ /\ WithKey(building[c]) = {}
        /\ Len(rows) < MaxRows
        /\ rows' = Append(rows, building[c])
        /\ Answer(building[c], Len(rows) + 1, TRUE)
  /\ UNCHANGED <<available, cursor, seen>>

CatalogChanges ==
  /\ available' = ~available
  /\ UNCHANGED <<rows, building, replies, cursor, seen>>

(* Mutant: the cursor is off by one. *)
ListedBelowMutant(r) == {i \in DOMAIN rows : rows[i].owner = r /\ i < cursor[r] - 1}

(* list_jobs: the newest rows before the cursor; whether there are more    *)
(* decides if a cursor is handed out.  A reader pages through the runs of  *)
(* its own scope.                                                          *)
Listed(r) == {i \in DOMAIN rows : rows[i].owner = r /\ i < cursor[r]}
Page(S) == {i \in S : Cardinality({k \in S : k > i}) < PageSize}
Last(page) == CHOOSE i \in page : \A k \in page : i <= k

ListJobs(r) ==
  /\ cursor[r] # Done
  /\ LET page == Page(Listed(r))
     IN  /\ seen' = [seen EXCEPT ![r] =
                       [i \in 1..MaxRows |-> IF i \in page THEN @[i] + 1 ELSE @[i]]]
         /\ cursor' = [cursor EXCEPT ![r] = IF page # Listed(r) THEN Last(page) ELSE Done]
  /\ UNCHANGED <<rows, building, replies, available>>

Next ==
  \/ \E c \in Clients : \/ \E req \in Requests : Submit(c, req)
                        \/ Reject(c) \/ Insert(c)
  \/ CatalogChanges
  \/ \E r \in Readers : ListJobs(r)

Spec == Init /\ [][Next]_vars

-----------------------------------------------------------------------------
(* Properties. *)

(* Two clicks with one key never create two runs, however their lookups    *)
(* and inserts interleave.                                                 *)
OneRunPerKey ==
  /\ TypeOK
  /\ \A i, k \in DOMAIN rows :
       rows[i].owner = rows[k].owner /\ rows[i].key = rows[k].key => i = k

(* Whoever repeats a request gets the run that the first one created, and  *)
(* of all the callers who get a run exactly one is told that it created    *)
(* it, whichever of them found the key free before its build.              *)
RepeatGetsItsRun ==
  /\ \A a, b \in answered :
       a[1].owner = b[1].owner /\ a[1].key = b[1].key =>
         a[1] = b[1] /\ a[2] = b[2] /\ rows[a[2]] = a[1]
  /\ \A i \in 1..MaxRows : created[i] = IF i \in DOMAIN rows THEN 1 ELSE 0

(* A conflict is reported only for a key that really names another request.*)
ConflictIsReal ==
  \A req \in refused :
    \E i \in DOMAIN rows : rows[i].owner = req.owner /\ rows[i].key = req.key
                           /\ rows[i].fingerprint # req.fingerprint

(* Paging to the end shows every run of the scope that existed when the    *)
(* walk began, once, and none of another owner, although runs are          *)
(* submitted in between: what a walk leaves out below its newest run does  *)
(* not exist.  A cursor is handed out only for a page that has a run.      *)
PagingIsComplete ==
  \A r \in Readers :
    /\ \A i \in 1..MaxRows :
         seen[r][i] > 0 => seen[r][i] = 1 /\ i \in DOMAIN rows /\ rows[i].owner = r
    /\ cursor[r] \notin {Start, Done} =>
         \E i \in DOMAIN rows : rows[i].owner = r /\ i < cursor[r]
    /\ cursor[r] = Done =>
         \A i, k \in DOMAIN rows :
           rows[i].owner = r /\ i <= k /\ seen[r][k] > 0 => seen[r][i] > 0
=============================================================================
