------------------------ MODULE JobSubmission_proofs ------------------------
(***************************************************************************)
(* What submit and list_jobs keep true of the rows and of what they have   *)
(* answered, for any number of clients, keys and rows and any page size.   *)
(***************************************************************************)
EXTENDS JobSubmission, FiniteSetTheorems, WellFoundedInduction, TLAPS

-----------------------------------------------------------------------------
(* Lemmas about sets of row numbers. *)

(* Among the subsets of a finite set, every family has a minimal member.   *)
Minimal(x, T) == \A y \in T : y \subseteq x => y = x

LEMMA MinimalSubset ==
  ASSUME NEW S, IsFiniteSet(S), NEW T, T \subseteq SUBSET S, T # {}
  PROVE  \E x \in T : Minimal(x, T)
<1>1. IsWellFoundedOn(StrictSubsetOrdering(S), FiniteSubsetsOf(S))
  BY FS_StrictSubsetOrderingWellFounded
<1>2. FiniteSubsetsOf(S) = SUBSET S
  BY FS_FiniteSubsetsOfFinite
<1>3. PICK x \in T : \A y \in T : ~ (<<y, x>> \in StrictSubsetOrdering(S))
  BY <1>1, <1>2, WFMin
<1> QED
  BY <1>3 DEF StrictSubsetOrdering, Minimal

(* A finite set of numbers that is not empty has a greatest member: the    *)
(* set of the members above it is minimal.                                 *)
LEMMA GreatestExists ==
  ASSUME NEW S, S \subseteq Int, IsFiniteSet(S), S # {}
  PROVE  \E i \in S : \A k \in S : k <= i
<1> DEFINE Above(i) == {k \in S : k > i}
           T == {Above(i) : i \in S}
<1>1. T \subseteq SUBSET S /\ T # {}
  OBVIOUS
<1>2. PICK x \in T : Minimal(x, T)
  <2> HIDE DEF T
  <2> QED
    BY <1>1, MinimalSubset
<1>3. PICK i \in S : x = Above(i)
  BY <1>2
<1>4. ASSUME NEW j \in S, j > i PROVE FALSE
  <2>1. ASSUME NEW k \in Above(j) PROVE k \in Above(i)
    <3>1. k \in Int /\ j \in Int /\ i \in Int /\ k \in S /\ k > j
      OBVIOUS
    <3> QED
      BY <3>1, <1>4
  <2>2. j \in Above(i) /\ j \notin Above(j)
    BY <1>4
  <2> QED
    BY <1>2, <1>3, <2>1, <2>2 DEF Minimal
<1>5. \A j \in S : ~ (j > i)
  BY <1>4
<1> QED
  BY <1>5

(* ... and a smallest one. *)
LEMMA SmallestExists ==
  ASSUME NEW S, S \subseteq Int, IsFiniteSet(S), S # {}
  PROVE  \E i \in S : \A k \in S : i <= k
<1> DEFINE Below(i) == {k \in S : k < i}
           T == {Below(i) : i \in S}
<1>1. T \subseteq SUBSET S /\ T # {}
  OBVIOUS
<1>2. PICK x \in T : Minimal(x, T)
  <2> HIDE DEF T
  <2> QED
    BY <1>1, MinimalSubset
<1>3. PICK i \in S : x = Below(i)
  BY <1>2
<1>4. ASSUME NEW j \in S, j < i PROVE FALSE
  <2>1. ASSUME NEW k \in Below(j) PROVE k \in Below(i)
    <3>1. k \in Int /\ j \in Int /\ i \in Int /\ k \in S /\ k < j
      OBVIOUS
    <3> QED
      BY <3>1, <1>4
  <2>2. j \in Below(i) /\ j \notin Below(j)
    BY <1>4
  <2> QED
    BY <1>2, <1>3, <2>1, <2>2 DEF Minimal
<1>5. \A j \in S : ~ (j < i)
  BY <1>4
<1> QED
  BY <1>5

(* A page of a list that is not empty is not empty, ends at the smallest   *)
(* row of its own, and leaves out no row above its last.                   *)
LEMMA PageIsTheNewest ==
  ASSUME NEW S, S \subseteq Int, IsFiniteSet(S), S # {}
  PROVE  /\ Page(S) \subseteq S
         /\ Last(Page(S)) \in Page(S)
         /\ \A i \in Page(S) : Last(Page(S)) <= i
         /\ \A i \in S : i >= Last(Page(S)) => i \in Page(S)
<1> DEFINE Above(i) == {k \in S : k > i}
<1>1. \A i \in S : IsFiniteSet(Above(i)) /\ Cardinality(Above(i)) \in Nat
  BY FS_Subset, FS_CardinalityType
<1>2. Page(S) \subseteq S /\ IsFiniteSet(Page(S))
  BY FS_Subset DEF Page
<1>3. PICK top \in S : \A k \in S : k <= top
  BY GreatestExists
<1>4. top \in Page(S)
  <2>1. Above(top) = {}
    <3>1. ASSUME NEW k \in Above(top) PROVE FALSE
      BY <1>3, k \in Int, top \in Int
    <3> QED
      BY <3>1
  <2> QED
    BY <2>1, FS_EmptySet, PageSizeAssumption DEF Page
<1>5. /\ Last(Page(S)) \in Page(S)
      /\ \A k \in Page(S) : Last(Page(S)) <= k
  <2>1. \E i \in Page(S) : \A k \in Page(S) : i <= k
    BY <1>2, <1>4, SmallestExists
  <2> QED
    BY <2>1 DEF Last
<1>6. ASSUME NEW i \in S, i >= Last(Page(S)) PROVE i \in Page(S)
  <2> DEFINE last == Last(Page(S))
  <2>1. last \in S /\ Cardinality(Above(last)) < PageSize
    BY <1>5 DEF Page
  <2>2. Above(i) \subseteq Above(last)
    <3>1. ASSUME NEW k \in Above(i) PROVE k > last
      BY <1>6, <2>1, k \in Int, i \in Int, last \in Int
    <3> QED
      BY <3>1
  <2>3. Cardinality(Above(i)) <= Cardinality(Above(last))
    BY <1>1, <2>1, <2>2, FS_Subset
  <2>4. Cardinality(Above(i)) \in Nat /\ Cardinality(Above(last)) \in Nat
    BY <1>1, <2>1
  <2>5. Cardinality(Above(i)) < PageSize
    <3> HIDE DEF Above, last
    <3> QED
      BY <2>1, <2>3, <2>4, PageSizeAssumption
  <2> QED
    BY <2>5 DEF Page
<1> QED
  BY <1>2, <1>5, <1>6

-----------------------------------------------------------------------------
(* The inductive invariant. *)

(* Counting some of the rows once more. *)
LEMMA CountsStayCounts ==
  ASSUME NEW I, NEW count \in [I -> Nat], NEW P
  PROVE  [i \in I |-> IF i \in P THEN count[i] + 1 ELSE count[i]] \in [I -> Nat]
  OBVIOUS

(* One row per key of an owner. *)
KeysAreUnique ==
  \A i, k \in DOMAIN rows :
    rows[i].owner = rows[k].owner /\ rows[i].key = rows[k].key => i = k

(* Every answer names the row of the request it answers. *)
AnswersNameRuns ==
  \A a \in answered : a[2] \in DOMAIN rows /\ rows[a[2]] = a[1]

(* Each run has one creator: the caller whose INSERT made it.              *)
OneCreatorEach == \A i \in 1..MaxRows : created[i] = IF i \in DOMAIN rows THEN 1 ELSE 0

(* A reader has been shown, of the rows of its scope, all from its cursor  *)
(* up to the newest it has seen, each once and none below the cursor: runs *)
(* submitted since are above those.                                        *)
WalkLeavesNoGap ==
  \A r \in Readers :
    /\ \A i \in 1..MaxRows :
         seen[r][i] > 0 => /\ seen[r][i] = 1 /\ cursor[r] <= i
                          /\ i \in DOMAIN rows /\ rows[i].owner = r
    /\ cursor[r] \notin {Start, Done} =>
         \E i \in DOMAIN rows : rows[i].owner = r /\ i < cursor[r]
    /\ \A i, k \in DOMAIN rows :
         rows[i].owner = r /\ cursor[r] <= i /\ i <= k /\ seen[r][k] > 0 => seen[r][i] > 0

SubmissionInv ==
  /\ TypeOK /\ KeysAreUnique /\ AnswersNameRuns /\ OneCreatorEach
  /\ ConflictIsReal /\ WalkLeavesNoGap

LEMMA SubmissionInit == Init => SubmissionInv
  BY MaxRowsAssumption
  DEF Init, SubmissionInv, TypeOK, KeysAreUnique, AnswersNameRuns, OneCreatorEach,
      ConflictIsReal, WalkLeavesNoGap, Start, Done

LEMMA IdleIsNoRequest == Idle \notin Requests
  BY DEF Idle, Requests

(* A hit adds to the answers or to the refusals, each of them justified.   *)
LEMMA AnswerExistingKeeps ==
  ASSUME SubmissionInv, NEW req \in Requests, AnswerExisting(req), UNCHANGED rows
  PROVE  /\ answered' \subseteq Requests \X (1..MaxRows) \X BOOLEAN
         /\ refused' \subseteq Requests
         /\ created' = created
         /\ AnswersNameRuns' /\ ConflictIsReal'
<1>1. PICK i \in WithKey(req) :
        IF rows[i].fingerprint = req.fingerprint THEN Answer(req, i, FALSE) ELSE Refuse(req)
  BY DEF AnswerExisting
<1>2. i \in DOMAIN rows /\ rows[i] \in Requests /\ i \in 1..MaxRows
  BY <1>1, MaxRowsAssumption DEF WithKey, SubmissionInv, TypeOK
<1>3. rows[i].owner = req.owner /\ rows[i].key = req.key
  BY <1>1 DEF WithKey
<1>4. CASE rows[i].fingerprint = req.fingerprint
  <2>1. rows[i] = req
    BY <1>2, <1>3, <1>4 DEF Requests
  <2>2. answered' = answered \cup {<<req, i, FALSE>>} /\ UNCHANGED <<created, refused>>
    BY <1>1, <1>4 DEF Answer, SubmissionInv, TypeOK
  <2>3. <<req, i, FALSE>> \in Requests \X (1..MaxRows) \X BOOLEAN
    BY <1>2
  <2>4. answered' \subseteq Requests \X (1..MaxRows) \X BOOLEAN
    BY <2>2, <2>3 DEF SubmissionInv, TypeOK
  <2>5. AnswersNameRuns'
    <3>1. ASSUME NEW a \in answered' PROVE a[2] \in DOMAIN rows /\ rows[a[2]] = a[1]
      <4>1. CASE a \in answered
        BY <4>1 DEF SubmissionInv, AnswersNameRuns
      <4>2. CASE a = <<req, i, FALSE>>
        BY <1>2, <2>1, <4>2
      <4> QED
        BY <2>2, <4>1, <4>2
    <3> QED
      BY <3>1 DEF AnswersNameRuns
  <2> QED
    BY <2>2, <2>4, <2>5 DEF SubmissionInv, TypeOK, ConflictIsReal
<1>5. CASE rows[i].fingerprint # req.fingerprint
  <2>1. refused' = refused \cup {req} /\ UNCHANGED <<answered, created>>
    BY <1>1, <1>5 DEF Refuse
  <2> QED
    BY <1>2, <1>3, <1>5, <2>1 DEF SubmissionInv, TypeOK, AnswersNameRuns, ConflictIsReal
<1> QED
  BY <1>4, <1>5

(* submit up to the build *)
LEMMA SubmitKeeps ==
  ASSUME SubmissionInv, NEW c \in Clients, NEW req \in Requests, Submit(c, req)
  PROVE  SubmissionInv'
<1>1. /\ answered' \subseteq Requests \X (1..MaxRows) \X BOOLEAN
      /\ refused' \subseteq Requests
      /\ created' = created
      /\ AnswersNameRuns' /\ ConflictIsReal'
  BY AnswerExistingKeeps
  DEF Submit, SubmissionInv, TypeOK, replies, AnswersNameRuns, ConflictIsReal
<1>2. UNCHANGED <<rows, available, cursor, seen>>
      /\ building' \in [Clients -> Requests \cup {Idle}]
  BY DEF Submit, SubmissionInv, TypeOK
<1>3. TypeOK'
  BY <1>1, <1>2 DEF SubmissionInv, TypeOK
<1>4. KeysAreUnique' /\ OneCreatorEach' /\ WalkLeavesNoGap'
  BY <1>1, <1>2 DEF SubmissionInv, KeysAreUnique, OneCreatorEach, WalkLeavesNoGap
<1> QED
  BY <1>1, <1>3, <1>4 DEF SubmissionInv

(* The failed build. *)
LEMMA RejectKeeps ==
  ASSUME SubmissionInv, NEW c \in Clients, Reject(c)
  PROVE  SubmissionInv'
<1>1. /\ UNCHANGED <<rows, answered, created, refused, available, cursor, seen>>
      /\ building' \in [Clients -> Requests \cup {Idle}]
  BY DEF Reject, SubmissionInv, TypeOK, replies
<1>2. TypeOK'
  BY <1>1 DEF SubmissionInv, TypeOK
<1>3. KeysAreUnique' /\ OneCreatorEach'
  BY <1>1 DEF SubmissionInv, KeysAreUnique, OneCreatorEach
<1>4. AnswersNameRuns' /\ ConflictIsReal'
  BY <1>1 DEF SubmissionInv, AnswersNameRuns, ConflictIsReal
<1>5. WalkLeavesNoGap'
  BY <1>1 DEF SubmissionInv, WalkLeavesNoGap
<1> QED
  BY <1>2, <1>3, <1>4, <1>5 DEF SubmissionInv

(* The transaction of submit: a row is appended only when its key is new.  *)
LEMMA InsertKeeps ==
  ASSUME SubmissionInv, NEW c \in Clients, Insert(c)
  PROVE  SubmissionInv'
<1> DEFINE req == building[c]
<1>1. req \in Requests
  BY DEF Insert, SubmissionInv, TypeOK
<1>2. CASE AnswerExisting(req) /\ UNCHANGED rows
  <2>1. /\ answered' \subseteq Requests \X (1..MaxRows) \X BOOLEAN
        /\ refused' \subseteq Requests
        /\ created' = created
        /\ AnswersNameRuns' /\ ConflictIsReal'
    BY <1>1, <1>2, AnswerExistingKeeps
  <2>2. /\ UNCHANGED <<rows, created, available, cursor, seen>>
        /\ building' \in [Clients -> Requests \cup {Idle}]
    BY <1>2, <2>1 DEF Insert, SubmissionInv, TypeOK
  <2>3. TypeOK'
    BY <2>1, <2>2 DEF SubmissionInv, TypeOK
  <2>4. KeysAreUnique' /\ OneCreatorEach'
    BY <2>2 DEF SubmissionInv, KeysAreUnique, OneCreatorEach
  <2>5. WalkLeavesNoGap'
    BY <2>2 DEF SubmissionInv, WalkLeavesNoGap
  <2> QED
    BY <2>1, <2>3, <2>4, <2>5 DEF SubmissionInv
<1>3. CASE /\ WithKey(req) = {} /\ Len(rows) < MaxRows
           /\ rows' = Append(rows, req)
           /\ answered' = answered \cup {<<req, Len(rows) + 1, TRUE>>}
           /\ created' = [created EXCEPT ![Len(rows) + 1] = @ + 1]
           /\ UNCHANGED refused
  <2> DEFINE n == Len(rows)
  <2>1. /\ rows' \in Seq(Requests) /\ Len(rows') = n + 1 /\ n \in Nat
        /\ DOMAIN rows = 1..n /\ DOMAIN rows' = 1..(n + 1)
        /\ \A i \in 1..n : rows'[i] = rows[i]
        /\ rows'[n + 1] = req
    BY <1>1, <1>3 DEF SubmissionInv, TypeOK
  <2>2. TypeOK'
    <3>0. n + 1 \in 1..MaxRows
      BY <1>3, <2>1, MaxRowsAssumption
    <3>1. <<req, n + 1, TRUE>> \in Requests \X (1..MaxRows) \X BOOLEAN
      BY <1>1, <3>0
    <3>2. answered' \subseteq Requests \X (1..MaxRows) \X BOOLEAN
      BY <1>3, <3>1 DEF SubmissionInv, TypeOK
    <3>3. Len(rows') <= MaxRows
      BY <1>3, <2>1, MaxRowsAssumption
    <3>4. created' \in [1..MaxRows -> Nat]
      BY <1>3, <3>0 DEF SubmissionInv, TypeOK
    <3> QED
      BY <1>3, <2>1, <3>2, <3>3, <3>4 DEF Insert, SubmissionInv, TypeOK
  <2>3. KeysAreUnique'
    <3>1. \A i \in 1..n : ~ (rows[i].owner = req.owner /\ rows[i].key = req.key)
      BY <1>3, <2>1 DEF WithKey
    <3> QED
      BY <2>1, <3>1 DEF SubmissionInv, KeysAreUnique
  <2>4. AnswersNameRuns' /\ ConflictIsReal'
    <3>1. AnswersNameRuns'
      <4> SUFFICES ASSUME NEW a \in answered'
                   PROVE  a[2] \in 1..(n + 1) /\ rows'[a[2]] = a[1]
        BY <2>1 DEF AnswersNameRuns
      <4>1. CASE a \in answered
        <5>1. a[2] \in 1..n /\ rows[a[2]] = a[1]
          BY <2>1, <4>1 DEF SubmissionInv, AnswersNameRuns
        <5> QED
          BY <2>1, <5>1
      <4>2. CASE a = <<req, n + 1, TRUE>>
        BY <2>1, <4>2
      <4> QED
        BY <1>3, <4>1, <4>2
    <3>2. ConflictIsReal'
      <4> SUFFICES ASSUME NEW b \in refused
                   PROVE  \E i \in DOMAIN rows' :
                            rows'[i].owner = b.owner /\ rows'[i].key = b.key
                            /\ rows'[i].fingerprint # b.fingerprint
        BY <1>3 DEF ConflictIsReal
      <4>1. PICK i \in 1..n : rows[i].owner = b.owner /\ rows[i].key = b.key
                              /\ rows[i].fingerprint # b.fingerprint
        BY <2>1 DEF SubmissionInv, ConflictIsReal
      <4>2. i \in DOMAIN rows' /\ rows'[i] = rows[i]
        BY <2>1
      <4> QED
        BY <4>1, <4>2
    <3> QED
      BY <3>1, <3>2
  <2>5. WalkLeavesNoGap'
    <3>1. UNCHANGED <<seen, cursor>> /\ WalkLeavesNoGap
      BY DEF Insert, SubmissionInv
    <3>2. ASSUME NEW r \in Readers, NEW k \in 1..MaxRows, seen[r][k] > 0
          PROVE  /\ seen[r][k] = 1 /\ cursor[r] <= k
                 /\ k \in 1..n /\ rows[k].owner = r /\ rows'[k] = rows[k]
      BY <2>1, <3>1, <3>2 DEF WalkLeavesNoGap
    <3>3. ASSUME NEW r \in Readers, NEW i \in 1..(n + 1), NEW k \in 1..(n + 1),
                 rows'[i].owner = r, cursor[r] <= i, i <= k, seen[r][k] > 0
          PROVE  seen[r][i] > 0
      <4>1. k \in 1..MaxRows
        BY <1>3, <2>1, <3>3, MaxRowsAssumption
      <4>2. k \in 1..n /\ i \in 1..n
        BY <2>1, <3>2, <3>3, <4>1
      <4> QED
        BY <2>1, <3>1, <3>3, <4>2 DEF WalkLeavesNoGap
    <3>4. ASSUME NEW r \in Readers, cursor[r] \notin {Start, Done}
          PROVE  \E i \in 1..(n + 1) : rows'[i].owner = r /\ i < cursor[r]
      <4>1. PICK i \in 1..n : rows[i].owner = r /\ i < cursor[r]
        BY <2>1, <3>1, <3>4 DEF WalkLeavesNoGap
      <4> QED
        BY <2>1, <4>1
    <3> QED
      BY <2>1, <3>1, <3>2, <3>3, <3>4 DEF WalkLeavesNoGap
  <2>6. OneCreatorEach'
    <3>1. n + 1 \in 1..MaxRows /\ created \in [1..MaxRows -> Nat]
      BY <1>3, <2>1, MaxRowsAssumption DEF SubmissionInv, TypeOK
    <3>2. ASSUME NEW i \in 1..MaxRows
          PROVE  created'[i] = IF i \in 1..(n + 1) THEN 1 ELSE 0
      BY <1>3, <2>1, <3>1 DEF SubmissionInv, OneCreatorEach
    <3> QED
      BY <2>1, <3>2 DEF OneCreatorEach
  <2> QED
    BY <2>2, <2>3, <2>4, <2>5, <2>6 DEF SubmissionInv
<1> QED
  BY <1>2, <1>3 DEF Insert, Answer

LEMMA CatalogChangesKeeps ==
  ASSUME SubmissionInv, CatalogChanges
  PROVE  SubmissionInv'
<1>1. /\ UNCHANGED <<rows, building, answered, created, refused, cursor, seen>>
      /\ available' \in BOOLEAN
  BY DEF CatalogChanges, SubmissionInv, TypeOK, replies
<1>2. TypeOK'
  BY <1>1 DEF SubmissionInv, TypeOK
<1>3. KeysAreUnique' /\ OneCreatorEach'
  BY <1>1 DEF SubmissionInv, KeysAreUnique, OneCreatorEach
<1>4. AnswersNameRuns' /\ ConflictIsReal'
  BY <1>1 DEF SubmissionInv, AnswersNameRuns, ConflictIsReal
<1>5. WalkLeavesNoGap'
  BY <1>1 DEF SubmissionInv, WalkLeavesNoGap
<1> QED
  BY <1>2, <1>3, <1>4, <1>5 DEF SubmissionInv

(* list_jobs: a page that is not the last continues below its last row.    *)
LEMMA ListJobsKeeps ==
  ASSUME SubmissionInv, NEW r \in Readers, ListJobs(r)
  PROVE  SubmissionInv'
<1> DEFINE S == Listed(r)
           page == Page(S)
<1>1. /\ seen' = [seen EXCEPT ![r] =
                    [i \in 1..MaxRows |-> IF i \in page THEN seen[r][i] + 1 ELSE seen[r][i]]]
      /\ cursor' = [cursor EXCEPT ![r] = IF page # S THEN Last(page) ELSE Done]
      /\ UNCHANGED <<rows, building, answered, created, refused, available>>
  BY DEF ListJobs, replies
<1>2. Len(rows) \in Nat /\ DOMAIN rows = 1..Len(rows) /\ Len(rows) <= MaxRows
  BY DEF SubmissionInv, TypeOK
<1>3. S \subseteq 1..Len(rows) /\ IsFiniteSet(S)
  <2>1. S \subseteq 1..Len(rows)
    BY <1>2 DEF Listed
  <2>2. IsFiniteSet(1..Len(rows))
    BY <1>2, FS_Interval
  <2> QED
    BY <2>1, <2>2, FS_Subset
<1>4. page \subseteq S
  BY DEF Page
<1>5. page # S => /\ Last(page) \in page
                  /\ \A i \in page : Last(page) <= i
                  /\ \A i \in S : i >= Last(page) => i \in page
  <2>1. page # S => S # {}
    BY <1>4
  <2> QED
    BY <1>3, <2>1, PageIsTheNewest
<1>6. TypeOK'
  <2>1. cursor'[r] \in 0..Start
    BY <1>1, <1>2, <1>3, <1>4, <1>5, MaxRowsAssumption DEF Start, Done, SubmissionInv, TypeOK
  <2>2. page \subseteq 1..MaxRows
    BY <1>2, <1>3, <1>4, MaxRowsAssumption
  <2>3. seen' \in [Readers -> [1..MaxRows -> Nat]]
    <3> DEFINE shown == [i \in 1..MaxRows |-> IF i \in page THEN seen[r][i] + 1 ELSE seen[r][i]]
    <3>1. shown \in [1..MaxRows -> Nat]
      <4>1. seen[r] \in [1..MaxRows -> Nat]
        BY DEF SubmissionInv, TypeOK
      <4>2. \A P : [i \in 1..MaxRows |-> IF i \in P THEN seen[r][i] + 1 ELSE seen[r][i]]
                    \in [1..MaxRows -> Nat]
        BY <4>1, CountsStayCounts
      <4> QED
        BY <4>2
    <3>2. seen' = [seen EXCEPT ![r] = shown] /\ seen \in [Readers -> [1..MaxRows -> Nat]]
      BY <1>1 DEF SubmissionInv, TypeOK
    <3> HIDE DEF shown
    <3> QED
      BY <3>1, <3>2
  <2>4. cursor' \in [Readers -> 0..Start]
    BY <1>1, <2>1 DEF SubmissionInv, TypeOK
  <2> QED
    BY <1>1, <2>3, <2>4 DEF SubmissionInv, TypeOK
<1>7. WalkLeavesNoGap'
  <2>1. seen \in [Readers -> [1..MaxRows -> Nat]] /\ cursor \in [Readers -> 0..Start]
        /\ \A i \in DOMAIN rows : i \in Nat /\ i \in 1..MaxRows
    BY <1>2, MaxRowsAssumption DEF SubmissionInv, TypeOK
  <2>2. /\ cursor[r] \in Nat /\ cursor'[r] \in Nat
        /\ cursor'[r] = IF page # S THEN Last(page) ELSE 0
        /\ \A i \in 1..MaxRows : /\ seen[r][i] \in Nat
                                 /\ seen'[r][i] = IF i \in page THEN seen[r][i] + 1 ELSE seen[r][i]
    BY <1>1, <1>6, <2>1, MaxRowsAssumption DEF Start, Done, TypeOK
  <2>11. \A i \in 1..MaxRows : i \in page \/ seen[r][i] > 0 => seen'[r][i] > 0
    BY <2>2
  <2>3. \A i \in S : i \in DOMAIN rows /\ rows[i].owner = r /\ i < cursor[r] /\ i \in 1..MaxRows
    BY <2>1 DEF Listed
  <2>4. \A i \in 1..MaxRows : seen[r][i] > 0 => /\ seen[r][i] = 1 /\ cursor[r] <= i
                                               /\ i \in DOMAIN rows /\ rows[i].owner = r
    BY DEF SubmissionInv, WalkLeavesNoGap
  <2>5. cursor'[r] <= cursor[r]
    BY <1>4, <1>5, <2>2, <2>3
  <2>6. ASSUME NEW i \in 1..MaxRows, seen'[r][i] > 0
        PROVE  /\ seen'[r][i] = 1 /\ cursor'[r] <= i
               /\ i \in DOMAIN rows /\ rows[i].owner = r
    <3>1. CASE i \in page
      <4>1. seen[r][i] = 0
        BY <1>4, <2>2, <2>3, <2>4, <3>1
      <4> QED
        BY <1>4, <1>5, <2>2, <2>3, <3>1, <4>1
    <3>2. CASE i \notin page
      BY <2>2, <2>4, <2>5, <2>6, <3>2
    <3> QED
      BY <3>1, <3>2
  <2>7. ASSUME cursor'[r] \notin {Start, Done}
        PROVE  \E i \in DOMAIN rows : rows[i].owner = r /\ i < cursor'[r]
    <3>1. page # S
      BY <2>2, <2>7 DEF Done
    <3>2. PICK i \in S : i \notin page
      BY <1>4, <3>1
    <3>3. i < Last(page) /\ cursor'[r] = Last(page)
      BY <1>4, <1>5, <2>2, <2>3, <3>1, <3>2
    <3> QED
      BY <2>3, <3>2, <3>3
  <2>8. ASSUME NEW i \in DOMAIN rows, NEW k \in DOMAIN rows,
               rows[i].owner = r, cursor'[r] <= i, i <= k, seen'[r][k] > 0
        PROVE  seen'[r][i] > 0
    <3>1. CASE i < cursor[r]
      <4>1. i \in S
        BY <2>8, <3>1 DEF Listed
      <4>2. i \in page
        BY <1>5, <2>1, <2>2, <2>8, <4>1
      <4> QED
        BY <2>1, <2>11, <4>2
    <3>2. CASE cursor[r] <= i
      <4>1. k \notin page
        BY <1>4, <2>1, <2>2, <2>3, <2>8, <3>2
      <4>2. seen[r][k] > 0
        BY <2>1, <2>2, <2>8, <4>1
      <4>3. seen[r][i] > 0
        BY <2>8, <3>2, <4>2 DEF SubmissionInv, WalkLeavesNoGap
      <4> QED
        BY <2>1, <2>11, <4>3
    <3> QED
      BY <2>1, <2>2, <3>1, <3>2
  <2>9. ASSUME NEW q \in Readers, q # r
        PROVE  seen'[q] = seen[q] /\ cursor'[q] = cursor[q]
    BY <1>1, <2>1, <2>9
  <2>10. WalkLeavesNoGap /\ rows' = rows
    BY <1>1 DEF SubmissionInv
  <2> QED
    BY <2>6, <2>7, <2>8, <2>9, <2>10 DEF WalkLeavesNoGap
<1>8. KeysAreUnique' /\ AnswersNameRuns' /\ OneCreatorEach' /\ ConflictIsReal'
  BY <1>1 DEF SubmissionInv, KeysAreUnique, AnswersNameRuns, OneCreatorEach, ConflictIsReal
<1> QED
  BY <1>6, <1>7, <1>8 DEF SubmissionInv

(* Every step keeps the invariant. *)
LEMMA SubmissionStep == SubmissionInv /\ [Next]_vars => SubmissionInv'
<1> SUFFICES ASSUME SubmissionInv, [Next]_vars PROVE SubmissionInv'
  OBVIOUS
<1>1. CASE UNCHANGED vars
  BY <1>1 DEF vars, replies, SubmissionInv, TypeOK, KeysAreUnique, AnswersNameRuns,
              OneCreatorEach, ConflictIsReal, WalkLeavesNoGap
<1>2. CASE Next
  BY <1>2, SubmitKeeps, RejectKeeps, InsertKeeps, CatalogChangesKeeps, ListJobsKeeps DEF Next
<1> QED
  BY <1>1, <1>2

THEOREM SubmissionInvariant == Spec => []SubmissionInv
  BY SubmissionInit, SubmissionStep, PTL DEF Spec

-----------------------------------------------------------------------------
(* The properties. *)

(* Two requests with one key never make two runs: the lookup inside the    *)
(* transaction of submit sees every run the lookup before it missed.       *)
THEOREM OneRunPerKeyHolds == Spec => []OneRunPerKey
<1>1. SubmissionInv => OneRunPerKey
  BY DEF SubmissionInv, KeysAreUnique, OneRunPerKey
<1> QED
  BY <1>1, SubmissionInvariant, PTL

(* Whoever repeats a request is answered with the run of the first, and    *)
(* one caller for each run is told that it created it: the one whose       *)
(* transaction found the key still free.                                   *)
THEOREM RepeatGetsItsRunHolds == Spec => []RepeatGetsItsRun
<1>1. SubmissionInv => RepeatGetsItsRun
  BY DEF SubmissionInv, KeysAreUnique, AnswersNameRuns, OneCreatorEach, RepeatGetsItsRun
<1> QED
  BY <1>1, SubmissionInvariant, PTL

(* IdempotencyConflict is answered only for a key that names another       *)
(* request, and stays true: no row is changed or taken away.               *)
THEOREM ConflictIsRealHolds == Spec => []ConflictIsReal
<1>1. SubmissionInv => ConflictIsReal
  BY DEF SubmissionInv
<1> QED
  BY <1>1, SubmissionInvariant, PTL

(* A walk through list_jobs to its end leaves out no run below the newest  *)
(* it has shown and shows none twice, whatever is submitted between two    *)
(* pages, and a cursor never leads to an empty page.                       *)
THEOREM PagingIsCompleteHolds == Spec => []PagingIsComplete
<1>1. SubmissionInv => PagingIsComplete
  <2> SUFFICES ASSUME SubmissionInv PROVE PagingIsComplete
    OBVIOUS
  <2>1. \A i \in DOMAIN rows : 0 <= i
    BY DEF SubmissionInv, TypeOK
  <2> QED
    BY <2>1 DEF SubmissionInv, WalkLeavesNoGap, PagingIsComplete, Done
<1> QED
  BY <1>1, SubmissionInvariant, PTL
=============================================================================
