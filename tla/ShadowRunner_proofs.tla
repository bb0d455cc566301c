------------------------- MODULE ShadowRunner_proofs -------------------------
(***************************************************************************)
(* What a prospective shadow run keeps true of its memory, its database    *)
(* and its log of batches, whatever fails, for any number of symbols,      *)
(* sessions, buckets of a session, slots and faults.                       *)
(***************************************************************************)
EXTENDS ShadowRunner, FiniteSetTheorems, FunctionTheorems, SequenceTheorems,
        WellFoundedInduction, TLAPS

-----------------------------------------------------------------------------
(* Lemmas about times: bucket, session and what is left of it. *)

LEMMA DivisionIsExact ==
  ASSUME NEW b \in Nat \ {0}, NEW t \in Nat
  PROVE  /\ t \div b \in Nat /\ t % b \in 0..(b - 1)
         /\ t = b * (t \div b) + (t % b)
  OBVIOUS

LEMMA ProductsAreApart ==
  ASSUME NEW b \in Nat \ {0}, NEW q \in Int, NEW r \in Int, q < r
  PROVE  b * q + b <= b * r /\ b * q \in Int /\ b * r \in Int
<1>1. PICK k \in Nat : r = q + 1 + k
  <2>1. r - q - 1 \in Nat /\ r = q + 1 + (r - q - 1)
    OBVIOUS
  <2> QED
    BY <2>1
<1>2. b * r = b * q + b + b * k
  BY <1>1
<1>3. b * k \in Nat
  BY <1>1
<1>4. b * q \in Int /\ b * r \in Int
  OBVIOUS
<1> QED
  BY <1>2, <1>3, <1>4

LEMMA DivisionIsUnique ==
  ASSUME NEW b \in Nat \ {0}, NEW q \in Int, NEW r \in 0..(b - 1), NEW t \in Nat, t = b * q + r
  PROVE  t \div b = q /\ t % b = r
<1>1. t \div b \in Nat /\ t % b \in 0..(b - 1) /\ t = b * (t \div b) + (t % b)
  BY DivisionIsExact
<1>2. b * (t \div b) \in Int /\ b * q \in Int
  BY <1>1
<1>3. ~ (t \div b < q)
  BY <1>1, <1>2, ProductsAreApart
<1>4. ~ (q < t \div b)
  BY <1>1, <1>2, ProductsAreApart
<1> QED
  BY <1>1, <1>3, <1>4

(* Every time lies in a session, Left buckets before its last bucket. *)
LEMMA TimeOfDay ==
  ASSUME NEW t \in Times
  PROVE  /\ t \in Nat /\ Day(t) \in Days /\ Left(t) \in Nat
         /\ t = SessionBuckets * Day(t) + SessionBuckets - 1 - Left(t)
<1>1. SessionBuckets * Sessions \in Nat /\ t \in Nat /\ t < SessionBuckets * Sessions
  BY SessionsAssumption DEF Times
<1>2. /\ Day(t) \in Nat /\ t % SessionBuckets \in 0..(SessionBuckets - 1)
      /\ t = SessionBuckets * Day(t) + (t % SessionBuckets)
  BY <1>1, DivisionIsExact, SessionsAssumption DEF Day
<1>3. SessionBuckets * Day(t) \in Int
  BY <1>2, SessionsAssumption
<1>4. Day(t) < Sessions
  <2>1. CASE Day(t) = Sessions
    BY <1>1, <1>2, <1>3, <2>1
  <2>2. CASE Sessions < Day(t)
    BY <1>1, <1>2, <1>3, <2>2, ProductsAreApart, SessionsAssumption
  <2>3. Day(t) \in Nat /\ Sessions \in Nat
    BY <1>2, SessionsAssumption
  <2> QED
    BY <2>1, <2>2, <2>3
<1> QED
  BY <1>1, <1>2, <1>3, <1>4, SessionsAssumption DEF Left, Days

(* The last bucket of a session. *)
LastBucket(day) == SessionBuckets * day + SessionBuckets - 1

LEMMA LastBucketIsLast ==
  ASSUME NEW day \in Days
  PROVE  /\ LastBucket(day) \in BucketsOf(day) /\ LastBucket(day) \in Times
         /\ \A t \in BucketsOf(day) : t <= LastBucket(day) /\ (t = LastBucket(day) => Left(t) = 0)
<1>1. day \in Nat /\ day < Sessions /\ SessionBuckets \in Nat \ {0} /\ Sessions \in Nat
  BY SessionsAssumption DEF Days
<1>2. /\ SessionBuckets * day \in Nat
      /\ SessionBuckets * day + SessionBuckets <= SessionBuckets * Sessions
      /\ SessionBuckets * Sessions \in Int
  BY <1>1, ProductsAreApart
<1>3. LastBucket(day) \in Times
  BY <1>1, <1>2 DEF LastBucket, Times
<1>4. Day(LastBucket(day)) = day
  <2>1. LastBucket(day) \in Nat /\ LastBucket(day) = SessionBuckets * day + (SessionBuckets - 1)
    BY <1>1, <1>2 DEF LastBucket
  <2> QED
    BY <1>1, <2>1, DivisionIsUnique DEF Day
<1>5. ASSUME NEW t \in BucketsOf(day)
      PROVE  t <= LastBucket(day) /\ (t = LastBucket(day) => Left(t) = 0)
  <2>1. t \in Times /\ Day(t) = day
    BY DEF BucketsOf
  <2>2. t = SessionBuckets * day + SessionBuckets - 1 - Left(t) /\ Left(t) \in Nat
    BY <2>1, TimeOfDay
  <2> QED
    BY <1>1, <1>2, <2>2 DEF LastBucket
<1> QED
  BY <1>3, <1>4, <1>5 DEF BucketsOf

(* Later buckets are not of earlier sessions. *)
LEMMA DaysPass ==
  ASSUME NEW t \in Times, NEW u \in Times, u = t \/ u < t
  PROVE  Day(u) <= Day(t) /\ Day(t) \in Int /\ Day(u) \in Int
<1>1. ASSUME NEW x \in Times
      PROVE  /\ x \in Nat /\ Day(x) \in Nat /\ Left(x) \in Nat /\ SessionBuckets \in Nat \ {0}
             /\ x = SessionBuckets * Day(x) + SessionBuckets - 1 - Left(x)
  BY TimeOfDay, SessionsAssumption DEF Days
<1>2. ASSUME NEW x \in Times PROVE Left(x) <= SessionBuckets - 1
  <2>1. x % SessionBuckets \in Nat
    BY <1>1, SessionsAssumption
  <2> QED
    BY <2>1, SessionsAssumption DEF Left
<1>3. CASE Day(t) < Day(u)
  <2>1. /\ SessionBuckets * Day(t) + SessionBuckets <= SessionBuckets * Day(u)
        /\ SessionBuckets * Day(t) \in Int /\ SessionBuckets * Day(u) \in Int
    BY <1>1, <1>3, ProductsAreApart
  <2> QED
    BY <1>1, <1>2, <2>1
<1> QED
  BY <1>1, <1>3

(* The sessions before prospective_start are those that are seeded. *)
LEMMA StartOfRun ==
  ASSUME NEW t \in Times
  PROVE  t >= Start <=> Day(t) >= SeedSessions
<1>1. /\ t \in Nat /\ Day(t) \in Nat /\ Left(t) \in Nat /\ SeedSessions \in Nat
      /\ t = SessionBuckets * Day(t) + SessionBuckets - 1 - Left(t)
      /\ SessionBuckets \in Nat \ {0} /\ Left(t) <= SessionBuckets - 1
  BY TimeOfDay, SessionsAssumption DEF Days, Left, Times
<1>2. Start = SessionBuckets * SeedSessions
  BY <1>1 DEF Start
<1>3. SessionBuckets * SeedSessions \in Int /\ SessionBuckets * Day(t) \in Int
  BY <1>1
<1>4. CASE Day(t) = SeedSessions
  BY <1>1, <1>2, <1>3, <1>4
<1>5. CASE Day(t) < SeedSessions
  <2>1. SessionBuckets * Day(t) + SessionBuckets <= SessionBuckets * SeedSessions
    BY <1>1, <1>5, ProductsAreApart
  <2> QED
    BY <1>1, <1>2, <1>3, <1>5, <2>1
<1>6. CASE Day(t) > SeedSessions
  <2>1. SessionBuckets * SeedSessions + SessionBuckets <= SessionBuckets * Day(t)
    BY <1>1, <1>6, ProductsAreApart
  <2> QED
    BY <1>1, <1>2, <1>3, <1>6, <2>1
<1> QED
  BY <1>1, <1>4, <1>5, <1>6

(* A session becomes whole only with its last bucket, when batches come in *)
(* the order of their times.                                               *)
LEMMA WholeWithLastBucket ==
  ASSUME NEW H \in SUBSET Times, NEW t \in Times, \A u \in H : u < t,
         NEW day \in Days, BucketsOf(day) \subseteq H \cup {t}, ~ (BucketsOf(day) \subseteq H)
  PROVE  Day(t) = day /\ Left(t) = 0
<1>1. t \in BucketsOf(day)
  OBVIOUS
<1>2. LastBucket(day) \in H \cup {t} /\ t <= LastBucket(day)
  BY <1>1, LastBucketIsLast
<1>3. t = LastBucket(day)
  <2>1. t \in Nat /\ LastBucket(day) \in Nat
    BY LastBucketIsLast, TimeOfDay
  <2> QED
    BY <1>2, <2>1
<1> QED
  BY <1>1, <1>3, LastBucketIsLast DEF BucketsOf

-----------------------------------------------------------------------------
(* Lemmas about the operators of the runner. *)

Position == [s : Symbols, at : Times, pending_exit : BOOLEAN]
Trade == [s : Symbols, at : Times, exit : Times]
Portfolio == [open : SUBSET Position, pending : [Symbols -> Times \cup {None}],
              closed : SUBSET Trade, count : Nat]
State == [window : Seq(Times), watermark : Times \cup {None}, current_day : Days \cup {None},
          variants : [VARIANTS -> Portfolio]]
PositionRows == VARIANTS \X Times \X Symbols \X {"open", "close"}
CandidateRows == VARIANTS \X Times \X Symbols \X {"queued", "rejected"} \X SUBSET Days
Database == [state : State, events : Seq(Events), history : SUBSET Times,
             sessions : SUBSET Days, seeded : SUBSET Days, initialized : BOOLEAN,
             candidates : SUBSET CandidateRows, positions : SUBSET PositionRows,
             marks : SUBSET (VARIANTS \X Times), issues : SUBSET (Days \X Times)]

LEMMA TimesAreFinite == /\ IsFiniteSet(Times) /\ IsFiniteSet(Days)
                        /\ Times \subseteq Nat /\ Days \subseteq Nat
<1>1. SessionBuckets * Sessions - 1 \in Int /\ Sessions - 1 \in Int
  BY SessionsAssumption
<1> QED
  BY <1>1, FS_Interval DEF Times, Days

(* The numbers of a finite set are counted by the number of those below. *)
LEMMA RanksAreOnto ==
  ASSUME NEW T, T \subseteq Int, IsFiniteSet(T), NEW i \in 1..Cardinality(T)
  PROVE  \E t \in T : Cardinality({r \in T : r < t}) = i - 1
<1> DEFINE Below(t) == {r \in T : r < t}
           n == Cardinality(T)
           rank == [t \in T |-> Cardinality(Below(t))]
<1>1. n \in Nat /\ IsFiniteSet(0..(n - 1)) /\ Cardinality(0..(n - 1)) = n
  <2>1. n \in Nat
    BY FS_CardinalityType
  <2> HIDE DEF n
  <2>2. PICK m \in Int : m = n - 1
    BY <2>1
  <2>3. /\ IsFiniteSet(0..m)
        /\ Cardinality(0..m) = IF 0 > m THEN 0 ELSE m - 0 + 1
    BY 0 \in Int, FS_Interval
  <2> QED
    BY <2>1, <2>2, <2>3
<1>2. ASSUME NEW t \in T
      PROVE  IsFiniteSet(Below(t)) /\ Cardinality(Below(t)) \in 0..(n - 1)
  <2>1. IsFiniteSet(Below(t)) /\ Cardinality(Below(t)) \in Nat /\ Cardinality(Below(t)) <= n
    BY FS_Subset, FS_CardinalityType
  <2>2. t \notin Below(t)
    BY t \in Int
  <2>3. Cardinality(Below(t)) # n
    BY <2>2, FS_Subset
  <2> QED
    BY <1>1, <2>1, <2>3
<1>3. ASSUME NEW t \in T, NEW u \in T, t < u PROVE Cardinality(Below(t)) < Cardinality(Below(u))
  <2>1. Below(t) \subseteq Below(u) /\ t \in Below(u) /\ t \notin Below(t)
    <3>1. ASSUME NEW r \in Below(t) PROVE r < u
      BY <1>3, r \in Int, t \in Int, u \in Int
    <3>2. ~ (t < t)
      BY t \in Int
    <3> QED
      BY <1>3, <3>1, <3>2
  <2>2. /\ Cardinality(Below(t)) <= Cardinality(Below(u))
        /\ Cardinality(Below(t)) # Cardinality(Below(u))
    BY <1>2, <2>1, FS_Subset
  <2> HIDE DEF Below
  <2> QED
    BY <1>1, <1>2, <2>2
<1>4. rank \in Injection(T, 0..(n - 1))
  <2>1. rank \in [T -> 0..(n - 1)]
    BY <1>2
  <2>2. ASSUME NEW t \in T, NEW u \in T, t # u PROVE rank[t] # rank[u]
    <3>1. t < u \/ u < t
      BY <2>2, t \in Int, u \in Int
    <3>2. rank[t] \in Int /\ rank[u] \in Int
      BY <2>1, <1>1
    <3> QED
      BY <1>2, <1>3, <3>1, <3>2
  <2> QED
    BY <2>1, <2>2 DEF Injection, IsInjective
<1>5. rank \in Surjection(T, 0..(n - 1))
  <2> HIDE DEF rank
  <2> QED
    BY <1>1, <1>4, FS_Injection
<1>6. i - 1 \in 0..(n - 1)
  BY <1>1
<1>7. PICK t \in T : rank[t] = i - 1
  <2> HIDE DEF rank
  <2> QED
    BY <1>5, <1>6 DEF Surjection
<1> QED
  BY <1>7

LEMMA SortedIsSequence ==
  ASSUME NEW T \in SUBSET Times
  PROVE  Sorted(T) \in Seq(Times)
<1>1. IsFiniteSet(T) /\ Cardinality(T) \in Nat /\ T \subseteq Int
  <2>1. IsFiniteSet(T)
    BY TimesAreFinite, FS_Subset
  <2> QED
    BY <2>1, TimesAreFinite, FS_CardinalityType
<1>2. ASSUME NEW i \in 1..Cardinality(T)
      PROVE  (CHOOSE t \in T : Cardinality({r \in T : r < t}) = i - 1) \in Times
  <2>1. \E t \in T : Cardinality({r \in T : r < t}) = i - 1
    BY <1>1, RanksAreOnto
  <2> QED
    BY <2>1
<1>3. Sorted(T) \in [1..Cardinality(T) -> Times]
  BY <1>2 DEF Sorted
<1> QED
  BY <1>1, <1>3, SeqDef

LEMMA LastIsBounded ==
  ASSUME NEW S, NEW seq \in Seq(S), NEW n \in Nat \ {0}
  PROVE  Last(seq, n) \in Seq(S) /\ Len(Last(seq, n)) <= n
<1>1. Len(seq) \in Nat /\ \A i \in 1..Len(seq) : seq[i] \in S
  BY LenProperties, ElementOfSeq
<1>2. CASE Len(seq) <= n
  BY <1>2 DEF Last
<1>3. CASE Len(seq) > n
  <2> DEFINE m == Len(seq) - n + 1
  <2>1. m \in Int /\ \A i \in m..Len(seq) : seq[i] \in S
    BY <1>1, <1>3
  <2>2. /\ SubSeq(seq, m, Len(seq)) \in Seq(S)
        /\ Len(SubSeq(seq, m, Len(seq))) = IF m <= Len(seq) THEN Len(seq) - m + 1 ELSE 0
    BY <1>1, <2>1, SubSeqProperties
  <2> QED
    BY <1>1, <1>3, <2>2 DEF Last
<1> QED
  BY <1>1, <1>2, <1>3

LEMMA CapturedType ==
  ASSUME NEW m \in State, NEW e \in Events
  PROVE  /\ Captured(m, e) \in State
         /\ Len(Captured(m, e).window) <= WindowSize
         /\ Captured(m, e).watermark = e.ts /\ Captured(m, e).current_day = Day(e.ts)
<1>1. e.ts \in Times /\ Day(e.ts) \in Days
  BY TimeOfDay DEF Events
<1> DEFINE w == Last(Append(m.window, e.ts), WindowSize)
           vs == [v \in VARIANTS |-> [m.variants[v] EXCEPT !.count = @ + 1]]
<1>2. w \in Seq(Times) /\ Len(w) <= WindowSize
  <2>1. Append(m.window, e.ts) \in Seq(Times)
    BY <1>1 DEF State
  <2> QED
    BY <2>1, LastIsBounded, PolicyAssumption
<1>3. vs \in [VARIANTS -> Portfolio]
  <2>1. ASSUME NEW v \in VARIANTS PROVE [m.variants[v] EXCEPT !.count = @ + 1] \in Portfolio
    <3>1. m.variants[v] \in Portfolio
      BY DEF State
    <3> QED
      BY <3>1 DEF Portfolio
  <2> QED
    BY <2>1
<1>4. Captured(m, e) = [m EXCEPT !.window = w, !.variants = vs,
                                 !.watermark = e.ts, !.current_day = Day(e.ts)]
  BY DEF Captured
<1> HIDE DEF w, vs
<1> QED
  BY <1>1, <1>2, <1>3, <1>4 DEF State

LEMMA SeededStateType ==
  ASSUME NEW m \in State, NEW days
  PROVE  /\ SeededState(m, days) \in State
         /\ Len(SeededState(m, days).window) <= WindowSize
         /\ SeededState(m, days).watermark = m.watermark
         /\ SeededState(m, days).current_day = m.current_day
<1>1. Sorted(TimesOf(days)) \in Seq(Times)
  BY SortedIsSequence DEF TimesOf
<1> DEFINE w == Last(Sorted(TimesOf(days)), WindowSize)
<1>2. w \in Seq(Times) /\ Len(w) <= WindowSize
  BY <1>1, LastIsBounded, PolicyAssumption
<1>3. SeededState(m, days) = [m EXCEPT !.window = w]
  BY DEF SeededState
<1> HIDE DEF w
<1> QED
  BY <1>2, <1>3 DEF State

(* A candidate is judged by the sessions in D that its gate may look at.   *)
JudgedBy(c, D) ==
  c[1] = "rvol" => /\ c[5] = Observations(c[2], D)
                   /\ c[4] = "queued" => Cardinality(c[5]) >= RVOL_MIN_OBSERVATIONS

(* run_variant leaves a portfolio and rows of the tables, the candidates   *)
(* with what they were judged by.                                          *)
LEMMA RunType ==
  ASSUME NEW v \in VARIANTS, NEW x \in Portfolio, NEW e \in Events, NEW warm \in BOOLEAN,
         NEW D \in SUBSET Days
  PROVE  /\ Run(v, x, e, warm, D).portfolio \in Portfolio
         /\ Run(v, x, e, warm, D).positions \subseteq PositionRows
         /\ Run(v, x, e, warm, D).candidates \subseteq CandidateRows
         /\ \A c \in Run(v, x, e, warm, D).candidates : c[2] = e.ts /\ JudgedBy(c, D)
<1> DEFINE exited == {p.s : p \in Exiting(x, e)}
           seen == Observed(x, e)
           entering == Entering(seen, e, exited)
           filled == Entered(seen, e, exited)
           queued == Queued(v, filled, e, exited, warm, D)
<1>1. e.ts \in Times /\ Day(e.ts) \in Days /\ e.stale \in BOOLEAN /\ e.bars \in [Symbols -> Bar]
  BY TimeOfDay DEF Events
<1>2. Exiting(x, e) \subseteq Position /\ exited \subseteq Symbols
  BY DEF Exiting, Portfolio, Position
<1>3. seen \in Portfolio
  <2> DEFINE gone == {[s |-> p.s, at |-> p.at, exit |-> e.ts] : p \in Exiting(x, e)}
             rest == {[p EXCEPT !.pending_exit = @ \/ (~e.stale /\ e.bars[p.s].hit)] :
                        p \in x.open \ Exiting(x, e)}
  <2>1. gone \subseteq Trade
    BY <1>1, <1>2 DEF Position, Trade
  <2>2. rest \subseteq Position
    <3>1. ASSUME NEW p \in x.open
          PROVE  [p EXCEPT !.pending_exit = @ \/ (~e.stale /\ e.bars[p.s].hit)] \in Position
      <4>1. p \in Position
        BY DEF Portfolio
      <4>2. (p.pending_exit \/ (~e.stale /\ e.bars[p.s].hit)) \in BOOLEAN
        OBVIOUS
      <4> QED
        BY <4>1, <4>2 DEF Position
    <3> QED
      BY <3>1
  <2>3. seen = [x EXCEPT !.closed = @ \cup gone, !.open = rest]
    BY DEF Observed, Portfolio
  <2> HIDE DEF gone, rest
  <2> QED
    BY <2>1, <2>2, <2>3 DEF Portfolio
<1>4. entering \subseteq Symbols
  BY DEF Entering, Enterable
<1>5. filled \in Portfolio
  <2> HIDE DEF seen, exited
  <2> DEFINE new == {[s |-> s, at |-> e.ts, pending_exit |-> FALSE] : s \in entering}
             none == [s \in Symbols |-> None]
  <2>1. new \subseteq Position
    <3> HIDE DEF entering
    <3>1. ASSUME NEW s \in entering
          PROVE  [s |-> s, at |-> e.ts, pending_exit |-> FALSE] \in Position
      BY <1>1, <1>4 DEF Position
    <3> QED
      BY <3>1
  <2>2. none \in [Symbols -> Times \cup {None}]
    OBVIOUS
  <2>3. filled = [seen EXCEPT !.open = @ \cup new, !.pending = none]
    BY DEF Entered
  <2> HIDE DEF new, none, filled
  <2> QED
    BY <1>3, <2>1, <2>2, <2>3 DEF Portfolio
<1> DEFINE pending == [s \in Symbols |-> IF s \in queued THEN e.ts ELSE None]
<1>6. queued \subseteq Symbols /\ pending \in [Symbols -> Times \cup {None}]
  BY <1>1 DEF Queued
<1>7. Run(v, x, e, warm, D) =
        [portfolio |-> [filled EXCEPT !.pending = pending],
         positions |-> {<<v, e.ts, s, "close">> : s \in exited}
                         \cup {<<v, e.ts, s, "open">> : s \in entering},
         candidates |-> IF warm
                          THEN {<<v, e.ts, s, IF s \in queued THEN "queued" ELSE "rejected",
                                  IF v = "rvol" THEN Observations(e.ts, D) ELSE {}>> :
                                  s \in Symbols}
                          ELSE {}]
  BY DEF Run
<1>8. ASSUME NEW s \in queued, v = "rvol"
      PROVE  Cardinality(Observations(e.ts, D)) >= RVOL_MIN_OBSERVATIONS
  BY <1>8 DEF Queued, gate
<1> HIDE DEF exited, seen, entering, filled, queued, pending
<1>9. [filled EXCEPT !.pending = pending] \in Portfolio
  BY <1>5, <1>6 DEF Portfolio
<1>10. Run(v, x, e, warm, D).positions \subseteq PositionRows
  BY <1>1, <1>2, <1>4, <1>7 DEF PositionRows
<1>11. /\ Run(v, x, e, warm, D).candidates \subseteq CandidateRows
       /\ \A c \in Run(v, x, e, warm, D).candidates : c[2] = e.ts /\ JudgedBy(c, D)
  <2> SUFFICES ASSUME NEW c \in Run(v, x, e, warm, D).candidates
               PROVE  c \in CandidateRows /\ c[2] = e.ts /\ JudgedBy(c, D)
    OBVIOUS
  <2>1. PICK s \in Symbols :
          c = <<v, e.ts, s, IF s \in queued THEN "queued" ELSE "rejected",
                IF v = "rvol" THEN Observations(e.ts, D) ELSE {}>>
    BY <1>7
  <2>2. /\ c[1] = v /\ c[2] = e.ts /\ c[4] = IF s \in queued THEN "queued" ELSE "rejected"
        /\ c[5] = IF v = "rvol" THEN Observations(e.ts, D) ELSE {}
    BY <2>1
  <2>3. Observations(e.ts, D) \subseteq Days
    BY DEF Observations
  <2>4. c \in CandidateRows
    BY <1>1, <2>1, <2>3 DEF CandidateRows
  <2> QED
    BY <1>8, <2>2, <2>4 DEF JudgedBy
<1> QED
  BY <1>7, <1>9, <1>10, <1>11

-----------------------------------------------------------------------------
(* The inductive invariant. *)

StateOK(m) == m \in State /\ Len(m.window) <= WindowSize

(* The sessions of the run of which every bucket is in H. *)
Whole(H) == {day \in Days : day >= SeedSessions /\ BucketsOf(day) \subseteq H}

(* Every candidate is of a batch of the run, and what it was judged by is  *)
(* still what its gate would look at.                                      *)
Grounded(d) ==
  \A c \in d.candidates : c[2] \in d.history /\ JudgedBy(c, d.sessions \cup d.seeded)

(* A database between two transactions: the watermark is at or behind no   *)
(* batch, and the sessions are those that are whole.                       *)
Sound(d) ==
  /\ d \in Database /\ StateOK(d.state)
  /\ \A i \in DOMAIN d.events : d.events[i].ts <= d.state.watermark
  /\ \A t \in d.history : t < Start \/ t <= d.state.watermark
  /\ d.state.current_day # None => d.state.current_day >= SeedSessions
  /\ d.sessions = Whole(d.history)
  /\ Grounded(d)
  /\ ~ d.initialized => d.seeded = {}

(* The batch that is being processed comes after all that were. *)
EventIsNew ==
  event \in Events /\ event.ts >= Start /\ event.ts > db.state.watermark

(* The transaction from capture to finish. *)
Processing ==
  /\ tx \in Database
  /\ mem.watermark = event.ts /\ mem.current_day = Day(event.ts)
  /\ tx.events = Append(db.events, event) /\ tx.history = db.history \cup {event.ts}
  /\ tx.sessions = db.sessions /\ tx.seeded = db.seeded /\ tx.initialized = db.initialized
  /\ Grounded(tx)

ReadyToCommit ==
  /\ Sound(tx) /\ tx.state = mem
  /\ \/ tx.events = db.events
     \/ EventIsNew /\ tx.events = Append(db.events, event)

RunnerInv ==
  /\ pc \in {"idle", "capture", "finish", "commit"} \cup VARIANTS
  /\ Sound(db) /\ StateOK(mem) /\ StateOK(snapshot)
  /\ pc = "idle" => mem = db.state /\ tx = db
  /\ pc # "idle" => snapshot = db.state
  /\ pc = "capture" => EventIsNew /\ mem = db.state /\ tx = db
  /\ pc \in VARIANTS \cup {"finish"} => EventIsNew /\ Processing
  /\ pc = "commit" => ReadyToCommit

LEMMA InitialStateOK == StateOK(InitialState)
<1>1. <<>> \in Seq(Times) /\ Len(<<>>) <= WindowSize
  BY EmptySeq, PolicyAssumption
<1>2. EmptyVariant \in Portfolio
  BY DEF EmptyVariant, Portfolio
<1> QED
  BY <1>1, <1>2 DEF StateOK, InitialState, State

LEMMA NothingIsWhole == Whole({}) = {}
  BY LastBucketIsLast DEF Whole

LEMMA EmptyDbIsSound == Sound(EmptyDb)
<1>1. EmptyDb \in Database
  BY InitialStateOK, EmptySeq DEF EmptyDb, Database, StateOK
<1>2. /\ EmptyDb.events = <<>> /\ EmptyDb.history = {} /\ EmptyDb.sessions = {}
      /\ EmptyDb.seeded = {} /\ EmptyDb.candidates = {} /\ EmptyDb.state = InitialState
  BY DEF EmptyDb
<1>3. InitialState.current_day = None
  BY DEF InitialState
<1> QED
  BY <1>1, <1>2, <1>3, InitialStateOK, NothingIsWhole DEF Sound, Grounded

LEMMA RunnerInit == Init => RunnerInv
<1> SUFFICES ASSUME Init PROVE RunnerInv
  OBVIOUS
<1>1. EmptyDb.state = InitialState
  BY DEF EmptyDb
<1> QED
  BY <1>1, InitialStateOK, EmptyDbIsSound DEF Init, Load, RunnerInv, VARIANTS

(* What completes later is not in the past of a candidate.                 *)
LEMMA GroundedStays ==
  ASSUME NEW d \in Database, NEW e \in Database, Grounded(d), e.candidates = d.candidates,
         d.history \subseteq e.history, d.sessions \cup d.seeded \subseteq e.sessions \cup e.seeded,
         \A c \in d.candidates : \A x \in e.sessions \cup e.seeded :
           x < Day(c[2]) => x \in d.sessions \cup d.seeded
  PROVE  Grounded(e)
<1> SUFFICES ASSUME NEW c \in e.candidates
             PROVE  c[2] \in e.history /\ JudgedBy(c, e.sessions \cup e.seeded)
  BY DEF Grounded
<1>1. c[2] \in d.history /\ JudgedBy(c, d.sessions \cup d.seeded)
  BY DEF Grounded
<1>2. Observations(c[2], e.sessions \cup e.seeded) = Observations(c[2], d.sessions \cup d.seeded)
  BY DEF Observations
<1> QED
  BY <1>1, <1>2 DEF JudgedBy

-----------------------------------------------------------------------------
(* The steps of a batch. *)

LEMMA ProcessKeeps ==
  ASSUME RunnerInv, NEW t \in Times, NEW b \in Batches, process_completed_batch(t, b)
  PROVE  RunnerInv'
<1>1. event' = [ts |-> t, bars |-> b.bars, stale |-> b.stale] /\ event' \in Events /\ event'.ts = t
  BY BatchesAssumption DEF process_completed_batch, Events
<1>2. /\ pc = "idle" /\ pc' = "capture" /\ snapshot' = mem /\ tx' = db /\ mem' = mem /\ db' = db
      /\ t >= Start /\ t > mem.watermark
  BY DEF process_completed_batch, Acceptable
<1> QED
  BY <1>1, <1>2 DEF RunnerInv, EventIsNew, VARIANTS

(* Closing the session of the batch before adds nothing: if it is whole it *)
(* was completed by its last bucket.                                       *)
LEMMA captureKeeps ==
  ASSUME RunnerInv, capture
  PROVE  RunnerInv'
<1> DEFINE before == mem.current_day
           closed == IF before # None /\ before # Day(event.ts)
                       THEN CompleteSession(tx, before, event.ts) ELSE tx
<1>1. /\ pc = "capture" /\ pc' = "baseline" /\ UNCHANGED <<db, snapshot, event>>
      /\ mem = db.state /\ tx = db /\ EventIsNew /\ Sound(db)
      /\ tx' = [closed EXCEPT !.events = Append(@, event), !.history = @ \cup {event.ts}]
      /\ mem' = Captured(mem, event)
  BY DEF capture, RunnerInv
<1>2. event \in Events /\ event.ts \in Times /\ db \in Database /\ mem \in State
  BY <1>1 DEF EventIsNew, Events, Sound, RunnerInv, StateOK
<1>3. /\ closed \in Database /\ closed.events = db.events /\ closed.history = db.history
      /\ closed.sessions = db.sessions /\ closed.seeded = db.seeded
      /\ closed.initialized = db.initialized /\ closed.candidates = db.candidates
  <2>1. CASE closed = tx
    BY <1>1, <1>2, <2>1
  <2>2. CASE before # None /\ before # Day(event.ts)
    <3>1. before \in Days /\ before >= SeedSessions
      BY <1>1, <1>2, <2>2 DEF Sound, State
    <3>2. CASE BucketsOf(before) \subseteq db.history
      <4>1. before \in db.sessions
        BY <1>1, <3>1, <3>2 DEF Sound, Whole
      <4>2. closed = [db EXCEPT !.sessions = @ \cup {before}]
        BY <1>1, <2>2, <3>2 DEF CompleteSession
      <4> HIDE DEF closed
      <4> QED
        BY <1>2, <3>1, <4>1, <4>2 DEF Database
    <3>3. CASE ~ (BucketsOf(before) \subseteq db.history)
      <4>1. closed = [db EXCEPT !.issues = @ \cup {<<before, event.ts>>}]
        BY <1>1, <2>2, <3>3 DEF CompleteSession
      <4>2. PICK rows : rows = db.issues \cup {<<before, event.ts>>}
        OBVIOUS
      <4>3. rows \subseteq Days \X Times
        BY <1>2, <3>1, <4>2 DEF Database
      <4>4. closed = [db EXCEPT !.issues = rows]
        BY <4>1, <4>2
      <4> HIDE DEF closed
      <4> QED
        BY <1>2, <4>3, <4>4 DEF Database
    <3> QED
      BY <3>2, <3>3
  <2> QED
    BY <2>1, <2>2
<1> HIDE DEF closed
<1>4. /\ tx' \in Database
      /\ tx'.events = Append(db.events, event) /\ tx'.history = db.history \cup {event.ts}
      /\ tx'.sessions = db.sessions /\ tx'.seeded = db.seeded
      /\ tx'.initialized = db.initialized /\ tx'.candidates = db.candidates
  <2>1. Append(db.events, event) \in Seq(Events)
    BY <1>2 DEF Database
  <2> QED
    BY <1>1, <1>2, <1>3, <2>1 DEF Database
<1>5. Grounded(tx)'
  <2>1. PICK d : d = tx'
    OBVIOUS
  <2>2. /\ d \in Database /\ d.candidates = db.candidates /\ db.history \subseteq d.history
        /\ d.sessions \cup d.seeded = db.sessions \cup db.seeded
    BY <1>4, <2>1
  <2>3. Grounded(db) /\ db \in Database
    BY <1>1 DEF Sound
  <2>4. Grounded(d)
    BY <2>2, <2>3, GroundedStays
  <2> QED
    BY <2>1, <2>4 DEF Grounded, JudgedBy
<1>6. StateOK(mem)' /\ mem'.watermark = event.ts /\ mem'.current_day = Day(event.ts)
  BY <1>1, <1>2, CapturedType DEF StateOK
<1>7. EventIsNew' /\ Processing'
  BY <1>1, <1>4, <1>5, <1>6 DEF EventIsNew, Processing
<1> QED
  BY <1>1, <1>6, <1>7 DEF RunnerInv, VARIANTS, Sound, Grounded, JudgedBy, StateOK

LEMMA run_variantKeeps ==
  ASSUME RunnerInv, NEW v \in VARIANTS, run_variant(v)
  PROVE  RunnerInv'
<1> DEFINE D == tx.sessions \cup tx.seeded
           run == Run(v, mem.variants[v], event, Warm(mem), D)
<1>1. /\ pc = v /\ pc' = (IF v = "baseline" THEN "rvol" ELSE "finish")
      /\ UNCHANGED <<db, snapshot, event>> /\ EventIsNew /\ Processing
      /\ mem' = [mem EXCEPT !.variants[v] = run.portfolio]
      /\ tx' = [tx EXCEPT !.positions = @ \cup run.positions,
                          !.candidates = @ \cup run.candidates,
                          !.marks = @ \cup {<<v, event.ts>>}]
  BY DEF run_variant, RunnerInv
<1>2. /\ event \in Events /\ event.ts \in Times /\ tx \in Database /\ mem \in State
      /\ D \in SUBSET Days /\ mem.variants[v] \in Portfolio /\ Warm(mem) \in BOOLEAN
  BY <1>1 DEF EventIsNew, Events, Processing, RunnerInv, StateOK, State, Database, Warm
<1>3. /\ run.portfolio \in Portfolio /\ run.positions \subseteq PositionRows
      /\ run.candidates \subseteq CandidateRows
      /\ \A c \in run.candidates : c[2] = event.ts /\ JudgedBy(c, D)
  BY <1>2, RunType
<1> HIDE DEF run
<1>4. StateOK(mem)' /\ mem'.watermark = event.ts /\ mem'.current_day = Day(event.ts)
  BY <1>1, <1>2, <1>3 DEF StateOK, State, Processing, RunnerInv
<1>5. /\ tx' \in Database /\ tx'.events = tx.events /\ tx'.history = tx.history
      /\ tx'.sessions = tx.sessions /\ tx'.seeded = tx.seeded /\ tx'.initialized = tx.initialized
      /\ tx'.candidates = tx.candidates \cup run.candidates
  <2>1. tx.positions \cup run.positions \subseteq PositionRows
    BY <1>2, <1>3 DEF Database
  <2>2. tx.candidates \cup run.candidates \subseteq CandidateRows
    BY <1>2, <1>3 DEF Database
  <2>3. tx.marks \cup {<<v, event.ts>>} \subseteq VARIANTS \X Times
    BY <1>2 DEF Database
  <2> QED
    BY <1>1, <1>2, <2>1, <2>2, <2>3 DEF Database
<1>6. Grounded(tx)'
  <2>1. Grounded(tx)
    BY <1>1 DEF Processing
  <2>2. PICK d : d = tx'
    OBVIOUS
  <2>3. d.sessions \cup d.seeded = D /\ d.history = tx.history
    BY <1>5, <2>2
  <2>4. ASSUME NEW c \in d.candidates PROVE c[2] \in d.history /\ JudgedBy(c, D)
    <3>1. CASE c \in tx.candidates
      BY <2>1, <2>3, <3>1 DEF Grounded
    <3>2. CASE c \in run.candidates
      BY <1>1, <1>3, <2>3, <3>2 DEF Processing
    <3> QED
      BY <1>5, <2>2, <3>1, <3>2
  <2>5. Grounded(d)
    BY <2>3, <2>4 DEF Grounded
  <2> QED
    BY <2>2, <2>5 DEF Grounded, JudgedBy
<1>7. EventIsNew' /\ Processing'
  BY <1>1, <1>4, <1>5, <1>6 DEF EventIsNew, Processing
<1>8. Sound(db)' /\ StateOK(snapshot)' /\ snapshot' = db'.state
  BY <1>1 DEF RunnerInv, VARIANTS, Sound, Grounded, JudgedBy, StateOK
<1> QED
  BY <1>1, <1>4, <1>7, <1>8 DEF RunnerInv, VARIANTS

(* The sessions that are whole with the batch are saved with it. *)
LEMMA finishKeeps ==
  ASSUME RunnerInv, finish
  PROVE  RunnerInv'
<1> DEFINE t == event.ts
           closed == IF Left(t) = 0 THEN CompleteSession(tx, Day(t), t) ELSE tx
<1>1. /\ pc = "finish" /\ pc' = "commit" /\ UNCHANGED <<mem, db, snapshot, event>>
      /\ EventIsNew /\ Processing /\ Sound(db) /\ StateOK(mem)
      /\ tx' = [closed EXCEPT !.state = mem]
  BY DEF finish, RunnerInv
<1>2. /\ event \in Events /\ t \in Times /\ tx \in Database /\ mem \in State /\ db \in Database
      /\ Day(t) \in Days /\ Day(t) >= SeedSessions /\ t \in Nat
  BY <1>1, TimeOfDay, StartOfRun DEF EventIsNew, Events, Processing, Sound, StateOK
<1>3. \A u \in db.history : u < t
  <2>1. \A u \in db.history : u \in Nat /\ (u < Start \/ u <= db.state.watermark)
    BY <1>1, <1>2, TimesAreFinite DEF Sound, Database
  <2>2. Start \in Int /\ db.state.watermark \in Int /\ t >= Start /\ t > db.state.watermark
    <3>1. Start \in Int
      BY SessionsAssumption DEF Start
    <3>2. db.state.watermark \in Times \cup {-1}
      BY <1>2 DEF Database, State, None
    <3>3. db.state.watermark \in Int
      BY <3>2, TimesAreFinite
    <3> QED
      BY <1>1, <3>1, <3>3 DEF EventIsNew
  <2> QED
    BY <1>2, <2>1, <2>2
<1>4. /\ closed \in Database /\ closed.events = tx.events /\ closed.history = tx.history
      /\ closed.seeded = tx.seeded /\ closed.initialized = tx.initialized
      /\ closed.candidates = tx.candidates /\ tx.sessions \subseteq closed.sessions
      /\ closed.sessions = Whole(tx.history)
  <2>1. /\ tx.sessions = Whole(db.history) /\ tx.history = db.history \cup {t}
        /\ db.history \in SUBSET Times
    BY <1>1, <1>2 DEF Processing, Sound, Database
  <2>2. \A day \in Whole(tx.history) : day \in Whole(db.history) \/ (day = Day(t) /\ Left(t) = 0)
    BY <1>2, <1>3, <2>1, WholeWithLastBucket DEF Whole
  <2>3. Whole(db.history) \subseteq Whole(tx.history)
    BY <2>1 DEF Whole
  <2>4. CASE Left(t) = 0 /\ BucketsOf(Day(t)) \subseteq tx.history
    <3>1. closed = [tx EXCEPT !.sessions = @ \cup {Day(t)}]
      BY <2>4 DEF CompleteSession
    <3>2. Day(t) \in Whole(tx.history)
      BY <1>2, <2>4 DEF Whole
    <3>3. Whole(tx.history) = tx.sessions \cup {Day(t)}
      BY <2>1, <2>2, <2>3, <3>2
    <3> HIDE DEF closed
    <3> QED
      BY <1>2, <3>1, <3>3 DEF Database
  <2>5. CASE Left(t) = 0 /\ ~ (BucketsOf(Day(t)) \subseteq tx.history)
    <3>1. closed = [tx EXCEPT !.issues = @ \cup {<<Day(t), t>>}]
      BY <2>5 DEF CompleteSession
    <3>2. Whole(tx.history) = tx.sessions
      BY <2>1, <2>2, <2>3, <2>5 DEF Whole
    <3>3. tx.issues \cup {<<Day(t), t>>} \subseteq Days \X Times
      BY <1>2 DEF Database
    <3> HIDE DEF closed
    <3> QED
      BY <1>2, <3>1, <3>2, <3>3 DEF Database
  <2>6. CASE Left(t) # 0
    <3>1. Whole(tx.history) = Whole(db.history)
      BY <2>2, <2>3, <2>6
    <3> QED
      BY <1>2, <2>1, <2>6, <3>1
  <2> QED
    BY <2>4, <2>5, <2>6
<1> HIDE DEF closed
<1>5. PICK d : d = tx'
  OBVIOUS
<1>6. /\ d \in Database /\ d.state = mem /\ d.events = Append(db.events, event)
      /\ d.history = db.history \cup {t} /\ d.seeded = tx.seeded /\ d.initialized = tx.initialized
      /\ d.candidates = tx.candidates /\ tx.sessions \subseteq d.sessions
      /\ d.sessions = Whole(d.history)
  BY <1>1, <1>2, <1>4, <1>5 DEF Database, Processing
<1>7. Grounded(d)
  <2>1. Grounded(tx) /\ tx.history = db.history \cup {t} /\ tx.sessions = Whole(db.history)
        /\ db.history \in SUBSET Times
    BY <1>1, <1>2 DEF Processing, Sound, Database
  <2>2. ASSUME NEW c \in tx.candidates, NEW x \in d.sessions \cup d.seeded, x < Day(c[2])
        PROVE  x \in tx.sessions \cup tx.seeded
    <3>1. c[2] \in Times /\ (c[2] = t \/ c[2] < t)
      BY <1>2, <1>3, <2>1 DEF Grounded
    <3>2. Day(c[2]) <= Day(t) /\ Day(t) \in Int /\ Day(c[2]) \in Int
      BY <1>2, <3>1, DaysPass
    <3>3. CASE x \in Whole(tx.history) \ tx.sessions
      <4>1. x \in Days /\ BucketsOf(x) \subseteq db.history \cup {t} /\ ~ (BucketsOf(x) \subseteq db.history)
        BY <2>1, <3>3 DEF Whole
      <4>2. x = Day(t)
        BY <1>2, <1>3, <2>1, <4>1, WholeWithLastBucket
      <4> QED
        BY <2>2, <3>2, <4>2
    <3> QED
      BY <1>6, <2>1, <2>2, <3>3
  <2> QED
    BY <1>2, <1>6, <2>1, <2>2, GroundedStays
<1>8. \A i \in DOMAIN d.events : d.events[i].ts <= t
  <2>1. /\ db.events \in Seq(Events) /\ db.state.watermark \in Int
        /\ \A i \in DOMAIN db.events : db.events[i].ts <= db.state.watermark
    BY <1>1, <1>2, TimesAreFinite DEF Sound, Database, State, None
  <2>2. /\ DOMAIN d.events = 1..(Len(db.events) + 1) /\ DOMAIN db.events = 1..Len(db.events)
        /\ Len(db.events) \in Nat /\ d.events[Len(db.events) + 1] = event
        /\ \A i \in 1..Len(db.events) : d.events[i] = db.events[i]
    BY <1>2, <1>6, <2>1
  <2>3. \A i \in 1..Len(db.events) : db.events[i].ts \in Nat
    <3>1. \A i \in 1..Len(db.events) : db.events[i] \in Events
      BY <2>1, ElementOfSeq
    <3> QED
      BY <3>1, TimesAreFinite DEF Events
  <2>4. \A i \in 1..Len(db.events) : d.events[i].ts <= t
    <3> SUFFICES ASSUME NEW i \in 1..Len(db.events) PROVE db.events[i].ts <= t
      BY <2>2
    <3>1. t > db.state.watermark /\ t \in Int
      BY <1>1, <1>2 DEF EventIsNew
    <3>2. db.events[i].ts <= db.state.watermark /\ db.events[i].ts \in Int
      BY <2>1, <2>2, <2>3
    <3> QED
      BY <2>1, <3>1, <3>2
  <2>5. d.events[Len(db.events) + 1].ts <= t
    BY <1>2, <2>2
  <2> QED
    BY <2>2, <2>4, <2>5
<1>9. \A u \in d.history : u < Start \/ u <= t
  BY <1>2, <1>3, <1>6, TimesAreFinite DEF Database
<1>10. mem.watermark = t /\ mem.current_day = Day(t)
  BY <1>1 DEF Processing
<1>11. ~ d.initialized => d.seeded = {}
  BY <1>1, <1>6 DEF Processing, Sound
<1>12. Sound(d)
  BY <1>1, <1>2, <1>6, <1>7, <1>8, <1>9, <1>10, <1>11 DEF Sound
<1>13. Sound(tx)'
  BY <1>5, <1>12 DEF Sound, Grounded, JudgedBy, StateOK
<1>14. ReadyToCommit'
  BY <1>1, <1>5, <1>6, <1>13 DEF ReadyToCommit, EventIsNew
<1> QED
  BY <1>1, <1>14 DEF RunnerInv, VARIANTS, Sound, Grounded, JudgedBy, StateOK

(* initialize_history: the sessions it seeds lie before the run. *)
LEMMA initialize_historyKeeps ==
  ASSUME RunnerInv, NEW days \in SUBSET (0..(SeedSessions - 1)), initialize_history(days)
  PROVE  RunnerInv'
<1>1. /\ pc = "idle" /\ pc' = "commit" /\ mem.watermark = None
      /\ ~ db.initialized /\ db.history = {}
      /\ snapshot' = mem /\ mem' = SeededState(mem, days)
      /\ tx' = [db EXCEPT !.history = TimesOf(days), !.seeded = days, !.initialized = TRUE,
                          !.state = mem']
      /\ UNCHANGED <<db, event>> /\ mem = db.state /\ Sound(db) /\ StateOK(mem)
  BY DEF initialize_history, RunnerInv
<1>2. db \in Database /\ mem \in State /\ days \subseteq Days
  BY <1>1, SessionsAssumption DEF Sound, StateOK, Days
<1>3. PICK m : m = mem'
  OBVIOUS
<1>4. /\ StateOK(m) /\ m \in State /\ m.watermark = None /\ m.current_day = db.state.current_day
  BY <1>1, <1>2, <1>3, SeededStateType DEF StateOK
<1>5. PICK d : d = tx'
  OBVIOUS
<1>6. TimesOf(days) \subseteq Times
  BY DEF TimesOf
<1>7. d = [db EXCEPT !.history = TimesOf(days), !.seeded = days, !.initialized = TRUE, !.state = m]
  BY <1>1, <1>3, <1>5
<1>8. /\ d \in Database /\ d.history = TimesOf(days) /\ d.seeded = days /\ d.initialized
      /\ d.state = m /\ d.events = db.events /\ d.candidates = db.candidates
      /\ d.sessions = db.sessions
  BY <1>2, <1>4, <1>6, <1>7 DEF Database
<1>9. \A t \in d.history : t < Start
  <2>1. ASSUME NEW t \in TimesOf(days) PROVE t < Start
    <3>1. t \in Times /\ Day(t) \in days /\ t \in Nat /\ Start \in Int
      BY TimeOfDay, SessionsAssumption DEF TimesOf, Start
    <3>2. ~ (Day(t) >= SeedSessions)
      <4>1. Day(t) \in 0..(SeedSessions - 1) /\ SeedSessions \in Int
        <5>1. Day(t) \in days /\ days \subseteq 0..(SeedSessions - 1)
          BY <3>1
        <5>2. SeedSessions \in Int
          BY SessionsAssumption
        <5> QED
          BY <5>1, <5>2
      <4> QED
        BY <4>1
    <3> QED
      BY <3>1, <3>2, StartOfRun
  <2> QED
    BY <1>8, <2>1
<1>10. d.sessions = Whole(d.history)
  <2>1. db.sessions = {}
    BY <1>1, NothingIsWhole DEF Sound
  <2>2. ASSUME NEW day \in Whole(d.history) PROVE FALSE
    <3>1. day \in Days /\ day >= SeedSessions /\ LastBucket(day) \in d.history
      BY LastBucketIsLast DEF Whole
    <3>2. Day(LastBucket(day)) = day /\ LastBucket(day) \in Times
      BY <3>1, LastBucketIsLast DEF BucketsOf
    <3>3. LastBucket(day) >= Start /\ LastBucket(day) < Start
      BY <1>9, <3>1, <3>2, StartOfRun
    <3>4. LastBucket(day) \in Nat
      BY <3>2, TimesAreFinite
    <3>5. Start \in Int
      BY SessionsAssumption DEF Start
    <3> QED
      BY <3>3, <3>4, <3>5
  <2> QED
    BY <1>8, <2>1, <2>2
<1>11. Grounded(d)
  <2>1. db.candidates = {}
    BY <1>1 DEF Sound, Grounded
  <2> QED
    BY <1>8, <2>1 DEF Grounded
<1>12. Sound(d)
  BY <1>1, <1>4, <1>8, <1>9, <1>10, <1>11 DEF Sound
<1>13. Sound(tx)' /\ StateOK(mem)'
  BY <1>3, <1>4, <1>5, <1>12 DEF Sound, Grounded, JudgedBy, StateOK
<1>14. ReadyToCommit'
  BY <1>1, <1>3, <1>5, <1>8, <1>13 DEF ReadyToCommit
<1> QED
  BY <1>1, <1>13, <1>14 DEF RunnerInv, VARIANTS, Sound, Grounded, JudgedBy, StateOK

-----------------------------------------------------------------------------
(* The ends of a transaction. *)

LEMMA EndKeeps ==
  ASSUME RunnerInv, Idle, Sound(db)', StateOK(mem)', mem' = db'.state
  PROVE  RunnerInv'
<1>1. StateOK(snapshot)'
  BY InitialStateOK DEF Idle, StateOK
<1> QED
  BY <1>1 DEF Idle, RunnerInv, VARIANTS

LEMMA CommitKeeps ==
  ASSUME RunnerInv, Commit
  PROVE  RunnerInv'
<1>1. Idle /\ db' = tx /\ mem' = mem /\ ReadyToCommit /\ StateOK(mem)
  BY DEF Commit, RunnerInv
<1>2. Sound(db)' /\ StateOK(mem)' /\ mem' = db'.state
  BY <1>1 DEF ReadyToCommit, Sound, Grounded, StateOK
<1> QED
  BY <1>1, <1>2, EndKeeps

LEMMA FailKeeps ==
  ASSUME RunnerInv, Fail
  PROVE  RunnerInv'
<1>1. Idle /\ db' = db /\ mem' = db.state /\ Sound(db) /\ StateOK(db.state)
  BY DEF Fail, RunnerInv, VARIANTS, Sound
<1>2. Sound(db)' /\ StateOK(mem)' /\ mem' = db'.state
  BY <1>1 DEF Sound, Grounded, JudgedBy, StateOK
<1> QED
  BY <1>1, <1>2, EndKeeps

LEMMA CrashKeeps ==
  ASSUME RunnerInv, Crash
  PROVE  RunnerInv'
<1>1. Idle /\ db' = db /\ mem' = db.state /\ Sound(db) /\ StateOK(db.state)
  BY DEF Crash, Load, RunnerInv, Sound
<1>2. Sound(db)' /\ StateOK(mem)' /\ mem' = db'.state
  BY <1>1 DEF Sound, Grounded, JudgedBy, StateOK
<1> QED
  BY <1>1, <1>2, EndKeeps

-----------------------------------------------------------------------------
(* The invariant and the properties. *)

LEMMA RunnerStep == RunnerInv /\ [Next]_vars => RunnerInv'
<1> SUFFICES ASSUME RunnerInv, [Next]_vars PROVE RunnerInv'
  OBVIOUS
<1>1. CASE UNCHANGED vars
  BY <1>1 DEF vars, RunnerInv, Sound, Grounded, JudgedBy, StateOK, EventIsNew, Processing, ReadyToCommit
<1>2. CASE Next
  BY <1>2, ProcessKeeps, initialize_historyKeeps, captureKeeps, finishKeeps, CommitKeeps,
     run_variantKeeps, FailKeeps, CrashKeeps DEF Next
<1> QED
  BY <1>1, <1>2

THEOREM RunnerInvariant == Spec => []RunnerInv
  BY RunnerInit, RunnerStep, PTL DEF Spec

(* Between two batches the memory is the committed state, whatever failed  *)
(* since the run began: what _restore or a new constructor reads back      *)
(* takes away all that a failed batch has written in place.                *)
THEOREM MemoryIsStateHolds == Spec => []MemoryIsState
<1>1. ASSUME NEW d \in Database
      PROVE  /\ \A i \in DOMAIN d.events : d.events[i] \in Events
             /\ d.history \subseteq Times /\ d.sessions \subseteq Days /\ d.seeded \subseteq Days
             /\ d.marks \subseteq VARIANTS \X Times
  <2>1. d.events \in Seq(Events)
    BY DEF Database
  <2>2. \A i \in DOMAIN d.events : d.events[i] \in Events
    BY <2>1, LenProperties, ElementOfSeq
  <2> QED
    BY <2>2 DEF Database
<1>2. ASSUME NEW m, StateOK(m)
      PROVE  /\ m.watermark \in Times \cup {None} /\ m.current_day \in Days \cup {None}
             /\ Len(m.window) <= WindowSize
             /\ \A v \in VARIANTS : m.variants[v].pending \in [Symbols -> Times \cup {None}]
  BY <1>2 DEF StateOK, State, Portfolio
<1>3. RunnerInv => db \in Database /\ tx \in Database
  BY DEF RunnerInv, Sound, Processing, ReadyToCommit
<1>4. RunnerInv => StateOK(mem) /\ StateOK(db.state) /\ StateOK(snapshot)
  BY DEF RunnerInv, Sound
<1>5. ASSUME RunnerInv PROVE TypeOK
  <2>1. pc \in {"idle", "capture", "finish", "commit"} \cup VARIANTS
    BY <1>5 DEF RunnerInv
  <2> QED
    BY <1>1, <1>2, <1>3, <1>4, <1>5, <2>1 DEF TypeOK
<1>6. RunnerInv => MemoryIsState
  BY <1>5 DEF MemoryIsState, Load, RunnerInv
<1> QED
  BY <1>6, RunnerInvariant, PTL

(* A session counts for the rvol portfolio exactly if all of its buckets   *)
(* were captured, and every candidate was judged by exactly those among    *)
(* the prior sessions: never by its own, never by one that was not whole,  *)
(* and one that is queued had enough of them.                              *)
THEOREM NoLookAheadHolds == Spec => []NoLookAhead
<1>1. RunnerInv => NoLookAhead
  BY DEF RunnerInv, Sound, Whole, Grounded, JudgedBy, Observations, NoLookAhead
<1> QED
  BY <1>1, RunnerInvariant, PTL

(* A run implements the log of accepted batches (ShadowLog.tla): a commit  *)
(* appends at most the batch it was opened for, later than all before.     *)
THEOREM ImplementsLogHolds == Spec => ImplementsLog
<1>1. Init => Log!Init
  BY DEF Init, EmptyDb, Log!Init
<1>2. RunnerInv /\ [Next]_vars => [Log!Next]_(db.events)
  <2> SUFFICES ASSUME RunnerInv, [Next]_vars, db.events' # db.events PROVE Log!Next
    OBVIOUS
  <2>1. Commit
    BY DEF Next, vars, process_completed_batch, initialize_history, capture, run_variant, finish,
           Fail, Crash
  <2>2. db.events' = tx.events /\ ReadyToCommit /\ Sound(db)
    BY <2>1 DEF Commit, RunnerInv
  <2>3. EventIsNew /\ tx.events = Append(db.events, event)
    BY <2>2 DEF ReadyToCommit
  <2>4. \A i \in DOMAIN db.events : db.events[i].ts < event.ts
    <3> SUFFICES ASSUME NEW i \in DOMAIN db.events PROVE db.events[i].ts < event.ts
      OBVIOUS
    <3>1. db \in Database
      BY <2>2 DEF Sound
    <3>2. db.events \in Seq(Events) /\ db.state \in State
      BY <3>1 DEF Database
    <3>3. db.state.watermark \in Int
      <4>1. db.state.watermark \in Times \cup {None}
        BY <3>2 DEF State
      <4>2. CASE db.state.watermark \in Times
        <5>1. db.state.watermark \in Nat
          BY <4>2, TimesAreFinite
        <5> QED
          BY <5>1
      <4>3. CASE db.state.watermark = None
        BY <4>3 DEF None
      <4> QED
        BY <4>1, <4>2, <4>3
    <3>4. db.events[i] \in Events
      BY <3>2, LenProperties, ElementOfSeq
    <3>5. /\ db.events[i].ts \in Times /\ event.ts \in Times
          /\ event.ts > db.state.watermark
      BY <2>3, <3>4 DEF Events, EventIsNew
    <3>6. db.events[i].ts \in Nat /\ event.ts \in Nat
      BY <3>5, TimesAreFinite
    <3>7. db.events[i].ts <= db.state.watermark
      BY <2>2 DEF Sound
    <3> QED
      BY <3>5, <3>7, <3>3, <3>6
  <2> QED
    BY <2>2, <2>3, <2>4 DEF EventIsNew, Log!Next, Log!Accept
<1> QED
  BY <1>1, <1>2, RunnerInvariant, PTL DEF Spec, ImplementsLog, Log!Spec

-----------------------------------------------------------------------------
(* The replay of a log exists, is unique and goes on by one batch when the *)
(* log does.  The prover has no induction over data: a number at which a   *)
(* claim fails first takes its place.                                      *)

Least(S, i) == i \in S /\ \A j \in S : i <= j

LEMMA LeastOf ==
  ASSUME NEW S, S \subseteq Nat, S # {}
  PROVE  \E i \in Nat : Least(S, i)
<1>1. PICK n : n \in S
  OBVIOUS
<1> DEFINE Upto(i) == S \cap (0..i)
           F == 0..n
           T == {Upto(i) : i \in S \cap F}
<1>2. IsFiniteSet(F)
  BY <1>1, FS_Interval
<1>3. T \subseteq SUBSET F /\ T # {}
  <2>1. n \in S \cap F
    BY <1>1
  <2>2. \A i \in S \cap F : Upto(i) \subseteq F
    BY <1>1
  <2> QED
    BY <2>1, <2>2
<1>4. IsWellFoundedOn(StrictSubsetOrdering(F), FiniteSubsetsOf(F)) /\ FiniteSubsetsOf(F) = SUBSET F
  <2> HIDE DEF F
  <2> QED
    BY <1>2, FS_StrictSubsetOrderingWellFounded, FS_FiniteSubsetsOfFinite
<1>5. PICK x \in T : \A y \in T : ~ (<<y, x>> \in StrictSubsetOrdering(F))
  <2> HIDE DEF T, F
  <2> QED
    BY <1>3, <1>4, WFMin
<1>6. PICK i \in S \cap F : x = Upto(i)
  BY <1>5
<1>7. ASSUME NEW j \in S, j < i PROVE FALSE
  <2>1. j \in S \cap F /\ Upto(j) \subseteq Upto(i) /\ i \in Upto(i) /\ i \notin Upto(j)
    BY <1>1, <1>7
  <2>2. Upto(j) \in T /\ Upto(j) # Upto(i) /\ Upto(j) \subseteq F /\ Upto(i) \subseteq F
    BY <2>1, <1>3, <1>6
  <2> QED
    BY <1>5, <1>6, <2>1, <2>2 DEF StrictSubsetOrdering
<1>8. i \in Nat /\ Least(S, i)
  BY <1>7 DEF Least
<1> QED
  BY <1>8

(* f holds what the first m batches of a log make of a fresh run. *)
Step(f, events, seeded, n) ==
  f[n] = IF n = 0 THEN Fresh(seeded) ELSE Applied(f[n - 1], events[n], seeded)
Replays(f, events, seeded, m) == \A n \in 0..m : Step(f, events, seeded, n)

LEMMA ReplaysExist ==
  ASSUME NEW events, NEW seeded, NEW m \in Nat
  PROVE  \E f : f = [n \in 0..m |-> f[n]] /\ Replays(f, events, seeded, m)
<1> DEFINE P(i) == \E f : f = [n \in 0..i |-> f[n]] /\ Replays(f, events, seeded, i)
           Bad == {i \in Nat : ~ P(i)}
<1>1. SUFFICES ASSUME Bad # {} PROVE FALSE
  <2> HIDE DEF P
  <2>1. P(m)
    BY <1>1
  <2> QED
    BY <2>1 DEF P
<1>2. PICK i \in Nat : Least(Bad, i)
  <2>1. Bad \subseteq Nat
    OBVIOUS
  <2> HIDE DEF Bad
  <2> QED
    BY <1>1, <2>1, LeastOf
<1>3. i \in Nat /\ ~ P(i) /\ \A j \in Nat : j < i => P(j)
  <2> HIDE DEF P
  <2> QED
    BY <1>2 DEF Least
<1>4. CASE i = 0
  <2>1. PICK f : f = [n \in 0..0 |-> Fresh(seeded)]
    OBVIOUS
  <2>2. f = [n \in 0..i |-> f[n]] /\ Replays(f, events, seeded, i)
    BY <1>4, <2>1 DEF Replays, Step
  <2> QED
    BY <1>3, <2>2
<1>5. CASE i # 0
  <2>1. P(i - 1) /\ i - 1 \in Nat
    <3> HIDE DEF P
    <3> QED
      BY <1>3, <1>5
  <2>2. PICK f : f = [n \in 0..(i - 1) |-> f[n]] /\ Replays(f, events, seeded, i - 1)
    BY <2>1
  <2>3. PICK w : w = Applied(f[i - 1], events[i], seeded)
    OBVIOUS
  <2>4. PICK g : g = [n \in 0..i |-> IF n = i THEN w ELSE f[n]]
    OBVIOUS
  <2>5. ASSUME NEW n \in 0..i PROVE Step(g, events, seeded, n)
    <3>1. CASE n = i
      BY <1>5, <2>1, <2>3, <2>4, <3>1 DEF Step
    <3>2. CASE n # i
      <4>1. n \in 0..(i - 1) /\ (n # 0 => n - 1 \in 0..i /\ n - 1 # i)
        BY <1>3, <2>5, <3>2
      <4>2. Step(f, events, seeded, n)
        BY <2>2, <4>1 DEF Replays
      <4>3. g[n] = f[n] /\ (n # 0 => g[n - 1] = f[n - 1])
        BY <2>4, <3>2, <4>1
      <4> QED
        BY <4>2, <4>3 DEF Step
    <3> QED
      BY <3>1, <3>2
  <2>6. g = [n \in 0..i |-> g[n]] /\ Replays(g, events, seeded, i)
    BY <2>4, <2>5 DEF Replays
  <2> QED
    BY <1>3, <2>6
<1> QED
  BY <1>4, <1>5

LEMMA ReplaysAgree ==
  ASSUME NEW es, NEW fs, NEW seeded, NEW m \in Nat, \A n \in 1..m : es[n] = fs[n],
         NEW f, NEW g, Replays(f, es, seeded, m), Replays(g, fs, seeded, m)
  PROVE  f[m] = g[m]
<1> DEFINE Bad == {n \in 0..m : f[n] # g[n]}
<1>1. SUFFICES ASSUME Bad # {} PROVE FALSE
  BY m \in 0..m
<1>2. PICK i \in Nat : Least(Bad, i)
  <2>1. Bad \subseteq Nat
    OBVIOUS
  <2> HIDE DEF Bad
  <2> QED
    BY <1>1, <2>1, LeastOf
<1>3. i \in 0..m /\ f[i] # g[i] /\ \A j \in 0..m : j < i => f[j] = g[j]
  BY <1>2 DEF Least
<1>4. Step(f, es, seeded, i) /\ Step(g, fs, seeded, i)
  BY <1>3 DEF Replays
<1>5. i # 0
  BY <1>3, <1>4 DEF Step
<1>6. f[i - 1] = g[i - 1] /\ es[i] = fs[i]
  BY <1>3, <1>5
<1> QED
  BY <1>3, <1>4, <1>5, <1>6 DEF Step

LEMMA ReplayIsReplayed ==
  ASSUME NEW events, NEW seeded, Len(events) \in Nat
  PROVE  \E f : Replays(f, events, seeded, Len(events)) /\ Replay(events, seeded) = f[Len(events)]
<1>1. PICK g : g = [n \in 0..Len(events) |-> g[n]] /\ Replays(g, events, seeded, Len(events))
  BY ReplaysExist
<1>2. g = [n \in 0..Len(events) |->
             IF n = 0 THEN Fresh(seeded) ELSE Applied(g[n - 1], events[n], seeded)]
  BY <1>1 DEF Replays, Step
<1> DEFINE f == CHOOSE f : f = [n \in 0..Len(events) |->
                  IF n = 0 THEN Fresh(seeded) ELSE Applied(f[n - 1], events[n], seeded)]
<1>3. f = [n \in 0..Len(events) |->
             IF n = 0 THEN Fresh(seeded) ELSE Applied(f[n - 1], events[n], seeded)]
  BY <1>2
<1>4. Replay(events, seeded) = f[Len(events)]
  BY Zenon DEF Replay
<1> HIDE DEF f
<1>5. Replays(f, events, seeded, Len(events))
  BY <1>3 DEF Replays, Step
<1> QED
  BY <1>4, <1>5

LEMMA ReplayOfNothing == ASSUME NEW seeded PROVE Replay(<<>>, seeded) = Fresh(seeded)
<1>1. PICK f : Replays(f, <<>>, seeded, Len(<<>>)) /\ Replay(<<>>, seeded) = f[Len(<<>>)]
  BY ReplayIsReplayed, EmptySeq
<1> QED
  BY <1>1, EmptySeq DEF Replays, Step

LEMMA ReplayGoesOn ==
  ASSUME NEW events \in Seq(Events), NEW e \in Events, NEW seeded
  PROVE  Replay(Append(events, e), seeded) = Applied(Replay(events, seeded), e, seeded)
<1>1. PICK longer : longer = Append(events, e)
  OBVIOUS
<1>2. PICK k \in Nat : k = Len(events)
  BY LenProperties
<1>3. Len(longer) = k + 1 /\ longer[k + 1] = e /\ \A n \in 1..k : longer[n] = events[n]
  BY <1>1, <1>2, AppendProperties
<1>4. PICK f : Replays(f, events, seeded, k) /\ Replay(events, seeded) = f[k]
  BY <1>2, ReplayIsReplayed
<1>5. PICK g : Replays(g, longer, seeded, k + 1) /\ Replay(longer, seeded) = g[k + 1]
  BY <1>3, ReplayIsReplayed
<1>6. Replays(g, longer, seeded, k) /\ Step(g, longer, seeded, k + 1)
  BY <1>5 DEF Replays
<1>7. g[k] = f[k]
  BY <1>3, <1>4, <1>6, ReplaysAgree
<1> QED
  BY <1>1, <1>3, <1>4, <1>5, <1>6, <1>7 DEF Step

-----------------------------------------------------------------------------
(* What one batch does to the positions of a portfolio and to their rows.  *)

OnePerSymbol(x) == \A p, q \in x.open : p.s = q.s => p = q
Opens(r, v, t, s) == <<v, t, s, "open">> \in r.positions
Closes(r, v, t, s) == <<v, t, s, "close">> \in r.positions

LEMMA RunOpensAndCloses ==
  ASSUME NEW v \in VARIANTS, NEW x \in Portfolio, NEW e \in Events, NEW warm \in BOOLEAN, NEW D,
         OnePerSymbol(x), NEW r, r = Run(v, x, e, warm, D)
  PROVE  /\ OnePerSymbol(r.portfolio)
         /\ \A row \in r.positions : row[1] = v /\ row[2] = e.ts
         /\ \A s \in Symbols :
              /\ Closes(r, v, e.ts, s) =>
                   has_open(x, s) /\ ~ has_open(r.portfolio, s) /\ ~ Opens(r, v, e.ts, s)
              /\ Opens(r, v, e.ts, s) => ~ has_open(x, s) /\ has_open(r.portfolio, s)
              /\ ~ Closes(r, v, e.ts, s) /\ ~ Opens(r, v, e.ts, s) =>
                   (has_open(x, s) <=> has_open(r.portfolio, s))
<1>1. PICK gone : gone = Exiting(x, e)
  OBVIOUS
<1>2. PICK exited : exited = {p.s : p \in gone}
  OBVIOUS
<1>3. PICK seen : seen = Observed(x, e)
  OBVIOUS
<1>4. PICK entering : entering = Entering(seen, e, exited)
  OBVIOUS
<1>5. PICK filled : filled = Entered(seen, e, exited)
  OBVIOUS
<1>6. /\ r.portfolio.open = filled.open
      /\ r.positions = {<<v, e.ts, s, "close">> : s \in exited}
                         \cup {<<v, e.ts, s, "open">> : s \in entering}
  <2>1. filled = [seen EXCEPT !.open = filled.open, !.pending = filled.pending]
    BY <1>5 DEF Entered
  <2>2. seen = [x EXCEPT !.closed = seen.closed, !.open = seen.open]
    BY <1>3 DEF Observed, Portfolio
  <2>3. "open" \in DOMAIN filled
    BY <2>1, <2>2 DEF Portfolio
  <2> QED
    BY <1>1, <1>2, <1>3, <1>4, <1>5, <2>3 DEF Run
<1>7. x.open \subseteq Position /\ gone \subseteq x.open /\ exited \subseteq Symbols
  BY <1>1, <1>2 DEF Exiting, Portfolio, Position
<1>8. /\ \A q \in seen.open : \E p \in x.open \ gone : p.s = q.s /\ q.at = p.at
           /\ q = [p EXCEPT !.pending_exit = @ \/ (~e.stale /\ e.bars[p.s].hit)]
      /\ \A p \in x.open \ gone : \E q \in seen.open : p.s = q.s
  <2>1. seen.open = {[p EXCEPT !.pending_exit = @ \/ (~e.stale /\ e.bars[p.s].hit)] :
                       p \in x.open \ gone}
    BY <1>1, <1>3 DEF Observed, Portfolio
  <2>2. \A p \in x.open :
          LET q == [p EXCEPT !.pending_exit = @ \/ (~e.stale /\ e.bars[p.s].hit)]
          IN  q.s = p.s /\ q.at = p.at
    BY <1>7 DEF Position
  <2> QED
    BY <2>1, <2>2
<1>9. /\ filled.open = seen.open \cup {[s |-> s, at |-> e.ts, pending_exit |-> FALSE] :
                                         s \in entering}
      /\ \A s \in entering : s \in Symbols /\ ~ has_open(seen, s) /\ s \notin exited
  <2>1. seen = [x EXCEPT !.closed = seen.closed, !.open = seen.open]
    BY <1>3 DEF Observed, Portfolio
  <2>2. filled.open = seen.open \cup {[s |-> s, at |-> e.ts, pending_exit |-> FALSE] :
                                        s \in entering}
    BY <1>4, <1>5, <2>1 DEF Entered, Portfolio
  <2>3. \A s \in entering : s \in Symbols /\ ~ has_open(seen, s) /\ s \notin exited
    BY <1>4 DEF Entering, Enterable
  <2> QED
    BY <2>2, <2>3
<1>10. \A s \in Symbols : has_open(seen, s) <=> has_open(x, s) /\ s \notin exited
  BY <1>2, <1>7, <1>8 DEF has_open, OnePerSymbol
<1>11. \A s \in Symbols : has_open(filled, s) <=> has_open(seen, s) \/ s \in entering
  <2>1. PICK new : new = {[s |-> s, at |-> e.ts, pending_exit |-> FALSE] : s \in entering}
    OBVIOUS
  <2>2. \A p \in new : p.s \in entering
    BY <2>1
  <2>3. \A s \in entering : \E p \in new : p.s = s
    <3> SUFFICES ASSUME NEW s \in entering PROVE \E p \in new : p.s = s
      OBVIOUS
    <3>1. PICK p : p = [s |-> s, at |-> e.ts, pending_exit |-> FALSE]
      OBVIOUS
    <3>2. p \in new /\ p.s = s
      BY <2>1, <3>1
    <3> QED
      BY <3>2
  <2>4. filled.open = seen.open \cup new
    BY <1>9, <2>1
  <2> QED
    BY <2>2, <2>3, <2>4 DEF has_open
<1>12. OnePerSymbol(seen)
  BY <1>8 DEF OnePerSymbol
<1>13. OnePerSymbol(filled)
  <2> SUFFICES ASSUME NEW p \in filled.open, NEW q \in filled.open, p.s = q.s PROVE p = q
    BY DEF OnePerSymbol
  <2>1. p \in seen.open \/ \E s \in entering : p = [s |-> s, at |-> e.ts, pending_exit |-> FALSE]
    BY <1>9
  <2>2. q \in seen.open \/ \E s \in entering : q = [s |-> s, at |-> e.ts, pending_exit |-> FALSE]
    BY <1>9
  <2>3. CASE p \in seen.open /\ q \in seen.open
    BY <1>12, <2>3 DEF OnePerSymbol
  <2>4. CASE p \in seen.open /\ q \notin seen.open
    BY <1>9, <2>2, <2>4 DEF has_open
  <2>5. CASE p \notin seen.open /\ q \in seen.open
    BY <1>9, <2>1, <2>5 DEF has_open
  <2>6. CASE p \notin seen.open /\ q \notin seen.open
    <3>1. PICK s1 \in entering : p = [s |-> s1, at |-> e.ts, pending_exit |-> FALSE]
      BY <2>1, <2>6
    <3>2. PICK s2 \in entering : q = [s |-> s2, at |-> e.ts, pending_exit |-> FALSE]
      BY <2>2, <2>6
    <3>3. p.s = s1 /\ q.s = s2
      BY <3>1, <3>2
    <3> QED
      BY <3>1, <3>2, <3>3
  <2> QED
    BY <2>3, <2>4, <2>5, <2>6
<1>14. \A s \in Symbols : /\ Closes(r, v, e.ts, s) <=> s \in exited
                          /\ Opens(r, v, e.ts, s) <=> s \in entering
  <2>1. ASSUME NEW s \in Symbols, NEW s2, <<v, e.ts, s, "close">> = <<v, e.ts, s2, "close">>
        PROVE s = s2
    BY <2>1
  <2>2. ASSUME NEW s \in Symbols, NEW s2, <<v, e.ts, s, "open">> = <<v, e.ts, s2, "open">>
        PROVE s = s2
    BY <2>2
  <2>3. \A s, s2 : <<v, e.ts, s, "open">> # <<v, e.ts, s2, "close">>
    OBVIOUS
  <2> QED
    BY <1>6, <2>1, <2>2, <2>3 DEF Closes, Opens
<1>15. \A s \in exited : s \in Symbols /\ has_open(x, s)
  BY <1>2, <1>7 DEF has_open
<1>16. \A s : has_open(r.portfolio, s) <=> has_open(filled, s)
  BY <1>6 DEF has_open
<1>17. OnePerSymbol(r.portfolio)
  BY <1>6, <1>13 DEF OnePerSymbol
<1>18. \A row \in r.positions : row[1] = v /\ row[2] = e.ts
  BY <1>6
<1> QED
  BY <1>9, <1>10, <1>11, <1>14, <1>15, <1>16, <1>17, <1>18

(* The rows of a variant and a symbol. *)
RowsOf(P, v, s, kind) == {r \in P : r[1] = v /\ r[3] = s /\ r[4] = kind}

LEMMA RowsAreFinite ==
  ASSUME NEW P \in SUBSET PositionRows, NEW v, NEW s, NEW kind
  PROVE  IsFiniteSet(RowsOf(P, v, s, kind)) /\ Cardinality(RowsOf(P, v, s, kind)) \in Nat
<1>1. PICK all : all = {<<v, t, s, kind>> : t \in Times}
  OBVIOUS
<1>2. IsFiniteSet(all)
  <2>1. PICK f : f = [t \in Times |-> <<v, t, s, kind>>]
    OBVIOUS
  <2>2. f \in Surjection(Times, all)
    BY <1>1, <2>1 DEF Surjection
  <2> QED
    BY <2>2, TimesAreFinite, FS_Surjection
<1>3. RowsOf(P, v, s, kind) \subseteq all
  BY <1>1 DEF RowsOf, PositionRows
<1> QED
  BY <1>2, <1>3, FS_Subset, FS_CardinalityType

(* New rows of a time at which there was none count one more, or nothing.  *)
LEMMA RowsAreCounted ==
  ASSUME NEW P \in SUBSET PositionRows, NEW N \in SUBSET PositionRows, NEW v, NEW s, NEW kind,
         NEW t, \A r \in P : r[2] # t, \A r \in N : r[2] = t
  PROVE  Cardinality(RowsOf(P \cup N, v, s, kind)) = Cardinality(RowsOf(P, v, s, kind))
           + (IF <<v, t, s, kind>> \in N THEN 1 ELSE 0)
<1>1. PICK new : new = <<v, t, s, kind>>
  OBVIOUS
<1>2. \A r \in N : r[1] = v /\ r[3] = s /\ r[4] = kind => r = new
  BY <1>1 DEF PositionRows
<1>3. new[1] = v /\ new[2] = t /\ new[3] = s /\ new[4] = kind
  BY <1>1
<1>4. PICK R : R = RowsOf(P, v, s, kind)
  OBVIOUS
<1>5. IsFiniteSet(R) /\ Cardinality(R) \in Nat /\ new \notin R
  <2>1. new \notin P
    BY <1>3
  <2>2. R \subseteq P
    BY <1>4 DEF RowsOf
  <2> QED
    BY <1>4, <2>1, <2>2, RowsAreFinite
<1>6. CASE new \in N
  <2>1. RowsOf(P \cup N, v, s, kind) = R \cup {new}
    BY <1>2, <1>3, <1>4, <1>6 DEF RowsOf
  <2>2. Cardinality(R \cup {new}) = Cardinality(R) + 1
    BY <1>5, FS_AddElement
  <2> QED
    BY <1>1, <1>4, <1>6, <2>1, <2>2
<1>7. CASE new \notin N
  <2>1. RowsOf(P \cup N, v, s, kind) = R
    BY <1>2, <1>4, <1>7 DEF RowsOf
  <2> QED
    BY <1>1, <1>4, <1>5, <1>7, <2>1
<1> QED
  BY <1>6, <1>7

-----------------------------------------------------------------------------
(* What is saved is the replay of the log: of what is committed, and of    *)
(* what is about to be.  The property of the module speaks of the times    *)
(* between two batches; a batch under way has replayed some variants.      *)

World(d) == Replay(d.events, d.seeded)
IsReplayed(d) ==
  /\ d.state = World(d).state /\ d.history = World(d).history
  /\ d.sessions = World(d).sessions /\ d.positions = World(d).positions
IsMarked(d) == d.marks = {<<v, d.events[i].ts>> : v \in VARIANTS, i \in DOMAIN d.events}
IsCounted(d) ==
  \A v \in VARIANTS, s \in Symbols :
    Cardinality(RowsOf(d.positions, v, s, "open")) - Cardinality(RowsOf(d.positions, v, s, "close"))
      = IF has_open(d.state.variants[v], s) THEN 1 ELSE 0
IsTidy(d) ==
  /\ \A v \in VARIANTS : OnePerSymbol(d.state.variants[v])
  /\ \A r \in d.positions : r[2] <= d.state.watermark
Faithful(d) == IsReplayed(d) /\ IsMarked(d) /\ IsCounted(d) /\ IsTidy(d)

Now == Captured(db.state, event)
RunOf(v) == Run(v, Now.variants[v], event, Warm(Now), db.sessions \cup db.seeded)
Underway(done) ==
  /\ mem = [Now EXCEPT !.variants =
             [v \in VARIANTS |-> IF v \in done THEN RunOf(v).portfolio ELSE Now.variants[v]]]
  /\ tx.positions = db.positions \cup UNION {RunOf(v).positions : v \in done}
  /\ tx.marks = db.marks \cup (done \X {event.ts})

ReplayInv ==
  /\ RunnerInv /\ Faithful(db)
  /\ pc = "baseline" => Underway({})
  /\ pc = "rvol" => Underway({"baseline"})
  /\ pc = "finish" => Underway(VARIANTS)
  /\ pc = "commit" => Faithful(tx)

LEMMA EmptyDbIsFaithful == Faithful(EmptyDb)
<1>1. /\ EmptyDb.events = <<>> /\ EmptyDb.history = {} /\ EmptyDb.sessions = {}
      /\ EmptyDb.seeded = {} /\ EmptyDb.positions = {} /\ EmptyDb.marks = {}
      /\ EmptyDb.state = InitialState
  BY DEF EmptyDb
<1>2. TimesOf({}) = {} /\ Cardinality({}) = 0
  BY FS_EmptySet DEF TimesOf
<1>3. SeededState(InitialState, {}) = InitialState
  <2>1. Sorted({}) = <<>>
    <3>1. Sorted({}) \in Seq(Times) /\ DOMAIN Sorted({}) = 1..0
      BY <1>2, SortedIsSequence DEF Sorted
    <3>2. Len(Sorted({})) = 0
      BY <3>1, LenProperties
    <3> QED
      BY <3>1, <3>2, EmptySeq
  <2>2. Last(<<>>, WindowSize) = <<>>
    BY EmptySeq, PolicyAssumption DEF Last
  <2>3. InitialState.window = <<>>
    BY DEF InitialState
  <2> QED
    BY <1>2, <2>1, <2>2, <2>3 DEF SeededState, InitialState
<1>4. World(EmptyDb) = Fresh({})
  BY <1>1, ReplayOfNothing DEF World
<1>5. IsReplayed(EmptyDb)
  BY <1>1, <1>2, <1>3, <1>4 DEF IsReplayed, Fresh
<1>6. IsMarked(EmptyDb)
  BY <1>1 DEF IsMarked
<1>7. \A v, s, kind : RowsOf({}, v, s, kind) = {}
  BY DEF RowsOf
<1>8. \A v \in VARIANTS : InitialState.variants[v].open = {}
  BY DEF InitialState, EmptyVariant
<1>9. IsCounted(EmptyDb)
  <2>1. \A v \in VARIANTS, s \in Symbols : ~ has_open(EmptyDb.state.variants[v], s)
    BY <1>1, <1>8 DEF has_open
  <2>2. \A v, s, kind : Cardinality(RowsOf(EmptyDb.positions, v, s, kind)) = 0
    BY <1>1, <1>2, <1>7
  <2> QED
    BY <2>1, <2>2 DEF IsCounted
<1>10. IsTidy(EmptyDb)
  BY <1>1, <1>8 DEF IsTidy, OnePerSymbol
<1> QED
  BY <1>5, <1>6, <1>9, <1>10 DEF Faithful

LEMMA ReplayInit == Init => ReplayInv
  BY RunnerInit, EmptyDbIsFaithful DEF Init, ReplayInv, VARIANTS

(* The session of the batch before was closed by its own last batch.       *)
LEMMA ClosedBefore ==
  ASSUME NEW d, Sound(d), NEW day, day = d.state.current_day, NEW t
  PROVE  (IF day # None /\ day # Day(t) /\ BucketsOf(day) \subseteq d.history
            THEN d.sessions \cup {day} ELSE d.sessions) = d.sessions
<1>1. CASE day # None /\ BucketsOf(day) \subseteq d.history
  <2>1. day \in Days /\ day >= SeedSessions
    BY <1>1 DEF Sound, StateOK, State
  <2>2. day \in d.sessions
    BY <1>1, <2>1 DEF Sound, Whole
  <2> QED
    BY <2>2
<1>2. CASE ~ (day # None /\ BucketsOf(day) \subseteq d.history)
  BY <1>2
<1> QED
  BY <1>1, <1>2

LEMMA CaptureBegins ==
  ASSUME ReplayInv, capture
  PROVE  Underway({})'
<1>1. /\ mem = db.state /\ tx = db /\ mem' = Captured(mem, event) /\ UNCHANGED <<db, event>>
      /\ EventIsNew /\ Sound(db)
  BY DEF capture, ReplayInv, RunnerInv
<1>2. Now \in State
  BY <1>1, CapturedType DEF Now, Sound, StateOK, EventIsNew
<1>3. mem' = [Now EXCEPT !.variants = [v \in VARIANTS |-> Now.variants[v]]]
  <2>1. mem' = Now
    BY <1>1 DEF Now
  <2> HIDE DEF Now
  <2> QED
    BY <1>2, <2>1 DEF State
<1>4. tx'.positions = db.positions /\ tx'.marks = db.marks
  <2>1. db \in Database
    BY <1>1 DEF Sound
  <2> QED
    BY <1>1, <2>1 DEF capture, CompleteSession, Database
<1>5. Now' = Now
  BY <1>1 DEF Now
<1> QED
  BY <1>1, <1>3, <1>4, <1>5 DEF Underway

LEMMA VariantGoesOn ==
  ASSUME ReplayInv, NEW v \in VARIANTS, run_variant(v), NEW done \in SUBSET VARIANTS, v \notin done,
         Underway(done)
  PROVE  Underway(done \cup {v})'
<1>1. /\ UNCHANGED <<db, event>> /\ EventIsNew /\ Sound(db) /\ Processing
  BY DEF run_variant, ReplayInv, RunnerInv
<1>2. PICK now \in State : now = Now
  BY <1>1, CapturedType DEF Now, Sound, StateOK, EventIsNew
<1>3. /\ mem.variants[v] = now.variants[v] /\ mem.window = now.window
      /\ mem.variants \in [VARIANTS -> {mem.variants[u] : u \in VARIANTS}]
      /\ \A u \in VARIANTS : mem.variants[u] = IF u \in done THEN RunOf(u).portfolio ELSE now.variants[u]
      /\ mem = [now EXCEPT !.variants = mem.variants]
  BY <1>2 DEF Underway, State
<1>4. PICK run : run = RunOf(v)
  OBVIOUS
<1>5. run = Run(v, mem.variants[v], event, Warm(mem), tx.sessions \cup tx.seeded)
  BY <1>1, <1>2, <1>3, <1>4 DEF RunOf, Warm, Processing
<1>6. /\ mem' = [mem EXCEPT !.variants[v] = run.portfolio]
      /\ tx' = [tx EXCEPT !.positions = @ \cup run.positions,
                          !.candidates = @ \cup run.candidates,
                          !.marks = @ \cup {<<v, event.ts>>}]
  BY <1>5 DEF run_variant
<1>7. tx \in Database
  BY <1>1 DEF Processing
<1>8. tx'.positions = tx.positions \cup run.positions /\ tx'.marks = tx.marks \cup {<<v, event.ts>>}
  BY <1>6, <1>7 DEF Database
<1>9. mem' = [now EXCEPT !.variants =
                [u \in VARIANTS |-> IF u \in done \cup {v} THEN RunOf(u).portfolio
                                                           ELSE now.variants[u]]]
  <2>1. PICK vs : vs = [mem.variants EXCEPT ![v] = run.portfolio]
    OBVIOUS
  <2>2. vs = [u \in VARIANTS |-> IF u \in done \cup {v} THEN RunOf(u).portfolio ELSE now.variants[u]]
    BY <1>3, <1>4, <2>1
  <2>3. mem' = [now EXCEPT !.variants = vs]
    BY <1>2, <1>3, <1>6, <2>1 DEF State
  <2> QED
    BY <2>2, <2>3
<1>10. \A u : RunOf(u)' = RunOf(u)
  BY <1>1 DEF RunOf, Now
<1>11. tx'.positions = db.positions \cup UNION {RunOf(u).positions : u \in done \cup {v}}
  BY <1>4, <1>8 DEF Underway
<1>12. tx'.marks = db.marks \cup ((done \cup {v}) \X {event.ts})
  BY <1>8 DEF Underway
<1>13. Now' = now
  BY <1>1, <1>2 DEF Now
<1> QED
  BY <1>1, <1>2, <1>9, <1>10, <1>11, <1>12, <1>13 DEF Underway

Parts(w, e, seeded, D, now, run) ==
  /\ D = (IF w.state.current_day # None /\ w.state.current_day # Day(e.ts)
              /\ BucketsOf(w.state.current_day) \subseteq w.history
             THEN w.sessions \cup {w.state.current_day} ELSE w.sessions)
  /\ now = Captured(w.state, e)
  /\ run = [v \in VARIANTS |-> Run(v, now.variants[v], e, Warm(now), D \cup seeded)]

Outcome(a, w, e, D, now, run) ==
  /\ a.state = [now EXCEPT !.variants = [v \in VARIANTS |-> run[v].portfolio]]
  /\ a.history = w.history \cup {e.ts}
  /\ a.sessions = IF Left(e.ts) = 0 /\ BucketsOf(Day(e.ts)) \subseteq w.history \cup {e.ts}
                  THEN D \cup {Day(e.ts)} ELSE D
  /\ a.positions = w.positions \cup run["baseline"].positions \cup run["rvol"].positions

LEMMA AppliedIs ==
  ASSUME NEW w, NEW e, NEW seeded, NEW D, NEW now, NEW run, Parts(w, e, seeded, D, now, run)
  PROVE  Outcome(Applied(w, e, seeded), w, e, D, now, run)
  BY DEF Applied, Parts, Outcome

(* The batch that is saved is one step of the replay.                      *)
LEMMA FinishIsFaithful ==
  ASSUME ReplayInv, finish
  PROVE  Faithful(tx)'
<1> DEFINE t == event.ts
<1>1. /\ UNCHANGED <<mem, db, event>> /\ EventIsNew /\ Sound(db) /\ Processing /\ Faithful(db)
      /\ Underway(VARIANTS)
  BY DEF finish, ReplayInv, RunnerInv
<1>2. /\ event \in Events /\ t \in Times /\ tx \in Database /\ db \in Database /\ t > db.state.watermark
      /\ db.state \in State
  BY <1>1 DEF EventIsNew, Events, Processing, Sound, StateOK
<1>3. PICK d : d = tx'
  OBVIOUS
<1>4. /\ d.state = mem /\ d.events = Append(db.events, event) /\ d.seeded = db.seeded
      /\ d.history = db.history \cup {t} /\ d.marks = tx.marks /\ d.positions = tx.positions
      /\ d.sessions = IF Left(t) = 0 /\ BucketsOf(Day(t)) \subseteq db.history \cup {t}
                      THEN db.sessions \cup {Day(t)} ELSE db.sessions
  <2>1. PICK closed : closed = IF Left(t) = 0 THEN CompleteSession(tx, Day(t), t) ELSE tx
    OBVIOUS
  <2>2. d = [closed EXCEPT !.state = mem]
    BY <1>3, <2>1 DEF finish
  <2>3. /\ "state" \in DOMAIN closed
        /\ closed.events = tx.events /\ closed.seeded = tx.seeded /\ closed.history = tx.history
        /\ closed.marks = tx.marks /\ closed.positions = tx.positions
        /\ closed.sessions = IF Left(t) = 0 /\ BucketsOf(Day(t)) \subseteq tx.history
                             THEN tx.sessions \cup {Day(t)} ELSE tx.sessions
    BY <1>2, <2>1 DEF CompleteSession, Database
  <2>4. /\ d.state = mem /\ d.events = closed.events /\ d.seeded = closed.seeded
        /\ d.history = closed.history /\ d.marks = closed.marks /\ d.positions = closed.positions
        /\ d.sessions = closed.sessions
    BY <2>2, <2>3
  <2> QED
    BY <1>1, <2>3, <2>4 DEF Processing
<1>5. PICK w : w = World(db)
  OBVIOUS
<1>6. /\ db.state = w.state /\ db.history = w.history /\ db.sessions = w.sessions
      /\ db.positions = w.positions
  BY <1>1, <1>5 DEF Faithful, IsReplayed
<1>7. World(d) = Applied(w, event, db.seeded)
  BY <1>2, <1>4, <1>5, ReplayGoesOn DEF World, Database
<1>8. PICK run : run = [v \in VARIANTS |-> RunOf(v)]
  OBVIOUS
<1>9. /\ World(d).state = [Now EXCEPT !.variants = [v \in VARIANTS |-> run[v].portfolio]]
      /\ World(d).history = db.history \cup {t}
      /\ World(d).sessions = IF Left(t) = 0 /\ BucketsOf(Day(t)) \subseteq db.history \cup {t}
                             THEN db.sessions \cup {Day(t)} ELSE db.sessions
      /\ World(d).positions = db.positions \cup run["baseline"].positions \cup run["rvol"].positions
  <2>1. db.sessions = (IF w.state.current_day # None /\ w.state.current_day # Day(t)
                          /\ BucketsOf(w.state.current_day) \subseteq w.history
                         THEN w.sessions \cup {w.state.current_day} ELSE w.sessions)
    BY <1>1, <1>6, ClosedBefore
  <2>2. Now = Captured(w.state, event)
    BY <1>6 DEF Now
  <2>3. run = [v \in VARIANTS |-> Run(v, Now.variants[v], event, Warm(Now), db.sessions \cup db.seeded)]
    BY <1>8 DEF RunOf
  <2>4. PICK now : now = Now
    OBVIOUS
  <2>5. PICK e : e = event
    OBVIOUS
  <2>6. Parts(w, e, db.seeded, db.sessions, now, run)
    BY <2>1, <2>2, <2>3, <2>4, <2>5 DEF Parts
  <2>7. World(d) = Applied(w, e, db.seeded) /\ t = e.ts
    BY <1>7, <2>5
  <2>8. PICK a : a = Applied(w, e, db.seeded)
    OBVIOUS
  <2>9. Outcome(a, w, e, db.sessions, now, run)
    BY <2>6, <2>8, AppliedIs
  <2> QED
    BY <1>6, <2>4, <2>5, <2>7, <2>8, <2>9 DEF Outcome
<1>10. \A v \in VARIANTS : run[v] = RunOf(v)
  BY <1>8
<1>11. mem = [Now EXCEPT !.variants = [v \in VARIANTS |-> run[v].portfolio]]
  BY <1>1, <1>10 DEF Underway
<1>12. PICK N : N = run["baseline"].positions \cup run["rvol"].positions
  OBVIOUS
<1>13. d.positions = db.positions \cup N
  <2>1. UNION {RunOf(v).positions : v \in VARIANTS} = N
    BY <1>10, <1>12 DEF VARIANTS
  <2> QED
    BY <1>1, <1>4, <2>1 DEF Underway
<1>14. IsReplayed(d)
  BY <1>4, <1>9, <1>11, <1>12, <1>13 DEF IsReplayed
<1>15. IsMarked(d)
  <2>1. /\ DOMAIN d.events = 1..(Len(db.events) + 1) /\ DOMAIN db.events = 1..Len(db.events)
        /\ Len(db.events) \in Nat /\ d.events[Len(db.events) + 1] = event
        /\ \A i \in 1..Len(db.events) : d.events[i] = db.events[i]
    BY <1>2, <1>4 DEF Database
  <2>2. db.marks = {<<v, db.events[i].ts>> : v \in VARIANTS, i \in 1..Len(db.events)}
    BY <1>1, <2>1 DEF Faithful, IsMarked
  <2>3. d.marks = db.marks \cup (VARIANTS \X {t})
    BY <1>1, <1>4 DEF Underway
  <2>4. ASSUME NEW m \in d.marks PROVE \E v \in VARIANTS, i \in DOMAIN d.events : m = <<v, d.events[i].ts>>
    <3>1. CASE m \in db.marks
      <4>1. PICK v \in VARIANTS, i \in 1..Len(db.events) : m = <<v, db.events[i].ts>>
        BY <2>2, <3>1
      <4>2. i \in DOMAIN d.events /\ d.events[i] = db.events[i]
        BY <2>1
      <4> QED
        BY <4>1, <4>2
    <3>2. CASE m \in VARIANTS \X {t}
      BY <2>1, <3>2
    <3> QED
      BY <2>3, <3>1, <3>2
  <2>5. ASSUME NEW v \in VARIANTS, NEW i \in DOMAIN d.events PROVE <<v, d.events[i].ts>> \in d.marks
    <3>1. CASE i \in 1..Len(db.events)
      BY <2>1, <2>2, <2>3, <3>1
    <3>2. CASE i = Len(db.events) + 1
      BY <2>1, <2>3, <3>2
    <3> QED
      BY <2>1, <3>1, <3>2
  <2> QED
    BY <2>4, <2>5 DEF IsMarked
<1>16. PICK now \in State : now = Now
  BY <1>2, CapturedType DEF Now
<1>17. /\ d.state.variants = [v \in VARIANTS |-> run[v].portfolio]
       /\ d.state.watermark = t
       /\ \A v \in VARIANTS : now.variants[v].open = db.state.variants[v].open
  <2>1. d.state.variants = [v \in VARIANTS |-> run[v].portfolio] /\ d.state.watermark = now.watermark
    BY <1>4, <1>11, <1>16 DEF State
  <2>2. now.watermark = t
    BY <1>2, <1>16, CapturedType DEF Now
  <2>3. \A v \in VARIANTS : now.variants[v] = [db.state.variants[v] EXCEPT !.count = @ + 1]
    BY <1>2, <1>16 DEF Now, Captured, State
  <2>4. \A v \in VARIANTS : db.state.variants[v] \in Portfolio
    BY <1>2 DEF State
  <2> QED
    BY <2>1, <2>2, <2>3, <2>4 DEF Portfolio
<1>18. ASSUME NEW v \in VARIANTS
       PROVE  /\ OnePerSymbol(now.variants[v]) /\ now.variants[v] \in Portfolio
              /\ \A s \in Symbols : has_open(now.variants[v], s) <=> has_open(db.state.variants[v], s)
              /\ run[v].positions \subseteq PositionRows
              /\ run[v] = Run(v, now.variants[v], event, Warm(now), db.sessions \cup db.seeded)
              /\ Warm(now) \in BOOLEAN
  <2>1. run[v] = Run(v, now.variants[v], event, Warm(now), db.sessions \cup db.seeded)
    BY <1>10, <1>16 DEF RunOf
  <2>2. now.variants[v] \in Portfolio /\ Warm(now) \in BOOLEAN /\ db.sessions \cup db.seeded \in SUBSET Days
    BY <1>2, <1>16 DEF State, Warm, Database
  <2>3. run[v].positions \subseteq PositionRows
    BY <1>2, <2>1, <2>2, RunType
  <2>4. OnePerSymbol(db.state.variants[v])
    BY <1>1 DEF Faithful, IsTidy
  <2> QED
    BY <1>17, <2>1, <2>2, <2>3, <2>4 DEF OnePerSymbol, has_open
<1>19. ASSUME NEW v \in VARIANTS
       PROVE  /\ OnePerSymbol(run[v].portfolio)
              /\ \A row \in run[v].positions : row[1] = v /\ row[2] = t
              /\ \A s \in Symbols :
                   /\ Closes(run[v], v, t, s) =>
                        /\ has_open(db.state.variants[v], s) /\ ~ has_open(run[v].portfolio, s)
                        /\ ~ Opens(run[v], v, t, s)
                   /\ Opens(run[v], v, t, s) =>
                        ~ has_open(db.state.variants[v], s) /\ has_open(run[v].portfolio, s)
                   /\ ~ Closes(run[v], v, t, s) /\ ~ Opens(run[v], v, t, s) =>
                        (has_open(db.state.variants[v], s) <=> has_open(run[v].portfolio, s))
  <2>1. PICK x \in Portfolio : x = now.variants[v]
    BY <1>18
  <2>2. PICK warm \in BOOLEAN : warm = Warm(now)
    BY <1>18
  <2>3. PICK r : r = run[v]
    OBVIOUS
  <2>4. OnePerSymbol(x) /\ r = Run(v, x, event, warm, db.sessions \cup db.seeded)
        /\ \A s \in Symbols : has_open(x, s) <=> has_open(db.state.variants[v], s)
    BY <1>18, <2>1, <2>2, <2>3
  <2>5. /\ OnePerSymbol(r.portfolio)
        /\ \A row \in r.positions : row[1] = v /\ row[2] = t
        /\ \A s \in Symbols :
              /\ Closes(r, v, t, s) =>
                   has_open(x, s) /\ ~ has_open(r.portfolio, s) /\ ~ Opens(r, v, t, s)
              /\ Opens(r, v, t, s) => ~ has_open(x, s) /\ has_open(r.portfolio, s)
              /\ ~ Closes(r, v, t, s) /\ ~ Opens(r, v, t, s) =>
                   (has_open(x, s) <=> has_open(r.portfolio, s))
    BY <1>2, <2>4, RunOpensAndCloses
  <2> QED
    BY <2>3, <2>4, <2>5
<1>20. /\ N \subseteq PositionRows /\ db.positions \subseteq PositionRows
       /\ \A r \in N : r[2] = t /\ r \in run[r[1]].positions
       /\ \A v \in VARIANTS : run[v].positions \subseteq N
  <2>1. \A v \in VARIANTS : run[v].positions \subseteq N
    BY <1>12 DEF VARIANTS
  <2>2. \A r \in N : \E v \in VARIANTS : r \in run[v].positions
    BY <1>12 DEF VARIANTS
  <2>3. N \subseteq PositionRows
    BY <1>18, <2>2
  <2> QED
    BY <1>2, <1>19, <2>1, <2>2, <2>3 DEF Database
<1>21. \A r \in db.positions : r[2] \in Nat /\ r[2] <= db.state.watermark /\ r[2] # t /\ r[2] <= t
  <2>1. \A r \in db.positions : r[2] \in Nat
    BY <1>20, TimesAreFinite DEF PositionRows
  <2>2. \A r \in db.positions : r[2] <= db.state.watermark
    BY <1>1 DEF Faithful, IsTidy
  <2>3. db.state.watermark \in Times \cup {-1} /\ t \in Nat
    BY <1>2, TimesAreFinite DEF State, None
  <2>4. db.state.watermark \in Int
    <3>1. db.state.watermark \in Nat \cup {-1}
      BY <2>3, TimesAreFinite
    <3> QED
      BY <3>1
  <2> QED
    BY <1>2, <2>1, <2>2, <2>3, <2>4
<1>22. IsCounted(d)
  <2> SUFFICES ASSUME NEW v \in VARIANTS, NEW s \in Symbols
               PROVE  Cardinality(RowsOf(d.positions, v, s, "open"))
                        - Cardinality(RowsOf(d.positions, v, s, "close"))
                        = IF has_open(run[v].portfolio, s) THEN 1 ELSE 0
    BY <1>17 DEF IsCounted
  <2>1. ASSUME NEW kind
        PROVE  /\ Cardinality(RowsOf(d.positions, v, s, kind)) =
                    Cardinality(RowsOf(db.positions, v, s, kind))
                      + (IF <<v, t, s, kind>> \in N THEN 1 ELSE 0)
               /\ Cardinality(RowsOf(db.positions, v, s, kind)) \in Nat
    <3>1. Cardinality(RowsOf(db.positions \cup N, v, s, kind)) =
            Cardinality(RowsOf(db.positions, v, s, kind))
              + (IF <<v, t, s, kind>> \in N THEN 1 ELSE 0)
      BY <1>20, <1>21, RowsAreCounted
    <3> QED
      BY <1>13, <1>20, <3>1, RowsAreFinite
  <2>2. /\ <<v, t, s, "open">> \in N <=> Opens(run[v], v, t, s)
        /\ <<v, t, s, "close">> \in N <=> Closes(run[v], v, t, s)
    <3>1. <<v, t, s, "open">>[1] = v /\ <<v, t, s, "close">>[1] = v
      OBVIOUS
    <3> QED
      BY <1>20, <3>1 DEF Opens, Closes
  <2>3. Cardinality(RowsOf(db.positions, v, s, "open"))
          - Cardinality(RowsOf(db.positions, v, s, "close"))
          = IF has_open(db.state.variants[v], s) THEN 1 ELSE 0
    BY <1>1 DEF Faithful, IsCounted
  <2>4. PICK o \in Nat, c \in Nat : o = Cardinality(RowsOf(db.positions, v, s, "open"))
                                   /\ c = Cardinality(RowsOf(db.positions, v, s, "close"))
    BY <2>1
  <2>5. /\ Cardinality(RowsOf(d.positions, v, s, "open")) = o + (IF Opens(run[v], v, t, s) THEN 1 ELSE 0)
        /\ Cardinality(RowsOf(d.positions, v, s, "close")) = c + (IF Closes(run[v], v, t, s) THEN 1 ELSE 0)
        /\ o - c = IF has_open(db.state.variants[v], s) THEN 1 ELSE 0
    BY <2>1, <2>2, <2>3, <2>4
  <2>6. CASE Closes(run[v], v, t, s)
    BY <1>19, <2>5, <2>6
  <2>7. CASE Opens(run[v], v, t, s)
    BY <1>19, <2>5, <2>7
  <2>8. CASE ~ Closes(run[v], v, t, s) /\ ~ Opens(run[v], v, t, s)
    BY <1>19, <2>5, <2>8
  <2> QED
    BY <2>6, <2>7, <2>8
<1>23. IsTidy(d)
  <2>1. t <= t
    <3>1. t \in Nat
      BY <1>2, TimesAreFinite
    <3> QED
      BY <3>1
  <2> QED
    BY <1>13, <1>17, <1>19, <1>20, <1>21, <2>1 DEF IsTidy
<1>24. Faithful(d)
  BY <1>14, <1>15, <1>22, <1>23 DEF Faithful
<1> QED
  BY <1>3, <1>24

(* Seeding changes what the replay starts from, before there is a batch.   *)
LEMMA InitializeIsFaithful ==
  ASSUME ReplayInv, NEW days \in SUBSET (0..(SeedSessions - 1)), initialize_history(days)
  PROVE  Faithful(tx)'
<1>1. /\ mem = db.state /\ mem.watermark = None /\ ~ db.initialized /\ db.history = {}
      /\ mem' = SeededState(mem, days) /\ Sound(db) /\ Faithful(db)
      /\ tx' = [db EXCEPT !.history = TimesOf(days), !.seeded = days, !.initialized = TRUE,
                          !.state = mem']
  BY DEF initialize_history, ReplayInv, RunnerInv
<1>2. db \in Database /\ db.seeded = {} /\ db.state \in State
  BY <1>1 DEF Sound, StateOK
<1>3. db.events = <<>>
  <2>1. db.events \in Seq(Events) /\ Len(db.events) \in Nat /\ DOMAIN db.events = 1..Len(db.events)
    BY <1>2, LenProperties DEF Database
  <2>2. ASSUME NEW i \in DOMAIN db.events PROVE FALSE
    <3>1. db.events[i] \in Events /\ db.events[i].ts <= -1
      BY <1>1, <2>1, ElementOfSeq DEF Sound, None
    <3>2. db.events[i].ts \in Nat
      BY <3>1, TimesAreFinite DEF Events
    <3> QED
      BY <3>1, <3>2
  <2>3. Len(db.events) = 0
    <3>1. Len(db.events) # 0 => 1 \in 1..Len(db.events)
      BY <2>1
    <3> QED
      BY <2>1, <2>2, <3>1
  <2> QED
    BY <2>1, <2>3, EmptySeq
<1>4. World(db) = Fresh({})
  BY <1>2, <1>3, ReplayOfNothing DEF World
<1>5. /\ db.state = SeededState(InitialState, {}) /\ db.sessions = {} /\ db.positions = {}
      /\ db.marks = {}
  BY <1>1, <1>3, <1>4 DEF Faithful, IsReplayed, IsMarked, Fresh
<1>6. PICK d : d = tx'
  OBVIOUS
<1>7. /\ d.events = <<>> /\ d.history = TimesOf(days) /\ d.seeded = days /\ d.sessions = {}
      /\ d.positions = {} /\ d.marks = {} /\ d.state = SeededState(db.state, days)
  BY <1>1, <1>2, <1>3, <1>5, <1>6 DEF Database
<1>8. SeededState(db.state, days) = SeededState(InitialState, days)
  BY <1>5 DEF SeededState, InitialState
<1>9. World(d) = Fresh(days)
  BY <1>7, ReplayOfNothing DEF World
<1>10. IsReplayed(d)
  BY <1>7, <1>8, <1>9 DEF IsReplayed, Fresh
<1>11. IsMarked(d)
  BY <1>7 DEF IsMarked
<1>12. \A v \in VARIANTS : d.state.variants[v].open = {}
  BY <1>7, <1>8 DEF SeededState, InitialState, EmptyVariant
<1>13. IsCounted(d)
  <2>1. \A v, s, kind : Cardinality(RowsOf(d.positions, v, s, kind)) = 0
    BY <1>7, FS_EmptySet DEF RowsOf
  <2>2. \A v \in VARIANTS, s \in Symbols : ~ has_open(d.state.variants[v], s)
    BY <1>12 DEF has_open
  <2> QED
    BY <2>1, <2>2 DEF IsCounted
<1>14. IsTidy(d)
  BY <1>7, <1>12 DEF IsTidy, OnePerSymbol
<1>15. Faithful(d)
  BY <1>10, <1>11, <1>13, <1>14 DEF Faithful
<1> QED
  BY <1>6, <1>15

LEMMA ReplayStep == ReplayInv /\ [Next]_vars => ReplayInv'
<1> SUFFICES ASSUME ReplayInv, [Next]_vars PROVE ReplayInv'
  OBVIOUS
<1>1. RunnerInv'
  BY RunnerStep DEF ReplayInv
<1>2. PICK d : d = db
  OBVIOUS
<1>3. Faithful(d)
  BY <1>2 DEF ReplayInv
<1>4. CASE UNCHANGED vars
  <2>1. UNCHANGED <<pc, db, tx, mem, event>>
    BY <1>4 DEF vars
  <2>2. ASSUME NEW done, Underway(done) PROVE Underway(done)'
    <3>1. Now' = Now /\ \A v : RunOf(v)' = RunOf(v)
      BY <2>1 DEF Now, RunOf
    <3> QED
      BY <2>1, <2>2, <3>1 DEF Underway
  <2>3. Faithful(tx) => Faithful(tx)'
    BY <2>1
  <2> QED
    BY <1>1, <1>2, <1>3, <2>1, <2>2, <2>3 DEF ReplayInv
<1>5. ASSUME NEW t \in Times, NEW b \in Batches, process_completed_batch(t, b)
      PROVE  ReplayInv'
  BY <1>1, <1>2, <1>3, <1>5 DEF process_completed_batch, ReplayInv
<1>6. ASSUME NEW days \in SUBSET (0..(SeedSessions - 1)), initialize_history(days)
      PROVE  ReplayInv'
  <2>1. Faithful(tx)'
    BY <1>6, InitializeIsFaithful
  <2> QED
    BY <1>1, <1>2, <1>3, <1>6, <2>1 DEF initialize_history, ReplayInv
<1>7. CASE capture
  BY <1>1, <1>2, <1>3, <1>7, CaptureBegins DEF capture, ReplayInv
<1>8. ASSUME NEW v \in VARIANTS, run_variant(v) PROVE ReplayInv'
  <2>1. pc = v /\ pc' = (IF v = "baseline" THEN "rvol" ELSE "finish") /\ UNCHANGED db
    BY <1>8 DEF run_variant
  <2>2. CASE v = "baseline"
    <3>1. Underway({} \cup {v})'
      BY <1>8, <2>1, <2>2, VariantGoesOn DEF ReplayInv
    <3>2. {} \cup {v} = {"baseline"}
      BY <2>2
    <3> QED
      BY <1>1, <1>2, <1>3, <2>1, <2>2, <3>1, <3>2 DEF ReplayInv
  <2>3. CASE v = "rvol"
    <3>1. {"baseline"} \in SUBSET VARIANTS /\ v \notin {"baseline"}
      BY <2>3 DEF VARIANTS
    <3>2. Underway({"baseline"} \cup {v})'
      BY <1>8, <2>1, <2>3, <3>1, VariantGoesOn DEF ReplayInv
    <3>3. {"baseline"} \cup {v} = VARIANTS
      BY <2>3 DEF VARIANTS
    <3> QED
      BY <1>1, <1>2, <1>3, <2>1, <2>3, <3>2, <3>3 DEF ReplayInv
  <2> QED
    BY <2>2, <2>3 DEF VARIANTS
<1>9. CASE finish
  BY <1>1, <1>2, <1>3, <1>9, FinishIsFaithful DEF finish, ReplayInv
<1>10. CASE Commit
  <2>1. Faithful(tx) /\ db' = tx /\ pc' = "idle"
    BY <1>10 DEF Commit, Idle, ReplayInv
  <2>2. Faithful(db)'
    BY <2>1
  <2> QED
    BY <1>1, <2>1, <2>2 DEF ReplayInv
<1>11. CASE Fail \/ Crash
  <2>1. db' = db /\ pc' = "idle"
    BY <1>11 DEF Fail, Crash, Idle
  <2> QED
    BY <1>1, <1>2, <1>3, <2>1 DEF ReplayInv
<1> QED
  BY <1>4, <1>5, <1>6, <1>7, <1>8, <1>9, <1>10, <1>11 DEF Next

THEOREM ReplayInvariant == Spec => []ReplayInv
  BY ReplayInit, ReplayStep, PTL DEF Spec

(* The committed state, sessions and rows are those of a fresh run over    *)
(* the accepted batches, whatever failed, rolled back or restarted on the  *)
(* way; both variants saw each batch once, and the rows of a symbol say    *)
(* whether a position is open.                                             *)
THEOREM StateIsReplayHolds == Spec => []StateIsReplay
<1>1. ASSUME Faithful(db) PROVE StateIsReplay
  <2>1. /\ db.state = Replay(db.events, db.seeded).state
        /\ db.sessions = Replay(db.events, db.seeded).sessions
        /\ db.positions = Replay(db.events, db.seeded).positions
    BY <1>1 DEF Faithful, IsReplayed, World
  <2>2. db.marks = {<<v, db.events[i].ts>> : v \in VARIANTS, i \in DOMAIN db.events}
    BY <1>1 DEF Faithful, IsMarked
  <2>3. \A v \in VARIANTS, s \in Symbols :
          Cardinality({r \in db.positions : r[1] = v /\ r[3] = s /\ r[4] = "open"})
            - Cardinality({r \in db.positions : r[1] = v /\ r[3] = s /\ r[4] = "close"})
            = IF has_open(db.state.variants[v], s) THEN 1 ELSE 0
    BY <1>1 DEF Faithful, IsCounted, RowsOf
  <2> DEFINE n(v, s, kind) ==
               Cardinality({r \in db.positions : r[1] = v /\ r[3] = s /\ r[4] = kind})
  <2>4. \A v \in VARIANTS, s \in Symbols :
          n(v, s, "open") - n(v, s, "close") = IF has_open(db.state.variants[v], s) THEN 1 ELSE 0
    BY <2>3
  <2> HIDE DEF n
  <2>5. pc = "idle" =>
          /\ db.state = Replay(db.events, db.seeded).state
          /\ db.sessions = Replay(db.events, db.seeded).sessions
          /\ db.positions = Replay(db.events, db.seeded).positions
          /\ db.marks = {<<v, db.events[i].ts>> : v \in VARIANTS, i \in DOMAIN db.events}
          /\ \A v \in VARIANTS, s \in Symbols :
               n(v, s, "open") - n(v, s, "close")
                 = IF has_open(db.state.variants[v], s) THEN 1 ELSE 0
    BY <2>1, <2>2, <2>4
  <2> QED
    BY <2>5 DEF StateIsReplay, n
<1>2. ReplayInv => StateIsReplay
  BY <1>1 DEF ReplayInv
<1> QED
  BY <1>2, ReplayInvariant, PTL
=============================================================================
