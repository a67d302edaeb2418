--------------------------- MODULE JobEntities_proofs ---------------------------
(***************************************************************************)
(* Proofs about JobEntities: its type invariant, the user of a Session,    *)
(* the logons and the failures the resolver's cache remembers, and the     *)
(* details an action fails for.                                            *)
(***************************************************************************)
EXTENDS JobEntities, SequenceTheorems, FiniteSetTheorems, TLAPS

Kinds == {"ENV_ENTER", "ENV_EXIT", "TASK_RUN", "SYNC_INPUT", "SYNC_DEPENDENCIES"}

(***************************************************************************)
(* The inductive invariant.                                                *)
(***************************************************************************)

\* The map of records has a record for each entity.
RecordsShape ==
  records = [t \in EntityTypes |->
               [data |-> records[t].data, error |-> records[t].error]]

HostOK == host \in Hosts /\ override \in Overrides /\ zero \in BOOLEAN

\* The cache is finite.  Of an entry without a user both times began with the
\* failure, and nothing but a failure sets them back.
CacheOK(c) ==
  /\ IsFiniteSet(DOMAIN c)
  /\ c \in [DOMAIN c -> Entries]
  /\ \A k \in DOMAIN c :
       ~ c[k].ok => c[k].fetched = RetryAfter \/ c[k].accessed = c[k].fetched

\* A refused secret is remembered by an entry no older than the failure, or
\* the time it had to be remembered for is over.
FailuresType == [why : Secrets, age : 0 .. RetryAfter]
FailuresIn(f, c) ==
  \A k \in DOMAIN f : f[k].why = "refused" =>
    IF k \in DOMAIN c THEN ~ c[k].ok /\ c[k].fetched <= f[k].age
    ELSE f[k].age = RetryAfter

Remembered ==
  /\ failure \in [DOMAIN failure -> FailuresType]
  /\ phase # "over" => FailuresIn(failure, cache)

IInv == /\ TypeOK /\ RecordsShape /\ HostOK /\ CacheOK(cache) /\ Remembered
        /\ RunsAsConfigured /\ LogonsKept /\ FailureWaits

(***************************************************************************)
(* The entities.                                                           *)
(***************************************************************************)
LEMMA QueueType == Queue \in Seq(Kinds) /\ Len(Queue) \in Nat
<1>1. Queue \in Seq(Kinds)
  BY JobEntitiesAssumption DEF Kinds
<1> QED BY <1>1

LEMMA BatchesType == Batches \in Nat
<1>1. MaxBatch \in Nat \ {0}
  BY JobEntitiesAssumption
<1>2. \A x, y \in Nat : y >= 1 => x \div y \in Nat
  OBVIOUS
<1> QED BY <1>1, <1>2, QueueType DEF Batches

\* The kinds of a queue have entities, none of which is the job.
LEMMA EntityOfKind ==
  ASSUME NEW kind \in Kinds
  PROVE  Entity(kind) \in EntityTypes \ {"job"}
  BY DEF Kinds, Entity, EntityTypes

LEMMA BatchTypes == \A n : Batch(n) \subseteq EntityTypes \ {"job"}
<1>1. \A i \in 1 .. Len(Queue) : Queue[i] \in Kinds
  BY QueueType
<1> QED BY <1>1, EntityOfKind DEF Batch

LEMMA LeftOfQueue ==
  ASSUME NEW n \in 0 .. Len(Queue), left = SubSeq(Queue, n + 1, Len(Queue)), left # <<>>
  PROVE  /\ Head(left) \in Kinds
         /\ n + 1 \in 0 .. Len(Queue)
         /\ Tail(left) = SubSeq(Queue, n + 2, Len(Queue))
<1>1. Queue \in Seq(Kinds) /\ Len(Queue) \in Nat
  BY QueueType
<1>2. n + 1 \in 1 .. Len(Queue)
  <2>1. n # Len(Queue)
    BY <1>1, SubSeqEmpty
  <2> QED BY <1>1, <2>1
<1>3. /\ Head(left) = Queue[n + 1]
      /\ Tail(left) = SubSeq(Queue, n + 1 + 1, Len(Queue))
  BY <1>1, <1>2, HeadTailOfSubSeq
<1> QED BY <1>1, <1>2, <1>3

LEMMA ErrorNoted ==
  ASSUME NEW d, NEW e \in BOOLEAN, NEW r, r = [data |-> d, error |-> e],
         NEW s, s = [r EXCEPT !.error = TRUE]
  PROVE  s = [data |-> d, error |-> TRUE]
  OBVIOUS

\* What cache_entities makes of the records, for entities other than the job.
LEMMA CacheKeepsTypes ==
  ASSUME TypeOK, RecordsShape, NEW answers, DOMAIN answers \subseteq EntityTypes \ {"job"},
         \A t \in DOMAIN answers : answers[t] \in Answers(t) \union {NoAnswer},
         records' = Cache(answers)
  PROVE  /\ RecordsShape'
         /\ records'["job"] = records["job"]
         /\ \A t \in EntityTypes \ {"job"} :
              /\ records'[t].error \in BOOLEAN
              /\ records'[t].data # None => records'[t].data \in Shapes[t]
<1>1. "job" \in EntityTypes
  BY DEF EntityTypes
<1>2. ASSUME NEW t \in EntityTypes
      PROVE  records[t] = [data |-> records[t].data, error |-> records[t].error]
  BY <1>2 DEF RecordsShape
<1>3. ASSUME NEW t \in EntityTypes \ {"job"}, t \in DOMAIN answers
      PROVE  /\ Saved(records[t], answers[t]).error \in BOOLEAN
             /\ Saved(records[t], answers[t]).data # None =>
                  Saved(records[t], answers[t]).data \in Shapes[t]
             /\ Saved(records[t], answers[t]) =
                  [data |-> Saved(records[t], answers[t]).data,
                   error |-> Saved(records[t], answers[t]).error]
  <2> DEFINE a == answers[t]
             d == records[t].data
             e == records[t].error
  <2>1. records[t] = [data |-> d, error |-> e]
    BY <1>2
  <2>2. e \in BOOLEAN /\ (d # None => d \in Shapes[t])
    BY <1>3 DEF TypeOK
  <2>3. \/ \E x \in Shapes[t] : a = [what |-> "data", data |-> x]
        \/ a = [what |-> "error", data |-> None]
        \/ a = [what |-> "too large", data |-> None]
        \/ a = [what |-> "refused", data |-> None]
    <3>1. a \in Answers(t) \/ a = NoAnswer
      BY <1>3
    <3> QED BY <3>1 DEF Answers, NoAnswer
  <2> HIDE DEF a, d, e
  <2>4. CASE \E x \in Shapes[t] : a = [what |-> "data", data |-> x]
    <3>1. PICK x \in Shapes[t] : a = [what |-> "data", data |-> x]
      BY <2>4
    <3>2. Saved(records[t], a) = [data |-> x, error |-> e]
      BY <2>1, <3>1 DEF Saved
    <3> QED BY <2>2, <3>2 DEF a
  <2>5. CASE a = [what |-> "error", data |-> None]
    <3>1. a.what = "error"
      BY <2>5
    <3>2. Saved(records[t], a) = [records[t] EXCEPT !.error = TRUE]
      BY <3>1 DEF Saved
    <3>3. Saved(records[t], a) = [data |-> d, error |-> TRUE]
      BY <2>1, <2>2, <3>2, ErrorNoted
    <3> QED BY <2>2, <3>3 DEF a
  <2>6. CASE a.what \in {"too large", "refused"}
    <3>1. Saved(records[t], a) = [data |-> d, error |-> e]
      BY <2>1, <2>6 DEF Saved
    <3> QED BY <2>2, <3>1 DEF a
  <2>7. CASE a = [what |-> "too large", data |-> None]
    <3>1. a.what \in {"too large", "refused"}
      BY <2>7
    <3> QED BY <2>6, <3>1 DEF a
  <2>8. CASE a = [what |-> "refused", data |-> None]
    <3>1. a.what \in {"too large", "refused"}
      BY <2>8
    <3> QED BY <2>6, <3>1 DEF a
  <2> QED BY <2>3, <2>4, <2>5, <2>7, <2>8 DEF a
<1>4. \A t \in EntityTypes :
        records'[t] = IF t \in DOMAIN answers THEN Saved(records[t], answers[t])
                                              ELSE records[t]
  BY DEF Cache
<1>5. ASSUME NEW t \in EntityTypes \ {"job"}
      PROVE  /\ records'[t].error \in BOOLEAN
             /\ records'[t].data # None => records'[t].data \in Shapes[t]
  BY <1>3, <1>4, <1>5 DEF TypeOK
<1>6. ASSUME NEW t \in EntityTypes
      PROVE  records'[t] = [data |-> records'[t].data, error |-> records'[t].error]
  <2>1. CASE t \in DOMAIN answers
    <3>1. t # "job"
      BY <2>1
    <3> QED BY <1>3, <1>4, <2>1, <3>1
  <2>2. CASE t \notin DOMAIN answers
    BY <1>2, <1>4, <2>2
  <2> QED BY <2>1, <2>2
<1>7. records' = [t \in EntityTypes |-> records'[t]]
  BY DEF Cache
<1>8. RecordsShape'
  BY <1>6, <1>7 DEF RecordsShape
<1> QED BY <1>1, <1>4, <1>5, <1>8


(***************************************************************************)
(* The resolver's cache.                                                   *)
(***************************************************************************)
LEMMA Times ==
  /\ RetryAfter \in Nat /\ RetryAfter >= 1 /\ CacheExpiration \in Nat
  /\ RetryAfter < CacheExpiration
  BY WindowsCredentialsAssumption

\* What prune_cache leaves is a cache; a failure it forgets is old enough.
LEMMA PruneOK ==
  ASSUME NEW z \in BOOLEAN, NEW c, CacheOK(c)
  PROVE  /\ CacheOK(PruneCache(z, c))
         /\ LogonsOf(z, PruneCache(z, c)) = LogonsOf(z, c)
         /\ \A f : f \in [DOMAIN f -> FailuresType] /\ FailuresIn(f, c)
                  => FailuresIn(f, PruneCache(z, c))
<1>1. CASE z
  BY <1>1 DEF PruneCache
<1>2. CASE ~ z
  <2> DEFINE p == OnlyRecent(c)
  <2>1. PruneCache(z, c) = p
    BY <1>2 DEF PruneCache
  <2>2. /\ DOMAIN p = {k \in DOMAIN c : c[k].accessed < CacheExpiration}
        /\ \A k \in DOMAIN p : p[k] = c[k]
        /\ p = [k \in DOMAIN p |-> c[k]]
    BY DEF OnlyRecent
  <2> HIDE DEF p
  <2>3. IsFiniteSet(DOMAIN p)
    BY <2>2, FS_Subset DEF CacheOK
  <2>4. CacheOK(p)
    BY <2>2, <2>3 DEF CacheOK
  <2>5. LogonsOf(z, p) = {} /\ LogonsOf(z, c) = {}
    BY <1>2 DEF LogonsOf
  <2>6. ASSUME NEW f, f \in [DOMAIN f -> FailuresType], FailuresIn(f, c),
               NEW k \in DOMAIN f, f[k].why = "refused"
        PROVE  IF k \in DOMAIN p THEN ~ p[k].ok /\ p[k].fetched <= f[k].age
                                 ELSE f[k].age = RetryAfter
    <3>1. f[k].age \in 0 .. RetryAfter
      BY <2>6 DEF FailuresType
    <3>2. CASE k \in DOMAIN c /\ k \notin DOMAIN p
      <4>1. /\ c[k].accessed \in 0 .. CacheExpiration
            /\ c[k].fetched \in 0 .. RetryAfter
        BY <3>2 DEF CacheOK, Entries
      <4>2. ~ (c[k].accessed < CacheExpiration)
        BY <2>2, <3>2
      <4>3. ~ c[k].ok /\ c[k].fetched <= f[k].age
        BY <2>6, <3>2 DEF FailuresIn
      <4>4. c[k].fetched = RetryAfter \/ c[k].accessed = c[k].fetched
        BY <3>2, <4>3 DEF CacheOK
      <4> QED BY <3>1, <3>2, <4>1, <4>2, <4>3, <4>4, Times
    <3>3. CASE k \in DOMAIN p
      BY <2>2, <2>6, <3>3 DEF FailuresIn
    <3>4. CASE k \notin DOMAIN c
      BY <2>2, <2>6, <3>4 DEF FailuresIn
    <3> QED BY <3>2, <3>3, <3>4
  <2> QED BY <2>1, <2>4, <2>5, <2>6 DEF FailuresIn
<1> QED BY <1>1, <1>2

\* An entry that was just made.
MadeNow(e) == e \in Entries /\ e.accessed = e.fetched

\* What a cache is once the entry of k has been replaced.
Replaced(c, k, e, w) ==
  /\ DOMAIN w = DOMAIN c \union {k}
  /\ w[k] = e
  /\ \A j \in DOMAIN c : j # k => w[j] = c[j]

LEMMA WithOK ==
  ASSUME NEW c, CacheOK(c), NEW k, NEW e, MadeNow(e)
  PROVE  CacheOK(With(c, k, e)) /\ Replaced(c, k, e, With(c, k, e))
<1> DEFINE w == With(c, k, e)
<1>1. Replaced(c, k, e, w)
  BY DEF With, Replaced
<1>2. w = [j \in DOMAIN w |-> w[j]]
  BY DEF With
<1> HIDE DEF w
<1>3. IsFiniteSet(DOMAIN w)
  BY <1>1, FS_AddElement DEF CacheOK, Replaced
<1>4. CacheOK(w)
  BY <1>1, <1>2, <1>3 DEF CacheOK, MadeNow, Replaced
<1> QED BY <1>1, <1>4 DEF w

LEMMA NewEntryOK ==
  ASSUME NEW ok \in BOOLEAN, NEW e, e = NewEntry(ok)
  PROVE  MadeNow(e) /\ e.ok = ok /\ e.fetched = 0
<1>1. 0 \in 0 .. RetryAfter /\ 0 \in 0 .. CacheExpiration
  BY Times
<1>2. e \in Entries
  BY <1>1 DEF NewEntry, Entries
<1>3. e.ok = ok
  BY DEF NewEntry
<1>4. e.fetched = 0 /\ e.accessed = e.fetched
  BY DEF NewEntry
<1> QED BY <1>2, <1>3, <1>4 DEF MadeNow

\* An entry whose user is given out again.
LEMMA TouchedOK ==
  ASSUME NEW c, CacheOK(c), NEW k \in DOMAIN c, c[k].ok
  PROVE  LET t == [c EXCEPT ![k].accessed = 0]
         IN /\ CacheOK(t)
            /\ DOMAIN t = DOMAIN c
            /\ \A j \in DOMAIN c : t[j].ok = c[j].ok /\ t[j].fetched = c[j].fetched
<1> DEFINE e == [c[k] EXCEPT !.accessed = 0]
           t == [c EXCEPT ![k].accessed = 0]
<1>1. c[k] \in Entries
  BY DEF CacheOK
<1>2. e \in Entries /\ e.ok = c[k].ok /\ e.fetched = c[k].fetched
  <2>1. 0 \in 0 .. CacheExpiration
    BY Times
  <2>2. e \in Entries
    BY <1>1, <2>1 DEF Entries
  <2>3. e.fetched = c[k].fetched
    BY <1>1 DEF Entries
  <2>4. e.ok = c[k].ok
    BY <1>1 DEF Entries
  <2> QED BY <2>2, <2>3, <2>4
<1>3. t = [j \in DOMAIN c |-> IF j = k THEN e ELSE c[j]]
  BY DEF CacheOK
<1> HIDE DEF e, t
<1>4. /\ DOMAIN t = DOMAIN c
      /\ \A j \in DOMAIN c : t[j].ok = c[j].ok /\ t[j].fetched = c[j].fetched
  BY <1>2, <1>3
<1>5. CacheOK(t)
  BY <1>2, <1>3 DEF CacheOK
<1> QED BY <1>4, <1>5 DEF t

\* Time makes no entry younger, and no failure older than its entry.
LEMMA AgedOK ==
  ASSUME NEW c, CacheOK(c), NEW f, f \in [DOMAIN f -> FailuresType], FailuresIn(f, c),
         NEW g, g = [k \in DOMAIN f |-> [f[k] EXCEPT !.age = Older(@, RetryAfter)]]
  PROVE  /\ CacheOK(Aged(c))
         /\ \A z \in BOOLEAN : LogonsOf(z, Aged(c)) = LogonsOf(z, c)
         /\ g \in [DOMAIN g -> FailuresType]
         /\ FailuresIn(g, Aged(c))
<1> DEFINE a == Aged(c)
<1>1. \A n, limit \in Nat : n <= limit =>
         Older(n, limit) \in 0 .. limit /\ n <= Older(n, limit)
  BY DEF Older
<1>2. ASSUME NEW k \in DOMAIN c
      PROVE  /\ a[k].ok = c[k].ok
             /\ a[k].fetched = Older(c[k].fetched, RetryAfter)
             /\ a[k].accessed = Older(c[k].accessed, CacheExpiration)
             /\ a[k] \in Entries
  <2>1. /\ c[k] \in Entries
        /\ c[k].fetched \in 0 .. RetryAfter /\ c[k].accessed \in 0 .. CacheExpiration
    BY DEF CacheOK, Entries
  <2>2. a[k] = [c[k] EXCEPT !.fetched = Older(c[k].fetched, RetryAfter),
                            !.accessed = Older(c[k].accessed, CacheExpiration)]
    BY DEF Aged
  <2>3. /\ Older(c[k].fetched, RetryAfter) \in 0 .. RetryAfter
        /\ Older(c[k].accessed, CacheExpiration) \in 0 .. CacheExpiration
    BY <1>1, <2>1, Times
  <2> QED BY <2>1, <2>2, <2>3 DEF Entries
<1>3. DOMAIN a = DOMAIN c /\ a = [k \in DOMAIN c |-> a[k]]
  BY DEF Aged
<1> HIDE DEF a
<1>4. ASSUME NEW k \in DOMAIN c, ~ c[k].ok
      PROVE  a[k].fetched = RetryAfter \/ a[k].accessed = a[k].fetched
  <2>1. c[k].fetched \in 0 .. RetryAfter /\ c[k].accessed \in 0 .. CacheExpiration
    BY DEF CacheOK, Entries
  <2>2. CASE c[k].fetched = RetryAfter
    BY <1>2, <2>1, <2>2, Times DEF Older
  <2>3. CASE c[k].fetched # RetryAfter
    <3>1. c[k].accessed = c[k].fetched
      BY <1>4, <2>3 DEF CacheOK
    <3>2. /\ a[k].fetched = c[k].fetched + 1
          /\ a[k].accessed = c[k].fetched + 1
      BY <1>2, <2>1, <2>3, <3>1, Times DEF Older
    <3> QED BY <3>2
  <2> QED BY <2>2, <2>3
<1>5. CacheOK(a)
  BY <1>2, <1>3, <1>4 DEF CacheOK
<1>6. \A z \in BOOLEAN : LogonsOf(z, a) = LogonsOf(z, c)
  BY <1>2, <1>3 DEF LogonsOf
<1>7. ASSUME NEW k \in DOMAIN f
      PROVE  /\ f[k].age \in 0 .. RetryAfter
             /\ g[k].why = f[k].why /\ g[k].age = Older(f[k].age, RetryAfter)
             /\ g[k] \in FailuresType
  <2>1. f[k] \in FailuresType /\ f[k].age \in 0 .. RetryAfter
    BY DEF FailuresType
  <2>2. g[k] = [f[k] EXCEPT !.age = Older(f[k].age, RetryAfter)]
    OBVIOUS
  <2>3. Older(f[k].age, RetryAfter) \in 0 .. RetryAfter
    BY <1>1, <2>1, Times
  <2> QED BY <2>1, <2>2, <2>3 DEF FailuresType
<1>8. DOMAIN g = DOMAIN f /\ g \in [DOMAIN g -> FailuresType]
  BY <1>7
<1>9. ASSUME NEW k \in DOMAIN f, f[k].why = "refused"
      PROVE  IF k \in DOMAIN c THEN ~ a[k].ok /\ a[k].fetched <= g[k].age
                               ELSE g[k].age = RetryAfter
  <2>1. IF k \in DOMAIN c THEN ~ c[k].ok /\ c[k].fetched <= f[k].age
                          ELSE f[k].age = RetryAfter
    BY <1>9 DEF FailuresIn
  <2>2. CASE k \in DOMAIN c
    <3>1. c[k].fetched \in 0 .. RetryAfter
      BY <2>2 DEF CacheOK, Entries
    <3> QED BY <1>2, <1>7, <2>1, <2>2, <3>1, Times DEF Older
  <2>3. CASE k \notin DOMAIN c
    BY <1>7, <2>1, <2>3, Times DEF Older
  <2> QED BY <2>2, <2>3
<1>10. FailuresIn(g, a)
  BY <1>3, <1>7, <1>8, <1>9 DEF FailuresIn
<1> QED BY <1>5, <1>6, <1>8, <1>10 DEF a

\* get_windows_session_user: what is fetched is remembered, with its failure.
LEMMA RequestOK ==
  ASSUME NEW z \in BOOLEAN, NEW c, CacheOK(c), NEW k, NEW secret \in Secrets,
         NEW f, f \in [DOMAIN f -> FailuresType], FailuresIn(f, c),
         NEW fetches, fetches = (~ Cached(c, k) /\ ShouldFetch(c, k)),
         NEW g, g = IF ~ fetches THEN f
                    ELSE [key \in DOMAIN f \union {k} |->
                            IF key = k THEN [why |-> secret, age |-> 0] ELSE f[key]],
         NEW r, r = AfterRequest(c, k, secret)
  PROVE  /\ CacheOK(r)
         /\ LogonsOf(z, r) = LogonsOf(z, c) \union
              (IF z /\ fetches /\ secret = "good" THEN {k} ELSE {})
         /\ fetches => k \notin LogonsOf(z, c)
         /\ g \in [DOMAIN g -> FailuresType]
         /\ FailuresIn(g, r)
         /\ fetches /\ k \in DOMAIN f /\ f[k].why = "refused" =>
              f[k].age = RetryAfter
<1>1. fetches => (k \in DOMAIN c => ~ c[k].ok /\ c[k].fetched = RetryAfter)
  BY DEF ShouldFetch
<1>2. fetches => k \notin LogonsOf(z, c)
  BY <1>1 DEF LogonsOf
<1>3. \A j \in DOMAIN f : f[j].age \in 0 .. RetryAfter
  BY DEF FailuresType
<1>4. fetches /\ k \in DOMAIN f /\ f[k].why = "refused" => f[k].age = RetryAfter
  BY <1>1, <1>3, Times DEF FailuresIn
<1>5. g \in [DOMAIN g -> FailuresType]
  <2>1. [why |-> secret, age |-> 0] \in FailuresType
    BY Times DEF FailuresType
  <2> QED BY <2>1
<1>6. CASE Cached(c, k)
  <2>1. k \in DOMAIN c /\ c[k].ok
    BY <1>6 DEF Cached
  <2> DEFINE t == [c EXCEPT ![k].accessed = 0]
  <2>2. r = t
    BY <1>6 DEF AfterRequest
  <2>3. /\ CacheOK(t)
        /\ DOMAIN t = DOMAIN c
        /\ \A j \in DOMAIN c : t[j].ok = c[j].ok /\ t[j].fetched = c[j].fetched
    BY <2>1, TouchedOK
  <2> HIDE DEF t
  <2>4. g = f /\ ~ fetches
    BY <1>6
  <2>5. FailuresIn(g, r)
    BY <2>2, <2>3, <2>4 DEF FailuresIn
  <2>6. LogonsOf(z, r) = LogonsOf(z, c)
    BY <2>2, <2>3 DEF LogonsOf
  <2> QED BY <1>2, <1>4, <1>5, <2>2, <2>3, <2>4, <2>5, <2>6
<1>7. CASE ~ Cached(c, k) /\ ~ fetches
  <2>1. k \in DOMAIN c /\ ~ c[k].ok
    BY <1>7 DEF Cached, ShouldFetch
  <2> DEFINE e == NewEntry(FALSE)
  <2>2. r = With(c, k, e)
    BY <1>7 DEF AfterRequest, Failed
  <2>3. MadeNow(e) /\ ~ e.ok /\ e.fetched = 0
    <3>1. MadeNow(e) /\ e.ok = FALSE /\ e.fetched = 0
      BY NewEntryOK
    <3> QED BY <3>1
  <2> HIDE DEF e
  <2>4. /\ CacheOK(r)
        /\ DOMAIN r = DOMAIN c \union {k}
        /\ r[k] = e
        /\ \A j \in DOMAIN c : j # k => r[j] = c[j]
    <3>1. CacheOK(r) /\ Replaced(c, k, e, r)
      BY <2>2, <2>3, WithOK
    <3> QED BY <3>1 DEF Replaced
  <2>5. g = f
    BY <1>7
  <2>6. FailuresIn(g, r)
    <3>1. ASSUME NEW j \in DOMAIN f, f[j].why = "refused"
          PROVE  IF j \in DOMAIN r THEN ~ r[j].ok /\ r[j].fetched <= f[j].age
                 ELSE f[j].age = RetryAfter
      <4>1. CASE j = k
        <5>1. f[j].age \in 0 .. RetryAfter /\ j \in DOMAIN r
          BY <1>3, <2>4, <4>1
        <5> QED BY <2>3, <2>4, <4>1, <5>1, Times
      <4>2. CASE j # k
        BY <2>4, <3>1, <4>2 DEF FailuresIn
      <4> QED BY <4>1, <4>2
    <3> QED BY <2>5, <3>1 DEF FailuresIn
  <2>7. LogonsOf(z, r) = LogonsOf(z, c)
    BY <2>1, <2>3, <2>4 DEF LogonsOf
  <2> QED BY <1>2, <1>4, <1>5, <1>7, <2>4, <2>6, <2>7
<1>8. CASE fetches
  <2>1. ~ Cached(c, k) /\ ShouldFetch(c, k)
    BY <1>8
  <2>2. /\ DOMAIN g = DOMAIN f \union {k}
        /\ g[k] = [why |-> secret, age |-> 0]
        /\ \A j \in DOMAIN f : j # k => g[j] = f[j]
    BY <1>8
  <2>3. g[k].why = secret /\ g[k].age = 0
    BY <2>2
  <2>4. CASE secret \in {"no password", "no object"}
    <3>1. r = c
      BY <2>1, <2>4 DEF AfterRequest
    <3>2. FailuresIn(g, r)
      BY <2>2, <2>3, <2>4, <3>1 DEF FailuresIn
    <3> QED BY <1>2, <1>4, <1>5, <2>4, <3>1, <3>2
  <2>5. ASSUME NEW e, MadeNow(e), e.ok = (secret = "good"), e.fetched = 0,
               r = With(c, k, e)
        PROVE  /\ CacheOK(r)
               /\ FailuresIn(g, r)
               /\ LogonsOf(z, r) = LogonsOf(z, c) \union
                    (IF z /\ fetches /\ secret = "good" THEN {k} ELSE {})
    <3>1. /\ CacheOK(r)
          /\ DOMAIN r = DOMAIN c \union {k}
          /\ r[k] = e
          /\ \A j \in DOMAIN c : j # k => r[j] = c[j]
      <4>1. CacheOK(r) /\ Replaced(c, k, e, r)
        BY <2>5, WithOK
      <4> QED BY <4>1 DEF Replaced
    <3>4. ASSUME NEW j \in DOMAIN g, g[j].why = "refused"
          PROVE  IF j \in DOMAIN r THEN ~ r[j].ok /\ r[j].fetched <= g[j].age
                 ELSE g[j].age = RetryAfter
      <4>1. CASE j = k
        <5>1. ~ e.ok
          BY <2>3, <2>5, <3>4, <4>1
        <5>2. j \in DOMAIN r /\ r[j] = e /\ g[j].age = 0
          BY <2>3, <3>1, <4>1
        <5>3. e.fetched = 0
          BY <2>5
        <5>4. r[j].fetched = 0
          BY <5>2, <5>3
        <5>5. r[j].fetched <= g[j].age
          BY <5>2, <5>4
        <5> QED BY <5>1, <5>2, <5>5
      <4>2. CASE j # k
        BY <2>2, <3>1, <3>4, <4>2 DEF FailuresIn
      <4> QED BY <4>1, <4>2
    <3>5. FailuresIn(g, r)
      BY <3>4 DEF FailuresIn
    <3>6. LogonsOf(z, r) = LogonsOf(z, c) \union
            (IF z /\ fetches /\ secret = "good" THEN {k} ELSE {})
      <4>1. \A j \in DOMAIN r : r[j].ok = IF j = k THEN e.ok ELSE c[j].ok
        BY <3>1
      <4>2. k \notin LogonsOf(z, c)
        BY <1>2, <1>8
      <4> QED BY <1>8, <2>5, <3>1, <4>1, <4>2 DEF LogonsOf
    <3> QED BY <3>1, <3>5, <3>6
  <2>6. CASE secret = "good"
    <3> DEFINE e == NewEntry(TRUE)
    <3>1. r = With(c, k, e)
      BY <2>1, <2>6 DEF AfterRequest
    <3>2. MadeNow(e) /\ e.ok = TRUE /\ e.fetched = 0
      BY NewEntryOK
    <3> HIDE DEF e
    <3> QED BY <1>2, <1>4, <1>5, <2>5, <2>6, <3>1, <3>2
  <2>7. CASE secret = "refused"
    <3> DEFINE e == NewEntry(FALSE)
    <3>1. r = With(c, k, e)
      BY <2>1, <2>7 DEF AfterRequest, Failed
    <3>2. MadeNow(e) /\ e.ok = FALSE /\ e.fetched = 0
      BY NewEntryOK
    <3> HIDE DEF e
    <3> QED BY <1>2, <1>4, <1>5, <2>5, <2>7, <3>1, <3>2
  <2> QED BY <2>4, <2>6, <2>7 DEF Secrets
<1> QED BY <1>6, <1>7, <1>8

(***************************************************************************)
(* The user of a Session.                                                  *)
(***************************************************************************)
LEMMA JoinedWord ==
  ASSUME NEW S, NEW s \in Seq(S), s # <<>>, NEW w \in Seq(S), Len(w) = 1,
         NEW p, p = s \o w
  PROVE  p \in Seq(S) /\ p # <<>> /\ Len(p) = Len(s) + 1 /\ Front(p) = s
<1>1. Len(s) \in Nat /\ Len(s) # 0
  BY EmptySeq
<1>2. p \in Seq(S) /\ Len(p) = Len(s) + 1
  BY ConcatProperties
<1>3. Front(p) = SubSeq(p, 1, Len(s))
  BY <1>1, <1>2 DEF Front
<1>4. SubSeq(p, 1, Len(s)) = SubSeq(s, 1, Len(s))
  BY <1>1, SubSeqOfConcat1
<1>5. SubSeq(s, 1, Len(s)) = s
  BY SubSeqFull
<1>6. p # <<>>
  BY <1>1, <1>2
<1> QED BY <1>2, <1>3, <1>4, <1>5, <1>6

LEMMA UserPaths ==
  ASSUME NEW own \in {Posix, Windows}, NEW path, path = own \o <<"user">>
  PROVE  Len(path) = 3 /\ Front(path) = own /\ path \in JobSchema.required
<1> DEFINE Words == {"jobRunAsUser", "posix", "windows", "user"}
<1>1. own \in Seq(Words) /\ own # <<>> /\ Len(own) = 2
  <2>1. RunAs \in Seq(Words) /\ RunAs # <<>> /\ Len(RunAs) = 1
    BY DEF RunAs
  <2>2. <<"posix">> \in Seq(Words) /\ Len(<<"posix">>) = 1
    OBVIOUS
  <2>3. <<"windows">> \in Seq(Words) /\ Len(<<"windows">>) = 1
    OBVIOUS
  <2> HIDE DEF Words
  <2>4. CASE own = Posix
    <3> DEFINE w == <<"posix">>
    <3>1. own = RunAs \o w
      BY <2>4 DEF Posix
    <3>2. w \in Seq(Words) /\ Len(w) = 1
      BY <2>2
    <3> HIDE DEF w
    <3>3. own \in Seq(Words)
      BY <2>1, <3>1, <3>2, JoinedWord
    <3>4. own # <<>>
      BY <2>1, <3>1, <3>2, JoinedWord
    <3>5. Len(own) = Len(RunAs) + 1
      BY <2>1, <3>1, <3>2, JoinedWord
    <3> QED BY <2>1, <3>3, <3>4, <3>5
  <2>5. CASE own = Windows
    <3> DEFINE w == <<"windows">>
    <3>1. own = RunAs \o w
      BY <2>5 DEF Windows
    <3>2. w \in Seq(Words) /\ Len(w) = 1
      BY <2>3
    <3> HIDE DEF w
    <3>3. own \in Seq(Words)
      BY <2>1, <3>1, <3>2, JoinedWord
    <3>4. own # <<>>
      BY <2>1, <3>1, <3>2, JoinedWord
    <3>5. Len(own) = Len(RunAs) + 1
      BY <2>1, <3>1, <3>2, JoinedWord
    <3> QED BY <2>1, <3>3, <3>4, <3>5
  <2> QED BY <2>4, <2>5
<1>2. Len(path) = 3 /\ Front(path) = own
  <2> DEFINE w == <<"user">>
  <2>1. w \in Seq(Words) /\ Len(w) = 1 /\ path = own \o w
    OBVIOUS
  <2> HIDE DEF Words, w
  <2>2. own \in Seq(Words) /\ own # <<>>
    BY <1>1
  <2>3. Len(path) = Len(own) + 1
    BY <2>1, <2>2, JoinedWord
  <2>4. Front(path) = own
    BY <2>1, <2>2, JoinedWord, Zenon
  <2> QED BY <1>1, <2>3, <2>4
<1>4. JobSchema.required =
        Flat({"jobId", "logGroupName", "schemaVersion"})
          \union Below(RunAs, {"runAs"})
          \union Below(Posix, {"user", "group"})
          \union Below(Windows, {"user", "passwordArn"})
          \union Below(<<"jobAttachmentSettings">>, {"s3BucketName", "rootPrefix"})
          \union Below(Mapping, {"sourcePathFormat", "sourcePath",
                                 "destinationPath"})
  BY DEF JobSchema, Schema
<1>5. path \in Below(Posix, {"user", "group"}) \union
              Below(Windows, {"user", "passwordArn"})
  BY DEF Below
<1> QED BY <1>2, <1>4, <1>5

\* Of a job that was accepted the user is who the job names, no mark of none.
LEMMA JobUserNamed ==
  ASSUME NEW d \in Shapes["job"], ValidObject(d, JobSchema), NEW h \in Hosts,
         NEW u, u = JobUser(d, h), u # NoUser
  PROVE  IF u = AgentUser THEN d[RunAs \o <<"runAs">>] = "WORKER_AGENT_USER"
         ELSE u = d[(IF h = "nt" THEN Windows ELSE Posix) \o <<"user">>]
<1>1. ASSUME NEW own \in {Posix, Windows}, own \in DOMAIN d
      PROVE  d[own \o <<"user">>] # AgentUser
  <2> DEFINE path == own \o <<"user">>
  <2>1. Len(path) = 3 /\ Front(path) = own /\ path \in JobSchema.required
    BY UserPaths
  <2>2. d[own] # "not an object"
    BY <1>1, JobEntitiesAssumption
  <2> HIDE DEF path
  <2>3. Within(d, path)
    BY <1>1, <2>1, <2>2 DEF Within
  <2>4. path \in DOMAIN d
    BY <2>1, <2>3 DEF ValidObject
  <2> QED BY <1>1, <2>4, JobEntitiesAssumption DEF path
<1>2. CASE h = "posix" /\ Posix \in DOMAIN d
          /\ d[RunAs \o <<"runAs">>] # "WORKER_AGENT_USER"
  <2>1. u = d[Posix \o <<"user">>]
    BY <1>2 DEF JobUser
  <2>2. u # AgentUser
    BY <1>1, <1>2, <2>1
  <2> QED BY <1>2, <2>1, <2>2
<1>3. CASE h = "nt" /\ Windows \in DOMAIN d
          /\ d[RunAs \o <<"runAs">>] # "WORKER_AGENT_USER"
  <2>1. u = d[Windows \o <<"user">>]
    BY <1>3 DEF JobUser
  <2>2. u # AgentUser
    BY <1>1, <1>3, <2>1
  <2> QED BY <1>3, <2>1, <2>2
<1>4. CASE d[RunAs \o <<"runAs">>] = "WORKER_AGENT_USER"
  BY <1>4 DEF JobUser
<1> QED BY <1>2, <1>3, <1>4 DEF JobUser

(***************************************************************************)
(* The invariant.                                                          *)
(***************************************************************************)
LEMMA InitIInv == Init => IInv
<1> SUFFICES ASSUME Init PROVE IInv
  OBVIOUS
<1>1. TypeOK
  <2>1. left = SubSeq(Queue, Len(Queue) + 1, Len(Queue)) /\ Len(Queue) \in Nat
    BY QueueType, SubSeqEmpty DEF Init
  <2>2. \A t \in EntityTypes : records[t] = NewRecord
    BY DEF Init
  <2>3. NewRecord.data = None /\ NewRecord.error = FALSE
    BY DEF NewRecord
  <2>4. batch \in 1 .. Batches + 1
    BY BatchesType DEF Init
  <2>5. \E n \in 0 .. Len(Queue) : left = SubSeq(Queue, n + 1, Len(Queue))
    BY <2>1
  <2>6. \A t \in EntityTypes : records[t].error \in BOOLEAN /\ records[t].data = None
    BY <2>2, <2>3
  <2>7. phase \in Phases /\ fate = None /\ cache = <<>>
    BY DEF Init, Phases
  <2> QED BY <2>4, <2>5, <2>6, <2>7 DEF TypeOK
<1>2. RecordsShape
  BY DEF Init, RecordsShape, NewRecord
<1>3. HostOK
  BY DEF Init, HostOK
<1>4. DOMAIN cache = {} /\ DOMAIN failure = {}
  BY DEF Init
<1>5. IsFiniteSet({})
  BY FS_EmptySet
<1>6. CacheOK(cache)
  BY <1>4, <1>5 DEF CacheOK, Init
<1>7. Remembered
  BY <1>4 DEF Remembered, FailuresIn, Init
<1>8. LogonsKept
  <2>1. LogonsOf(zero, cache) = {}
    BY <1>4 DEF LogonsOf
  <2> QED BY <2>1, FS_EmptySet DEF LogonsKept, Init
<1>9. RunsAsConfigured /\ FailureWaits
  BY DEF RunsAsConfigured, FailureWaits, Init
<1> QED BY <1>1, <1>2, <1>3, <1>6, <1>7, <1>8, <1>9 DEF IInv

\* What the Session's thread leaves alone.
LEMMA ThreadKeepsResolver ==
  ASSUME IInv, threadFrame
  PROVE  /\ HostOK' /\ CacheOK(cache)' /\ LogonsKept' /\ FailureWaits'
         /\ phase # "over" => Remembered'
         /\ \A k \in DOMAIN cache' : cache'[k] \in Entries
<1>1. HostOK' /\ CacheOK(cache)' /\ LogonsKept' /\ FailureWaits'
  BY DEF IInv, threadFrame, hostVars, resolverVars, HostOK, LogonsKept, FailureWaits,
         LogonsOf, CacheOK
<1>2. phase # "over" => Remembered'
  BY DEF IInv, threadFrame, resolverVars, Remembered, FailuresIn
<1>3. \A k \in DOMAIN cache' : cache'[k] \in Entries
  BY DEF IInv, threadFrame, resolverVars, CacheOK
<1> QED BY <1>1, <1>2, <1>3

LEMMA UserKept ==
  ASSUME IInv, UNCHANGED <<hostVars, user, sent>>
  PROVE  RunsAsConfigured'
  BY DEF IInv, RunsAsConfigured, hostVars

\* TypeOK of the records, of the job as of the other entities.
RecordOK(t, r, o) ==
  /\ r.error \in BOOLEAN
  /\ r.data # None =>
       IF t = "job" THEN r.data \in {Kept(d, o) : d \in Shapes[t]}
                    ELSE r.data \in Shapes[t]

LEMMA TypeParts ==
  TypeOK <=> /\ phase \in Phases
             /\ batch \in 1 .. Batches + 1
             /\ \A t \in EntityTypes : RecordOK(t, records[t], override)
             /\ \E n \in 0 .. Len(Queue) : left = SubSeq(Queue, n + 1, Len(Queue))
             /\ fate \in {None, "started", "FAILED", "died"}
             /\ \A k \in DOMAIN cache : cache[k] \in Entries
  BY DEF TypeOK, RecordOK

LEMMA TypeFromParts ==
  ASSUME phase' \in Phases, batch' \in 1 .. Batches + 1,
         \A t \in EntityTypes : RecordOK(t, records'[t], override'),
         \E n \in 0 .. Len(Queue) : left' = SubSeq(Queue, n + 1, Len(Queue)),
         fate' \in {None, "started", "FAILED", "died"},
         \A k \in DOMAIN cache' : cache'[k] \in Entries
  PROVE  TypeOK'
  BY DEF TypeOK, RecordOK

LEMMA RecordsCached ==
  ASSUME TypeOK, RecordsShape, override' = override,
         NEW answers, DOMAIN answers \subseteq EntityTypes \ {"job"},
         \A t \in DOMAIN answers : answers[t] \in Answers(t) \union {NoAnswer},
         records' = Cache(answers)
  PROVE  /\ RecordsShape'
         /\ \A t \in EntityTypes : RecordOK(t, records'[t], override')
<1>1. /\ RecordsShape'
      /\ records'["job"] = records["job"]
      /\ \A t \in EntityTypes \ {"job"} :
           /\ records'[t].error \in BOOLEAN
           /\ records'[t].data # None => records'[t].data \in Shapes[t]
  BY CacheKeepsTypes, Zenon
<1>2. RecordOK("job", records["job"], override)
  BY TypeParts DEF EntityTypes
<1>3. \A t \in EntityTypes : RecordOK(t, records'[t], override')
  BY <1>1, <1>2 DEF RecordOK
<1> QED BY <1>1, <1>3

LEMMA WarmBatchIInv ==
  ASSUME IInv, WarmBatch
  PROVE  IInv'
<1>1. /\ phase = "warm" /\ batch <= Batches /\ threadFrame
      /\ UNCHANGED <<phase, left, fate, user, sent>>
  BY DEF WarmBatch, sessionFrame
<1>2. PICK some \in SUBSET Batch(batch) :
         /\ \E answers \in AnswersTo(some) : records' = Cache(answers)
         /\ batch' \in {batch + 1, Batches + 1}
  BY DEF WarmBatch
<1>3. PICK answers \in AnswersTo(some) : records' = Cache(answers)
  BY <1>2
<1>4. /\ DOMAIN answers = some
      /\ \A t \in some : answers[t] \in Answers(t)
  BY <1>3 DEF AnswersTo
<1>5. DOMAIN answers \subseteq EntityTypes \ {"job"}
  BY <1>4, BatchTypes
<1>6. UNCHANGED hostVars
  BY <1>1 DEF threadFrame
<1>7. /\ RecordsShape'
      /\ \A t \in EntityTypes : RecordOK(t, records'[t], override')
  <2>1. TypeOK /\ RecordsShape /\ override' = override
    BY <1>6 DEF IInv, hostVars
  <2>2. \A t \in DOMAIN answers : answers[t] \in Answers(t) \union {NoAnswer}
    BY <1>4
  <2> QED BY <1>3, <1>5, <2>1, <2>2, RecordsCached
<1>8. batch' \in 1 .. Batches + 1
  <2>1. batch \in 1 .. Batches + 1
    BY DEF IInv, TypeOK
  <2> QED BY <1>1, <1>2, <2>1, BatchesType
<1>9. /\ HostOK' /\ CacheOK(cache)' /\ LogonsKept' /\ FailureWaits' /\ Remembered'
      /\ \A k \in DOMAIN cache' : cache'[k] \in Entries
  BY <1>1, ThreadKeepsResolver
<1>10. TypeOK'
  <2>1. /\ phase' \in Phases
        /\ \E n \in 0 .. Len(Queue) : left' = SubSeq(Queue, n + 1, Len(Queue))
        /\ fate' \in {None, "started", "FAILED", "died"}
    BY <1>1 DEF IInv, TypeOK
  <2> QED BY <1>7, <1>8, <1>9, <2>1, TypeFromParts
<1>11. RunsAsConfigured'
  BY <1>1, <1>6, UserKept
<1> QED BY <1>7, <1>9, <1>10, <1>11 DEF IInv

LEMMA WarmedIInv ==
  ASSUME IInv, Warmed
  PROVE  IInv'
<1>1. /\ phase = "warm" /\ phase' = "run" /\ threadFrame
      /\ UNCHANGED <<records, batch, left, fate, user, sent>>
  BY DEF Warmed, sessionFrame
<1>2. UNCHANGED hostVars
  BY <1>1 DEF threadFrame
<1>3. /\ HostOK' /\ CacheOK(cache)' /\ LogonsKept' /\ FailureWaits' /\ Remembered'
      /\ \A k \in DOMAIN cache' : cache'[k] \in Entries
  BY <1>1, ThreadKeepsResolver
<1>4. TypeOK'
  BY <1>1, <1>2, <1>3 DEF IInv, TypeOK, Phases, hostVars
<1>5. RecordsShape'
  BY <1>1 DEF IInv, RecordsShape
<1>6. RunsAsConfigured'
  BY <1>1, <1>2, UserKept
<1> QED BY <1>3, <1>4, <1>5, <1>6 DEF IInv

LEMMA DequeueIInv ==
  ASSUME IInv, Dequeue
  PROVE  IInv'
<1> DEFINE kind == Head(left)
           type == Entity(kind)
<1>1. /\ phase = "run" /\ left # <<>> /\ threadFrame
      /\ UNCHANGED <<batch, user, sent>>
  BY DEF Dequeue, sessionFrame
<1>2. PICK answer \in Answers(type) \union {NoAnswer} :
         /\ Request(type, answer)
         /\ \/ left' = Tail(left) /\ fate' = "started" /\ UNCHANGED phase
            \/ fate' \in {"FAILED", "died"} /\ phase' = "ended" /\ UNCHANGED left
  BY DEF Dequeue
<1>3. PICK n \in 0 .. Len(Queue) : left = SubSeq(Queue, n + 1, Len(Queue))
  BY DEF IInv, TypeOK
<1>4. /\ kind \in Kinds
      /\ n + 1 \in 0 .. Len(Queue)
      /\ Tail(left) = SubSeq(Queue, n + 2, Len(Queue))
  BY <1>1, <1>3, LeftOfQueue
<1>5. type \in EntityTypes \ {"job"}
  BY <1>4, EntityOfKind
<1> HIDE DEF kind, type
<1>6. UNCHANGED hostVars /\ override' = override
  BY <1>1 DEF threadFrame, hostVars
<1>7. /\ RecordsShape'
      /\ \A t \in EntityTypes : RecordOK(t, records'[t], override')
  <2>1. CASE records' = records
    <3>1. \A t \in EntityTypes : RecordOK(t, records[t], override)
      BY TypeParts DEF IInv
    <3>2. RecordsShape'
      BY <2>1 DEF IInv, RecordsShape
    <3> QED BY <1>6, <2>1, <3>1, <3>2
  <2>2. CASE records' = Cache([t \in {type} |-> answer])
    <3> DEFINE answers == [t \in {type} |-> answer]
    <3>1. /\ DOMAIN answers \subseteq EntityTypes \ {"job"}
          /\ \A t \in DOMAIN answers : answers[t] \in Answers(t) \union {NoAnswer}
      BY <1>2, <1>5
    <3>2. TypeOK /\ RecordsShape
      BY DEF IInv
    <3>3. records' = Cache(answers)
      BY <2>2
    <3> HIDE DEF answers
    <3> QED BY <1>6, <3>1, <3>2, <3>3, RecordsCached
  <2> QED BY <1>2, <2>1, <2>2 DEF Request
<1>8. /\ HostOK' /\ CacheOK(cache)' /\ LogonsKept' /\ FailureWaits'
      /\ phase # "over" => Remembered'
      /\ \A k \in DOMAIN cache' : cache'[k] \in Entries
  BY <1>1, ThreadKeepsResolver
<1>9. TypeOK'
  <2>1. phase' \in Phases /\ fate' \in {None, "started", "FAILED", "died"}
    BY <1>1, <1>2 DEF Phases
  <2>2. batch' \in 1 .. Batches + 1
    BY <1>1 DEF IInv, TypeOK
  <2>3. \E m \in 0 .. Len(Queue) : left' = SubSeq(Queue, m + 1, Len(Queue))
    <3>1. CASE left' = left
      BY <1>3, <3>1
    <3>2. CASE left' = Tail(left)
      <4>1. n + 1 + 1 = n + 2
        BY QueueType
      <4> QED BY <1>4, <3>2, <4>1
    <3> QED BY <1>2, <3>1, <3>2
  <2> QED BY <1>7, <1>8, <2>1, <2>2, <2>3, TypeFromParts
<1>10. RunsAsConfigured'
  BY <1>1, <1>6, UserKept
<1> QED BY <1>1, <1>7, <1>8, <1>9, <1>10 DEF IInv

LEMMA NoRecords ==
  ASSUME records' = [t \in EntityTypes |-> NewRecord]
  PROVE  /\ RecordsShape'
         /\ \A t \in EntityTypes : RecordOK(t, records'[t], override')
<1>1. NewRecord.data = None /\ NewRecord.error = FALSE
  BY DEF NewRecord
<1>2. RecordsShape'
  BY <1>1 DEF RecordsShape, NewRecord
<1>3. \A t \in EntityTypes : RecordOK(t, records'[t], override')
  BY <1>1 DEF RecordOK
<1> QED BY <1>2, <1>3

LEMMA FinishIInv ==
  ASSUME IInv, Finish
  PROVE  IInv'
<1>1. /\ phase \in {"ended", "run"} /\ phase' = "idle" /\ threadFrame
      /\ records' = [t \in EntityTypes |-> NewRecord]
      /\ left' = <<>> /\ batch' = 1 /\ user' = NoUser /\ fate' = None
  BY DEF Finish
<1>2. /\ RecordsShape'
      /\ \A t \in EntityTypes : RecordOK(t, records'[t], override')
  BY <1>1, NoRecords
<1>3. /\ HostOK' /\ CacheOK(cache)' /\ LogonsKept' /\ FailureWaits' /\ Remembered'
      /\ \A k \in DOMAIN cache' : cache'[k] \in Entries
  BY <1>1, ThreadKeepsResolver
<1>4. TypeOK'
  <2>1. \E n \in 0 .. Len(Queue) : left' = SubSeq(Queue, n + 1, Len(Queue))
    <3>1. SubSeq(Queue, Len(Queue) + 1, Len(Queue)) = <<>> /\ Len(Queue) \in Nat
      BY QueueType, SubSeqEmpty
    <3> QED BY <1>1, <3>1
  <2>2. phase' \in Phases /\ batch' \in 1 .. Batches + 1
    BY <1>1, BatchesType DEF Phases
  <2> QED BY <1>1, <1>2, <1>3, <2>1, <2>2, TypeFromParts
<1>5. RunsAsConfigured'
  BY <1>1 DEF RunsAsConfigured
<1> QED BY <1>2, <1>3, <1>4, <1>5 DEF IInv

\* What the main loop leaves alone.
LEMMA SchedulerKeepsSession ==
  ASSUME IInv, schedulerFrame, phase' \in Phases, CacheOK(cache)'
  PROVE  TypeOK' /\ RecordsShape' /\ HostOK' /\ RunsAsConfigured'
<1>1. HostOK' /\ RecordsShape'
  BY DEF IInv, schedulerFrame, hostVars, HostOK, RecordsShape
<1>2. \A k \in DOMAIN cache' : cache'[k] \in Entries
  BY DEF CacheOK
<1>3. TypeOK'
  BY <1>2 DEF IInv, schedulerFrame, hostVars, TypeOK
<1>4. RunsAsConfigured'
  BY UserKept DEF schedulerFrame
<1> QED BY <1>1, <1>3, <1>4

LEMMA PruneIInv ==
  ASSUME IInv, Prune
  PROVE  IInv'
<1> DEFINE p == PruneCache(zero, cache)
<1>1. /\ cache' = p /\ fetch' = None /\ schedulerFrame
      /\ phase = "idle" /\ phase' = "idle"
      /\ UNCHANGED <<logons, failure, zero>>
  BY DEF Prune, schedulerFrame, hostVars
<1>2. /\ CacheOK(p)
      /\ LogonsOf(zero, p) = LogonsOf(zero, cache)
      /\ FailuresIn(failure, p)
  BY <1>1, PruneOK DEF IInv, HostOK, Remembered
<1> HIDE DEF p
<1>3. CacheOK(cache)'
  BY <1>1, <1>2 DEF CacheOK
<1>4. Remembered' /\ LogonsKept' /\ FailureWaits'
  BY <1>1, <1>2 DEF IInv, Remembered, FailuresIn, LogonsKept, LogonsOf, FailureWaits
<1>5. TypeOK' /\ RecordsShape' /\ HostOK' /\ RunsAsConfigured'
  BY <1>1, <1>3, SchedulerKeepsSession DEF Phases
<1> QED BY <1>3, <1>4, <1>5 DEF IInv

LEMMA TimePassesIInv ==
  ASSUME IInv, TimePasses
  PROVE  IInv'
<1> DEFINE a == Aged(cache)
           g == [k \in DOMAIN failure |->
                   [failure[k] EXCEPT !.age = Older(@, RetryAfter)]]
<1>1. /\ cache' = a /\ failure' = g /\ fetch' = None /\ schedulerFrame
      /\ phase = "idle" /\ phase' = "idle"
      /\ UNCHANGED <<logons, zero>>
  BY DEF TimePasses, schedulerFrame, hostVars
<1>2. /\ CacheOK(cache) /\ failure \in [DOMAIN failure -> FailuresType]
      /\ FailuresIn(failure, cache) /\ zero \in BOOLEAN
  BY <1>1 DEF IInv, Remembered, HostOK
<1>3. /\ CacheOK(a)
      /\ LogonsOf(zero, a) = LogonsOf(zero, cache)
      /\ g \in [DOMAIN g -> FailuresType]
      /\ FailuresIn(g, a)
  BY <1>2, AgedOK
<1> HIDE DEF a, g
<1>4. CacheOK(cache)'
  BY <1>1, <1>3 DEF CacheOK
<1>5. Remembered' /\ LogonsKept' /\ FailureWaits'
  BY <1>1, <1>3 DEF IInv, Remembered, FailuresIn, LogonsKept, LogonsOf, FailureWaits
<1>6. TypeOK' /\ RecordsShape' /\ HostOK' /\ RunsAsConfigured'
  BY <1>1, <1>4, SchedulerKeepsSession DEF Phases
<1> QED BY <1>4, <1>5, <1>6 DEF IInv

LEMMA ClearIInv ==
  ASSUME IInv, Clear
  PROVE  IInv'
<1>1. /\ cache' = <<>> /\ fetch' = None /\ schedulerFrame
      /\ phase' = "over" /\ UNCHANGED <<failure, zero>>
      /\ logons' = logons - Cardinality(LogonsOf(zero, cache))
  BY DEF Clear, schedulerFrame, hostVars
<1>2. DOMAIN cache' = {}
  BY <1>1
<1>3. CacheOK(cache)'
  <2>1. IsFiniteSet(DOMAIN cache')
    BY <1>2, FS_EmptySet
  <2> QED BY <1>1, <1>2, <2>1 DEF CacheOK
<1>4. LogonsKept'
  <2>1. IsFiniteSet(LogonsOf(zero, cache))
    <3>1. LogonsOf(zero, cache) \subseteq DOMAIN cache /\ IsFiniteSet(DOMAIN cache)
      BY DEF LogonsOf, IInv, CacheOK
    <3> QED BY <3>1, FS_Subset
  <2>2. Cardinality(LogonsOf(zero, cache)) \in Nat
    BY <2>1, FS_CardinalityType
  <2>3. logons = Cardinality(LogonsOf(zero, cache))
    BY DEF IInv, LogonsKept
  <2>4. LogonsOf(zero', cache') = {}
    BY <1>2 DEF LogonsOf
  <2>5. Cardinality({}) = 0
    BY FS_EmptySet
  <2> QED BY <1>1, <2>2, <2>3, <2>4, <2>5 DEF LogonsKept
<1>5. Remembered' /\ FailureWaits'
  BY <1>1 DEF IInv, Remembered, FailureWaits
<1>6. TypeOK' /\ RecordsShape' /\ HostOK' /\ RunsAsConfigured'
  BY <1>1, <1>3, SchedulerKeepsSession DEF Phases
<1> QED BY <1>3, <1>4, <1>5, <1>6 DEF IInv

\* The cache after a Session was created, or was not.
LEMMA ResolveOK ==
  ASSUME IInv, zero' = zero, phase = "idle", phase' # "over",
         NEW k, NEW secret \in Secrets, Resolve(k, secret)
  PROVE  CacheOK(cache)' /\ Remembered' /\ LogonsKept' /\ FailureWaits'
<1> DEFINE c == PruneCache(zero, cache)
           fetches == ~ Cached(c, k) /\ ShouldFetch(c, k)
           g == IF ~ fetches THEN failure
                ELSE [key \in DOMAIN failure \union {k} |->
                        IF key = k THEN [why |-> secret, age |-> 0] ELSE failure[key]]
           r == AfterRequest(c, k, secret)
<1>1. /\ cache' = r /\ failure' = g
      /\ logons' = IF zero /\ fetches /\ secret = "good" THEN logons + 1 ELSE logons
      /\ fetch' = IF fetches /\ k \in DOMAIN failure THEN failure[k] ELSE None
  BY DEF Resolve
<1>2. /\ CacheOK(c)
      /\ LogonsOf(zero, c) = LogonsOf(zero, cache)
      /\ failure \in [DOMAIN failure -> FailuresType]
      /\ FailuresIn(failure, c)
      /\ zero \in BOOLEAN
  BY PruneOK DEF IInv, HostOK, Remembered
<1>3. /\ CacheOK(r)
      /\ LogonsOf(zero, r) = LogonsOf(zero, c) \union
           (IF zero /\ fetches /\ secret = "good" THEN {k} ELSE {})
      /\ fetches => k \notin LogonsOf(zero, c)
      /\ g \in [DOMAIN g -> FailuresType]
      /\ FailuresIn(g, r)
      /\ fetches /\ k \in DOMAIN failure /\ failure[k].why = "refused" =>
           failure[k].age = RetryAfter
  <2> HIDE DEF c
  <2>1. /\ fetches = (~ Cached(c, k) /\ ShouldFetch(c, k))
        /\ r = AfterRequest(c, k, secret)
        /\ g = IF ~ fetches THEN failure
               ELSE [key \in DOMAIN failure \union {k} |->
                       IF key = k THEN [why |-> secret, age |-> 0] ELSE failure[key]]
    OBVIOUS
  <2> HIDE DEF fetches, g, r
  <2> QED BY <1>2, <2>1, RequestOK
<1> HIDE DEF c, fetches, g, r
<1>4. CacheOK(cache)'
  BY <1>1, <1>3 DEF CacheOK
<1>5. Remembered'
  BY <1>1, <1>3 DEF Remembered, FailuresIn
<1>6. FailureWaits'
  BY <1>1, <1>3 DEF FailureWaits
<1>7. LogonsKept'
  <2>1. IsFiniteSet(LogonsOf(zero, cache))
    <3>1. LogonsOf(zero, cache) \subseteq DOMAIN cache /\ IsFiniteSet(DOMAIN cache)
      BY DEF LogonsOf, IInv, CacheOK
    <3> QED BY <3>1, FS_Subset
  <2>2. logons = Cardinality(LogonsOf(zero, cache))
    BY DEF IInv, LogonsKept
  <2>3. CASE zero /\ fetches /\ secret = "good"
    <3>1. LogonsOf(zero, cache') = LogonsOf(zero, cache) \union {k}
      BY <1>1, <1>2, <1>3, <2>3
    <3>2. k \notin LogonsOf(zero, cache)
      BY <1>2, <1>3, <2>3
    <3>3. Cardinality(LogonsOf(zero, cache) \union {k})
            = Cardinality(LogonsOf(zero, cache)) + 1
      BY <2>1, <3>2, FS_AddElement
    <3> QED BY <1>1, <2>2, <2>3, <3>1, <3>3 DEF LogonsKept
  <2>4. CASE ~ (zero /\ fetches /\ secret = "good")
    <3>1. LogonsOf(zero, cache') = LogonsOf(zero, cache)
      BY <1>1, <1>2, <1>3, <2>4
    <3> QED BY <1>1, <2>2, <2>4, <3>1 DEF LogonsKept
  <2> QED BY <2>3, <2>4
<1> QED BY <1>4, <1>5, <1>6, <1>7

\* The user of a Session that was created is as its host is configured.
LEMMA UserAsConfigured ==
  ASSUME IInv, NEW raw \in Shapes["job"], NEW d, d = Kept(raw, override),
         JobOutcome(raw, host, override) = "details",
         ~ RefusesAgentUser(d, host, override),
         UserForSession(d, host, override) # NoUser,
         user' = UserForSession(d, host, override), sent' = raw,
         UNCHANGED hostVars
  PROVE  RunsAsConfigured'
<1>1. host \in Hosts /\ override \in {"none", "agent", "user"}
  BY DEF IInv, HostOK, Overrides
<1>2. host' = host /\ override' = override
  BY DEF hostVars
<1>3. CASE override = "agent"
  BY <1>2, <1>3 DEF RunsAsConfigured, UserForSession
<1>4. CASE override = "user"
  BY <1>2, <1>4 DEF RunsAsConfigured, UserForSession
<1>5. CASE override = "none"
  <2>1. d = raw
    BY <1>5 DEF Kept, Overridden
  <2>2. user' = JobUser(raw, host) /\ JobUser(raw, host) # NoUser
    BY <1>5, <2>1 DEF UserForSession
  <2>3. ValidObject(raw, JobSchema)
    BY DEF JobOutcome, ValidJob
  <2>4. IF user' = AgentUser THEN raw[RunAs \o <<"runAs">>] = "WORKER_AGENT_USER"
        ELSE user' = raw[(IF host = "nt" THEN Windows ELSE Posix) \o <<"user">>]
    BY <1>1, <2>2, <2>3, JobUserNamed
  <2>5. user' = AgentUser => host = "posix"
    BY <1>1, <1>5, <2>1, <2>2 DEF RefusesAgentUser, Hosts
  <2> QED BY <1>2, <1>5, <2>4, <2>5 DEF RunsAsConfigured
<1> QED BY <1>1, <1>3, <1>4, <1>5

LEMMA CreateSessionIInv ==
  ASSUME IInv, NEW answer \in Answers("job"), NEW secret \in Secrets,
         CreateSession(answer, secret)
  PROVE  IInv'
<1> DEFINE d == Kept(answer.data, override)
           details == /\ answer.what = "data"
                      /\ JobOutcome(answer.data, host, override) = "details"
<1>1. phase = "idle" /\ UNCHANGED <<hostVars, fate>>
  BY DEF CreateSession
<1>2. Resolve(KeyOf(d), secret) \/ NoResolve
  BY DEF CreateSession
<1>3. \/ SessionFails \/ LoopEnds
      \/ /\ details /\ ~ RefusesAgentUser(d, host, override)
         /\ UserForSession(d, host, override) # NoUser
         /\ SessionStarts(answer.data, d)
  BY DEF CreateSession
<1> HIDE DEF d
<1>4. phase' \in {"idle", "drain", "warm"}
  BY <1>1, <1>3 DEF SessionFails, LoopEnds, SessionStarts
<1>5. zero' = zero /\ host' = host /\ override' = override
  BY <1>1 DEF hostVars
<1>6. CacheOK(cache)' /\ Remembered' /\ LogonsKept' /\ FailureWaits'
  <2>1. CASE Resolve(KeyOf(d), secret)
    BY <1>1, <1>4, <1>5, <2>1, ResolveOK
  <2>2. CASE NoResolve
    BY <1>1, <1>4, <1>5, <2>2
       DEF NoResolve, IInv, CacheOK, Remembered, FailuresIn, LogonsKept, LogonsOf,
           FailureWaits
  <2> QED BY <1>2, <2>1, <2>2
<1>7. HostOK'
  BY <1>5 DEF IInv, HostOK
<1>8. \A k \in DOMAIN cache' : cache'[k] \in Entries
  BY <1>6 DEF CacheOK
<1>9. CASE SessionFails \/ LoopEnds
  <2>1. UNCHANGED <<records, batch, left, user, sent, fate>>
    BY <1>1, <1>9 DEF SessionFails, LoopEnds
  <2>2. TypeOK'
    BY <1>4, <1>5, <1>8, <2>1 DEF IInv, TypeOK, Phases
  <2>3. RecordsShape'
    BY <2>1 DEF IInv, RecordsShape
  <2>4. RunsAsConfigured'
    BY <1>1, <2>1, UserKept
  <2> QED BY <1>6, <1>7, <2>2, <2>3, <2>4 DEF IInv
<1>10. CASE /\ details /\ ~ RefusesAgentUser(d, host, override)
            /\ UserForSession(d, host, override) # NoUser
            /\ SessionStarts(answer.data, d)
  <2>1. answer.data \in Shapes["job"]
    <3>1. \/ \E x \in Shapes["job"] : answer = [what |-> "data", data |-> x]
          \/ answer = [what |-> "error", data |-> None]
          \/ answer = [what |-> "too large", data |-> None]
      BY DEF Answers
    <3>2. CASE \E x \in Shapes["job"] : answer = [what |-> "data", data |-> x]
      BY <3>2
    <3>3. answer.what = "data"
      BY <1>10
    <3>5. answer # [what |-> "error", data |-> None]
      BY <3>3
    <3>4. ASSUME answer = [what |-> "too large", data |-> None] PROVE FALSE
      <4>1. answer.what = "too large"
        BY <3>4
      <4> QED BY <3>3, <4>1
    <3> QED BY <3>1, <3>2, <3>4, <3>5
  <2>2. /\ phase' = "warm" /\ batch' = 1 /\ left' = Queue
        /\ user' = UserForSession(d, host, override)
        /\ records' = [records EXCEPT !["job"].data = d]
        /\ sent' = answer.data
    BY <1>10 DEF SessionStarts
  <2>3. d \in {Kept(x, override) : x \in Shapes["job"]}
    BY <2>1 DEF d
  <2>4. /\ RecordsShape'
        /\ \A t \in EntityTypes : RecordOK(t, records'[t], override')
    <3> DEFINE job == [data |-> d, error |-> records["job"].error]
    <3>1. \A t \in EntityTypes : RecordOK(t, records[t], override)
      BY TypeParts DEF IInv
    <3>2. "job" \in EntityTypes
      BY DEF EntityTypes
    <3>3. RecordOK("job", job, override)
      BY <2>3, <3>1, <3>2 DEF RecordOK
    <3>4. records["job"] = [data |-> records["job"].data, error |-> records["job"].error]
      BY <3>2 DEF IInv, RecordsShape
    <3>5. [records["job"] EXCEPT !.data = d] = job
      BY <3>4
    <3> HIDE DEF job
    <3>6. records' = [t \in EntityTypes |-> IF t = "job" THEN job ELSE records[t]]
      BY <2>2, <3>5 DEF IInv, RecordsShape
    <3>7. \A t \in EntityTypes : RecordOK(t, records'[t], override')
      BY <1>5, <3>1, <3>3, <3>6
    <3>8. \A t \in EntityTypes :
            records'[t] = [data |-> records'[t].data, error |-> records'[t].error]
      BY <3>6 DEF IInv, RecordsShape, job
    <3>9. RecordsShape'
      BY <3>6, <3>8 DEF RecordsShape
    <3> QED BY <3>7, <3>9
  <2>5. TypeOK'
    <3>1. \E n \in 0 .. Len(Queue) : left' = SubSeq(Queue, n + 1, Len(Queue))
      <4>1. SubSeq(Queue, 1, Len(Queue)) = Queue
        BY QueueType, SubSeqFull
      <4>2. 0 \in 0 .. Len(Queue) /\ 0 + 1 = 1
        BY QueueType
      <4> QED BY <2>2, <4>1, <4>2
    <3>2. phase' \in Phases /\ batch' \in 1 .. Batches + 1
      BY <2>2, BatchesType DEF Phases
    <3>3. fate' \in {None, "started", "FAILED", "died"}
      BY <1>1 DEF IInv, TypeOK
    <3> QED BY <1>8, <2>4, <3>1, <3>2, <3>3, TypeFromParts
  <2>6. RunsAsConfigured'
    <3>1. JobOutcome(answer.data, host, override) = "details"
      BY <1>10
    <3> QED BY <1>1, <1>10, <2>1, <2>2, <3>1, UserAsConfigured DEF d
  <2> QED BY <1>6, <1>7, <2>4, <2>5, <2>6 DEF IInv
<1> QED BY <1>3, <1>9, <1>10

LEMMA StepIInv ==
  ASSUME IInv, [Next]_vars
  PROVE  IInv'
<1>1. CASE WarmBatch
  BY <1>1, WarmBatchIInv
<1>2. CASE Warmed
  BY <1>2, WarmedIInv
<1>3. CASE Dequeue
  BY <1>3, DequeueIInv
<1>4. CASE Finish
  BY <1>4, FinishIInv
<1>5. ASSUME NEW answer \in Answers("job"), NEW secret \in Secrets,
             CreateSession(answer, secret)
      PROVE  IInv'
  BY <1>5, CreateSessionIInv
<1>6. CASE Prune
  BY <1>6, PruneIInv
<1>7. CASE Clear
  BY <1>7, ClearIInv
<1>8. CASE TimePasses
  BY <1>8, TimePassesIInv
<1>9. CASE UNCHANGED vars
  BY <1>9 DEF vars, hostVars, resolverVars, IInv, TypeOK, RecordsShape, HostOK, CacheOK,
              Remembered, FailuresIn, RunsAsConfigured, LogonsKept, LogonsOf,
              FailureWaits
<1> QED BY <1>1, <1>2, <1>3, <1>4, <1>5, <1>6, <1>7, <1>8, <1>9
        DEF Next, Thread, Scheduler

(***************************************************************************)
(* The theorems.                                                           *)
(***************************************************************************)
LEMMA Invariance == Spec => []IInv
  BY InitIInv, StepIInv, PTL DEF Spec

\* JobEntities.TypeOK, for every queue, batch size and data of the service.
THEOREM TypeCorrect == Spec => []TypeOK
<1>1. IInv => TypeOK
  BY DEF IInv
<1> QED BY <1>1, Invariance, PTL

\* A Session runs as the user the host was configured with, or else as the user
\* of its job, and as the agent only if the job says so and the host is no
\* Windows (_create_new_sessions, _determine_user_for_session, from_boto).
THEOREM UserIsConfigured == Spec => []RunsAsConfigured
<1>1. IInv => RunsAsConfigured
  BY DEF IInv
<1> QED BY <1>1, Invariance, PTL

\* The open logons are those of the cache, so that clear() leaves none open
\* (get_windows_session_user, prune_cache, clear).
THEOREM LogonsAreCached == Spec => []LogonsKept
<1>1. IInv => LogonsKept
  BY DEF IInv
<1> QED BY <1>1, Invariance, PTL

\* No user whose secret was refused is fetched again before RETRY_AFTER is over,
\* also when the entry was pruned in between (should_fetch, prune_cache).
THEOREM RefusedIsNotRetried == Spec => []FailureWaits
<1>1. IInv => FailureWaits
  BY DEF IInv
<1> QED BY <1>1, Invariance, PTL

\* An action that fails or ends its thread for the lack of details has no
\* details that are good: an error of an earlier request does not outweigh
\* data that arrived (JobEntities.request, dequeue, _start_action).
THEOREM FailureIsItsOwn == Spec => FailsForItself
<1> DEFINE type == Entity(Head(left))
           Own == phase = "run" /\ fate' \in {"FAILED", "died"} /\ fate' # fate =>
                    LET t == Entity(Head(left))
                        d == records'[t].data
                    IN d # None => Outcome(t, d, host, override) # "details"
<1>1. ASSUME phase = "run", fate' \in {"FAILED", "died"}, fate' # fate, [Next]_vars
      PROVE  Dequeue
  <2>1. ~ (WarmBatch \/ Warmed \/ Prune \/ Clear \/ TimePasses)
    BY <1>1 DEF WarmBatch, Warmed, Prune, Clear, TimePasses
  <2>2. ~ \E answer \in Answers("job"), secret \in Secrets :
             CreateSession(answer, secret)
    BY <1>1 DEF CreateSession
  <2>3. ~ Finish
    BY <1>1, JobEntitiesAssumption DEF Finish
  <2>4. ~ UNCHANGED vars
    BY <1>1 DEF vars
  <2> QED BY <1>1, <2>1, <2>2, <2>3, <2>4 DEF Next, Thread, Scheduler
<1>2. ASSUME Dequeue, records'[type].data # None,
             Outcome(type, records'[type].data, host, override) = "details"
      PROVE  fate' = "started"
  BY <1>2 DEF Dequeue, Found
<1>3. [Next]_vars => Own
  BY <1>1, <1>2
<1>4. Own => [Own]_vars
  OBVIOUS
<1> QED BY <1>3, PTL DEF Spec, FailsForItself

=================================================================================
