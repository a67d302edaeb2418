------------------------------- MODULE LogStream -------------------------------
(***************************************************************************)
(* A CloudWatchHandler and its CloudWatchLogStreamThread                   *)
(* (log_sync/cloudwatch.py), which the agent's log and every Session's log *)
(* go through: threads that log append to a deque, the stream's thread     *)
(* splits what is too long for one log event, collects batches that        *)
(* PutLogEvents accepts, and uploads them; close() waits for it.  The      *)
(* limit on requests per second is left out: it only delays an upload.     *)
(* A message is the sequence of the widths, in bytes, of its characters.   *)
(***************************************************************************)
EXTENDS Integers, FiniteSets, Sequences, SequencesExt

CONSTANTS
  Loggers,       \* the threads that log
  Messages,      \* the messages that are logged
  Malformed,     \* one that cannot be encoded
  NoticeSize,    \* the size of the notice about the n-th record, if that cannot be
                 \* encoded: it holds the record whole
  MaxEvents,     \* max_events_per_batch
  MaxBytes,      \* max_batch_size_bytes
  MaxEventSize,  \* max_log_event_size
  Padding,       \* PUT_LOG_EVENTS_EVENT_PADDING
  Future, Past, Span,  \* max_future_time_delta, ..past.., ..time_span_in_batch
  Retries,       \* PUT_LOG_EVENTS_ERROR_STOPPED_RETRIES
  MaxNow,        \* bound: the clock
  MaxTicks,      \* bound: changes of the clock
  MaxLogged,     \* bound: records
  None

ASSUME LogStreamAssumption ==
  /\ IsFiniteSet(Loggers)
  /\ {MaxEvents, MaxBytes, Retries} \subseteq Nat \ {0}
  /\ MaxEventSize \in Nat /\ MaxEventSize >= 4          \* asserted by _chunk_string
  /\ MaxEventSize + Padding <= MaxBytes
  /\ {Padding, Future, Past, Span, MaxNow, MaxTicks, MaxLogged} \subseteq Nat
  /\ NoticeSize \in [1..MaxLogged -> Nat \ {0}]
  /\ \A m \in Messages \ {Malformed} : m \in Seq(1..4)

VARIABLES
  now,        \* the host's clock, which may be set
  ticks,      \* how often it changed
  emitting,   \* the record a thread has created and not yet appended, or None
  logged,     \* the records appended so far, with the time each was created
  raw,        \* _raw_event_deque
  parts,      \* _partitioned_event_deque
  pc,         \* where the stream's thread is
  batch,      \* the batch it collects or uploads
  tries,      \* stop_attempts
  handler,    \* "open", "closing", "closed"
  \* history
  stored,     \* what the log stream holds
  settled,    \* records stored, or given up
  afterStop   \* records appended after _stop_event was set

vars == <<now, ticks, emitting, logged, raw, parts, pc, batch, tries, handler, stored,
          settled, afterStop>>

Stopping == handler \in {"closing", "closed"}   \* _stop_event.is_set()

SizeOf(entries) ==
  LET upTo[k \in 0..Len(entries)] ==
        IF k = 0 THEN 0 ELSE upTo[k - 1] + entries[k].size + Padding
  IN upTo[Len(entries)]

(***************************************************************************)
(* CloudWatchHandler.emit                                                  *)
(***************************************************************************)
\* an empty line becomes a space
Padded(m) == IF m = <<>> THEN <<1>> ELSE m

\* A record has its time before the handler's lock is taken: others may overtake it.
Waiting == {t \in Loggers : emitting[t] # None}

Record(t) ==
  /\ handler = "open" /\ emitting[t] = None
  /\ Cardinality(Waiting) + Len(logged) < MaxLogged
  /\ \E m \in Messages :
       emitting' = [emitting EXCEPT ![t] =
                     [ts |-> now, text |-> IF m = Malformed THEN m ELSE Padded(m)]]
  /\ UNCHANGED <<now, ticks, logged, raw, parts, pc, batch, tries, handler, stored,
                 settled, afterStop>>

\* records are numbered as they are appended; the handler may have been closed
\* meanwhile
Emit(t) ==
  /\ emitting[t] # None
  /\ LET r == [n |-> Len(logged) + 1, ts |-> emitting[t].ts, text |-> emitting[t].text] IN
     /\ logged' = Append(logged, r) /\ raw' = Append(raw, r)
     /\ afterStop' = afterStop \union (IF Stopping THEN {r.n} ELSE {})
  /\ emitting' = [emitting EXCEPT ![t] = None]
  /\ UNCHANGED <<now, ticks, parts, pc, batch, tries, handler, stored, settled>>

(***************************************************************************)
(* CloudWatchLogEventPartitioner                                           *)
(***************************************************************************)
\* the texts of records, the offsets at which their characters begin, and
\* their lengths
Texts == {Padded(m) : m \in Messages \ {Malformed}}
Offset(m, k) == LET upTo[j \in 0..k] == IF j = 0 THEN 0 ELSE upTo[j - 1] + m[j]
                IN upTo[k]
Starts == [m \in Texts |-> {Offset(m, k) : k \in 0..(Len(m) - 1)}]
Bytes  == [m \in Texts |-> Offset(m, Len(m))]

\* Mutants: a chunk ends wherever the limit is, or after the character that
\* does not fit.
EndAnywhere(m, start) ==
  IF start + MaxEventSize >= Bytes[m] THEN Bytes[m] ELSE start + MaxEventSize

EndAfter(m, start) ==
  IF start + MaxEventSize >= Bytes[m] THEN Bytes[m]
  ELSE Min({o \in Starts[m] \union {Bytes[m]} : o >= start + MaxEventSize})

\* _chunk_string: a chunk ends before the character that does not fit
ChunkEnd(m, start) ==
  IF start + MaxEventSize >= Bytes[m] THEN Bytes[m]
  ELSE Max({o \in Starts[m] : o <= start + MaxEventSize})

\* the loop of _chunk_string: where each chunk ends the next one starts
Cuts == [m \in Texts |->
  LET cut[k \in 0..Bytes[m]] == IF k = 0 THEN 0 ELSE ChunkEnd(m, cut[k - 1])
  IN cut]
Chunks == [m \in Texts |->
  [k \in 1..Min({j \in DOMAIN Cuts[m] : Cuts[m][j] = Bytes[m]}) |->
     [from |-> Cuts[m][k - 1], to |-> Cuts[m][k]]]]

Part(r, c) == [n |-> r.n, ts |-> r.ts, from |-> c.from, to |-> c.to,
               size |-> c.to - c.from, kind |-> "log"]
Parts(r) == [k \in DOMAIN Chunks[r.text] |-> Part(r, Chunks[r.text][k])]

\* a message the thread writes itself, about record n and with its time; it is
\* never chunked
Notice(n, ts, size) == [n |-> n, ts |-> ts, from |-> 0, to |-> 1, size |-> size,
                        kind |-> "notice"]

\* next(): the records that cannot be encoded leave a notice each, in reverse,
\* before the rest of the record that comes after them
IsBad(r) == r.text = Malformed
BadPrefix == IF \A k \in DOMAIN raw : IsBad(raw[k]) THEN Len(raw)
             ELSE Min({k \in DOMAIN raw : ~ IsBad(raw[k])}) - 1
Notices == Reverse([k \in 1..BadPrefix |->
                     Notice(raw[k].n, raw[k].ts, NoticeSize[raw[k].n])])

NoNext == parts = <<>> /\ BadPrefix = Len(raw)
NextPart == IF parts # <<>> THEN Head(parts) ELSE Head(Parts(raw[BadPrefix + 1]))
PartsLeft == IF parts # <<>> THEN Tail(parts)
             ELSE Notices \o Tail(Parts(raw[BadPrefix + 1]))
RawLeft == IF parts # <<>> THEN raw ELSE SubSeq(raw, BadPrefix + 2, Len(raw))

HasItems == parts # <<>> \/ raw # <<>>

(***************************************************************************)
(* CloudWatchLogEventBatch                                                 *)
(***************************************************************************)
Full(b, e) == \/ Len(b) + 1 > MaxEvents
              \/ SizeOf(b) + e.size + Padding > MaxBytes

Times(b) == {b[k].ts : k \in DOMAIN b}

\* too far in the future, too far from the rest of the batch, or too old
Rejected(b, e) ==
  \/ e.ts > now + Future
  \/ Max(Times(b) \union {e.ts}) - Min(Times(b) \union {e.ts}) > Span
  \/ e.ts + Past < now

\* the notice about a rejected event has 100 characters of it at most
Rejection(e) == Notice(e.n, e.ts, 1)

(***************************************************************************)
(* CloudWatchLogStreamThread                                               *)
(***************************************************************************)
\* Mutant: the thread ends as soon as it is told to.
NotStopped == ~ Stopping

IsRunning == ~ Stopping \/ HasItems

Run ==
  /\ pc = "run"
  /\ pc' = IF IsRunning THEN "collect" ELSE "ended"
  /\ batch' = <<>>
  /\ UNCHANGED <<now, ticks, emitting, logged, raw, parts, tries, handler, stored,
                 settled, afterStop>>

\* Mutants: an event kept for the next batch goes to the end; the batch is not
\* sorted.
KeptLast(e, rest) == Append(rest, e)
Unsorted(b) == b

KeptFirst(e, rest) == <<e>> \o rest
\* sorted(): by time, and the events of one time as they came
Place(b, k) ==
  Cardinality({j \in DOMAIN b : b[j].ts < b[k].ts \/ (b[j].ts = b[k].ts /\ j <= k)})
ByTime(b) == [i \in DOMAIN b |-> b[CHOOSE k \in DOMAIN b : Place(b, k) = i]]

\* _collect_logs, an event at a time
Collect ==
  /\ pc = "collect" /\ ~ NoNext
  /\ raw' = RawLeft
  /\ LET e == NextPart IN
     IF Full(batch, e)
     THEN /\ parts' = KeptFirst(e, PartsLeft)
          /\ batch' = ByTime(batch)
          /\ pc' = IF batch = <<>> THEN "run" ELSE "upload"
     ELSE IF Rejected(batch, e)
     THEN /\ parts' = <<Rejection(e)>> \o PartsLeft
          /\ UNCHANGED <<batch, pc>>
     ELSE /\ parts' = PartsLeft
          /\ batch' = Append(batch, e)
          /\ UNCHANGED pc
  /\ UNCHANGED <<now, ticks, emitting, logged, tries, handler, stored, settled, afterStop>>

\* no more events: IndexError
Collected ==
  /\ pc = "collect" /\ NoNext
  /\ parts' = Notices /\ raw' = <<>>
  /\ batch' = ByTime(batch)
  /\ pc' = IF batch = <<>> THEN "run" ELSE "upload"
  /\ UNCHANGED <<now, ticks, emitting, logged, tries, handler, stored, settled, afterStop>>

\* the records of which nothing is left in the handler
Held(rs, ps) == {rs[k].n : k \in DOMAIN rs} \union {ps[k].n : k \in DOMAIN ps}
Gone == {batch[k].n : k \in DOMAIN batch} \ Held(raw, parts)

\* PutLogEvents takes no event that is too large
Acceptable == \A k \in DOMAIN batch : batch[k].size <= MaxEventSize

\* _upload_logs: put_log_events may fail before or after the service has taken
\* the batch; once the thread is told to stop it gives up after some attempts
Uploaded ==
  /\ pc = "upload" /\ Acceptable
  /\ stored' = stored \o batch
  /\ settled' = settled \union Gone
  /\ pc' = "run" /\ tries' = Retries
  /\ batch' = <<>>
  /\ UNCHANGED <<now, ticks, emitting, logged, raw, parts, handler, afterStop>>

\* Mutant: the attempts are never counted.
TryForEver == tries

TriesLeft == IF Stopping THEN tries - 1 ELSE tries

UploadFails ==
  /\ pc = "upload"
  /\ \/ UNCHANGED stored
     \/ /\ Acceptable /\ stored' = stored \o batch
        /\ \A k \in DOMAIN batch : batch[k] \notin ToSet(stored)
  /\ IF TriesLeft = 0
     THEN /\ pc' = "run" /\ tries' = Retries
          /\ settled' = settled \union Gone /\ batch' = <<>>
     ELSE tries' = TriesLeft /\ UNCHANGED <<pc, settled, batch>>
  /\ UNCHANGED <<now, ticks, emitting, logged, raw, parts, handler, afterStop>>

(***************************************************************************)
(* The end of log_session or stream_cloudwatch_logs                        *)
(***************************************************************************)
\* the handler is removed from its loggers and told to close
Close ==
  /\ handler = "open" /\ handler' = "closing"
  /\ UNCHANGED <<now, ticks, emitting, logged, raw, parts, pc, batch, tries, stored,
                 settled, afterStop>>

Join ==
  /\ handler = "closing" /\ pc = "ended"
  /\ handler' = "closed"
  /\ UNCHANGED <<now, ticks, emitting, logged, raw, parts, pc, batch, tries, stored,
                 settled, afterStop>>

\* time passes, or the clock is set back
Clock ==
  /\ ticks < MaxTicks /\ ticks' = ticks + 1
  /\ now' \in (0..MaxNow) \ {now}
  /\ UNCHANGED <<emitting, logged, raw, parts, pc, batch, tries, handler, stored,
                 settled, afterStop>>

Init ==
  /\ now \in 0..MaxNow /\ ticks = 0
  /\ emitting = [t \in Loggers |-> None] /\ logged = <<>> /\ raw = <<>> /\ parts = <<>>
  /\ pc = "run" /\ batch = <<>> /\ tries = Retries /\ handler = "open"
  /\ stored = <<>> /\ settled = {} /\ afterStop = {}

Thread == Run \/ Collect \/ Collected \/ Uploaded \/ UploadFails

Next == (\E t \in Loggers : Record(t) \/ Emit(t)) \/ Thread \/ Close \/ Join \/ Clock

Spec == Init /\ [][Next]_vars

\* The thread runs; no upload need ever succeed.
FairSpec == Spec /\ WF_vars(Run \/ Collect \/ Collected \/ UploadFails \/ Join)

(***************************************************************************)
(* Properties.                                                             *)
(***************************************************************************)
Contents == [ts : 0..MaxNow, text : Texts \union {Malformed}]
PartSet == [n : 1..MaxLogged, ts : 0..MaxNow, from : Nat, to : Nat,
            size : Nat \ {0}, kind : {"log", "notice"}]

\* A chunk of a record is no larger than a log event may be.
TypeOK ==
  /\ now \in 0..MaxNow /\ ticks \in 0..MaxTicks
  /\ emitting \in [Loggers -> Contents \union {None}]
  /\ Cardinality(Waiting) + Len(logged) <= MaxLogged
  /\ ToSet(raw) \subseteq ToSet(logged)
  /\ LET all == ToSet(parts) \union ToSet(batch) \union ToSet(stored) IN
     all \subseteq PartSet /\ \A p \in all : p.kind = "log" => p.size <= MaxEventSize
  /\ pc \in {"run", "collect", "upload", "ended"}
  /\ tries \in 1..Retries
  /\ handler \in {"open", "closing", "closed"}
  /\ settled \union afterStop \subseteq 1..MaxLogged

\* PutLogEvents accepts every batch: its number of events, its size with the
\* padding, its time span, and the order of time within it.  (The size of one
\* event is TypeOK's, but for the notice about a record that cannot be encoded.)
BatchAccepted ==
  pc = "upload" => /\ Len(batch) \in 1..MaxEvents
                   /\ SizeOf(batch) <= MaxBytes
                   /\ Max(Times(batch)) - Min(Times(batch)) <= Span
                   /\ \A i, j \in DOMAIN batch : i < j => batch[i].ts <= batch[j].ts

\* No chunk cuts a character in two.
CharactersWhole ==
  \A p \in ToSet(stored) : p.kind = "log" =>
    LET m == logged[p.n].text IN {p.from, p.to} \subseteq Starts[m] \union {Bytes[m]}

First(p) == Min({k \in DOMAIN stored : stored[k] = p})

\* The log stream holds what it holds in the order the handler was given it: a
\* record before the later ones that are not older, so each thread's records as
\* it logged them unless the clock went back, and the chunks of a record one
\* after the other, whatever was kept back for a later batch or tried again.
\* The records of two threads need not be in the order they were created: the
\* older one may be appended, and uploaded, after the other.
OrderKept ==
  \A p, q \in {e \in ToSet(stored) : e.kind = "log"} :
    /\ p.n < q.n /\ p.ts <= q.ts => First(p) < First(q)
    /\ p.n = q.n /\ p.from < q.from => First(p) < First(q)

\* The handler keeps the promise of a log channel.
Accepted == {raw[k].n : k \in DOMAIN raw} \union {parts[k].n : k \in DOMAIN parts}
            \union {batch[k].n : k \in DOMAIN batch}
Channel == INSTANCE LogChannel WITH
             Events <- 1..MaxLogged,
             owed <- Accepted \ (settled \union afterStop),
             settled <- settled,
             late <- afterStop \ settled,
             closed <- handler = "closed"
ChannelSpec == Channel!Spec

\* A notice that the thread writes meets the limits it was written for.
NoticesAdhere ==
  pc = "collect" /\ parts # <<>> /\ Head(parts).kind = "notice" =>
    ~ Rejected(batch, Head(parts)) /\ ~ Full(<<>>, Head(parts))

\* close() returns, even if no upload succeeds any more - unless the thread is
\* busy with a notice that is rejected as the record it is about was, or with
\* the notice about a record that cannot be encoded and that no batch can hold.
CloseReturns == (handler = "closing") ~> (handler = "closed" \/ ~ NoticesAdhere)
================================================================================
