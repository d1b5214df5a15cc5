-------------------------------- MODULE Telemetry --------------------------------
(***************************************************************************)
(* The usage history of one scope in one tier of rollups: the collector    *)
(* that measures (collect-runner-telemetry.mjs, telemetry-metrics.mjs) and *)
(* stores (telemetry-store.mjs), and what a reader of the gateway finds    *)
(* (telemetry-store.ts).                                                   *)
(*                                                                         *)
(* Time is a wall clock of ticks that can be set back.  A sample accounts  *)
(* for the ticks since the one before; a bucket is the set of the ticks it *)
(* accounts for, its sums and distributions being functions of them, and   *)
(* its weight, which counts a tick as often as it was added.  A bucket of  *)
(* more weight than it lasts is ignored by the collector and the reader.   *)
(* The buckets of the past are rows of append-only files, of which the     *)
(* reader takes the last one of each bucket; the open one is in a          *)
(* checkpoint (pending.json).  Each write may fail or be the last before a *)
(* crash.  Retention and the limits on sizes are left out.                 *)
(***************************************************************************)
EXTENDS Integers, FiniteSets

CONSTANTS
  Width,         \* ticks of a bucket: RESOLUTION_MS of the tier
  MaxGap,        \* the longest interval between two samples that is accounted for
  MaxTime,       \* the last tick: a bound
  MaxReversals,  \* how often the clock is set back: a bound
  MaxFaults,     \* failed writes and crashes: a bound
  None

VARIABLES
  clock,
  previous,    \* the collector's memory: the time of the sample before
  lastTs,      \* the store's memory: the newest sample
  pending,     \* the store's memory: the open bucket
  sample,      \* where record() is, and the sample it stores
  rows,        \* the last row of each bucket in the history files
  finalized,   \* the buckets of which the history files have a valid row
  checkpoint,  \* pending.json
  reversals, crashes,
  failures,    \* failed writes so far
  newest,      \* history: the newest sample ever stored
  behind       \* history: a collector started, or had no open bucket, below it

telemetryVars == <<clock, previous, lastTs, pending, sample, rows, finalized, checkpoint,
                   reversals, crashes, failures, newest, behind>>
memory == <<previous, lastTs, pending>>
history == <<rows, finalized>>
files == <<history, checkpoint>>
counts == <<reversals, crashes, failures>>

Starts == {t \in 0..MaxTime : t % Width = 0}
Bucket == [ts : Starts, ticks : SUBSET (0..MaxTime), weight : Nat]

Saved == [ts : 0..MaxTime, bucket : Bucket \cup {None}]

TelemetryAssumption ==
  /\ Width \in Nat \ {0} /\ MaxGap \in Nat /\ MaxTime \in Nat
  /\ MaxReversals \in Nat /\ MaxFaults \in Nat
  /\ None \notin Int \cup Bucket \cup Saved

Steps == {"down", "idle", "roll", "retire", "checkpoint"}
At(s) == sample.step = s
Resting == [step |-> "idle", ts |-> 0, cursor |-> 0, interval |-> 0]

Least(a, b) == IF a < b THEN a ELSE b
Most(a, b) == IF a < b THEN b ELSE a

Init ==
  /\ clock = 0
  /\ previous = None /\ lastTs = 0 /\ pending = None
  /\ sample = [Resting EXCEPT !.step = "down"]
  /\ rows = [b \in Starts |-> None] /\ finalized = {}
  /\ checkpoint = None
  /\ reversals = 0 /\ crashes = 0 /\ failures = 0
  /\ newest = 0 /\ behind = FALSE

----------------------------------------------------------------------------
StartOf(t) == t - (t % Width)
Empty(b) == [ts |-> b, ticks |-> {}, weight |-> 0]

\* addToBucket: the ticks from one to another, of a sample that covers an interval.
AddToBucket(b, from, to) ==
  LET new == IF sample.interval = 0 THEN {} ELSE from..(to - 1)
  IN  [ts |-> b.ts, ticks |-> b.ticks \cup new, weight |-> b.weight + Cardinality(new)]

\* interval(): none without a sample before, after a reversal or after a long gap.
Elapsed ==
  IF previous # None /\ clock - previous \in 1..MaxGap THEN clock - previous ELSE 0

Unaware == behind' = (behind \/ clock < newest)
Noted ==
  /\ IF pending = None THEN Unaware ELSE UNCHANGED behind
  /\ newest' = Most(newest, clock)

\* Faulty variant: the part the store already has is not cut off.
TakeUnclipped ==
  /\ At("idle")
  /\ \E measured \in {Elapsed, 0} :
       sample' = [step |-> "roll", ts |-> clock, interval |-> measured,
                  cursor |-> clock - measured]
  /\ previous' = clock
  /\ Noted
  /\ UNCHANGED <<clock, lastTs, pending, files, counts>>

\* collect() and the beginning of record(): a sample of the interval since the one
\* before, or of nothing when the container could not be measured.  What overlaps
\* the newest sample of the store is cut off.
Take ==
  /\ At("idle")
  /\ \E measured \in {Elapsed, 0} :
       LET clipped == Least(measured, Most(0, clock - lastTs)) IN
       sample' = [step |-> "roll", ts |-> clock, interval |-> clipped,
                  cursor |-> clock - clipped]
  /\ previous' = clock
  /\ Noted
  /\ UNCHANGED <<clock, lastTs, pending, files, counts>>

\* A frame without the scope: its account is gone, or could not be read.
TakeWithout ==
  /\ At("idle")
  /\ sample' = [step |-> "retire", ts |-> clock, interval |-> 0, cursor |-> clock]
  /\ previous' = None
  /\ Noted
  /\ UNCHANGED <<clock, lastTs, pending, files, counts>>

\* validBucket, and the reader's normalize.
Valid(bucket) == bucket # None /\ bucket.weight <= Width

Seal ==
  /\ rows' = [rows EXCEPT ![pending.ts] = pending]
  /\ finalized' = IF Valid(pending) THEN finalized \cup {pending.ts} ELSE finalized

\* One turn of the loop over the buckets of a sample: the open bucket is appended
\* when the sample goes beyond it, never reopened when the sample is before it.
Roll ==
  /\ At("roll")
  /\ LET b == StartOf(sample.cursor)
         end == Least(sample.ts, b + Width)
         other == pending # None /\ pending.ts # b
     IN  IF pending # None /\ b < pending.ts
         THEN sample' = [sample EXCEPT !.step = "checkpoint"] /\ UNCHANGED <<pending, history>>
         ELSE /\ IF other THEN Seal ELSE UNCHANGED history
              /\ pending' = AddToBucket(IF pending = None \/ other THEN Empty(b) ELSE pending,
                                        sample.cursor, end)
              /\ sample' = [sample EXCEPT !.cursor = end,
                              !.step = IF end < sample.ts THEN "roll" ELSE "checkpoint"]
  /\ UNCHANGED <<clock, previous, lastTs, checkpoint, counts, newest, behind>>

\* The open bucket of an absent scope is appended once it is over, and forgotten.
Retire ==
  /\ At("retire")
  /\ IF pending # None /\ pending.ts + Width <= sample.ts
     THEN Seal /\ pending' = None ELSE UNCHANGED <<history, pending>>
  /\ sample' = [sample EXCEPT !.step = "checkpoint"]
  /\ UNCHANGED <<clock, previous, lastTs, checkpoint, counts, newest, behind>>

Reached == Most(lastTs, sample.ts)

\* pending.json is replaced; current.json and the pruning follow.
Checkpoint ==
  /\ At("checkpoint")
  /\ lastTs' = Reached
  /\ checkpoint' = [ts |-> Reached, bucket |-> pending]
  /\ sample' = Resting
  /\ UNCHANGED <<clock, previous, pending, history, counts, newest, behind>>

\* A write fails and collect() with it: an append, which may have had its effect, the one
\* of another scope, or the checkpoint.
WriteFails ==
  /\ \/ At("roll") \/ At("retire") \/ At("checkpoint")
  /\ failures < MaxFaults
  /\ failures' = failures + 1
  /\ lastTs' = lastTs \/ (At("checkpoint") /\ lastTs' = Reached)
  /\ \/ UNCHANGED history
     \/ ~At("checkpoint") /\ pending # None /\ StartOf(sample.cursor) > pending.ts /\ Seal
  /\ sample' = Resting
  /\ UNCHANGED <<clock, previous, pending, checkpoint, reversals, crashes, newest, behind>>

Crash ==
  /\ ~At("down") /\ crashes < MaxFaults
  /\ crashes' = crashes + 1
  /\ sample' = [Resting EXCEPT !.step = "down"]
  /\ previous' = None /\ lastTs' = 0 /\ pending' = None
  /\ UNCHANGED <<clock, files, reversals, failures, newest, behind>>

\* Faulty variant: the checkpoint is not compared with the history files.
InitializeTrusting ==
  /\ At("down")
  /\ sample' = Resting
  /\ IF checkpoint # None /\ checkpoint.ts <= clock
     THEN lastTs' = checkpoint.ts /\ pending' = checkpoint.bucket
     ELSE UNCHANGED <<lastTs, pending>>
  /\ Unaware
  /\ UNCHANGED <<clock, previous, files, counts, newest>>

\* hasFinalized: a valid row of this bucket or of a later one is there.
HasFinalized(b) == \E s \in finalized : s >= b /\ s <= clock

\* initialize(): the checkpoint, unless it is of the future, and its bucket, unless it is
\* not valid or was appended after the checkpoint was written.
Initialize ==
  /\ At("down")
  /\ sample' = Resting
  /\ IF checkpoint # None /\ checkpoint.ts <= clock
     THEN /\ lastTs' = checkpoint.ts
          /\ pending' = IF Valid(checkpoint.bucket) /\ ~HasFinalized(checkpoint.bucket.ts)
                        THEN checkpoint.bucket ELSE None
     ELSE UNCHANGED <<lastTs, pending>>
  /\ Unaware
  /\ UNCHANGED <<clock, previous, files, counts, newest>>

Tick ==
  /\ clock < MaxTime
  /\ clock' = clock + 1
  /\ UNCHANGED <<memory, sample, files, counts, newest, behind>>

\* The wall clock is set back.
Reverse ==
  /\ reversals < MaxReversals
  /\ reversals' = reversals + 1
  /\ clock' \in 0..(clock - 1)
  /\ UNCHANGED <<memory, sample, files, crashes, failures, newest, behind>>

Next ==
  \/ Take \/ TakeWithout \/ Roll \/ Retire \/ Checkpoint
  \/ WriteFails \/ Crash \/ Initialize
  \/ Tick \/ Reverse

Spec == Init /\ [][Next]_telemetryVars

----------------------------------------------------------------------------
\* RunnerTelemetryStore.read: the last row of a bucket, or the checkpoint's bucket when
\* there is none; it tells nothing when it is not valid.
Stands(b) ==
  IF rows[b] # None THEN rows[b]
  ELSE IF checkpoint # None /\ checkpoint.bucket # None /\ checkpoint.bucket.ts = b
       THEN checkpoint.bucket ELSE None

Readable(b) == IF Valid(Stands(b)) THEN Stands(b).ticks ELSE {}

\* The state is well formed (TelemetryStore, pending.json and the rows).
TypeOK ==
  /\ clock \in 0..MaxTime
  /\ previous \in 0..MaxTime \cup {None}
  /\ lastTs \in 0..MaxTime
  /\ pending \in Bucket \cup {None}
  /\ sample \in [step : Steps, ts : 0..MaxTime, cursor : 0..MaxTime, interval : 0..MaxGap]
  /\ rows \in [Starts -> Bucket \cup {None}] /\ finalized \subseteq Starts
  /\ checkpoint \in Saved \cup {None}
  /\ newest \in 0..MaxTime /\ behind \in BOOLEAN

\* What a reader can find of the past is not lost again by the collector: not by a crash
\* between an append and the checkpoint, nor by a clock set back while an open bucket is
\* known.  A failed write can cost the reader a bucket: one that ends up with more weight
\* than it lasts.
HistoryStays ==
  [][~behind' => \A b \in Starts :
       \/ Readable(b) \subseteq Readable(b)'
       \/ failures' > 0 /\ (Stands(b) # None /\ ~Valid(Stands(b)))']_telemetryVars

\* Every instant of a bucket has been added to it once, however the clock jumps and
\* wherever the collector crashes, as long as no write failed.
CountedOnce ==
  failures = 0 =>
    /\ pending # None => pending.weight = Cardinality(pending.ticks)
    /\ \A b \in Starts : rows[b] # None => rows[b].weight = Cardinality(rows[b].ticks)
=============================================================================
