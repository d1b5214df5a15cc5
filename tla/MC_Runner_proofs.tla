-------------------------- MODULE MC_Runner_proofs --------------------------
(***************************************************************************)
(* Proofs about what runs beside the gateway.  SSH access: keys must be    *)
(* registered again after a change of the account.  Telemetry: no tick is  *)
(* counted twice, and the history stays.  Migrations: what fails is        *)
(* undone; and where the volumes were named first, whoever works sees all  *)
(* the work, and the original is kept until its replacements are ready.    *)
(* For any keys, requests, times, crashes, work, failed writes and failed  *)
(* commands.                                                               *)
(***************************************************************************)
EXTENDS MC_Runner, ProcessService_proofs

-----------------------------------------------------------------------------
(* SSH access.                                                               *)

\* The version of an account counts its changes; a request remembers one it had.
RequestInv ==
  /\ account.version <= changes + 1
  /\ \A r \in Requests : request[r].op \in {"add", "remove"} =>
       request[r].key \in Keys /\ request[r].version \in Ssh!Versions
  /\ DOMAIN request = Requests

\* The keys of an entry were registered with the version it carries.
EntryInv == \A k \in entry.keys : registered[k] = entry.version

SshInv == Ssh!TypeOK /\ RequestInv /\ EntryInv

LEMMA SshInit == Ssh!Init => SshInv
<1> SUFFICES ASSUME Ssh!Init
             PROVE  SshInv
  OBVIOUS
<1> USE RunnerAssumption DEF Ssh!SshAssumption
<1>1. Ssh!TypeOK
  <2>1. /\ 1 \in Ssh!Versions /\ 0 \in 0..Lease /\ 0 \in 0..MaxChanges /\ 0 \in 0..MaxFaults
    BY DEF Ssh!Versions
  <2>2. /\ account \in [version : Ssh!Versions, active : BOOLEAN]
        /\ entry \in [version : Ssh!Versions, keys : SUBSET Keys]
        /\ registered \in [Keys -> Ssh!Versions \cup {0}]
    BY <2>1 DEF Ssh!Init
  <2>3. renewal \in [step : Ssh!Steps, version : Nat, active : BOOLEAN, keys : SUBSET Keys]
    BY DEF Ssh!Init, Ssh!Resting, Ssh!Steps
  <2>4. alive \in BOOLEAN /\ polled \in BOOLEAN
    BY DEF Ssh!Init
  <2>5. /\ jump \subseteq Keys /\ authorized \subseteq Keys
        /\ manifest \in (SUBSET Keys) \cup {None} /\ sshd \in (SUBSET Keys) \cup {None}
        /\ lease \in 0..Lease /\ changes \in 0..MaxChanges /\ sshFaults \in 0..MaxFaults
    BY <2>1 DEF Ssh!Init
  <2>6. /\ session \in [key : Keys \cup {None}, found : Ssh!Found]
        /\ turn \in [step : Ssh!Turns, found : (SUBSET Keys) \cup {None}]
    BY DEF Ssh!Init, Ssh!NoSession, Ssh!Waiting, Ssh!Found, Ssh!Turns
  <2> QED
    BY <2>2, <2>3, <2>4, <2>5, <2>6 DEF Ssh!TypeOK
<1>2. RequestInv
  BY DEF Ssh!Init, RequestInv, Ssh!NoRequest
<1>3. EntryInv
  BY DEF Ssh!Init, EntryInv
<1> QED
  BY <1>1, <1>2, <1>3 DEF SshInv

LEMMA SshStepInv ==
  ASSUME SshInv, [Ssh!Next]_(Ssh!sshVars)
  PROVE  SshInv'
<1> USE RunnerAssumption DEF Ssh!SshAssumption, SshInv
<1>1. /\ account.version \in 1..(MaxChanges + 1) /\ account.active \in BOOLEAN
      /\ entry.version \in 1..(MaxChanges + 1) /\ entry.keys \subseteq Keys
      /\ changes \in 0..MaxChanges
  BY DEF Ssh!TypeOK, Ssh!Versions
<1>2. CASE Ssh!ChangeAccount
  <2>1. PICK b \in BOOLEAN : account' = [version |-> account.version + 1, active |-> b]
    BY <1>2 DEF Ssh!ChangeAccount
  <2>2. changes' = changes + 1 /\ changes < MaxChanges
    BY <1>2 DEF Ssh!ChangeAccount, Ssh!Counted
  <2>3. account.version + 1 \in Ssh!Versions /\ account'.version <= changes' + 1
    BY <1>1, <2>1, <2>2 DEF RequestInv, Ssh!Versions
  <2>4. Ssh!TypeOK'
    BY <1>1, <1>2, <2>1, <2>2, <2>3 DEF Ssh!TypeOK, Ssh!ChangeAccount, Ssh!files, Ssh!daemon
  <2> QED
    BY <1>2, <2>3, <2>4 DEF Ssh!ChangeAccount, RequestInv, EntryInv
<1>3. ASSUME NEW r \in Requests, NEW op \in {"add", "remove"}, NEW k \in Keys,
             Ssh!Arrive(r, op, k)
      PROVE  SshInv'
  <2>1. Ssh!TypeOK'
    BY <1>3 DEF Ssh!TypeOK, Ssh!Arrive, Ssh!files, Ssh!daemon
  <2>2. RequestInv'
    BY <1>1, <1>3 DEF RequestInv, Ssh!Arrive, Ssh!Versions
  <2>3. EntryInv'
    BY <1>3 DEF EntryInv, Ssh!Arrive
  <2> QED
    BY <2>1, <2>2, <2>3
<1>4. ASSUME NEW r \in Requests, Ssh!Add(r)
      PROVE  SshInv'
  <2> DEFINE v == request[r].version
             k == request[r].key
             kept == IF entry.version = v THEN entry.keys ELSE {}
  <2>1. v \in Ssh!Versions /\ k \in Keys
    BY <1>4 DEF Ssh!Add, RequestInv
  <2>2. /\ account' = account /\ request' = [request EXCEPT ![r] = Ssh!NoRequest]
        /\ UNCHANGED <<renewal, jump, authorized, manifest, lease, sshd, session, turn, polled,
                       alive, sshFaults>>
    BY <1>4 DEF Ssh!Add, Ssh!Finished, Ssh!files, Ssh!daemon
  <2>3. RequestInv' \/ changes' \notin {changes, changes + 1}
    BY <1>1, <2>2 DEF RequestInv, Ssh!NoRequest
  <2>4. CASE UNCHANGED <<entry, registered, changes>>
    BY <2>2, <2>3, <2>4 DEF Ssh!TypeOK, EntryInv
  <2>5. CASE /\ k \notin kept /\ Ssh!Counted
             /\ entry' = [version |-> v, keys |-> kept \cup {k}]
             /\ registered' = [registered EXCEPT ![k] = v]
    <3>1. changes' = changes + 1 /\ changes' \in 0..MaxChanges
      BY <1>1, <2>5 DEF Ssh!Counted
    <3>2. Ssh!TypeOK'
      BY <1>1, <2>1, <2>2, <2>5, <3>1 DEF Ssh!TypeOK
    <3>3. EntryInv'
      BY <1>1, <2>1, <2>5 DEF EntryInv, Ssh!TypeOK
    <3> QED
      BY <2>3, <3>1, <3>2, <3>3
  <2> QED
    BY <1>4, <2>4, <2>5 DEF Ssh!Add
<1>5. ASSUME NEW r \in Requests, Ssh!Remove(r)
      PROVE  SshInv'
  <2>1. /\ account' = account /\ request' = [request EXCEPT ![r] = Ssh!NoRequest]
        /\ UNCHANGED <<registered, renewal, jump, authorized, manifest, lease, sshd, session,
                       turn, polled, alive, sshFaults>>
    BY <1>5 DEF Ssh!Remove, Ssh!Finished, Ssh!files, Ssh!daemon
  <2>2. \/ entry' = entry /\ changes' = changes
        \/ /\ Ssh!Counted
           /\ entry' = [entry EXCEPT !.keys = @ \ {request[r].key}]
    BY <1>5 DEF Ssh!Remove
  <2>3. changes' \in {changes, changes + 1} /\ changes' \in 0..MaxChanges
    BY <1>1, <2>2 DEF Ssh!Counted
  <2>4. /\ entry' \in [version : Ssh!Versions, keys : SUBSET Keys]
        /\ entry'.version = entry.version /\ entry'.keys \subseteq entry.keys
    BY <2>2 DEF Ssh!TypeOK
  <2>5. Ssh!TypeOK'
    BY <2>1, <2>3, <2>4 DEF Ssh!TypeOK
  <2>6. RequestInv'
    BY <1>1, <2>1, <2>3 DEF RequestInv, Ssh!NoRequest
  <2>7. EntryInv'
    BY <2>1, <2>4 DEF EntryInv
  <2> QED
    BY <2>5, <2>6, <2>7
<1>6. CASE Ssh!ReadAccount \/ Ssh!ReadKeys
  <2>1. Ssh!KeysFor(renewal.version, renewal.active, entry) \subseteq Keys
    BY <1>1 DEF Ssh!KeysFor
  <2>2. PICK w \in [step : Ssh!Steps, version : Nat, active : BOOLEAN, keys : SUBSET Keys] :
          w = renewal
    BY DEF Ssh!TypeOK
  <2>3. renewal' \in [step : Ssh!Steps, version : Nat, active : BOOLEAN, keys : SUBSET Keys]
    <3>1. CASE Ssh!ReadAccount
      <4>1. renewal' = [w EXCEPT !.step = "keys", !.version = account.version,
                                 !.active = account.active]
        BY <2>2, <3>1 DEF Ssh!ReadAccount
      <4>2. renewal' = [step |-> "keys", version |-> account.version,
                        active |-> account.active, keys |-> w.keys]
        BY <2>2, <4>1
      <4> QED
        BY <1>1, <2>2, <4>2 DEF Ssh!Steps
    <3>2. CASE Ssh!ReadKeys
      BY <2>1, <2>2, <3>2 DEF Ssh!ReadKeys, Ssh!Resting, Ssh!Steps
    <3> QED
      BY <1>6, <3>1, <3>2
  <2> QED
    BY <1>6, <2>3 DEF Ssh!TypeOK, RequestInv, EntryInv, Ssh!ReadAccount, Ssh!ReadKeys,
       Ssh!registration, Ssh!files, Ssh!daemon
<1>7. CASE \/ Ssh!WriteJump \/ Ssh!WriteAuthorized \/ Ssh!WriteManifest
           \/ Ssh!RenewalFails \/ Ssh!ProvisionerDies
  <2>1. PICK w \in [step : Ssh!Steps, version : Nat, active : BOOLEAN, keys : SUBSET Keys] :
          w = renewal
    BY DEF Ssh!TypeOK
  <2>2. /\ \A s \in Ssh!Steps : [w EXCEPT !.step = s]
             \in [step : Ssh!Steps, version : Nat, active : BOOLEAN, keys : SUBSET Keys]
        /\ Ssh!Resting
             \in [step : Ssh!Steps, version : Nat, active : BOOLEAN, keys : SUBSET Keys]
    BY <2>1 DEF Ssh!Resting, Ssh!Steps
  <2>3. renewal' \in [step : Ssh!Steps, version : Nat, active : BOOLEAN, keys : SUBSET Keys]
    <3>1. {"authorized", "manifest"} \subseteq Ssh!Steps
      BY DEF Ssh!Steps
    <3> QED
      BY <1>7, <2>1, <2>2, <3>1 DEF Ssh!WriteJump, Ssh!WriteAuthorized, Ssh!WriteManifest,
         Ssh!RenewalFails, Ssh!ProvisionerDies, Ssh!To
  <2>4. /\ jump' \subseteq Keys /\ authorized' \subseteq Keys
        /\ manifest' \in (SUBSET Keys) \cup {None}
        /\ lease' \in 0..Lease
    BY <1>7, <2>1 DEF Ssh!TypeOK, Ssh!WriteJump, Ssh!WriteAuthorized, Ssh!WriteManifest,
       Ssh!Publish, Ssh!RenewalFails, Ssh!ProvisionerDies, Ssh!files, Ssh!daemon
  <2>5. /\ UNCHANGED <<account, entry, registered, request, changes, sshd, session, turn>>
        /\ sshFaults' \in 0..MaxFaults
    BY <1>7 DEF Ssh!TypeOK, Ssh!WriteJump, Ssh!WriteAuthorized, Ssh!WriteManifest,
       Ssh!RenewalFails, Ssh!ProvisionerDies, Ssh!registration, Ssh!daemon
  <2>6. polled' \in BOOLEAN /\ alive' \in BOOLEAN
    BY <1>7 DEF Ssh!TypeOK, Ssh!WriteJump, Ssh!WriteAuthorized, Ssh!WriteManifest,
       Ssh!Publish, Ssh!RenewalFails, Ssh!ProvisionerDies, Ssh!daemon
  <2> QED
    BY <2>3, <2>4, <2>5, <2>6 DEF Ssh!TypeOK, RequestInv, EntryInv
<1>8. CASE Ssh!Supervise \/ Ssh!SshdExits \/ Ssh!Tick
  <2>1. session' \in {session, Ssh!NoSession, Ssh!Tracking, Ssh!Orphaned}
    BY <1>8 DEF Ssh!Supervise, Ssh!Poll, Ssh!Reads, Ssh!Scan, Ssh!Kill, Ssh!Shut, Ssh!Track,
       Ssh!SshdExits, Ssh!Tick, Ssh!Tracked, Ssh!Orphans, Ssh!Become
  <2>2. session' \in [key : Keys \cup {None}, found : Ssh!Found]
    BY <2>1 DEF Ssh!TypeOK, Ssh!NoSession, Ssh!Tracking, Ssh!Orphaned, Ssh!Found
  <2>3. /\ sshd' \in {manifest, None, sshd, turn.found}
        /\ \/ turn' = turn
           \/ turn' \in {[turn EXCEPT !.step = s] : s \in {"kill", "shut"}}
           \/ turn' \in [step : {"scan", "track", "poll"}, found : {manifest, None}]
    <3>1. CASE Ssh!Poll
      BY <3>1 DEF Ssh!Poll, Ssh!Reads, Ssh!Start
    <3>2. CASE Ssh!Scan \/ Ssh!Kill
      BY <3>2 DEF Ssh!Scan, Ssh!Kill, Ssh!Proceed
    <3>3. CASE Ssh!Shut
      BY <3>3 DEF Ssh!Shut, Ssh!Start
    <3>4. CASE Ssh!Track
      BY <3>4 DEF Ssh!Track, Ssh!Waiting
    <3>5. CASE Ssh!SshdExits \/ Ssh!Tick
      BY <3>5 DEF Ssh!SshdExits, Ssh!Tick
    <3> QED
      BY <1>8, <3>1, <3>2, <3>3, <3>4, <3>5 DEF Ssh!Supervise
  <2>4. /\ sshd' \in (SUBSET Keys) \cup {None}
        /\ turn' \in [step : Ssh!Turns, found : (SUBSET Keys) \cup {None}]
    BY <2>3 DEF Ssh!TypeOK, Ssh!Turns
  <2>5. polled' \in BOOLEAN /\ lease' \in 0..Lease /\ sshFaults' \in 0..MaxFaults
    <3>1. CASE Ssh!Supervise
      <4>1. polled' \in {TRUE, polled} /\ lease' = lease /\ sshFaults' = sshFaults
        BY <3>1 DEF Ssh!Supervise, Ssh!Poll, Ssh!Reads, Ssh!Scan, Ssh!Kill, Ssh!Shut, Ssh!Track
      <4> QED
        BY <4>1 DEF Ssh!TypeOK
    <3>2. CASE Ssh!SshdExits \/ Ssh!Tick
      BY <3>2 DEF Ssh!TypeOK, Ssh!SshdExits, Ssh!Tick
    <3> QED
      BY <1>8, <3>1, <3>2
  <2>6. UNCHANGED <<account, entry, registered, request, changes, renewal, jump, authorized,
                    manifest, alive>>
    BY <1>8 DEF Ssh!Supervise, Ssh!Poll, Ssh!Reads, Ssh!Scan, Ssh!Kill, Ssh!Shut, Ssh!Track,
       Ssh!SshdExits, Ssh!Tick, Ssh!registration, Ssh!files
  <2> QED
    BY <2>2, <2>4, <2>5, <2>6 DEF Ssh!TypeOK, RequestInv, EntryInv
<1>9. CASE (\E k \in Keys : Ssh!Connect(k)) \/ Ssh!Disconnect
  <2>1. session' \in [key : Keys \cup {None}, found : Ssh!Found]
    BY <1>9 DEF Ssh!Connect, Ssh!Disconnect, Ssh!NoSession, Ssh!Found
  <2>2. UNCHANGED <<account, entry, registered, request, changes, renewal, jump, authorized,
                    manifest, lease, sshd, turn, polled, alive, sshFaults>>
    BY <1>9 DEF Ssh!Connect, Ssh!Disconnect, Ssh!registration, Ssh!files
  <2> QED
    BY <2>1, <2>2 DEF Ssh!TypeOK, RequestInv, EntryInv
<1>10. CASE UNCHANGED Ssh!sshVars
  BY <1>10 DEF Ssh!sshVars, Ssh!TypeOK, RequestInv, EntryInv
<1> QED
  BY <1>2, <1>3, <1>4, <1>5, <1>6, <1>7, <1>8, <1>9, <1>10 DEF Ssh!Next

\* After a change of the account a key is in force only once it was registered again, also
\* when requests from before the change arrive late.
THEOREM KeysAreCurrent == Ssh!Spec => []KeysRegisteredAgain
<1>1. SshInv => KeysRegisteredAgain
  BY DEF SshInv, EntryInv, KeysRegisteredAgain, Ssh!KeysRegisteredAgain, Ssh!Permitted, Ssh!KeysFor
<1> QED
  BY <1>1, SshInit, SshStepInv, PTL DEF Ssh!Spec

-----------------------------------------------------------------------------
(* Telemetry.                                                                *)

\* The times of the collector: a sample lies in the past of the newest one, and what it
\* accounts for begins where the store has got to.
TimeInv ==
  /\ failures \in Nat /\ halts \in Nat /\ reversals \in Nat
  /\ sample.cursor <= sample.ts /\ sample.ts <= newest /\ lastTs <= newest
  /\ checkpoint # None => checkpoint.ts <= newest
  /\ sample.step = "down" => pending = None /\ lastTs = 0 /\ previous = None
  /\ sample.step = "idle" => sample.ts = 0
  /\ sample.step = "retire" => previous = None
  /\ sample.step = "roll" /\ sample.interval # 0 => lastTs <= sample.cursor

CollectorInv == Collector!TypeOK /\ TimeInv

\* The open bucket has nothing beyond what the store, or the sample it is storing, has
\* reached; so what is added to it is new.  It weighs what it has, all within the bucket.
Upto == Collector!Most(lastTs, IF sample.step = "roll" THEN sample.cursor ELSE sample.ts)
Sound(bucket) ==
  /\ bucket.weight = Cardinality(bucket.ticks)
  /\ \A i \in bucket.ticks : bucket.ts <= i /\ i < bucket.ts + Width
Fits(bucket, t) == Sound(bucket) /\ \A i \in bucket.ticks : i < t

CountInv ==
  failures = 0 =>
    /\ pending # None => Fits(pending, Upto)
    /\ \A b \in Collector!Starts : rows[b] # None => Sound(rows[b])
    /\ checkpoint # None /\ checkpoint.bucket # None =>
         Fits(checkpoint.bucket, checkpoint.ts)

\* The buckets with a valid row in the history files are over, none is newer than the open
\* one, and of a bucket that is in both the open one has all.
RowsInv ==
  \A b \in Collector!Starts :
    /\ Collector!Valid(rows[b]) => b \in finalized
    /\ b \in finalized =>
         /\ rows[b] # None /\ b + Width <= newest
         /\ pending # None => b <= pending.ts
         /\ sample.step = "roll" /\ pending = None => b + Width <= sample.cursor
    /\ Collector!Valid(rows[b]) /\ pending # None /\ b = pending.ts =>
         rows[b].ticks \subseteq pending.ticks

\* A valid bucket that only the checkpoint has is newer than those in the files, and is the
\* open one, which has all of it, of a collector that runs.
CheckpointInv ==
  checkpoint # None /\ Collector!Valid(checkpoint.bucket) =>
    LET c == checkpoint.bucket IN
    rows[c.ts] = None =>
      /\ \A b \in finalized : b < c.ts
      /\ sample.step # "down" =>
           pending # None /\ pending.ts = c.ts /\ c.ticks \subseteq pending.ticks

HistoryInv ==
  ~behind =>
    /\ RowsInv /\ CheckpointInv
    /\ pending = None /\ previous # None => previous = newest

Times == 0..MaxTime
Samples == [step : Collector!Steps, ts : Times, cursor : Times, interval : 0..MaxGap]

LEMMA Multiples ==
  ASSUME NEW w \in Nat \ {0}
  PROVE  /\ \A t \in Nat : /\ t % w \in Nat /\ t % w < w
                           /\ (t - (t % w)) % w = 0
         /\ \A a, b \in Nat : a % w = 0 /\ b % w = 0 /\ a < b => a + w <= b
<1>1. ASSUME NEW t \in Nat
      PROVE  t % w \in Nat /\ t % w < w /\ (t - (t % w)) % w = 0
  <2>1. t % w \in Nat /\ t % w < w /\ t \div w \in Nat
    OBVIOUS
  <2>2. t = w * (t \div w) + (t % w)
    OBVIOUS
  <2>3. \A n \in Nat : (w * n) % w = 0 /\ w * n \in Nat
    OBVIOUS
  <2>4. PICK n \in Nat : n = t \div w
    BY <2>1
  <2>5. t - (t % w) = w * n
    BY <2>1, <2>2, <2>3, <2>4
  <2> QED
    BY <2>1, <2>3, <2>5
<1>2. ASSUME NEW a \in Nat, NEW b \in Nat, a % w = 0, b % w = 0, a < b
      PROVE  a + w <= b
  <2>1. \A t \in Nat : t % w = 0 => \E n \in Nat : t = w * n
    OBVIOUS
  <2>2. PICK m \in Nat : a = w * m
    BY <1>2, <2>1
  <2>3. PICK n \in Nat : b = w * n
    BY <1>2, <2>1
  <2>4. w * (n - m) = b - a
    BY <2>2, <2>3
  <2>5. \A i \in Int : /\ i >= 1 => w * i >= w
                       /\ i <= 0 => w * i <= 0
    OBVIOUS
  <2>6. n - m >= 1
    <3> SUFFICES ASSUME n - m <= 0
                 PROVE  FALSE
      OBVIOUS
    <3>1. PICK i \in Int : i = n - m
      OBVIOUS
    <3> QED
      BY <1>2, <2>4, <2>5, <3>1
  <2>7. w * (n - m) >= w
    BY <2>5, <2>6
  <2> QED
    BY <2>4, <2>7
<1> QED
  BY <1>1, <1>2

\* Where the bucket of a time begins, and that buckets do not overlap.
LEMMA BucketOf ==
  ASSUME NEW t \in Times
  PROVE  /\ Collector!StartOf(t) \in Collector!Starts
         /\ Collector!StartOf(t) <= t /\ t < Collector!StartOf(t) + Width
<1>1. Width \in Nat \ {0} /\ MaxTime \in Nat
  BY RunnerAssumption DEF Collector!TelemetryAssumption
<1>2. /\ t % Width \in Nat /\ t % Width < Width
      /\ (t - (t % Width)) % Width = 0
  <2>1. \A i \in Nat : i % Width \in Nat /\ i % Width < Width /\ (i - (i % Width)) % Width = 0
    BY <1>1, Multiples
  <2>2. t \in Nat
    BY <1>1 DEF Times
  <2> QED
    BY <2>1, <2>2
<1>3. t - (t % Width) >= 0
  <2>1. \A w \in Nat \ {0}, n \in Nat : n % w <= n
    OBVIOUS
  <2> QED
    BY <1>1, <1>2, <2>1 DEF Times
<1> QED
  BY <1>1, <1>2, <1>3 DEF Collector!StartOf, Collector!Starts, Times

LEMMA BucketsApart ==
  ASSUME NEW a \in Collector!Starts, NEW b \in Collector!Starts, a < b
  PROVE  a + Width <= b
<1>1. Width \in Nat \ {0} /\ MaxTime \in Nat
  BY RunnerAssumption DEF Collector!TelemetryAssumption
<1>2. \A i, j \in Nat : i % Width = 0 /\ j % Width = 0 /\ i < j => i + Width <= j
  BY <1>1, Multiples
<1>3. /\ a \in Nat /\ b \in Nat /\ a % Width = 0 /\ b % Width = 0
  BY <1>1 DEF Collector!Starts
<1> QED
  BY <1>2, <1>3

LEMMA CollectorHas ==
  ASSUME CollectorInv
  PROVE  /\ Width \in Nat \ {0} /\ MaxGap \in Nat /\ MaxTime \in Nat
         /\ {clock, lastTs, newest, sample.ts, sample.cursor} \subseteq Times
         /\ previous \in Times \cup {None}
         /\ sample \in Samples /\ sample.interval \in 0..MaxGap
         /\ Collector!Starts \subseteq Times
         /\ None \notin Times /\ finalized \subseteq Collector!Starts
         /\ pending # None => pending \in Collector!Bucket /\ pending.ts \in Collector!Starts
         /\ checkpoint # None =>
              /\ checkpoint \in Collector!Saved /\ checkpoint.ts \in Times
              /\ checkpoint.bucket # None =>
                   /\ checkpoint.bucket \in Collector!Bucket
                   /\ checkpoint.bucket.ts \in Collector!Starts
BY RunnerAssumption
   DEF Collector!TelemetryAssumption, CollectorInv, Collector!TypeOK, Collector!Starts,
       Collector!Bucket, Collector!Saved, Samples, Times

\* What a sample adds to a bucket.
Extends(b, c, new) ==
  c = [ts |-> b.ts, ticks |-> b.ticks \cup new, weight |-> b.weight + Cardinality(new)]

LEMMA TimesFinite ==
  ASSUME NEW S \in SUBSET Times
  PROVE  IsFiniteSet(S) /\ Cardinality(S) \in Nat
<1>1. IsFiniteSet(Times)
  BY FS_Interval, RunnerAssumption DEF Times, Collector!TelemetryAssumption
<1>2. IsFiniteSet(S)
  BY <1>1, FS_Subset
<1> QED
  BY <1>2, FS_CardinalityType

\* The size of a set is the same in the collector's module.
LEMMA SameSize == \A S : Collector!Cardinality(S) = Cardinality(S)
BY DEF Collector!Cardinality, Cardinality

LEMMA Adding ==
  ASSUME NEW b \in Collector!Bucket, NEW from \in Times, NEW to \in Times
  PROVE  \E new \in SUBSET Times :
           /\ Extends(b, Collector!AddToBucket(b, from, to), new)
           /\ \A i \in new : sample.interval # 0 /\ from <= i /\ i < to
<1> DEFINE n == IF sample.interval = 0 THEN {} ELSE from..(to - 1)
<1>1. n \in SUBSET Times /\ \A i \in n : sample.interval # 0 /\ from <= i /\ i < to
  BY RunnerAssumption DEF Times, Collector!TelemetryAssumption
<1>2. Collector!AddToBucket(b, from, to) =
        [ts |-> b.ts, ticks |-> b.ticks \cup n, weight |-> b.weight + Cardinality(n)]
  BY SameSize, Zenon DEF Collector!AddToBucket
<1>3. Extends(b, Collector!AddToBucket(b, from, to), n)
  BY <1>2, Zenon DEF Extends
<1> QED
  BY <1>1, <1>3, Zenon

LEMMA Added ==
  ASSUME NEW b \in Collector!Bucket, NEW from \in Times, NEW to \in Times
  PROVE  /\ Collector!AddToBucket(b, from, to) \in Collector!Bucket
         /\ Collector!AddToBucket(b, from, to).ts = b.ts
         /\ b.ticks \subseteq Collector!AddToBucket(b, from, to).ticks
<1>1. PICK new \in SUBSET Times : Extends(b, Collector!AddToBucket(b, from, to), new)
  BY Adding
<1>2. PICK w \in Nat : w = b.weight + Cardinality(new)
  BY TimesFinite DEF Collector!Bucket
<1>3. Collector!AddToBucket(b, from, to) = [ts |-> b.ts, ticks |-> b.ticks \cup new, weight |-> w]
  BY <1>1, <1>2 DEF Extends
<1>4. b.ts \in Collector!Starts /\ b.ticks \subseteq Times
  BY DEF Collector!Bucket, Times
<1>5. PICK tk \in SUBSET Times : tk = b.ticks \cup new
  BY <1>4
<1>6. PICK c : c = [ts |-> b.ts, ticks |-> tk, weight |-> w]
  OBVIOUS
<1>7. c \in Collector!Bucket
  BY <1>4, <1>6 DEF Collector!Bucket, Times
<1>8. c.ts = b.ts /\ b.ticks \subseteq c.ticks
  BY <1>5, <1>6
<1> QED
  BY <1>3, <1>5, <1>6, <1>7, <1>8

\* What is added beyond what a bucket has is new, and weighs what it is.
LEMMA AddedFits ==
  ASSUME NEW b \in Collector!Bucket, NEW from \in Times, NEW to \in Times,
         NEW t \in Times, Fits(b, t), from <= to, b.ts <= from, to <= b.ts + Width,
         sample.interval # 0 => t <= from
  PROVE  Fits(Collector!AddToBucket(b, from, to), IF t < to THEN to ELSE t)
<1>1. PICK new \in SUBSET Times :
        /\ Extends(b, Collector!AddToBucket(b, from, to), new)
        /\ \A i \in new : sample.interval # 0 /\ from <= i /\ i < to
  BY Adding
<1>2. b.ticks \subseteq Times /\ Times \subseteq Int /\ b.ts \in Times
  BY RunnerAssumption
     DEF Collector!Bucket, Collector!Starts, Times, Collector!TelemetryAssumption
<1>3. /\ b.weight = Cardinality(b.ticks)
      /\ \A i \in b.ticks : b.ts <= i /\ i < b.ts + Width /\ i < t
  BY DEF Fits, Sound
<1>4. PICK m \in Times : m = IF t < to THEN to ELSE t
  OBVIOUS
<1>5. b.ticks \cap new = {}
  BY <1>1, <1>2, <1>3
<1>6. Cardinality(b.ticks \cup new) = b.weight + Cardinality(new)
  <2>1. /\ IsFiniteSet(b.ticks) /\ Cardinality(b.ticks) \in Nat
        /\ IsFiniteSet(new) /\ Cardinality(new) \in Nat
    BY <1>2, TimesFinite
  <2>2. Cardinality(b.ticks \cup new)
          = Cardinality(b.ticks) + Cardinality(new) - Cardinality(b.ticks \cap new)
    BY <2>1, FS_Union
  <2>3. Cardinality(b.ticks \cap new) = 0
    BY <1>5, FS_EmptySet
  <2> QED
    BY <1>3, <2>1, <2>2, <2>3
<1>7. \A i \in b.ticks \cup new : b.ts <= i /\ i < b.ts + Width /\ i < m
  <2>1. /\ t \in Int /\ from \in Int /\ to \in Int /\ m \in Int /\ t <= m /\ to <= m
        /\ b.ts \in Int /\ Width \in Int
    <3>1. t \in Int /\ from \in Int /\ to \in Int /\ m \in Int /\ b.ts \in Int /\ Width \in Int
      <4>1. Width \in Int
        BY RunnerAssumption DEF Collector!TelemetryAssumption
      <4> QED
        BY <1>2, <4>1
    <3> QED
      BY <1>4, <3>1
  <2>2. ASSUME NEW i \in b.ticks
        PROVE  b.ts <= i /\ i < b.ts + Width /\ i < m
    <3>1. b.ts <= i /\ i < b.ts + Width /\ i < t
      BY <1>3, <2>2
    <3>2. i \in Int
      BY <1>2, <2>2
    <3> QED
      BY <2>1, <3>1, <3>2
  <2>3. ASSUME NEW i \in new
        PROVE  b.ts <= i /\ i < b.ts + Width /\ i < m
    <3>1. i \in Int /\ from <= i /\ i < to
      BY <1>1, <1>2
    <3> QED
      BY <2>1, <3>1
  <2> QED
    BY <2>2, <2>3
<1>8. Fits(Collector!AddToBucket(b, from, to), m)
  <2>1. PICK w \in Nat : w = b.weight + Cardinality(new)
    BY TimesFinite DEF Collector!Bucket
  <2>2. PICK tk : tk = b.ticks \cup new
    OBVIOUS
  <2>3. PICK c : c = [ts |-> b.ts, ticks |-> tk, weight |-> w]
    OBVIOUS
  <2>4. c.ts = b.ts /\ c.weight = w /\ c.ticks = tk
    BY <2>3
  <2>5. Collector!AddToBucket(b, from, to) = c
    BY <1>1, <2>1, <2>2, <2>3 DEF Extends
  <2>6. Sound(c) /\ \A i \in c.ticks : i < m
    BY <1>6, <1>7, <2>1, <2>2, <2>4 DEF Sound
  <2> QED
    BY <2>5, <2>6 DEF Fits
<1> QED
  BY <1>4, <1>8

\* A bucket that weighs what it has is valid.
LEMMA SoundIsValid ==
  ASSUME NEW b \in Collector!Bucket, Sound(b)
  PROVE  Collector!Valid(b)
<1>1. Width \in Nat \ {0} /\ b.ts \in Int /\ b.ticks \subseteq Int /\ b # None
  BY RunnerAssumption
     DEF Collector!TelemetryAssumption, Collector!Bucket, Collector!Starts
<1>2. PICK w \in Int : w = b.ts + Width - 1
  BY <1>1
<1>3. b.ticks \in SUBSET (b.ts..w)
  BY <1>1, <1>2 DEF Sound
<1>4. IsFiniteSet(b.ts..w) /\ Cardinality(b.ts..w) = Width
  BY <1>1, <1>2, FS_Interval
<1>5. Cardinality(b.ticks) <= Width
  BY <1>3, <1>4, FS_Subset
<1> QED
  BY <1>1, <1>5 DEF Sound, Collector!Valid

\* What is appended to the history files.
Sealed ==
  /\ rows' = [rows EXCEPT ![pending.ts] = pending]
  /\ finalized' = IF Collector!Valid(pending) THEN finalized \cup {pending.ts} ELSE finalized

\* One turn of the loop over the buckets of a sample.
RollSkips ==
  /\ pending # None /\ sample' = [sample EXCEPT !.step = "checkpoint"]
  /\ UNCHANGED <<pending, rows, finalized>>

RollAdds(b, e, base) ==
  /\ base \in Collector!Bucket /\ base.ts = b
  /\ b = Collector!StartOf(sample.cursor)
  /\ pending' = Collector!AddToBucket(base, sample.cursor, e)
  /\ \/ pending # None /\ base = pending /\ UNCHANGED <<rows, finalized>>
     \/ pending = None /\ base = Collector!Empty(b) /\ UNCHANGED <<rows, finalized>>
     \/ pending # None /\ pending.ts < b /\ base = Collector!Empty(b) /\ Sealed
  /\ sample.cursor <= e /\ e <= sample.ts /\ e <= b + Width
  /\ \E s \in {"roll", "checkpoint"} :
       sample' = [step |-> s, ts |-> sample.ts, cursor |-> e, interval |-> sample.interval]

LEMMA EmptyFits ==
  ASSUME NEW b \in Collector!Starts
  PROVE  /\ Collector!Empty(b) \in Collector!Bucket /\ Collector!Empty(b).ts = b
         /\ \A t : Fits(Collector!Empty(b), t)
BY FS_EmptySet DEF Collector!Empty, Collector!Bucket, Fits, Sound

LEMMA RollCases ==
  ASSUME CollectorInv, Collector!Roll
  PROVE  \/ RollSkips
         \/ \E b \in Collector!Starts, e \in Times, base \in Collector!Bucket :
              RollAdds(b, e, base)
<1> DEFINE b == Collector!StartOf(sample.cursor)
           e == Collector!Least(sample.ts, b + Width)
           other == pending # None /\ pending.ts # b
           base == IF pending = None \/ other THEN Collector!Empty(b) ELSE pending
<1>1. CASE pending # None /\ b < pending.ts
  BY <1>1 DEF Collector!Roll, Collector!history, RollSkips
<1>2. CASE ~(pending # None /\ b < pending.ts)
  <2>1. b \in Collector!Starts /\ b <= sample.cursor /\ sample.cursor < b + Width
    BY CollectorHas, BucketOf
  <2>2. e \in Times /\ sample.cursor <= e /\ e <= sample.ts /\ e <= b + Width
    BY <2>1, CollectorHas DEF CollectorInv, TimeInv, Collector!Least, Times
  <2>3. base \in Collector!Bucket /\ base.ts = b
    BY <2>1, CollectorHas, EmptyFits
  <2>4. PICK s \in {"roll", "checkpoint"} : s = IF e < sample.ts THEN "roll" ELSE "checkpoint"
    OBVIOUS
  <2>5. sample' = [sample EXCEPT !.cursor = e, !.step = s]
    BY <1>2, <2>4 DEF Collector!Roll
  <2>6. PICK w \in Samples : w = sample
    BY CollectorHas
  <2>7. [w EXCEPT !.cursor = e, !.step = s] =
          [step |-> s, ts |-> w.ts, cursor |-> e, interval |-> w.interval]
    <3>1. PICK d \in Times : d = e
      BY <2>2
    <3>2. PICK v : v = [w EXCEPT !.cursor = d, !.step = s]
      OBVIOUS
    <3>3. v = [step |-> s, ts |-> w.ts, cursor |-> d, interval |-> w.interval]
      BY <3>2 DEF Samples
    <3> QED
      BY <3>1, <3>2, <3>3
  <2>8. sample' = [step |-> s, ts |-> sample.ts, cursor |-> e, interval |-> sample.interval]
    BY <2>5, <2>6, <2>7
  <2>9. /\ pending' = Collector!AddToBucket(base, sample.cursor, e)
        /\ IF other THEN Sealed ELSE UNCHANGED <<rows, finalized>>
    BY <1>2 DEF Collector!Roll, Collector!Seal, Collector!history, Sealed
  <2>10. \/ pending # None /\ base = pending /\ UNCHANGED <<rows, finalized>>
         \/ pending = None /\ base = Collector!Empty(b) /\ UNCHANGED <<rows, finalized>>
         \/ pending # None /\ pending.ts < b /\ base = Collector!Empty(b) /\ Sealed
    <3>1. other => pending.ts < b
      <4>1. other => b \in Int /\ pending.ts \in Int
        BY <2>1, CollectorHas DEF Times
      <4> QED
        BY <1>2, <4>1
    <3> QED
      BY <2>9, <3>1
  <2>11. RollAdds(b, e, base)
    BY <2>2, <2>3, <2>4, <2>8, <2>9, <2>10 DEF RollAdds
  <2> QED
    BY <2>1, <2>2, <2>3, <2>11
<1> QED
  BY <1>1, <1>2

\* The sample a collection stores: what overlaps the newest one is cut off.
LEMMA TakeCases ==
  ASSUME CollectorInv, Collector!Take
  PROVE  \E i \in 0..MaxGap, c \in Times :
           /\ sample' = [step |-> "roll", ts |-> clock, interval |-> i, cursor |-> c]
           /\ c = clock - i
           /\ i # 0 => lastTs <= c /\ previous # None /\ previous <= c
<1>1. PICK m \in {Collector!Elapsed, 0} :
        sample' = [step |-> "roll", ts |-> clock,
                   interval |-> Collector!Least(m, Collector!Most(0, clock - lastTs)),
                   cursor |-> clock - Collector!Least(m, Collector!Most(0, clock - lastTs))]
  BY DEF Collector!Take
<1>2. /\ m \in 0..MaxGap
      /\ m # 0 => previous # None /\ previous \in Int /\ m = clock - previous /\ previous >= 0
  BY CollectorHas DEF Collector!Elapsed, Times
<1>3. PICK i \in Int : i = Collector!Least(m, Collector!Most(0, clock - lastTs))
  BY <1>2, CollectorHas DEF Collector!Least, Collector!Most, Times
<1>4. /\ 0 <= i /\ i <= m /\ i <= clock
      /\ i # 0 => m # 0 /\ i <= clock - lastTs
  BY <1>2, <1>3, CollectorHas DEF Collector!Least, Collector!Most, Times
<1>5. clock - i \in Times /\ i \in 0..MaxGap
  BY <1>2, <1>3, <1>4, CollectorHas DEF Times
<1>6. i # 0 => lastTs <= clock - i /\ previous # None /\ previous <= clock - i
  BY <1>2, <1>3, <1>4, CollectorHas DEF Times
<1> QED
  BY <1>1, <1>3, <1>5, <1>6

LEMMA CollectorInit == Collector!Init => CollectorInv
<1> SUFFICES ASSUME Collector!Init
             PROVE  CollectorInv
  OBVIOUS
<1> USE RunnerAssumption DEF Collector!TelemetryAssumption
<1>1. PICK z : z = Collector!Resting
  OBVIOUS
<1>2. PICK w : w = [z EXCEPT !.step = "down"]
  OBVIOUS
<1>3. w = [step |-> "down", ts |-> 0, cursor |-> 0, interval |-> 0]
  BY <1>1, <1>2 DEF Collector!Resting
<1>4. sample = [step |-> "down", ts |-> 0, cursor |-> 0, interval |-> 0]
  BY <1>1, <1>2, <1>3 DEF Collector!Init
<1>5. sample \in Samples
  BY <1>4 DEF Samples, Times, Collector!Steps
<1>6. Collector!TypeOK
  <2>1. behind \in BOOLEAN
    BY DEF Collector!Init
  <2>2. clock \in Times /\ lastTs \in Times /\ newest \in Times
    BY DEF Collector!Init, Times
  <2>3. /\ previous = None /\ pending = None /\ checkpoint = None
        /\ rows \in [Collector!Starts -> Collector!Bucket \cup {None}] /\ finalized = {}
    BY DEF Collector!Init
  <2> QED
    BY <1>5, <2>1, <2>2, <2>3 DEF Collector!TypeOK, Samples, Times
<1>7. TimeInv
  BY <1>4 DEF Collector!Init, TimeInv
<1> QED
  BY <1>6, <1>7 DEF CollectorInv

LEMMA RestingIs ==
  Collector!Resting \in Samples
    /\ Collector!Resting = [step |-> "idle", ts |-> 0, cursor |-> 0, interval |-> 0]
BY RunnerAssumption DEF Collector!TelemetryAssumption, Collector!Resting, Samples, Times,
   Collector!Steps

LEMMA DownIs ==
  ASSUME sample' = [Collector!Resting EXCEPT !.step = "down"]
  PROVE  /\ sample' \in Samples
         /\ sample' = [step |-> "down", ts |-> 0, cursor |-> 0, interval |-> 0]
<1>1. PICK z : z = Collector!Resting
  OBVIOUS
<1>2. PICK w : w = [z EXCEPT !.step = "down"]
  OBVIOUS
<1>3. w = [step |-> "down", ts |-> 0, cursor |-> 0, interval |-> 0]
  BY <1>1, <1>2, RestingIs
<1>4. sample' = w
  BY <1>1, <1>2
<1>5. 0 \in Times /\ 0 \in 0..MaxGap /\ "down" \in Collector!Steps
  BY RunnerAssumption DEF Collector!TelemetryAssumption, Times, Collector!Steps
<1>6. w \in Samples
  BY <1>3, <1>5 DEF Samples
<1> QED
  BY <1>3, <1>4, <1>6

LEMMA SealedRows ==
  ASSUME CollectorInv, pending # None, Sealed
  PROVE  /\ rows' \in [Collector!Starts -> Collector!Bucket \cup {None}]
         /\ rows'[pending.ts] = pending
         /\ \A b \in Collector!Starts \ {pending.ts} : rows'[b] = rows[b]
         /\ finalized' \subseteq finalized \cup {pending.ts}
         /\ finalized' \subseteq Collector!Starts
         /\ finalized \subseteq finalized'
         /\ Collector!Valid(pending) => pending.ts \in finalized'
<1>1. pending \in Collector!Bucket /\ pending.ts \in Collector!Starts
  BY CollectorHas
<1> QED
  BY <1>1, CollectorHas DEF Sealed, CollectorInv, Collector!TypeOK

\* The reached time, of a sample that is being stored.
LEMMA ReachedIs ==
  ASSUME CollectorInv
  PROVE  /\ Collector!Reached \in Times /\ Collector!Reached <= newest
         /\ lastTs <= Collector!Reached /\ sample.ts <= Collector!Reached
BY CollectorHas DEF Collector!Reached, Collector!Most, CollectorInv, TimeInv, Times

LEMMA NotedIs ==
  ASSUME CollectorInv, Collector!Noted
  PROVE  /\ newest' \in Times /\ newest <= newest' /\ clock <= newest'
         /\ newest' \in {newest, clock}
         /\ behind' \in BOOLEAN /\ (behind => behind')
         /\ pending = None /\ ~behind' => newest' = clock
<1>1. /\ newest' \in Times /\ newest <= newest' /\ clock <= newest'
      /\ newest' \in {newest, clock}
  BY CollectorHas DEF Collector!Noted, Collector!Most, Times
<1>2. behind \in BOOLEAN
  BY DEF CollectorInv, Collector!TypeOK
<1>3. behind' \in BOOLEAN
  BY <1>2 DEF Collector!Noted, Collector!Unaware
<1>4. behind => behind'
  BY <1>2 DEF Collector!Noted, Collector!Unaware
<1>5. pending = None /\ ~behind' => ~(clock < newest)
  BY <1>2 DEF Collector!Noted, Collector!Unaware
<1>6. pending = None /\ ~behind' => newest' = clock
  BY <1>1, <1>5, CollectorHas DEF Times
<1> QED
  BY <1>1, <1>3, <1>4, <1>6

LEMMA CollectorStepInv ==
  ASSUME CollectorInv, [Collector!Next]_(Collector!telemetryVars)
  PROVE  CollectorInv'
<1>1. /\ behind \in BOOLEAN /\ finalized \subseteq Collector!Starts
      /\ rows \in [Collector!Starts -> Collector!Bucket \cup {None}]
      /\ pending \in Collector!Bucket \cup {None}
      /\ checkpoint \in Collector!Saved \cup {None}
  BY DEF CollectorInv, Collector!TypeOK
<1>2. CASE Collector!Take
  <2>1. PICK i \in 0..MaxGap, c \in Times :
          /\ sample' = [step |-> "roll", ts |-> clock, interval |-> i, cursor |-> c]
          /\ c = clock - i
          /\ i # 0 => lastTs <= c /\ previous # None /\ previous <= c
    BY <1>2, TakeCases
  <2>2. /\ sample' \in Samples /\ sample'.step = "roll" /\ sample'.ts = clock
        /\ sample'.cursor = c /\ sample'.interval = i
    BY <2>1, CollectorHas DEF Samples, Collector!Steps
  <2>3. /\ newest' \in Times /\ newest <= newest' /\ clock <= newest' /\ behind' \in BOOLEAN
    BY <1>2, NotedIs DEF Collector!Take
  <2>4. /\ previous' = clock
        /\ UNCHANGED <<clock, lastTs, pending, rows, finalized, checkpoint, reversals, halts,
                       failures>>
    BY <1>2 DEF Collector!Take, Collector!files, Collector!history, Collector!counts
  <2>5. TimeInv'
    BY <2>1, <2>2, <2>3, <2>4, CollectorHas DEF CollectorInv, TimeInv, Times
  <2>6. Collector!TypeOK'
    BY <1>1, <2>2, <2>3, <2>4, CollectorHas DEF Collector!TypeOK, Samples, Times
  <2> QED
    BY <2>5, <2>6 DEF CollectorInv
<1>3. CASE Collector!TakeWithout
  <2>1. sample' = [step |-> "retire", ts |-> clock, interval |-> 0, cursor |-> clock]
    BY <1>3 DEF Collector!TakeWithout
  <2>2. /\ sample' \in Samples /\ sample'.step = "retire" /\ sample'.ts = clock
        /\ sample'.cursor = clock /\ sample'.interval = 0
    BY <2>1, CollectorHas DEF Samples, Collector!Steps
  <2>3. /\ newest' \in Times /\ newest <= newest' /\ clock <= newest' /\ behind' \in BOOLEAN
    BY <1>3, NotedIs DEF Collector!TakeWithout
  <2>4. /\ previous' = None
        /\ UNCHANGED <<clock, lastTs, pending, rows, finalized, checkpoint, reversals, halts,
                       failures>>
    BY <1>3 DEF Collector!TakeWithout, Collector!files, Collector!history, Collector!counts
  <2>5. TimeInv'
    BY <2>2, <2>3, <2>4, CollectorHas DEF CollectorInv, TimeInv, Times
  <2>6. Collector!TypeOK'
    BY <1>1, <2>2, <2>3, <2>4, CollectorHas DEF Collector!TypeOK, Samples, Times
  <2> QED
    BY <2>5, <2>6 DEF CollectorInv
<1>4. CASE Collector!Roll
  <2>1. /\ UNCHANGED <<clock, previous, lastTs, checkpoint, reversals, halts, failures, newest,
                       behind>>
        /\ sample.step = "roll"
    BY <1>4 DEF Collector!Roll, Collector!counts, Collector!At
  <2>2. CASE RollSkips
    <3>1. PICK w \in Samples : w = sample
      BY CollectorHas
    <3>2. PICK v : v = [w EXCEPT !.step = "checkpoint"]
      OBVIOUS
    <3>3. v \in Samples /\ v.step = "checkpoint" /\ v.ts = w.ts /\ v.cursor = w.cursor
      BY <3>2 DEF Samples, Collector!Steps
    <3>4. sample' = v
      BY <2>2, <3>1, <3>2 DEF RollSkips
    <3>5. UNCHANGED <<pending, rows, finalized>>
      BY <2>2 DEF RollSkips
    <3>6. TimeInv'
      BY <2>1, <3>1, <3>3, <3>4, <3>5 DEF CollectorInv, TimeInv
    <3>7. Collector!TypeOK'
      BY <1>1, <2>1, <3>3, <3>4, <3>5, CollectorHas
      DEF CollectorInv, Collector!TypeOK, Samples, Times
    <3> QED
      BY <3>6, <3>7 DEF CollectorInv
  <2>3. ASSUME NEW b \in Collector!Starts, NEW e \in Times, NEW base \in Collector!Bucket,
               RollAdds(b, e, base)
        PROVE  CollectorInv'
    <3>1. pending' \in Collector!Bucket
      BY <2>3, Added, CollectorHas DEF RollAdds
    <3>2. /\ rows' \in [Collector!Starts -> Collector!Bucket \cup {None}]
          /\ finalized' \subseteq Collector!Starts
      BY <1>1, <2>3, SealedRows DEF RollAdds
    <3>3. PICK s \in {"roll", "checkpoint"} :
            sample' = [step |-> s, ts |-> sample.ts, cursor |-> e, interval |-> sample.interval]
      BY <2>3 DEF RollAdds
    <3>4. /\ sample' \in Samples /\ sample'.step = s /\ sample'.ts = sample.ts
          /\ sample'.cursor = e /\ sample'.interval = sample.interval
      BY <3>3, CollectorHas DEF Samples, Collector!Steps
    <3>5. sample.cursor <= e /\ e <= sample.ts
      BY <2>3 DEF RollAdds
    <3>6. TimeInv'
      BY <2>1, <3>4, <3>5, CollectorHas DEF CollectorInv, TimeInv, Times
    <3>7. Collector!TypeOK'
      BY <1>1, <2>1, <3>1, <3>2, <3>4, CollectorHas
         DEF CollectorInv, Collector!TypeOK, Samples, Times
    <3> QED
      BY <3>6, <3>7 DEF CollectorInv
  <2> QED
    BY <1>4, <2>2, <2>3, RollCases
<1>5. CASE Collector!Retire
  <2>1. /\ UNCHANGED <<clock, previous, lastTs, checkpoint, reversals, halts, failures, newest,
                       behind>>
        /\ sample.step = "retire"
    BY <1>5 DEF Collector!Retire, Collector!counts, Collector!At
  <2>2. PICK w \in Samples : w = sample
    BY CollectorHas
  <2>3. PICK v : v = [w EXCEPT !.step = "checkpoint"]
    OBVIOUS
  <2>4. v \in Samples /\ v.step = "checkpoint" /\ v.ts = w.ts /\ v.cursor = w.cursor
    BY <2>3 DEF Samples, Collector!Steps
  <2>5. sample' = v
    BY <1>5, <2>2, <2>3 DEF Collector!Retire
  <2>6. /\ pending' \in Collector!Bucket \cup {None}
        /\ rows' \in [Collector!Starts -> Collector!Bucket \cup {None}]
        /\ finalized' \subseteq Collector!Starts
    BY <1>1, <1>5, SealedRows DEF Collector!Retire, Collector!Seal, Collector!history, Sealed
  <2>7. TimeInv'
    BY <2>1, <2>2, <2>4, <2>5 DEF CollectorInv, TimeInv
  <2>8. Collector!TypeOK'
    BY <1>1, <2>1, <2>4, <2>5, <2>6, CollectorHas
       DEF CollectorInv, Collector!TypeOK, Samples, Times
  <2> QED
    BY <2>7, <2>8 DEF CollectorInv
<1>6. CASE Collector!Checkpoint
  <2>1. /\ UNCHANGED <<clock, previous, pending, rows, finalized, reversals, halts, failures,
                       newest, behind>>
        /\ lastTs' = Collector!Reached /\ sample' = Collector!Resting
        /\ checkpoint' = [ts |-> Collector!Reached, bucket |-> pending]
    BY <1>6 DEF Collector!Checkpoint, Collector!history, Collector!counts
  <2>2. checkpoint' \in Collector!Saved /\ checkpoint'.ts = Collector!Reached
    BY <1>1, <2>1, ReachedIs DEF Collector!Saved, Times
  <2>3. TimeInv'
    BY <2>1, <2>2, RestingIs, ReachedIs, CollectorHas DEF CollectorInv, TimeInv, Times
  <2>4. Collector!TypeOK'
    BY <1>1, <2>1, <2>2, RestingIs, ReachedIs, CollectorHas
       DEF CollectorInv, Collector!TypeOK, Samples, Times
  <2> QED
    BY <2>3, <2>4 DEF CollectorInv
<1>7. CASE Collector!WriteFails
  <2>1. /\ UNCHANGED <<clock, previous, pending, checkpoint, reversals, halts, newest, behind>>
        /\ lastTs' \in {lastTs, Collector!Reached} /\ sample' = Collector!Resting
        /\ failures' = failures + 1
    BY <1>7 DEF Collector!WriteFails
  <2>2. /\ rows' \in [Collector!Starts -> Collector!Bucket \cup {None}]
        /\ finalized' \subseteq Collector!Starts
    BY <1>1, <1>7, SealedRows DEF Collector!WriteFails, Collector!Seal, Collector!history, Sealed
  <2>3. TimeInv'
    BY <1>7, <2>1, RestingIs, ReachedIs, CollectorHas
       DEF CollectorInv, TimeInv, Times, Collector!WriteFails, Collector!At
  <2>4. Collector!TypeOK'
    BY <1>1, <2>1, <2>2, RestingIs, ReachedIs, CollectorHas
       DEF CollectorInv, Collector!TypeOK, Samples, Times
  <2> QED
    BY <2>3, <2>4 DEF CollectorInv
<1>8. CASE Collector!Crash
  <2>1. /\ UNCHANGED <<clock, rows, finalized, checkpoint, reversals, failures, newest, behind>>
        /\ previous' = None /\ lastTs' = 0 /\ pending' = None /\ halts' = halts + 1
        /\ sample' = [Collector!Resting EXCEPT !.step = "down"]
    BY <1>8 DEF Collector!Crash, Collector!files, Collector!history
  <2>2. TimeInv'
    BY <2>1, DownIs, CollectorHas DEF CollectorInv, TimeInv, Times
  <2>3. Collector!TypeOK'
    BY <1>1, <2>1, DownIs, CollectorHas DEF CollectorInv, Collector!TypeOK, Samples, Times
  <2> QED
    BY <2>2, <2>3 DEF CollectorInv
<1>9. CASE Collector!Initialize
  <2>1. /\ UNCHANGED <<clock, previous, rows, finalized, checkpoint, reversals, halts, failures,
                       newest>>
        /\ sample' = Collector!Resting /\ sample.step = "down"
    BY <1>9 DEF Collector!Initialize, Collector!files, Collector!history, Collector!counts,
       Collector!At
  <2>2. behind' \in BOOLEAN
    BY <1>1, <1>9 DEF Collector!Initialize, Collector!Unaware
  <2>3. \/ UNCHANGED <<lastTs, pending>>
        \/ /\ checkpoint # None /\ lastTs' = checkpoint.ts
           /\ pending' \in {None, checkpoint.bucket}
    BY <1>9 DEF Collector!Initialize
  <2>4. /\ lastTs' \in Times /\ lastTs' <= newest
        /\ pending' \in Collector!Bucket \cup {None}
    BY <1>1, <2>3, CollectorHas DEF CollectorInv, TimeInv
  <2>5. TimeInv'
    BY <2>1, <2>4, RestingIs, CollectorHas DEF CollectorInv, TimeInv, Times
  <2>6. Collector!TypeOK'
    BY <1>1, <2>1, <2>2, <2>4, RestingIs, CollectorHas
       DEF CollectorInv, Collector!TypeOK, Samples, Times
  <2> QED
    BY <2>5, <2>6 DEF CollectorInv
<1>10. CASE Collector!Tick \/ Collector!Reverse
  <2>1. /\ UNCHANGED <<previous, lastTs, pending, sample, rows, finalized, checkpoint, halts,
                       failures, newest, behind>>
        /\ clock' \in Times /\ reversals' \in Nat
    BY <1>10, CollectorHas DEF Collector!Tick, Collector!Reverse, Collector!memory,
       Collector!files, Collector!history, Collector!counts, Times, CollectorInv, TimeInv
  <2> QED
    BY <2>1 DEF CollectorInv, Collector!TypeOK, TimeInv, Times
<1>11. CASE UNCHANGED Collector!telemetryVars
  BY <1>11 DEF Collector!telemetryVars, CollectorInv, Collector!TypeOK, TimeInv
<1> QED
  BY <1>2, <1>3, <1>4, <1>5, <1>6, <1>7, <1>8, <1>9, <1>10, <1>11 DEF Collector!Next

-----------------------------------------------------------------------------
(* No tick is counted twice.                                                 *)
LEMMA UptoHas ==
  ASSUME CollectorInv
  PROVE  /\ Upto \in Times /\ lastTs <= Upto
         /\ sample.step = "roll" => sample.cursor <= Upto
         /\ sample.step = "roll" /\ sample.interval # 0 => Upto = sample.cursor
         /\ sample.step = "roll" => Upto <= Collector!Reached
         /\ sample.step = "idle" => Upto = lastTs
         /\ sample.step \in {"retire", "checkpoint"} => Upto = Collector!Reached
BY CollectorHas DEF Upto, Collector!Most, Collector!Reached, Times, CollectorInv, TimeInv

LEMMA FitsLater ==
  ASSUME NEW b \in Collector!Bucket, NEW s \in Times, NEW t \in Times, Fits(b, s), s <= t
  PROVE  Fits(b, t)
<1>1. \A i \in b.ticks : i \in Int /\ i < s
  BY RunnerAssumption DEF Fits, Collector!Bucket, Times, Collector!TelemetryAssumption
<1>2. s \in Int /\ t \in Int
  BY RunnerAssumption DEF Times, Collector!TelemetryAssumption
<1>3. \A i \in b.ticks : i < t
  BY <1>1, <1>2
<1> QED
  BY <1>3 DEF Fits

LEMMA CountStep ==
  ASSUME CollectorInv, CountInv, [Collector!Next]_(Collector!telemetryVars), CollectorInv'
  PROVE  CountInv'
<1> SUFFICES ASSUME failures' = 0
             PROVE  CountInv'
  BY DEF CountInv
<1>1. failures = 0 /\ ~Collector!WriteFails
  BY DEF CollectorInv, TimeInv, Collector!Next, Collector!Take, Collector!TakeWithout,
     Collector!Roll, Collector!Retire, Collector!Checkpoint, Collector!WriteFails,
     Collector!Crash, Collector!Initialize, Collector!Tick, Collector!Reverse,
     Collector!counts, Collector!telemetryVars
<1>2. /\ pending # None => pending \in Collector!Bucket /\ Fits(pending, Upto)
      /\ \A b \in Collector!Starts : rows[b] # None => Sound(rows[b])
      /\ checkpoint # None /\ checkpoint.bucket # None =>
           Fits(checkpoint.bucket, checkpoint.ts)
  BY <1>1, CollectorHas DEF CountInv
<1>3. Upto \in Times /\ Upto' \in Times
  <2>1. CollectorInv => Upto \in Times
    BY UptoHas
  <2>2. (CollectorInv => Upto \in Times)'
    BY UptoHas, PTL
  <2> QED
    BY <2>1, <2>2 DEF Times
<1>4. Upto' = Collector!Most(lastTs', IF sample'.step = "roll" THEN sample'.cursor ELSE sample'.ts)
  BY DEF Upto, Collector!Most
<1>5. ASSUME UNCHANGED <<pending, rows, checkpoint>>, Upto <= Upto'
      PROVE  CountInv'
  BY <1>2, <1>3, <1>5, FitsLater DEF CountInv
<1>6. CASE Collector!Take
  <2>1. PICK i \in 0..MaxGap, c \in Times :
          sample' = [step |-> "roll", ts |-> clock, interval |-> i, cursor |-> c]
    BY <1>6, TakeCases
  <2>2. /\ UNCHANGED <<pending, rows, checkpoint, lastTs>> /\ sample.step = "idle"
    BY <1>6 DEF Collector!Take, Collector!files, Collector!history, Collector!At
  <2>3. Upto' = Collector!Most(lastTs, c)
    BY <1>4, <2>1, <2>2
  <2>4. Upto <= Upto'
    BY <2>2, <2>3, UptoHas, CollectorHas DEF Collector!Most, Times
  <2> QED
    BY <1>5, <2>2, <2>4
<1>7. CASE Collector!TakeWithout
  <2>1. /\ UNCHANGED <<pending, rows, checkpoint, lastTs>> /\ sample.step = "idle"
        /\ sample' = [step |-> "retire", ts |-> clock, interval |-> 0, cursor |-> clock]
    BY <1>7 DEF Collector!TakeWithout, Collector!files, Collector!history, Collector!At
  <2>2. Upto' = Collector!Most(lastTs, clock)
    BY <1>4, <2>1
  <2>3. Upto <= Upto'
    BY <2>1, <2>2, UptoHas, CollectorHas DEF Collector!Most, Times
  <2> QED
    BY <1>5, <2>1, <2>3
<1>8. CASE Collector!Roll
  <2>1. /\ UNCHANGED <<lastTs, checkpoint>> /\ sample.step = "roll"
    BY <1>8 DEF Collector!Roll, Collector!At
  <2>2. CASE RollSkips
    <3>1. PICK w \in Samples : w = sample
      BY CollectorHas
    <3>2. PICK v : v = [w EXCEPT !.step = "checkpoint"]
      OBVIOUS
    <3>3. v.step = "checkpoint" /\ v.ts = w.ts
      BY <3>2 DEF Samples
    <3>4. sample' = v /\ UNCHANGED <<pending, rows>>
      BY <2>2, <3>1, <3>2 DEF RollSkips
    <3>5. Upto' = Collector!Reached
      BY <1>4, <2>1, <3>1, <3>3, <3>4 DEF Collector!Reached
    <3>6. Upto <= Upto'
      BY <2>1, <3>5, UptoHas
    <3> QED
      BY <1>5, <2>1, <3>4, <3>6
  <2>3. ASSUME NEW b \in Collector!Starts, NEW e \in Times, NEW base \in Collector!Bucket,
               RollAdds(b, e, base)
        PROVE  CountInv'
    <3>1. Fits(base, Upto)
      BY <1>2, <2>3, EmptyFits DEF RollAdds
    <3>2. PICK u \in Times : u = Upto
      BY <1>3
    <3>3. sample.cursor <= e /\ sample.interval # 0 => u <= sample.cursor
      BY <2>1, <2>3, <3>2, UptoHas, CollectorHas DEF RollAdds, Times
    <3>4. Fits(pending', IF u < e THEN e ELSE u)
      <4>1. /\ sample.cursor \in Times /\ sample.cursor <= e /\ e <= b + Width
            /\ base.ts = b /\ b <= sample.cursor
        BY <2>3, BucketOf, CollectorHas DEF RollAdds
      <4> QED
        BY <2>3, <3>1, <3>2, <3>3, <4>1, AddedFits DEF RollAdds
    <3>5. PICK s \in {"roll", "checkpoint"} :
            sample' = [step |-> s, ts |-> sample.ts, cursor |-> e, interval |-> sample.interval]
      BY <2>3 DEF RollAdds
    <3>6. Upto' = Collector!Most(lastTs, IF s = "roll" THEN e ELSE sample.ts)
      BY <1>4, <2>1, <3>5
    <3>7. sample.cursor <= e /\ e <= sample.ts
      BY <2>3 DEF RollAdds
    <3>8. u = Collector!Most(lastTs, sample.cursor)
      BY <2>1, <3>2 DEF Upto
    <3>9. e <= Upto' /\ u <= Upto'
      BY <3>6, <3>7, <3>8, CollectorHas DEF Collector!Most, Times
    <3>10. PICK m \in Times : m = IF u < e THEN e ELSE u
      OBVIOUS
    <3>11. pending' \in Collector!Bucket
      BY <2>3, Added, CollectorHas DEF RollAdds
    <3>12. Fits(pending', Upto')
      BY <1>3, <3>4, <3>9, <3>10, <3>11, FitsLater
    <3>13. \A i \in Collector!Starts : rows'[i] # None => Sound(rows'[i])
      <4>1. CASE rows' = rows
        BY <1>2, <4>1
      <4>2. CASE pending # None /\ Sealed
        BY <1>2, <4>2, SealedRows DEF Fits
      <4> QED
        BY <2>3, <4>1, <4>2 DEF RollAdds
    <3> QED
      BY <1>2, <2>1, <3>12, <3>13 DEF CountInv
  <2> QED
    BY <1>8, <2>2, <2>3, RollCases
<1>9. CASE Collector!Retire
  <2>1. /\ UNCHANGED <<lastTs, checkpoint>> /\ sample.step = "retire"
        /\ sample' = [sample EXCEPT !.step = "checkpoint"]
    BY <1>9 DEF Collector!Retire, Collector!At
  <2>2. PICK w \in Samples : w = sample
    BY CollectorHas
  <2>3. PICK v : v = [w EXCEPT !.step = "checkpoint"]
    OBVIOUS
  <2>4. v.step = "checkpoint" /\ v.ts = w.ts
    BY <2>3 DEF Samples
  <2>5. Upto' = Upto
    BY <1>4, <2>1, <2>2, <2>3, <2>4 DEF Upto
  <2>6. pending' # None => pending' = pending
    BY <1>9 DEF Collector!Retire
  <2>7. \A i \in Collector!Starts : rows'[i] # None => Sound(rows'[i])
    <3>1. CASE rows' = rows
      BY <1>2, <3>1
    <3>2. CASE pending # None /\ Sealed
      BY <1>2, <3>2, SealedRows DEF Fits
    <3> QED
      BY <1>9, <3>1, <3>2 DEF Collector!Retire, Collector!Seal, Collector!history, Sealed
  <2> QED
    BY <1>2, <2>1, <2>5, <2>6, <2>7 DEF CountInv
<1>10. CASE Collector!Checkpoint
  <2>1. /\ UNCHANGED <<pending, rows>> /\ sample.step = "checkpoint"
        /\ lastTs' = Collector!Reached /\ sample' = Collector!Resting
        /\ checkpoint' = [ts |-> Collector!Reached, bucket |-> pending]
    BY <1>10 DEF Collector!Checkpoint, Collector!history, Collector!At
  <2>2. Upto = Collector!Reached
    BY <2>1, UptoHas
  <2>3. Upto' = Collector!Most(Collector!Reached, 0)
    BY <1>4, <2>1, RestingIs
  <2>4. Upto' = Upto
    BY <1>3, <2>2, <2>3 DEF Collector!Most, Times
  <2>5. checkpoint'.ts = Upto /\ checkpoint'.bucket = pending
    BY <2>1, <2>2
  <2> QED
    BY <1>2, <2>1, <2>4, <2>5 DEF CountInv
<1>11. CASE Collector!Crash
  <2>1. pending' = None /\ UNCHANGED <<rows, checkpoint>>
    BY <1>11 DEF Collector!Crash, Collector!files, Collector!history
  <2> QED
    BY <1>2, <2>1 DEF CountInv
<1>12. CASE Collector!Initialize
  <2>1. /\ UNCHANGED <<rows, checkpoint>>
        /\ sample' = Collector!Resting /\ sample.step = "down"
    BY <1>12 DEF Collector!Initialize, Collector!files, Collector!history, Collector!At
  <2>2. \/ pending' = None
        \/ checkpoint # None /\ lastTs' = checkpoint.ts /\ pending' = checkpoint.bucket
    BY <1>12, <2>1 DEF Collector!Initialize, CollectorInv, TimeInv
  <2>3. CASE pending' = None
    BY <1>2, <2>1, <2>3 DEF CountInv
  <2>4. CASE checkpoint # None /\ lastTs' = checkpoint.ts /\ pending' = checkpoint.bucket
    <3>1. Upto' = Collector!Most(checkpoint.ts, 0)
      BY <1>4, <2>1, <2>4, RestingIs
    <3>2. Upto' = checkpoint.ts
      BY <2>4, <3>1, CollectorHas DEF Collector!Most, Times
    <3> QED
      BY <1>2, <2>1, <2>4, <3>2 DEF CountInv
  <2> QED
    BY <2>2, <2>3, <2>4
<1>13. CASE Collector!Tick \/ Collector!Reverse \/ UNCHANGED Collector!telemetryVars
  <2>1. UNCHANGED <<pending, rows, checkpoint, lastTs, sample>>
    BY <1>13 DEF Collector!Tick, Collector!Reverse, Collector!memory, Collector!files,
       Collector!history,
       Collector!telemetryVars
  <2>2. Upto' = Upto
    BY <2>1 DEF Upto, Collector!Most
  <2>3. Upto <= Upto'
    BY <1>3, <2>2, CollectorHas DEF Times
  <2> QED
    BY <1>5, <2>1, <2>3
<1> QED
  BY <1>1, <1>6, <1>7, <1>8, <1>9, <1>10, <1>11, <1>12, <1>13 DEF Collector!Next

\* No instant is accounted for twice in a bucket, however the clock is set back and wherever
\* the collector crashes, as long as no write failed.
THEOREM TicksCountOnce == Collector!Spec => []CountedOnce
<1>1. Collector!Init => CollectorInv /\ CountInv
  BY CollectorInit DEF Collector!Init, CountInv
<1>2. /\ CollectorInv /\ CountInv
      /\ [Collector!Next]_(Collector!telemetryVars)
      => (CollectorInv /\ CountInv)'
  BY CollectorStepInv, CountStep
<1>3. CountInv => CountedOnce
  BY SameSize DEF CountInv, Fits, Sound, CountedOnce, Collector!CountedOnce
<1> QED
  BY <1>1, <1>2, <1>3, PTL DEF Collector!Spec

-----------------------------------------------------------------------------
(* The history stays.                                                        *)

\* How the stored files change: not at all, by a bucket that is appended, or by the
\* checkpoint.
LEMMA FilesChange ==
  ASSUME CollectorInv, [Collector!Next]_(Collector!telemetryVars)
  PROVE  \/ UNCHANGED <<rows, finalized, checkpoint>>
         \/ pending # None /\ Sealed /\ UNCHANGED checkpoint
         \/ Collector!Checkpoint
<1>1. CASE Collector!Roll
  <2>1. UNCHANGED checkpoint
    BY <1>1 DEF Collector!Roll
  <2> QED
    BY <1>1, <2>1, RollCases DEF RollSkips, RollAdds
<1>2. CASE Collector!Retire
  BY <1>2 DEF Collector!Retire, Collector!Seal, Collector!history, Sealed
<1>3. CASE Collector!WriteFails
  BY <1>3 DEF Collector!WriteFails, Collector!Seal, Collector!history, Sealed
<1>4. CASE \/ Collector!Take \/ Collector!TakeWithout \/ Collector!Crash \/ Collector!Initialize
           \/ Collector!Tick \/ Collector!Reverse
  BY <1>4 DEF Collector!Take, Collector!TakeWithout, Collector!Crash, Collector!Initialize,
     Collector!Tick, Collector!Reverse, Collector!files, Collector!history
<1>5. CASE UNCHANGED Collector!telemetryVars
  BY <1>5 DEF Collector!telemetryVars
<1> QED
  BY <1>1, <1>2, <1>3, <1>4, <1>5 DEF Collector!Next

\* Once the open bucket is appended, no bucket is in the checkpoint alone.
LEMMA SealedCheckpoint ==
  ASSUME CollectorInv, CheckpointInv, sample.step # "down", pending # None, Sealed,
         UNCHANGED checkpoint
  PROVE  CheckpointInv'
<1>1. ASSUME checkpoint # None, Collector!Valid(checkpoint.bucket)
      PROVE  rows'[checkpoint.bucket.ts] # None
  <2>1. checkpoint.bucket.ts \in Collector!Starts
    BY <1>1, CollectorHas DEF Collector!Valid
  <2>2. CASE rows[checkpoint.bucket.ts] = None
    BY <1>1, <2>2, SealedRows DEF CheckpointInv
  <2>3. CASE rows[checkpoint.bucket.ts] # None
    BY <2>1, <2>3, SealedRows
  <2> QED
    BY <2>2, <2>3
<1> QED
  BY <1>1 DEF CheckpointInv, Collector!Valid

\* A collector that was once behind its history stays recorded as such.
LEMMA BehindStays ==
  ASSUME CollectorInv, [Collector!Next]_(Collector!telemetryVars), ~behind'
  PROVE  ~behind
<1>1. behind \in BOOLEAN
  BY DEF CollectorInv, Collector!TypeOK
<1> QED
  BY <1>1 DEF Collector!Next, Collector!Take, Collector!TakeWithout, Collector!Roll,
     Collector!Retire, Collector!Checkpoint, Collector!WriteFails, Collector!Crash,
     Collector!Initialize, Collector!Tick, Collector!Reverse, Collector!Noted,
     Collector!Unaware, Collector!telemetryVars

\* What is appended is recorded as such when it is valid, and is all there is of its bucket.
AppendedInv ==
  /\ \A b \in Collector!Starts : Collector!Valid(rows[b]) => b \in finalized
  /\ \A b \in finalized : b \in Collector!Starts /\ rows[b] # None

LEMMA SealedFinalized ==
  ASSUME CollectorInv, RowsInv, pending # None, Sealed, pending.ts + Width <= newest
  PROVE  /\ \A s \in finalized' : s <= pending.ts /\ s + Width <= newest
         /\ AppendedInv'
<1>1. /\ pending.ts \in Collector!Starts /\ finalized \subseteq Collector!Starts
      /\ \A s \in Collector!Starts : s \in Int
  BY CollectorHas DEF Times
<1>2. \A s \in finalized : s <= pending.ts /\ s + Width <= newest
  BY <1>1 DEF RowsInv
<1>3. \A s \in finalized' : s <= pending.ts /\ s + Width <= newest
  BY <1>1, <1>2, SealedRows
<1>4. \A s \in Collector!Starts : Collector!Valid(rows'[s]) => s \in finalized'
  <2> SUFFICES ASSUME NEW s \in Collector!Starts, Collector!Valid(rows'[s])
               PROVE  s \in finalized'
    OBVIOUS
  <2>1. CASE s = pending.ts
    BY <2>1, SealedRows
  <2>2. CASE s # pending.ts
    BY <2>2, SealedRows DEF RowsInv
  <2> QED
    BY <2>1, <2>2
<1>5. \A s \in finalized' : s \in Collector!Starts /\ rows'[s] # None
  <2> SUFFICES ASSUME NEW s \in finalized'
               PROVE  s \in Collector!Starts /\ rows'[s] # None
    OBVIOUS
  <2>1. CASE s = pending.ts
    BY <1>1, <2>1, SealedRows
  <2>2. CASE s # pending.ts
    BY <1>1, <2>2, SealedRows DEF RowsInv
  <2> QED
    BY <2>1, <2>2
<1> QED
  BY <1>3, <1>4, <1>5 DEF AppendedInv, Collector!Valid

LEMMA HistoryStep ==
  ASSUME CollectorInv, HistoryInv, [Collector!Next]_(Collector!telemetryVars), CollectorInv'
  PROVE  HistoryInv'
<1> SUFFICES ASSUME ~behind'
             PROVE  /\ RowsInv' /\ CheckpointInv'
                    /\ pending' = None /\ previous' # None => previous' = newest'
  BY DEF HistoryInv
<1>1. ~behind
  BY BehindStays
<1>2. /\ RowsInv /\ CheckpointInv
      /\ pending = None /\ previous # None => previous = newest
  BY <1>1 DEF HistoryInv
<1>3. /\ \A b \in Collector!Starts : b \in Int /\ b + Width \in Int
      /\ finalized \subseteq Collector!Starts
  BY CollectorHas DEF Times
<1>4. CASE Collector!Take
  <2>1. PICK i \in 0..MaxGap, c \in Times :
          /\ sample' = [step |-> "roll", ts |-> clock, interval |-> i, cursor |-> c]
          /\ c = clock - i
          /\ i # 0 => lastTs <= c /\ previous # None /\ previous <= c
    BY <1>4, TakeCases
  <2>2. /\ UNCHANGED <<pending, rows, finalized, checkpoint>> /\ sample.step = "idle"
        /\ previous' = clock
    BY <1>4 DEF Collector!Take, Collector!files, Collector!history, Collector!At
  <2>3. /\ newest' \in Times /\ newest <= newest'
        /\ pending = None => newest' = clock
    BY <1>4, NotedIs DEF Collector!Take
  <2>4. pending = None => newest <= c
    BY <1>2, <2>1, <2>3, CollectorHas DEF Times
  <2>5. \A b \in finalized : b + Width <= newest' /\ (pending = None => b + Width <= c)
    BY <1>2, <1>3, <2>3, <2>4, CollectorHas DEF RowsInv, Times
  <2>6. RowsInv'
    BY <1>2, <2>1, <2>2, <2>5 DEF RowsInv, Collector!Valid
  <2>7. CheckpointInv'
    BY <1>2, <2>1, <2>2 DEF CheckpointInv, Collector!Valid
  <2> QED
    BY <2>2, <2>3, <2>6, <2>7
<1>5. CASE Collector!TakeWithout
  <2>1. /\ UNCHANGED <<pending, rows, finalized, checkpoint>> /\ sample.step = "idle"
        /\ previous' = None
        /\ sample' = [step |-> "retire", ts |-> clock, interval |-> 0, cursor |-> clock]
    BY <1>5 DEF Collector!TakeWithout, Collector!files, Collector!history, Collector!At
  <2>2. newest' \in Times /\ newest <= newest'
    BY <1>5, NotedIs DEF Collector!TakeWithout
  <2>3. \A b \in finalized : b + Width <= newest'
    BY <1>2, <1>3, <2>2, CollectorHas DEF RowsInv, Times
  <2> QED
    BY <1>2, <2>1, <2>3 DEF RowsInv, CheckpointInv, Collector!Valid
<1>6. CASE Collector!Roll
  <2>1. UNCHANGED <<checkpoint, previous, newest>> /\ sample.step = "roll"
    BY <1>6 DEF Collector!Roll, Collector!At
  <2>2. CASE RollSkips
    <3>1. PICK w \in Samples : w = sample
      BY CollectorHas
    <3>2. PICK v : v = [w EXCEPT !.step = "checkpoint"]
      OBVIOUS
    <3>3. v.step = "checkpoint"
      BY <3>2 DEF Samples
    <3>4. /\ sample'.step = "checkpoint" /\ UNCHANGED <<pending, rows, finalized>>
          /\ pending # None
      BY <2>2, <3>1, <3>2, <3>3 DEF RollSkips
    <3> QED
      BY <1>2, <2>1, <3>4 DEF RowsInv, CheckpointInv, Collector!Valid
  <2>3. ASSUME NEW b \in Collector!Starts, NEW e \in Times, NEW base \in Collector!Bucket,
               RollAdds(b, e, base)
        PROVE  /\ RowsInv' /\ CheckpointInv'
               /\ pending' = None /\ previous' # None => previous' = newest'
    <3>1. /\ pending' \in Collector!Bucket /\ pending'.ts = b /\ base.ticks \subseteq pending'.ticks
          /\ base.ts = b
      BY <2>3, Added, CollectorHas DEF RollAdds
    <3>2. pending' # None
      BY <3>1, RunnerAssumption DEF Collector!TelemetryAssumption
    <3>3. b <= sample.cursor /\ sample.cursor < b + Width
      BY <2>3, BucketOf, CollectorHas DEF RollAdds
    <3>4. CASE pending # None /\ base = pending /\ UNCHANGED <<rows, finalized>>
      <4>1. sample'.step # "down" /\ pending.ts = b /\ pending.ticks \subseteq pending'.ticks
        BY <2>3, <3>1, <3>4 DEF RollAdds
      <4> QED
        BY <1>2, <2>1, <3>1, <3>2, <3>4, <4>1 DEF RowsInv, CheckpointInv, Collector!Valid
    <3>5. CASE pending = None /\ base = Collector!Empty(b) /\ UNCHANGED <<rows, finalized>>
      <4>1. \A s \in finalized : s < b
        BY <1>2, <1>3, <2>1, <3>3, <3>5, CollectorHas DEF RowsInv, Times
      <4>2. RowsInv'
        BY <1>2, <1>3, <2>1, <3>1, <3>2, <3>5, <4>1 DEF RowsInv, Collector!Valid
      <4>3. CheckpointInv'
        BY <1>2, <2>1, <3>5 DEF CheckpointInv, Collector!Valid
      <4> QED
        BY <3>2, <4>2, <4>3
    <3>6. CASE pending # None /\ pending.ts < b /\ base = Collector!Empty(b) /\ Sealed
      <4>2. pending.ts \in Collector!Starts /\ pending.ts + Width <= b
        BY <3>6, BucketsApart, CollectorHas
      <4>3. pending.ts + Width <= newest
        BY <1>3, <3>3, <4>2, CollectorHas DEF CollectorInv, TimeInv, Times
      <4>4. /\ \A s \in finalized' : s <= pending.ts /\ s + Width <= newest
            /\ AppendedInv'
        BY <1>2, <3>6, <4>3, SealedFinalized
      <4>5. \A s \in finalized' : s \in Collector!Starts /\ s < b
        BY <1>3, <3>6, <4>2, <4>4, SealedRows
      <4>6. RowsInv'
        BY <1>3, <2>1, <3>1, <3>2, <4>4, <4>5 DEF RowsInv, AppendedInv
      <4>7. CheckpointInv'
        BY <1>2, <2>1, <3>6, SealedCheckpoint
      <4> QED
        BY <3>2, <4>6, <4>7
    <3> QED
      BY <2>3, <3>4, <3>5, <3>6 DEF RollAdds
  <2> QED
    BY <1>6, <2>2, <2>3, RollCases
<1>7. CASE Collector!Retire
  <2>1. /\ UNCHANGED <<checkpoint, previous, newest>> /\ sample.step = "retire"
        /\ sample' = [sample EXCEPT !.step = "checkpoint"]
    BY <1>7 DEF Collector!Retire, Collector!At
  <2>2. PICK w \in Samples : w = sample
    BY CollectorHas
  <2>3. PICK v : v = [w EXCEPT !.step = "checkpoint"]
    OBVIOUS
  <2>4. v.step = "checkpoint"
    BY <2>3 DEF Samples
  <2>5. sample'.step = "checkpoint" /\ previous' = None
    BY <2>1, <2>2, <2>3, <2>4 DEF CollectorInv, TimeInv
  <2>6. CASE UNCHANGED <<rows, finalized, pending>>
    BY <1>2, <2>1, <2>5, <2>6 DEF RowsInv, CheckpointInv, Collector!Valid
  <2>7. CASE pending # None /\ pending.ts + Width <= sample.ts /\ Sealed /\ pending' = None
    <3>1. pending.ts \in Collector!Starts /\ pending.ts + Width <= newest
      BY <1>3, <2>7, CollectorHas DEF CollectorInv, TimeInv, Times
    <3>2. (\A s \in finalized' : s + Width <= newest) /\ AppendedInv'
      BY <1>2, <2>7, <3>1, SealedFinalized
    <3>3. CheckpointInv'
      BY <1>2, <2>1, <2>7, SealedCheckpoint
    <3> QED
      BY <2>1, <2>5, <2>7, <3>2, <3>3 DEF RowsInv, AppendedInv
  <2> QED
    BY <1>7, <2>6, <2>7 DEF Collector!Retire, Collector!Seal, Collector!history, Sealed
<1>8. CASE Collector!Checkpoint
  <2>1. /\ UNCHANGED <<pending, rows, finalized, previous, newest>> /\ sample.step = "checkpoint"
        /\ sample' = Collector!Resting
        /\ checkpoint' = [ts |-> Collector!Reached, bucket |-> pending]
    BY <1>8 DEF Collector!Checkpoint, Collector!history, Collector!At
  <2>2. sample'.step = "idle" /\ checkpoint'.bucket = pending
    BY <2>1, RestingIs
  <2>3. pending # None =>
          \A s \in finalized : rows[pending.ts] = None => s < pending.ts
    BY <1>2, <1>3, CollectorHas DEF RowsInv
  <2> QED
    BY <1>2, <2>1, <2>2, <2>3 DEF RowsInv, CheckpointInv, Collector!Valid
<1>9. CASE Collector!WriteFails
  <2>1. /\ UNCHANGED <<pending, checkpoint, previous, newest>> /\ sample.step # "down"
        /\ sample' = Collector!Resting
    BY <1>9 DEF Collector!WriteFails, Collector!At
  <2>2. sample'.step = "idle"
    BY <2>1, RestingIs
  <2>3. CASE UNCHANGED <<rows, finalized>>
    BY <1>2, <2>1, <2>2, <2>3 DEF RowsInv, CheckpointInv, Collector!Valid
  <2>4. CASE pending # None /\ Collector!StartOf(sample.cursor) > pending.ts /\ Sealed
    <3>1. /\ Collector!StartOf(sample.cursor) \in Collector!Starts
          /\ Collector!StartOf(sample.cursor) <= sample.cursor
          /\ pending.ts \in Collector!Starts
      BY <2>4, BucketOf, CollectorHas
    <3>2. pending.ts + Width <= Collector!StartOf(sample.cursor)
      BY <1>3, <2>4, <3>1, BucketsApart
    <3>3. pending.ts + Width <= newest
      BY <1>3, <3>1, <3>2, CollectorHas DEF CollectorInv, TimeInv, Times
    <3>4. /\ \A s \in finalized' : s + Width <= newest /\ s <= pending.ts
          /\ AppendedInv' /\ rows'[pending.ts] = pending
      BY <1>2, <2>4, <3>3, SealedFinalized, SealedRows
    <3>5. RowsInv'
      BY <2>1, <2>2, <2>4, <3>4 DEF RowsInv, AppendedInv
    <3>6. CheckpointInv'
      BY <1>2, <2>1, <2>4, SealedCheckpoint
    <3> QED
      BY <1>2, <2>1, <3>5, <3>6
  <2> QED
    BY <1>9, <2>3, <2>4 DEF Collector!WriteFails, Collector!Seal, Collector!history, Sealed
<1>10. CASE Collector!Crash
  <2>1. /\ pending' = None /\ previous' = None /\ UNCHANGED <<rows, finalized, checkpoint, newest>>
        /\ sample'.step = "down"
    BY <1>10, DownIs DEF Collector!Crash, Collector!files, Collector!history
  <2> QED
    BY <1>2, <2>1 DEF RowsInv, CheckpointInv, Collector!Valid
<1>11. CASE Collector!Initialize
  <2>1. /\ UNCHANGED <<rows, finalized, checkpoint, newest>>
        /\ sample'.step = "idle" /\ sample.step = "down"
        /\ previous' = None /\ pending = None
    BY <1>11, RestingIs DEF Collector!Initialize, Collector!files, Collector!history,
       Collector!At, CollectorInv, TimeInv
  <2>2. newest <= clock
    <3>1. ~(clock < newest)
      BY <1>1, <1>11 DEF Collector!Initialize, Collector!Unaware
    <3> QED
      BY <3>1, CollectorHas DEF Times
  <2>3. \A b \in finalized : b + Width <= newest /\ b <= clock
    BY <1>2, <1>3, <2>2, CollectorHas DEF RowsInv, Times
  <2>4. CASE pending' = None /\ ~(checkpoint # None /\ Collector!Valid(checkpoint.bucket))
    BY <1>2, <2>1, <2>4 DEF RowsInv, CheckpointInv, Collector!Valid
  <2>5. CASE checkpoint # None /\ Collector!Valid(checkpoint.bucket)
    <3>1. checkpoint.ts <= clock
      BY <2>2, <2>5, CollectorHas DEF CollectorInv, TimeInv, Times
    <3>2. checkpoint.bucket # None /\ checkpoint.bucket.ts \in Collector!Starts
      BY <2>5, CollectorHas DEF Collector!Valid
    <3>3. CASE Collector!HasFinalized(checkpoint.bucket.ts)
      <4>1. pending' = None
        BY <1>11, <2>5, <3>1, <3>3 DEF Collector!Initialize
      <4>2. PICK s \in finalized : s >= checkpoint.bucket.ts
        BY <3>3 DEF Collector!HasFinalized
      <4>3. rows[checkpoint.bucket.ts] # None
        BY <1>2, <1>3, <2>5, <3>2, <4>2 DEF CheckpointInv
      <4>4. RowsInv'
        BY <1>2, <2>1, <4>1 DEF RowsInv, Collector!Valid
      <4>5. CheckpointInv'
        BY <2>1, <4>3 DEF CheckpointInv
      <4> QED
        BY <2>1, <4>4, <4>5
    <3>4. CASE ~Collector!HasFinalized(checkpoint.bucket.ts)
      <4>1. pending' = checkpoint.bucket
        BY <1>11, <2>5, <3>1, <3>4 DEF Collector!Initialize
      <4>2. \A s \in finalized : s < checkpoint.bucket.ts
        BY <1>3, <2>3, <3>2, <3>4 DEF Collector!HasFinalized
      <4>3. RowsInv'
        BY <1>2, <1>3, <2>1, <2>3, <3>2, <4>1, <4>2 DEF RowsInv, Collector!Valid
      <4>4. CheckpointInv'
        BY <2>1, <3>2, <4>1, <4>2 DEF CheckpointInv
      <4> QED
        BY <2>1, <4>3, <4>4
    <3> QED
      BY <3>3, <3>4
  <2>6. pending' = None \/ (checkpoint # None /\ Collector!Valid(checkpoint.bucket))
    BY <1>11, <2>1 DEF Collector!Initialize
  <2> QED
    BY <2>4, <2>5, <2>6
<1>12. CASE Collector!Tick \/ Collector!Reverse \/ UNCHANGED Collector!telemetryVars
  <2>1. UNCHANGED <<pending, rows, finalized, checkpoint, sample, previous, newest>>
    BY <1>12 DEF Collector!Tick, Collector!Reverse, Collector!memory, Collector!files,
       Collector!history, Collector!telemetryVars
  <2> QED
    BY <1>2, <2>1 DEF RowsInv, CheckpointInv, Collector!Valid
<1> QED
  BY <1>4, <1>5, <1>6, <1>7, <1>8, <1>9, <1>10, <1>11, <1>12 DEF Collector!Next

\* A reader loses nothing, unless the bucket weighs more than it lasts.
Outgrown(b) == Collector!Stands(b) # None /\ ~Collector!Valid(Collector!Stands(b))

LEMMA ReadableStep ==
  ASSUME CollectorInv, HistoryInv, [Collector!Next]_(Collector!telemetryVars), ~behind',
         ~behind, NEW b \in Collector!Starts
  PROVE  Collector!Readable(b) \subseteq Collector!Readable(b)' \/ Outgrown(b)'
<1>1. RowsInv /\ CheckpointInv
  BY DEF HistoryInv
<1>2. CASE UNCHANGED <<rows, finalized, checkpoint>>
  BY <1>2 DEF Collector!Readable, Collector!Stands, Collector!Valid
<1>3. CASE pending # None /\ Sealed /\ UNCHANGED checkpoint
  <2>1. CASE b # pending.ts
    <3>1. rows'[b] = rows[b]
      BY <1>3, <2>1, SealedRows
    <3> QED
      BY <1>3, <3>1 DEF Collector!Readable, Collector!Stands, Collector!Valid
  <2>2. CASE b = pending.ts
    <3>1. Collector!Stands(b)' = pending
      BY <1>3, <2>2, SealedRows DEF Collector!Stands
    <3>2. CASE Collector!Valid(pending)
      <4>1. Collector!Readable(b)' = pending.ticks
        BY <3>1, <3>2 DEF Collector!Readable, Collector!Valid
      <4>2. Collector!Valid(rows[b]) => rows[b].ticks \subseteq pending.ticks
        BY <1>1, <1>3, <2>2 DEF RowsInv
      <4>3. rows[b] = None /\ checkpoint # None /\ Collector!Valid(checkpoint.bucket)
              /\ checkpoint.bucket.ts = b => checkpoint.bucket.ticks \subseteq pending.ticks
        BY <1>1, <1>3, <2>2 DEF CheckpointInv, CollectorInv, TimeInv
      <4>4. Collector!Readable(b) \subseteq pending.ticks
        BY <4>2, <4>3 DEF Collector!Readable, Collector!Stands, Collector!Valid
      <4> QED
        BY <4>1, <4>4
    <3>3. CASE ~Collector!Valid(pending)
      BY <1>3, <3>1, <3>3 DEF Outgrown, Collector!Valid
    <3> QED
      BY <3>2, <3>3
  <2> QED
    BY <2>1, <2>2
<1>4. CASE Collector!Checkpoint
  <2>1. /\ rows' = rows /\ sample.step = "checkpoint"
        /\ checkpoint' = [ts |-> Collector!Reached, bucket |-> pending]
    BY <1>4 DEF Collector!Checkpoint, Collector!history, Collector!At
  <2>2. checkpoint'.bucket = pending /\ checkpoint' # None
    <3>1. pending \in Collector!Bucket \cup {None}
      BY DEF CollectorInv, Collector!TypeOK
    <3>2. checkpoint' \in Collector!Saved
      BY <2>1, <3>1, ReachedIs DEF Collector!Saved, Times
    <3> QED
      BY <2>1, <3>2, RunnerAssumption DEF Collector!TelemetryAssumption
  <2>3. CASE rows[b] # None
    BY <2>1, <2>3 DEF Collector!Readable, Collector!Stands, Collector!Valid
  <2>4. CASE rows[b] = None
    <3>1. CASE Collector!Readable(b) = {}
      BY <3>1
    <3>2. CASE Collector!Readable(b) # {}
      <4>1. /\ checkpoint # None /\ Collector!Valid(checkpoint.bucket)
            /\ checkpoint.bucket.ts = b /\ Collector!Readable(b) = checkpoint.bucket.ticks
        BY <2>4, <3>2 DEF Collector!Readable, Collector!Stands, Collector!Valid
      <4>2. /\ pending # None /\ pending.ts = b
            /\ checkpoint.bucket.ticks \subseteq pending.ticks
        BY <1>1, <2>1, <2>4, <4>1 DEF CheckpointInv
      <4>3. Collector!Stands(b)' = pending
        BY <2>1, <2>2, <2>4, <4>2 DEF Collector!Stands
      <4> QED
        BY <4>1, <4>2, <4>3 DEF Collector!Readable, Outgrown, Collector!Valid
    <3> QED
      BY <3>1, <3>2
  <2> QED
    BY <2>3, <2>4
<1> QED
  BY <1>2, <1>3, <1>4, FilesChange

\* As long as no write failed no bucket weighs more than it lasts.
LEMMA NoneOutgrown ==
  CollectorInv /\ CountInv /\ ~(failures > 0) => \A b \in Collector!Starts : ~Outgrown(b)
<1> SUFFICES ASSUME CollectorInv, CountInv, ~(failures > 0), NEW b \in Collector!Starts
             PROVE  ~Outgrown(b)
  OBVIOUS
<1>1. failures = 0
  BY DEF CollectorInv, TimeInv
<1>2. CASE rows[b] # None
  <2>1. rows[b] \in Collector!Bucket /\ Sound(rows[b])
    BY <1>1, <1>2 DEF CountInv, CollectorInv, Collector!TypeOK
  <2>2. Collector!Valid(rows[b])
    BY <2>1, SoundIsValid
  <2> QED
    BY <1>2, <2>2 DEF Outgrown, Collector!Stands
<1>3. CASE rows[b] = None
  <2>1. CASE checkpoint # None /\ checkpoint.bucket # None
    <3>1. checkpoint.bucket \in Collector!Bucket /\ Sound(checkpoint.bucket)
      BY <1>1, <2>1, CollectorHas DEF CountInv, Fits
    <3>2. Collector!Valid(checkpoint.bucket)
      BY <3>1, SoundIsValid
    <3> QED
      BY <1>3, <3>2 DEF Outgrown, Collector!Stands
  <2>2. CASE ~(checkpoint # None /\ checkpoint.bucket # None)
    BY <1>3, <2>2 DEF Outgrown, Collector!Stands
  <2> QED
    BY <2>1, <2>2
<1> QED
  BY <1>2, <1>3

\* What a reader can find of the past is not lost again: not by a crash between an append
\* and the checkpoint, nor by a clock set back while an open bucket is known, nor by a
\* failed write, unless the bucket has come to weigh more than it lasts.
THEOREM HistoryIsKept == Collector!Spec => HistoryStays
<1>1. Collector!Init => CollectorInv /\ CountInv /\ HistoryInv
  <2> SUFFICES ASSUME Collector!Init
               PROVE  CountInv /\ RowsInv /\ CheckpointInv /\ previous = None
    BY CollectorInit DEF HistoryInv
  <2> QED
    BY DEF Collector!Init, CountInv, RowsInv, CheckpointInv, Collector!Valid
<1>2. /\ CollectorInv /\ CountInv /\ HistoryInv
      /\ [Collector!Next]_(Collector!telemetryVars)
      => (CollectorInv /\ CountInv /\ HistoryInv)'
  BY CollectorStepInv, CountStep, HistoryStep
<1>3. (CollectorInv /\ CountInv /\ ~(failures > 0)
         => \A b \in Collector!Starts : ~Outgrown(b))'
  BY NoneOutgrown, PTL
<1>4. /\ CollectorInv /\ CountInv /\ HistoryInv
      /\ [Collector!Next]_(Collector!telemetryVars)
      /\ (CollectorInv /\ CountInv)'
      => [~behind' => \A b \in Collector!Starts :
            \/ Collector!Readable(b) \subseteq Collector!Readable(b)'
            \/ failures' > 0 /\ Outgrown(b)']_(Collector!telemetryVars)
  <2> SUFFICES ASSUME CollectorInv, HistoryInv, [Collector!Next]_(Collector!telemetryVars),
                      (CollectorInv /\ CountInv)', ~behind', NEW b \in Collector!Starts
               PROVE  \/ Collector!Readable(b) \subseteq Collector!Readable(b)'
                      \/ failures' > 0 /\ Outgrown(b)'
    OBVIOUS
  <2>1. ~behind
    BY BehindStays
  <2>2. Collector!Readable(b) \subseteq Collector!Readable(b)' \/ Outgrown(b)'
    BY <2>1, ReadableStep
  <2>3. Outgrown(b)' => failures' > 0
    BY <1>3
  <2> QED
    BY <2>2, <2>3
<1> QED
  BY <1>1, <1>2, <1>4, PTL DEF Collector!Spec, HistoryStays, Collector!HistoryStays, Outgrown

-----------------------------------------------------------------------------
(* Migrations.  A pass works on one container at a time, which it stops,    *)
(* renames and replaces, and restores when that fails.                      *)

MigrationPlaces ==
  {"idle", "split", "stop", "detach", "snapshot", "rename", "provision", "create", "startdev",
   "start", "probe", "ready", "drop", "discard", "remove", "back", "reconnect", "restart", "fail",
   "failed", "hold", "names", "volume", "copy", "copying", "verify", "held", "rest", "make",
   "boot", "tail", "sync"}

PassRecords ==
  [pc : MigrationPlaces, active : BOOLEAN, request : {"none", "start", "stop"},
   then : {"hold", "sync"}, job : {"none", "split", "naming"},
   at : Migration!Names \cup {"none"}, found : Migration!Container \cup {None},
   start : BOOLEAN, copies : BOOLEAN, hold : BOOLEAN, bad : BOOLEAN, renamed : BOOLEAN,
   cut : BOOLEAN, unclear : BOOLEAN]

Boxes == [Migration!Places -> Migration!Container \cup {None}]

\* The places of a migration before the container is renamed, after that, and of its
\* rollback before the container is back and after that.
SplitOnly  == {"detach", "snapshot", "create", "startdev", "probe", "ready", "discard"}
NamingOnly == {"volume", "copy", "copying", "verify"}
Ahead      == {"stop", "detach", "snapshot", "rename"} \cup NamingOnly
After      == {"provision", "start", "drop", "create", "startdev", "probe", "ready"}
Undoing    == {"discard", "remove", "back"}
Restoring  == {"reconnect", "restart", "fail", "failed"}
InJob      == Ahead \cup After \cup Undoing \cup Restoring

\* What a place says of the other local variables.
JobFits(p) ==
  /\ p.pc \in SplitOnly => p.job = "split"
  /\ p.pc \in NamingOnly => p.job = "naming"
  /\ p.pc \in InJob => p.job \in {"split", "naming"}
  /\ p.pc \in InJob \ NamingOnly => p.found # None
  /\ p.pc \in InJob /\ p.found # None => p.at \in Migration!Names /\ (p.cut => p.found.ssh)
  /\ p.pc \in Ahead => ~p.renamed
  /\ p.pc \in After => p.renamed

AsideOf(p) == IF p.job = "split" THEN Migration!Before[p.at] ELSE Migration!Previous

\* The container c is the one found, stopped or not, on its network or not.
IsFound(p, c, ssh) ==
  /\ c # None /\ c.kind = p.found.kind /\ c.layer = p.found.layer /\ c.volume = p.found.volume
  /\ (c.up => p.found.up) /\ c.ssh = ssh

\* The container found is under its name until it is renamed, and set aside from then on.
FoundIsThere(p, b) ==
  IF p.renamed THEN IsFound(p, b[AsideOf(p)], p.found.ssh /\ ~p.cut)
  ELSE IsFound(p, b[p.at], p.found.ssh /\ ~p.cut) /\ b[AsideOf(p)] = None

\* The containers at each place; what a rollback does not know of is not covered.
BoxesFit(p, b) ==
  /\ p.pc \in Ahead \cup After /\ p.found # None => FoundIsThere(p, b)
  /\ p.pc \in Undoing /\ ~p.unclear => FoundIsThere(p, b)
  /\ p.pc \in Restoring /\ ~p.unclear =>
       /\ IsFound(p, b[p.at], IF p.pc = "reconnect" THEN p.found.ssh /\ ~p.cut ELSE p.found.ssh)
       /\ b[AsideOf(p)] = None
       /\ p.pc \in {"fail", "failed"} => b[p.at].up = p.found.up
  /\ p.job = "split" /\ p.pc \in {"stop", "detach", "snapshot", "rename", "provision"} =>
       b["dev"] = None
  /\ p.job = "split" /\ p.pc \in {"remove", "back"} \cup Restoring /\ ~p.unclear =>
       b["dev"] = None
  /\ p.pc = "startdev" => b["dev"] # None
  /\ p.pc = "boot" => b["runner"] # None

JobInv == pass \in PassRecords /\ JobFits(pass) /\ BoxesFit(pass, boxes)

LEMMA MigrationConstants ==
  /\ MaxWrites \in Nat /\ MaxFails \in Nat /\ MaxCrashes \in Nat
  /\ None \notin Migration!Container
BY RunnerAssumption DEF Migration!MigrationsAssumption

\* What follows from a place alone.
LEMMA OutOfJob ==
  ASSUME NEW p \in PassRecords, NEW b, p.pc \notin InJob, p.pc = "boot" => b["runner"] # None
  PROVE  JobFits(p) /\ BoxesFit(p, b)
BY DEF JobFits, BoxesFit, InJob, Ahead, After, Undoing, Restoring, SplitOnly, NamingOnly

\* The fields of the pass that goes to another place.
LEMMA ToHas ==
  ASSUME pass \in PassRecords, NEW pc \in MigrationPlaces, NEW p, p = Migration!To(pc)
  PROVE  /\ p \in PassRecords /\ p.pc = pc
         /\ p.job = pass.job /\ p.at = pass.at /\ p.found = pass.found
         /\ p.renamed = pass.renamed /\ p.cut = pass.cut /\ p.unclear = pass.unclear
         /\ p.hold = pass.hold /\ p.then = pass.then /\ AsideOf(p) = AsideOf(pass)
BY DEF PassRecords, Migration!To, AsideOf

LEMMA ThrownHas ==
  ASSUME pass \in PassRecords
  PROVE  /\ Migration!Thrown \in PassRecords /\ Migration!Thrown.pc \in {"tail", "idle"}
         /\ Migration!NameThrown \in PassRecords /\ Migration!NameThrown.pc = "held"
         /\ Migration!Lost \in PassRecords /\ Migration!Lost.pc \in {"tail", "idle", "held"}
<1>1. PICK pc \in {"tail", "idle"} : Migration!Thrown = [pass EXCEPT !.pc = pc, !.hold = FALSE]
  BY DEF Migration!Thrown
<1>2. Migration!Thrown \in PassRecords /\ Migration!Thrown.pc \in {"tail", "idle"}
  BY <1>1 DEF PassRecords, MigrationPlaces
<1>3. Migration!NameThrown \in PassRecords /\ Migration!NameThrown.pc = "held"
  BY DEF PassRecords, MigrationPlaces, Migration!NameThrown
<1> QED
  BY <1>2, <1>3 DEF Migration!Lost

\* A Docker command leads to the next place with its effect, or to the handler of its error
\* with or without that, which the pass tells apart only where it noticed.
LEMMA CommandFits ==
  ASSUME pass \in PassRecords, boxes \in Boxes, fails \in 0..MaxFails, torn \in BOOLEAN,
         NEW new \in Boxes, NEW next \in PassRecords, NEW catch \in PassRecords,
         Migration!Command(new, next, catch),
         JobFits(next), BoxesFit(next, new),
         catch.pc \notin Ahead \cup After \cup {"boot"},
         JobFits(catch), BoxesFit(catch, boxes),
         pass.pc \notin Migration!Unnoticed => BoxesFit(catch, new)
  PROVE  /\ JobInv' /\ boxes' \in Boxes /\ fails' \in 0..MaxFails /\ torn' \in BOOLEAN
<1>1. PICK ok \in Migration!Outcomes : Migration!Command(new, next, catch)!(ok)
  BY DEF Migration!Command
<1>2. ok \in BOOLEAN /\ (~ok => fails < MaxFails)
  BY <1>1 DEF Migration!Outcomes
<1>3. fails' \in 0..MaxFails
  BY <1>1, <1>2, MigrationConstants
<1>4. torn' \in BOOLEAN
  BY <1>1
<1>5. boxes' \in {boxes, new} /\ (ok => boxes' = new)
  BY <1>1
<1>6. CASE ok
  BY <1>1, <1>3, <1>4, <1>5, <1>6 DEF JobInv
<1>7. CASE ~ok
  <2> DEFINE u == catch.unclear \/ (boxes' # boxes /\ pass.pc \in Migration!Unnoticed)
  <2>1. u \in BOOLEAN
    BY DEF PassRecords
  <2>2. pass' = [catch EXCEPT !.unclear = u]
    BY <1>1, <1>7
  <2>3. ~u => ~catch.unclear /\ (boxes' = boxes \/ pass.pc \notin Migration!Unnoticed)
    OBVIOUS
  <2> HIDE DEF u
  <2>4. /\ pass' \in PassRecords /\ pass'.pc = catch.pc /\ pass'.job = catch.job
        /\ pass'.at = catch.at /\ pass'.found = catch.found /\ pass'.renamed = catch.renamed
        /\ pass'.cut = catch.cut /\ pass'.unclear = u /\ AsideOf(pass') = AsideOf(catch)
    BY <2>1, <2>2 DEF PassRecords, AsideOf
  <2>5. JobFits(pass')
    BY <2>4 DEF JobFits
  <2>6. CASE ~u
    <3>1. BoxesFit(catch, boxes')
      BY <1>5, <2>3, <2>6
    <3> QED
      BY <1>3, <1>4, <1>5, <2>3, <2>4, <2>5, <2>6, <3>1
      DEF JobInv, BoxesFit, FoundIsThere, IsFound
  <2>7. CASE u
    <3>1. BoxesFit(pass', boxes')
      BY <2>4, <2>7 DEF BoxesFit, Undoing, Restoring, Ahead, After
    <3> QED
      BY <1>3, <1>4, <1>5, <2>4, <2>5, <3>1 DEF JobInv
  <2> QED
    BY <2>6, <2>7
<1> QED
  BY <1>2, <1>6, <1>7

\* The environment of the account, and what a step keeps of it.
MigrationInv ==
  /\ Migration!TypeOK /\ JobInv
  /\ names \in [phase : {"none", "copying", "ready", "failed"}, listed : BOOLEAN]

Kept == JobInv' /\ boxes' \in Boxes /\ fails' \in 0..MaxFails /\ torn' \in BOOLEAN

LEMMA MigrationHas ==
  ASSUME MigrationInv
  PROVE  /\ boxes \in Boxes /\ pass \in PassRecords /\ fails \in 0..MaxFails
         /\ torn \in BOOLEAN /\ JobFits(pass) /\ BoxesFit(pass, boxes)
BY DEF MigrationInv, JobInv, Migration!TypeOK, Boxes

LEMMA SkipFits ==
  ASSUME MigrationInv, NEW next \in PassRecords, Migration!Skip(next), JobFits(next),
         BoxesFit(next, boxes)
  PROVE  Kept
BY MigrationHas DEF Migration!Skip, Kept, JobInv

LEMMA NoSuchFits ==
  ASSUME MigrationInv, NEW next \in PassRecords, Migration!NoSuchContainer(next),
         JobFits(next), BoxesFit(next, boxes)
  PROVE  Kept
BY MigrationHas DEF Migration!NoSuchContainer, Kept, JobInv

\* The names of containers are apart.
LEMMA PlacesApart ==
  /\ Migration!Names \subseteq Migration!Places /\ "dev" \in Migration!Places
  /\ Migration!Names = {"runner", "former"}
  /\ \A p : p.at \in Migration!Names =>
       /\ AsideOf(p) \in Migration!Places /\ AsideOf(p) \notin Migration!Names
       /\ AsideOf(p) # "dev"
BY DEF Migration!Places, Migration!Names, Migration!Before, Migration!Previous, AsideOf

LEMMA AsideIs ==
  AsideOf(pass) = Migration!Aside
BY DEF AsideOf, Migration!Aside

\* One container is changed, the others are as they were.
OnlyAt(new, p) == new \in Boxes /\ \A q \in Migration!Places \ {p} : new[q] = boxes[q]

LEMMA Placed ==
  ASSUME boxes \in Boxes, NEW p \in Migration!Places,
         NEW c \in Migration!Container \cup {None}, NEW new, new = [boxes EXCEPT ![p] = c]
  PROVE  OnlyAt(new, p) /\ new[p] = c
BY DEF Boxes, OnlyAt

LEMMA SwitchedHas ==
  ASSUME boxes \in Boxes, NEW p \in Migration!Places, boxes[p] # None, NEW on \in BOOLEAN,
         NEW new, new = Migration!Switched(p, on)
  PROVE  /\ OnlyAt(new, p) /\ new[p] # None /\ new[p].kind = boxes[p].kind
         /\ new[p].layer = boxes[p].layer /\ new[p].volume = boxes[p].volume
         /\ new[p].ssh = boxes[p].ssh /\ new[p].up = on
<1>1. boxes[p] \in Migration!Container
  BY DEF Boxes
<1> DEFINE c == [boxes[p] EXCEPT !.up = on]
<1>2. /\ c \in Migration!Container /\ c.kind = boxes[p].kind /\ c.layer = boxes[p].layer
      /\ c.volume = boxes[p].volume /\ c.ssh = boxes[p].ssh /\ c.up = on
  BY <1>1 DEF Migration!Container
<1>3. new = [boxes EXCEPT ![p] = c]
  BY DEF Migration!Switched
<1> HIDE DEF c
<1>4. OnlyAt(new, p) /\ new[p] = c
  BY <1>2, <1>3, Placed
<1> QED
  BY <1>2, <1>4, MigrationConstants

LEMMA StoppedHas ==
  ASSUME boxes \in Boxes, NEW p \in Migration!Places, boxes[p] # None,
         NEW new, new = Migration!Switched(p, FALSE)
  PROVE  /\ OnlyAt(new, p) /\ new[p] # None /\ new[p].kind = boxes[p].kind
         /\ new[p].layer = boxes[p].layer /\ new[p].volume = boxes[p].volume
         /\ new[p].ssh = boxes[p].ssh /\ ~new[p].up
<1>1. PICK on \in BOOLEAN : on = FALSE
  OBVIOUS
<1>2. new = Migration!Switched(p, on)
  BY <1>1
<1>3. new[p].up = on
  BY <1>2, SwitchedHas
<1> QED
  BY <1>1, <1>2, <1>3, SwitchedHas

LEMMA StartedHas ==
  ASSUME boxes \in Boxes, NEW p \in Migration!Places, boxes[p] # None,
         NEW new, new = Migration!Switched(p, TRUE)
  PROVE  /\ OnlyAt(new, p) /\ new[p] # None /\ new[p].kind = boxes[p].kind
         /\ new[p].layer = boxes[p].layer /\ new[p].volume = boxes[p].volume
         /\ new[p].ssh = boxes[p].ssh /\ new[p].up = TRUE
<1>1. PICK on \in BOOLEAN : on = TRUE
  OBVIOUS
<1>2. new = Migration!Switched(p, on)
  BY <1>1
<1>3. new[p].up = on
  BY <1>2, SwitchedHas
<1> QED
  BY <1>1, <1>2, <1>3, SwitchedHas

Connected(p, ssh) == [boxes EXCEPT ![p].ssh = ssh]

LEMMA ConnectedHas ==
  ASSUME boxes \in Boxes, NEW p \in Migration!Places, boxes[p] # None, NEW ssh \in BOOLEAN,
         NEW new, new = Connected(p, ssh)
  PROVE  /\ OnlyAt(new, p) /\ new[p] # None /\ new[p].kind = boxes[p].kind
         /\ new[p].layer = boxes[p].layer /\ new[p].volume = boxes[p].volume
         /\ new[p].ssh = ssh /\ new[p].up = boxes[p].up
<1>1. boxes[p] \in Migration!Container
  BY DEF Boxes
<1> DEFINE c == [boxes[p] EXCEPT !.ssh = ssh]
<1>2. /\ c \in Migration!Container /\ c.kind = boxes[p].kind /\ c.layer = boxes[p].layer
      /\ c.volume = boxes[p].volume /\ c.ssh = ssh /\ c.up = boxes[p].up
  BY <1>1 DEF Migration!Container
<1>3. new = [boxes EXCEPT ![p] = c]
  BY DEF Connected
<1> HIDE DEF c
<1>4. OnlyAt(new, p) /\ new[p] = c
  BY <1>2, <1>3, Placed
<1> QED
  BY <1>2, <1>4, MigrationConstants

LEMMA MovedHas ==
  ASSUME boxes \in Boxes, NEW p \in Migration!Places, NEW q \in Migration!Places, p # q,
         NEW new, new = Migration!Moved(p, q)
  PROVE  /\ new \in Boxes /\ new[p] = None /\ new[q] = boxes[p]
         /\ \A r \in Migration!Places \ {p, q} : new[r] = boxes[r]
BY DEF Boxes, Migration!Moved

(* The steps before the container is renamed.                               *)
LEMMA StopFoundKeeps ==
  ASSUME MigrationInv, Migration!StopFound
  PROVE  Kept
<1>1. /\ pass.pc = "stop" /\ pass.job \in {"split", "naming"} /\ pass.found # None
      /\ pass.at \in Migration!Names /\ ~pass.renamed /\ (pass.cut => pass.found.ssh)
  BY MigrationHas DEF Migration!StopFound, Migration!At, JobFits, InJob, Ahead, NamingOnly
<1>2. FoundIsThere(pass, boxes) /\ (pass.job = "split" => boxes["dev"] = None)
  BY <1>1, MigrationHas DEF BoxesFit, Ahead
<1>3. /\ AsideOf(pass) \in Migration!Places /\ AsideOf(pass) # pass.at /\ pass.at # "dev"
      /\ pass.at \in Migration!Places /\ "dev" \in Migration!Places
  BY <1>1, PlacesApart
<1> DEFINE next == Migration!To(IF pass.job = "split" THEN "detach" ELSE "copy")
           catch == Migration!To(IF pass.job = "split" THEN "discard" ELSE "remove")
<1>4. PICK n : n = next
  OBVIOUS
<1>5. PICK c : c = catch
  OBVIOUS
<1>6. /\ n \in PassRecords /\ n.pc = (IF pass.job = "split" THEN "detach" ELSE "copy")
      /\ n.job = pass.job /\ n.at = pass.at /\ n.found = pass.found /\ n.renamed = pass.renamed
      /\ n.cut = pass.cut /\ AsideOf(n) = AsideOf(pass)
  BY <1>4, MigrationHas, ToHas DEF MigrationPlaces
<1>7. /\ c \in PassRecords /\ c.pc = (IF pass.job = "split" THEN "discard" ELSE "remove")
      /\ c.job = pass.job /\ c.at = pass.at /\ c.found = pass.found /\ c.renamed = pass.renamed
      /\ c.cut = pass.cut /\ AsideOf(c) = AsideOf(pass)
  BY <1>5, MigrationHas, ToHas DEF MigrationPlaces
<1>8. JobFits(n) /\ JobFits(c)
  BY <1>1, <1>6, <1>7
  DEF JobFits, InJob, Ahead, After, Undoing, Restoring, SplitOnly, NamingOnly
<1>9. ASSUME NEW b, FoundIsThere(pass, b), pass.job = "split" => b["dev"] = None
      PROVE  BoxesFit(n, b) /\ BoxesFit(c, b)
  BY <1>1, <1>6, <1>7, <1>9
  DEF BoxesFit, FoundIsThere, IsFound, Ahead, After, Undoing, Restoring, NamingOnly
<1>10. CASE pass.found.up
  <2>1. PICK new : new = Migration!Switched(pass.at, FALSE)
    OBVIOUS
  <2>2. boxes[pass.at] # None
    BY <1>1, <1>2 DEF FoundIsThere, IsFound
  <2>3. /\ OnlyAt(new, pass.at) /\ new[pass.at] # None
        /\ new[pass.at].kind = boxes[pass.at].kind
        /\ new[pass.at].layer = boxes[pass.at].layer
        /\ new[pass.at].volume = boxes[pass.at].volume
        /\ new[pass.at].ssh = boxes[pass.at].ssh /\ ~new[pass.at].up
    BY <1>3, <2>1, <2>2, MigrationHas, StoppedHas
  <2>4. FoundIsThere(pass, new) /\ (pass.job = "split" => new["dev"] = None)
    BY <1>1, <1>2, <1>3, <2>3 DEF FoundIsThere, IsFound, OnlyAt
  <2>5. Migration!Command(new, n, c)
    BY <1>4, <1>5, <1>10, <2>1 DEF Migration!StopFound
  <2>6. c.pc \notin Ahead \cup After \cup {"boot"} /\ new \in Boxes
    BY <1>7, <2>3 DEF Ahead, After, NamingOnly, OnlyAt
  <2> QED
    BY <1>2, <1>6, <1>7, <1>8, <1>9, <2>4, <2>5, <2>6, MigrationHas, CommandFits DEF Kept
<1>11. CASE ~pass.found.up
  <2>1. Migration!Skip(n)
    BY <1>4, <1>11 DEF Migration!StopFound
  <2> QED
    BY <1>2, <1>6, <1>8, <1>9, <2>1, SkipFits
<1> QED
  BY <1>10, <1>11

\* p is the pass gone to another place.
Like(p, pc) ==
  /\ p \in PassRecords /\ p.pc = pc /\ p.job = pass.job /\ p.at = pass.at
  /\ p.found = pass.found /\ p.renamed = pass.renamed /\ p.cut = pass.cut
  /\ p.unclear = pass.unclear /\ AsideOf(p) = AsideOf(pass)

LEMMA ToLike ==
  ASSUME MigrationInv
  PROVE  \A pc \in MigrationPlaces : Like(Migration!To(pc), pc)
BY MigrationHas, ToHas DEF Like

\* What a place in a migration says of the pass and the containers.
LEMMA InSplit ==
  ASSUME MigrationInv, pass.pc \in SplitOnly
  PROVE  pass.job = "split" /\ pass.found # None /\ pass.at \in Migration!Names
         /\ pass.found \in Migration!Container /\ (pass.cut => pass.found.ssh)
BY MigrationHas DEF JobFits, InJob, Ahead, After, Undoing, SplitOnly, NamingOnly, PassRecords

LEMMA InMigration ==
  ASSUME MigrationInv, pass.pc \in InJob \ NamingOnly
  PROVE  pass.job \in {"split", "naming"} /\ pass.found # None /\ pass.at \in Migration!Names
         /\ pass.found \in Migration!Container /\ (pass.cut => pass.found.ssh)
BY MigrationHas DEF JobFits, InJob, Ahead, After, Undoing, SplitOnly, NamingOnly, PassRecords

LEMMA Found ==
  ASSUME MigrationInv, pass.found # None, pass.pc \in Ahead \cup After
  PROVE  FoundIsThere(pass, boxes)
BY MigrationHas DEF BoxesFit

\* A step that fails before the rollback leads into it.
LEMMA IntoRollback ==
  ASSUME MigrationInv, pass.found # None, pass.at \in Migration!Names,
         pass.cut => pass.found.ssh, NEW pc, NEW c, Like(c, pc),
         \/ pc = "discard" /\ pass.job = "split"
         \/ pc = "remove" /\ pass.job = "naming"
  PROVE  /\ JobFits(c) /\ c.pc \notin Ahead \cup After \cup {"boot"}
         /\ \A b : FoundIsThere(pass, b) => BoxesFit(c, b)
BY DEF Like, JobFits, BoxesFit, FoundIsThere, IsFound, InJob, Ahead, After, Undoing, Restoring,
       SplitOnly, NamingOnly

\* A step after the container was renamed goes on.
LEMMA GoesAfter ==
  ASSUME MigrationInv, pass.pc \in After, NEW pc \in After, NEW n, Like(n, pc),
         pc \in SplitOnly => pass.job = "split", NEW b \in Boxes,
         b[AsideOf(pass)] = boxes[AsideOf(pass)], pc = "startdev" => b["dev"] # None,
         pc # "provision"
  PROVE  JobFits(n) /\ BoxesFit(n, b)
<1>1. /\ pass.job \in {"split", "naming"} /\ pass.found # None /\ pass.at \in Migration!Names
      /\ pass.found \in Migration!Container /\ (pass.cut => pass.found.ssh)
  BY InMigration DEF InJob, After, NamingOnly
<1>2. FoundIsThere(pass, boxes) /\ pass.renamed
  BY <1>1, Found, MigrationHas DEF JobFits
<1>3. JobFits(n)
  BY <1>1, <1>2
  DEF Like, JobFits, InJob, Ahead, After, Undoing, Restoring, SplitOnly, NamingOnly
<1>4. FoundIsThere(n, b)
  BY <1>2 DEF Like, FoundIsThere, IsFound
<1>5. BoxesFit(n, b)
  BY <1>4 DEF Like, BoxesFit, Ahead, After, Undoing, Restoring, NamingOnly
<1> QED
  BY <1>3, <1>5

LEMMA DetachKeeps ==
  ASSUME MigrationInv, Migration!Detach
  PROVE  Kept
<1>1. pass.pc = "detach" /\ pass.pc \in SplitOnly /\ pass.pc \in Ahead
  BY DEF Migration!Detach, Migration!At, SplitOnly, Ahead
<1>2. /\ pass.job = "split" /\ pass.found # None /\ pass.at \in Migration!Names
      /\ pass.found \in Migration!Container /\ (pass.cut => pass.found.ssh)
  BY <1>1, InSplit
<1>3. FoundIsThere(pass, boxes) /\ boxes["dev"] = None /\ ~pass.renamed
  BY <1>1, <1>2, Found, MigrationHas DEF BoxesFit, JobFits, Ahead
<1>4. /\ AsideOf(pass) \in Migration!Places /\ AsideOf(pass) # pass.at /\ pass.at # "dev"
      /\ pass.at \in Migration!Places /\ "dev" \in Migration!Places
  BY <1>2, PlacesApart
<1>5. Like(Migration!To("discard"), "discard") /\ Like(Migration!To("snapshot"), "snapshot")
  BY ToLike DEF MigrationPlaces
<1>6. CASE pass.found.ssh
  <2>1. PICK next : next = [pass EXCEPT !.pc = "snapshot", !.cut = TRUE]
    OBVIOUS
  <2>2. /\ next \in PassRecords /\ next.pc = "snapshot" /\ next.job = pass.job
        /\ next.at = pass.at /\ next.found = pass.found /\ next.renamed = pass.renamed
        /\ next.cut = TRUE /\ AsideOf(next) = AsideOf(pass)
    BY <2>1, MigrationHas DEF PassRecords, MigrationPlaces, AsideOf
  <2> PICK off \in BOOLEAN : off = FALSE
    OBVIOUS
  <2>3. PICK new : off = FALSE /\ new = Connected(pass.at, off)
    OBVIOUS
  <2>4. boxes[pass.at] # None
    BY <1>3 DEF FoundIsThere, IsFound
  <2>5. /\ OnlyAt(new, pass.at) /\ new[pass.at] # None
        /\ new[pass.at].kind = boxes[pass.at].kind
        /\ new[pass.at].layer = boxes[pass.at].layer
        /\ new[pass.at].volume = boxes[pass.at].volume
        /\ new[pass.at].ssh = off /\ new[pass.at].up = boxes[pass.at].up
    BY <1>4, <2>3, <2>4, MigrationHas, ConnectedHas
  <2>6. new["dev"] = None /\ FoundIsThere(next, new)
    BY <1>3, <1>4, <2>2, <2>3, <2>5 DEF FoundIsThere, IsFound, OnlyAt
  <2>7. JobFits(next) /\ BoxesFit(next, new)
    BY <1>2, <1>3, <1>6, <2>2, <2>6
    DEF JobFits, BoxesFit, InJob, Ahead, After, Undoing, Restoring, SplitOnly, NamingOnly
  <2>8. Migration!Command(new, next, Migration!To("discard"))
    BY <1>6, <2>1, <2>3 DEF Migration!Detach, Connected
  <2>9. /\ JobFits(Migration!To("discard")) /\ BoxesFit(Migration!To("discard"), boxes)
        /\ Migration!To("discard").pc \notin Ahead \cup After \cup {"boot"}
    BY <1>2, <1>3, <1>5, IntoRollback
  <2>10. pass.pc \in Migration!Unnoticed /\ new \in Boxes
    BY <1>1, <2>5 DEF Migration!Unnoticed, OnlyAt
  <2> QED
    BY <1>5, <2>2, <2>7, <2>8, <2>9, <2>10, MigrationHas, CommandFits DEF Kept, Like
<1>7. CASE ~pass.found.ssh
  <2>1. Migration!Skip(Migration!To("snapshot"))
    BY <1>7 DEF Migration!Detach
  <2>2. JobFits(Migration!To("snapshot")) /\ BoxesFit(Migration!To("snapshot"), boxes)
    BY <1>2, <1>3, <1>5, <1>7
    DEF Like, JobFits, BoxesFit, FoundIsThere, IsFound, InJob, Ahead, After, Undoing,
        Restoring, SplitOnly, NamingOnly
  <2> QED
    BY <1>5, <2>1, <2>2, SkipFits DEF Like
<1> QED
  BY <1>6, <1>7

LEMMA SnapshotKeeps ==
  ASSUME MigrationInv, Migration!Snapshot
  PROVE  Kept
<1>1. pass.pc = "snapshot" /\ pass.pc \in SplitOnly /\ pass.pc \in Ahead
  BY DEF Migration!Snapshot, Migration!At, SplitOnly, Ahead
<1>2. /\ pass.job = "split" /\ pass.found # None /\ pass.at \in Migration!Names
      /\ pass.found \in Migration!Container /\ (pass.cut => pass.found.ssh)
  BY <1>1, InSplit
<1>3. FoundIsThere(pass, boxes) /\ boxes["dev"] = None /\ ~pass.renamed
  BY <1>1, <1>2, Found, MigrationHas DEF BoxesFit, JobFits, Ahead
<1>4. Like(Migration!To("discard"), "discard") /\ Like(Migration!To("rename"), "rename")
  BY ToLike DEF MigrationPlaces
<1>5. JobFits(Migration!To("rename")) /\ BoxesFit(Migration!To("rename"), boxes)
  BY <1>2, <1>3, <1>4
  DEF Like, JobFits, BoxesFit, FoundIsThere, IsFound, InJob, Ahead, After, Undoing, Restoring,
      SplitOnly, NamingOnly
<1>6. /\ JobFits(Migration!To("discard")) /\ BoxesFit(Migration!To("discard"), boxes)
      /\ Migration!To("discard").pc \notin Ahead \cup After \cup {"boot"}
  BY <1>2, <1>3, <1>4, IntoRollback
<1>7. Migration!Command(boxes, Migration!To("rename"), Migration!To("discard"))
  BY DEF Migration!Snapshot
<1> QED
  BY <1>4, <1>5, <1>6, <1>7, MigrationHas, CommandFits DEF Kept, Like

LEMMA RenameKeeps ==
  ASSUME MigrationInv, Migration!Rename
  PROVE  Kept
<1>1. pass.pc = "rename" /\ pass.pc \in InJob \ NamingOnly /\ pass.pc \in Ahead
  BY DEF Migration!Rename, Migration!At, InJob, Ahead, NamingOnly
<1>2. /\ pass.job \in {"split", "naming"} /\ pass.found # None /\ pass.at \in Migration!Names
      /\ pass.found \in Migration!Container /\ (pass.cut => pass.found.ssh)
  BY <1>1, InMigration
<1>3. FoundIsThere(pass, boxes) /\ ~pass.renamed /\ (pass.job = "split" => boxes["dev"] = None)
  BY <1>1, <1>2, Found, MigrationHas DEF BoxesFit, JobFits, Ahead
<1>4. /\ AsideOf(pass) \in Migration!Places /\ AsideOf(pass) # pass.at /\ pass.at # "dev"
      /\ pass.at \in Migration!Places /\ "dev" \in Migration!Places /\ AsideOf(pass) # "dev"
  BY <1>2, PlacesApart
<1> DEFINE pc == IF pass.job = "split" THEN "discard" ELSE "remove"
<1>5. Like(Migration!To(pc), pc)
  BY <1>2, ToLike DEF MigrationPlaces
<1>6. PICK next : next = [pass EXCEPT !.pc = "provision", !.renamed = TRUE]
  OBVIOUS
<1>7. /\ next \in PassRecords /\ next.pc = "provision" /\ next.job = pass.job
      /\ next.at = pass.at /\ next.found = pass.found /\ next.renamed = TRUE
      /\ next.cut = pass.cut /\ AsideOf(next) = AsideOf(pass)
  BY <1>6, MigrationHas DEF PassRecords, MigrationPlaces, AsideOf
<1>8. PICK new : new = Migration!Moved(pass.at, Migration!Aside)
  OBVIOUS
<1>9. /\ new \in Boxes /\ new[AsideOf(pass)] = boxes[pass.at]
      /\ pass.job = "split" => new["dev"] = None
  BY <1>3, <1>4, <1>8, AsideIs, MigrationHas, MovedHas
<1>10. FoundIsThere(next, new)
  BY <1>3, <1>7, <1>9 DEF FoundIsThere, IsFound
<1>11. JobFits(next) /\ BoxesFit(next, new)
  BY <1>2, <1>7, <1>9, <1>10
  DEF JobFits, BoxesFit, InJob, Ahead, After, Undoing, Restoring, SplitOnly, NamingOnly
<1>12. Migration!Command(new, next, Migration!To(pc))
  BY <1>6, <1>8 DEF Migration!Rename
<1>13. /\ JobFits(Migration!To(pc)) /\ BoxesFit(Migration!To(pc), boxes)
       /\ Migration!To(pc).pc \notin Ahead \cup After \cup {"boot"}
  BY <1>2, <1>3, <1>5, IntoRollback
<1>14. pass.pc \in Migration!Unnoticed
  BY <1>1 DEF Migration!Unnoticed
<1> HIDE DEF pc
<1> QED
  BY <1>5, <1>7, <1>9, <1>11, <1>12, <1>13, <1>14, MigrationHas, CommandFits DEF Kept, Like

(* The replacement.                                                         *)
LEMMA ProvisionedHas ==
  ASSUME boxes \in Boxes
  PROVE  OnlyAt(Migration!Provisioned, "runner") /\ Migration!Provisioned["runner"] # None
<1>1. "runner" \in Migration!Places
  BY PlacesApart
<1>2. CASE boxes["runner"] # None
  BY <1>2 DEF Migration!Provisioned, Migration!Present, OnlyAt
<1>3. CASE boxes["runner"] = None
  <2> DEFINE c == [kind |-> "split", layer |-> "image", volume |-> "new", up |-> FALSE,
                   ssh |-> FALSE]
  <2>1. c \in Migration!Container
    BY DEF Migration!Container
  <2>2. Migration!Provisioned = [boxes EXCEPT !["runner"] = c]
    BY <1>3 DEF Migration!Provisioned, Migration!Present
  <2> HIDE DEF c
  <2> QED
    BY <1>1, <2>1, <2>2, Placed, MigrationConstants
<1> QED
  BY <1>2, <1>3

LEMMA AfterHas ==
  ASSUME MigrationInv, pass.pc \in After
  PROVE  /\ pass.job \in {"split", "naming"} /\ pass.found # None
         /\ pass.at \in Migration!Names /\ pass.found \in Migration!Container
         /\ (pass.cut => pass.found.ssh) /\ FoundIsThere(pass, boxes) /\ pass.renamed
         /\ AsideOf(pass) \in Migration!Places /\ AsideOf(pass) # pass.at
         /\ AsideOf(pass) # "dev" /\ AsideOf(pass) # "runner"
         /\ {"dev", "runner", pass.at} \subseteq Migration!Places
<1>1. /\ pass.job \in {"split", "naming"} /\ pass.found # None
      /\ pass.at \in Migration!Names /\ pass.found \in Migration!Container
      /\ (pass.cut => pass.found.ssh)
  BY InMigration DEF InJob, After, NamingOnly
<1>2. FoundIsThere(pass, boxes) /\ pass.renamed
  BY <1>1, Found, MigrationHas DEF JobFits
<1>3. /\ AsideOf(pass) \in Migration!Places /\ AsideOf(pass) # pass.at
      /\ AsideOf(pass) # "dev" /\ AsideOf(pass) # "runner"
      /\ {"dev", "runner", pass.at} \subseteq Migration!Places
  BY <1>1, PlacesApart
<1> QED
  BY <1>1, <1>2, <1>3

\* A command on another container than the one set aside.
LEMMA CommandAfter ==
  ASSUME MigrationInv, pass.pc \in After, NEW pc \in After, NEW catch,
         \/ catch = "discard" /\ pass.job = "split"
         \/ catch = "remove" /\ pass.job = "naming",
         pc \in SplitOnly => pass.job = "split", pc # "provision",
         NEW p \in Migration!Places, p # AsideOf(pass), NEW new, OnlyAt(new, p),
         pc = "startdev" => new["dev"] # None,
         Migration!Command(new, Migration!To(pc), Migration!To(catch))
  PROVE  Kept
<1>1. Like(Migration!To(pc), pc) /\ Like(Migration!To(catch), catch)
  BY ToLike DEF MigrationPlaces, After
<1>2. /\ new \in Boxes /\ new[AsideOf(pass)] = boxes[AsideOf(pass)]
  BY AfterHas DEF OnlyAt
<1>3. JobFits(Migration!To(pc)) /\ BoxesFit(Migration!To(pc), new)
  BY <1>1, <1>2, GoesAfter
<1>4. FoundIsThere(pass, new)
  BY <1>2, AfterHas DEF FoundIsThere
<1>5. /\ JobFits(Migration!To(catch)) /\ BoxesFit(Migration!To(catch), boxes)
      /\ BoxesFit(Migration!To(catch), new)
      /\ Migration!To(catch).pc \notin Ahead \cup After \cup {"boot"}
  BY <1>1, <1>4, AfterHas, IntoRollback
<1> QED
  BY <1>1, <1>2, <1>3, <1>5, MigrationHas, CommandFits DEF Kept, Like

LEMMA ProvisionRunnerKeeps ==
  ASSUME MigrationInv, Migration!ProvisionRunner
  PROVE  Kept
<1>1. pass.pc = "provision" /\ pass.pc \in After
  BY DEF Migration!ProvisionRunner, Migration!At, After
<1>2. OnlyAt(Migration!Provisioned, "runner") /\ Migration!Provisioned["runner"] # None
  BY MigrationHas, ProvisionedHas
<1>3. CASE pass.job = "split"
  <2>1. Migration!Command(Migration!Provisioned, Migration!To("create"), Migration!To("discard"))
    BY <1>3 DEF Migration!ProvisionRunner, Migration!Provision
  <2> QED
    BY <1>1, <1>2, <1>3, <2>1, AfterHas, CommandAfter DEF After, SplitOnly
<1>4. CASE pass.job # "split"
  <2> DEFINE pc == IF pass.start THEN "start" ELSE "drop"
  <2>1. Migration!Command(Migration!Provisioned, Migration!To(pc), Migration!To("remove"))
    BY <1>4 DEF Migration!ProvisionRunner, Migration!Provision
  <2>2. pc \in After /\ pc \notin SplitOnly /\ pc # "provision" /\ pc # "startdev"
    BY DEF After, SplitOnly
  <2> HIDE DEF pc
  <2> QED
    BY <1>1, <1>2, <1>4, <2>1, <2>2, AfterHas, CommandAfter
<1> QED
  BY <1>3, <1>4

LEMMA CreateDevelopmentKeeps ==
  ASSUME MigrationInv, Migration!CreateDevelopment
  PROVE  Kept
<1>1. pass.pc = "create" /\ pass.pc \in After /\ pass.job = "split"
  BY InSplit DEF Migration!CreateDevelopment, Migration!At, After, SplitOnly
<1> DEFINE d == Migration!Development("snapshot", FALSE)
           c == [d EXCEPT !.volume = pass.found.volume]
           pc == IF pass.start THEN "startdev" ELSE "ready"
<1>2. PICK new : new = [boxes EXCEPT !["dev"] = c]
  OBVIOUS
<1>3. c \in Migration!Container
  <2>1. PICK v : v = boxes[Migration!Owned].volume
    OBVIOUS
  <2>2. d \in [kind : {"workspace"}, layer : {"snapshot"}, volume : {v}, up : BOOLEAN,
               ssh : BOOLEAN]
    BY <2>1 DEF Migration!Development
  <2>3. pass.found.volume \in {"old", "new"}
    BY <1>1, AfterHas DEF Migration!Container
  <2> HIDE DEF d
  <2> QED
    BY <2>2, <2>3 DEF Migration!Container
<1>4. Migration!Command(new, Migration!To(pc), Migration!To("discard"))
  BY <1>2 DEF Migration!CreateDevelopment
<1>5. pc \in After /\ pc # "provision"
  BY DEF After
<1> HIDE DEF c, pc
<1>6. OnlyAt(new, "dev") /\ new["dev"] = c
  <2>1. "dev" \in Migration!Places
    BY PlacesApart
  <2> QED
    BY <1>2, <1>3, <2>1, MigrationHas, Placed
<1>7. new["dev"] # None
  BY <1>3, <1>6, MigrationConstants
<1> QED
  BY <1>1, <1>4, <1>5, <1>6, <1>7, AfterHas, CommandAfter

LEMMA StartDevelopmentKeeps ==
  ASSUME MigrationInv, Migration!StartDevelopment
  PROVE  Kept
<1>1. pass.pc = "startdev" /\ pass.pc \in After /\ pass.job = "split"
  BY InSplit DEF Migration!StartDevelopment, Migration!At, After, SplitOnly
<1>2. boxes["dev"] # None
  BY <1>1, MigrationHas DEF BoxesFit
<1>3. PICK new : new = Migration!Switched("dev", TRUE)
  OBVIOUS
<1>4. OnlyAt(new, "dev")
  BY <1>1, <1>2, <1>3, AfterHas, MigrationHas, StartedHas
<1>5. Migration!Command(new, Migration!To("start"), Migration!To("discard"))
  BY <1>3 DEF Migration!StartDevelopment
<1> QED
  BY <1>1, <1>4, <1>5, AfterHas, CommandAfter DEF After

LEMMA StartRunnerKeeps ==
  ASSUME MigrationInv, Migration!StartRunner
  PROVE  Kept
<1>1. pass.pc = "start" /\ pass.pc \in After
  BY DEF Migration!StartRunner, Migration!At, After
<1> DEFINE catch == IF pass.job = "split" THEN "discard" ELSE "remove"
           pc == IF pass.job = "split" THEN "probe" ELSE "drop"
<1>2. /\ pc \in After /\ pc # "provision" /\ pc # "startdev"
      /\ pc \in SplitOnly => pass.job = "split"
      /\ \/ catch = "discard" /\ pass.job = "split"
         \/ catch = "remove" /\ pass.job = "naming"
  BY <1>1, AfterHas DEF After, SplitOnly
<1>3. /\ Migration!Replaced \in Migration!Places /\ Migration!Replaced # AsideOf(pass)
      /\ Migration!Replaced # "none"
  BY <1>1, AfterHas, PlacesApart DEF Migration!Replaced
<1>4. CASE Migration!Present(Migration!Replaced)
  <2>1. PICK new : new = Migration!Switched(Migration!Replaced, TRUE)
    OBVIOUS
  <2>2. OnlyAt(new, Migration!Replaced)
    BY <1>3, <1>4, <2>1, MigrationHas, StartedHas DEF Migration!Present
  <2>3. Migration!Command(new, Migration!To(pc), Migration!To(catch))
    BY <1>4, <2>1 DEF Migration!StartRunner
  <2> HIDE DEF pc, catch
  <2> QED
    BY <1>1, <1>2, <1>3, <2>2, <2>3, CommandAfter
<1>5. CASE ~Migration!Present(Migration!Replaced)
  <2>1. Migration!NoSuchContainer(Migration!To(catch))
    BY <1>5 DEF Migration!StartRunner
  <2>2. Like(Migration!To(catch), catch)
    BY ToLike DEF MigrationPlaces
  <2> HIDE DEF pc, catch
  <2>3. JobFits(Migration!To(catch)) /\ BoxesFit(Migration!To(catch), boxes)
    BY <1>1, <1>2, <2>2, AfterHas, IntoRollback
  <2> QED
    BY <2>1, <2>2, <2>3, NoSuchFits DEF Like
<1> QED
  BY <1>4, <1>5

LEMMA ProbeKeeps ==
  ASSUME MigrationInv, Migration!Probe
  PROVE  Kept
<1>1. pass.pc = "probe" /\ pass.pc \in After /\ pass.job = "split"
  BY InSplit DEF Migration!Probe, Migration!At, After, SplitOnly
<1>2. OnlyAt(boxes, "dev")
  BY MigrationHas DEF OnlyAt
<1>3. Migration!Command(boxes, Migration!To("ready"), Migration!To("discard"))
  BY DEF Migration!Probe
<1> QED
  BY <1>1, <1>2, <1>3, AfterHas, CommandAfter DEF After

LEMMA SplitReadyKeeps ==
  ASSUME MigrationInv, Migration!SplitReady
  PROVE  Kept
<1>1. pass.pc = "ready" /\ pass.pc \in After
  BY DEF Migration!SplitReady, Migration!At, After
<1>2. pass' = Migration!To("drop") /\ UNCHANGED <<boxes, fails, torn>>
  BY DEF Migration!SplitReady, Migration!Goto, Migration!disk
<1>3. Like(Migration!To("drop"), "drop")
  BY ToLike DEF MigrationPlaces
<1>4. JobFits(Migration!To("drop")) /\ BoxesFit(Migration!To("drop"), boxes)
  BY <1>1, <1>3, MigrationHas, GoesAfter DEF After, SplitOnly
<1> QED
  BY <1>2, <1>3, <1>4, MigrationHas DEF Kept, JobInv, Like

LEMMA DropKeeps ==
  ASSUME MigrationInv, Migration!Drop
  PROVE  Kept
<1>1. pass.pc = "drop" /\ pass.pc \in After
  BY DEF Migration!Drop, Migration!At, After
<1> DEFINE pc == IF pass.job = "split" THEN pass.then ELSE "held"
           catch == IF pass.job = "split" THEN Migration!Thrown ELSE Migration!NameThrown
<1>2. pc \in {"hold", "sync", "held"}
  BY MigrationHas DEF PassRecords
<1>3. catch \in PassRecords /\ catch.pc \in {"tail", "idle", "held"}
  BY MigrationHas, ThrownHas
<1>4. PICK new : new = [boxes EXCEPT ![Migration!Aside] = None]
  OBVIOUS
<1>5. new \in Boxes
  BY <1>1, <1>4, AfterHas, AsideIs, MigrationHas, Placed DEF OnlyAt
<1>6. Migration!Command(new, Migration!To(pc), catch)
  BY <1>4 DEF Migration!Drop
<1> HIDE DEF pc, catch
<1>7. Like(Migration!To(pc), pc)
  BY <1>2, ToLike DEF MigrationPlaces
<1>8. \A p \in PassRecords : p.pc \in {"hold", "sync", "tail", "idle", "held"} =>
        \A b : JobFits(p) /\ BoxesFit(p, b)
  BY OutOfJob DEF InJob, Ahead, After, Undoing, Restoring, NamingOnly
<1>9. catch.pc \notin Ahead \cup After \cup {"boot"}
  BY <1>3 DEF Ahead, After, NamingOnly
<1> QED
  BY <1>2, <1>3, <1>5, <1>6, <1>7, <1>8, <1>9, MigrationHas, CommandFits DEF Kept, Like

(* The rollback.                                                            *)

\* The error handlers outside a migration claim nothing of the containers.
LEMMA HandlersFit ==
  ASSUME MigrationInv, NEW p \in {Migration!Thrown, Migration!NameThrown, Migration!Lost}
  PROVE  /\ p \in PassRecords /\ p.pc \notin Ahead \cup After \cup {"boot"}
         /\ JobFits(p) /\ \A b : BoxesFit(p, b)
<1>1. p \in PassRecords /\ p.pc \in {"tail", "idle", "held"}
  BY MigrationHas, ThrownHas
<1>2. p.pc \notin InJob /\ p.pc \notin Ahead \cup After \cup {"boot"}
  BY <1>1 DEF InJob, Ahead, After, Undoing, Restoring, NamingOnly
<1> QED
  BY <1>1, <1>2, OutOfJob

LEMMA RollbackHas ==
  ASSUME MigrationInv, pass.pc \in Undoing \cup Restoring
  PROVE  /\ pass.job \in {"split", "naming"} /\ pass.found # None
         /\ pass.at \in Migration!Names /\ pass.found \in Migration!Container
         /\ (pass.cut => pass.found.ssh)
         /\ AsideOf(pass) \in Migration!Places /\ AsideOf(pass) # pass.at
         /\ AsideOf(pass) # "dev" /\ AsideOf(pass) # "runner" /\ pass.at # "dev"
         /\ {"dev", "runner", pass.at} \subseteq Migration!Places
<1>1. /\ pass.job \in {"split", "naming"} /\ pass.found # None
      /\ pass.at \in Migration!Names /\ pass.found \in Migration!Container
      /\ (pass.cut => pass.found.ssh)
  BY InMigration DEF InJob, Undoing, Restoring, NamingOnly
<1> QED
  BY <1>1, PlacesApart

LEMMA RollbackFits ==
  ASSUME MigrationInv, pass.pc \in Undoing \cup Restoring,
         NEW pc \in {"remove", "back"} \cup Restoring
  PROVE  Like(Migration!To(pc), pc) /\ JobFits(Migration!To(pc))
<1>1. Like(Migration!To(pc), pc)
  BY ToLike DEF MigrationPlaces, Restoring
<1> QED
  BY <1>1, RollbackHas
  DEF Like, JobFits, InJob, Ahead, After, Undoing, Restoring, SplitOnly, NamingOnly

\* A command of the rollback, or its omission, leads to the next one.
LEMMA CommandBack ==
  ASSUME MigrationInv, pass.pc \in Undoing \cup Restoring,
         NEW pc \in {"remove", "back"} \cup Restoring, NEW new \in Boxes,
         BoxesFit(Migration!To(pc), new),
         Migration!Command(new, Migration!To(pc), Migration!Lost)
  PROVE  Kept
<1>1. Like(Migration!To(pc), pc) /\ JobFits(Migration!To(pc))
  BY RollbackFits
<1>2. /\ Migration!Lost \in PassRecords /\ Migration!Lost.pc \notin Ahead \cup After \cup {"boot"}
      /\ JobFits(Migration!Lost) /\ \A b : BoxesFit(Migration!Lost, b)
  BY HandlersFit
<1> QED
  BY <1>1, <1>2, MigrationHas, CommandFits DEF Kept, Like

LEMMA SkipBack ==
  ASSUME MigrationInv, pass.pc \in Undoing \cup Restoring,
         NEW pc \in {"remove", "back"} \cup Restoring,
         BoxesFit(Migration!To(pc), boxes), Migration!Skip(Migration!To(pc))
  PROVE  Kept
BY RollbackFits, SkipFits DEF Like

LEMMA NoSuchBack ==
  ASSUME MigrationInv, Migration!NoSuchContainer(Migration!Lost)
  PROVE  Kept
BY HandlersFit, NoSuchFits

LEMMA DiscardKeeps ==
  ASSUME MigrationInv, Migration!Discard
  PROVE  Kept
<1>1. pass.pc = "discard" /\ pass.pc \in Undoing
  BY DEF Migration!Discard, Migration!At, Undoing
<1>2. Like(Migration!To("remove"), "remove")
  BY <1>1, RollbackFits
<1>3. ASSUME NEW b \in Boxes, OnlyAt(b, "dev"), b["dev"] = None
      PROVE  BoxesFit(Migration!To("remove"), b)
  <2>1. ~pass.unclear => FoundIsThere(pass, boxes)
    BY <1>1, MigrationHas DEF BoxesFit
  <2>2. b[pass.at] = boxes[pass.at] /\ b[AsideOf(pass)] = boxes[AsideOf(pass)]
    BY <1>1, <1>3, RollbackHas DEF OnlyAt
  <2>3. ~pass.unclear => FoundIsThere(Migration!To("remove"), b)
    BY <1>2, <2>1, <2>2 DEF Like, FoundIsThere, IsFound
  <2> QED
    BY <1>2, <1>3, <2>3 DEF Like, BoxesFit, Ahead, After, Restoring, NamingOnly
<1>4. CASE Migration!Present("dev")
  <2>1. PICK new : new = [boxes EXCEPT !["dev"] = None]
    OBVIOUS
  <2>2. "dev" \in Migration!Places
    BY PlacesApart
  <2>3. OnlyAt(new, "dev") /\ new["dev"] = None
    BY <2>1, <2>2, MigrationHas, Placed
  <2>4. Migration!Command(new, Migration!To("remove"), Migration!Lost)
    BY <1>4, <2>1 DEF Migration!Discard
  <2> QED
    BY <1>1, <1>3, <2>3, <2>4, CommandBack DEF OnlyAt
<1>5. CASE ~Migration!Present("dev")
  <2>1. OnlyAt(boxes, "dev") /\ boxes["dev"] = None
    BY <1>5, MigrationHas DEF OnlyAt, Migration!Present
  <2>2. Migration!Skip(Migration!To("remove"))
    BY <1>5 DEF Migration!Discard
  <2> QED
    BY <1>1, <1>3, <2>1, <2>2, SkipBack, MigrationHas
<1> QED
  BY <1>4, <1>5

LEMMA RemoveKeeps ==
  ASSUME MigrationInv, Migration!Remove
  PROVE  Kept
<1>1. pass.pc = "remove" /\ pass.pc \in Undoing
  BY DEF Migration!Remove, Migration!At, Undoing
<1>2. Like(Migration!To("back"), "back")
  BY <1>1, RollbackFits
<1>3. /\ Migration!Replaced \in Migration!Places /\ Migration!Replaced # AsideOf(pass)
      /\ Migration!Replaced # "dev"
  BY <1>1, RollbackHas DEF Migration!Replaced
<1>4. ASSUME NEW b \in Boxes, b[AsideOf(pass)] = boxes[AsideOf(pass)], b["dev"] = boxes["dev"],
             ~pass.renamed => b[pass.at] = boxes[pass.at]
      PROVE  BoxesFit(Migration!To("back"), b)
  <2>1. ~pass.unclear => /\ FoundIsThere(pass, boxes)
                         /\ pass.job = "split" => boxes["dev"] = None
    BY <1>1, MigrationHas DEF BoxesFit
  <2>2. ~pass.unclear => FoundIsThere(Migration!To("back"), b)
    BY <1>2, <1>4, <2>1 DEF Like, FoundIsThere, IsFound
  <2> QED
    BY <1>2, <1>4, <2>1, <2>2 DEF Like, BoxesFit, Ahead, After, Restoring, NamingOnly
<1>5. CASE Migration!Removable
  <2>1. PICK new : new = [boxes EXCEPT ![Migration!Replaced] = None]
    OBVIOUS
  <2>2. OnlyAt(new, Migration!Replaced)
    BY <1>3, <2>1, MigrationHas, Placed
  <2>3. new["dev"] = boxes["dev"] /\ new[AsideOf(pass)] = boxes[AsideOf(pass)]
    BY <1>1, <1>3, <2>2, RollbackHas DEF OnlyAt
  <2>4. Migration!Command(new, Migration!To("back"), Migration!Lost) /\ pass.renamed
    BY <1>5, <2>1 DEF Migration!Remove, Migration!Removable
  <2> QED
    BY <1>1, <1>4, <2>2, <2>3, <2>4, CommandBack DEF OnlyAt
<1>6. CASE ~Migration!Removable
  <2>1. Migration!Skip(Migration!To("back"))
    BY <1>6 DEF Migration!Remove
  <2> QED
    BY <1>1, <1>4, <2>1, SkipBack, MigrationHas
<1> QED
  BY <1>5, <1>6

LEMMA BackKeeps ==
  ASSUME MigrationInv, Migration!Back
  PROVE  Kept
<1>1. pass.pc = "back" /\ pass.pc \in Undoing
  BY DEF Migration!Back, Migration!At, Undoing
<1>2. Like(Migration!To("reconnect"), "reconnect") /\ "reconnect" \in Restoring
  BY <1>1, RollbackFits DEF Restoring
<1>3. ~pass.unclear => /\ FoundIsThere(pass, boxes)
                       /\ pass.job = "split" => boxes["dev"] = None
  BY <1>1, MigrationHas DEF BoxesFit
<1>4. ASSUME NEW b \in Boxes, b["dev"] = boxes["dev"],
             ~pass.unclear => /\ IsFound(pass, b[pass.at], pass.found.ssh /\ ~pass.cut)
                              /\ b[AsideOf(pass)] = None
      PROVE  BoxesFit(Migration!To("reconnect"), b)
  BY <1>2, <1>3, <1>4
  DEF Like, BoxesFit, IsFound, Ahead, After, Undoing, Restoring, NamingOnly
<1>5. CASE pass.renamed
  <2>1. PICK new : new = Migration!Moved(Migration!Aside, pass.at)
    OBVIOUS
  <2>2. /\ new \in Boxes /\ new[AsideOf(pass)] = None /\ new[pass.at] = boxes[AsideOf(pass)]
        /\ new["dev"] = boxes["dev"]
    BY <1>1, <2>1, AsideIs, RollbackHas, MigrationHas, MovedHas
  <2>3. ~pass.unclear => IsFound(pass, new[pass.at], pass.found.ssh /\ ~pass.cut)
    BY <1>3, <1>5, <2>2 DEF FoundIsThere
  <2>4. Migration!Command(new, Migration!To("reconnect"), Migration!Lost)
    BY <1>5, <2>1 DEF Migration!Back
  <2> QED
    BY <1>1, <1>2, <1>4, <2>2, <2>3, <2>4, CommandBack
<1>6. CASE ~pass.renamed
  <2>1. Migration!Skip(Migration!To("reconnect"))
    BY <1>6 DEF Migration!Back
  <2>2. BoxesFit(Migration!To("reconnect"), boxes)
    BY <1>3, <1>4, <1>6, MigrationHas DEF FoundIsThere
  <2> QED
    BY <1>1, <1>2, <2>1, <2>2, SkipBack
<1> QED
  BY <1>5, <1>6

\* The container is back under its name.
Restored(ssh, b) ==
  /\ IsFound(pass, b[pass.at], ssh) /\ b[AsideOf(pass)] = None
  /\ pass.job = "split" => b["dev"] = None

LEMMA RestoringHas ==
  ASSUME MigrationInv, pass.pc \in Restoring, ~pass.unclear
  PROVE  Restored(IF pass.pc = "reconnect" THEN pass.found.ssh /\ ~pass.cut ELSE pass.found.ssh,
                  boxes)
BY MigrationHas DEF BoxesFit, Restored

LEMMA ReconnectKeeps ==
  ASSUME MigrationInv, Migration!Reconnect
  PROVE  Kept
<1>1. pass.pc = "reconnect" /\ pass.pc \in Restoring
  BY DEF Migration!Reconnect, Migration!At, Restoring
<1>2. Like(Migration!To("restart"), "restart") /\ "restart" \in Restoring
  BY <1>1, RollbackFits DEF Restoring
<1>3. ~pass.unclear => Restored(pass.found.ssh /\ ~pass.cut, boxes)
  BY <1>1, RestoringHas DEF Restored, IsFound
<1>4. ASSUME NEW b \in Boxes, ~pass.unclear => Restored(pass.found.ssh, b)
      PROVE  BoxesFit(Migration!To("restart"), b)
  BY <1>2, <1>4
  DEF Like, BoxesFit, Restored, IsFound, Ahead, After, Undoing, Restoring, NamingOnly
<1>5. CASE ~pass.cut
  <2>1. Migration!Skip(Migration!To("restart"))
    BY <1>5 DEF Migration!Reconnect, Migration!Cut
  <2>2. pass.found.ssh \in BOOLEAN
    BY <1>1, RollbackHas DEF Migration!Container
  <2>3. ~pass.unclear => Restored(pass.found.ssh, boxes)
    BY <1>3, <1>5, <2>2 DEF Restored, IsFound
  <2> QED
    BY <1>1, <1>2, <1>4, <2>1, <2>3, SkipBack, MigrationHas
<1>6. CASE pass.cut /\ Migration!Present(pass.at)
  <2>0. PICK on \in BOOLEAN : on = TRUE
    OBVIOUS
  <2>1. PICK new : new = Connected(pass.at, on)
    OBVIOUS
  <2>2. pass.at \in Migration!Places /\ boxes[pass.at] # None
    BY <1>1, <1>6, RollbackHas DEF Migration!Present
  <2>3. /\ OnlyAt(new, pass.at) /\ new[pass.at] # None
        /\ new[pass.at].kind = boxes[pass.at].kind
        /\ new[pass.at].layer = boxes[pass.at].layer
        /\ new[pass.at].volume = boxes[pass.at].volume
        /\ new[pass.at].ssh = on /\ new[pass.at].up = boxes[pass.at].up
    BY <2>1, <2>2, MigrationHas, ConnectedHas
  <2>4. new["dev"] = boxes["dev"] /\ new[AsideOf(pass)] = boxes[AsideOf(pass)]
    BY <1>1, <2>3, RollbackHas DEF OnlyAt
  <2>5. pass.found.ssh = TRUE
    BY <1>1, <1>6, RollbackHas DEF Migration!Container
  <2>6. ~pass.unclear => Restored(pass.found.ssh, new)
    BY <1>3, <2>0, <2>3, <2>4, <2>5 DEF Restored, IsFound
  <2>7. Migration!Command(new, Migration!To("restart"), Migration!Lost)
    BY <1>6, <2>0, <2>1 DEF Migration!Reconnect, Migration!Cut, Connected
  <2> QED
    BY <1>1, <1>2, <1>4, <2>3, <2>6, <2>7, CommandBack DEF OnlyAt
<1>7. CASE pass.cut /\ ~Migration!Present(pass.at)
  BY <1>7, NoSuchBack DEF Migration!Reconnect, Migration!Cut
<1> QED
  BY <1>5, <1>6, <1>7

LEMMA RestartKeeps ==
  ASSUME MigrationInv, Migration!Restart
  PROVE  Kept
<1>1. pass.pc = "restart" /\ pass.pc \in Restoring
  BY DEF Migration!Restart, Migration!At, Restoring
<1>2. Like(Migration!To("fail"), "fail") /\ "fail" \in Restoring
  BY <1>1, RollbackFits DEF Restoring
<1>3. ~pass.unclear => Restored(pass.found.ssh, boxes)
  BY <1>1, RestoringHas DEF Restored, IsFound
<1>4. ASSUME NEW b \in Boxes,
             ~pass.unclear => Restored(pass.found.ssh, b) /\ b[pass.at].up = pass.found.up
      PROVE  BoxesFit(Migration!To("fail"), b)
  BY <1>2, <1>4
  DEF Like, BoxesFit, Restored, IsFound, Ahead, After, Undoing, Restoring, NamingOnly
<1>5. CASE ~pass.found.up
  <2>1. Migration!Skip(Migration!To("fail"))
    BY <1>5 DEF Migration!Restart
  <2>2. ~pass.unclear => boxes[pass.at].up = pass.found.up
    <3> SUFFICES ASSUME ~pass.unclear PROVE boxes[pass.at].up = pass.found.up
      OBVIOUS
    <3>1. boxes[pass.at] # None /\ ~boxes[pass.at].up
      BY <1>3, <1>5 DEF Restored, IsFound
    <3>2. boxes[pass.at].up \in BOOLEAN /\ pass.found.up \in BOOLEAN
      BY <1>1, <3>1, RollbackHas, MigrationHas DEF Boxes, Migration!Container
    <3> QED
      BY <1>5, <3>1, <3>2
  <2> QED
    BY <1>1, <1>2, <1>3, <1>4, <2>1, <2>2, SkipBack, MigrationHas
<1>6. CASE pass.found.up /\ Migration!Present(pass.at)
  <2>1. PICK new : new = Migration!Switched(pass.at, TRUE)
    OBVIOUS
  <2>2. pass.at \in Migration!Places /\ boxes[pass.at] # None
    BY <1>1, <1>6, RollbackHas DEF Migration!Present
  <2>3. /\ OnlyAt(new, pass.at) /\ new[pass.at] # None
        /\ new[pass.at].kind = boxes[pass.at].kind
        /\ new[pass.at].layer = boxes[pass.at].layer
        /\ new[pass.at].volume = boxes[pass.at].volume
        /\ new[pass.at].ssh = boxes[pass.at].ssh /\ new[pass.at].up = TRUE
    BY <2>1, <2>2, MigrationHas, StartedHas
  <2>4. new["dev"] = boxes["dev"] /\ new[AsideOf(pass)] = boxes[AsideOf(pass)]
    BY <1>1, <2>3, RollbackHas DEF OnlyAt
  <2>5. pass.found.up = TRUE
    BY <1>1, <1>6, RollbackHas DEF Migration!Container
  <2>6. ~pass.unclear => Restored(pass.found.ssh, new) /\ new[pass.at].up = pass.found.up
    BY <1>3, <2>3, <2>4, <2>5 DEF Restored, IsFound
  <2>7. Migration!Command(new, Migration!To("fail"), Migration!Lost)
    BY <1>6, <2>1 DEF Migration!Restart
  <2> QED
    BY <1>1, <1>2, <1>4, <2>3, <2>6, <2>7, CommandBack DEF OnlyAt
<1>7. CASE pass.found.up /\ ~Migration!Present(pass.at)
  BY <1>7, NoSuchBack DEF Migration!Restart
<1> QED
  BY <1>5, <1>6, <1>7

\* A step that changes no container.
LEMMA GoneTo ==
  ASSUME MigrationInv, NEW p \in PassRecords, pass' = p, JobFits(p), BoxesFit(p, boxes),
         UNCHANGED <<boxes, fails, torn>>
  PROVE  Kept
BY MigrationHas DEF Kept, JobInv

LEMMA FailKeeps ==
  ASSUME MigrationInv, Migration!Fail
  PROVE  Kept
<1>1. pass.pc = "fail" /\ pass.pc \in Restoring
  BY DEF Migration!Fail, Migration!At, Restoring
<1>2. Like(Migration!To("failed"), "failed") /\ JobFits(Migration!To("failed"))
  BY <1>1, RollbackFits DEF Restoring
<1>3. ~pass.unclear => Restored(pass.found.ssh, boxes) /\ boxes[pass.at].up = pass.found.up
  <2>1. ~pass.unclear => boxes[pass.at].up = pass.found.up
    BY <1>1, MigrationHas DEF BoxesFit
  <2> QED
    BY <1>1, <2>1, RestoringHas DEF Restored, IsFound
<1>4. BoxesFit(Migration!To("failed"), boxes)
  BY <1>2, <1>3
  DEF Like, BoxesFit, Restored, IsFound, Ahead, After, Undoing, Restoring, NamingOnly
<1>5. pass' = Migration!To("failed") /\ UNCHANGED <<boxes, fails, torn>>
  BY DEF Migration!Fail, Migration!Goto, Migration!disk
<1> QED
  BY <1>2, <1>4, <1>5, GoneTo DEF Like

LEMMA RethrowKeeps ==
  ASSUME MigrationInv, Migration!Rethrow
  PROVE  Kept
<1>1. pass' = Migration!Lost /\ UNCHANGED <<boxes, fails, torn>>
  BY DEF Migration!Rethrow, Migration!disk
<1> QED
  BY <1>1, HandlersFit, GoneTo

(* The steps outside a migration, and those that begin one.                 *)
Outside(p) == p \in PassRecords /\ p.pc \notin InJob \cup {"boot"}

LEMMA OutsideFits ==
  ASSUME NEW p, Outside(p)
  PROVE  /\ p \in PassRecords /\ p.pc \notin Ahead \cup After \cup {"boot"}
         /\ JobFits(p) /\ \A b : BoxesFit(p, b)
BY OutOfJob DEF Outside, InJob

LEMMA OutsideTo ==
  ASSUME MigrationInv
  PROVE  /\ \A pc \in {"hold", "names", "held", "rest", "make", "tail", "sync"} :
              Outside(Migration!To(pc))
         /\ Outside(Migration!Thrown) /\ Outside(Migration!NameThrown)
         /\ Outside(Migration!NoPass)
<1>1. \A pc \in {"hold", "names", "held", "rest", "make", "tail", "sync"} :
        Outside(Migration!To(pc))
  BY ToLike
  DEF Like, Outside, MigrationPlaces, InJob, Ahead, After, Undoing, Restoring, NamingOnly
<1>2. Outside(Migration!Thrown) /\ Outside(Migration!NameThrown)
  BY MigrationHas, ThrownHas DEF Outside, InJob, Ahead, After, Undoing, Restoring, NamingOnly
<1>3. Outside(Migration!NoPass)
  BY DEF Outside, PassRecords, MigrationPlaces, Migration!NoPass, InJob, Ahead, After, Undoing,
         Restoring, NamingOnly
<1> QED
  BY <1>1, <1>2, <1>3

LEMMA CommandOutside ==
  ASSUME MigrationInv, NEW new \in Boxes, NEW next, NEW catch, Outside(next), Outside(catch),
         Migration!Command(new, next, catch)
  PROVE  Kept
BY OutsideFits, MigrationHas, CommandFits DEF Kept

LEMMA SkipOutside ==
  ASSUME MigrationInv, NEW next, Outside(next), Migration!Skip(next)
  PROVE  Kept
BY OutsideFits, SkipFits

LEMMA GoneOutside ==
  ASSUME MigrationInv, NEW next, Outside(next), pass' = next, UNCHANGED <<boxes, fails, torn>>
  PROVE  Kept
BY OutsideFits, GoneTo

LEMMA OwnedHas ==
  ASSUME boxes \in Boxes, Migration!Owned # "none"
  PROVE  /\ Migration!Owned \in Migration!Names /\ Migration!Owned \in Migration!Places
         /\ boxes[Migration!Owned] # None
         /\ boxes[Migration!Owned] \in Migration!Container
BY PlacesApart DEF Migration!Owned, Boxes

LEMMA SwitchedIn ==
  ASSUME MigrationInv, NEW p \in Migration!Places, boxes[p] # None
  PROVE  Migration!Switched(p, TRUE) \in Boxes /\ Migration!Switched(p, FALSE) \in Boxes
<1>1. PICK on : on = Migration!Switched(p, TRUE)
  OBVIOUS
<1>2. PICK off : off = Migration!Switched(p, FALSE)
  OBVIOUS
<1>3. on \in Boxes
  BY <1>1, MigrationHas, StartedHas DEF OnlyAt
<1>4. off \in Boxes
  BY <1>2, MigrationHas, StoppedHas DEF OnlyAt
<1> QED
  BY <1>1, <1>2, <1>3, <1>4

LEMMA PassBeginKeeps ==
  ASSUME MigrationInv, Migration!PassBegin
  PROVE  Kept
<1>1. PICK active \in BOOLEAN, wish \in {"none", "start", "stop"} :
        pass' = [Migration!NoPass EXCEPT !.pc = "split", !.active = active, !.request = wish]
  BY DEF Migration!PassBegin
<1>2. PICK next : next = [Migration!NoPass EXCEPT !.pc = "split", !.active = active,
                                                  !.request = wish]
  OBVIOUS
<1>3. next.pc = "split"
  BY <1>2 DEF Migration!NoPass
<1>4. next \in PassRecords
  BY <1>2 DEF PassRecords, MigrationPlaces, Migration!NoPass
<1>5. Outside(next)
  BY <1>3, <1>4 DEF Outside, InJob, Ahead, After, Undoing, Restoring, NamingOnly
<1>6. pass' = next /\ UNCHANGED <<boxes, fails, torn>>
  BY <1>1, <1>2 DEF Migration!PassBegin, Migration!disk
<1> QED
  BY <1>5, <1>6, GoneOutside

LEMMA CrashKeeps ==
  ASSUME MigrationInv, Migration!Crash
  PROVE  Kept
BY OutsideTo, GoneOutside DEF Migration!Crash, Migration!disk

LEMMA OperatorRemovesKeeps ==
  ASSUME MigrationInv, Migration!OperatorRemoves
  PROVE  Kept
<1>1. Outside(pass) /\ pass' = pass /\ UNCHANGED <<fails, torn>>
  BY MigrationHas
  DEF Migration!OperatorRemoves, Migration!At, Outside, InJob, Ahead, After, Undoing, Restoring,
      NamingOnly
<1>2. boxes' \in Boxes
  BY MigrationHas DEF Migration!OperatorRemoves, Boxes
<1> QED
  BY <1>1, <1>2, MigrationHas, OutsideFits DEF Kept, JobInv

LEMMA HoldKeeps ==
  ASSUME MigrationInv, Migration!Hold
  PROVE  Kept
<1>1. CASE Migration!NeedsHold
  <2>1. PICK next : next = [pass EXCEPT !.pc = "names", !.hold = TRUE]
    OBVIOUS
  <2>2. Outside(next)
    BY <2>1, MigrationHas
    DEF Outside, PassRecords, MigrationPlaces, InJob, Ahead, After, Undoing, Restoring,
        NamingOnly
  <2>3. Migration!Switched("dev", FALSE) \in Boxes
    BY <1>1, PlacesApart, SwitchedIn DEF Migration!NeedsHold, Migration!Present
  <2>4. Migration!Command(Migration!Switched("dev", FALSE), next, Migration!Thrown)
    BY <1>1, <2>1 DEF Migration!Hold
  <2> QED
    BY <2>2, <2>3, <2>4, OutsideTo, CommandOutside
<1>2. CASE ~Migration!NeedsHold
  BY <1>2, OutsideTo, SkipOutside DEF Migration!Hold
<1> QED
  BY <1>1, <1>2

LEMMA NamesSkippedKeeps ==
  ASSUME MigrationInv, Migration!NamesSkipped
  PROVE  Kept
<1>1. pass' = Migration!To("held") \/ pass' = Migration!NameThrown
  BY DEF Migration!NamesSkipped, Migration!Goto
<1>2. UNCHANGED <<boxes, fails, torn>>
  BY DEF Migration!NamesSkipped, Migration!disk
<1> QED
  BY <1>1, <1>2, OutsideTo, GoneOutside

LEMMA HeldKeeps ==
  ASSUME MigrationInv, Migration!Held
  PROVE  Kept
<1>1. CASE ~pass.hold
  <2>1. Migration!Skip(Migration!To("tail")) \/ Migration!Skip(Migration!To("rest"))
    BY <1>1 DEF Migration!Held
  <2> QED
    BY <2>1, OutsideTo, SkipOutside
<1>2. CASE pass.hold /\ ~pass.bad
  <2>1. PICK next : next = [pass EXCEPT !.pc = "split", !.then = "sync"]
    OBVIOUS
  <2>2. Outside(next)
    BY <2>1, MigrationHas
    DEF Outside, PassRecords, MigrationPlaces, InJob, Ahead, After, Undoing, Restoring,
        NamingOnly
  <2>3. Migration!Skip(next)
    BY <1>2, <2>1 DEF Migration!Held
  <2> QED
    BY <2>2, <2>3, SkipOutside
<1>3. CASE pass.hold /\ pass.bad
  <2>1. \/ /\ Migration!Present("dev")
           /\ Migration!Command(Migration!Switched("dev", TRUE), Migration!Thrown,
                                Migration!Thrown)
        \/ Migration!Skip(Migration!Thrown)
    BY <1>3 DEF Migration!Held
  <2>2. Migration!Present("dev") => Migration!Switched("dev", TRUE) \in Boxes
    BY PlacesApart, SwitchedIn DEF Migration!Present
  <2> QED
    BY <2>1, <2>2, OutsideTo, CommandOutside, SkipOutside
<1> QED
  BY <1>1, <1>2, <1>3

LEMMA RestKeeps ==
  ASSUME MigrationInv, Migration!Rest
  PROVE  Kept
<1>1. \/ /\ Migration!Owned # "none"
         /\ \/ Migration!Command(Migration!Switched(Migration!Owned, FALSE),
                                 Migration!To("tail"), Migration!To("tail"))
            \/ Migration!Command(Migration!Switched(Migration!Owned, TRUE),
                                 Migration!To("tail"), Migration!To("tail"))
      \/ Migration!Skip(Migration!To("make")) \/ Migration!Skip(Migration!To("tail"))
  BY DEF Migration!Rest
<1>2. Migration!Owned # "none" => /\ Migration!Switched(Migration!Owned, FALSE) \in Boxes
                                  /\ Migration!Switched(Migration!Owned, TRUE) \in Boxes
  BY MigrationHas, OwnedHas, SwitchedIn
<1> QED
  BY <1>1, <1>2, OutsideTo, CommandOutside, SkipOutside

LEMMA MakeKeeps ==
  ASSUME MigrationInv, Migration!Make
  PROVE  Kept
<1>1. Migration!Command(Migration!Provisioned, Migration!To("boot"), Migration!To("tail"))
  BY DEF Migration!Make, Migration!Provision
<1>2. Migration!Provisioned \in Boxes /\ Migration!Provisioned["runner"] # None
  BY MigrationHas, ProvisionedHas DEF OnlyAt
<1>3. Like(Migration!To("boot"), "boot")
  BY ToLike DEF MigrationPlaces
<1>4. JobFits(Migration!To("boot")) /\ BoxesFit(Migration!To("boot"), Migration!Provisioned)
  BY <1>2, <1>3, OutOfJob DEF Like, InJob, Ahead, After, Undoing, Restoring, NamingOnly
<1>5. Outside(Migration!To("tail"))
  BY OutsideTo
<1> QED
  BY <1>1, <1>2, <1>3, <1>4, <1>5, OutsideFits, MigrationHas, CommandFits DEF Kept, Like

LEMMA BootKeeps ==
  ASSUME MigrationInv, Migration!Boot
  PROVE  Kept
<1>1. boxes["runner"] # None /\ "runner" \in Migration!Places
  BY MigrationHas, PlacesApart DEF Migration!Boot, Migration!At, BoxesFit
<1>2. Migration!Command(Migration!Switched("runner", TRUE), Migration!To("tail"),
                        Migration!To("tail"))
  BY DEF Migration!Boot
<1> QED
  BY <1>1, <1>2, OutsideTo, SwitchedIn, CommandOutside

LEMMA TailKeeps ==
  ASSUME MigrationInv, Migration!Tail
  PROVE  Kept
<1>1. PICK next : next = [pass EXCEPT !.pc = "split", !.then = "sync", !.hold = FALSE]
  OBVIOUS
<1>2. Outside(next)
  BY <1>1, MigrationHas
  DEF Outside, PassRecords, MigrationPlaces, InJob, Ahead, After, Undoing, Restoring, NamingOnly
<1>3. (pass' = Migration!NoPass \/ pass' = next) /\ UNCHANGED <<boxes, fails, torn>>
  BY <1>1 DEF Migration!Tail, Migration!disk
<1> QED
  BY <1>2, <1>3, OutsideTo, GoneOutside

LEMMA DevelopmentIn ==
  ASSUME MigrationInv, Migration!Owned # "none", NEW layer \in {"image", "snapshot"},
         NEW on \in BOOLEAN
  PROVE  Migration!Development(layer, on) \in Migration!Container
<1>1. boxes[Migration!Owned].volume \in {"old", "new"}
  BY MigrationHas, OwnedHas DEF Migration!Container
<1> QED
  BY <1>1 DEF Migration!Development, Migration!Container

LEMMA SyncKeeps ==
  ASSUME MigrationInv, Migration!Sync
  PROVE  Kept
<1>1. CASE pass.active /\ Migration!Owned = "none"
  <2>1. Migration!Skip(Migration!Thrown)
    BY <1>1 DEF Migration!Sync
  <2> QED
    BY <2>1, OutsideTo, SkipOutside
<1>2. CASE ~(pass.active /\ Migration!Owned = "none")
  <2>1. PICK next : next = [pass EXCEPT !.pc = "rest", !.then = "hold", !.hold = FALSE]
    OBVIOUS
  <2>2. Outside(next)
    BY <2>1, MigrationHas
    DEF Outside, PassRecords, MigrationPlaces, InJob, Ahead, After, Undoing, Restoring,
        NamingOnly
  <2>3. \/ Migration!Command(Migration!Synced, next, Migration!Thrown)
        \/ Migration!Command(Migration!Synced, Migration!NoPass, Migration!Thrown)
    BY <1>2, <2>1 DEF Migration!Sync
  <2>4. "dev" \in Migration!Places
    BY PlacesApart
  <2>5. Migration!Present("dev") =>
          /\ Migration!Switched("dev", TRUE) \in Boxes
          /\ Migration!Switched("dev", FALSE) \in Boxes
          /\ boxes["dev"].up \in BOOLEAN
    BY <2>4, SwitchedIn, MigrationHas
    DEF Migration!Present, Boxes, Migration!Container
  <2>6. ASSUME Migration!Owned # "none", NEW on \in BOOLEAN
        PROVE  [boxes EXCEPT !["dev"] = Migration!Development("image", on)] \in Boxes
    <3>1. Migration!Development("image", on) \in Migration!Container
      BY <2>6, DevelopmentIn
    <3> QED
      BY <3>1, MigrationHas DEF Boxes
  <2>7. Migration!Owned # "none" => boxes[Migration!Owned].up \in BOOLEAN
    BY MigrationHas, OwnedHas DEF Migration!Container
  <2>8. Migration!Synced \in Boxes
    <3>1. CASE ~pass.active
      BY <2>5, <3>1, MigrationHas DEF Migration!Synced
    <3>2. CASE pass.active /\ ~Migration!Present("dev")
      <4>1. (pass.hold \/ boxes[Migration!Owned].up) \in BOOLEAN
        OBVIOUS
      <4>2. Migration!Owned # "none"
        BY <1>2, <3>2
      <4>3. Migration!Synced = [boxes EXCEPT !["dev"] =
              Migration!Development("image", pass.hold \/ boxes[Migration!Owned].up)]
        BY <3>2 DEF Migration!Synced
      <4> QED
        BY <2>6, <4>1, <4>2, <4>3
    <3>3. CASE /\ pass.active /\ Migration!Present("dev")
               /\ boxes["dev"].volume # boxes[Migration!Owned].volume
      <4>1. (pass.hold \/ boxes["dev"].up) \in BOOLEAN
        OBVIOUS
      <4>2. Migration!Owned # "none"
        BY <1>2, <3>3
      <4>3. Migration!Synced = [boxes EXCEPT !["dev"] =
              Migration!Development("image", pass.hold \/ boxes["dev"].up)]
        BY <3>3 DEF Migration!Synced
      <4> QED
        BY <2>6, <4>1, <4>2, <4>3
    <3>4. CASE /\ pass.active /\ Migration!Present("dev")
               /\ boxes["dev"].volume = boxes[Migration!Owned].volume
      BY <2>5, <3>4, MigrationHas DEF Migration!Synced
    <3> QED
      BY <3>1, <3>2, <3>3, <3>4
  <2> QED
    BY <2>2, <2>3, <2>8, OutsideTo, CommandOutside
<1> QED
  BY <1>1, <1>2

(* The beginnings of both migrations.                                       *)
LEMMA SplitCheckKeeps ==
  ASSUME MigrationInv, Migration!SplitCheck
  PROVE  Kept
<1>1. UNCHANGED <<boxes, fails, torn>>
  BY DEF Migration!SplitCheck, Migration!disk
<1>2. CASE pass' = Migration!To(pass.then)
  <2>1. pass.then \in {"hold", "sync"}
    BY MigrationHas DEF PassRecords
  <2> QED
    BY <1>1, <1>2, <2>1, OutsideTo, GoneOutside
<1>3. CASE pass' = Migration!Thrown
  BY <1>1, <1>3, OutsideTo, GoneOutside
<1>4. CASE /\ Migration!NeedsSplit
           /\ ~Migration!Present(Migration!Before[Migration!Owned])
           /\ ~Migration!Present("dev")
           /\ pass' = [pass EXCEPT !.pc = "stop", !.job = "split", !.at = Migration!Owned,
                         !.found = boxes[Migration!Owned], !.renamed = FALSE, !.cut = FALSE,
                         !.start = boxes[Migration!Owned].up /\ pass.active]
  <2>1. /\ Migration!Owned \in Migration!Names /\ boxes[Migration!Owned] # None
        /\ boxes[Migration!Owned] \in Migration!Container
    BY <1>4, MigrationHas, OwnedHas DEF Migration!NeedsSplit
  <2>2. PICK at \in Migration!Names : at = Migration!Owned
    BY <2>1
  <2>3. PICK found \in Migration!Container : found = boxes[at]
    BY <2>1, <2>2
  <2>4. PICK on \in BOOLEAN : on = (boxes[Migration!Owned].up /\ pass.active)
    OBVIOUS
  <2>5. PICK n : n = [pass EXCEPT !.pc = "stop", !.job = "split", !.at = at, !.found = found,
                                  !.renamed = FALSE, !.cut = FALSE, !.start = on]
    OBVIOUS
  <2>6. pass' = n
    BY <1>4, <2>2, <2>3, <2>4, <2>5
  <2>7. n \in PassRecords
    BY <2>5, MigrationHas DEF PassRecords, MigrationPlaces
  <2>8. /\ n.pc = "stop" /\ n.job = "split" /\ n.at = at /\ n.found = found /\ ~n.renamed
        /\ ~n.cut
    BY <2>5, MigrationHas DEF PassRecords
  <2>9. boxes[Migration!Before[at]] = None /\ boxes["dev"] = None
    BY <1>4, <2>2 DEF Migration!Present, Migration!Before, Migration!Names
  <2>10. found # None /\ found.ssh \in BOOLEAN
    BY MigrationConstants DEF Migration!Container
  <2>11. FoundIsThere(n, boxes)
    BY <2>3, <2>8, <2>9, <2>10 DEF FoundIsThere, IsFound, AsideOf
  <2>12. JobFits(n) /\ BoxesFit(n, boxes)
    BY <2>8, <2>9, <2>10, <2>11
    DEF JobFits, BoxesFit, InJob, Ahead, After, Undoing, Restoring, SplitOnly, NamingOnly
  <2> QED
    BY <1>1, <2>6, <2>7, <2>12, GoneTo
<1> QED
  BY <1>2, <1>3, <1>4 DEF Migration!SplitCheck, Migration!Goto

LEMMA NamesBeginKeeps ==
  ASSUME MigrationInv, Migration!NamesBegin
  PROVE  Kept
<1>1. UNCHANGED <<boxes, fails, torn>>
  BY DEF Migration!NamesBegin, Migration!disk
<1>2. CASE pass' = Migration!NameThrown
  BY <1>1, <1>2, OutsideTo, GoneOutside
<1>3. CASE pass' # Migration!NameThrown
  <2> DEFINE found0 == IF Migration!Owned = "none" THEN None ELSE boxes[Migration!Owned]
             start0 == Migration!Owned # "none" /\ boxes[Migration!Owned].up /\ pass.active
  <2>1. /\ Migration!Owned \in Migration!Names \cup {"none"}
        /\ Migration!Owned # "none" => /\ Migration!Owned \in Migration!Names
                                       /\ boxes[Migration!Owned] # None
                                       /\ boxes[Migration!Owned] \in Migration!Container
    BY MigrationHas, OwnedHas DEF Migration!Owned, Migration!Names
  <2>2. PICK at \in Migration!Names \cup {"none"} : at = Migration!Owned
    BY <2>1
  <2>3. PICK found \in Migration!Container \cup {None} : found = found0
    BY <2>1
  <2>4. PICK on \in BOOLEAN : on = start0
    OBVIOUS
  <2>5. PICK copies \in BOOLEAN : copies = ~Migration!Current
    OBVIOUS
  <2>6. PICK ready : ready = [pass EXCEPT !.job = "naming", !.at = at, !.renamed = FALSE,
                                          !.cut = FALSE, !.copies = copies,
                                          !.found = found, !.start = on]
    OBVIOUS
  <2>7. PICK pc \in {"stop", "held", "copy", "volume"} :
          /\ pass' = [ready EXCEPT !.pc = pc] /\ boxes[Migration!Previous] = None
          /\ pc = "stop" => Migration!Owned # "none"
          /\ pc \in {"held", "copy"} => Migration!Owned = "none"
    <3>1. ready = [pass EXCEPT !.job = "naming", !.at = Migration!Owned, !.renamed = FALSE,
                               !.cut = FALSE, !.copies = ~Migration!Current,
                               !.found = found0, !.start = start0]
      BY <2>2, <2>3, <2>4, <2>5, <2>6
    <3>2. /\ ~Migration!Present(Migration!Previous)
          /\ \/ pass' = [ready EXCEPT !.pc = IF Migration!Owned # "none" THEN "stop"
                                             ELSE IF Migration!Current THEN "held" ELSE "copy"]
             \/ pass' = [ready EXCEPT !.pc = "volume"]
      BY <1>3, <3>1 DEF Migration!NamesBegin
    <3>3. boxes[Migration!Previous] = None
      BY <3>2 DEF Migration!Present, Migration!Previous
    <3> HIDE DEF found0, start0
    <3> QED
      BY <3>2, <3>3
  <2>8. PICK n : n = [ready EXCEPT !.pc = pc]
    OBVIOUS
  <2>9. ready \in PassRecords /\ ready.job = "naming" /\ ready.at = at /\ ready.found = found
        /\ ~ready.renamed /\ ~ready.cut
    BY <2>6, MigrationHas DEF PassRecords
  <2>10. n \in PassRecords /\ n.pc = pc /\ n.job = "naming" /\ n.at = at /\ n.found = found
         /\ ~n.renamed /\ ~n.cut
    BY <2>8, <2>9 DEF PassRecords, MigrationPlaces
  <2>11. found # None =>
           /\ at \in Migration!Names /\ found = boxes[at] /\ found.ssh \in BOOLEAN
    BY <2>1, <2>2, <2>3 DEF Migration!Container
  <2>12. pc = "stop" => found # None
    BY <2>1, <2>3, <2>7
  <2>13. JobFits(n)
    BY <2>10, <2>11, <2>12
    DEF JobFits, InJob, Ahead, After, Undoing, Restoring, SplitOnly, NamingOnly
  <2>14. found # None => FoundIsThere(n, boxes)
    BY <2>7, <2>10, <2>11 DEF FoundIsThere, IsFound, AsideOf
  <2>15. BoxesFit(n, boxes)
    BY <2>10, <2>14 DEF BoxesFit, Ahead, After, Undoing, Restoring, NamingOnly
  <2> QED
    BY <1>1, <2>7, <2>8, <2>10, <2>13, <2>15, GoneTo
<1> QED
  BY <1>2, <1>3

LEMMA NamingHas ==
  ASSUME MigrationInv, pass.pc \in NamingOnly
  PROVE  /\ pass.job = "naming" /\ ~pass.renamed
         /\ pass.found # None => /\ pass.at \in Migration!Names /\ (pass.cut => pass.found.ssh)
                                 /\ FoundIsThere(pass, boxes)
BY MigrationHas DEF JobFits, BoxesFit, InJob, Ahead, NamingOnly

LEMMA NamingGoes ==
  ASSUME MigrationInv, pass.pc \in NamingOnly, NEW pc \in NamingOnly \cup {"stop", "rename"},
         pc \in {"stop", "rename"} => pass.found # None
  PROVE  /\ Migration!To(pc) \in PassRecords
         /\ JobFits(Migration!To(pc)) /\ BoxesFit(Migration!To(pc), boxes)
<1>1. Like(Migration!To(pc), pc)
  BY ToLike DEF MigrationPlaces, NamingOnly
<1>2. JobFits(Migration!To(pc))
  BY <1>1, NamingHas
  DEF Like, JobFits, InJob, Ahead, After, Undoing, Restoring, SplitOnly, NamingOnly
<1>3. pass.found # None => FoundIsThere(Migration!To(pc), boxes)
  BY <1>1, NamingHas DEF Like, FoundIsThere, IsFound
<1>4. BoxesFit(Migration!To(pc), boxes)
  BY <1>1, <1>3, NamingHas DEF Like, BoxesFit, Ahead, After, Undoing, Restoring, NamingOnly
<1> QED
  BY <1>1, <1>2, <1>4 DEF Like

\* The handler of an error while the data is copied, and what follows the copy.
LEMMA CopyCatchFits ==
  ASSUME MigrationInv, pass.pc \in NamingOnly
  PROVE  /\ Migration!CopyCatch \in PassRecords
         /\ Migration!CopyCatch.pc \notin Ahead \cup After \cup {"boot"}
         /\ JobFits(Migration!CopyCatch) /\ BoxesFit(Migration!CopyCatch, boxes)
<1>1. CASE pass.found = None
  BY <1>1, OutsideTo, OutsideFits DEF Migration!CopyCatch
<1>2. CASE pass.found # None
  <2>1. Like(Migration!To("remove"), "remove")
    BY ToLike DEF MigrationPlaces
  <2>2. /\ JobFits(Migration!To("remove")) /\ BoxesFit(Migration!To("remove"), boxes)
        /\ Migration!To("remove").pc \notin Ahead \cup After \cup {"boot"}
    BY <1>2, <2>1, NamingHas, IntoRollback
  <2> QED
    BY <1>2, <2>1, <2>2 DEF Migration!CopyCatch, Like
<1> QED
  BY <1>1, <1>2

LEMMA CopyNextFits ==
  ASSUME MigrationInv, pass.pc \in NamingOnly
  PROVE  /\ Migration!CopyNext \in PassRecords
         /\ JobFits(Migration!CopyNext) /\ BoxesFit(Migration!CopyNext, boxes)
<1>1. CASE pass.found = None
  BY <1>1, OutsideTo, OutsideFits DEF Migration!CopyNext
<1>2. CASE pass.found # None
  BY <1>2, NamingGoes DEF Migration!CopyNext
<1> QED
  BY <1>1, <1>2

LEMMA MakeVolumeKeeps ==
  ASSUME MigrationInv, Migration!MakeVolume
  PROVE  Kept
<1>1. pass.pc \in NamingOnly
  BY DEF Migration!MakeVolume, Migration!At, NamingOnly
<1> DEFINE pc == IF pass.found = None THEN "copy" ELSE "stop"
<1>2. Migration!Command(boxes, Migration!To(pc), Migration!NameThrown)
  BY DEF Migration!MakeVolume
<1>3. /\ Migration!To(pc) \in PassRecords
      /\ JobFits(Migration!To(pc)) /\ BoxesFit(Migration!To(pc), boxes)
  BY <1>1, NamingGoes DEF NamingOnly
<1> HIDE DEF pc
<1> QED
  BY <1>2, <1>3, OutsideTo, OutsideFits, MigrationHas, CommandFits DEF Kept

LEMMA CopyKeeps ==
  ASSUME MigrationInv, Migration!Copy
  PROVE  Kept
<1>1. pass.pc \in NamingOnly
  BY DEF Migration!Copy, Migration!At, NamingOnly
<1>2. CASE ~pass.copies
  BY <1>1, <1>2, CopyNextFits, SkipFits DEF Migration!Copy
<1>3. CASE pass.copies
  <2>1. Migration!Command(boxes, Migration!To("copying"), Migration!CopyCatch)
    BY <1>3 DEF Migration!Copy
  <2>2. /\ Migration!To("copying") \in PassRecords
        /\ JobFits(Migration!To("copying")) /\ BoxesFit(Migration!To("copying"), boxes)
    BY <1>1, NamingGoes DEF NamingOnly
  <2> QED
    BY <1>1, <2>1, <2>2, CopyCatchFits, MigrationHas, CommandFits DEF Kept
<1> QED
  BY <1>2, <1>3

LEMMA CopyEndKeeps ==
  ASSUME MigrationInv, Migration!CopyEnd
  PROVE  Kept
<1>1. pass.pc \in NamingOnly /\ "verify" \in NamingOnly
  BY DEF Migration!CopyEnd, Migration!At, NamingOnly
<1>2. pass' = Migration!To("verify") /\ UNCHANGED <<boxes, fails, torn>>
  BY DEF Migration!CopyEnd, Migration!Goto
<1> QED
  BY <1>1, <1>2, NamingGoes, GoneTo

LEMMA VerifyKeeps ==
  ASSUME MigrationInv, Migration!Verify
  PROVE  Kept
<1>1. pass.pc \in NamingOnly
  BY DEF Migration!Verify, Migration!At, NamingOnly
<1>2. \/ Migration!Skip(Migration!CopyCatch)
      \/ Migration!Command(boxes, Migration!CopyNext, Migration!CopyCatch)
  BY DEF Migration!Verify
<1>3. Migration!Skip(Migration!CopyCatch) => Kept
  BY <1>1, CopyCatchFits, SkipFits
<1>4. Migration!Command(boxes, Migration!CopyNext, Migration!CopyCatch) => Kept
  BY <1>1, CopyNextFits, CopyCatchFits, MigrationHas, CommandFits DEF Kept
<1> QED
  BY <1>2, <1>3, <1>4

(* The volumes and the journals.                                            *)
Volumes == [{"old", "new"} -> Migration!Volume]
Journals ==
  /\ splits \in {"none", "preparing", "ready", "failed"}
  /\ names \in [phase : {"none", "copying", "ready", "failed"}, listed : BOOLEAN]

LEMMA VolumesHave ==
  ASSUME MigrationInv
  PROVE  /\ volumes \in Volumes /\ written \in 0..MaxWrites /\ Journals
         /\ interruptions \in 0..MaxCrashes
<1>1. volumes \in Volumes /\ written \in 0..MaxWrites /\ interruptions \in 0..MaxCrashes
  BY DEF MigrationInv, Migration!TypeOK, Volumes
<1>2. Journals
  BY DEF MigrationInv, Migration!TypeOK, Journals
<1> QED
  BY <1>1, <1>2

LEMMA VolumeChanged ==
  ASSUME volumes \in Volumes, NEW v \in {"old", "new"}, NEW w \in Migration!Volume
  PROVE  [volumes EXCEPT ![v] = w] \in Volumes
BY DEF Volumes

LEMMA WorkChanged ==
  ASSUME volumes \in Volumes, NEW v \in {"old", "new"}, NEW work \in SUBSET (0..MaxWrites)
  PROVE  [volumes EXCEPT ![v].work = work] \in Volumes
<1> DEFINE w == [volumes[v] EXCEPT !.work = work]
<1>1. w \in Migration!Volume
  BY DEF Volumes, Migration!Volume
<1>2. [volumes EXCEPT ![v].work = work] = [volumes EXCEPT ![v] = w]
  OBVIOUS
<1> HIDE DEF w
<1> QED
  BY <1>1, <1>2, VolumeChanged

LEMMA WriteTypes ==
  ASSUME MigrationInv, NEW p \in Migration!Places, Migration!Write(p)
  PROVE  volumes' \in Volumes /\ written' \in 0..MaxWrites
<1>1. boxes[p].volume \in {"old", "new"}
  BY MigrationHas DEF Migration!Write, Migration!Present, Boxes, Migration!Container
<1>2. PICK v \in {"old", "new"} : v = boxes[p].volume
  BY <1>1
<1>3. written + 1 \in 0..MaxWrites
  BY VolumesHave, MigrationConstants DEF Migration!Write
<1>4. volumes[v].work \in SUBSET (0..MaxWrites)
  BY VolumesHave DEF Volumes, Migration!Volume
<1>5. PICK work : work = volumes[v].work \cup {written + 1}
  OBVIOUS
<1>6. work \in SUBSET (0..MaxWrites)
  BY <1>3, <1>4, <1>5
<1>7. volumes' = [volumes EXCEPT ![v].work = work] /\ written' = written + 1
  BY <1>2, <1>5 DEF Migration!Write
<1>8. volumes' \in Volumes
  BY <1>6, <1>7, VolumesHave, WorkChanged
<1> QED
  BY <1>3, <1>7, <1>8

LEMMA ProvisionTypes ==
  ASSUME MigrationInv, NEW next, NEW catch, Migration!Provision(next, catch)
  PROVE  volumes' \in Volumes
<1>1. PICK made \in BOOLEAN : made = TRUE
  OBVIOUS
<1>2. PICK w : w = [volumes["new"] EXCEPT !.made = made]
  OBVIOUS
<1>3. w \in Migration!Volume
  BY <1>2, VolumesHave DEF Volumes, Migration!Volume
<1>4. volumes' = volumes \/ volumes' = [volumes EXCEPT !["new"] = w]
  BY <1>1, <1>2 DEF Migration!Provision
<1> QED
  BY <1>3, <1>4, VolumesHave, VolumeChanged

LEMMA MakeVolumeTypes ==
  ASSUME MigrationInv, Migration!MakeVolume
  PROVE  volumes' \in Volumes
<1>1. PICK w : w = [made |-> TRUE, migrated |-> TRUE, work |-> {}]
  OBVIOUS
<1>2. w \in Migration!Volume
  BY <1>1 DEF Migration!Volume
<1>3. volumes' = volumes \/ volumes' = [volumes EXCEPT !["new"] = w]
  BY <1>1 DEF Migration!MakeVolume
<1> QED
  BY <1>2, <1>3, VolumesHave, VolumeChanged

LEMMA CopyTypes ==
  ASSUME MigrationInv, Migration!Copy
  PROVE  volumes' \in Volumes /\ Journals'
<1>1. volumes' = volumes \/ volumes' = [volumes EXCEPT !["new"].work = {}]
  BY DEF Migration!Copy
<1>0. PICK yes \in BOOLEAN : yes = TRUE
  OBVIOUS
<1>2. names' = names \/ names' = [phase |-> "copying", listed |-> yes]
  BY <1>0 DEF Migration!Copy
<1>3. splits' = splits
  BY DEF Migration!Copy
<1>4. volumes' \in Volumes
  BY <1>1, VolumesHave, WorkChanged
<1>5. Journals'
  BY <1>2, <1>3, VolumesHave DEF Journals
<1> QED
  BY <1>4, <1>5

LEMMA CopyEndTypes ==
  ASSUME MigrationInv, Migration!CopyEnd
  PROVE  volumes' \in Volumes
<1>1. volumes["old"].work \in SUBSET (0..MaxWrites)
  BY VolumesHave DEF Volumes, Migration!Volume
<1>2. PICK work \in SUBSET (0..MaxWrites) : work = volumes["old"].work
  BY <1>1
<1>3. volumes' = [volumes EXCEPT !["new"].work = work]
  BY <1>2 DEF Migration!CopyEnd
<1> QED
  BY <1>3, VolumesHave, WorkChanged

LEMMA FailTypes ==
  ASSUME MigrationInv, Migration!Fail
  PROVE  Journals'
<1>1. pass.copies \in BOOLEAN
  BY MigrationHas DEF PassRecords
<1>2. PICK copies \in BOOLEAN : copies = pass.copies
  BY <1>1
<1>3. names' = names \/ names' = [phase |-> "failed", listed |-> copies]
  BY <1>2 DEF Migration!Fail
<1>4. splits' = splits \/ splits' = "failed"
  BY DEF Migration!Fail
<1> QED
  BY <1>3, <1>4, VolumesHave DEF Journals

LEMMA NamesBeginTypes ==
  ASSUME MigrationInv, Migration!NamesBegin
  PROVE  Journals'
<1>1. Migration!Entry \in [phase : {"none", "copying", "ready", "failed"}, listed : BOOLEAN]
  BY VolumesHave DEF Migration!Entry, Journals
<1>0. PICK yes \in BOOLEAN : yes = TRUE
  OBVIOUS
<1>2. \/ names' = Migration!Entry
      \/ names' = [phase |-> "copying", listed |-> yes]
  BY <1>0 DEF Migration!NamesBegin
<1>3. splits' = splits
  BY DEF Migration!NamesBegin
<1> QED
  BY <1>1, <1>2, <1>3, VolumesHave DEF Journals

LEMMA VerifyTypes ==
  ASSUME MigrationInv, Migration!Verify
  PROVE  Journals'
<1>1. names' = names \/ names' = [names EXCEPT !.phase = "ready"]
  BY DEF Migration!Verify
<1> QED
  BY <1>1, VolumesHave DEF Journals, Migration!Verify

LEMMA MigrationKept ==
  ASSUME Kept, volumes' \in Volumes, written' \in 0..MaxWrites, Journals',
         interruptions' \in 0..MaxCrashes
  PROVE  MigrationInv'
<1>1. pass'.at \in Migration!Names \cup {"none"} /\ pass'.found \in Migration!Container \cup {None}
  BY DEF Kept, JobInv, PassRecords
<1>2. names'.phase \in {"none", "copying", "ready", "failed"} /\ names'.listed \in BOOLEAN
  BY DEF Journals
<1>3. Migration!TypeOK'
  BY <1>1, <1>2 DEF Kept, Journals, Volumes, Migration!TypeOK, Boxes
<1>4. JobInv' /\ names' \in [phase : {"none", "copying", "ready", "failed"}, listed : BOOLEAN]
  BY DEF Kept, Journals
<1> QED
  BY <1>3, <1>4 DEF MigrationInv

(* The invariant, step by step.                                             *)
LEMMA MigrationStarts ==
  ASSUME Migration!Init
  PROVE  MigrationInv
<1>1. Migration!Empty \in Boxes
  BY DEF Migration!Empty, Boxes
<1>2. ASSUME NEW kind \in {"unified", "split", "workspace"}, NEW volume \in {"old", "new"},
             NEW on \in BOOLEAN, NEW ssh \in BOOLEAN
      PROVE  Migration!Runner(kind, volume, on, ssh) \in Migration!Container
  BY DEF Migration!Runner, Migration!Container
<1>3. ASSUME NEW at \in Migration!Names, NEW volume \in {"old", "new"},
             Migration!ToSplit(at, volume)
      PROVE  boxes \in Boxes
  <2>1. PICK on \in BOOLEAN, ssh \in BOOLEAN :
          boxes = [Migration!Empty EXCEPT ![at] = Migration!Runner("unified", volume, on, ssh)]
    BY <1>3 DEF Migration!ToSplit
  <2>2. Migration!Runner("unified", volume, on, ssh) \in Migration!Container
    BY <1>2
  <2> QED
    BY <1>1, <2>1, <2>2 DEF Boxes
<1>4. ASSUME NEW at \in Migration!Names, Migration!ToName(at)
      PROVE  boxes \in Boxes
  <2>1. PICK on \in BOOLEAN, dev \in BOOLEAN :
          boxes = [Migration!Empty EXCEPT
                     ![at] = Migration!Runner("split", "old", on, FALSE),
                     !["dev"] = [Migration!Runner("workspace", "old", dev, TRUE)
                                   EXCEPT !.layer = "image"]]
    BY <1>4 DEF Migration!ToName
  <2>2. Migration!Runner("split", "old", on, FALSE) \in Migration!Container
    BY <1>2
  <2>3. Migration!Runner("workspace", "old", dev, TRUE) \in Migration!Container
    BY <1>2
  <2>4. PICK c : c = [Migration!Runner("workspace", "old", dev, TRUE) EXCEPT !.layer = "image"]
    OBVIOUS
  <2>5. c \in Migration!Container
    BY <2>3, <2>4 DEF Migration!Container
  <2> QED
    BY <1>1, <2>1, <2>2, <2>4, <2>5 DEF Boxes
<1>5. boxes \in Boxes
  <2>1. \A at \in Migration!Names : Migration!ToSplit(at, "old") => boxes \in Boxes
    BY <1>3
  <2>2. Migration!ToSplit("runner", "new") => boxes \in Boxes
    BY <1>3, PlacesApart
  <2>3. \/ Migration!ToSplit("runner", "new")
        \/ \E at \in Migration!Names : Migration!ToSplit(at, "old")
        \/ boxes = Migration!Empty
        \/ \E at \in Migration!Names : Migration!ToName(at)
    BY DEF Migration!Init
  <2> QED
    BY <1>1, <1>4, <2>1, <2>2, <2>3
<1>6. volumes \in Volumes
  <2>1. PICK v \in {"old", "new"} :
          volumes = [w \in {"old", "new"} |-> [made |-> w = v, migrated |-> FALSE,
                                               work |-> IF w = v THEN {0} ELSE {}]]
    BY DEF Migration!Init
  <2>2. ASSUME NEW w \in {"old", "new"}
        PROVE  [made |-> w = v, migrated |-> FALSE, work |-> IF w = v THEN {0} ELSE {}]
                 \in Migration!Volume
    <3>1. (IF w = v THEN {0} ELSE {}) \in SUBSET (0..MaxWrites)
      BY MigrationConstants
    <3> QED
      BY <3>1 DEF Migration!Volume
  <2> QED
    BY <2>1, <2>2 DEF Volumes
<1>7. pass = Migration!NoPass /\ pass \in PassRecords /\ pass.pc = "idle"
  BY DEF Migration!Init, Migration!NoPass, PassRecords, MigrationPlaces
<1>8. JobInv
  BY <1>7, OutOfJob DEF JobInv, InJob, Ahead, After, Undoing, Restoring, NamingOnly
<1>9. /\ written = 0 /\ splits = "none" /\ names = [phase |-> "none", listed |-> FALSE]
      /\ fails = 0 /\ interruptions = 0 /\ torn = FALSE
  BY DEF Migration!Init
<1>10. names \in [phase : {"none", "copying", "ready", "failed"}, listed : BOOLEAN]
  BY <1>9
<1>11. /\ written \in 0..MaxWrites /\ fails \in 0..MaxFails
       /\ interruptions \in 0..MaxCrashes
  BY <1>9, MigrationConstants
<1>12. pass.at \in Migration!Names \cup {"none"} /\ pass.found \in Migration!Container \cup {None}
  BY <1>7 DEF PassRecords
<1>13. Migration!TypeOK
  BY <1>5, <1>6, <1>9, <1>10, <1>11, <1>12 DEF Migration!TypeOK, Boxes, Volumes
<1> QED
  BY <1>8, <1>10, <1>13 DEF MigrationInv

\* What a pass does without a change of a journal or a volume.
Records == <<volumes, written, splits, names, interruptions>>

LEMMA RecordsStay ==
  ASSUME MigrationInv, Kept, UNCHANGED Records
  PROVE  MigrationInv'
<1>1. volumes' \in Volumes /\ written' \in 0..MaxWrites /\ interruptions' \in 0..MaxCrashes
  BY VolumesHave DEF Records
<1>2. Journals'
  BY VolumesHave DEF Records, Journals
<1> QED
  BY <1>1, <1>2, MigrationKept

LEMMA SplitStep ==
  ASSUME MigrationInv, Migration!Split
  PROVE  MigrationInv'
<1>1. CASE Migration!SplitCheck
  <2>1. splits' = splits \/ splits' = "preparing"
    BY <1>1 DEF Migration!SplitCheck
  <2>2. UNCHANGED <<volumes, written, names, interruptions>>
    BY <1>1 DEF Migration!SplitCheck, Migration!disk
  <2>3. Journals'
    BY <2>1, <2>2, VolumesHave DEF Journals
  <2> QED
    BY <1>1, <2>2, <2>3, SplitCheckKeeps, VolumesHave, MigrationKept
<1>2. CASE Migration!SplitReady
  <2>1. splits' = "ready" /\ UNCHANGED <<volumes, written, names, interruptions>>
    BY <1>2 DEF Migration!SplitReady, Migration!disk
  <2>2. Journals'
    BY <2>1, VolumesHave DEF Journals
  <2> QED
    BY <1>2, <2>1, <2>2, SplitReadyKeeps, VolumesHave, MigrationKept
<1>3. CASE \/ Migration!Detach \/ Migration!Snapshot \/ Migration!CreateDevelopment
           \/ Migration!StartDevelopment \/ Migration!Probe
  <2>1. UNCHANGED Records
    BY <1>3
    DEF Records, Migration!journals, Migration!Detach, Migration!Snapshot,
        Migration!CreateDevelopment, Migration!StartDevelopment, Migration!Probe
  <2>2. Kept
    BY <1>3, DetachKeeps, SnapshotKeeps, CreateDevelopmentKeeps, StartDevelopmentKeeps,
       ProbeKeeps
  <2> QED
    BY <2>1, <2>2, RecordsStay
<1> QED
  BY <1>1, <1>2, <1>3 DEF Migration!Split

LEMMA NamingStep ==
  ASSUME MigrationInv, Migration!Naming
  PROVE  MigrationInv'
<1>1. CASE Migration!Hold \/ Migration!Held
  <2>1. UNCHANGED Records
    BY <1>1 DEF Records, Migration!journals, Migration!Hold, Migration!Held
  <2> QED
    BY <1>1, <2>1, HoldKeeps, HeldKeeps, RecordsStay
<1>2. CASE Migration!NamesSkipped
  <2>1. UNCHANGED Records
    BY <1>2 DEF Records, Migration!journals, Migration!NamesSkipped, Migration!disk
  <2> QED
    BY <1>2, <2>1, NamesSkippedKeeps, RecordsStay
<1>3. CASE Migration!NamesBegin
  <2>1. UNCHANGED <<volumes, written, interruptions>>
    BY <1>3 DEF Migration!NamesBegin, Migration!disk
  <2> QED
    BY <1>3, <2>1, NamesBeginKeeps, NamesBeginTypes, VolumesHave, MigrationKept
<1>4. CASE Migration!MakeVolume
  <2>1. UNCHANGED <<written, splits, names, interruptions>>
    BY <1>4 DEF Migration!MakeVolume, Migration!journals
  <2>2. Journals'
    BY <2>1, VolumesHave DEF Journals
  <2> QED
    BY <1>4, <2>1, <2>2, MakeVolumeKeeps, MakeVolumeTypes, VolumesHave, MigrationKept
<1>5. CASE Migration!Copy
  <2>1. UNCHANGED <<written, interruptions>>
    BY <1>5 DEF Migration!Copy
  <2> QED
    BY <1>5, <2>1, CopyKeeps, CopyTypes, VolumesHave, MigrationKept
<1>6. CASE Migration!CopyEnd
  <2>1. UNCHANGED <<written, splits, names, interruptions>>
    BY <1>6 DEF Migration!CopyEnd, Migration!journals
  <2>2. Journals'
    BY <2>1, VolumesHave DEF Journals
  <2> QED
    BY <1>6, <2>1, <2>2, CopyEndKeeps, CopyEndTypes, VolumesHave, MigrationKept
<1>7. CASE Migration!Verify
  <2>1. UNCHANGED <<volumes, written, interruptions>>
    BY <1>7 DEF Migration!Verify
  <2> QED
    BY <1>7, <2>1, VerifyKeeps, VerifyTypes, VolumesHave, MigrationKept
<1> QED
  BY <1>1, <1>2, <1>3, <1>4, <1>5, <1>6, <1>7 DEF Migration!Naming

LEMMA SharedStep ==
  ASSUME MigrationInv, Migration!Shared
  PROVE  MigrationInv'
<1>1. CASE Migration!ProvisionRunner
  <2>1. \E next, catch : Migration!Provision(next, catch)
    BY <1>1 DEF Migration!ProvisionRunner
  <2>2. UNCHANGED <<written, splits, names, interruptions>>
    BY <1>1 DEF Migration!ProvisionRunner, Migration!journals
  <2>3. Journals'
    BY <2>2, VolumesHave DEF Journals
  <2> QED
    BY <1>1, <2>1, <2>2, <2>3, ProvisionRunnerKeeps, ProvisionTypes, VolumesHave, MigrationKept
<1>2. CASE \/ Migration!StopFound \/ Migration!Rename \/ Migration!StartRunner
           \/ Migration!Drop
  <2>1. UNCHANGED Records
    BY <1>2
    DEF Records, Migration!journals, Migration!StopFound, Migration!Rename,
        Migration!StartRunner, Migration!Drop
  <2>2. Kept
    BY <1>2, StopFoundKeeps, RenameKeeps, StartRunnerKeeps, DropKeeps
  <2> QED
    BY <2>1, <2>2, RecordsStay
<1> QED
  BY <1>1, <1>2 DEF Migration!Shared

LEMMA UndoStep ==
  ASSUME MigrationInv, Migration!Undo
  PROVE  MigrationInv'
<1>1. CASE Migration!Fail
  <2>1. UNCHANGED <<volumes, written, interruptions>>
    BY <1>1 DEF Migration!Fail, Migration!disk
  <2> QED
    BY <1>1, <2>1, FailKeeps, FailTypes, VolumesHave, MigrationKept
<1>2. CASE Migration!Rethrow
  <2>1. UNCHANGED Records
    BY <1>2 DEF Records, Migration!journals, Migration!Rethrow, Migration!disk
  <2> QED
    BY <1>2, <2>1, RethrowKeeps, RecordsStay
<1>3. CASE \/ Migration!Discard \/ Migration!Remove \/ Migration!Back \/ Migration!Reconnect
           \/ Migration!Restart
  <2>1. UNCHANGED Records
    BY <1>3
    DEF Records, Migration!journals, Migration!Discard, Migration!Remove, Migration!Back,
        Migration!Reconnect, Migration!Restart
  <2>2. Kept
    BY <1>3, DiscardKeeps, RemoveKeeps, BackKeeps, ReconnectKeeps, RestartKeeps
  <2> QED
    BY <2>1, <2>2, RecordsStay
<1> QED
  BY <1>1, <1>2, <1>3 DEF Migration!Undo

LEMMA OthersStep ==
  ASSUME MigrationInv, Migration!Others
  PROVE  MigrationInv'
<1>1. CASE Migration!Make
  <2>1. \E next, catch : Migration!Provision(next, catch)
    BY <1>1 DEF Migration!Make
  <2>2. UNCHANGED <<written, splits, names, interruptions>>
    BY <1>1 DEF Migration!Make, Migration!journals
  <2>3. Journals'
    BY <2>2, VolumesHave DEF Journals
  <2> QED
    BY <1>1, <2>1, <2>2, <2>3, MakeKeeps, ProvisionTypes, VolumesHave, MigrationKept
<1>2. CASE Migration!Tail
  <2>1. UNCHANGED Records
    BY <1>2 DEF Records, Migration!journals, Migration!Tail, Migration!disk
  <2> QED
    BY <1>2, <2>1, TailKeeps, RecordsStay
<1>3. CASE Migration!Rest \/ Migration!Boot \/ Migration!Sync
  <2>1. UNCHANGED Records
    BY <1>3 DEF Records, Migration!journals, Migration!Rest, Migration!Boot, Migration!Sync
  <2> QED
    BY <1>3, <2>1, RestKeeps, BootKeeps, SyncKeeps, RecordsStay
<1> QED
  BY <1>1, <1>2, <1>3 DEF Migration!Others

LEMMA MigrationStepInv ==
  ASSUME MigrationInv, [Migration!Next]_(Migration!migrationVars)
  PROVE  MigrationInv'
<1>1. ASSUME NEW p \in Migration!Places, Migration!Write(p)
      PROVE  MigrationInv'
  <2>1. pass' = pass /\ UNCHANGED <<boxes, fails, torn, splits, names, interruptions>>
    BY <1>1 DEF Migration!Write, Migration!journals
  <2>2. Kept
    BY <2>1, MigrationHas, GoneTo
  <2>3. Journals'
    BY <2>1, VolumesHave DEF Journals
  <2> QED
    BY <1>1, <2>1, <2>2, <2>3, WriteTypes, VolumesHave, MigrationKept
<1>2. CASE Migration!OperatorRemoves
  <2>1. UNCHANGED Records
    BY <1>2 DEF Records, Migration!journals, Migration!OperatorRemoves
  <2> QED
    BY <1>2, <2>1, OperatorRemovesKeeps, RecordsStay
<1>3. CASE Migration!PassBegin
  <2>1. UNCHANGED Records
    BY <1>3 DEF Records, Migration!journals, Migration!PassBegin, Migration!disk
  <2> QED
    BY <1>3, <2>1, PassBeginKeeps, RecordsStay
<1>4. CASE Migration!Crash
  <2>1. UNCHANGED <<volumes, written, splits, names>>
    BY <1>4 DEF Migration!Crash, Migration!journals, Migration!disk
  <2>2. interruptions' \in 0..MaxCrashes
    BY <1>4, VolumesHave, MigrationConstants DEF Migration!Crash
  <2>3. Journals'
    BY <2>1, VolumesHave DEF Journals
  <2> QED
    BY <1>4, <2>1, <2>2, <2>3, CrashKeeps, VolumesHave, MigrationKept
<1>5. CASE \/ Migration!Split \/ Migration!Naming \/ Migration!Shared \/ Migration!Undo
           \/ Migration!Others
  BY <1>5, SplitStep, NamingStep, SharedStep, UndoStep, OthersStep
<1>6. CASE UNCHANGED Migration!migrationVars
  <2>1. pass' = pass /\ UNCHANGED <<boxes, fails, torn>> /\ UNCHANGED Records
    BY <1>6 DEF Migration!migrationVars, Migration!disk, Migration!journals, Records
  <2> QED
    BY <2>1, MigrationHas, GoneTo, RecordsStay
<1> QED
  BY <1>1, <1>2, <1>3, <1>4, <1>5, <1>6 DEF Migration!Next

\* Two containers of which everything is the same.
LEMMA SameContainer ==
  ASSUME NEW c \in Migration!Container, NEW d \in Migration!Container, c.kind = d.kind,
         c.layer = d.layer, c.volume = d.volume, c.up = d.up, c.ssh = d.ssh
  PROVE  c = d
BY DEF Migration!Container

\* A migration that ends as failed left the container it found as it found it, whatever
\* command failed before or in its rollback, unless a command had its effect and still
\* reported an error where the rollback does not look.
THEOREM FailureUndoes == Migration!Spec => []FailureRestores
<1>1. Migration!Init => MigrationInv
  BY MigrationStarts
<1>2. MigrationInv /\ [Migration!Next]_(Migration!migrationVars) => MigrationInv'
  BY MigrationStepInv
<1>3. MigrationInv => FailureRestores
  <2> SUFFICES ASSUME MigrationInv, pass.pc = "failed", ~pass.unclear
               PROVE  /\ boxes[pass.at] = pass.found
                      /\ boxes[Migration!Aside] = None
                      /\ pass.job = "split" => boxes["dev"] = None
    BY DEF FailureRestores, Migration!FailureRestores, Migration!At, Migration!Present
  <2>1. pass.pc \in Restoring
    BY DEF Restoring
  <2>2. Restored(pass.found.ssh, boxes) /\ boxes[pass.at].up = pass.found.up
    <3>1. boxes[pass.at].up = pass.found.up
      BY <2>1, MigrationHas DEF BoxesFit
    <3> QED
      BY <2>1, <3>1, RestoringHas DEF Restored, IsFound
  <2>3. boxes[pass.at] \in Migration!Container /\ pass.found \in Migration!Container
    BY <2>1, <2>2, RollbackHas, MigrationHas DEF Boxes, Restored, IsFound
  <2>4. boxes[pass.at] = pass.found
    BY <2>2, <2>3, SameContainer DEF Restored, IsFound
  <2> QED
    BY <2>2, <2>4, AsideIs DEF Restored
<1> QED
  BY <1>1, <1>2, <1>3, PTL DEF Migration!Spec

-----------------------------------------------------------------------------
(* The work of the owner.  Where the volumes were named first, there are     *)
(* two kinds of installations: one that is split, all on the volume named    *)
(* after the runner, and one that is moved to it and has no unified          *)
(* container.                                                                *)

\* No step of a migration, and no copy left from one.
Plain(p) == p \in PassRecords /\ p.pc \notin InJob /\ ~p.copies

Placing == {"create", "startdev", "start", "probe", "ready", "drop"}

\* What is told of a container that is split or results from it.
FitsDirect(c, p) ==
  /\ c.volume = "new" /\ (c.kind = "unified" <=> c.layer = "own")
  /\ p = "dev" => c.layer # "own"

DirectBoxes(b) ==
  /\ b["former"] = None
  /\ \A p \in Migration!Places : b[p] # None => FitsDirect(b[p], p)

\* The original is set aside, and the replacements are as far as the place says.
SplitFits(p, b) ==
  /\ ~p.copies
  /\ p.pc \in InJob => p.job = "split" /\ p.at = "runner" /\ p.found.kind = "unified"
  /\ p.renamed /\ p.pc \in After \cup Undoing =>
       b["runner-before"] # None /\ b["runner-before"].layer = "own"
  /\ p.pc \in Placing => b["runner"] # None
  /\ p.pc \in Placing \ {"create"} => b["dev"] # None /\ b["dev"].layer = "snapshot"
  /\ p.pc \in {"startdev", "start", "probe"} => p.start
  /\ p.pc \in {"start", "probe", "ready", "drop"} /\ p.start => b["dev"].up
  /\ p.pc \in {"probe", "ready", "drop"} /\ p.start => b["runner"].up

DirectInv ==
  /\ volumes["new"].made /\ ~volumes["new"].migrated /\ volumes["new"].work = 0..written
  /\ DirectBoxes(boxes) /\ SplitFits(pass, boxes)
  /\ pass.pc = "drop" => splits = "ready"

\* What a step keeps: the facts, and a container with the packages of the owner.
DirectKept ==
  /\ DirectInv'
  /\ Migration!Original(boxes) => Migration!Original(boxes') \/ Migration!Ready

LEMMA PlainFits ==
  ASSUME NEW p, Plain(p), NEW b
  PROVE  SplitFits(p, b) /\ p.pc # "drop"
BY DEF Plain, SplitFits, InJob, Ahead, After, Undoing, Placing

LEMMA PlainTo ==
  ASSUME MigrationInv, ~pass.copies
  PROVE  /\ \A pc \in {"hold", "names", "held", "rest", "make", "boot", "tail", "sync"} :
              Plain(Migration!To(pc))
         /\ Plain(Migration!Thrown) /\ Plain(Migration!NameThrown) /\ Plain(Migration!Lost)
         /\ Plain(Migration!NoPass)
<1>1. \A pc \in {"hold", "names", "held", "rest", "make", "boot", "tail", "sync"} :
        Plain(Migration!To(pc))
  BY MigrationHas
  DEF Plain, PassRecords, MigrationPlaces, Migration!To, InJob, Ahead, After, Undoing,
      Restoring, NamingOnly
<1>2. Plain(Migration!Thrown)
  <2>1. PICK pc \in {"tail", "idle"} : Migration!Thrown = [pass EXCEPT !.pc = pc, !.hold = FALSE]
    BY DEF Migration!Thrown
  <2> QED
    BY <2>1, MigrationHas
    DEF Plain, PassRecords, MigrationPlaces, InJob, Ahead, After, Undoing, Restoring, NamingOnly
<1>3. Plain(Migration!NameThrown)
  BY MigrationHas
  DEF Plain, PassRecords, MigrationPlaces, Migration!NameThrown, InJob, Ahead, After, Undoing,
      Restoring, NamingOnly
<1>4. Plain(Migration!NoPass)
  BY DEF Plain, PassRecords, MigrationPlaces, Migration!NoPass, InJob, Ahead, After, Undoing,
         Restoring, NamingOnly
<1> QED
  BY <1>1, <1>2, <1>3, <1>4 DEF Migration!Lost

\* A step that changes neither a volume nor the journal of the split.
LEMMA DirectSame ==
  ASSUME DirectInv, UNCHANGED <<volumes, written, splits>>, DirectBoxes(boxes'),
         SplitFits(pass', boxes'), pass'.pc = "drop" => splits = "ready",
         Migration!Original(boxes) => Migration!Original(boxes') \/ Migration!Ready
  PROVE  DirectKept
BY DEF DirectInv, DirectKept, DirectBoxes, FitsDirect, SplitFits

LEMMA DirectCommand ==
  ASSUME DirectInv, UNCHANGED <<volumes, written, splits>>, NEW new, DirectBoxes(new),
         NEW next, SplitFits(next, new), next.pc = "drop" => splits = "ready",
         NEW catch \in PassRecords, SplitFits(catch, boxes), SplitFits(catch, new),
         catch.pc # "drop", Migration!Command(new, next, catch),
         Migration!Original(boxes) => Migration!Original(new) \/ Migration!Ready
  PROVE  DirectKept
<1>1. PICK ok \in BOOLEAN : /\ boxes' \in {boxes, new}
                            /\ ok => boxes' = new /\ pass' = next
                            /\ ~ok => \E u \in BOOLEAN : pass' = [catch EXCEPT !.unclear = u]
  <2>1. PICK ok \in Migration!Outcomes : Migration!Command(new, next, catch)!(ok)
    BY DEF Migration!Command
  <2>2. ok \in BOOLEAN
    BY DEF Migration!Outcomes
  <2>3. (catch.unclear \/ (boxes' # boxes /\ pass.pc \in Migration!Unnoticed)) \in BOOLEAN
    OBVIOUS
  <2> QED
    BY <2>1, <2>2, <2>3
<1>2. CASE ok
  BY <1>1, <1>2, DirectSame
<1>3. CASE ~ok
  <2>1. PICK u \in BOOLEAN : pass' = [catch EXCEPT !.unclear = u]
    BY <1>1, <1>3
  <2>2. SplitFits(catch, boxes')
    BY <1>1
  <2>3. SplitFits(pass', boxes') /\ pass'.pc # "drop"
    BY <2>1, <2>2 DEF SplitFits, PassRecords
  <2>4. DirectBoxes(boxes')
    BY <1>1 DEF DirectInv
  <2> QED
    BY <1>1, <2>3, <2>4, DirectSame
<1> QED
  BY <1>2, <1>3

LEMMA DirectOutside ==
  ASSUME DirectInv, UNCHANGED <<volumes, written, splits>>, NEW new, DirectBoxes(new),
         NEW next, Plain(next), NEW catch, Plain(catch), Migration!Command(new, next, catch),
         Migration!Original(boxes) => Migration!Original(new) \/ Migration!Ready
  PROVE  DirectKept
BY PlainFits, DirectCommand DEF Plain

LEMMA DirectGone ==
  ASSUME DirectInv, UNCHANGED <<volumes, written, splits, boxes>>, Plain(pass')
  PROVE  DirectKept
BY PlainFits, DirectSame DEF DirectInv

\* A change of one container that keeps what is told of it, and its packages.
LEMMA DirectAt ==
  ASSUME DirectInv, MigrationInv, NEW p \in Migration!Places, NEW new, OnlyAt(new, p),
         new[p] # None => p # "former" /\ FitsDirect(new[p], p),
         boxes[p] # None /\ boxes[p].layer = "own" => new[p] # None /\ new[p].layer = "own"
  PROVE  DirectBoxes(new) /\ (Migration!Original(boxes) => Migration!Original(new))
<1>1. "former" \in Migration!Places
  BY PlacesApart
<1>2. DirectBoxes(new)
  BY <1>1 DEF OnlyAt, DirectInv, DirectBoxes
<1>3. ASSUME Migration!Original(boxes)
      PROVE  Migration!Original(new)
  <2>1. PICK q \in Migration!Places : boxes[q] # None /\ boxes[q].layer = "own"
    BY <1>3 DEF Migration!Original
  <2>2. new[q] # None /\ new[q].layer = "own"
    BY <2>1 DEF OnlyAt
  <2> QED
    BY <2>2 DEF Migration!Original
<1> QED
  BY <1>2, <1>3

LEMMA DirectSwitched ==
  ASSUME DirectInv, MigrationInv, NEW p \in Migration!Places, boxes[p] # None, NEW on \in BOOLEAN,
         NEW new, new = Migration!Switched(p, on)
  PROVE  DirectBoxes(new) /\ (Migration!Original(boxes) => Migration!Original(new))
<1>1. /\ OnlyAt(new, p) /\ new[p] # None /\ new[p].kind = boxes[p].kind
      /\ new[p].layer = boxes[p].layer /\ new[p].volume = boxes[p].volume
  BY MigrationHas, SwitchedHas
<1>2. p # "former" /\ FitsDirect(boxes[p], p)
  BY DEF DirectInv, DirectBoxes
<1> QED
  BY <1>1, <1>2, DirectAt DEF FitsDirect

\* A development container is never the one with the packages.
LEMMA DirectDevelopment ==
  ASSUME DirectInv, MigrationInv, NEW new, OnlyAt(new, "dev"),
         new["dev"] # None => new["dev"].volume = "new" /\ new["dev"].kind = "workspace"
                                /\ new["dev"].layer \in {"image", "snapshot"}
  PROVE  DirectBoxes(new) /\ (Migration!Original(boxes) => Migration!Original(new))
<1>1. "dev" \in Migration!Places
  BY PlacesApart
<1>2. boxes["dev"] # None => boxes["dev"].layer # "own"
  BY <1>1 DEF DirectInv, DirectBoxes, FitsDirect
<1> QED
  BY <1>1, <1>2, DirectAt DEF FitsDirect

LEMMA DirectProvisioned ==
  ASSUME DirectInv, MigrationInv, NEW new, new = Migration!Provisioned
  PROVE  /\ DirectBoxes(new) /\ (Migration!Original(boxes) => Migration!Original(new))
         /\ OnlyAt(new, "runner") /\ new["runner"] # None
<1>1. OnlyAt(new, "runner") /\ new["runner"] # None /\ "runner" \in Migration!Places
  BY MigrationHas, ProvisionedHas, PlacesApart
<1>2. CASE boxes["runner"] # None
  <2>1. new = boxes
    BY <1>2 DEF Migration!Provisioned, Migration!Present
  <2> QED
    BY <1>1, <2>1 DEF DirectInv
<1>3. CASE boxes["runner"] = None
  <2>1. FitsDirect(new["runner"], "runner")
    <3>1. new["runner"] = [kind |-> "split", layer |-> "image", volume |-> "new", up |-> FALSE,
                           ssh |-> FALSE]
      BY <1>1, <1>3, MigrationHas DEF Migration!Provisioned, Migration!Present, Boxes
    <3> QED
      BY <3>1 DEF FitsDirect
  <2> QED
    BY <1>1, <1>3, <2>1, DirectAt
<1> QED
  BY <1>2, <1>3

\* Every container is on the volume that has all the work.
LEMMA DirectOwned ==
  ASSUME DirectInv, MigrationInv
  PROVE  /\ Migration!Owned \in {"runner", "none"}
         /\ Migration!Owned # "none" => boxes["runner"] # None /\ boxes["runner"].volume = "new"
         /\ Migration!Current
<1>1. "runner" \in Migration!Places
  BY PlacesApart
<1>2. Migration!Owned \in {"runner", "none"}
  BY DEF DirectInv, DirectBoxes, Migration!Owned
<1>3. Migration!Owned # "none" => boxes["runner"] # None /\ boxes["runner"].volume = "new"
  BY <1>1 DEF DirectInv, DirectBoxes, FitsDirect, Migration!Owned
<1>4. Migration!Current
  BY <1>2, <1>3 DEF DirectInv, Migration!Current
<1> QED
  BY <1>2, <1>3, <1>4

(* The steps outside the split.                                             *)
LEMMA WriteDirect ==
  ASSUME DirectInv, MigrationInv, NEW p \in Migration!Places, Migration!Write(p)
  PROVE  DirectKept
<1>1. boxes[p].volume = "new"
  BY DEF Migration!Write, Migration!Present, DirectInv, DirectBoxes, FitsDirect
<1>2. /\ volumes' = [volumes EXCEPT !["new"].work = @ \cup {written + 1}]
      /\ written' = written + 1 /\ UNCHANGED <<boxes, pass, splits>>
  BY <1>1 DEF Migration!Write, Migration!journals
<1>3. 0..(written + 1) = 0..written \cup {written + 1}
  BY VolumesHave, MigrationConstants
<1>4. /\ volumes'["new"].made /\ ~volumes'["new"].migrated
      /\ volumes'["new"].work = 0..written'
  BY <1>2, <1>3, VolumesHave DEF DirectInv, Volumes, Migration!Volume
<1> QED
  BY <1>2, <1>4 DEF DirectInv, DirectKept, DirectBoxes, FitsDirect, SplitFits

LEMMA OperatorDirect ==
  ASSUME DirectInv, MigrationInv, Migration!OperatorRemoves
  PROVE  DirectKept
<1>1. /\ pass.pc = "idle" /\ boxes["runner"] # None /\ boxes["runner"].kind = "split"
      /\ UNCHANGED <<volumes, written, splits, pass>>
  BY DEF Migration!OperatorRemoves, Migration!At, Migration!Present, Migration!journals
<1>2. "runner" \in Migration!Places
  BY PlacesApart
<1>3. boxes["runner"].layer # "own"
  BY <1>1, <1>2 DEF DirectInv, DirectBoxes, FitsDirect
<1>4. OnlyAt(boxes', "runner") /\ boxes'["runner"] = None
  BY <1>2, MigrationHas, Placed DEF Migration!OperatorRemoves
<1>5. DirectBoxes(boxes') /\ (Migration!Original(boxes) => Migration!Original(boxes'))
  BY <1>2, <1>3, <1>4, DirectAt
<1>6. Plain(pass')
  BY <1>1, MigrationHas
  DEF Plain, DirectInv, SplitFits, InJob, Ahead, After, Undoing, Restoring, NamingOnly
<1> QED
  BY <1>1, <1>5, <1>6, PlainFits, DirectSame

LEMMA CopiesNone ==
  ASSUME DirectInv
  PROVE  ~pass.copies
BY DEF DirectInv, SplitFits

LEMMA PlainThen ==
  ASSUME DirectInv, MigrationInv
  PROVE  /\ Plain([pass EXCEPT !.pc = "split", !.then = "sync"])
         /\ Plain([pass EXCEPT !.pc = "split", !.then = "sync", !.hold = FALSE])
         /\ Plain([pass EXCEPT !.pc = "rest", !.then = "hold", !.hold = FALSE])
         /\ Plain([pass EXCEPT !.pc = "names", !.hold = TRUE])
<1> USE CopiesNone, MigrationHas
    DEF Plain, PassRecords, MigrationPlaces, InJob, Ahead, After, Undoing, Restoring, NamingOnly
<1>1. Plain([pass EXCEPT !.pc = "split", !.then = "sync"])
  OBVIOUS
<1>2. Plain([pass EXCEPT !.pc = "split", !.then = "sync", !.hold = FALSE])
  OBVIOUS
<1>3. Plain([pass EXCEPT !.pc = "rest", !.then = "hold", !.hold = FALSE])
  OBVIOUS
<1>4. Plain([pass EXCEPT !.pc = "names", !.hold = TRUE])
  OBVIOUS
<1> QED
  BY ONLY <1>1, <1>2, <1>3, <1>4

LEMMA PassBeginDirect ==
  ASSUME DirectInv, MigrationInv, Migration!PassBegin
  PROVE  DirectKept
<1>1. UNCHANGED <<volumes, written, splits, boxes>>
  BY DEF Migration!PassBegin, Migration!disk, Migration!journals
<1>2. PICK active \in BOOLEAN, wish \in {"none", "start", "stop"} :
        pass' = [Migration!NoPass EXCEPT !.pc = "split", !.active = active, !.request = wish]
  BY DEF Migration!PassBegin
<1>3. Plain(pass')
  BY <1>2
  DEF Plain, PassRecords, MigrationPlaces, Migration!NoPass, InJob, Ahead, After, Undoing,
      Restoring, NamingOnly
<1> QED
  BY <1>1, <1>3, DirectGone

LEMMA GoneDirect ==
  ASSUME DirectInv, MigrationInv,
         Migration!Crash \/ Migration!Tail \/ Migration!NamesSkipped \/ Migration!Rethrow
  PROVE  DirectKept
<1>1. UNCHANGED <<volumes, written, splits, boxes>>
  BY DEF Migration!Crash, Migration!Tail, Migration!NamesSkipped, Migration!Rethrow,
         Migration!disk, Migration!journals
<1>2. \/ pass' \in {Migration!NoPass, Migration!To("held"), Migration!NameThrown,
                    Migration!Lost}
      \/ pass' = [pass EXCEPT !.pc = "split", !.then = "sync", !.hold = FALSE]
  BY DEF Migration!Crash, Migration!Tail, Migration!NamesSkipped, Migration!Rethrow,
         Migration!Goto
<1>3. Plain(pass')
  BY <1>2, CopiesNone, PlainTo, PlainThen
<1> QED
  BY <1>1, <1>3, DirectGone

LEMMA HoldDirect ==
  ASSUME DirectInv, MigrationInv, Migration!Hold
  PROVE  DirectKept
<1>1. UNCHANGED <<volumes, written, splits>>
  BY DEF Migration!Hold, Migration!journals
<1>2. CASE Migration!NeedsHold
  <2>1. PICK new : new = Migration!Switched("dev", FALSE)
    OBVIOUS
  <2>2. DirectBoxes(new) /\ (Migration!Original(boxes) => Migration!Original(new))
    BY <1>2, <2>1, PlacesApart, DirectSwitched DEF Migration!NeedsHold, Migration!Present
  <2>3. Migration!Command(new, [pass EXCEPT !.pc = "names", !.hold = TRUE], Migration!Thrown)
    BY <1>2, <2>1 DEF Migration!Hold
  <2> QED
    BY <1>1, <2>2, <2>3, CopiesNone, PlainTo, PlainThen, DirectOutside
<1>3. CASE ~Migration!NeedsHold
  <2>1. pass' = Migration!To("names") /\ boxes' = boxes
    BY <1>3 DEF Migration!Hold, Migration!Skip
  <2> QED
    BY <1>1, <2>1, CopiesNone, PlainTo, DirectGone
<1> QED
  BY <1>2, <1>3

LEMMA HeldDirect ==
  ASSUME DirectInv, MigrationInv, Migration!Held
  PROVE  DirectKept
<1>1. UNCHANGED <<volumes, written, splits>>
  BY DEF Migration!Held, Migration!journals
<1>2. CASE Migration!Present("dev") /\ Migration!Command(Migration!Switched("dev", TRUE),
                                          Migration!Thrown, Migration!Thrown)
  <2>1. PICK new : new = Migration!Switched("dev", TRUE)
    OBVIOUS
  <2>2. DirectBoxes(new) /\ (Migration!Original(boxes) => Migration!Original(new))
    BY <1>2, <2>1, PlacesApart, DirectSwitched DEF Migration!Present
  <2>3. Migration!Command(new, Migration!Thrown, Migration!Thrown)
    BY <1>2, <2>1
  <2> QED
    BY <1>1, <2>2, <2>3, CopiesNone, PlainTo, DirectOutside
<1>3. CASE \E next : /\ Migration!Skip(next)
                     /\ \/ next \in {Migration!To("tail"), Migration!To("rest"),
                                     Migration!Thrown}
                        \/ next = [pass EXCEPT !.pc = "split", !.then = "sync"]
  <2>1. boxes' = boxes /\ Plain(pass')
    BY <1>3, CopiesNone, PlainTo, PlainThen DEF Migration!Skip
  <2> QED
    BY <1>1, <2>1, DirectGone
<1> QED
  BY <1>2, <1>3 DEF Migration!Held

LEMMA RestDirect ==
  ASSUME DirectInv, MigrationInv, Migration!Rest
  PROVE  DirectKept
<1>1. UNCHANGED <<volumes, written, splits>>
  BY DEF Migration!Rest, Migration!journals
<1>2. ASSUME NEW on \in BOOLEAN, Migration!Owned # "none",
             Migration!Command(Migration!Switched(Migration!Owned, on), Migration!To("tail"),
                               Migration!To("tail"))
      PROVE  DirectKept
  <2>1. PICK new : new = Migration!Switched(Migration!Owned, on)
    OBVIOUS
  <2>2. Migration!Owned \in Migration!Places /\ boxes[Migration!Owned] # None
    BY <1>2, MigrationHas, OwnedHas
  <2>3. DirectBoxes(new) /\ (Migration!Original(boxes) => Migration!Original(new))
    BY <2>1, <2>2, DirectSwitched
  <2> QED
    BY <1>1, <1>2, <2>1, <2>3, CopiesNone, PlainTo, DirectOutside
<1>3. CASE Migration!Skip(Migration!To("make")) \/ Migration!Skip(Migration!To("tail"))
  <2>1. boxes' = boxes /\ Plain(pass')
    BY <1>3, CopiesNone, PlainTo DEF Migration!Skip
  <2> QED
    BY <1>1, <2>1, DirectGone
<1>4. \/ /\ Migration!Owned # "none"
         /\ \/ Migration!Command(Migration!Switched(Migration!Owned, FALSE),
                                 Migration!To("tail"), Migration!To("tail"))
            \/ Migration!Command(Migration!Switched(Migration!Owned, TRUE),
                                 Migration!To("tail"), Migration!To("tail"))
      \/ Migration!Skip(Migration!To("make")) \/ Migration!Skip(Migration!To("tail"))
  BY DEF Migration!Rest
<1> QED
  BY <1>2, <1>3, <1>4

LEMMA MakeDirect ==
  ASSUME DirectInv, MigrationInv, Migration!Make
  PROVE  DirectKept
<1>1. Migration!Command(Migration!Provisioned, Migration!To("boot"), Migration!To("tail"))
  BY DEF Migration!Make, Migration!Provision
<1>2. UNCHANGED <<volumes, written, splits>>
  BY DEF Migration!Make, Migration!Provision, Migration!journals, DirectInv
<1>3. /\ DirectBoxes(Migration!Provisioned)
      /\ Migration!Original(boxes) => Migration!Original(Migration!Provisioned)
  BY DirectProvisioned
<1> QED
  BY <1>1, <1>2, <1>3, CopiesNone, PlainTo, DirectOutside

LEMMA BootDirect ==
  ASSUME DirectInv, MigrationInv, Migration!Boot
  PROVE  DirectKept
<1>1. boxes["runner"] # None /\ "runner" \in Migration!Places
  BY MigrationHas, PlacesApart DEF Migration!Boot, Migration!At, BoxesFit
<1>2. PICK new : new = Migration!Switched("runner", TRUE)
  OBVIOUS
<1>3. DirectBoxes(new) /\ (Migration!Original(boxes) => Migration!Original(new))
  BY <1>1, <1>2, DirectSwitched
<1>4. Migration!Command(new, Migration!To("tail"), Migration!To("tail"))
  BY <1>2 DEF Migration!Boot
<1>5. UNCHANGED <<volumes, written, splits>>
  BY DEF Migration!Boot, Migration!journals
<1> QED
  BY <1>3, <1>4, <1>5, CopiesNone, PlainTo, DirectOutside

\* The development container after a synchronisation: stopped, started, or made from the
\* image on the runner's workspace.
LEMMA SyncedHas ==
  ASSUME MigrationInv, ~(pass.active /\ Migration!Owned = "none")
  PROVE  \/ Migration!Synced = boxes
         \/ /\ boxes["dev"] # None
            /\ \/ Migration!Synced = Migration!Switched("dev", FALSE)
               \/ /\ Migration!Synced = Migration!Switched("dev", TRUE)
                  /\ pass.active /\ boxes["dev"].volume = boxes[Migration!Owned].volume
         \/ /\ pass.active /\ Migration!Owned # "none"
            /\ \E on \in BOOLEAN :
                 Migration!Synced = [boxes EXCEPT !["dev"] = Migration!Development("image", on)]
<1>1. CASE ~pass.active
  BY <1>1 DEF Migration!Synced, Migration!Present
<1>2. CASE pass.active /\ boxes["dev"] = None
  <2>1. (pass.hold \/ boxes[Migration!Owned].up) \in BOOLEAN
    OBVIOUS
  <2>2. Migration!Synced = [boxes EXCEPT !["dev"] =
          Migration!Development("image", pass.hold \/ boxes[Migration!Owned].up)]
    BY <1>2 DEF Migration!Synced, Migration!Present
  <2> QED
    BY <1>2, <2>1, <2>2
<1>3. CASE /\ pass.active /\ boxes["dev"] # None
           /\ boxes["dev"].volume # boxes[Migration!Owned].volume
  <2>1. (pass.hold \/ boxes["dev"].up) \in BOOLEAN
    OBVIOUS
  <2>2. Migration!Synced = [boxes EXCEPT !["dev"] =
          Migration!Development("image", pass.hold \/ boxes["dev"].up)]
    BY <1>3 DEF Migration!Synced, Migration!Present
  <2> QED
    BY <1>3, <2>1, <2>2
<1>4. CASE /\ pass.active /\ boxes["dev"] # None
           /\ boxes["dev"].volume = boxes[Migration!Owned].volume
  BY <1>4 DEF Migration!Synced, Migration!Present
<1> QED
  BY <1>1, <1>2, <1>3, <1>4

LEMMA DevelopmentHas ==
  ASSUME MigrationInv, Migration!Owned # "none", NEW layer \in {"image", "snapshot"},
         NEW on \in BOOLEAN, NEW new,
         new = [boxes EXCEPT !["dev"] = Migration!Development(layer, on)]
  PROVE  /\ OnlyAt(new, "dev") /\ new["dev"] # None /\ new["dev"].kind = "workspace"
         /\ new["dev"].layer = layer /\ new["dev"].up = on
         /\ new["dev"].volume = boxes[Migration!Owned].volume
<1>1. Migration!Development(layer, on) \in Migration!Container
  BY DevelopmentIn
<1>2. OnlyAt(new, "dev") /\ new["dev"] = Migration!Development(layer, on)
  BY <1>1, MigrationHas, PlacesApart, Placed
<1>3. PICK volume : volume = boxes[Migration!Owned].volume
  OBVIOUS
<1>4. new["dev"] = [kind |-> "workspace", layer |-> layer, volume |-> volume, up |-> on,
                    ssh |-> TRUE]
  BY <1>2, <1>3 DEF Migration!Development
<1>5. new["dev"] # None
  BY <1>1, <1>2, MigrationConstants
<1> QED
  BY <1>2, <1>3, <1>4, <1>5

LEMMA SyncDirect ==
  ASSUME DirectInv, MigrationInv, Migration!Sync
  PROVE  DirectKept
<1>1. UNCHANGED <<volumes, written, splits>>
  BY DEF Migration!Sync, Migration!journals
<1>2. CASE pass.active /\ Migration!Owned = "none"
  <2>1. pass' = Migration!Thrown /\ boxes' = boxes
    BY <1>2 DEF Migration!Sync, Migration!Skip
  <2> QED
    BY <1>1, <2>1, CopiesNone, PlainTo, DirectGone
<1>3. CASE ~(pass.active /\ Migration!Owned = "none")
  <2>1. PICK new : new = Migration!Synced
    OBVIOUS
  <2>2. PICK next : /\ Migration!Command(new, next, Migration!Thrown)
                    /\ \/ next = [pass EXCEPT !.pc = "rest", !.then = "hold", !.hold = FALSE]
                       \/ next = Migration!NoPass
    BY <1>3, <2>1 DEF Migration!Sync
  <2>3. DirectBoxes(new) /\ (Migration!Original(boxes) => Migration!Original(new))
    <3>1. CASE new = boxes
      BY <3>1 DEF DirectInv
    <3>2. CASE \E on \in BOOLEAN : new = Migration!Switched("dev", on) /\ boxes["dev"] # None
      BY <3>2, PlacesApart, DirectSwitched
    <3>3. CASE /\ Migration!Owned # "none"
               /\ \E on \in BOOLEAN :
                    new = [boxes EXCEPT !["dev"] = Migration!Development("image", on)]
      <4>1. PICK on \in BOOLEAN :
              new = [boxes EXCEPT !["dev"] = Migration!Development("image", on)]
        BY <3>3
      <4>2. boxes[Migration!Owned].volume = "new"
        BY <3>3, DirectOwned
      <4> QED
        BY <3>3, <4>1, <4>2, DevelopmentHas, DirectDevelopment
    <3> QED
      BY <1>3, <2>1, <3>1, <3>2, <3>3, SyncedHas
  <2>4. Plain(next)
    BY <2>2, CopiesNone, PlainTo, PlainThen
  <2> QED
    BY <1>1, <2>2, <2>3, <2>4, CopiesNone, PlainTo, DirectOutside
<1> QED
  BY <1>2, <1>3

\* Nothing is left to be moved to another name.
LEMMA NamesBeginDirect ==
  ASSUME DirectInv, MigrationInv, Migration!NamesBegin
  PROVE  DirectKept
<1>1. UNCHANGED <<volumes, written, splits, boxes>>
  BY DEF Migration!NamesBegin, Migration!disk
<1>2. Migration!Owned = "none" /\ Migration!Current
  BY DirectOwned DEF Migration!NamesBegin, Migration!NeedsNaming
<1>3. CASE pass' = Migration!NameThrown
  BY <1>1, <1>3, CopiesNone, PlainTo, DirectGone
<1>4. CASE pass' # Migration!NameThrown
  <2>1. PICK copies \in BOOLEAN : copies = ~Migration!Current
    OBVIOUS
  <2>2. PICK on \in BOOLEAN : on = (Migration!Owned # "none" /\ boxes[Migration!Owned].up
                                      /\ pass.active)
    OBVIOUS
  <2>3. PICK ready : ready = [pass EXCEPT !.job = "naming", !.at = "none", !.renamed = FALSE,
                                !.cut = FALSE, !.copies = copies, !.found = None, !.start = on]
    OBVIOUS
  <2>4. pass' = [ready EXCEPT !.pc = "held"]
    BY <1>2, <1>4, <2>1, <2>2, <2>3 DEF Migration!NamesBegin
  <2>5. ready \in PassRecords /\ ready.copies = FALSE
    BY <1>2, <2>1, <2>3, MigrationHas DEF PassRecords
  <2>6. Plain(pass')
    BY <2>4, <2>5
    DEF Plain, PassRecords, MigrationPlaces, InJob, Ahead, After, Undoing, Restoring, NamingOnly
  <2> QED
    BY <1>1, <2>6, DirectGone
<1> QED
  BY <1>3, <1>4

LEMMA SplitCheckDirect ==
  ASSUME DirectInv, MigrationInv, Migration!SplitCheck
  PROVE  DirectKept
<1>1. UNCHANGED <<volumes, written, boxes>>
  BY DEF Migration!SplitCheck, Migration!disk
<1>2. CASE pass' \in {Migration!To(pass.then), Migration!Thrown} /\ UNCHANGED splits
  <2>1. pass.then \in {"hold", "sync"}
    BY MigrationHas DEF PassRecords
  <2>2. Plain(pass')
    BY <1>2, <2>1, CopiesNone, PlainTo
  <2> QED
    BY <1>1, <1>2, <2>2, DirectGone
<1>3. CASE /\ Migration!NeedsSplit
           /\ pass' = [pass EXCEPT !.pc = "stop", !.job = "split", !.at = Migration!Owned,
                         !.found = boxes[Migration!Owned], !.renamed = FALSE, !.cut = FALSE,
                         !.start = boxes[Migration!Owned].up /\ pass.active]
  <2>1. Migration!Owned = "runner"
    BY <1>3, DirectOwned DEF Migration!NeedsSplit
  <2>2. PICK on \in BOOLEAN : on = (boxes["runner"].up /\ pass.active)
    OBVIOUS
  <2>3. pass' = [pass EXCEPT !.pc = "stop", !.job = "split", !.at = "runner",
                   !.found = boxes["runner"], !.renamed = FALSE, !.cut = FALSE, !.start = on]
    BY <1>3, <2>1, <2>2
  <2>4. /\ pass'.pc = "stop" /\ pass'.job = "split" /\ pass'.at = "runner"
        /\ pass'.renamed = FALSE /\ pass'.copies = FALSE /\ pass'.found = boxes["runner"]
    BY <2>3, CopiesNone, MigrationHas DEF PassRecords
  <2>5. SplitFits(pass', boxes)
    BY <1>3, <2>1, <2>4 DEF SplitFits, Placing, After, Undoing, Migration!NeedsSplit
  <2> QED
    BY <1>1, <2>4, <2>5 DEF DirectKept, DirectInv, DirectBoxes, FitsDirect, SplitFits
<1> QED
  BY <1>2, <1>3 DEF Migration!SplitCheck, Migration!Goto

(* The steps of the split.                                                  *)
LEMMA SplitHas ==
  ASSUME DirectInv, MigrationInv, pass.pc \in InJob
  PROVE  /\ pass.job = "split" /\ pass.at = "runner" /\ ~pass.copies
         /\ Migration!Aside = "runner-before" /\ Migration!Replaced = "runner"
         /\ {"runner", "runner-before", "dev"} \subseteq Migration!Places
         /\ pass.pc \notin NamingOnly /\ pass.found.kind = "unified"
<1>1. /\ pass.job = "split" /\ pass.at = "runner" /\ ~pass.copies
      /\ pass.found.kind = "unified"
  BY DEF DirectInv, SplitFits
<1>2. Migration!Aside = "runner-before" /\ Migration!Replaced = "runner"
  BY <1>1 DEF Migration!Aside, Migration!Replaced, Migration!Before
<1>3. "runner-before" \in Migration!Places
  BY DEF Migration!Places, Migration!Names, Migration!Before
<1>4. pass.pc \notin NamingOnly
  BY <1>1, MigrationHas DEF JobFits
<1> QED
  BY <1>1, <1>2, <1>3, <1>4, PlacesApart

\* The pass gone on within a migration.
Keeps(p, pc) ==
  /\ p \in PassRecords /\ p.pc = pc /\ p.job = pass.job /\ p.at = pass.at
  /\ p.found = pass.found /\ p.renamed = pass.renamed /\ p.start = pass.start
  /\ p.copies = pass.copies /\ p.hold = pass.hold /\ p.bad = pass.bad
  /\ p.active = pass.active /\ p.request = pass.request /\ p.then = pass.then

LEMMA ToKeeps ==
  ASSUME MigrationInv
  PROVE  \A pc \in MigrationPlaces : Keeps(Migration!To(pc), pc)
BY MigrationHas DEF Keeps, Migration!To, PassRecords

\* Before the replacements are made nothing is asked of the containers.
LEMMA FitsEarly ==
  ASSUME DirectInv, MigrationInv, pass.pc \in InJob, NEW p, NEW pc, Keeps(p, pc),
         pc \in {"detach", "snapshot", "rename"} \cup Restoring, NEW b
  PROVE  SplitFits(p, b) /\ p.pc # "drop"
BY SplitHas
DEF Keeps, SplitFits, InJob, Ahead, After, Undoing, Restoring, Placing

\* The rollback keeps the container set aside.
LEMMA FitsUndoing ==
  ASSUME DirectInv, MigrationInv, pass.pc \in InJob, NEW p, NEW pc, Keeps(p, pc),
         pc \in Undoing, NEW b,
         pass.renamed => b["runner-before"] # None /\ b["runner-before"].layer = "own"
  PROVE  SplitFits(p, b) /\ p.pc # "drop"
BY SplitHas
DEF Keeps, SplitFits, InJob, Ahead, After, Undoing, Restoring, Placing

LEMMA AsideOwn ==
  ASSUME DirectInv, pass.pc \in After \cup Undoing, pass.renamed
  PROVE  boxes["runner-before"] # None /\ boxes["runner-before"].layer = "own"
BY DEF DirectInv, SplitFits

\* A command of the split, on another container than the one set aside.
LEMMA SplitCommand ==
  ASSUME DirectInv, MigrationInv, pass.pc \in InJob, UNCHANGED <<volumes, written, splits>>,
         pass.renamed => pass.pc \in After \cup Undoing,
         NEW new, DirectBoxes(new), Migration!Original(boxes) => Migration!Original(new),
         pass.renamed => new["runner-before"] = boxes["runner-before"],
         NEW pc \in MigrationPlaces, SplitFits(Migration!To(pc), new), pc # "drop",
         Migration!Command(new, Migration!To(pc), Migration!To("discard"))
  PROVE  DirectKept
<1>1. Keeps(Migration!To(pc), pc) /\ Keeps(Migration!To("discard"), "discard")
  BY ToKeeps DEF MigrationPlaces
<1>2. "discard" \in Undoing
  BY DEF Undoing
<1>3. /\ SplitFits(Migration!To("discard"), boxes) /\ SplitFits(Migration!To("discard"), new)
      /\ Migration!To("discard").pc # "drop"
  BY <1>1, <1>2, AsideOwn, FitsUndoing
<1>4. Migration!To("discard") \in PassRecords /\ Migration!To(pc).pc # "drop"
  BY <1>1 DEF Keeps
<1> QED
  BY <1>3, <1>4, DirectCommand

LEMMA DirectConnected ==
  ASSUME DirectInv, MigrationInv, NEW p \in Migration!Places, boxes[p] # None,
         NEW ssh \in BOOLEAN, NEW new, new = Connected(p, ssh)
  PROVE  DirectBoxes(new) /\ (Migration!Original(boxes) => Migration!Original(new))
<1>1. /\ OnlyAt(new, p) /\ new[p] # None /\ new[p].kind = boxes[p].kind
      /\ new[p].layer = boxes[p].layer /\ new[p].volume = boxes[p].volume
  BY MigrationHas, ConnectedHas
<1>2. p # "former" /\ FitsDirect(boxes[p], p)
  BY DEF DirectInv, DirectBoxes
<1> QED
  BY <1>1, <1>2, DirectAt DEF FitsDirect

LEMMA NotRenamed ==
  ASSUME MigrationInv, pass.pc \in Ahead
  PROVE  ~pass.renamed
BY MigrationHas DEF JobFits

LEMMA StopFoundDirect ==
  ASSUME DirectInv, MigrationInv, Migration!StopFound
  PROVE  DirectKept
<1>1. pass.pc = "stop" /\ pass.pc \in InJob /\ pass.pc \in Ahead
  BY DEF Migration!StopFound, Migration!At, InJob, Ahead
<1>2. UNCHANGED <<volumes, written, splits>>
  BY DEF Migration!StopFound, Migration!journals
<1>3. Keeps(Migration!To("detach"), "detach")
  BY ToKeeps DEF MigrationPlaces
<1>4. /\ \A b : SplitFits(Migration!To("detach"), b)
      /\ Migration!To("detach").pc # "drop"
  BY <1>1, <1>3, FitsEarly
<1>5. CASE pass.found.up
  <2>1. PICK new : new = Migration!Switched("runner", FALSE)
    OBVIOUS
  <2>2. boxes["runner"] # None
    BY <1>1, Found, InMigration, SplitHas, NotRenamed
    DEF FoundIsThere, IsFound, InJob, NamingOnly
  <2>3. DirectBoxes(new) /\ (Migration!Original(boxes) => Migration!Original(new))
    BY <1>1, <2>1, <2>2, SplitHas, DirectSwitched
  <2>4. Migration!Command(new, Migration!To("detach"), Migration!To("discard"))
    BY <1>1, <1>5, <2>1, SplitHas DEF Migration!StopFound
  <2>5. "detach" \in MigrationPlaces
    BY DEF MigrationPlaces
  <2> QED
    BY <1>1, <1>2, <1>4, <2>3, <2>4, <2>5, NotRenamed, SplitCommand
<1>6. CASE ~pass.found.up
  <2>1. pass' = Migration!To("detach") /\ boxes' = boxes
    BY <1>1, <1>6, SplitHas DEF Migration!StopFound, Migration!Skip
  <2> QED
    BY <1>2, <1>4, <2>1, DirectSame DEF DirectInv
<1> QED
  BY <1>5, <1>6

LEMMA DetachDirect ==
  ASSUME DirectInv, MigrationInv, Migration!Detach
  PROVE  DirectKept
<1>1. pass.pc = "detach" /\ pass.pc \in InJob /\ pass.pc \in Ahead
  BY DEF Migration!Detach, Migration!At, InJob, Ahead
<1>2. UNCHANGED <<volumes, written, splits>>
  BY DEF Migration!Detach, Migration!journals
<1>3. CASE pass.found.ssh
  <2>0. PICK off \in BOOLEAN : off = FALSE
    OBVIOUS
  <2>1. PICK new : new = Connected("runner", off)
    OBVIOUS
  <2>2. boxes["runner"] # None
    BY <1>1, Found, InMigration, SplitHas, NotRenamed
    DEF FoundIsThere, IsFound, InJob, NamingOnly
  <2>4. DirectBoxes(new) /\ (Migration!Original(boxes) => Migration!Original(new))
    BY <1>1, <2>1, <2>2, SplitHas, DirectConnected
  <2>5. PICK next : next = [pass EXCEPT !.pc = "snapshot", !.cut = TRUE]
    OBVIOUS
  <2>6. Keeps(next, "snapshot")
    BY <2>5, MigrationHas DEF Keeps, PassRecords, MigrationPlaces
  <2>7. Keeps(Migration!To("discard"), "discard")
    BY ToKeeps DEF MigrationPlaces
  <2>8. \A b : SplitFits(next, b) /\ next.pc # "drop"
    BY <1>1, <2>6, FitsEarly
  <2>9. \A b : SplitFits(Migration!To("discard"), b) /\ Migration!To("discard").pc # "drop"
    BY <1>1, <2>7, NotRenamed, FitsUndoing DEF Undoing
  <2>10. Migration!Command(new, next, Migration!To("discard"))
    BY <1>1, <1>3, <2>0, <2>1, <2>5, SplitHas DEF Migration!Detach, Connected
  <2>11. Migration!To("discard") \in PassRecords
    BY <2>7 DEF Keeps
  <2> QED
    BY <1>2, <2>4, <2>8, <2>9, <2>10, <2>11, DirectCommand
<1>4. CASE ~pass.found.ssh
  <2>1. pass' = Migration!To("snapshot") /\ boxes' = boxes
    BY <1>4 DEF Migration!Detach, Migration!Skip
  <2>2. Keeps(Migration!To("snapshot"), "snapshot")
    BY ToKeeps DEF MigrationPlaces
  <2>3. SplitFits(pass', boxes') /\ pass'.pc # "drop"
    BY <1>1, <2>1, <2>2, FitsEarly
  <2> QED
    BY <1>2, <2>1, <2>3, DirectSame DEF DirectInv
<1> QED
  BY <1>3, <1>4

LEMMA SnapshotDirect ==
  ASSUME DirectInv, MigrationInv, Migration!Snapshot
  PROVE  DirectKept
<1>1. pass.pc = "snapshot" /\ pass.pc \in InJob /\ pass.pc \in Ahead
  BY DEF Migration!Snapshot, Migration!At, InJob, Ahead
<1>2. UNCHANGED <<volumes, written, splits>>
  BY DEF Migration!Snapshot, Migration!journals
<1>3. Keeps(Migration!To("rename"), "rename") /\ "rename" \in MigrationPlaces
  BY ToKeeps DEF MigrationPlaces
<1>4. SplitFits(Migration!To("rename"), boxes)
  BY <1>1, <1>3, FitsEarly
<1>5. Migration!Command(boxes, Migration!To("rename"), Migration!To("discard"))
  BY DEF Migration!Snapshot
<1> QED
  BY <1>1, <1>2, <1>3, <1>4, <1>5, NotRenamed, SplitCommand DEF DirectInv

LEMMA DirectMoved ==
  ASSUME DirectInv, MigrationInv, NEW p \in Migration!Places, NEW q \in Migration!Places, p # q,
         q \notin {"former", "dev"}, boxes[p] # None, boxes[p].layer = "own",
         NEW new, new = Migration!Moved(p, q)
  PROVE  DirectBoxes(new) /\ Migration!Original(new) /\ new[q] = boxes[p]
<1>1. /\ new \in Boxes /\ new[p] = None /\ new[q] = boxes[p]
      /\ \A r \in Migration!Places \ {p, q} : new[r] = boxes[r]
  BY MigrationHas, MovedHas
<1>2. "former" \in Migration!Places /\ FitsDirect(boxes[p], p)
  BY PlacesApart DEF DirectInv, DirectBoxes
<1>3. DirectBoxes(new)
  BY <1>1, <1>2 DEF DirectInv, DirectBoxes, FitsDirect
<1> QED
  BY <1>1, <1>3 DEF Migration!Original

LEMMA RenameDirect ==
  ASSUME DirectInv, MigrationInv, Migration!Rename
  PROVE  DirectKept
<1>1. pass.pc = "rename" /\ pass.pc \in InJob /\ pass.pc \in Ahead
  BY DEF Migration!Rename, Migration!At, InJob, Ahead
<1>2. UNCHANGED <<volumes, written, splits>>
  BY DEF Migration!Rename, Migration!journals
<1>3. /\ pass.job = "split" /\ pass.at = "runner" /\ Migration!Aside = "runner-before"
      /\ {"runner", "runner-before"} \subseteq Migration!Places
  BY <1>1, SplitHas
<1>4. PICK new : new = Migration!Moved("runner", "runner-before")
  OBVIOUS
<1>5. boxes["runner"] # None /\ boxes["runner"].layer = "own"
  <2>1. FoundIsThere(pass, boxes) /\ ~pass.renamed
    BY <1>1, Found, InMigration, NotRenamed DEF InJob, NamingOnly
  <2>2. boxes["runner"] # None /\ boxes["runner"].kind = pass.found.kind
    BY <1>3, <2>1 DEF FoundIsThere, IsFound
  <2>3. pass.found.kind = "unified"
    BY <1>1, SplitHas
  <2> QED
    BY <1>3, <2>2, <2>3 DEF DirectInv, DirectBoxes, FitsDirect
<1>6. /\ DirectBoxes(new) /\ Migration!Original(new)
      /\ new["runner-before"] # None /\ new["runner-before"].layer = "own"
  BY <1>3, <1>4, <1>5, DirectMoved
<1>7. PICK next : next = [pass EXCEPT !.pc = "provision", !.renamed = TRUE]
  OBVIOUS
<1>8. /\ next.pc = "provision" /\ next.job = pass.job /\ next.at = pass.at
      /\ next.copies = pass.copies /\ next.found = pass.found
  BY <1>7, MigrationHas DEF PassRecords
<1>9. SplitFits(next, new) /\ next.pc # "drop"
  BY <1>1, <1>6, <1>8, SplitHas DEF SplitFits, Placing
<1>10. Keeps(Migration!To("discard"), "discard")
  BY ToKeeps DEF MigrationPlaces
<1>11. /\ \A b : SplitFits(Migration!To("discard"), b)
       /\ Migration!To("discard").pc # "drop" /\ Migration!To("discard") \in PassRecords
  BY <1>1, <1>10, NotRenamed, FitsUndoing DEF Undoing, Keeps
<1>12. Migration!Command(new, next, Migration!To("discard"))
  BY <1>3, <1>4, <1>7 DEF Migration!Rename
<1> QED
  BY <1>2, <1>6, <1>9, <1>11, <1>12, DirectCommand

\* A step between the replacement and its being ready.
LEMMA FitsPlacing ==
  ASSUME DirectInv, MigrationInv, pass.pc \in After, NEW p, NEW pc \in Placing, Keeps(p, pc),
         NEW b, b["runner-before"] = boxes["runner-before"], b["runner"] # None,
         pc # "create" => b["dev"] # None /\ b["dev"].layer = "snapshot",
         pc \in {"startdev", "start", "probe"} => pass.start,
         pc \in {"start", "probe", "ready", "drop"} /\ pass.start => b["dev"].up,
         pc \in {"probe", "ready", "drop"} /\ pass.start => b["runner"].up
  PROVE  SplitFits(p, b)
<1>1. pass.pc \in InJob /\ pass.renamed
  BY AfterHas DEF InJob
<1>2. /\ pass.job = "split" /\ pass.at = "runner" /\ ~pass.copies
      /\ pass.found.kind = "unified"
  BY <1>1, SplitHas
<1>3. b["runner-before"] # None /\ b["runner-before"].layer = "own"
  BY <1>1, AsideOwn
<1> QED
  BY <1>2, <1>3 DEF Keeps, SplitFits

LEMMA ProvisionDirect ==
  ASSUME DirectInv, MigrationInv, Migration!ProvisionRunner
  PROVE  DirectKept
<1>1. pass.pc = "provision" /\ pass.pc \in InJob /\ pass.pc \in After
  BY DEF Migration!ProvisionRunner, Migration!At, InJob, After
<1>2. pass.job = "split"
  BY <1>1, SplitHas
<1>3. PICK new : new = Migration!Provisioned
  OBVIOUS
<1>4. Migration!Command(new, Migration!To("create"), Migration!To("discard"))
  BY <1>2, <1>3 DEF Migration!ProvisionRunner, Migration!Provision
<1>5. UNCHANGED <<volumes, written, splits>>
  BY <1>2 DEF Migration!ProvisionRunner, Migration!Provision, Migration!journals, DirectInv
<1>6. /\ DirectBoxes(new) /\ (Migration!Original(boxes) => Migration!Original(new))
      /\ OnlyAt(new, "runner") /\ new["runner"] # None
  BY <1>3, DirectProvisioned
<1>7. new["runner-before"] = boxes["runner-before"]
  BY <1>1, <1>6, SplitHas DEF OnlyAt
<1>8. Keeps(Migration!To("create"), "create") /\ "create" \in Placing
  BY ToKeeps DEF MigrationPlaces, Placing
<1>9. SplitFits(Migration!To("create"), new)
  BY <1>1, <1>6, <1>7, <1>8, FitsPlacing
<1> QED
  BY <1>1, <1>4, <1>5, <1>6, <1>7, <1>9, SplitCommand DEF MigrationPlaces

LEMMA CreateDirect ==
  ASSUME DirectInv, MigrationInv, Migration!CreateDevelopment
  PROVE  DirectKept
<1>1. pass.pc = "create" /\ pass.pc \in InJob /\ pass.pc \in After
  BY DEF Migration!CreateDevelopment, Migration!At, InJob, After
<1>2. UNCHANGED <<volumes, written, splits>>
  BY DEF Migration!CreateDevelopment, Migration!journals
<1>3. boxes["runner"] # None
  BY <1>1 DEF DirectInv, SplitFits, Placing
<1>4. Migration!Owned = "runner"
  BY <1>3 DEF Migration!Owned
<1>5. pass.found.volume = "new"
  <2>1. FoundIsThere(pass, boxes) /\ pass.renamed /\ AsideOf(pass) \in Migration!Places
    BY <1>1, AfterHas
  <2> QED
    BY <2>1 DEF FoundIsThere, IsFound, DirectInv, DirectBoxes, FitsDirect
<1> DEFINE d == Migration!Development("snapshot", FALSE)
<1>6. PICK c : c = [d EXCEPT !.volume = pass.found.volume]
  OBVIOUS
<1>7. /\ c \in Migration!Container /\ c.kind = "workspace" /\ c.layer = "snapshot"
      /\ c.volume = "new"
  <2>1. PICK v : v = boxes[Migration!Owned].volume
    OBVIOUS
  <2>2. d \in [kind : {"workspace"}, layer : {"snapshot"}, volume : {v}, up : BOOLEAN,
               ssh : BOOLEAN]
    BY <2>1 DEF Migration!Development
  <2> HIDE DEF d
  <2> QED
    BY <1>5, <1>6, <2>2 DEF Migration!Container
<1>8. PICK new : new = [boxes EXCEPT !["dev"] = c]
  OBVIOUS
<1>9. OnlyAt(new, "dev") /\ new["dev"] = c /\ c # None
  <2>1. "dev" \in Migration!Places
    BY PlacesApart
  <2>2. OnlyAt(new, "dev") /\ new["dev"] = c
    BY <1>7, <1>8, <2>1, MigrationHas, Placed
  <2> QED
    BY <1>7, <2>2, MigrationConstants
<1>10. DirectBoxes(new) /\ (Migration!Original(boxes) => Migration!Original(new))
  BY <1>7, <1>9, DirectDevelopment
<1>11. new["runner-before"] = boxes["runner-before"] /\ new["runner"] # None
  BY <1>1, <1>3, <1>9, SplitHas DEF OnlyAt
<1>12. PICK pc \in {"startdev", "ready"} : pc = IF pass.start THEN "startdev" ELSE "ready"
  OBVIOUS
<1>13. Migration!Command(new, Migration!To(pc), Migration!To("discard"))
  BY <1>6, <1>8, <1>12 DEF Migration!CreateDevelopment
<1>14. Keeps(Migration!To(pc), pc) /\ pc \in Placing
  BY ToKeeps DEF MigrationPlaces, Placing
<1>15. SplitFits(Migration!To(pc), new)
  BY <1>1, <1>7, <1>9, <1>11, <1>12, <1>14, FitsPlacing
<1> QED
  BY <1>1, <1>2, <1>10, <1>11, <1>13, <1>15, SplitCommand DEF MigrationPlaces

LEMMA StartDevelopmentDirect ==
  ASSUME DirectInv, MigrationInv, Migration!StartDevelopment
  PROVE  DirectKept
<1>1. pass.pc = "startdev" /\ pass.pc \in InJob /\ pass.pc \in After
  BY DEF Migration!StartDevelopment, Migration!At, InJob, After
<1>2. UNCHANGED <<volumes, written, splits>>
  BY DEF Migration!StartDevelopment, Migration!journals
<1>3. /\ boxes["runner"] # None /\ boxes["dev"] # None /\ boxes["dev"].layer = "snapshot"
      /\ pass.start /\ {"runner", "runner-before", "dev"} \subseteq Migration!Places
  BY <1>1, SplitHas DEF DirectInv, SplitFits, Placing
<1>4. PICK new : new = Migration!Switched("dev", TRUE)
  OBVIOUS
<1>5. DirectBoxes(new) /\ (Migration!Original(boxes) => Migration!Original(new))
  BY <1>3, <1>4, DirectSwitched
<1>6. /\ OnlyAt(new, "dev") /\ new["dev"] # None /\ new["dev"].layer = "snapshot"
      /\ new["dev"].up
  BY <1>3, <1>4, MigrationHas, StartedHas
<1>7. new["runner-before"] = boxes["runner-before"] /\ new["runner"] # None
  BY <1>3, <1>6 DEF OnlyAt
<1>8. Keeps(Migration!To("start"), "start") /\ "start" \in Placing
  BY ToKeeps DEF MigrationPlaces, Placing
<1>9. SplitFits(Migration!To("start"), new)
  BY <1>1, <1>3, <1>6, <1>7, <1>8, FitsPlacing
<1>10. Migration!Command(new, Migration!To("start"), Migration!To("discard"))
  BY <1>4 DEF Migration!StartDevelopment
<1> QED
  BY <1>1, <1>2, <1>5, <1>7, <1>9, <1>10, SplitCommand DEF MigrationPlaces

LEMMA StartRunnerDirect ==
  ASSUME DirectInv, MigrationInv, Migration!StartRunner
  PROVE  DirectKept
<1>1. pass.pc = "start" /\ pass.pc \in InJob /\ pass.pc \in After
  BY DEF Migration!StartRunner, Migration!At, InJob, After
<1>2. UNCHANGED <<volumes, written, splits>>
  BY DEF Migration!StartRunner, Migration!journals
<1>3. /\ boxes["runner"] # None /\ boxes["dev"] # None /\ boxes["dev"].layer = "snapshot"
      /\ pass.start /\ boxes["dev"].up
      /\ {"runner", "runner-before", "dev"} \subseteq Migration!Places
  BY <1>1, SplitHas DEF DirectInv, SplitFits, Placing
<1>4. PICK new : new = Migration!Switched("runner", TRUE)
  OBVIOUS
<1>5. DirectBoxes(new) /\ (Migration!Original(boxes) => Migration!Original(new))
  BY <1>3, <1>4, DirectSwitched
<1>6. OnlyAt(new, "runner") /\ new["runner"] # None /\ new["runner"].up
  BY <1>3, <1>4, MigrationHas, StartedHas
<1>7. new["runner-before"] = boxes["runner-before"] /\ new["dev"] = boxes["dev"]
  BY <1>3, <1>6 DEF OnlyAt
<1>8. Keeps(Migration!To("probe"), "probe") /\ "probe" \in Placing
  BY ToKeeps DEF MigrationPlaces, Placing
<1>9. SplitFits(Migration!To("probe"), new)
  BY <1>1, <1>3, <1>6, <1>7, <1>8, FitsPlacing
<1>10. Migration!Command(new, Migration!To("probe"), Migration!To("discard"))
  BY <1>1, <1>3, <1>4, SplitHas DEF Migration!StartRunner, Migration!Present
<1> QED
  BY <1>1, <1>2, <1>5, <1>7, <1>9, <1>10, SplitCommand DEF MigrationPlaces

LEMMA ProbeDirect ==
  ASSUME DirectInv, MigrationInv, Migration!Probe
  PROVE  DirectKept
<1>1. pass.pc = "probe" /\ pass.pc \in InJob /\ pass.pc \in After
  BY DEF Migration!Probe, Migration!At, InJob, After
<1>2. UNCHANGED <<volumes, written, splits>>
  BY DEF Migration!Probe, Migration!journals
<1>3. /\ boxes["runner"] # None /\ boxes["dev"] # None /\ boxes["dev"].layer = "snapshot"
      /\ pass.start /\ boxes["dev"].up /\ boxes["runner"].up
  BY <1>1 DEF DirectInv, SplitFits, Placing
<1>4. Keeps(Migration!To("ready"), "ready") /\ "ready" \in Placing
  BY ToKeeps DEF MigrationPlaces, Placing
<1>5. SplitFits(Migration!To("ready"), boxes)
  BY <1>1, <1>3, <1>4, FitsPlacing
<1>6. Migration!Command(boxes, Migration!To("ready"), Migration!To("discard"))
  BY DEF Migration!Probe
<1> QED
  BY <1>1, <1>2, <1>5, <1>6, SplitCommand DEF MigrationPlaces, DirectInv

LEMMA SplitReadyDirect ==
  ASSUME DirectInv, MigrationInv, Migration!SplitReady
  PROVE  DirectKept
<1>1. pass.pc = "ready" /\ pass.pc \in After
  BY DEF Migration!SplitReady, Migration!At, After
<1>2. UNCHANGED <<volumes, written, boxes>> /\ splits' = "ready" /\ pass' = Migration!To("drop")
  BY DEF Migration!SplitReady, Migration!Goto, Migration!disk
<1>3. /\ boxes["runner"] # None /\ boxes["dev"] # None /\ boxes["dev"].layer = "snapshot"
      /\ pass.start => boxes["dev"].up /\ boxes["runner"].up
  BY <1>1 DEF DirectInv, SplitFits, Placing
<1>4. Keeps(Migration!To("drop"), "drop") /\ "drop" \in Placing
  BY ToKeeps DEF MigrationPlaces, Placing
<1>5. SplitFits(pass', boxes)
  BY <1>1, <1>2, <1>3, <1>4, FitsPlacing
<1> QED
  BY <1>2, <1>5 DEF DirectInv, DirectKept, DirectBoxes, FitsDirect, SplitFits

\* The original goes only when both replacements are ready.
LEMMA DropDirect ==
  ASSUME DirectInv, MigrationInv, Migration!Drop
  PROVE  DirectKept
<1>1. pass.pc = "drop" /\ pass.pc \in InJob
  BY DEF Migration!Drop, Migration!At, InJob, After
<1>2. UNCHANGED <<volumes, written, splits>>
  BY DEF Migration!Drop, Migration!journals
<1>3. Migration!Ready
  BY <1>1 DEF Migration!Ready, Migration!Present, DirectInv, SplitFits, Placing
<1>4. PICK new : new = [boxes EXCEPT !["runner-before"] = None]
  OBVIOUS
<1>5. /\ new \in Boxes
      /\ \A q \in Migration!Places : new[q] # None => new[q] = boxes[q]
  BY <1>4, MigrationHas DEF Boxes
<1>6. DirectBoxes(new)
  <2>1. "former" \in Migration!Places
    BY PlacesApart
  <2> QED
    BY <1>5, <2>1 DEF DirectInv, DirectBoxes
<1>7. pass.then \in {"hold", "sync"}
  BY MigrationHas DEF PassRecords
<1>8. Migration!Command(new, Migration!To(pass.then), Migration!Thrown)
  BY <1>1, <1>4, SplitHas DEF Migration!Drop
<1> QED
  BY <1>2, <1>3, <1>6, <1>7, <1>8, CopiesNone, PlainTo, DirectOutside

LEMMA DiscardDirect ==
  ASSUME DirectInv, MigrationInv, Migration!Discard
  PROVE  DirectKept
<1>1. pass.pc = "discard" /\ pass.pc \in InJob /\ pass.pc \in Undoing
  BY DEF Migration!Discard, Migration!At, InJob, Undoing
<1>2. UNCHANGED <<volumes, written, splits>>
  BY DEF Migration!Discard, Migration!journals
<1>3. Keeps(Migration!To("remove"), "remove") /\ "remove" \in Undoing
  BY ToKeeps DEF MigrationPlaces, Undoing
<1>4. CASE boxes["dev"] # None
  <2>1. PICK new : new = [boxes EXCEPT !["dev"] = None]
    OBVIOUS
  <2>2. OnlyAt(new, "dev") /\ new["dev"] = None
    BY <2>1, PlacesApart, MigrationHas, Placed
  <2>3. DirectBoxes(new) /\ (Migration!Original(boxes) => Migration!Original(new))
    BY <2>2, DirectDevelopment
  <2>4. new["runner-before"] = boxes["runner-before"]
    BY <1>1, <2>2, SplitHas DEF OnlyAt
  <2>5. SplitFits(Migration!To("remove"), new) /\ Migration!To("remove").pc # "drop"
    BY <1>1, <1>3, <2>4, AsideOwn, FitsUndoing
  <2>6. Migration!Command(new, Migration!To("remove"), Migration!Lost)
    BY <1>4, <2>1 DEF Migration!Discard, Migration!Present
  <2>7. Plain(Migration!Lost)
    BY CopiesNone, PlainTo
  <2> QED
    BY <1>2, <2>3, <2>5, <2>6, <2>7, PlainFits, DirectCommand DEF Plain
<1>5. CASE boxes["dev"] = None
  <2>1. pass' = Migration!To("remove") /\ boxes' = boxes
    BY <1>5 DEF Migration!Discard, Migration!Present, Migration!Skip
  <2>2. SplitFits(pass', boxes') /\ pass'.pc # "drop"
    BY <1>1, <1>3, <2>1, AsideOwn, FitsUndoing
  <2> QED
    BY <1>2, <2>1, <2>2, DirectSame DEF DirectInv
<1> QED
  BY <1>4, <1>5

\* What is removed in a rollback is the replacement: the original was set aside.
LEMMA RemoveDirect ==
  ASSUME DirectInv, MigrationInv, Migration!Remove
  PROVE  DirectKept
<1>1. pass.pc = "remove" /\ pass.pc \in InJob /\ pass.pc \in Undoing
  BY DEF Migration!Remove, Migration!At, InJob, Undoing
<1>2. UNCHANGED <<volumes, written, splits>>
  BY DEF Migration!Remove, Migration!journals
<1>3. Keeps(Migration!To("back"), "back") /\ "back" \in Undoing
  BY ToKeeps DEF MigrationPlaces, Undoing
<1>4. CASE Migration!Removable
  <2>1. PICK new : new = [boxes EXCEPT !["runner"] = None]
    OBVIOUS
  <2>2. "runner" \in Migration!Places /\ "runner-before" \in Migration!Places
    BY <1>1, SplitHas
  <2>3. OnlyAt(new, "runner") /\ new["runner"] = None
    BY <2>1, <2>2, MigrationHas, Placed
  <2>4. new["runner-before"] = boxes["runner-before"]
    BY <2>2, <2>3 DEF OnlyAt
  <2>5. new["runner-before"] # None /\ new["runner-before"].layer = "own"
    BY <1>1, <1>4, <2>4, AsideOwn DEF Migration!Removable
  <2>6. DirectBoxes(new)
    BY <2>2, <2>3, PlacesApart DEF OnlyAt, DirectInv, DirectBoxes
  <2>7. Migration!Original(new)
    BY <2>2, <2>5 DEF Migration!Original
  <2>8. SplitFits(Migration!To("back"), new) /\ Migration!To("back").pc # "drop"
    BY <1>1, <1>3, <2>5, FitsUndoing
  <2>9. Migration!Command(new, Migration!To("back"), Migration!Lost)
    BY <1>1, <1>4, <2>1, SplitHas DEF Migration!Remove
  <2>10. Plain(Migration!Lost)
    BY CopiesNone, PlainTo
  <2> QED
    BY <1>2, <2>6, <2>7, <2>8, <2>9, <2>10, PlainFits, DirectCommand DEF Plain
<1>5. CASE ~Migration!Removable
  <2>1. pass' = Migration!To("back") /\ boxes' = boxes
    BY <1>5 DEF Migration!Remove, Migration!Skip
  <2>2. SplitFits(pass', boxes') /\ pass'.pc # "drop"
    BY <1>1, <1>3, <2>1, AsideOwn, FitsUndoing
  <2> QED
    BY <1>2, <2>1, <2>2, DirectSame DEF DirectInv
<1> QED
  BY <1>4, <1>5

LEMMA BackDirect ==
  ASSUME DirectInv, MigrationInv, Migration!Back
  PROVE  DirectKept
<1>1. pass.pc = "back" /\ pass.pc \in InJob /\ pass.pc \in Undoing
  BY DEF Migration!Back, Migration!At, InJob, Undoing
<1>2. UNCHANGED <<volumes, written, splits>>
  BY DEF Migration!Back, Migration!journals
<1>3. Keeps(Migration!To("reconnect"), "reconnect") /\ "reconnect" \in Restoring
  BY ToKeeps DEF MigrationPlaces, Restoring
<1>4. \A b : SplitFits(Migration!To("reconnect"), b) /\ Migration!To("reconnect").pc # "drop"
  BY <1>1, <1>3, FitsEarly
<1>5. CASE pass.renamed
  <2>1. PICK new : new = Migration!Moved("runner-before", "runner")
    OBVIOUS
  <2>2. boxes["runner-before"] # None /\ boxes["runner-before"].layer = "own"
    BY <1>1, <1>5, AsideOwn
  <2>3. "runner" \in Migration!Places /\ "runner-before" \in Migration!Places
    BY <1>1, SplitHas
  <2>4. DirectBoxes(new) /\ Migration!Original(new)
    BY <2>1, <2>2, <2>3, DirectMoved
  <2>5. Migration!Command(new, Migration!To("reconnect"), Migration!Lost)
    BY <1>1, <1>5, <2>1, SplitHas DEF Migration!Back
  <2>6. Plain(Migration!Lost)
    BY CopiesNone, PlainTo
  <2> QED
    BY <1>2, <1>4, <2>4, <2>5, <2>6, PlainFits, DirectCommand DEF Plain
<1>6. CASE ~pass.renamed
  <2>1. pass' = Migration!To("reconnect") /\ boxes' = boxes
    BY <1>6 DEF Migration!Back, Migration!Skip
  <2> QED
    BY <1>2, <1>4, <2>1, DirectSame DEF DirectInv
<1> QED
  BY <1>5, <1>6

LEMMA ReconnectDirect ==
  ASSUME DirectInv, MigrationInv, Migration!Reconnect
  PROVE  DirectKept
<1>1. pass.pc = "reconnect" /\ pass.pc \in InJob
  BY DEF Migration!Reconnect, Migration!At, InJob, Restoring
<1>2. UNCHANGED <<volumes, written, splits>>
  BY DEF Migration!Reconnect, Migration!journals
<1>3. Keeps(Migration!To("restart"), "restart") /\ "restart" \in Restoring
  BY ToKeeps DEF MigrationPlaces, Restoring
<1>4. \A b : SplitFits(Migration!To("restart"), b) /\ Migration!To("restart").pc # "drop"
  BY <1>1, <1>3, FitsEarly
<1>5. Plain(Migration!Lost)
  BY CopiesNone, PlainTo
<1>6. CASE ~pass.cut
  <2>1. pass' = Migration!To("restart") /\ boxes' = boxes
    BY <1>6 DEF Migration!Reconnect, Migration!Cut, Migration!Skip
  <2> QED
    BY <1>2, <1>4, <2>1, DirectSame DEF DirectInv
<1>7. CASE pass.cut /\ boxes["runner"] # None
  <2>0. PICK on \in BOOLEAN : on = TRUE
    OBVIOUS
  <2>1. PICK new : new = Connected("runner", on)
    OBVIOUS
  <2>2. DirectBoxes(new) /\ (Migration!Original(boxes) => Migration!Original(new))
    BY <1>1, <1>7, <2>1, SplitHas, DirectConnected
  <2>3. Migration!Command(new, Migration!To("restart"), Migration!Lost)
    BY <1>1, <1>7, <2>0, <2>1, SplitHas
    DEF Migration!Reconnect, Migration!Cut, Migration!Present, Connected
  <2> QED
    BY <1>2, <1>4, <1>5, <2>2, <2>3, PlainFits, DirectCommand DEF Plain
<1>8. CASE pass.cut /\ boxes["runner"] = None
  <2>1. pass' = Migration!Lost /\ boxes' = boxes
    BY <1>1, <1>8, SplitHas
    DEF Migration!Reconnect, Migration!Cut, Migration!Present, Migration!NoSuchContainer
  <2> QED
    BY <1>2, <1>5, <2>1, DirectGone
<1> QED
  BY <1>6, <1>7, <1>8

LEMMA RestartDirect ==
  ASSUME DirectInv, MigrationInv, Migration!Restart
  PROVE  DirectKept
<1>1. pass.pc = "restart" /\ pass.pc \in InJob
  BY DEF Migration!Restart, Migration!At, InJob, Restoring
<1>2. UNCHANGED <<volumes, written, splits>>
  BY DEF Migration!Restart, Migration!journals
<1>3. Keeps(Migration!To("fail"), "fail") /\ "fail" \in Restoring
  BY ToKeeps DEF MigrationPlaces, Restoring
<1>4. \A b : SplitFits(Migration!To("fail"), b) /\ Migration!To("fail").pc # "drop"
  BY <1>1, <1>3, FitsEarly
<1>5. Plain(Migration!Lost)
  BY CopiesNone, PlainTo
<1>6. CASE ~pass.found.up
  <2>1. pass' = Migration!To("fail") /\ boxes' = boxes
    BY <1>6 DEF Migration!Restart, Migration!Skip
  <2> QED
    BY <1>2, <1>4, <2>1, DirectSame DEF DirectInv
<1>7. CASE pass.found.up /\ boxes["runner"] # None
  <2>1. PICK new : new = Migration!Switched("runner", TRUE)
    OBVIOUS
  <2>2. DirectBoxes(new) /\ (Migration!Original(boxes) => Migration!Original(new))
    BY <1>1, <1>7, <2>1, SplitHas, DirectSwitched
  <2>3. Migration!Command(new, Migration!To("fail"), Migration!Lost)
    BY <1>1, <1>7, <2>1, SplitHas DEF Migration!Restart, Migration!Present
  <2> QED
    BY <1>2, <1>4, <1>5, <2>2, <2>3, PlainFits, DirectCommand DEF Plain
<1>8. CASE pass.found.up /\ boxes["runner"] = None
  <2>1. pass' = Migration!Lost /\ boxes' = boxes
    BY <1>1, <1>8, SplitHas
    DEF Migration!Restart, Migration!Present, Migration!NoSuchContainer
  <2> QED
    BY <1>2, <1>5, <2>1, DirectGone
<1> QED
  BY <1>6, <1>7, <1>8

LEMMA FailDirect ==
  ASSUME DirectInv, MigrationInv, Migration!Fail
  PROVE  DirectKept
<1>1. pass.pc = "fail" /\ pass.pc \in InJob
  BY DEF Migration!Fail, Migration!At, InJob, Restoring
<1>2. UNCHANGED <<volumes, written, boxes>> /\ pass' = Migration!To("failed")
  BY DEF Migration!Fail, Migration!Goto, Migration!disk
<1>3. Keeps(Migration!To("failed"), "failed") /\ "failed" \in Restoring
  BY ToKeeps DEF MigrationPlaces, Restoring
<1>4. SplitFits(pass', boxes) /\ pass'.pc # "drop"
  BY <1>1, <1>2, <1>3, FitsEarly
<1> QED
  BY <1>2, <1>4 DEF DirectInv, DirectKept, DirectBoxes, FitsDirect, SplitFits

\* An installation that is split keeps what is told of it, and its packages.
LEMMA DirectStep ==
  ASSUME DirectInv, MigrationInv, [Migration!Next]_(Migration!migrationVars)
  PROVE  DirectKept
<1>1. CASE \E p \in Migration!Places : Migration!Write(p)
  BY <1>1, WriteDirect
<1>2. CASE Migration!OperatorRemoves \/ Migration!PassBegin \/ Migration!Crash
  BY <1>2, OperatorDirect, PassBeginDirect, GoneDirect
<1>3. CASE Migration!Split
  BY <1>3, SplitCheckDirect, DetachDirect, SnapshotDirect, CreateDirect,
     StartDevelopmentDirect, ProbeDirect, SplitReadyDirect
  DEF Migration!Split
<1>4. CASE Migration!Naming
  <2>1. ~(Migration!MakeVolume \/ Migration!Copy \/ Migration!CopyEnd \/ Migration!Verify)
    <3> SUFFICES ASSUME pass.pc \in {"volume", "copy", "copying", "verify"}
                 PROVE  FALSE
      BY DEF Migration!MakeVolume, Migration!Copy, Migration!CopyEnd, Migration!Verify,
             Migration!At
    <3>1. pass.pc \in InJob /\ pass.pc \in NamingOnly
      BY DEF InJob, Ahead, NamingOnly
    <3> QED
      BY <3>1, SplitHas
  <2> QED
    BY <1>4, <2>1, HoldDirect, GoneDirect, NamesBeginDirect, HeldDirect DEF Migration!Naming
<1>5. CASE Migration!Shared
  BY <1>5, StopFoundDirect, RenameDirect, ProvisionDirect, StartRunnerDirect, DropDirect
  DEF Migration!Shared
<1>6. CASE Migration!Undo
  BY <1>6, DiscardDirect, RemoveDirect, BackDirect, ReconnectDirect, RestartDirect, FailDirect,
     GoneDirect
  DEF Migration!Undo
<1>7. CASE Migration!Others
  BY <1>7, RestDirect, MakeDirect, BootDirect, GoneDirect, SyncDirect DEF Migration!Others
<1>8. CASE UNCHANGED Migration!migrationVars
  BY <1>8 DEF Migration!migrationVars, Migration!disk, Migration!journals, DirectInv,
              DirectKept, DirectBoxes, FitsDirect, SplitFits
<1> QED
  BY <1>1, <1>2, <1>3, <1>4, <1>5, <1>6, <1>7, <1>8 DEF Migration!Next

-----------------------------------------------------------------------------
(* An installation that is moved to the volume named after its runner.  It   *)
(* works on the old volume until that was copied and nothing runs, and on    *)
(* the new one from the moment its runner is there.                          *)

Lies(b, p, v) == b[p] # None /\ b[p].volume = v
Used(b, v)    == \E p \in Migration!Places : Lies(b, p, v)
NoRunner(b)   == b["runner"] = None /\ b["former"] = None
Nobody(b)     == \A p \in Migration!Places : b[p] = None
OldStands(b)  == \A p \in Migration!Places : Lies(b, p, "old") => ~b[p].up
CopyDone(n)   == n.phase = "ready" /\ n.listed
Holds(v, w, x) == v[x].work = 0..w

MovedBoxes(b) ==
  /\ \A p \in Migration!Places : b[p] # None =>
       /\ p \in {"runner", "former", "dev", Migration!Previous}
       /\ b[p].kind # "unified" /\ b[p].layer # "own"
       /\ p \in {"former", Migration!Previous} => b[p].volume = "old"
       /\ p = Migration!Previous => ~b[p].up
  /\ b["former"] = None \/ b["runner"] = None

\* The new volume is a copy, and has a container only once it is complete.
Labelled(b, v, n) ==
  /\ v["old"].made /\ (v["new"].made => v["new"].migrated)
  /\ n.phase = "ready" => v["new"].made
  /\ Used(b, "new") => /\ CopyDone(n) /\ b["former"] = None
                       /\ b["runner"] # None => Lies(b, "runner", "new")

Unheld(p) ==
  p.pc \in {"hold", "rest", "make", "boot", "tail"} \/ (p.pc = "split" /\ p.then = "hold")

MovedPass(p) ==
  /\ p.job # "split" /\ ~p.cut
  /\ p.pc \in {"hold", "names"} \cup InJob \/ (p.pc = "split" /\ p.then = "hold") => ~p.bad
  /\ Unheld(p) => ~p.hold
  /\ p.hold /\ p.bad => p.pc = "held"
  /\ p.pc \in Ahead => p.copies

\* Until the copy is complete nothing writes to what is copied.
Copying(p, b, v, n) ==
  /\ p.pc = "names" /\ b["dev"] # None
       /\ (Lies(b, "runner", "old") \/ (b["runner"] = None /\ b["former"] # None))
       => ~b["dev"].up
  /\ p.pc \in {"stop", "copy", "copying", "verify"} => v["new"].made
  /\ p.pc \in {"stop", "volume"} =>
       \A q \in Migration!Places \ {p.at} : b[q] # None => ~b[q].up
  /\ p.pc \in {"copy", "copying", "verify"} => OldStands(b)
  /\ p.pc \in {"volume", "copying", "verify"} => n.phase = "copying" /\ n.listed
  /\ p.pc \in NamingOnly /\ p.found = None => Nobody(b)
  /\ p.pc \in Ahead => ~Used(b, "new")

\* The replacement stands on the complete copy, the original is set aside.
Replacing(p, b, v, n) ==
  /\ p.pc \in InJob => ~Lies(b, "dev", "new")
  /\ p.pc \in {"provision", "back"} \cup Restoring \/ (p.pc = "remove" /\ ~p.renamed)
       => ~Lies(b, "runner", "new")
  /\ p.pc \in {"rename", "provision", "start", "drop"} =>
       OldStands(b) /\ v["old"].work \subseteq v["new"].work /\ CopyDone(n)
  /\ p.pc = "provision" \/ (p.pc = "back" /\ p.renamed) => NoRunner(b)
  /\ p.pc \in {"start", "drop"} => Lies(b, "runner", "new")
  /\ p.pc \in After \cup Undoing /\ p.renamed => b[Migration!Previous] # None
  /\ p.pc = "remove" /\ p.renamed => b["former"] = None

\* A pass about to make a runner where there is none.
Creates(p, b) ==
  /\ (p.pc = "held" /\ ~p.bad) \/ p.pc = "rest"
  /\ p.active /\ p.request # "stop" /\ NoRunner(b)

Making(p, b, n) ==
  /\ p.pc = "make" => CopyDone(n) /\ NoRunner(b)
  /\ Creates(p, b) => CopyDone(n)

\* All the work is on the old volume, or all of it on the new one.
OldHas(b, v, n, w) ==
  /\ Holds(v, w, "old") /\ ~Used(b, "new")
  /\ CopyDone(n) /\ ~Used(b, "old") => Holds(v, w, "new")
  /\ NoRunner(b) /\ b[Migration!Previous] = None => b["dev"] = None

NewHas(b, v, n, w) ==
  /\ Holds(v, w, "new") /\ CopyDone(n)
  /\ b["former"] = None /\ (b["runner"] # None => Lies(b, "runner", "new")) /\ OldStands(b)

OldAt(p, b) ==
  /\ p.pc = "make" \/ Creates(p, b) => Nobody(b)
  /\ p.pc \notin {"start", "drop"}

NewAt(p, b) ==
  /\ p.hold => ~p.bad /\ p.pc # "names"
  /\ p.pc \in InJob => p.pc \in {"start", "drop", "remove"}
  /\ p.pc = "remove" => p.renamed /\ b["runner"] # None

Closing(p) ==
  p.pc \in {"rename", "provision", "start"} \/ (p.pc \in {"remove", "back"} /\ p.renamed)

Still(b) == \A q \in Migration!Places : b[q] # None => ~b[q].up

Shown(p, b, v, n, w) ==
  /\ \/ OldHas(b, v, n, w) /\ OldAt(p, b)
     \/ NewHas(b, v, n, w) /\ NewAt(p, b)
  /\ Closing(p) => Holds(v, w, "old") /\ Holds(v, w, "new") /\ Still(b)

MovingAt(p, b, v, n, w, t) ==
  /\ MovedBoxes(b) /\ Labelled(b, v, n) /\ MovedPass(p)
  /\ Copying(p, b, v, n) /\ Replacing(p, b, v, n) /\ Making(p, b, n)
  /\ t \/ Shown(p, b, v, n, w)

MovingInv == MovingAt(pass, boxes, volumes, names, written, torn)

LEMMA MovingHas ==
  ASSUME MovingInv
  PROVE  /\ MovedBoxes(boxes) /\ Labelled(boxes, volumes, names) /\ MovedPass(pass)
         /\ Copying(pass, boxes, volumes, names) /\ Replacing(pass, boxes, volumes, names)
         /\ Making(pass, boxes, names) /\ (torn \/ Shown(pass, boxes, volumes, names, written))
BY DEF MovingInv, MovingAt

\* Where a pass is outside a migration nothing is asked but where the work is.
Calm == {"idle", "split", "hold", "boot", "tail", "sync"}

Rests(b, v, n, w) == OldHas(b, v, n, w) \/ NewHas(b, v, n, w)

LEMMA CalmAt ==
  ASSUME NEW p, NEW b, NEW v, NEW n, NEW w, NEW t, MovedPass(p), p.pc \in Calm,
         MovedBoxes(b), Labelled(b, v, n), t \/ Rests(b, v, n, w)
  PROVE  MovingAt(p, b, v, n, w, t)
<1> USE DEF Calm, InJob, Ahead, After, Undoing, Restoring, NamingOnly
<1>1. Copying(p, b, v, n) /\ Replacing(p, b, v, n) /\ Making(p, b, n)
  BY DEF Copying, Replacing, Making, Creates
<1>2. OldAt(p, b) /\ NewAt(p, b) /\ ~Closing(p)
  BY DEF OldAt, NewAt, Closing, Creates, MovedPass
<1>3. t \/ Shown(p, b, v, n, w)
  BY <1>2 DEF Shown, Rests
<1> QED
  BY <1>1, <1>3 DEF MovingAt

\* After an error of migrateNames.
LEMMA ThrownAt ==
  ASSUME NEW p, NEW b, NEW v, NEW n, NEW w, NEW t, MovedPass(p), p.pc = "held", p.bad,
         MovedBoxes(b), Labelled(b, v, n),
         t \/ OldHas(b, v, n, w) \/ (NewHas(b, v, n, w) /\ ~p.hold)
  PROVE  MovingAt(p, b, v, n, w, t)
<1> USE DEF InJob, Ahead, After, Undoing, Restoring, NamingOnly
<1>1. Copying(p, b, v, n) /\ Replacing(p, b, v, n) /\ Making(p, b, n)
  BY DEF Copying, Replacing, Making, Creates
<1>2. OldAt(p, b) /\ ~Closing(p) /\ (~p.hold => NewAt(p, b))
  BY DEF OldAt, NewAt, Closing, Creates
<1>3. t \/ Shown(p, b, v, n, w)
  BY <1>2 DEF Shown
<1> QED
  BY <1>1, <1>3 DEF MovingAt

\* A command, with its effect or without; it leaves the volumes and the journals.
LEMMA MovingCommand ==
  ASSUME MovingInv, torn \in BOOLEAN, UNCHANGED <<volumes, written, names>>, NEW new, NEW next,
         NEW catch \in PassRecords, NEW t, t = (torn \/ pass.pc \in Migration!Settled),
         Migration!Command(new, next, catch),
         MovingAt(next, new, volumes, names, written, torn),
         MovingAt(catch, boxes, volumes, names, written, t),
         MovingAt(catch, new, volumes, names, written, t)
  PROVE  MovingInv'
<1>1. PICK ok \in Migration!Outcomes : Migration!Command(new, next, catch)!(ok)
  BY DEF Migration!Command
<1>2. ok \in BOOLEAN
  BY DEF Migration!Outcomes
<1>3. CASE ok
  <2>1. pass' = next /\ boxes' = new /\ torn' = torn
    BY <1>1, <1>3
  <2> QED
    BY <2>1 DEF MovingInv
<1>4. CASE ~ok
  <2>1. PICK u : pass' = [catch EXCEPT !.unclear = u]
    BY <1>1, <1>4
  <2>2. /\ pass'.pc = catch.pc /\ pass'.job = catch.job /\ pass'.cut = catch.cut
        /\ pass'.then = catch.then /\ pass'.bad = catch.bad /\ pass'.hold = catch.hold
        /\ pass'.copies = catch.copies /\ pass'.at = catch.at /\ pass'.found = catch.found
        /\ pass'.renamed = catch.renamed /\ pass'.active = catch.active
        /\ pass'.request = catch.request
    BY <2>1 DEF PassRecords
  <2>3. boxes' \in {boxes, new} /\ torn' = t
    BY <1>1, <1>4
  <2>4. MovingAt(catch, boxes', volumes, names, written, t)
    BY <2>3
  <2>5. MovingAt(pass', boxes', volumes, names, written, t)
    BY <2>2, <2>4
    DEF MovingAt, MovedPass, Unheld, Copying, Replacing, Making, Creates, Shown, OldAt, NewAt,
        Closing
  <2> QED
    BY <2>3, <2>5 DEF MovingInv
<1> QED
  BY <1>2, <1>3, <1>4

\* The same containers, of which some may have been started, stopped or connected.
Alike(b, c) ==
  \A p \in Migration!Places :
    /\ b[p] = None <=> c[p] = None
    /\ b[p] # None => /\ c[p].kind = b[p].kind /\ c[p].layer = b[p].layer
                      /\ c[p].volume = b[p].volume

LEMMA MovedPlaces ==
  {"runner", "former", "dev", Migration!Previous} \subseteq Migration!Places
BY DEF Migration!Places, Migration!Names, Migration!Previous

LEMMA AlikeHas ==
  ASSUME NEW b, NEW c, Alike(b, c)
  PROVE  /\ \A v : \A p \in Migration!Places : Lies(c, p, v) <=> Lies(b, p, v)
         /\ \A v : Used(c, v) <=> Used(b, v)
         /\ NoRunner(c) <=> NoRunner(b)
         /\ Nobody(c) <=> Nobody(b)
         /\ \A p \in Migration!Places : c[p] = None <=> b[p] = None
<1>1. \A v : \A p \in Migration!Places : Lies(c, p, v) <=> Lies(b, p, v)
  BY DEF Alike, Lies
<1>2. \A v : Used(c, v) <=> Used(b, v)
  BY <1>1 DEF Used
<1>3. NoRunner(c) <=> NoRunner(b)
  BY MovedPlaces DEF Alike, NoRunner
<1>4. (Nobody(c) <=> Nobody(b)) /\ \A p \in Migration!Places : c[p] = None <=> b[p] = None
  BY DEF Alike, Nobody
<1> QED
  BY <1>1, <1>2, <1>3, <1>4

LEMMA AlikeMoved ==
  ASSUME NEW b, NEW c, Alike(b, c), MovedBoxes(b),
         c[Migration!Previous] # None => ~c[Migration!Previous].up
  PROVE  /\ MovedBoxes(c)
         /\ \A v, n : Labelled(b, v, n) => Labelled(c, v, n)
         /\ \A v, n, w : OldHas(b, v, n, w) => OldHas(c, v, n, w)
         /\ \A v, n, w : NewHas(b, v, n, w) /\ OldStands(c) => NewHas(c, v, n, w)
<1>1. MovedBoxes(c)
  BY MovedPlaces DEF Alike, MovedBoxes
<1>2. \A v, n : Labelled(b, v, n) => Labelled(c, v, n)
  BY AlikeHas, MovedPlaces DEF Labelled
<1>3. \A v, n, w : OldHas(b, v, n, w) => OldHas(c, v, n, w)
  BY AlikeHas, MovedPlaces DEF OldHas
<1>4. \A v, n, w : NewHas(b, v, n, w) /\ OldStands(c) => NewHas(c, v, n, w)
  BY AlikeHas, MovedPlaces DEF NewHas
<1> QED
  BY <1>1, <1>2, <1>3, <1>4

LEMMA AlikeAt ==
  ASSUME NEW q \in Migration!Places, NEW new, OnlyAt(new, q), boxes[q] # None,
         new[q] # None, new[q].kind = boxes[q].kind, new[q].layer = boxes[q].layer,
         new[q].volume = boxes[q].volume
  PROVE  Alike(boxes, new)
BY DEF OnlyAt, Alike

\* A container other than the one set aside is started or stopped.
LEMMA MovedSwitched ==
  ASSUME MovingInv, MigrationInv, NEW q \in Migration!Places, q # Migration!Previous,
         boxes[q] # None, NEW on \in BOOLEAN, NEW new, new = Migration!Switched(q, on)
  PROVE  /\ Alike(boxes, new) /\ MovedBoxes(new) /\ Labelled(new, volumes, names)
         /\ \A p \in Migration!Places \ {q} : new[p] = boxes[p]
         /\ new[q] # None /\ new[q].up = on
         /\ OldStands(boxes) /\ (on => ~Lies(boxes, q, "old")) => OldStands(new)
         /\ OldHas(boxes, volumes, names, written) => OldHas(new, volumes, names, written)
         /\ NewHas(boxes, volumes, names, written) /\ (on => ~Lies(boxes, q, "old"))
              => NewHas(new, volumes, names, written)
<1>1. /\ OnlyAt(new, q) /\ new[q] # None /\ new[q].kind = boxes[q].kind
      /\ new[q].layer = boxes[q].layer /\ new[q].volume = boxes[q].volume /\ new[q].up = on
  BY MigrationHas, SwitchedHas
<1>2. Alike(boxes, new)
  BY <1>1, AlikeAt
<1>3. \A p \in Migration!Places \ {q} : new[p] = boxes[p]
  BY <1>1 DEF OnlyAt
<1>4. new[Migration!Previous] # None => ~new[Migration!Previous].up
  BY <1>3, MovingHas, MovedPlaces DEF MovedBoxes
<1>5. OldStands(boxes) /\ (on => ~Lies(boxes, q, "old")) => OldStands(new)
  BY <1>1, <1>3 DEF OldStands, Lies
<1>6. /\ MovedBoxes(new) /\ Labelled(new, volumes, names)
      /\ OldHas(boxes, volumes, names, written) => OldHas(new, volumes, names, written)
      /\ NewHas(boxes, volumes, names, written) /\ OldStands(new)
           => NewHas(new, volumes, names, written)
  BY <1>2, <1>4, MovingHas, AlikeMoved
<1>7. NewHas(boxes, volumes, names, written) => OldStands(boxes)
  BY DEF NewHas
<1> QED
  BY <1>1, <1>2, <1>3, <1>5, <1>6, <1>7

LEMMA MovedGoes ==
  ASSUME MovingInv, MigrationInv, NEW pc \in MigrationPlaces, pc # "split",
         pc \in {"hold", "names"} \cup InJob => ~pass.bad,
         pc \in {"hold", "rest", "make", "boot", "tail"} => ~pass.hold,
         pass.bad /\ pass.hold => pc = "held",
         pc \in Ahead => pass.copies
  PROVE  Keeps(Migration!To(pc), pc) /\ MovedPass(Migration!To(pc))
<1>1. Keeps(Migration!To(pc), pc) /\ Migration!To(pc).cut = pass.cut
  BY ToKeeps, MigrationHas, ToHas
<1>2. pass.job # "split" /\ ~pass.cut
  BY MovingHas DEF MovedPass
<1> QED
  BY <1>1, <1>2 DEF Keeps, MovedPass, Unheld

LEMMA MovedThrown ==
  ASSUME MovingInv, MigrationInv
  PROVE  /\ MovedPass(Migration!Thrown) /\ Migration!Thrown.pc \in {"tail", "idle"}
         /\ MovedPass(Migration!NameThrown) /\ Migration!NameThrown.pc = "held"
         /\ Migration!NameThrown.bad /\ Migration!NameThrown.hold = pass.hold
         /\ Migration!Lost = Migration!NameThrown
         /\ MovedPass(Migration!NoPass) /\ Migration!NoPass.pc = "idle"
         /\ {Migration!Thrown, Migration!NameThrown, Migration!NoPass} \subseteq PassRecords
<1> USE DEF InJob, Ahead, After, Undoing, Restoring, NamingOnly
<1>1. pass.job # "split" /\ ~pass.cut /\ pass \in PassRecords
  BY MovingHas, MigrationHas DEF MovedPass
<1>2. MovedPass(Migration!Thrown) /\ Migration!Thrown.pc \in {"tail", "idle"}
  <2>1. PICK pc \in {"tail", "idle"} : Migration!Thrown = [pass EXCEPT !.pc = pc, !.hold = FALSE]
    BY DEF Migration!Thrown
  <2> QED
    BY <1>1, <2>1 DEF PassRecords, MovedPass, Unheld
<1>3. /\ Migration!NameThrown.pc = "held" /\ Migration!NameThrown.job = pass.job
      /\ Migration!NameThrown.cut = pass.cut /\ Migration!NameThrown.hold = pass.hold
  BY <1>1 DEF PassRecords, Migration!NameThrown
<1>4. Migration!NameThrown.bad
  BY <1>1 DEF PassRecords, Migration!NameThrown
<1>5. MovedPass(Migration!NameThrown)
  BY <1>1, <1>3 DEF MovedPass, Unheld
<1>6. MovedPass(Migration!NoPass) /\ Migration!NoPass.pc = "idle"
  BY DEF Migration!NoPass, MovedPass, Unheld
<1>7. Migration!Lost = Migration!NameThrown
  BY <1>1 DEF Migration!Lost
<1>8. Migration!Thrown \in PassRecords /\ Migration!NameThrown \in PassRecords
  BY <1>1, ThrownHas
<1>9. Migration!NoPass \in PassRecords
  BY DEF Migration!NoPass, PassRecords, MigrationPlaces
<1> QED
  BY <1>2, <1>3, <1>4, <1>5, <1>6, <1>7, <1>8, <1>9

\* Where the work is, before a step.
LEMMA MovingRests ==
  ASSUME MovingInv
  PROVE  torn \/ Rests(boxes, volumes, names, written)
BY MovingHas DEF Shown, Rests

\* A step that leaves the containers, the volumes and the journal to a calm place.
LEMMA MovingGone ==
  ASSUME MovingInv, UNCHANGED <<boxes, volumes, written, names>>, torn => torn',
         MovedPass(pass'), pass'.pc \in Calm
  PROVE  MovingInv'
<1>1. MovingAt(pass', boxes, volumes, names, written, torn')
  BY MovingHas, MovingRests, CalmAt
<1> QED
  BY <1>1 DEF MovingInv

\* A command between calm places.
LEMMA MovingCalm ==
  ASSUME MovingInv, MigrationInv, UNCHANGED <<volumes, written, names>>, NEW new, NEW next,
         NEW catch \in PassRecords, Migration!Command(new, next, catch),
         MovedPass(next), next.pc \in Calm, MovedPass(catch), catch.pc \in Calm,
         MovedBoxes(new), Labelled(new, volumes, names),
         torn \/ Rests(new, volumes, names, written)
  PROVE  MovingInv'
<1>1. PICK t : t = (torn \/ pass.pc \in Migration!Settled)
  OBVIOUS
<1>2. MovingAt(next, new, volumes, names, written, torn)
  BY CalmAt
<1>3. MovingAt(catch, new, volumes, names, written, t)
  BY <1>1, CalmAt
<1>4. MovingAt(catch, boxes, volumes, names, written, t)
  BY <1>1, MovingHas, MovingRests, CalmAt
<1> QED
  BY <1>1, <1>2, <1>3, <1>4, MovingCommand, MigrationHas

(* The steps outside a migration.                                            *)
LEMMA WriteMoving ==
  ASSUME MovingInv, MigrationInv, NEW p \in Migration!Places, Migration!Write(p)
  PROVE  MovingInv'
<1>1. /\ boxes[p] # None /\ boxes[p].up /\ UNCHANGED <<boxes, pass, names, torn>>
      /\ written' = written + 1
      /\ volumes' = [volumes EXCEPT ![boxes[p].volume].work = @ \cup {written + 1}]
  BY DEF Migration!Write, Migration!Present, Migration!journals
<1>2. PICK x \in {"old", "new"} : x = boxes[p].volume
  BY <1>1, MigrationHas DEF Boxes, Migration!Container
<1>3. Lies(boxes, p, x) /\ Used(boxes, x)
  BY <1>1, <1>2 DEF Lies, Used
<1>4. /\ \A y \in {"old", "new"} : /\ volumes'[y].made = volumes[y].made
                                   /\ volumes'[y].migrated = volumes[y].migrated
                                   /\ y # x => volumes'[y].work = volumes[y].work
      /\ volumes'[x].work = volumes[x].work \cup {written + 1}
  BY <1>1, <1>2, VolumesHave DEF Volumes, Migration!Volume
<1>5. 0..written' = 0..written \cup {written + 1}
  BY <1>1, VolumesHave, MigrationConstants
<1>6. OldStands(boxes) => x = "new"
  BY <1>1, <1>3 DEF OldStands
<1>7. ~Still(boxes) /\ ~Nobody(boxes)
  BY <1>1 DEF Still, Nobody
<1>8. Labelled(boxes, volumes', names)
  BY <1>4, MovingHas DEF Labelled
<1>9. Copying(pass, boxes, volumes', names)
  BY <1>4, MovingHas DEF Copying
<1>10. Replacing(pass, boxes, volumes', names)
  BY <1>4, <1>6, MovingHas DEF Replacing
<1>11. torn \/ Shown(pass, boxes, volumes', names, written')
  <2> SUFFICES ASSUME ~torn
               PROVE  Shown(pass, boxes, volumes', names, written')
    OBVIOUS
  <2>1. Shown(pass, boxes, volumes, names, written)
    BY MovingHas
  <2>2. CASE OldHas(boxes, volumes, names, written) /\ OldAt(pass, boxes)
    <3>1. x = "old"
      BY <1>3, <2>2 DEF OldHas
    <3>2. OldHas(boxes, volumes', names, written')
      BY <1>3, <1>4, <1>5, <2>2, <3>1 DEF OldHas, Holds
    <3> QED
      BY <1>7, <2>1, <2>2, <3>2 DEF Shown
  <2>3. CASE NewHas(boxes, volumes, names, written) /\ NewAt(pass, boxes)
    <3>1. x = "new"
      BY <1>6, <2>3 DEF NewHas
    <3>2. NewHas(boxes, volumes', names, written')
      BY <1>4, <1>5, <2>3, <3>1 DEF NewHas, Holds
    <3> QED
      BY <1>7, <2>1, <2>3, <3>2 DEF Shown
  <2> QED
    BY <2>1, <2>2, <2>3 DEF Shown
<1>12. MovedBoxes(boxes) /\ MovedPass(pass) /\ Making(pass, boxes, names)
  BY MovingHas
<1>13. MovingAt(pass, boxes, volumes', names, written', torn)
  BY <1>8, <1>9, <1>10, <1>11, <1>12 DEF MovingAt
<1> QED
  BY <1>1, <1>13 DEF MovingInv

LEMMA OperatorMoving ==
  ASSUME MovingInv, MigrationInv, Migration!OperatorRemoves
  PROVE  MovingInv'
<1>1. /\ pass.pc = "idle" /\ Lies(boxes, "runner", "new")
      /\ UNCHANGED <<volumes, written, names, pass, torn>>
  BY DEF Migration!OperatorRemoves, Migration!At, Migration!Present, Migration!journals, Lies
<1>2. OnlyAt(boxes', "runner") /\ boxes'["runner"] = None
  BY MovedPlaces, MigrationHas, Placed DEF Migration!OperatorRemoves
<1>3. \A q \in Migration!Places : boxes'[q] # None => boxes'[q] = boxes[q]
  BY <1>2 DEF OnlyAt
<1>4. MovedBoxes(boxes')
  BY <1>2, <1>3, MovingHas DEF MovedBoxes
<1>5. Used(boxes, "new")
  BY <1>1, MovedPlaces DEF Used
<1>6. boxes'["former"] = None
  BY <1>3, <1>5, MovingHas, MovedPlaces DEF Labelled
<1>7. Labelled(boxes', volumes, names)
  BY <1>2, <1>5, <1>6, MovingHas DEF Labelled
<1>8. torn \/ NewHas(boxes', volumes, names, written)
  <2>1. torn \/ NewHas(boxes, volumes, names, written)
    BY <1>5, MovingRests DEF Rests, OldHas
  <2>2. OldStands(boxes) => OldStands(boxes')
    BY <1>3 DEF OldStands, Lies
  <2> QED
    BY <1>2, <1>6, <2>1, <2>2 DEF NewHas
<1>9. MovingAt(pass, boxes', volumes, names, written, torn)
  BY <1>1, <1>4, <1>7, <1>8, MovingHas, CalmAt DEF Calm, Rests
<1> QED
  BY <1>1, <1>9 DEF MovingInv

LEMMA GoneMoving ==
  ASSUME MovingInv, MigrationInv, Migration!PassBegin \/ Migration!Crash \/ Migration!Tail
  PROVE  MovingInv'
<1>1. UNCHANGED <<boxes, volumes, written, names, torn>>
  BY DEF Migration!PassBegin, Migration!Crash, Migration!Tail, Migration!disk,
         Migration!journals
<1>2. MovedPass(pass) /\ pass \in PassRecords
  BY MovingHas, MigrationHas
<1>3. MovedPass(pass') /\ pass'.pc \in Calm
  <2> USE DEF Calm, MovedPass, Unheld, InJob, Ahead, After, Undoing, Restoring, NamingOnly
  <2>1. CASE Migration!PassBegin
    <3>1. PICK active \in BOOLEAN, wish \in {"none", "start", "stop"} :
            pass' = [Migration!NoPass EXCEPT !.pc = "split", !.active = active, !.request = wish]
      BY <2>1 DEF Migration!PassBegin
    <3>2. PICK none : none = Migration!NoPass
      OBVIOUS
    <3>3. none \in PassRecords /\ none.job = "none" /\ ~none.cut /\ ~none.bad /\ ~none.hold
      BY <3>2, MovedThrown DEF Migration!NoPass
    <3>4. pass' = [none EXCEPT !.pc = "split", !.active = active, !.request = wish]
      BY <3>1, <3>2
    <3> QED
      BY <3>3, <3>4 DEF PassRecords
  <2>2. CASE pass' = Migration!NoPass
    BY <2>2, MovedThrown
  <2>3. CASE pass' = [pass EXCEPT !.pc = "split", !.then = "sync", !.hold = FALSE]
    BY <1>2, <2>3 DEF PassRecords
  <2> QED
    BY <2>1, <2>2, <2>3 DEF Migration!Crash, Migration!Tail
<1> QED
  BY <1>1, <1>3, MovingGone

\* There is nothing to split.
LEMMA SplitCheckMoving ==
  ASSUME MovingInv, MigrationInv, Migration!SplitCheck
  PROVE  MovingInv'
<1>1. UNCHANGED <<boxes, volumes, written, names, torn>> /\ pass.pc = "split"
  BY DEF Migration!SplitCheck, Migration!disk, Migration!At
<1>2. ~Migration!NeedsSplit
  BY MigrationHas, OwnedHas, MovingHas DEF Migration!NeedsSplit, MovedBoxes
<1>3. pass' = Migration!To(pass.then) /\ pass.then \in {"hold", "sync"}
  BY <1>2, MigrationHas DEF Migration!SplitCheck, Migration!Goto, PassRecords
<1>4. /\ pass.hold /\ pass.bad => FALSE
      /\ pass.then = "hold" => ~pass.bad /\ ~pass.hold
  BY <1>1, MovingHas DEF MovedPass, Unheld
<1>5. Keeps(pass', pass.then) /\ MovedPass(pass')
  BY <1>3, <1>4, MovedGoes
  DEF MigrationPlaces, InJob, Ahead, After, Undoing, Restoring, NamingOnly
<1> QED
  BY <1>1, <1>3, <1>5, MovingGone DEF Keeps, Calm

LEMMA HoldMoving ==
  ASSUME MovingInv, MigrationInv, Migration!Hold
  PROVE  MovingInv'
<1>1. UNCHANGED <<volumes, written, names>> /\ pass.pc = "hold"
  BY DEF Migration!Hold, Migration!journals, Migration!At
<1>2. ~pass.bad /\ ~pass.hold /\ pass.job # "split" /\ ~pass.cut
  BY <1>1, MovingHas DEF MovedPass, Unheld
<1>3. ASSUME NEW p, p.pc = "names", p.job # "split", ~p.cut, ~p.bad, NEW b, MovedBoxes(b),
             Labelled(b, volumes, names), Migration!NeedsNaming /\ b["dev"] # None => ~b["dev"].up,
             Alike(boxes, b),
             torn \/ OldHas(b, volumes, names, written)
                  \/ (NewHas(b, volumes, names, written) /\ ~p.hold)
      PROVE  MovingAt(p, b, volumes, names, written, torn)
  <2> USE DEF InJob, Ahead, After, Undoing, Restoring, NamingOnly
  <2>1. MovedPass(p) /\ OldAt(p, b) /\ (~p.hold => NewAt(p, b)) /\ ~Closing(p)
    BY <1>3 DEF MovedPass, Unheld, OldAt, NewAt, Closing, Creates
  <2>2. Replacing(p, b, volumes, names) /\ Making(p, b, names)
    BY <1>3 DEF Replacing, Making, Creates
  <2>3. \/ Lies(b, "runner", "old")
        \/ b["runner"] = None /\ b["former"] # None
        => Migration!NeedsNaming
    <3>1. /\ Lies(b, "runner", "old") <=> Lies(boxes, "runner", "old")
          /\ b["runner"] = None <=> boxes["runner"] = None
          /\ b["former"] = None <=> boxes["former"] = None
      BY <1>3, AlikeHas, MovedPlaces
    <3> QED
      BY <3>1 DEF Lies, Migration!NeedsNaming, Migration!Owned
  <2>4. Copying(p, b, volumes, names)
    BY <1>3, <2>3 DEF Copying
  <2>5. torn \/ Shown(p, b, volumes, names, written)
    BY <1>3, <2>1 DEF Shown
  <2> QED
    BY <1>3, <2>1, <2>2, <2>4, <2>5 DEF MovingAt
<1>4. CASE Migration!NeedsHold
  <2>0. PICK off \in BOOLEAN : off = FALSE
    OBVIOUS
  <2>1. PICK new : new = Migration!Switched("dev", off)
    OBVIOUS
  <2>2. PICK next : next = [pass EXCEPT !.pc = "names", !.hold = TRUE]
    OBVIOUS
  <2>3. boxes["dev"] # None /\ Migration!NeedsNaming /\ "dev" # Migration!Previous
    BY <1>4 DEF Migration!NeedsHold, Migration!Present, Migration!Previous
  <2>4. /\ Alike(boxes, new) /\ MovedBoxes(new) /\ Labelled(new, volumes, names)
        /\ new["dev"].up = off
        /\ OldHas(boxes, volumes, names, written) => OldHas(new, volumes, names, written)
        /\ NewHas(boxes, volumes, names, written) => NewHas(new, volumes, names, written)
    BY <2>0, <2>1, <2>3, MovedPlaces, MovedSwitched
  <2>5. next.pc = "names" /\ next.job = pass.job /\ next.cut = pass.cut /\ next.bad = pass.bad
    BY <2>2, MigrationHas DEF PassRecords
  <2>6. torn \/ OldHas(boxes, volumes, names, written)
    <3>1. ~NewHas(boxes, volumes, names, written)
      <4>1. SUFFICES ASSUME NewHas(boxes, volumes, names, written)
                     PROVE  FALSE
        OBVIOUS
      <4>2. boxes["former"] = None /\ (boxes["runner"] # None => boxes["runner"].volume = "new")
        BY <4>1 DEF NewHas, Lies
      <4> QED
        BY <2>3, <4>2 DEF Migration!NeedsNaming, Migration!Owned
    <3> QED
      BY <3>1, MovingRests DEF Rests
  <2>7. MovingAt(next, new, volumes, names, written, torn)
    BY <1>2, <1>3, <2>0, <2>4, <2>5, <2>6
  <2>8. Migration!Command(new, next, Migration!Thrown)
    BY <1>4, <2>0, <2>1, <2>2 DEF Migration!Hold
  <2>9. PICK t : t = (torn \/ pass.pc \in Migration!Settled)
    OBVIOUS
  <2>10. /\ MovingAt(Migration!Thrown, boxes, volumes, names, written, t)
         /\ MovingAt(Migration!Thrown, new, volumes, names, written, t)
    BY <2>4, <2>6, <2>9, MovingHas, MovedThrown, CalmAt DEF Calm, Rests
  <2> QED
    BY <1>1, <2>7, <2>8, <2>9, <2>10, MovedThrown, MovingCommand, MigrationHas
<1>5. CASE ~Migration!NeedsHold
  <2>1. pass' = Migration!To("names") /\ UNCHANGED <<boxes, torn>>
    BY <1>5 DEF Migration!Hold, Migration!Skip
  <2>2. /\ pass'.pc = "names" /\ pass'.job # "split" /\ ~pass'.cut /\ ~pass'.bad /\ ~pass'.hold
    BY <1>2, <2>1, MigrationHas DEF PassRecords, Migration!To
  <2>3. Migration!NeedsNaming /\ boxes["dev"] # None => ~boxes["dev"].up
    BY <1>5 DEF Migration!NeedsHold, Migration!Present
  <2>4. MovingAt(pass', boxes, volumes, names, written, torn)
    BY <1>3, <2>2, <2>3, MovingHas, MovingRests DEF Rests, Alike
  <2> QED
    BY <1>1, <2>1, <2>4 DEF MovingInv
<1> QED
  BY <1>4, <1>5

LEMMA RestAt ==
  ASSUME NEW p, NEW b, NEW v, NEW n, NEW w, NEW t, MovedPass(p), p.pc \in {"rest", "held"},
         ~p.hold \/ ~p.bad, MovedBoxes(b), Labelled(b, v, n),
         Creates(p, b) => CopyDone(n),
         t \/ (OldHas(b, v, n, w) /\ (Creates(p, b) => Nobody(b))) \/ NewHas(b, v, n, w)
  PROVE  MovingAt(p, b, v, n, w, t)
<1> USE DEF InJob, Ahead, After, Undoing, Restoring, NamingOnly
<1>1. Copying(p, b, v, n) /\ Replacing(p, b, v, n) /\ Making(p, b, n)
  BY DEF Copying, Replacing, Making
<1>2. NewAt(p, b) /\ ~Closing(p) /\ ((Creates(p, b) => Nobody(b)) => OldAt(p, b))
  BY DEF OldAt, NewAt, Closing
<1>3. t \/ Shown(p, b, v, n, w)
  BY <1>2 DEF Shown
<1> QED
  BY <1>1, <1>3 DEF MovingAt

LEMMA HeldMoving ==
  ASSUME MovingInv, MigrationInv, Migration!Held
  PROVE  MovingInv'
<1>1. UNCHANGED <<volumes, written, names>> /\ pass.pc = "held"
  BY DEF Migration!Held, Migration!journals, Migration!At
<1>2. CASE pass.hold /\ pass.bad
  <2>1. CASE boxes["dev"] # None /\ Migration!Command(Migration!Switched("dev", TRUE),
                                          Migration!Thrown, Migration!Thrown)
    <3>0. PICK on \in BOOLEAN : on = TRUE
      OBVIOUS
    <3>1. PICK new : new = Migration!Switched("dev", on)
      OBVIOUS
    <3>2. "dev" # Migration!Previous
      BY DEF Migration!Previous
    <3>3. /\ MovedBoxes(new) /\ Labelled(new, volumes, names)
          /\ OldHas(boxes, volumes, names, written) => OldHas(new, volumes, names, written)
      BY <2>1, <3>1, <3>2, MovedPlaces, MovedSwitched
    <3>4. torn \/ OldHas(boxes, volumes, names, written)
      BY <1>2, MovingHas DEF Shown, NewAt
    <3>5. Migration!Command(new, Migration!Thrown, Migration!Thrown)
      BY <2>1, <3>0, <3>1
    <3> QED
      BY <1>1, <3>3, <3>4, <3>5, MovedThrown, MovingCalm DEF Calm, Rests
  <2>2. CASE Migration!Skip(Migration!Thrown)
    BY <1>1, <2>2, MovedThrown, MovingGone DEF Calm, Migration!Skip
  <2> QED
    BY <1>2, <2>1, <2>2 DEF Migration!Held, Migration!Present
<1>3. CASE pass.hold /\ ~pass.bad
  <2>1. UNCHANGED <<boxes, torn>> /\ pass' = [pass EXCEPT !.pc = "split", !.then = "sync"]
    BY <1>3 DEF Migration!Held, Migration!Skip
  <2>2. MovedPass(pass) /\ pass \in PassRecords
    BY MovingHas, MigrationHas
  <2>3. MovedPass(pass') /\ pass'.pc = "split"
    BY <1>3, <2>1, <2>2
    DEF PassRecords, MovedPass, Unheld, InJob, Ahead, After, Undoing, Restoring, NamingOnly
  <2> QED
    BY <1>1, <2>1, <2>3, MovingGone DEF Calm
<1>4. CASE ~pass.hold
  <2>1. /\ UNCHANGED <<boxes, torn>>
        /\ pass' = Migration!To(IF pass.bad THEN "tail" ELSE "rest")
    BY <1>4 DEF Migration!Held, Migration!Skip
  <2>2. \A pc \in {"tail", "rest"} :
          Keeps(Migration!To(pc), pc) /\ MovedPass(Migration!To(pc))
    BY <1>4, MovedGoes
    DEF MigrationPlaces, InJob, Ahead, After, Undoing, Restoring, NamingOnly
  <2>3. CASE pass.bad
    BY <1>1, <2>1, <2>2, <2>3, MovingGone DEF Calm, Keeps
  <2>4. CASE ~pass.bad
    <3>1. pass' = Migration!To("rest") /\ Keeps(pass', "rest") /\ MovedPass(pass')
      BY <2>1, <2>2, <2>4
    <3>2. Creates(pass', boxes) <=> Creates(pass, boxes)
      BY <1>1, <2>4, <3>1 DEF Creates, Keeps
    <3>3. MovingAt(pass', boxes, volumes, names, written, torn)
      BY <1>4, <3>1, <3>2, MovingHas, RestAt DEF Keeps, Making, Shown, OldAt
    <3> QED
      BY <1>1, <2>1, <3>3 DEF MovingInv
  <2> QED
    BY <2>3, <2>4
<1> QED
  BY <1>2, <1>3, <1>4

LEMMA NamesSkippedMoving ==
  ASSUME MovingInv, MigrationInv, Migration!NamesSkipped
  PROVE  MovingInv'
<1>1. UNCHANGED <<boxes, volumes, written, names, torn>> /\ pass.pc = "names"
  BY DEF Migration!NamesSkipped, Migration!disk, Migration!journals, Migration!At
<1>2. ~pass.bad
  BY <1>1, MovingHas DEF MovedPass
<1>3. CASE pass' = Migration!NameThrown
  <2>1. torn \/ OldHas(boxes, volumes, names, written)
             \/ (NewHas(boxes, volumes, names, written) /\ ~pass.hold)
    BY <1>1, MovingHas DEF Shown, NewAt
  <2>2. MovingAt(pass', boxes, volumes, names, written, torn)
    BY <1>3, <2>1, MovingHas, MovedThrown, ThrownAt
  <2> QED
    BY <1>1, <2>2 DEF MovingInv
<1>4. CASE /\ pass' = Migration!To("held")
           /\ Migration!Owned = "runner" \/ pass.request = "stop"
  <2>1. Keeps(pass', "held") /\ MovedPass(pass')
    BY <1>2, <1>4, MovedGoes
    DEF MigrationPlaces, InJob, Ahead, After, Undoing, Restoring, NamingOnly
  <2>2. ~Creates(pass', boxes)
    BY <1>4, <2>1 DEF Creates, Keeps, NoRunner, Migration!Owned
  <2>3. MovingAt(pass', boxes, volumes, names, written, torn)
    BY <1>2, <2>1, <2>2, MovingHas, MovingRests, RestAt DEF Keeps, Rests
  <2> QED
    BY <1>1, <2>3 DEF MovingInv
<1> QED
  BY <1>3, <1>4 DEF Migration!NamesSkipped, Migration!Goto

LEMMA RethrowMoving ==
  ASSUME MovingInv, MigrationInv, Migration!Rethrow
  PROVE  MovingInv'
<1>1. UNCHANGED <<boxes, volumes, written, names, torn>> /\ pass.pc = "failed"
  BY DEF Migration!Rethrow, Migration!disk, Migration!journals, Migration!At
<1>2. pass' = Migration!NameThrown
  BY MovedThrown DEF Migration!Rethrow
<1>3. torn \/ OldHas(boxes, volumes, names, written)
  BY <1>1, MovingHas DEF Shown, NewAt, InJob, Restoring
<1>4. MovingAt(pass', boxes, volumes, names, written, torn)
  BY <1>2, <1>3, MovingHas, MovedThrown, ThrownAt
<1> QED
  BY <1>1, <1>4 DEF MovingInv

\* The runner found or the former one, on the volume where all the work is.
LEMMA MovedOwned ==
  ASSUME MovingInv, MigrationInv, Migration!Owned # "none"
  PROVE  /\ Migration!Owned \in Migration!Places /\ boxes[Migration!Owned] # None
         /\ Migration!Owned \in {"runner", "former"} /\ ~NoRunner(boxes)
         /\ boxes[Migration!Owned].volume \in {"old", "new"}
         /\ NewHas(boxes, volumes, names, written) =>
              /\ ~Lies(boxes, Migration!Owned, "old")
              /\ boxes[Migration!Owned].volume = "new" /\ Migration!Owned = "runner"
<1>1. /\ Migration!Owned \in Migration!Places /\ boxes[Migration!Owned] # None
      /\ boxes[Migration!Owned] \in Migration!Container
      /\ Migration!Owned \in {"runner", "former"}
  BY MigrationHas, OwnedHas, PlacesApart
<1>2. ~NoRunner(boxes)
  BY <1>1 DEF NoRunner
<1>3. NewHas(boxes, volumes, names, written) =>
        boxes[Migration!Owned].volume = "new" /\ Migration!Owned = "runner"
  BY <1>1 DEF NewHas, Lies
<1> QED
  BY <1>1, <1>2, <1>3 DEF Lies, Migration!Container

LEMMA RestMoving ==
  ASSUME MovingInv, MigrationInv, Migration!Rest
  PROVE  MovingInv'
<1>1. UNCHANGED <<volumes, written, names>> /\ pass.pc = "rest"
  BY DEF Migration!Rest, Migration!journals, Migration!At
<1>2. ~pass.hold
  BY <1>1, MovingHas DEF MovedPass, Unheld
<1>3. \A pc \in {"tail", "make"} :
        Keeps(Migration!To(pc), pc) /\ MovedPass(Migration!To(pc))
  BY <1>2, MovedGoes DEF MigrationPlaces, InJob, Ahead, After, Undoing, Restoring, NamingOnly
<1>4. ASSUME NEW on \in BOOLEAN, Migration!Owned # "none",
             Migration!Command(Migration!Switched(Migration!Owned, on), Migration!To("tail"),
                               Migration!To("tail"))
      PROVE  MovingInv'
  <2>1. PICK new : new = Migration!Switched(Migration!Owned, on)
    OBVIOUS
  <2>2. PICK q \in Migration!Places : q = Migration!Owned
    BY <1>4, MovedOwned
  <2>3. q # Migration!Previous /\ boxes[q] # None
    BY <1>4, <2>2, MovedOwned DEF Migration!Previous
  <2>4. new = Migration!Switched(q, on)
    BY <2>1, <2>2
  <2>5. /\ MovedBoxes(new) /\ Labelled(new, volumes, names)
        /\ OldHas(boxes, volumes, names, written) => OldHas(new, volumes, names, written)
        /\ NewHas(boxes, volumes, names, written) /\ (on => ~Lies(boxes, q, "old"))
             => NewHas(new, volumes, names, written)
    BY <2>3, <2>4, MovedSwitched
  <2>6. torn \/ Rests(new, volumes, names, written)
    BY <1>4, <2>2, <2>5, MovedOwned, MovingRests DEF Rests
  <2> QED
    BY <1>1, <1>3, <1>4, <2>1, <2>5, <2>6, MovingCalm DEF Keeps, Calm
<1>5. CASE Migration!Skip(Migration!To("tail"))
  BY <1>1, <1>3, <1>5, MovingGone DEF Keeps, Calm, Migration!Skip
<1>6. CASE /\ Migration!Skip(Migration!To("make"))
           /\ Migration!Owned = "none" /\ pass.active /\ pass.request # "stop"
  <2>1. pass' = Migration!To("make") /\ UNCHANGED <<boxes, torn>>
    BY <1>6 DEF Migration!Skip
  <2>2. NoRunner(boxes)
    BY <1>6 DEF NoRunner, Migration!Owned
  <2>3. Creates(pass, boxes) /\ CopyDone(names)
    BY <1>1, <1>6, <2>2, MovingHas DEF Creates, Making
  <2>4. pass'.pc = "make" /\ pass'.hold = pass.hold /\ MovedPass(pass')
    BY <1>3, <2>1 DEF Keeps
  <2>5. /\ Copying(pass', boxes, volumes, names) /\ Replacing(pass', boxes, volumes, names)
        /\ Making(pass', boxes, names)
    BY <2>2, <2>3, <2>4
    DEF Copying, Replacing, Making, Creates, InJob, Ahead, After, Undoing, Restoring, NamingOnly
  <2>6. NewAt(pass', boxes) /\ ~Closing(pass') /\ (OldAt(pass, boxes) => OldAt(pass', boxes))
    BY <1>2, <2>3, <2>4
    DEF NewAt, OldAt, Closing, InJob, Ahead, After, Undoing, Restoring, NamingOnly
  <2>7. torn \/ Shown(pass', boxes, volumes, names, written)
    BY <2>6, MovingHas DEF Shown
  <2>8. MovingAt(pass', boxes, volumes, names, written, torn)
    BY <2>4, <2>5, <2>7, MovingHas DEF MovingAt
  <2> QED
    BY <1>1, <2>1, <2>8 DEF MovingInv
<1> QED
  BY <1>4, <1>5, <1>6 DEF Migration!Rest

\* The new runner is made on the volume that has the complete copy.
LEMMA MadeRunner ==
  ASSUME MigrationInv, boxes["runner"] = None, NEW new, new = Migration!Provisioned
  PROVE  /\ OnlyAt(new, "runner") /\ new["runner"] # None /\ ~new["runner"].up
         /\ new["runner"].kind = "split" /\ new["runner"].layer = "image"
         /\ new["runner"].volume = "new"
<1>0. PICK off : off = FALSE
  OBVIOUS
<1>1. OnlyAt(new, "runner") /\ new["runner"] # None /\ "runner" \in Migration!Places
  BY MigrationHas, ProvisionedHas, MovedPlaces
<1>2. new["runner"] = [kind |-> "split", layer |-> "image", volume |-> "new", up |-> off,
                       ssh |-> off]
  BY <1>0, <1>1, MigrationHas DEF Migration!Provisioned, Migration!Present, Boxes
<1> QED
  BY <1>0, <1>1, <1>2

LEMMA MadeMoved ==
  ASSUME MovingInv, MigrationInv, NoRunner(boxes), CopyDone(names),
         NEW new, new = Migration!Provisioned
  PROVE  /\ MovedBoxes(new) /\ Labelled(new, volumes, names)
         /\ Lies(new, "runner", "new") /\ new["former"] = None
         /\ \A p \in Migration!Places \ {"runner"} : new[p] = boxes[p]
         /\ OldStands(boxes) => OldStands(new)
         /\ Still(boxes) => Still(new)
<1>1. /\ OnlyAt(new, "runner") /\ new["runner"] # None /\ ~new["runner"].up
      /\ new["runner"].kind = "split" /\ new["runner"].layer = "image"
      /\ new["runner"].volume = "new"
  BY MadeRunner DEF NoRunner
<1>2. /\ \A p \in Migration!Places \ {"runner"} : new[p] = boxes[p]
      /\ new["former"] = None
  BY <1>1, MovedPlaces DEF OnlyAt, NoRunner
<1>3. MovedBoxes(new)
  <2>1. "runner" # Migration!Previous
    BY DEF Migration!Previous
  <2> QED
    BY <1>1, <1>2, <2>1, MovingHas DEF MovedBoxes
<1>4. Lies(new, "runner", "new")
  BY <1>1 DEF Lies
<1>5. Labelled(new, volumes, names)
  BY <1>2, <1>4, MovingHas DEF Labelled
<1>6. OldStands(boxes) => OldStands(new)
  BY <1>1, <1>2 DEF OldStands, Lies
<1>7. Still(boxes) => Still(new)
  BY <1>1, <1>2 DEF Still
<1> QED
  BY <1>2, <1>3, <1>4, <1>5, <1>6, <1>7

LEMMA MakeMoving ==
  ASSUME MovingInv, MigrationInv, Migration!Make
  PROVE  MovingInv'
<1>1. /\ pass.pc = "make" /\ UNCHANGED <<written, names>>
      /\ Migration!Provision(Migration!To("boot"), Migration!To("tail"))
  BY DEF Migration!Make, Migration!journals, Migration!At
<1>2. CopyDone(names) /\ NoRunner(boxes) /\ ~pass.hold
  BY <1>1, MovingHas DEF Making, MovedPass, Unheld
<1>3. volumes["new"].made
  BY <1>2, MovingHas DEF Labelled, CopyDone
<1>4. volumes' = volumes
  BY <1>1, <1>3 DEF Migration!Provision
<1>5. PICK new : new = Migration!Provisioned
  OBVIOUS
<1>6. Migration!Command(new, Migration!To("boot"), Migration!To("tail"))
  BY <1>1, <1>5 DEF Migration!Provision
<1>7. /\ MovedBoxes(new) /\ Labelled(new, volumes, names)
      /\ Lies(new, "runner", "new") /\ new["former"] = None
      /\ OldStands(boxes) => OldStands(new)
  BY <1>2, <1>5, MadeMoved
<1>8. torn \/ NewHas(new, volumes, names, written)
  <2>1. torn \/ (Holds(volumes, written, "new") /\ OldStands(boxes))
    <3>1. ASSUME Nobody(boxes), OldHas(boxes, volumes, names, written)
          PROVE  Holds(volumes, written, "new") /\ OldStands(boxes)
      BY <1>2, <3>1 DEF Nobody, OldHas, Used, Lies, OldStands
    <3>2. OldAt(pass, boxes) => Nobody(boxes)
      BY <1>1 DEF OldAt
    <3> QED
      BY <3>1, <3>2, MovingHas DEF Shown, NewHas
  <2> QED
    BY <1>2, <1>7, <2>1 DEF NewHas
<1>9. \A pc \in {"boot", "tail"} :
        Keeps(Migration!To(pc), pc) /\ MovedPass(Migration!To(pc))
  BY <1>2, MovedGoes DEF MigrationPlaces, InJob, Ahead, After, Undoing, Restoring, NamingOnly
<1> QED
  BY <1>1, <1>4, <1>6, <1>7, <1>8, <1>9, MovingCalm DEF Keeps, Calm, Rests

LEMMA BootMoving ==
  ASSUME MovingInv, MigrationInv, Migration!Boot
  PROVE  MovingInv'
<1>1. /\ pass.pc = "boot" /\ UNCHANGED <<volumes, written, names>>
  BY DEF Migration!Boot, Migration!journals, Migration!At
<1>0. PICK on \in BOOLEAN : on = TRUE
  OBVIOUS
<1>2. PICK new : new = Migration!Switched("runner", on)
  OBVIOUS
<1>3. boxes["runner"] # None /\ "runner" # Migration!Previous
  BY <1>1, MigrationHas DEF BoxesFit, Migration!Previous
<1>4. /\ MovedBoxes(new) /\ Labelled(new, volumes, names)
      /\ OldHas(boxes, volumes, names, written) => OldHas(new, volumes, names, written)
      /\ NewHas(boxes, volumes, names, written) /\ ~Lies(boxes, "runner", "old")
           => NewHas(new, volumes, names, written)
  BY <1>2, <1>3, MovedPlaces, MovedSwitched
<1>5. NewHas(boxes, volumes, names, written) => ~Lies(boxes, "runner", "old")
  BY DEF NewHas, Lies
<1>6. torn \/ Rests(new, volumes, names, written)
  BY <1>4, <1>5, MovingRests DEF Rests
<1>7. ~pass.hold
  BY <1>1, MovingHas DEF MovedPass, Unheld
<1>8. Keeps(Migration!To("tail"), "tail") /\ MovedPass(Migration!To("tail"))
  BY <1>7, MovedGoes DEF MigrationPlaces, InJob, Ahead, After, Undoing, Restoring, NamingOnly
<1>9. Migration!Command(new, Migration!To("tail"), Migration!To("tail"))
  BY <1>0, <1>2 DEF Migration!Boot
<1> QED
  BY <1>1, <1>4, <1>6, <1>8, <1>9, MovingCalm DEF Keeps, Calm

\* A development container is made on the volume of the runner.
LEMMA MadeDevelopment ==
  ASSUME MovingInv, MigrationInv, Migration!Owned # "none", NEW on \in BOOLEAN,
         NEW new, new = [boxes EXCEPT !["dev"] = Migration!Development("image", on)]
  PROVE  /\ MovedBoxes(new) /\ Labelled(new, volumes, names) /\ ~NoRunner(new)
         /\ OldHas(boxes, volumes, names, written) => OldHas(new, volumes, names, written)
         /\ NewHas(boxes, volumes, names, written) => NewHas(new, volumes, names, written)
<1>1. PICK q \in Migration!Places : q = Migration!Owned
  BY MovedOwned
<1>2. /\ q \in {"runner", "former"} /\ boxes[q] # None /\ boxes[q].volume \in {"old", "new"}
      /\ NewHas(boxes, volumes, names, written) => boxes[q].volume = "new"
      /\ ~NoRunner(boxes)
  BY <1>1, MovedOwned
<1>3. /\ OnlyAt(new, "dev") /\ new["dev"] # None /\ new["dev"].kind = "workspace"
      /\ new["dev"].layer = "image" /\ new["dev"].volume = boxes[q].volume
  BY <1>1, DevelopmentHas
<1>4. \A p \in Migration!Places \ {"dev"} : new[p] = boxes[p]
  BY <1>3 DEF OnlyAt
<1>5. MovedBoxes(new)
  <2>1. "dev" # Migration!Previous
    BY DEF Migration!Previous
  <2> QED
    BY <1>3, <1>4, <2>1, MovedPlaces, MovingHas DEF MovedBoxes
<1>6. Used(new, "new") => Used(boxes, "new")
  BY <1>2, <1>3, <1>4 DEF Used, Lies
<1>7. new["runner"] = boxes["runner"] /\ new["former"] = boxes["former"]
  BY <1>4, MovedPlaces
<1>8. Labelled(new, volumes, names)
  BY <1>6, <1>7, MovingHas DEF Labelled, Lies
<1>9. ~NoRunner(new)
  BY <1>2, <1>7 DEF NoRunner
<1>10. ASSUME OldHas(boxes, volumes, names, written)
       PROVE  OldHas(new, volumes, names, written)
  <2>1. boxes[q].volume = "old"
    BY <1>2, <1>10 DEF OldHas, Used, Lies
  <2>2. Used(new, "old")
    BY <1>2, <1>4, <2>1 DEF Used, Lies
  <2> QED
    BY <1>6, <1>9, <1>10, <2>2 DEF OldHas
<1>11. ASSUME NewHas(boxes, volumes, names, written)
       PROVE  NewHas(new, volumes, names, written)
  <2>1. OldStands(new)
    BY <1>2, <1>3, <1>4, <1>11 DEF NewHas, OldStands, Lies
  <2> QED
    BY <1>7, <1>11, <2>1 DEF NewHas, Lies
<1> QED
  BY <1>5, <1>8, <1>9, <1>10, <1>11

LEMMA SyncMoving ==
  ASSUME MovingInv, MigrationInv, Migration!Sync
  PROVE  MovingInv'
<1>1. UNCHANGED <<volumes, written, names>> /\ pass.pc = "sync"
  BY DEF Migration!Sync, Migration!journals, Migration!At
<1>2. CASE pass.active /\ Migration!Owned = "none"
  <2>1. pass' = Migration!Thrown /\ UNCHANGED <<boxes, torn>>
    BY <1>2 DEF Migration!Sync, Migration!Skip
  <2> QED
    BY <1>1, <2>1, MovedThrown, MovingGone DEF Calm
<1>3. CASE ~(pass.active /\ Migration!Owned = "none")
  <2>1. PICK new : new = Migration!Synced
    OBVIOUS
  <2>2. PICK next : /\ Migration!Command(new, next, Migration!Thrown)
                    /\ \/ next = [pass EXCEPT !.pc = "rest", !.then = "hold", !.hold = FALSE]
                       \/ next = Migration!NoPass
    BY <1>3, <2>1 DEF Migration!Sync
  <2>3. /\ MovedBoxes(new) /\ Labelled(new, volumes, names)
        /\ OldHas(boxes, volumes, names, written) => OldHas(new, volumes, names, written)
        /\ NewHas(boxes, volumes, names, written) => NewHas(new, volumes, names, written)
        /\ NoRunner(new) => NoRunner(boxes)
    <3>1. CASE new = boxes
      BY <3>1, MovingHas
    <3>2. ASSUME NEW on \in BOOLEAN, new = Migration!Switched("dev", on), boxes["dev"] # None,
                 on => Migration!Owned # "none"
                       /\ boxes["dev"].volume = boxes[Migration!Owned].volume
          PROVE  /\ MovedBoxes(new) /\ Labelled(new, volumes, names)
                 /\ OldHas(boxes, volumes, names, written) => OldHas(new, volumes, names, written)
                 /\ NewHas(boxes, volumes, names, written) => NewHas(new, volumes, names, written)
                 /\ NoRunner(new) => NoRunner(boxes)
      <4>1. "dev" # Migration!Previous
        BY DEF Migration!Previous
      <4>2. /\ Alike(boxes, new) /\ MovedBoxes(new) /\ Labelled(new, volumes, names)
            /\ OldHas(boxes, volumes, names, written) => OldHas(new, volumes, names, written)
            /\ NewHas(boxes, volumes, names, written) /\ (on => ~Lies(boxes, "dev", "old"))
                 => NewHas(new, volumes, names, written)
        BY <3>2, <4>1, MovedPlaces, MovedSwitched
      <4>3. NewHas(boxes, volumes, names, written) /\ on => ~Lies(boxes, "dev", "old")
        BY <3>2, MovedOwned DEF Lies
      <4>4. NoRunner(new) => NoRunner(boxes)
        BY <4>2, AlikeHas
      <4> QED
        BY <4>2, <4>3, <4>4
    <3>3. CASE /\ Migration!Owned # "none"
               /\ \E on \in BOOLEAN :
                    new = [boxes EXCEPT !["dev"] = Migration!Development("image", on)]
      BY <3>3, MadeDevelopment
    <3>4. PICK on \in BOOLEAN, off \in BOOLEAN : on = TRUE /\ off = FALSE
      OBVIOUS
    <3>5. \/ new = boxes
          \/ /\ boxes["dev"] # None
             /\ \/ new = Migration!Switched("dev", off)
                \/ /\ new = Migration!Switched("dev", on) /\ Migration!Owned # "none"
                   /\ boxes["dev"].volume = boxes[Migration!Owned].volume
          \/ /\ Migration!Owned # "none"
             /\ \E lit \in BOOLEAN :
                  new = [boxes EXCEPT !["dev"] = Migration!Development("image", lit)]
      BY <1>3, <2>1, <3>4, SyncedHas
    <3> QED
      BY <3>1, <3>2, <3>3, <3>4, <3>5
  <2>4. torn \/ Rests(new, volumes, names, written)
    BY <2>3, MovingRests DEF Rests
  <2>5. CASE next = Migration!NoPass
    BY <1>1, <2>2, <2>3, <2>4, <2>5, MovedThrown, MovingCalm DEF Calm
  <2>6. CASE next = [pass EXCEPT !.pc = "rest", !.then = "hold", !.hold = FALSE]
    <3>1. MovedPass(pass) /\ pass \in PassRecords
      BY MovingHas, MigrationHas
    <3>2. MovedPass(next) /\ next.pc = "rest" /\ ~next.hold /\ next.active = pass.active
      BY <2>6, <3>1
      DEF PassRecords, MovedPass, Unheld, InJob, Ahead, After, Undoing, Restoring, NamingOnly
    <3>3. ~Creates(next, new)
      BY <1>3, <2>3, <3>2 DEF Creates, NoRunner, Migration!Owned
    <3>4. MovingAt(next, new, volumes, names, written, torn)
      BY <2>3, <2>4, <3>2, <3>3, RestAt DEF Rests
    <3>5. PICK t : t = (torn \/ pass.pc \in Migration!Settled)
      OBVIOUS
    <3>6. /\ MovingAt(Migration!Thrown, boxes, volumes, names, written, t)
          /\ MovingAt(Migration!Thrown, new, volumes, names, written, t)
      BY <2>3, <2>4, <3>5, MovingHas, MovingRests, MovedThrown, CalmAt DEF Calm
    <3> QED
      BY <1>1, <2>2, <3>4, <3>5, <3>6, MovedThrown, MovingCommand, MigrationHas
  <2> QED
    BY <2>2, <2>5, <2>6
<1> QED
  BY <1>2, <1>3

(* The steps of a move.                                                      *)
LEMMA MovingHere ==
  ASSUME MovingInv, MigrationInv, pass.pc \in InJob
  PROVE  /\ pass.job = "naming" /\ pass.pc \notin SplitOnly /\ ~pass.bad /\ ~pass.cut
         /\ Migration!Aside = Migration!Previous /\ Migration!Replaced = "runner"
         /\ Migration!Lost = Migration!NameThrown
<1>1. pass.job # "split" /\ ~pass.bad /\ ~pass.cut
  BY MovingHas DEF MovedPass
<1>2. pass.job = "naming" /\ pass.pc \notin SplitOnly
  BY <1>1, MigrationHas DEF JobFits
<1> QED
  BY <1>1, <1>2, MovedThrown DEF Migration!Aside, Migration!Replaced

\* The journal's entry says of the copy what the journal says.
LEMMA EntryHas ==
  ASSUME MigrationInv, NEW n, n = Migration!Entry
  PROVE  /\ n.phase = "ready" <=> names.phase = "ready"
         /\ CopyDone(n) <=> CopyDone(names)
         /\ \A b, v : Labelled(b, v, n) <=> Labelled(b, v, names)
         /\ \A b, v, w : OldHas(b, v, n, w) <=> OldHas(b, v, names, w)
         /\ \A b, v, w : NewHas(b, v, n, w) <=> NewHas(b, v, names, w)
<1>1. (n.phase = "ready" <=> names.phase = "ready") /\ n.listed = names.listed
  BY VolumesHave DEF Journals, Migration!Entry
<1>2. CopyDone(n) <=> CopyDone(names)
  BY <1>1 DEF CopyDone
<1> QED
  BY <1>1, <1>2 DEF Labelled, OldHas, NewHas

\* The runner that is found to be moved is the only container that may run.
LEMMA MovingFound ==
  ASSUME MovingInv, MigrationInv, pass.pc = "names", Migration!Owned # "none",
         Migration!Owned = "runner" => Migration!NeedsNaming,
         boxes[Migration!Previous] = None
  PROVE  /\ ~Migration!Current /\ ~Used(boxes, "new")
         /\ ~NewHas(boxes, volumes, names, written)
         /\ \A q \in Migration!Places \ {Migration!Owned} : boxes[q] # None => ~boxes[q].up
<1>1. PICK at \in {"runner", "former"} : at = Migration!Owned
  BY MovedOwned
<1>2. boxes[at] # None /\ (at = "former" => boxes["runner"] = None)
  BY <1>1 DEF Migration!Owned
<1>3. MovedBoxes(boxes) /\ Labelled(boxes, volumes, names)
  BY MovingHas
<1>4. Lies(boxes, at, "old")
  BY <1>1, <1>2, <1>3, MovedPlaces DEF Lies, MovedBoxes, Migration!NeedsNaming
<1>5. ~Migration!Current
  BY <1>1, <1>4 DEF Lies, Migration!Current
<1>6. ~Used(boxes, "new")
  BY <1>1, <1>3, <1>4 DEF Lies, Labelled
<1>7. ~NewHas(boxes, volumes, names, written)
  BY <1>1, <1>4 DEF Lies, NewHas
<1>8. boxes["dev"] # None => ~boxes["dev"].up
  BY <1>1, <1>2, <1>4, MovingHas DEF Copying
<1>9. \A q \in Migration!Places \ {at} : boxes[q] # None => ~boxes[q].up
  BY <1>1, <1>2, <1>3, <1>8 DEF MovedBoxes
<1> QED
  BY <1>1, <1>5, <1>6, <1>7, <1>9

LEMMA NoVolume ==
  ASSUME MovingInv, MigrationInv, ~Used(boxes, "old"), ~Used(boxes, "new")
  PROVE  Nobody(boxes)
BY MigrationHas DEF Used, Lies, Nobody, Boxes, Migration!Container

\* A pass ahead of a move.
LEMMA AheadAt ==
  ASSUME NEW p, NEW b, NEW v, NEW n, NEW w, NEW t, p.job = "naming", ~p.cut, ~p.bad,
         p.copies, p.pc \in {"stop"} \cup NamingOnly, ~p.renamed, MovedBoxes(b), Labelled(b, v, n),
         ~Used(b, "new"), Copying(p, b, v, n), t \/ OldHas(b, v, n, w)
  PROVE  MovingAt(p, b, v, n, w, t)
<1> USE DEF InJob, Ahead, After, Undoing, Restoring, NamingOnly
<1>1. MovedPass(p) /\ Making(p, b, n) /\ OldAt(p, b) /\ ~Closing(p)
  BY DEF MovedPass, Unheld, Making, Creates, OldAt, Closing
<1>2. ~Lies(b, "dev", "new")
  BY MovedPlaces DEF Used
<1>3. Replacing(p, b, v, n)
  BY <1>2 DEF Replacing
<1>4. t \/ Shown(p, b, v, n, w)
  BY <1>1 DEF Shown
<1> QED
  BY <1>1, <1>3, <1>4 DEF MovingAt

LEMMA NotNone == "none" \notin Migration!Places
BY DEF Migration!Places, Migration!Names, Migration!Before, Migration!Previous

LEMMA NamesBeginMoving ==
  ASSUME MovingInv, MigrationInv, Migration!NamesBegin
  PROVE  MovingInv'
<1>1. UNCHANGED <<boxes, volumes, written, torn>> /\ pass.pc = "names" /\ ~pass.bad
  BY MovingHas DEF Migration!NamesBegin, Migration!disk, Migration!At, MovedPass
<1>2. /\ MovedBoxes(boxes) /\ Labelled(boxes, volumes, names) /\ MovedPass(pass)
      /\ pass \in PassRecords
  BY MovingHas, MigrationHas
<1>3. PICK n : n = Migration!Entry
  OBVIOUS
<1>4. torn \/ OldHas(boxes, volumes, names, written)
           \/ (NewHas(boxes, volumes, names, written) /\ ~pass.hold)
  BY <1>1, MovingHas DEF Shown, NewAt
<1>5. CASE pass' = Migration!NameThrown /\ names' = n
  <2>1. MovingAt(pass', boxes, volumes, n, written, torn)
    BY <1>2, <1>3, <1>4, <1>5, EntryHas, MovedThrown, ThrownAt
  <2> QED
    BY <1>1, <1>5, <2>1 DEF MovingInv
<1>6. ASSUME NEW pc, boxes[Migration!Previous] = None, ~Migration!Present(Migration!Previous),
             pass' = [[pass EXCEPT !.job = "naming", !.at = Migration!Owned, !.renamed = FALSE,
                         !.cut = FALSE, !.copies = ~Migration!Current,
                         !.found = IF Migration!Owned = "none" THEN None
                                   ELSE boxes[Migration!Owned],
                         !.start = Migration!Owned # "none" /\ boxes[Migration!Owned].up
                                   /\ pass.active] EXCEPT !.pc = pc],
             \/ /\ Migration!Current \/ (~Migration!Foreign /\ volumes["new"].made)
                /\ pc = IF Migration!Owned # "none" THEN "stop"
                        ELSE IF Migration!Current THEN "held" ELSE "copy"
                /\ names' = n
             \/ /\ ~Migration!Current /\ ~Migration!Foreign /\ ~volumes["new"].made
                /\ pc = "volume" /\ names' = [phase |-> "copying", listed |-> TRUE]
      PROVE  MovingInv'
  <2>1. PICK copies \in BOOLEAN : copies = ~Migration!Current
    OBVIOUS
  <2>0. PICK at, found, on : /\ at = Migration!Owned
                             /\ found = (IF Migration!Owned = "none" THEN None
                                         ELSE boxes[Migration!Owned])
                             /\ on = (/\ Migration!Owned # "none"
                                      /\ boxes[Migration!Owned].up /\ pass.active)
    OBVIOUS
  <2>8. PICK off : off = FALSE
    OBVIOUS
  <2>11. PICK r : r = [pass EXCEPT !.job = "naming", !.at = at, !.renamed = off, !.cut = off,
                                   !.copies = copies, !.found = found, !.start = on]
    OBVIOUS
  <2>12. PICK p : p = [r EXCEPT !.pc = pc]
    OBVIOUS
  <2>9. /\ p.pc = pc /\ p.job = "naming" /\ p.at = at /\ p.found = found /\ p.renamed = off
        /\ p.cut = off /\ p.copies = copies /\ p.hold = pass.hold /\ p.bad = pass.bad
    <3>1. /\ r.job = "naming" /\ r.at = at /\ r.found = found /\ r.renamed = off
          /\ r.cut = off /\ r.copies = copies /\ r.hold = pass.hold /\ r.bad = pass.bad
      BY <1>2, <2>11 DEF PassRecords
    <3>2. /\ p.job = r.job /\ p.at = r.at /\ p.found = r.found /\ p.renamed = r.renamed
          /\ p.cut = r.cut /\ p.copies = r.copies /\ p.hold = r.hold /\ p.bad = r.bad
          /\ p.pc = pc
      BY <1>2, <2>11, <2>12 DEF PassRecords
    <3> QED
      BY <3>1, <3>2
  <2>10. pass' = p
    BY <1>6, <2>0, <2>1, <2>8, <2>11, <2>12
  <2>2. /\ pass'.pc = pc /\ pass'.job = "naming" /\ pass'.at = Migration!Owned
        /\ pass'.found = (IF Migration!Owned = "none" THEN None ELSE boxes[Migration!Owned])
        /\ ~pass'.renamed /\ ~pass'.cut /\ pass'.copies = copies /\ pass'.hold = pass.hold
        /\ pass'.bad = pass.bad
    BY <2>0, <2>8, <2>9, <2>10
  <2>3. Migration!Owned # "none" =>
          /\ ~Migration!Current /\ ~Used(boxes, "new")
          /\ ~NewHas(boxes, volumes, names, written)
          /\ boxes[Migration!Owned] # None
          /\ \A q \in Migration!Places \ {Migration!Owned} : boxes[q] # None => ~boxes[q].up
    BY <1>1, <1>6, MovingFound, MovedOwned DEF Migration!NamesBegin
  <2>4. CASE pc = "stop" /\ Migration!Owned # "none" /\ names' = n /\ volumes["new"].made
    <3>1. Copying(pass', boxes, volumes, n)
      BY <2>2, <2>3, <2>4, MovingHas DEF Copying, NamingOnly, Ahead
    <3>2. torn \/ OldHas(boxes, volumes, n, written)
      BY <1>3, <1>4, <2>3, <2>4, EntryHas
    <3>3. MovingAt(pass', boxes, volumes, n, written, torn)
      BY <1>1, <1>2, <1>3, <2>1, <2>2, <2>3, <2>4, <3>1, <3>2, EntryHas, AheadAt
    <3> QED
      BY <1>1, <2>4, <3>3 DEF MovingInv
  <2>5. CASE pc = "volume" /\ ~volumes["new"].made
    <3>0. PICK yes \in BOOLEAN : yes = TRUE
      OBVIOUS
    <3>1. PICK m : m = [phase |-> "copying", listed |-> yes]
      OBVIOUS
    <3>2. names' = m /\ m.phase = "copying" /\ m.listed /\ ~Migration!Current /\ ~Migration!Foreign
      BY <1>6, <2>4, <2>5, <3>0, <3>1
    <3>3. ~CopyDone(names) /\ ~CopyDone(m) /\ ~Used(boxes, "new")
      BY <1>2, <2>5, <3>2 DEF CopyDone, Labelled
    <3>4. Labelled(boxes, volumes, m)
      BY <1>2, <3>2, <3>3 DEF Labelled
    <3>5. Migration!Owned = "none" => Nobody(boxes)
      <4>1. Migration!Owned = "none" => ~Used(boxes, "old")
        BY <3>2, NotNone DEF Migration!Foreign, Used, Lies, Migration!Present
      <4> QED
        BY <3>3, <4>1, NoVolume
    <3>6. Copying(pass', boxes, volumes, m)
      BY <2>2, <2>3, <2>5, <3>2, <3>3, <3>5 DEF Copying, NamingOnly, Ahead, Nobody
    <3>7. torn \/ OldHas(boxes, volumes, m, written)
      BY <1>4, <3>3 DEF OldHas, NewHas
    <3>8. MovingAt(pass', boxes, volumes, m, written, torn)
      BY <1>1, <1>2, <2>1, <2>2, <2>5, <3>2, <3>3, <3>4, <3>6, <3>7, AheadAt DEF NamingOnly
    <3> QED
      BY <1>1, <3>2, <3>8 DEF MovingInv
  <2>6. CASE /\ Migration!Owned = "none" /\ names' = n
             /\ \/ pc = "held" /\ Migration!Current
                \/ pc = "copy" /\ ~Migration!Current /\ ~Migration!Foreign /\ volumes["new"].made
    <3>1. NoRunner(boxes)
      BY <2>6 DEF NoRunner, Migration!Owned
    <3>2. Migration!Current => CopyDone(n)
      BY <1>2, <1>3, <2>6 DEF Migration!Current, CopyDone, Labelled
    <3>3. CASE pc = "held"
      <4>1. Migration!Current
        BY <2>6, <3>3
      <4>2. MovedPass(pass')
        BY <1>1, <1>2, <2>2, <3>3
        DEF MovedPass, Unheld, InJob, Ahead, After, Undoing, Restoring, NamingOnly
      <4>3. OldHas(boxes, volumes, n, written) => Nobody(boxes)
        BY <1>2, <1>6, <3>1, MigrationHas DEF OldHas, Nobody, NoRunner, MovedBoxes
      <4>4. /\ Labelled(boxes, volumes, n)
            /\ torn \/ (OldHas(boxes, volumes, n, written) /\ Nobody(boxes))
                    \/ NewHas(boxes, volumes, n, written)
        BY <1>2, <1>3, <1>4, <4>3, EntryHas
      <4>5. MovingAt(pass', boxes, volumes, n, written, torn)
        BY <1>1, <1>2, <2>2, <3>2, <3>3, <4>1, <4>2, <4>4, RestAt
      <4> QED
        BY <1>1, <2>6, <4>5 DEF MovingInv
    <3>4. CASE pc = "copy"
      <4>1. ~Migration!Current /\ ~Migration!Foreign /\ volumes["new"].made
        BY <2>6, <3>4
      <4>2. ~CopyDone(n) /\ ~Used(boxes, "new")
        BY <1>2, <1>3, <2>6, <4>1, EntryHas DEF Migration!Current, CopyDone, Labelled
      <4>3. ~Used(boxes, "old")
        BY <2>6, <4>1, NotNone DEF Migration!Foreign, Used, Lies, Migration!Present
      <4>4. Nobody(boxes)
        BY <4>2, <4>3, NoVolume
      <4>5. Copying(pass', boxes, volumes, n)
        BY <2>2, <3>4, <4>1, <4>2, <4>4 DEF Copying, NamingOnly, Ahead, Nobody, OldStands, Lies
      <4>6. torn \/ OldHas(boxes, volumes, n, written)
        BY <1>3, <1>4, <4>2, EntryHas DEF NewHas
      <4>7. MovingAt(pass', boxes, volumes, n, written, torn)
        BY <1>1, <1>2, <1>3, <2>1, <2>2, <3>4, <4>1, <4>2, <4>5, <4>6, EntryHas, AheadAt
        DEF NamingOnly
      <4> QED
        BY <1>1, <2>6, <4>7 DEF MovingInv
    <3> QED
      BY <2>6, <3>3, <3>4
  <2>7. \/ /\ pc = "stop" /\ Migration!Owned # "none" /\ names' = n /\ volumes["new"].made
        \/ pc = "volume" /\ ~volumes["new"].made
        \/ /\ Migration!Owned = "none" /\ names' = n
           /\ \/ pc = "held" /\ Migration!Current
              \/ pc = "copy" /\ ~Migration!Current /\ ~Migration!Foreign /\ volumes["new"].made
    BY <1>6, <2>3
  <2> QED
    BY <2>4, <2>5, <2>6, <2>7
<1> QED
  <2>1. Migration!Present(Migration!Previous) <=> boxes[Migration!Previous] # None
    BY DEF Migration!Present, Migration!Previous
  <2> QED
    BY <1>3, <1>5, <1>6, <2>1 DEF Migration!NamesBegin

\* A command that went well, or failed with its effect or without.
LEMMA CommandEnds ==
  ASSUME MigrationInv, NEW new, NEW next, NEW catch, Migration!Command(new, next, catch)
  PROVE  \/ pass' = next /\ boxes' = new /\ torn' = torn /\ fails' = fails
         \/ /\ \E u : pass' = [catch EXCEPT !.unclear = u]
            /\ boxes' \in {boxes, new} /\ torn' = (torn \/ pass.pc \in Migration!Settled)
            /\ fails' # fails
<1>1. PICK ok \in Migration!Outcomes : Migration!Command(new, next, catch)!(ok)
  BY DEF Migration!Command
<1>2. ok \in BOOLEAN /\ fails \in Nat
  <2>1. fails \in 0..MaxFails
    BY MigrationHas
  <2>2. fails \in Nat
    BY <2>1, MigrationConstants
  <2> QED
    BY <2>2 DEF Migration!Outcomes
<1>3. CASE ok
  BY <1>1, <1>2, <1>3, MigrationHas
<1>4. CASE ~ok
  <2>1. PICK u : u = (catch.unclear \/ (boxes' # boxes /\ pass.pc \in Migration!Unnoticed))
    OBVIOUS
  <2>2. pass' = [catch EXCEPT !.unclear = u]
    BY <1>1, <1>4, <2>1
  <2>3. boxes' \in {boxes, new} /\ torn' = (torn \/ pass.pc \in Migration!Settled)
    BY <1>1, <1>4
  <2>4. fails' = fails + 1
    BY <1>1, <1>4
  <2>5. fails' # fails
    BY <1>2, <2>4
  <2>6. \E x : pass' = [catch EXCEPT !.unclear = x]
    BY <2>2
  <2> QED
    BY <2>3, <2>5, <2>6, Zenon
<1> QED
  BY <1>2, <1>3, <1>4

LEMMA UnclearAt ==
  ASSUME NEW p \in PassRecords, NEW u, NEW q, q = [p EXCEPT !.unclear = u], NEW b, NEW v, NEW n,
         NEW w, NEW t, MovingAt(p, b, v, n, w, t)
  PROVE  MovingAt(q, b, v, n, w, t)
<1>1. /\ q.pc = p.pc /\ q.job = p.job /\ q.cut = p.cut /\ q.then = p.then /\ q.bad = p.bad
      /\ q.hold = p.hold /\ q.copies = p.copies /\ q.at = p.at /\ q.found = p.found
      /\ q.renamed = p.renamed /\ q.active = p.active /\ q.request = p.request
  BY DEF PassRecords
<1> QED
  BY <1>1
  DEF MovingAt, MovedPass, Unheld, Copying, Replacing, Making, Creates, Shown, OldAt, NewAt,
      Closing

\* A pass that undoes what it did before the original was renamed, or after it is back.
LEMMA UndoAt ==
  ASSUME NEW p, NEW b, NEW v, NEW n, NEW w, NEW t, p.job = "naming", ~p.cut, ~p.bad,
         p.pc \in {"remove", "back"} \cup Restoring, p.pc \in {"remove", "back"} => ~p.renamed,
         MovedBoxes(b), Labelled(b, v, n), ~Used(b, "new"), t \/ OldHas(b, v, n, w)
  PROVE  MovingAt(p, b, v, n, w, t)
<1> USE DEF InJob, Ahead, After, Undoing, Restoring, NamingOnly
<1>1. /\ MovedPass(p) /\ Making(p, b, n) /\ OldAt(p, b) /\ ~Closing(p) /\ Copying(p, b, v, n)
  BY DEF MovedPass, Unheld, Making, Creates, OldAt, Closing, Copying
<1>2. ~Lies(b, "dev", "new") /\ ~Lies(b, "runner", "new")
  BY MovedPlaces DEF Used
<1>3. Replacing(p, b, v, n)
  BY <1>2 DEF Replacing
<1>4. t \/ Shown(p, b, v, n, w)
  BY <1>1 DEF Shown
<1> QED
  BY <1>1, <1>3, <1>4 DEF MovingAt

\* Where the volume is made and copied.
LEMMA NamingHere ==
  ASSUME MovingInv, MigrationInv, pass.pc \in NamingOnly
  PROVE  /\ pass.job = "naming" /\ ~pass.bad /\ ~pass.cut /\ ~pass.renamed /\ pass.copies
         /\ MovedBoxes(boxes) /\ Labelled(boxes, volumes, names) /\ ~Used(boxes, "new")
         /\ pass.found = None => Nobody(boxes)
         /\ torn \/ OldHas(boxes, volumes, names, written)
         /\ pass.pc \notin Migration!Settled /\ pass \in PassRecords
<1>1. pass.pc \in Ahead /\ pass.pc \in InJob
  BY DEF InJob, Ahead
<1>2. pass.job = "naming" /\ ~pass.bad /\ ~pass.cut /\ ~pass.renamed /\ pass.copies
  BY <1>1, MovingHere, MovingHas, NamingHas DEF MovedPass
<1>3. MovedBoxes(boxes) /\ Labelled(boxes, volumes, names)
  BY MovingHas
<1>4. ~Used(boxes, "new") /\ (pass.found = None => Nobody(boxes))
  BY <1>1, MovingHas DEF Copying
<1>5. torn \/ OldHas(boxes, volumes, names, written)
  BY <1>1, MovingHas DEF Shown, NewAt, NamingOnly
<1>6. pass.pc \notin Migration!Settled
  BY DEF Migration!Settled, NamingOnly
<1> QED
  BY <1>2, <1>3, <1>4, <1>5, <1>6, MigrationHas

\* A pass that goes on to another step of the copy.
LEMMA NamingTo ==
  ASSUME MovingInv, MigrationInv, pass.pc \in NamingOnly, NEW pc \in {"stop"} \cup NamingOnly,
         NEW v, NEW n, Labelled(boxes, v, n), Copying(Migration!To(pc), boxes, v, n),
         torn \/ OldHas(boxes, v, n, written)
  PROVE  MovingAt(Migration!To(pc), boxes, v, n, written, torn)
<1>1. PICK p : p = Migration!To(pc)
  OBVIOUS
<1>2. /\ p.pc = pc /\ p.job = pass.job /\ p.cut = pass.cut /\ p.bad = pass.bad
      /\ p.renamed = pass.renamed /\ p.copies = pass.copies
  BY <1>1, MigrationHas DEF PassRecords, Migration!To
<1> QED
  BY <1>1, <1>2, NamingHere, AheadAt

\* An error while the volume is copied.
LEMMA NamingCatch ==
  ASSUME MovingInv, MigrationInv, pass.pc \in NamingOnly, NEW v, NEW n, Labelled(boxes, v, n),
         torn \/ OldHas(boxes, v, n, written)
  PROVE  /\ MovingAt(Migration!NameThrown, boxes, v, n, written, torn)
         /\ MovingAt(Migration!CopyCatch, boxes, v, n, written, torn)
<1>1. MovingAt(Migration!NameThrown, boxes, v, n, written, torn)
  BY NamingHere, MovedThrown, ThrownAt
<1>2. PICK p : p = Migration!To("remove")
  OBVIOUS
<1>3. /\ p.pc = "remove" /\ p.job = pass.job /\ p.cut = pass.cut /\ p.bad = pass.bad
      /\ p.renamed = pass.renamed
  BY <1>2, MigrationHas DEF PassRecords, Migration!To
<1>4. MovingAt(p, boxes, v, n, written, torn)
  BY <1>3, NamingHere, UndoAt
<1> QED
  BY <1>1, <1>2, <1>4 DEF Migration!CopyCatch

\* A command of the copy, which changes no container.
LEMMA NamingCommand ==
  ASSUME MovingInv, MigrationInv, pass.pc \in NamingOnly, written' = written, NEW next,
         NEW catch \in PassRecords, Migration!Command(boxes, next, catch),
         fails' = fails => MovingAt(next, boxes, volumes', names', written, torn),
         fails' # fails => MovingAt(catch, boxes, volumes', names', written, torn)
  PROVE  MovingInv'
<1>1. \/ pass' = next /\ boxes' = boxes /\ torn' = torn /\ fails' = fails
      \/ /\ \E u : pass' = [catch EXCEPT !.unclear = u]
         /\ boxes' = boxes /\ torn' = torn /\ fails' # fails
  <2>1. torn' = (torn \/ pass.pc \in Migration!Settled) => torn' = torn
    BY NamingHere, MigrationHas
  <2> QED
    BY <2>1, CommandEnds
<1>2. CASE fails' = fails
  BY <1>1, <1>2 DEF MovingInv
<1>3. CASE fails' # fails
  <2>1. PICK u : pass' = [catch EXCEPT !.unclear = u]
    BY <1>1, <1>3
  <2>2. MovingAt(pass', boxes, volumes', names', written, torn)
    BY <1>3, <2>1, UnclearAt
  <2> QED
    BY <1>1, <1>3, <2>2 DEF MovingInv
<1> QED
  BY <1>2, <1>3

LEMMA MakeVolumeMoving ==
  ASSUME MovingInv, MigrationInv, Migration!MakeVolume
  PROVE  MovingInv'
<1>1. /\ pass.pc = "volume" /\ pass.pc \in NamingOnly /\ written' = written /\ names' = names
  BY DEF Migration!MakeVolume, Migration!At, NamingOnly, Migration!journals
<1>2. names.phase = "copying" /\ ~CopyDone(names)
  BY <1>1, MovingHas DEF Copying, CopyDone
<1>3. PICK yes \in BOOLEAN : yes = TRUE
  OBVIOUS
<1>4. PICK made : made = [made |-> yes, migrated |-> yes, work |-> {}]
  OBVIOUS
<1>5. PICK v : v = [volumes EXCEPT !["new"] = made]
  OBVIOUS
<1>6. volumes' \in {v, volumes} /\ (fails' = fails => volumes' = v)
  BY <1>3, <1>4, <1>5 DEF Migration!MakeVolume
<1>7. /\ v["old"] = volumes["old"] /\ v["new"].made /\ v["new"].migrated
  BY <1>3, <1>4, <1>5, VolumesHave DEF Volumes
<1>8. /\ Labelled(boxes, v, names) /\ Labelled(boxes, volumes, names)
      /\ torn \/ OldHas(boxes, v, names, written)
      /\ torn \/ OldHas(boxes, volumes, names, written)
  BY <1>1, <1>2, <1>7, NamingHere DEF Labelled, OldHas, Holds
<1>9. PICK pc : pc = (IF pass.found = None THEN "copy" ELSE "stop")
  OBVIOUS
<1>10. Migration!Command(boxes, Migration!To(pc), Migration!NameThrown)
  BY <1>9 DEF Migration!MakeVolume
<1>11. Copying(Migration!To(pc), boxes, v, names)
  <2>1. /\ Migration!To(pc).pc = pc /\ Migration!To(pc).found = pass.found
        /\ Migration!To(pc).at = pass.at
    BY MigrationHas DEF PassRecords, Migration!To
  <2>2. \A q \in Migration!Places \ {pass.at} : boxes[q] # None => ~boxes[q].up
    BY <1>1, MovingHas DEF Copying
  <2>3. pass.found = None => Nobody(boxes)
    BY <1>1, NamingHere
  <2>4. pass.found = None => OldStands(boxes)
    BY <2>3 DEF Nobody, OldStands, Lies
  <2> QED
    BY <1>1, <1>2, <1>7, <1>9, <2>1, <2>2, <2>3, <2>4, NamingHere DEF Copying, NamingOnly
<1>12. MovingAt(Migration!To(pc), boxes, v, names, written, torn)
  BY <1>1, <1>8, <1>9, <1>11, NamingTo DEF NamingOnly
<1>13. /\ MovingAt(Migration!NameThrown, boxes, v, names, written, torn)
       /\ MovingAt(Migration!NameThrown, boxes, volumes, names, written, torn)
  BY <1>1, <1>8, NamingCatch
<1> QED
  BY <1>1, <1>6, <1>10, <1>12, <1>13, MovedThrown, NamingCommand

LEMMA CopyMoving ==
  ASSUME MovingInv, MigrationInv, Migration!Copy
  PROVE  MovingInv'
<1>1. /\ pass.pc = "copy" /\ pass.pc \in NamingOnly /\ written' = written
  BY DEF Migration!Copy, Migration!At, NamingOnly
<1>2. volumes["new"].made /\ OldStands(boxes) /\ pass.copies
  BY <1>1, NamingHere, MovingHas DEF Copying
<1>3. PICK yes \in BOOLEAN : yes = TRUE
  OBVIOUS
<1>4. PICK n : n = [phase |-> "copying", listed |-> yes]
  OBVIOUS
<1>5. PICK v : v = [volumes EXCEPT !["new"].work = {}]
  OBVIOUS
<1>6. /\ volumes' = v /\ names' = n
      /\ Migration!Command(boxes, Migration!To("copying"), Migration!CopyCatch)
  BY <1>2, <1>3, <1>4, <1>5 DEF Migration!Copy
<1>7. /\ v["old"] = volumes["old"] /\ v["new"].made = volumes["new"].made
      /\ v["new"].migrated = volumes["new"].migrated
  BY <1>5, VolumesHave DEF Volumes, Migration!Volume
<1>8. n.phase = "copying" /\ n.listed /\ ~CopyDone(n)
  BY <1>3, <1>4 DEF CopyDone
<1>9. /\ Labelled(boxes, v, n)
      /\ torn \/ OldHas(boxes, v, n, written)
  BY <1>1, <1>7, <1>8, NamingHere DEF Labelled, OldHas, Holds
<1>10. Copying(Migration!To("copying"), boxes, v, n)
  <2>1. Migration!To("copying").pc = "copying" /\ Migration!To("copying").found = pass.found
    BY MigrationHas DEF PassRecords, Migration!To
  <2> QED
    BY <1>1, <1>2, <1>7, <1>8, <2>1, NamingHere DEF Copying, NamingOnly
<1>11. MovingAt(Migration!To("copying"), boxes, v, n, written, torn)
  BY <1>1, <1>9, <1>10, NamingTo DEF NamingOnly
<1>12. MovingAt(Migration!CopyCatch, boxes, v, n, written, torn)
  BY <1>1, <1>9, NamingCatch
<1> QED
  BY <1>1, <1>6, <1>11, <1>12, CopyCatchFits, NamingCommand

LEMMA CopyEndMoving ==
  ASSUME MovingInv, MigrationInv, Migration!CopyEnd
  PROVE  MovingInv'
<1>1. /\ pass.pc = "copying" /\ pass.pc \in NamingOnly
      /\ UNCHANGED <<boxes, written, names, torn>> /\ pass' = Migration!To("verify")
  BY DEF Migration!CopyEnd, Migration!At, NamingOnly, Migration!journals, Migration!Goto
<1>2. /\ volumes["new"].made /\ OldStands(boxes) /\ names.phase = "copying" /\ names.listed
  BY <1>1, MovingHas DEF Copying
<1>3. PICK work : work = volumes["old"].work
  OBVIOUS
<1>4. volumes' = [volumes EXCEPT !["new"].work = work]
  BY <1>3 DEF Migration!CopyEnd
<1>5. /\ volumes'["old"] = volumes["old"] /\ volumes'["new"].made = volumes["new"].made
      /\ volumes'["new"].migrated = volumes["new"].migrated
  BY <1>4, VolumesHave DEF Volumes, Migration!Volume
<1>6. Labelled(boxes, volumes', names) /\ (torn \/ OldHas(boxes, volumes', names, written))
  BY <1>1, <1>2, <1>5, NamingHere DEF Labelled, OldHas, Holds, CopyDone
<1>7. Copying(Migration!To("verify"), boxes, volumes', names)
  <2>1. Migration!To("verify").pc = "verify" /\ Migration!To("verify").found = pass.found
    BY MigrationHas DEF PassRecords, Migration!To
  <2> QED
    BY <1>1, <1>2, <1>5, <2>1, NamingHere DEF Copying, NamingOnly
<1>8. MovingAt(pass', boxes, volumes', names, written, torn)
  BY <1>1, <1>6, <1>7, NamingTo DEF NamingOnly
<1> QED
  BY <1>1, <1>8 DEF MovingInv

LEMMA VerifyMoving ==
  ASSUME MovingInv, MigrationInv, Migration!Verify
  PROVE  MovingInv'
<1>1. /\ pass.pc = "verify" /\ pass.pc \in NamingOnly /\ UNCHANGED <<volumes, written>>
  BY DEF Migration!Verify, Migration!At, NamingOnly
<1>2. /\ volumes["new"].made /\ OldStands(boxes) /\ names.phase = "copying" /\ names.listed
  BY <1>1, MovingHas DEF Copying
<1>3. MovingAt(Migration!CopyCatch, boxes, volumes, names, written, torn)
  BY <1>1, NamingHere, NamingCatch
<1>4. CASE volumes["new"].work # volumes["old"].work
  <2>1. pass' = Migration!CopyCatch /\ UNCHANGED <<boxes, torn, names>>
    BY <1>4 DEF Migration!Verify, Migration!Skip
  <2> QED
    BY <1>1, <1>3, <2>1 DEF MovingInv
<1>5. CASE volumes["new"].work = volumes["old"].work
  <2>1. PICK n : n = [names EXCEPT !.phase = "ready"]
    OBVIOUS
  <2>2. /\ Migration!Command(boxes, Migration!CopyNext, Migration!CopyCatch)
        /\ names' = IF fails' = fails THEN n ELSE names
    BY <1>5, <2>1 DEF Migration!Verify
  <2>3. n.phase = "ready" /\ n.listed /\ CopyDone(n)
    BY <1>2, <2>1, VolumesHave DEF Journals, CopyDone
  <2>4. Labelled(boxes, volumes, n) /\ (torn \/ OldHas(boxes, volumes, n, written))
    BY <1>1, <1>2, <1>5, <2>3, NamingHere DEF Labelled, OldHas, Holds
  <2>5. \A pc : /\ Migration!To(pc).pc = pc /\ Migration!To(pc).found = pass.found
                /\ Migration!To(pc).job = pass.job /\ Migration!To(pc).cut = pass.cut
                /\ Migration!To(pc).bad = pass.bad /\ Migration!To(pc).copies = pass.copies
                /\ Migration!To(pc).renamed = pass.renamed
    BY MigrationHas DEF PassRecords, Migration!To
  <2>6. MovingAt(Migration!CopyNext, boxes, volumes, n, written, torn)
    <3>1. CASE pass.found = None
      <4>1. PICK p : p = Migration!To("held")
        OBVIOUS
      <4>2. MovedPass(p) /\ p.pc = "held" /\ ~p.bad
        BY <1>1, <2>5, <4>1, NamingHere
        DEF MovedPass, Unheld, InJob, Ahead, After, Undoing, Restoring, NamingOnly
      <4>3. MovingAt(p, boxes, volumes, n, written, torn)
        BY <1>1, <2>3, <2>4, <3>1, <4>2, NamingHere, RestAt
      <4> QED
        BY <3>1, <4>1, <4>3 DEF Migration!CopyNext
    <3>2. CASE pass.found # None
      <4>1. PICK p : p = Migration!To("rename")
        OBVIOUS
      <4>2. /\ p.pc = "rename" /\ p.job = "naming" /\ ~p.cut /\ ~p.bad /\ p.copies /\ ~p.renamed
        BY <1>1, <2>5, <4>1, NamingHere
      <4>3. Still(boxes)
        BY <1>1, <1>2, NamingHere, MigrationHas
        DEF Still, OldStands, Used, Lies, Boxes, Migration!Container
      <4>4. ~Used(boxes, "new") /\ MovedBoxes(boxes)
        BY <1>1, NamingHere
      <4>5. ~Lies(boxes, "dev", "new")
        BY <4>4, MovedPlaces DEF Used
      <4>6. /\ MovedPass(p) /\ Making(p, boxes, n) /\ OldAt(p, boxes)
            /\ Copying(p, boxes, volumes, n) /\ Replacing(p, boxes, volumes, n)
        BY <1>2, <1>5, <2>3, <4>2, <4>4, <4>5
        DEF MovedPass, Unheld, Making, Creates, OldAt, Copying, Replacing, InJob, Ahead, After,
            Undoing, Restoring, NamingOnly
      <4>7. torn \/ Shown(p, boxes, volumes, n, written)
        BY <1>5, <2>4, <4>3, <4>6 DEF Shown, OldHas, Holds
      <4>8. MovingAt(p, boxes, volumes, n, written, torn)
        BY <2>4, <4>4, <4>6, <4>7 DEF MovingAt
      <4> QED
        BY <3>2, <4>1, <4>8 DEF Migration!CopyNext
    <3> QED
      BY <3>1, <3>2
  <2> QED
    BY <1>1, <1>3, <2>2, <2>6, CopyCatchFits, NamingCommand
<1> QED
  BY <1>4, <1>5

LEMMA OnlyOld ==
  ASSUME NEW b, MovedBoxes(b), ~Lies(b, "dev", "new"), ~Lies(b, "runner", "new")
  PROVE  ~Used(b, "new")
BY DEF MovedBoxes, Used, Lies

LEMMA ToSame ==
  ASSUME MigrationInv
  PROVE  \A pc : /\ Migration!To(pc).pc = pc /\ Migration!To(pc).found = pass.found
                 /\ Migration!To(pc).job = pass.job /\ Migration!To(pc).cut = pass.cut
                 /\ Migration!To(pc).bad = pass.bad /\ Migration!To(pc).copies = pass.copies
                 /\ Migration!To(pc).renamed = pass.renamed /\ Migration!To(pc).at = pass.at
                 /\ Migration!To(pc).hold = pass.hold
BY MigrationHas DEF PassRecords, Migration!To

\* An error where the rest cannot be undone.
LEMMA TornAt ==
  ASSUME MovingInv, MigrationInv, NEW b, MovedBoxes(b), Labelled(b, volumes, names),
         NEW t, t
  PROVE  MovingAt(Migration!NameThrown, b, volumes, names, written, t)
BY MovedThrown, ThrownAt

LEMMA StopFoundMoving ==
  ASSUME MovingInv, MigrationInv, Migration!StopFound
  PROVE  MovingInv'
<1>1. /\ pass.pc = "stop" /\ pass.pc \in InJob /\ pass.pc \in Ahead
      /\ UNCHANGED <<volumes, written, names>>
  BY DEF Migration!StopFound, Migration!At, InJob, Ahead, Migration!journals
<1>2. /\ pass.job = "naming" /\ ~pass.bad /\ ~pass.cut /\ pass.found # None
      /\ pass.at \in Migration!Names /\ ~pass.renamed /\ pass.copies
  BY <1>1, MovingHere, InMigration, MovingHas, MigrationHas DEF NamingOnly, JobFits, MovedPass
<1>3. boxes[pass.at] # None /\ (boxes[pass.at].up => pass.found.up)
  BY <1>1, <1>2, Found DEF FoundIsThere, IsFound
<1>4. /\ volumes["new"].made /\ ~Used(boxes, "new") /\ MovedBoxes(boxes)
      /\ \A q \in Migration!Places \ {pass.at} : boxes[q] # None => ~boxes[q].up
      /\ Labelled(boxes, volumes, names)
  BY <1>1, MovingHas DEF Copying
<1>5. torn \/ OldHas(boxes, volumes, names, written)
  BY <1>1, MovingHas DEF Shown, NewAt
<1>6. ASSUME NEW b, MovedBoxes(b), Labelled(b, volumes, names), ~Used(b, "new"), OldStands(b),
             torn \/ OldHas(b, volumes, names, written)
      PROVE  MovingAt(Migration!To("copy"), b, volumes, names, written, torn)
  <2>1. Copying(Migration!To("copy"), b, volumes, names)
    BY <1>2, <1>4, <1>6, ToSame DEF Copying, NamingOnly
  <2> QED
    BY <1>2, <1>6, <2>1, ToSame, AheadAt DEF NamingOnly
<1>7. CASE pass.found.up
  <2>0. PICK off \in BOOLEAN : off = FALSE
    OBVIOUS
  <2>1. PICK new : new = Migration!Switched(pass.at, off)
    OBVIOUS
  <2>2. PICK at \in Migration!Places : at = pass.at /\ at # Migration!Previous
    BY <1>2, PlacesApart DEF Migration!Previous
  <2>3. /\ Alike(boxes, new) /\ MovedBoxes(new) /\ Labelled(new, volumes, names)
        /\ \A p \in Migration!Places \ {at} : new[p] = boxes[p]
        /\ new[at].up = off
        /\ OldHas(boxes, volumes, names, written) => OldHas(new, volumes, names, written)
    BY <1>3, <2>1, <2>2, MovedSwitched
  <2>4. OldStands(new)
    BY <1>4, <2>0, <2>2, <2>3 DEF OldStands, Lies
  <2>5. ~Used(new, "new")
    BY <1>4, <2>3, AlikeHas
  <2>6. Migration!Command(new, Migration!To("copy"), Migration!To("remove"))
    BY <1>2, <1>7, <2>0, <2>1 DEF Migration!StopFound
  <2>7. PICK t : t = (torn \/ pass.pc \in Migration!Settled)
    OBVIOUS
  <2>8. /\ MovingAt(Migration!To("remove"), boxes, volumes, names, written, t)
        /\ MovingAt(Migration!To("remove"), new, volumes, names, written, t)
    BY <1>2, <1>4, <1>5, <2>3, <2>5, <2>7, ToSame, UndoAt
  <2>9. Migration!To("remove") \in PassRecords
    BY ToLike DEF Like, MigrationPlaces
  <2> QED
    BY <1>1, <1>5, <1>6, <2>3, <2>4, <2>5, <2>6, <2>7, <2>8, <2>9, MovingCommand, MigrationHas
<1>8. CASE ~pass.found.up
  <2>1. pass' = Migration!To("copy") /\ UNCHANGED <<boxes, torn>>
    BY <1>2, <1>8 DEF Migration!StopFound, Migration!Skip
  <2>2. OldStands(boxes)
    BY <1>3, <1>4, <1>8 DEF OldStands, Lies
  <2> QED
    BY <1>1, <1>4, <1>5, <1>6, <2>1, <2>2 DEF MovingInv
<1> QED
  BY <1>7, <1>8

LEMMA RenameMoving ==
  ASSUME MovingInv, MigrationInv, Migration!Rename
  PROVE  MovingInv'
<1>1. /\ pass.pc = "rename" /\ pass.pc \in InJob /\ pass.pc \in Ahead
      /\ UNCHANGED <<volumes, written, names>>
  BY DEF Migration!Rename, Migration!At, InJob, Ahead, Migration!journals
<1>2. /\ pass.job = "naming" /\ ~pass.bad /\ ~pass.cut /\ pass.found # None
      /\ pass.at \in {"runner", "former"} /\ ~pass.renamed /\ pass.copies
  BY <1>1, MovingHere, InMigration, MovingHas, MigrationHas
  DEF NamingOnly, JobFits, MovedPass, Migration!Names
<1>3. boxes[pass.at] # None
  BY <1>1, <1>2, Found DEF FoundIsThere, IsFound
<1>4. /\ OldStands(boxes) /\ ~Used(boxes, "new") /\ MovedBoxes(boxes)
      /\ volumes["old"].work \subseteq volumes["new"].work /\ CopyDone(names)
      /\ Labelled(boxes, volumes, names)
  BY <1>1, MovingHas DEF Copying, Replacing
<1>5. /\ torn \/ OldHas(boxes, volumes, names, written)
      /\ torn \/ (Holds(volumes, written, "old") /\ Holds(volumes, written, "new")
                  /\ Still(boxes))
  BY <1>1, MovingHas DEF Shown, NewAt, Closing
<1>6. PICK new : new = Migration!Moved(pass.at, Migration!Previous)
  OBVIOUS
<1>7. PICK at \in Migration!Places : at = pass.at /\ at # Migration!Previous
  BY <1>2, MovedPlaces DEF Migration!Previous
<1>8. /\ new \in Boxes /\ new[at] = None /\ new[Migration!Previous] = boxes[at]
      /\ \A r \in Migration!Places \ {at, Migration!Previous} : new[r] = boxes[r]
  BY <1>6, <1>7, MovedPlaces, MigrationHas, MovedHas
<1>9. Lies(boxes, at, "old") /\ ~boxes[at].up
  BY <1>3, <1>4, <1>7, MigrationHas DEF OldStands, Used, Lies, Boxes, Migration!Container
<1>10. MovedBoxes(new)
  BY <1>2, <1>4, <1>7, <1>8, <1>9 DEF MovedBoxes, Lies
<1>11. ~Used(new, "new") /\ Lies(new, Migration!Previous, "old")
  BY <1>4, <1>8, <1>9 DEF Used, Lies
<1>12. Labelled(new, volumes, names) /\ OldStands(new) /\ NoRunner(new)
  <2>1. Labelled(new, volumes, names)
    BY <1>4, <1>11 DEF Labelled
  <2>2. OldStands(new)
    BY <1>4, <1>8, <1>9 DEF OldStands, Lies
  <2>3. {"runner", "former"} \subseteq Migration!Places \ {Migration!Previous}
    BY MovedPlaces DEF Migration!Previous
  <2>4. NoRunner(new)
    BY <1>2, <1>3, <1>4, <1>7, <1>8, <2>3 DEF NoRunner, MovedBoxes
  <2> QED
    BY <2>1, <2>2, <2>4
<1>13. torn \/ OldHas(new, volumes, names, written)
  BY <1>5, <1>11, MovedPlaces DEF OldHas, Used, Lies
<1>14. Still(boxes) => Still(new)
  BY <1>8, <1>9 DEF Still
<1>15. PICK yes \in BOOLEAN : yes = TRUE
  OBVIOUS
<1>16. PICK p : p = [pass EXCEPT !.pc = "provision", !.renamed = yes]
  OBVIOUS
<1>17. /\ p.pc = "provision" /\ p.renamed = yes /\ p.job = pass.job /\ p.bad = pass.bad
       /\ p.cut = pass.cut
  BY <1>16, MigrationHas DEF PassRecords
<1>18. MovingAt(p, new, volumes, names, written, torn)
  <2>1. ~Lies(new, "dev", "new") /\ ~Lies(new, "runner", "new") /\ new[Migration!Previous] # None
    BY <1>11, MovedPlaces DEF Used, Lies
  <2>2. /\ MovedPass(p) /\ Making(p, new, names) /\ OldAt(p, new)
        /\ Copying(p, new, volumes, names) /\ Replacing(p, new, volumes, names)
    BY <1>2, <1>4, <1>12, <1>17, <2>1
    DEF MovedPass, Unheld, Making, Creates, OldAt, Copying, Replacing, InJob, Ahead, After,
        Undoing, Restoring, NamingOnly
  <2>3. torn \/ Shown(p, new, volumes, names, written)
    BY <1>5, <1>13, <1>14, <2>2 DEF Shown
  <2> QED
    BY <1>10, <1>12, <2>2, <2>3 DEF MovingAt
<1>19. Migration!Command(new, p, Migration!To("remove"))
  BY <1>1, <1>2, <1>6, <1>15, <1>16, MovingHere DEF Migration!Rename
<1>20. PICK t : t = (torn \/ pass.pc \in Migration!Settled)
  OBVIOUS
<1>21. /\ MovingAt(Migration!To("remove"), boxes, volumes, names, written, t)
       /\ MovingAt(Migration!To("remove"), new, volumes, names, written, t)
  BY <1>2, <1>4, <1>5, <1>10, <1>11, <1>12, <1>13, <1>20, ToSame, UndoAt
<1>22. Migration!To("remove") \in PassRecords
  BY ToLike DEF Like, MigrationPlaces
<1> QED
  BY <1>1, <1>18, <1>19, <1>20, <1>21, <1>22, MovingCommand, MigrationHas

\* Once the original is set aside.
LEMMA AfterHere ==
  ASSUME MovingInv, MigrationInv, pass.pc \in {"provision", "start", "drop"}
  PROVE  /\ pass.job = "naming" /\ ~pass.bad /\ ~pass.cut /\ pass.renamed
         /\ Migration!Aside = Migration!Previous /\ Migration!Replaced = "runner"
         /\ MovedBoxes(boxes) /\ Labelled(boxes, volumes, names) /\ CopyDone(names)
         /\ ~Lies(boxes, "dev", "new") /\ boxes[Migration!Previous] # None
         /\ OldStands(boxes) /\ volumes["old"].work \subseteq volumes["new"].work
         /\ pass.pc = "provision" => NoRunner(boxes)
         /\ pass.pc # "provision" => Lies(boxes, "runner", "new")
         /\ torn \/ Shown(pass, boxes, volumes, names, written)
<1>1. pass.pc \in InJob /\ pass.pc \in After
  BY DEF InJob, After
<1>2. pass.job = "naming" /\ ~pass.bad /\ ~pass.cut /\ pass.renamed
  BY <1>1, MovingHere, MigrationHas DEF JobFits
<1>3. /\ ~Lies(boxes, "dev", "new") /\ boxes[Migration!Previous] # None
      /\ OldStands(boxes) /\ volumes["old"].work \subseteq volumes["new"].work
      /\ CopyDone(names) /\ (pass.pc = "provision" => NoRunner(boxes))
      /\ pass.pc # "provision" => Lies(boxes, "runner", "new")
  BY <1>1, <1>2, MovingHas DEF Replacing
<1> QED
  BY <1>1, <1>2, <1>3, MovingHas, MovingHere

\* The rollback once the original is set aside.
LEMMA RemoveAt ==
  ASSUME NEW p, NEW b, NEW v, NEW n, NEW w, NEW t, p.job = "naming", ~p.cut, ~p.bad,
         p.pc = "remove", p.renamed, MovedBoxes(b), Labelled(b, v, n),
         ~Lies(b, "dev", "new"), b[Migration!Previous] # None, b["former"] = None,
         t \/ (/\ OldHas(b, v, n, w) \/ (NewHas(b, v, n, w) /\ b["runner"] # None)
               /\ Holds(v, w, "old") /\ Holds(v, w, "new") /\ Still(b))
  PROVE  MovingAt(p, b, v, n, w, t)
<1> USE DEF InJob, Ahead, After, Undoing, Restoring, NamingOnly
<1>1. /\ MovedPass(p) /\ Making(p, b, n) /\ OldAt(p, b) /\ Copying(p, b, v, n)
      /\ Replacing(p, b, v, n)
  BY DEF MovedPass, Unheld, Making, Creates, OldAt, Copying, Replacing
<1>2. b["runner"] # None => NewAt(p, b)
  BY DEF NewAt
<1>3. t \/ Shown(p, b, v, n, w)
  BY <1>1, <1>2 DEF Shown
<1> QED
  BY <1>1, <1>3 DEF MovingAt

\* The steps that start the replacement and remove the original.
LEMMA ReplacedAt ==
  ASSUME NEW p, NEW b, NEW v, NEW n, NEW w, NEW t, p.job = "naming", ~p.cut, ~p.bad,
         p.pc \in {"start", "drop"}, p.renamed, MovedBoxes(b), Labelled(b, v, n),
         ~Lies(b, "dev", "new"), b[Migration!Previous] # None, Lies(b, "runner", "new"),
         OldStands(b), v["old"].work \subseteq v["new"].work, CopyDone(n),
         t \/ (/\ NewHas(b, v, n, w)
               /\ p.pc = "start" => Holds(v, w, "old") /\ Holds(v, w, "new") /\ Still(b))
  PROVE  MovingAt(p, b, v, n, w, t)
<1> USE DEF InJob, Ahead, After, Undoing, Restoring, NamingOnly
<1>1. /\ MovedPass(p) /\ Making(p, b, n) /\ NewAt(p, b) /\ Copying(p, b, v, n)
      /\ Replacing(p, b, v, n)
  BY DEF MovedPass, Unheld, Making, Creates, NewAt, Copying, Replacing
<1>2. t \/ Shown(p, b, v, n, w)
  BY <1>1 DEF Shown, Closing
<1> QED
  BY <1>1, <1>2 DEF MovingAt

LEMMA ProvisionMoving ==
  ASSUME MovingInv, MigrationInv, Migration!ProvisionRunner
  PROVE  MovingInv'
<1>1. pass.pc = "provision" /\ written' = written /\ names' = names
  BY DEF Migration!ProvisionRunner, Migration!At, Migration!journals
<1>2. /\ pass.job = "naming" /\ ~pass.bad /\ ~pass.cut /\ pass.renamed
      /\ MovedBoxes(boxes) /\ Labelled(boxes, volumes, names) /\ CopyDone(names)
      /\ ~Lies(boxes, "dev", "new") /\ boxes[Migration!Previous] # None
      /\ OldStands(boxes) /\ volumes["old"].work \subseteq volumes["new"].work
      /\ NoRunner(boxes)
  BY <1>1, AfterHere
<1>3. torn \/ (/\ OldHas(boxes, volumes, names, written)
               /\ Holds(volumes, written, "old") /\ Holds(volumes, written, "new")
               /\ Still(boxes))
  BY <1>1, AfterHere DEF Shown, NewAt, Closing, InJob, After
<1>4. PICK pc \in {"start", "drop"} : pc = IF pass.start THEN "start" ELSE "drop"
  OBVIOUS
<1>5. PICK new : new = Migration!Provisioned
  OBVIOUS
<1>6. Migration!Provision(Migration!To(pc), Migration!To("remove"))
  BY <1>2, <1>4 DEF Migration!ProvisionRunner
<1>7. /\ volumes' = volumes
      /\ Migration!Command(new, Migration!To(pc), Migration!To("remove"))
  BY <1>2, <1>5, <1>6 DEF Migration!Provision, Labelled, CopyDone
<1>8. /\ MovedBoxes(new) /\ Labelled(new, volumes, names)
      /\ Lies(new, "runner", "new") /\ new["former"] = None
      /\ \A p \in Migration!Places \ {"runner"} : new[p] = boxes[p]
      /\ OldStands(new) /\ (Still(boxes) => Still(new))
  BY <1>2, <1>5, MadeMoved
<1>9. new["dev"] = boxes["dev"] /\ new[Migration!Previous] = boxes[Migration!Previous]
  BY <1>8, MovedPlaces DEF Migration!Previous
<1>10. ~Lies(new, "dev", "new") /\ new[Migration!Previous] # None
  BY <1>2, <1>9 DEF Lies
<1>11. torn \/ NewHas(new, volumes, names, written)
  BY <1>2, <1>3, <1>8 DEF NewHas
<1>12. MovingAt(Migration!To(pc), new, volumes, names, written, torn)
  BY <1>2, <1>3, <1>8, <1>10, <1>11, ToSame, ReplacedAt
<1>13. PICK t : t = (torn \/ pass.pc \in Migration!Settled)
  OBVIOUS
<1>14. boxes["former"] = None /\ new["runner"] # None
  BY <1>2, <1>8 DEF NoRunner, Lies
<1>15. /\ MovingAt(Migration!To("remove"), boxes, volumes, names, written, t)
       /\ MovingAt(Migration!To("remove"), new, volumes, names, written, t)
  BY <1>2, <1>3, <1>8, <1>10, <1>11, <1>13, <1>14, ToSame, RemoveAt
<1>16. Migration!To("remove") \in PassRecords
  BY ToLike DEF Like, MigrationPlaces
<1> QED
  BY <1>1, <1>7, <1>12, <1>13, <1>15, <1>16, MovingCommand, MigrationHas

LEMMA StartRunnerMoving ==
  ASSUME MovingInv, MigrationInv, Migration!StartRunner
  PROVE  MovingInv'
<1>1. pass.pc = "start" /\ UNCHANGED <<volumes, written, names>>
  BY DEF Migration!StartRunner, Migration!At, Migration!journals
<1>2. /\ pass.job = "naming" /\ ~pass.bad /\ ~pass.cut /\ pass.renamed
      /\ MovedBoxes(boxes) /\ Labelled(boxes, volumes, names) /\ CopyDone(names)
      /\ ~Lies(boxes, "dev", "new") /\ boxes[Migration!Previous] # None
      /\ OldStands(boxes) /\ volumes["old"].work \subseteq volumes["new"].work
      /\ Lies(boxes, "runner", "new") /\ Migration!Replaced = "runner"
  BY <1>1, AfterHere
<1>3. torn \/ NewHas(boxes, volumes, names, written)
  BY <1>1, AfterHere DEF Shown, OldAt
<1>4. PICK on \in BOOLEAN : on = TRUE
  OBVIOUS
<1>5. PICK new : new = Migration!Switched("runner", on)
  OBVIOUS
<1>6. boxes["runner"] # None /\ ~Lies(boxes, "runner", "old") /\ boxes["former"] = None
  BY <1>2 DEF Lies, MovedBoxes
<1>7. /\ Alike(boxes, new) /\ MovedBoxes(new) /\ Labelled(new, volumes, names)
      /\ OldStands(new)
      /\ NewHas(boxes, volumes, names, written) => NewHas(new, volumes, names, written)
  <2>1. "runner" # Migration!Previous
    BY DEF Migration!Previous
  <2> QED
    BY <1>2, <1>5, <1>6, <2>1, MovedPlaces, MovedSwitched
<1>8. /\ ~Lies(new, "dev", "new") /\ new[Migration!Previous] # None
      /\ Lies(new, "runner", "new") /\ new["former"] = None
  BY <1>2, <1>6, <1>7, MovedPlaces, AlikeHas
<1>9. Migration!Command(new, Migration!To("drop"), Migration!To("remove"))
  BY <1>2, <1>4, <1>5, <1>6 DEF Migration!StartRunner, Migration!Present
<1>10. MovingAt(Migration!To("drop"), new, volumes, names, written, torn)
  BY <1>2, <1>3, <1>7, <1>8, ToSame, ReplacedAt
<1>11. PICK t : t = (torn \/ pass.pc \in Migration!Settled)
  OBVIOUS
<1>12. t
  BY <1>1, <1>2, <1>11 DEF Migration!Settled
<1>13. /\ MovingAt(Migration!To("remove"), boxes, volumes, names, written, t)
       /\ MovingAt(Migration!To("remove"), new, volumes, names, written, t)
  BY <1>2, <1>6, <1>7, <1>8, <1>12, ToSame, RemoveAt
<1>14. Migration!To("remove") \in PassRecords
  BY ToLike DEF Like, MigrationPlaces
<1> QED
  BY <1>1, <1>9, <1>10, <1>11, <1>13, <1>14, MovingCommand, MigrationHas

\* A container is taken away, and with it nothing that the work is told by.
LEMMA MovedWithout ==
  ASSUME MovingInv, MigrationInv, NEW q \in Migration!Places, NEW new,
         new = [boxes EXCEPT ![q] = None]
  PROVE  /\ MovedBoxes(new) /\ (q # "runner" => Labelled(new, volumes, names))
         /\ new[q] = None /\ \A p \in Migration!Places \ {q} : new[p] = boxes[p]
         /\ OldStands(boxes) => OldStands(new)
         /\ Still(boxes) => Still(new)
         /\ \A x : Used(new, x) => Used(boxes, x)
<1>1. new[q] = None /\ \A p \in Migration!Places \ {q} : new[p] = boxes[p]
  BY MigrationHas DEF Boxes
<1>2. MovedBoxes(new)
  BY <1>1, MovingHas, MovedPlaces DEF MovedBoxes
<1>3. \A x : Used(new, x) => Used(boxes, x)
  BY <1>1 DEF Used, Lies
<1>4. OldStands(boxes) => OldStands(new)
  BY <1>1 DEF OldStands, Lies
<1>5. Still(boxes) => Still(new)
  BY <1>1 DEF Still
<1>6. q # "runner" => Labelled(new, volumes, names)
  BY <1>1, <1>3, MovingHas, MovedPlaces DEF Labelled, Lies
<1> QED
  BY <1>1, <1>2, <1>3, <1>4, <1>5, <1>6

LEMMA DropMoving ==
  ASSUME MovingInv, MigrationInv, Migration!Drop
  PROVE  MovingInv'
<1>1. pass.pc = "drop" /\ UNCHANGED <<volumes, written, names>>
  BY DEF Migration!Drop, Migration!At, Migration!journals
<1>2. /\ pass.job = "naming" /\ ~pass.bad /\ ~pass.cut
      /\ MovedBoxes(boxes) /\ Labelled(boxes, volumes, names)
      /\ Lies(boxes, "runner", "new") /\ Migration!Aside = Migration!Previous
  BY <1>1, AfterHere
<1>3. torn \/ NewHas(boxes, volumes, names, written)
  BY <1>1, AfterHere DEF Shown, OldAt
<1>4. PICK new : new = [boxes EXCEPT ![Migration!Previous] = None]
  OBVIOUS
<1>5. /\ MovedBoxes(new) /\ Labelled(new, volumes, names)
      /\ \A p \in Migration!Places \ {Migration!Previous} : new[p] = boxes[p]
      /\ OldStands(boxes) => OldStands(new)
  <2>1. "runner" # Migration!Previous
    BY DEF Migration!Previous
  <2> QED
    BY <1>4, <2>1, MovedPlaces, MovedWithout
<1>6. new["runner"] = boxes["runner"] /\ new["former"] = boxes["former"]
  BY <1>5, MovedPlaces DEF Migration!Previous
<1>7. torn \/ NewHas(new, volumes, names, written)
  BY <1>3, <1>5, <1>6 DEF NewHas, Lies
<1>8. PICK p : p = Migration!To("held")
  OBVIOUS
<1>9. MovedPass(p) /\ p.pc = "held" /\ ~p.bad /\ ~Creates(p, new)
  BY <1>2, <1>6, <1>8, ToSame
  DEF MovedPass, Unheld, Creates, NoRunner, Lies, InJob, Ahead, After, Undoing, Restoring,
      NamingOnly
<1>10. MovingAt(p, new, volumes, names, written, torn)
  BY <1>5, <1>7, <1>9, RestAt
<1>11. Migration!Command(new, p, Migration!NameThrown)
  BY <1>2, <1>4, <1>8 DEF Migration!Drop
<1>12. PICK t : t = (torn \/ pass.pc \in Migration!Settled)
  OBVIOUS
<1>13. t
  BY <1>1, <1>2, <1>12 DEF Migration!Settled
<1>14. /\ MovingAt(Migration!NameThrown, boxes, volumes, names, written, t)
       /\ MovingAt(Migration!NameThrown, new, volumes, names, written, t)
  BY <1>2, <1>5, <1>13, TornAt
<1> QED
  BY <1>1, <1>10, <1>11, <1>12, <1>14, MovedThrown, MovingCommand, MigrationHas

\* In the rollback of a move, where nothing is on the new volume.
LEMMA UndoHere ==
  ASSUME MovingInv, MigrationInv, pass.pc \in {"remove", "back"} \cup Restoring,
         pass.pc = "remove" => ~pass.renamed
  PROVE  /\ pass.job = "naming" /\ ~pass.bad /\ ~pass.cut /\ pass.found # None
         /\ pass.at \in {"runner", "former"} /\ pass.at \in Migration!Places
         /\ pass.at # Migration!Previous /\ pass.found \in Migration!Container
         /\ Migration!Lost = Migration!NameThrown
         /\ MovedBoxes(boxes) /\ Labelled(boxes, volumes, names) /\ ~Used(boxes, "new")
         /\ torn \/ OldHas(boxes, volumes, names, written)
<1>1. pass.pc \in InJob \ NamingOnly
  BY DEF InJob, Undoing, Restoring, NamingOnly
<1>2. /\ pass.job = "naming" /\ ~pass.bad /\ ~pass.cut /\ pass.found # None
      /\ pass.at \in {"runner", "former"} /\ pass.found \in Migration!Container
      /\ Migration!Lost = Migration!NameThrown
  BY <1>1, MovingHere, InMigration DEF Migration!Names
<1>3. pass.at \in Migration!Places /\ pass.at # Migration!Previous
  BY <1>2, MovedPlaces DEF Migration!Previous
<1>4. MovedBoxes(boxes) /\ Labelled(boxes, volumes, names)
  BY MovingHas
<1>5. ~Lies(boxes, "dev", "new") /\ ~Lies(boxes, "runner", "new")
  BY <1>1, MovingHas DEF Replacing
<1>6. ~Used(boxes, "new")
  BY <1>4, <1>5, OnlyOld
<1>7. torn \/ OldHas(boxes, volumes, names, written)
  BY <1>1, MovingHas DEF Shown, NewAt, Restoring
<1> QED
  BY <1>2, <1>3, <1>4, <1>6, <1>7

LEMMA RemoveMoving ==
  ASSUME MovingInv, MigrationInv, Migration!Remove
  PROVE  MovingInv'
<1>1. pass.pc = "remove" /\ pass.pc \in InJob /\ UNCHANGED <<volumes, written, names>>
  BY DEF Migration!Remove, Migration!At, Migration!journals, InJob, Undoing
<1>2. /\ pass.job = "naming" /\ ~pass.bad /\ ~pass.cut /\ Migration!Replaced = "runner"
      /\ Migration!Lost = Migration!NameThrown
  BY <1>1, MovingHere
<1>3. CASE ~pass.renamed
  <2>1. pass' = Migration!To("back") /\ UNCHANGED <<boxes, torn>>
    BY <1>3 DEF Migration!Remove, Migration!Removable, Migration!Skip
  <2>2. MovingAt(Migration!To("back"), boxes, volumes, names, written, torn)
    BY <1>1, <1>2, <1>3, ToSame, UndoHere, UndoAt
  <2> QED
    BY <1>1, <2>1, <2>2 DEF MovingInv
<1>4. CASE pass.renamed
  <2>1. /\ MovedBoxes(boxes) /\ Labelled(boxes, volumes, names) /\ ~Lies(boxes, "dev", "new")
        /\ boxes[Migration!Previous] # None /\ boxes["former"] = None
    BY <1>1, <1>4, MovingHas DEF Replacing, Undoing
  <2>2. torn \/ (/\ Holds(volumes, written, "old") /\ Holds(volumes, written, "new")
                 /\ Still(boxes))
    BY <1>1, <1>4, MovingHas DEF Shown, Closing
  <2>3. ASSUME NEW b, MovedBoxes(b), Labelled(b, volumes, names), NoRunner(b),
               ~Used(b, "new"), b[Migration!Previous] # None, Still(boxes) => Still(b)
        PROVE  MovingAt(Migration!To("back"), b, volumes, names, written, torn)
    <3>1. PICK p : p = Migration!To("back")
      OBVIOUS
    <3>2. p.pc = "back" /\ p.job = "naming" /\ ~p.cut /\ ~p.bad /\ p.renamed
      BY <1>2, <1>4, <3>1, ToSame
    <3>3. ~Lies(b, "dev", "new") /\ ~Lies(b, "runner", "new")
      BY <2>3, MovedPlaces DEF Used
    <3>4. /\ MovedPass(p) /\ Making(p, b, names) /\ OldAt(p, b)
          /\ Copying(p, b, volumes, names) /\ Replacing(p, b, volumes, names)
      BY <2>3, <3>2, <3>3
      DEF MovedPass, Unheld, Making, Creates, OldAt, Copying, Replacing, InJob, Ahead, After,
          Undoing, Restoring, NamingOnly
    <3>5. torn \/ OldHas(b, volumes, names, written)
      BY <2>2, <2>3 DEF OldHas
    <3>6. torn \/ Shown(p, b, volumes, names, written)
      BY <2>2, <2>3, <3>4, <3>5 DEF Shown
    <3> QED
      BY <2>3, <3>1, <3>4, <3>6 DEF MovingAt
  <2>4. CASE boxes["runner"] # None
    <3>1. PICK new : new = [boxes EXCEPT !["runner"] = None]
      OBVIOUS
    <3>2. /\ MovedBoxes(new) /\ new["runner"] = None
          /\ \A p \in Migration!Places \ {"runner"} : new[p] = boxes[p]
          /\ Still(boxes) => Still(new)
      BY <3>1, MovedPlaces, MovedWithout
    <3>3. /\ new["dev"] = boxes["dev"] /\ new["former"] = boxes["former"]
          /\ new[Migration!Previous] = boxes[Migration!Previous]
      BY <3>2, MovedPlaces DEF Migration!Previous
    <3>4. ~Lies(new, "dev", "new") /\ ~Lies(new, "runner", "new")
      BY <2>1, <3>2, <3>3 DEF Lies
    <3>5. ~Used(new, "new")
      BY <3>2, <3>4, OnlyOld
    <3>6. Labelled(new, volumes, names) /\ NoRunner(new) /\ new[Migration!Previous] # None
      BY <2>1, <3>2, <3>3, <3>5 DEF Labelled, NoRunner
    <3>7. MovingAt(Migration!To("back"), new, volumes, names, written, torn)
      BY <2>3, <3>2, <3>5, <3>6
    <3>8. Migration!Command(new, Migration!To("back"), Migration!NameThrown)
      BY <1>2, <1>4, <2>4, <3>1
      DEF Migration!Remove, Migration!Removable, Migration!Present
    <3>9. PICK t : t = (torn \/ pass.pc \in Migration!Settled)
      OBVIOUS
    <3>10. t
      BY <1>1, <1>2, <3>9 DEF Migration!Settled
    <3>11. /\ MovingAt(Migration!NameThrown, boxes, volumes, names, written, t)
           /\ MovingAt(Migration!NameThrown, new, volumes, names, written, t)
      BY <2>1, <3>2, <3>6, <3>10, TornAt
    <3> QED
      BY <1>1, <3>7, <3>8, <3>9, <3>11, MovedThrown, MovingCommand, MigrationHas
  <2>5. CASE boxes["runner"] = None
    <3>1. pass' = Migration!To("back") /\ UNCHANGED <<boxes, torn>>
      BY <1>2, <2>5
      DEF Migration!Remove, Migration!Removable, Migration!Present, Migration!Skip
    <3>2. NoRunner(boxes) /\ ~Lies(boxes, "runner", "new")
      BY <2>1, <2>5 DEF NoRunner, Lies
    <3>3. ~Used(boxes, "new")
      BY <2>1, <3>2, OnlyOld
    <3>4. MovingAt(Migration!To("back"), boxes, volumes, names, written, torn)
      BY <2>1, <2>3, <3>2, <3>3
    <3> QED
      BY <1>1, <3>1, <3>4 DEF MovingInv
  <2> QED
    BY <2>4, <2>5
<1> QED
  BY <1>3, <1>4

LEMMA BackMoving ==
  ASSUME MovingInv, MigrationInv, Migration!Back
  PROVE  MovingInv'
<1>1. pass.pc = "back" /\ pass.pc \in InJob /\ UNCHANGED <<volumes, written, names>>
  BY DEF Migration!Back, Migration!At, Migration!journals, InJob, Undoing
<1>2. /\ pass.job = "naming" /\ ~pass.bad /\ ~pass.cut
      /\ pass.at \in {"runner", "former"} /\ pass.at \in Migration!Places
      /\ pass.at # Migration!Previous /\ Migration!Lost = Migration!NameThrown
      /\ MovedBoxes(boxes) /\ Labelled(boxes, volumes, names) /\ ~Used(boxes, "new")
      /\ torn \/ OldHas(boxes, volumes, names, written)
      /\ Migration!Aside = Migration!Previous
  BY <1>1, UndoHere, MovingHere
<1>3. CASE pass.renamed
  <2>1. NoRunner(boxes) /\ boxes[Migration!Previous] # None
    BY <1>1, <1>3, MovingHas DEF Replacing, Undoing
  <2>2. PICK at \in Migration!Places : at = pass.at
    BY <1>2
  <2>3. PICK new : new = Migration!Moved(Migration!Previous, at)
    OBVIOUS
  <2>4. /\ new \in Boxes /\ new[Migration!Previous] = None /\ new[at] = boxes[Migration!Previous]
        /\ \A r \in Migration!Places \ {at, Migration!Previous} : new[r] = boxes[r]
    BY <1>2, <2>2, <2>3, MovedPlaces, MigrationHas, MovedHas
  <2>5. /\ {"runner", "former"} \subseteq Migration!Places \ {Migration!Previous}
        /\ Migration!Previous \in Migration!Places
    BY MovedPlaces DEF Migration!Previous
  <2>6. Lies(new, at, "old") /\ ~new[at].up
    BY <1>2, <2>1, <2>4, <2>5 DEF MovedBoxes, Lies
  <2>7. MovedBoxes(new)
    BY <1>2, <2>1, <2>2, <2>4, <2>5, <2>6 DEF MovedBoxes, NoRunner, Lies
  <2>8. ~Used(new, "new")
    BY <1>2, <2>4, <2>6 DEF Used, Lies
  <2>9. Labelled(new, volumes, names) /\ ~NoRunner(new) /\ Used(new, "old")
    BY <1>2, <2>2, <2>6, <2>8 DEF Labelled, NoRunner, Lies, Used
  <2>10. torn \/ OldHas(new, volumes, names, written)
    BY <1>2, <2>8, <2>9 DEF OldHas
  <2>11. MovingAt(Migration!To("reconnect"), new, volumes, names, written, torn)
    BY <1>2, <2>7, <2>8, <2>9, <2>10, ToSame, UndoAt DEF Restoring
  <2>12. Migration!Command(new, Migration!To("reconnect"), Migration!NameThrown)
    BY <1>2, <1>3, <2>2, <2>3 DEF Migration!Back
  <2>13. PICK t : t = (torn \/ pass.pc \in Migration!Settled)
    OBVIOUS
  <2>14. t
    BY <1>1, <1>2, <2>13 DEF Migration!Settled
  <2>15. /\ MovingAt(Migration!NameThrown, boxes, volumes, names, written, t)
         /\ MovingAt(Migration!NameThrown, new, volumes, names, written, t)
    BY <1>2, <2>7, <2>9, <2>14, TornAt
  <2> QED
    BY <1>1, <2>11, <2>12, <2>13, <2>15, MovedThrown, MovingCommand, MigrationHas
<1>4. CASE ~pass.renamed
  <2>1. pass' = Migration!To("reconnect") /\ UNCHANGED <<boxes, torn>>
    BY <1>4 DEF Migration!Back, Migration!Skip
  <2>2. MovingAt(Migration!To("reconnect"), boxes, volumes, names, written, torn)
    BY <1>2, ToSame, UndoAt DEF Restoring
  <2> QED
    BY <1>1, <2>1, <2>2 DEF MovingInv
<1> QED
  BY <1>3, <1>4

LEMMA ReconnectMoving ==
  ASSUME MovingInv, MigrationInv, Migration!Reconnect
  PROVE  MovingInv'
<1>1. /\ pass.pc = "reconnect" /\ pass.pc \in Restoring
      /\ UNCHANGED <<volumes, written, names>>
  BY DEF Migration!Reconnect, Migration!At, Migration!journals, Restoring
<1>2. pass' = Migration!To("restart") /\ UNCHANGED <<boxes, torn>>
  BY <1>1, UndoHere DEF Migration!Reconnect, Migration!Cut, Migration!Skip
<1>3. MovingAt(Migration!To("restart"), boxes, volumes, names, written, torn)
  BY <1>1, ToSame, UndoHere, UndoAt DEF Restoring
<1> QED
  BY <1>1, <1>2, <1>3 DEF MovingInv

LEMMA RestartMoving ==
  ASSUME MovingInv, MigrationInv, Migration!Restart
  PROVE  MovingInv'
<1>1. /\ pass.pc = "restart" /\ pass.pc \in Restoring /\ UNCHANGED <<volumes, written, names>>
  BY DEF Migration!Restart, Migration!At, Migration!journals, Restoring
<1>2. /\ pass.job = "naming" /\ ~pass.bad /\ ~pass.cut /\ pass.at \in Migration!Places
      /\ pass.at # Migration!Previous /\ Migration!Lost = Migration!NameThrown
      /\ MovedBoxes(boxes) /\ Labelled(boxes, volumes, names) /\ ~Used(boxes, "new")
      /\ torn \/ OldHas(boxes, volumes, names, written)
  BY <1>1, UndoHere
<1>3. PICK t : t = (torn \/ pass.pc \in Migration!Settled)
  OBVIOUS
<1>4. t
  BY <1>1, <1>2, <1>3 DEF Migration!Settled
<1>5. CASE ~pass.found.up
  <2>1. pass' = Migration!To("fail") /\ UNCHANGED <<boxes, torn>>
    BY <1>5 DEF Migration!Restart, Migration!Skip
  <2>2. MovingAt(Migration!To("fail"), boxes, volumes, names, written, torn)
    BY <1>2, ToSame, UndoAt DEF Restoring
  <2> QED
    BY <1>1, <2>1, <2>2 DEF MovingInv
<1>6. CASE pass.found.up /\ Migration!Present(pass.at)
  <2>0. PICK on \in BOOLEAN : on = TRUE
    OBVIOUS
  <2>1. PICK new : new = Migration!Switched(pass.at, on)
    OBVIOUS
  <2>2. PICK at \in Migration!Places : at = pass.at /\ at # Migration!Previous
    BY <1>2
  <2>3. boxes[at] # None
    BY <1>6, <2>2 DEF Migration!Present
  <2>4. /\ Alike(boxes, new) /\ MovedBoxes(new) /\ Labelled(new, volumes, names)
        /\ OldHas(boxes, volumes, names, written) => OldHas(new, volumes, names, written)
    BY <2>1, <2>2, <2>3, MovedSwitched
  <2>5. ~Used(new, "new")
    BY <1>2, <2>4, AlikeHas
  <2>6. MovingAt(Migration!To("fail"), new, volumes, names, written, torn)
    BY <1>2, <2>4, <2>5, ToSame, UndoAt DEF Restoring
  <2>7. Migration!Command(new, Migration!To("fail"), Migration!NameThrown)
    BY <1>2, <1>6, <2>0, <2>1 DEF Migration!Restart
  <2>8. /\ MovingAt(Migration!NameThrown, boxes, volumes, names, written, t)
        /\ MovingAt(Migration!NameThrown, new, volumes, names, written, t)
    BY <1>2, <1>4, <2>4, TornAt
  <2> QED
    BY <1>1, <1>3, <2>6, <2>7, <2>8, MovedThrown, MovingCommand, MigrationHas
<1>7. CASE pass.found.up /\ ~Migration!Present(pass.at)
  <2>1. pass' = Migration!NameThrown /\ boxes' = boxes /\ torn' = t
    BY <1>2, <1>3, <1>7 DEF Migration!Restart, Migration!NoSuchContainer
  <2>2. MovingAt(Migration!NameThrown, boxes, volumes, names, written, t)
    BY <1>2, <1>4, TornAt
  <2> QED
    BY <1>1, <2>1, <2>2 DEF MovingInv
<1> QED
  BY <1>5, <1>6, <1>7

LEMMA FailMoving ==
  ASSUME MovingInv, MigrationInv, Migration!Fail
  PROVE  MovingInv'
<1>1. /\ pass.pc = "fail" /\ pass.pc \in Restoring
      /\ UNCHANGED <<boxes, volumes, written, torn>> /\ pass' = Migration!To("failed")
  BY DEF Migration!Fail, Migration!At, Migration!disk, Migration!Goto, Restoring
<1>2. PICK copies : copies = pass.copies
  OBVIOUS
<1>3. PICK n : n = [phase |-> "failed", listed |-> copies]
  OBVIOUS
<1>4. names' = n
  BY <1>1, <1>2, <1>3, UndoHere DEF Migration!Fail
<1>5. n.phase = "failed" /\ ~CopyDone(n)
  BY <1>3 DEF CopyDone
<1>6. Labelled(boxes, volumes, n) /\ (torn \/ OldHas(boxes, volumes, n, written))
  BY <1>1, <1>5, UndoHere DEF Labelled, OldHas
<1>7. MovingAt(Migration!To("failed"), boxes, volumes, n, written, torn)
  BY <1>1, <1>6, ToSame, UndoHere, UndoAt DEF Restoring
<1> QED
  BY <1>1, <1>4, <1>7 DEF MovingInv

\* An installation that is moved keeps what is told of it.
LEMMA MovingStep ==
  ASSUME MovingInv, MigrationInv, [Migration!Next]_(Migration!migrationVars)
  PROVE  MovingInv'
<1>1. CASE \E p \in Migration!Places : Migration!Write(p)
  BY <1>1, WriteMoving
<1>2. CASE Migration!OperatorRemoves \/ Migration!PassBegin \/ Migration!Crash
  BY <1>2, OperatorMoving, GoneMoving
<1>3. CASE Migration!Split
  <2>1. ~(\/ Migration!Detach \/ Migration!Snapshot \/ Migration!CreateDevelopment
          \/ Migration!StartDevelopment \/ Migration!Probe \/ Migration!SplitReady)
    <3> SUFFICES ASSUME pass.pc \in SplitOnly
                 PROVE  FALSE
      BY DEF Migration!Detach, Migration!Snapshot, Migration!CreateDevelopment,
             Migration!StartDevelopment, Migration!Probe, Migration!SplitReady, Migration!At,
             SplitOnly
    <3>1. pass.pc \in InJob
      BY DEF InJob, Ahead, After, Undoing, SplitOnly
    <3> QED
      BY <3>1, MovingHere
  <2> QED
    BY <1>3, <2>1, SplitCheckMoving DEF Migration!Split
<1>4. CASE Migration!Naming
  BY <1>4, HoldMoving, NamesSkippedMoving, NamesBeginMoving, MakeVolumeMoving, CopyMoving,
     CopyEndMoving, VerifyMoving, HeldMoving
  DEF Migration!Naming
<1>5. CASE Migration!Shared
  BY <1>5, StopFoundMoving, RenameMoving, ProvisionMoving, StartRunnerMoving, DropMoving
  DEF Migration!Shared
<1>6. CASE Migration!Undo
  <2>1. ~Migration!Discard
    <3> SUFFICES ASSUME pass.pc = "discard"
                 PROVE  FALSE
      BY DEF Migration!Discard, Migration!At
    <3>1. pass.pc \in InJob /\ pass.pc \in SplitOnly
      BY DEF InJob, Undoing, SplitOnly
    <3> QED
      BY <3>1, MovingHere
  <2> QED
    BY <1>6, <2>1, RemoveMoving, BackMoving, ReconnectMoving, RestartMoving, FailMoving,
       RethrowMoving
    DEF Migration!Undo
<1>7. CASE Migration!Others
  BY <1>7, RestMoving, MakeMoving, BootMoving, GoneMoving, SyncMoving DEF Migration!Others
<1>8. CASE UNCHANGED Migration!migrationVars
  BY <1>8 DEF Migration!migrationVars, Migration!disk, Migration!journals, MovingInv
<1> QED
  BY <1>1, <1>2, <1>3, <1>4, <1>5, <1>6, <1>7, <1>8 DEF Migration!Next

-----------------------------------------------------------------------------
(* Where the volumes were named first, an installation is split or moved.    *)

WorkInv == MigrationInv /\ (DirectInv \/ MovingInv)

LEMMA DirectStarts ==
  ASSUME Migration!Init, volumes["new"].made, ~volumes["new"].migrated,
         volumes["new"].work = {0}, Migration!ToSplit("runner", "new")
  PROVE  DirectInv
<1>1. PICK on \in BOOLEAN, ssh \in BOOLEAN :
        boxes = [Migration!Empty EXCEPT
                   !["runner"] = Migration!Runner("unified", "new", on, ssh)]
  BY DEF Migration!ToSplit
<1>2. PICK c : c = Migration!Runner("unified", "new", on, ssh)
  OBVIOUS
<1>3. c.kind = "unified" /\ c.layer = "own" /\ c.volume = "new"
  BY <1>2 DEF Migration!Runner
<1>4. \A p \in Migration!Places : boxes[p] = IF p = "runner" THEN c ELSE None
  BY <1>1, <1>2, MovedPlaces DEF Migration!Empty
<1>5. DirectBoxes(boxes)
  BY <1>3, <1>4, MovedPlaces DEF DirectBoxes, FitsDirect
<1>6. written = 0 /\ pass = Migration!NoPass /\ pass.pc = "idle" /\ ~pass.copies
  BY DEF Migration!Init, Migration!NoPass
<1>7. SplitFits(pass, boxes)
  BY <1>6, MigrationStarts, PlainTo, PlainFits
<1> QED
  BY <1>5, <1>6, <1>7 DEF DirectInv

LEMMA MovingStarts ==
  ASSUME Migration!Init, volumes["old"].made, volumes["old"].work = {0}, ~volumes["new"].made,
         boxes = Migration!Empty \/ \E at \in Migration!Names : Migration!ToName(at)
  PROVE  MovingInv
<1>1. /\ written = 0 /\ pass = Migration!NoPass /\ names.phase = "none"
  BY DEF Migration!Init
<1>2. MovedPass(pass) /\ pass.pc = "idle"
  BY <1>1 DEF Migration!NoPass, MovedPass, Unheld, InJob, Ahead, After, Undoing, Restoring,
             NamingOnly
<1>3. CASE boxes = Migration!Empty
  <2>1. Nobody(boxes)
    BY <1>3 DEF Migration!Empty, Nobody
  <2>2. MovedBoxes(boxes) /\ ~Used(boxes, "new") /\ boxes["dev"] = None
    BY <2>1, MovedPlaces DEF MovedBoxes, Used, Lies, Nobody
  <2>3. Labelled(boxes, volumes, names) /\ OldHas(boxes, volumes, names, written)
    BY <1>1, <2>2 DEF Labelled, OldHas, Holds, CopyDone
  <2>4. MovingAt(pass, boxes, volumes, names, written, torn)
    BY <1>2, <2>2, <2>3, CalmAt DEF Calm, Rests
  <2> QED
    BY <2>4 DEF MovingInv
<1>4. ASSUME NEW at \in Migration!Names, Migration!ToName(at)
      PROVE  MovingInv
  <2>0. PICK off : off = FALSE
    OBVIOUS
  <2>1. PICK on \in BOOLEAN, dev \in BOOLEAN :
          boxes = [Migration!Empty EXCEPT
                     ![at] = Migration!Runner("split", "old", on, off),
                     !["dev"] = [Migration!Runner("workspace", "old", dev, TRUE)
                                   EXCEPT !.layer = "image"]]
    BY <1>4, <2>0 DEF Migration!ToName
  <2>2. PICK c : c = Migration!Runner("split", "old", on, off)
    OBVIOUS
  <2>3. PICK d : d = [Migration!Runner("workspace", "old", dev, TRUE) EXCEPT !.layer = "image"]
    OBVIOUS
  <2>4. c.kind = "split" /\ c.layer = "image" /\ c.volume = "old"
    BY <2>2 DEF Migration!Runner
  <2>5. d.kind = "workspace" /\ d.layer = "image" /\ d.volume = "old"
    BY <2>3 DEF Migration!Runner
  <2>6. at \in {"runner", "former"} /\ at \in Migration!Places
    BY MovedPlaces DEF Migration!Names
  <2>7. \A p \in Migration!Places : boxes[p] = IF p = "dev" THEN d ELSE IF p = at THEN c ELSE None
    BY <2>1, <2>2, <2>3, <2>6, MovedPlaces DEF Migration!Empty
  <2>8. c # None
    <3>1. MigrationInv
      BY MigrationStarts
    <3>2. c = boxes[at] /\ boxes[at] \in Migration!Container \cup {None}
      BY <2>6, <2>7, <3>1, MigrationHas DEF Boxes
    <3>3. c \in Migration!Container
      BY <2>0, <2>2 DEF Migration!Runner, Migration!Container
    <3> QED
      BY <3>3, MigrationConstants
  <2>9. MovedBoxes(boxes)
    BY <2>4, <2>5, <2>6, <2>7, MovedPlaces DEF MovedBoxes, Migration!Previous
  <2>10. ~Used(boxes, "new")
    BY <2>4, <2>5, <2>7 DEF Used, Lies
  <2>11. ~NoRunner(boxes)
    BY <2>6, <2>7, <2>8 DEF NoRunner
  <2>12. Labelled(boxes, volumes, names) /\ OldHas(boxes, volumes, names, written)
    BY <1>1, <2>10, <2>11 DEF Labelled, OldHas, Holds, CopyDone
  <2>13. MovingAt(pass, boxes, volumes, names, written, torn)
    BY <1>2, <2>9, <2>12, CalmAt DEF Calm, Rests
  <2> QED
    BY <2>13 DEF MovingInv
<1> QED
  BY <1>3, <1>4

LEMMA WorkStarts ==
  ASSUME NamedFirst, Migration!Init
  PROVE  WorkInv
<1>1. PICK v \in {"old", "new"} :
        /\ volumes = [w \in {"old", "new"} |-> [made |-> w = v, migrated |-> FALSE,
                                                work |-> IF w = v THEN {0} ELSE {}]]
        /\ \/ v = "new" /\ Migration!ToSplit("runner", "new")
           \/ v = "old" /\ (boxes = Migration!Empty
                            \/ \E at \in Migration!Names : Migration!ToName(at))
  BY DEF Migration!Init
<1>2. /\ volumes[v].made /\ volumes[v].work = {0} /\ ~volumes[v].migrated
      /\ v = "old" => ~volumes["new"].made
  BY <1>1
<1>3. DirectInv \/ MovingInv
  BY <1>1, <1>2, DirectStarts, MovingStarts
<1> QED
  BY <1>3, MigrationStarts DEF WorkInv

LEMMA WorkStep ==
  ASSUME WorkInv, [Migration!Next]_(Migration!migrationVars)
  PROVE  WorkInv'
BY MigrationStepInv, DirectStep, MovingStep DEF WorkInv, DirectKept

\* An installation of which the volumes were named before its runtime is split shows whoever
\* works in a running container all the work there is, through splits, moves, crashes,
\* rollbacks and retries, whatever commands fail, as long as none fails once the replacement
\* was started or while it is undone.
THEOREM WorkStaysInView == ASSUME NamedFirst PROVE Migration!Spec => []WorkIsShown
<1>1. Migration!Init => WorkInv
  BY WorkStarts
<1>2. WorkInv /\ [Migration!Next]_(Migration!migrationVars) => WorkInv'
  BY WorkStep
<1>3. WorkInv => WorkIsShown
  <2> SUFFICES ASSUME WorkInv, ~torn, NEW p \in Migration!Places, boxes[p] # None, boxes[p].up
               PROVE  volumes[boxes[p].volume].work = 0..written
    BY DEF WorkIsShown, Migration!WorkIsShown, Migration!Present
  <2>1. boxes[p].volume \in {"old", "new"}
    BY MigrationHas DEF WorkInv, Boxes, Migration!Container
  <2>2. CASE DirectInv
    BY <2>2 DEF DirectInv, DirectBoxes, FitsDirect
  <2>3. CASE MovingInv
    <3>1. CASE OldHas(boxes, volumes, names, written)
      BY <2>1, <3>1 DEF OldHas, Used, Lies, Holds
    <3>2. CASE NewHas(boxes, volumes, names, written)
      BY <2>1, <3>2 DEF NewHas, OldStands, Lies, Holds
    <3> QED
      BY <2>3, <3>1, <3>2, MovingRests DEF Rests
  <2> QED
    BY <2>2, <2>3 DEF WorkInv
<1> QED
  BY <1>1, <1>2, <1>3, PTL DEF Migration!Spec

\* And the container with the packages its owner installed is there until both replacements
\* are ready, and none that was set aside is removed before another has its work.
THEOREM OriginalStays == ASSUME NamedFirst PROVE Migration!Spec => OriginalIsKept
<1>1. Migration!Init => WorkInv
  BY WorkStarts
<1>2. WorkInv /\ [Migration!Next]_(Migration!migrationVars) => WorkInv'
  BY WorkStep
<1> DEFINE Keeping ==
             /\ Migration!Original(boxes) => Migration!Original(boxes') \/ Migration!Ready
             /\ /\ Migration!At("drop") /\ Migration!Present(Migration!Aside)
                /\ ~Migration!Present(Migration!Aside)'
                => Migration!HasItsWork(Migration!Aside)
<1>3. WorkInv /\ [Migration!Next]_(Migration!migrationVars) => Keeping
  <2> SUFFICES ASSUME WorkInv, [Migration!Next]_(Migration!migrationVars)
               PROVE  Keeping
    OBVIOUS
  <2>1. Migration!Original(boxes) => Migration!Original(boxes') \/ Migration!Ready
    <3>1. CASE DirectInv
      BY <3>1, DirectStep DEF WorkInv, DirectKept
    <3>2. CASE MovingInv
      BY <3>2, MovingHas DEF MovedBoxes, Migration!Original
    <3> QED
      BY <3>1, <3>2 DEF WorkInv
  <2>2. ASSUME pass.pc = "drop", Migration!Present(Migration!Aside)
        PROVE  Migration!HasItsWork(Migration!Aside)
    <3>1. pass.pc \in InJob \ NamingOnly /\ MigrationInv
      BY <2>2 DEF InJob, After, NamingOnly, WorkInv
    <3>2. pass.at \in Migration!Names
      BY <3>1, InMigration
    <3>3. PICK p \in Migration!Places : p = Migration!Aside
      BY <3>2, PlacesApart, AsideIs
    <3>4. boxes[p] # None
      BY <2>2, <3>3 DEF Migration!Present
    <3>5. CASE DirectInv
      <4>1. boxes["runner"] # None /\ boxes[p].volume = "new" /\ boxes["runner"].volume = "new"
        BY <2>2, <3>4, <3>5, MovedPlaces
        DEF DirectInv, DirectBoxes, FitsDirect, SplitFits, Placing
      <4> QED
        BY <3>3, <4>1 DEF Migration!HasItsWork, Migration!Owned
    <3>6. CASE MovingInv
      <4>1. p = Migration!Previous
        BY <2>2, <3>1, <3>3, <3>6, MovingHere DEF InJob, After
      <4>2. /\ boxes[p].volume = "old" /\ Lies(boxes, "runner", "new")
            /\ volumes["old"].work \subseteq volumes["new"].work
        BY <2>2, <3>1, <3>4, <3>6, <4>1, AfterHere DEF MovedBoxes
      <4> QED
        BY <3>3, <4>2 DEF Migration!HasItsWork, Migration!Owned, Lies
    <3> QED
      BY <3>1, <3>5, <3>6 DEF WorkInv
  <2> QED
    BY <2>1, <2>2 DEF Migration!At
<1> HIDE DEF Keeping
<1>4. WorkInv /\ [Migration!Next]_(Migration!migrationVars)
      => [Keeping]_(Migration!migrationVars)
  BY <1>3
<1> QED
  BY <1>1, <1>2, <1>4, PTL
  DEF Migration!Spec, OriginalIsKept, Migration!OriginalIsKept, Keeping

-----------------------------------------------------------------------------
(* The parts together: a step of one leaves the others as they are.         *)
THEOREM RunnerTyping == RunnerSpec => []RunnerTypeOK
<1> DEFINE Inv == ServiceInv /\ SshInv /\ CollectorInv /\ MigrationInv
<1>1. RunnerInit => Inv
  BY ServiceInit, SshInit, CollectorInit, MigrationStarts DEF RunnerInit
<1>2. Inv /\ [RunnerNext]_runnerVars => Inv'
  <2> SUFFICES ASSUME ServiceInv, SshInv, CollectorInv, MigrationInv, [RunnerNext]_runnerVars
               PROVE  Inv'
    OBVIOUS
  <2>1. /\ [Next]_vars /\ [Ssh!Next]_(Ssh!sshVars)
        /\ [Collector!Next]_(Collector!telemetryVars)
        /\ [Migration!Next]_(Migration!migrationVars)
    <3>1. Ssh!sshVars' = Ssh!sshVars \/ Ssh!Next
      BY DEF RunnerNext, runnerVars, ProcessStep, SshStep, TelemetryStep, MigrationStep,
             sshPart, Ssh!sshVars
    <3>2. Collector!telemetryVars' = Collector!telemetryVars \/ Collector!Next
      BY DEF RunnerNext, runnerVars, ProcessStep, SshStep, TelemetryStep, MigrationStep,
             telemetryPart, Collector!telemetryVars
    <3>3. Migration!migrationVars' = Migration!migrationVars \/ Migration!Next
      BY DEF RunnerNext, runnerVars, ProcessStep, SshStep, TelemetryStep, MigrationStep,
             migrationPart, Migration!migrationVars, Migration!disk, Migration!journals
    <3>4. vars' = vars \/ Next
      BY DEF RunnerNext, runnerVars, ProcessStep, SshStep, TelemetryStep, MigrationStep
    <3> QED
      BY <3>1, <3>2, <3>3, <3>4
  <2>2. ServiceInv'
    BY <2>1, ServiceStep
  <2>3. SshInv'
    BY <2>1, SshStepInv
  <2>4. CollectorInv'
    BY <2>1, CollectorStepInv
  <2>5. MigrationInv'
    BY <2>1, MigrationStepInv
  <2> QED
    BY <2>2, <2>3, <2>4, <2>5
<1>3. Inv => RunnerTypeOK
  BY DEF RunnerTypeOK, ServiceInv, SshInv, CollectorInv, MigrationInv
<1> QED
  BY <1>1, <1>2, <1>3, PTL DEF RunnerSpec
=============================================================================
