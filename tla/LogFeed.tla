-------------------------------- MODULE LogFeed --------------------------------
(***************************************************************************)
(* The log of a running process, from the pipe of the process to the       *)
(* console: the runner appends what the process writes to a file           *)
(* (process-service.ts, file-log-capture.ts), the gateway reads a piece of *)
(* it from a cursor (process_logs, admin-routes.ts), and the page appends  *)
(* the piece to what it shows and asks again until the process is over     *)
(* (live-updates.js, audit-updates.js).  A card of the audit page has a    *)
(* second source, the details of its record, asked for independently.      *)
(*                                                                         *)
(* A log is a row of characters of two bytes: byte 2k ends one.  An answer *)
(* only reads, so a request that was given up leaves no trace.             *)
(***************************************************************************)
EXTENDS Naturals, Sequences

CONSTANTS
  PageBytes,   \* the most one answer of process_logs reads
  MaxBytes,    \* length of the log: a bound
  None

LogAssumption ==
  /\ PageBytes \in Nat \ {0} /\ MaxBytes \in Nat /\ None \notin {"running", "over"}

VARIABLES
  process,  \* written: bytes in the file; alive; held: logCompletions has it; record: its status
  request,  \* the page's request for the log, and how far the gateway and the runner are
  detail,   \* the status the record details now under way were collected with
  card      \* what the page shows, and what it knows

logVars == <<process, request, detail, card>>

Idle == [step |-> "idle"]
Start == [offset |-> 0, pending |-> 0]

Init ==
  /\ process = [written |-> 0, alive |-> TRUE, held |-> TRUE, record |-> "running"]
  /\ request = Idle
  /\ detail = None
  /\ card = [loaded |-> FALSE, shown |-> <<>>, cursor |-> Start, status |-> None,
             badge |-> None, said |-> None, stopped |-> FALSE]

----------------------------------------------------------------------------
\* The process, or what it left in the pipe, reaches the file while the runner holds it.
Write ==
  /\ process.held /\ process.record = "running" /\ process.written < MaxBytes
  /\ process' = [process EXCEPT !.written = @ + 1]
  /\ UNCHANGED <<request, detail, card>>

Exit ==
  /\ process.alive
  /\ process' = [process EXCEPT !.alive = FALSE]
  /\ UNCHANGED <<request, detail, card>>

\* The pipe is drained and the file closed: the completion of launch().
Finish ==
  /\ ~process.alive /\ process.held
  /\ process' = [process EXCEPT !.record = "over", !.held = FALSE]
  /\ UNCHANGED <<request, detail, card>>

\* A new runner does not hold the pipes of the old one.
Restart ==
  /\ process.held
  /\ process' = [process EXCEPT !.held = FALSE]
  /\ UNCHANGED <<request, detail, card>>

\* refresh() of the new runner finds the process gone.
Lose ==
  /\ ~process.held /\ ~process.alive /\ process.record = "running"
  /\ process' = [process EXCEPT !.record = "over"]
  /\ UNCHANGED <<request, detail, card>>

----------------------------------------------------------------------------
\* refresh() of the page, or its first load.
Ask ==
  /\ request = Idle /\ ~card.stopped
  /\ request' = [step |-> "asked", cursor |-> card.cursor, status |-> card.status]
  /\ UNCHANGED <<process, detail, card>>

\* process_list, whose status goes into the answer.
List ==
  /\ request.step = "asked"
  /\ request' = [step |-> "listed", cursor |-> request.cursor, status |-> request.status,
                 listed |-> process.record]
  /\ UNCHANGED <<process, detail, card>>

\* process_logs reads the record ...
Lookup ==
  /\ request.step = "listed"
  /\ request' = [step |-> "found", cursor |-> request.cursor, status |-> request.status,
                 listed |-> request.listed, record |-> process.record]
  /\ UNCHANGED <<process, detail, card>>

\* ... then the file ...
Read ==
  /\ request.step = "found"
  /\ LET from == request.cursor.offset
         size == process.written
     IN  request' = [step |-> "read", cursor |-> request.cursor, status |-> request.status,
                     listed |-> request.listed, record |-> request.record,
                     to |-> IF from + PageBytes < size THEN from + PageBytes ELSE size,
                     truncated |-> from + PageBytes < size]
  /\ UNCHANGED <<process, detail, card>>

\* ... and keeps an unfinished character for the next piece, unless nothing can follow.
\* The record is the one read before the file; the completion and the process are of now.
Ended ==
  \/ request.record # "running"
  \/ ~process.held /\ ~process.alive

Unfinished ==
  IF request.to = request.cursor.offset /\ request.cursor.pending = 0 THEN 0
  ELSE request.to % 2

\* Faulty variant: the status of the answer is asked for after the log was read.
AnswerAsOfNow ==
  LET kept == IF ~request.truncated /\ Ended THEN 0 ELSE Unfinished
      first == request.cursor.offset - request.cursor.pending
  IN  [output |-> [i \in 1..(request.to - kept) - first |-> first + i],
       cursor |-> [offset |-> request.to, pending |-> kept],
       more |-> request.truncated, status |-> process.record]

AnswerOf ==
  LET kept == IF ~request.truncated /\ Ended THEN 0 ELSE Unfinished
      first == request.cursor.offset - request.cursor.pending
  IN  [output |-> [i \in 1..(request.to - kept) - first |-> first + i],
       cursor |-> [offset |-> request.to, pending |-> kept],
       more |-> request.truncated, status |-> request.listed]

Answer ==
  /\ request.step = "read"
  /\ request' = [step |-> "answered", asked |-> request.status, cursor |-> request.cursor,
                 answer |-> AnswerOf]
  /\ UNCHANGED <<process, detail, card>>

----------------------------------------------------------------------------
\* The page already has all of it (204).
NothingNew ==
  LET a == request.answer
  IN  a.output = <<>> /\ a.cursor = request.cursor /\ ~a.more /\ a.status = request.asked

\* A page that was loaded knows the status only of a process that was running.
AtLoad(status) == IF status = "running" THEN status ELSE None

\* updateProcess, the feed of registerLogs; the first answer is the page itself.
Show ==
  /\ request.step = "answered"
  /\ LET a == request.answer
     IN  card' = IF NothingNew THEN card
                 ELSE [loaded |-> TRUE, shown |-> card.shown \o a.output, cursor |-> a.cursor,
                       status |-> IF card.loaded THEN a.status ELSE AtLoad(a.status),
                       badge |-> a.status,
                       said |-> IF card.loaded THEN a.status ELSE None,
                       stopped |-> a.status # "running" /\ ~a.more]
  /\ request' = Idle
  /\ UNCHANGED <<process, detail>>

\* The page loads although its log could not be read, or an audit card without its log.
ShowWithoutLog ==
  /\ request.step = "listed" /\ ~card.loaded
  /\ card' = [card EXCEPT !.loaded = TRUE, !.status = AtLoad(request.listed),
                        !.badge = request.listed]
  /\ request' = Idle
  /\ UNCHANGED <<process, detail>>

\* An error, a timeout, a hidden tab: the answer is not used, the page asks again.
GiveUp ==
  /\ request # Idle
  /\ request' = Idle
  /\ UNCHANGED <<process, detail, card>>

\* The details of the record, collected on their own.
AskDetail ==
  /\ card.loaded /\ detail = None
  /\ detail' = process.record
  /\ UNCHANGED <<process, request, card>>

\* Faulty variant: details are shown as they were collected.
MergeAsCollected ==
  /\ detail # None
  /\ card' = [card EXCEPT !.badge = detail]
  /\ detail' = None
  /\ UNCHANGED <<process, request>>

\* mergeDetail: what the log said last goes before what the details say.
Merge ==
  /\ detail # None
  /\ card' = [card EXCEPT !.badge = IF card.said # None THEN card.said ELSE detail]
  /\ detail' = None
  /\ UNCHANGED <<process, request>>

DropDetail == detail # None /\ detail' = None /\ UNCHANGED <<process, request, card>>

Next ==
  \/ Write \/ Exit \/ Finish \/ Restart \/ Lose
  \/ Ask \/ List \/ Lookup \/ Read \/ Answer \/ Show \/ ShowWithoutLog \/ GiveUp
  \/ AskDetail \/ Merge \/ DropDetail

Spec == Init /\ [][Next]_logVars

----------------------------------------------------------------------------
Statuses == {"running", "over"}

\* The state is well formed (the log of the process, the request for it, its card).
TypeOK ==
  /\ process \in [written : 0..MaxBytes, alive : BOOLEAN, held : BOOLEAN, record : Statuses]
  /\ request.step \in {"idle", "asked", "listed", "found", "read", "answered"}
  /\ detail \in Statuses \cup {None}
  /\ card \in [loaded : BOOLEAN, shown : Seq(1..MaxBytes),
               cursor : [offset : 0..MaxBytes, pending : 0..1],
               status : Statuses \cup {None}, badge : Statuses \cup {None},
               said : Statuses \cup {None}, stopped : BOOLEAN]

\* A page that stopped asking shows every byte the process wrote, once and in order,
\* although the process ended, and the pipe drained, between any two reads.
TailIsShown ==
  card.stopped => card.shown = [i \in 1..process.written |-> i]

\* Once the log of a card said that the process is over, details that were collected
\* earlier and arrive later never show it as running again.
OverStaysOver ==
  [][(card.said = "over") => (card'.badge = "over")]_logVars
=============================================================================
