----------------------------- MODULE MC_Console -----------------------------
(***************************************************************************)
(* Instance for TLC of the accounts behind the console and of the pages it *)
(* shows.  They share no state in this project, so a behaviour is one of   *)
(* the part chosen at the start; the others stay as they began.            *)
(***************************************************************************)
EXTENDS Accounts, TLC

CONSTANTS
  Pages, Fields, Values, MaxKept, MaxContents, MaxNumbers,  \* LiveFeeds
  PageBytes, MaxBytes                                       \* LogFeed

VARIABLES
  part,
  stream, past, kept, numbers, page, handler,
  process, logRequest, detail, card

Live == INSTANCE LiveFeeds WITH MaxChanges <- MaxContents
Log == INSTANCE LogFeed WITH request <- logRequest

ASSUME ConsoleAssumption == Live!LiveFeedsAssumption /\ Log!LogAssumption

livePart == <<stream, past, kept, numbers, page, handler>>
logPart == <<process, logRequest, detail, card>>
consoleVars == <<part, accountVars, livePart, logPart>>

ConsoleInit ==
  /\ part \in {"accounts", "live", "log"}
  /\ Init /\ Live!Init /\ Log!Init
  /\ part # "accounts" => ~open /\ \A t \in Tokens : sessions[t] = None
  /\ part # "live" => ~stream /\ past = <<[f \in Fields |-> None]>>

AccountStep == part = "accounts" /\ Next /\ UNCHANGED <<part, livePart, logPart>>
LiveStep == part = "live" /\ Live!Next /\ UNCHANGED <<part, accountVars, logPart>>
LogStep == part = "log" /\ Log!Next /\ UNCHANGED <<part, accountVars, livePart>>

ConsoleNext == AccountStep \/ LiveStep \/ LogStep

ConsoleSpec == ConsoleInit /\ [][ConsoleNext]_consoleVars

AllChanges == [role : {"admin", "user"}, status : {"active", "disabled"}]
                \ {[role |-> "user", status |-> "disabled"]}

Symmetry == Permutations(Accounts \ Legacy) \cup Permutations(Handlers)

----------------------------------------------------------------------------
\* The state of every part is well formed (users.json and its handlers, the snapshots
\* and the pages, the log and its page).
ConsoleTypeOK ==
  /\ part = "accounts" => TypeOK
  /\ part = "live" => Live!TypeOK
  /\ part = "log" => Log!TypeOK

\* LiveFeeds implements LiveView: pages show the server's contents of one moment
\* (live-snapshots.ts, telemetry-stream.ts and the scripts of the pages).
PagesFollowTheServer == Live!PagesFollowTheServer

\* LogFeed: a page that stopped asking shows the whole log (process-service.ts,
\* admin-routes.ts, live-updates.js, audit-updates.js).
TailIsShown == Log!TailIsShown

\* LogFeed: what the log said about the end is not undone by older details
\* (audit-updates.js).
OverStaysOver == Log!OverStaysOver
=============================================================================
