-------------------------------- MODULE LiveFeeds --------------------------------
(***************************************************************************)
(* Live pages of the console: a page sends the revision it holds and gets  *)
(* the fields that changed since (live-snapshots.ts and live-updates.js,   *)
(* audit-updates.js; telemetry-stream.ts and telemetry.js).                *)
(*                                                                         *)
(* The server keeps a few snapshots to compare with and forgets them when  *)
(* it likes: by age, by size, when it restarts.  A handler collects the    *)
(* contents first and answers later; a page has one request at a time, but *)
(* the handler of one it gave up goes on.  The pages here are of one       *)
(* viewer and one address; snapshots of the others only compete for the    *)
(* space.  A snapshot of live-snapshots.ts is named by a hash of its       *)
(* contents, one of telemetry-stream.ts by a random number.                *)
(***************************************************************************)
EXTENDS Naturals, Sequences, FiniteSets

CONSTANTS
  Pages,
  Fields,
  Values,
  Handlers,
  MaxKept,     \* snapshots kept for one viewer and address
  MaxChanges,  \* changes of the contents: a bound
  MaxNumbers,  \* numbers given to snapshots: a bound
  None

VARIABLES
  stream,      \* the pages are those of telemetry.js, with its server; or the others
  past,        \* the contents of the server, oldest first; the last are the present ones
  kept,        \* the snapshots, least recently used first
  numbers,     \* numbers given to snapshots so far
  page,        \* what each page holds
  handler      \* the handlers at work

liveVars == <<stream, past, kept, numbers, page, handler>>

Contents == [Fields -> Values \cup {None}]
Nothing == [f \in Fields |-> None]
NewPage == [revision |-> None, model |-> Nothing, at |-> 0, waits |-> None]
Free == [step |-> "free"]

Present == past[Len(past)]

LiveFeedsAssumption ==
  /\ None \notin Handlers /\ None \notin [fields : Contents, number : Nat]
  /\ {MaxKept, MaxChanges, MaxNumbers} \subseteq Nat

Init ==
  /\ stream \in BOOLEAN
  /\ past \in {<<c>> : c \in Contents}
  /\ kept = <<>>
  /\ numbers = 0
  /\ page = [p \in Pages |-> NewPage]
  /\ handler = [h \in Handlers |-> Free]

----------------------------------------------------------------------------
\* remove(): a snapshot is in the Map once.
Without(s, r) ==
  LET Is(i) == s[i] = r
  IN  IF \E i \in 1..Len(s) : Is(i)
      THEN LET i == CHOOSE i \in 1..Len(s) : Is(i)
           IN  SubSeq(s, 1, i - 1) \o SubSeq(s, i + 1, Len(s))
      ELSE s
Keeps(r) == \E i \in 1..Len(kept) : kept[i] = r
\* Faulty variant: nothing is dropped.
NewestAll(s) == s

Newest(s) == IF Len(s) > MaxKept THEN SubSeq(s, Len(s) - MaxKept + 1, Len(s)) ELSE s

\* The contents of the account or of the host change.
Change ==
  /\ Len(past) <= MaxChanges
  /\ \E f \in Fields, v \in Values \cup {None} :
       /\ v # Present[f]
       /\ past' = Append(past, [Present EXCEPT ![f] = v])
  /\ UNCHANGED <<stream, kept, numbers, page, handler>>

\* refresh(): one request at a time, with the revision the page holds.
Request(p) ==
  /\ page[p].waits = None
  /\ \E h \in Handlers :
       /\ handler[h] = Free
       /\ handler' = [handler EXCEPT ![h] =
            [step |-> "asked", since |-> page[p].revision]]
       /\ page' = [page EXCEPT ![p].waits = h]
  /\ UNCHANGED <<stream, past, kept, numbers>>

\* The handler has collected the contents; what follows is an await away.
Collect(h) ==
  /\ handler[h].step = "asked"
  /\ handler' = [handler EXCEPT ![h] =
       [step |-> "collected", since |-> @.since, at |-> Len(past)]]
  /\ UNCHANGED <<stream, past, kept, numbers, page>>

Answer(h, answer) ==
  handler' = [handler EXCEPT ![h] = [step |-> "answered", at |-> @.at, answer |-> answer]]

Unchanged == [kind |-> "unchanged"]

\* The fields that differ from the base; all of them without one, which is a reset.
Patch(base, revision) ==
  [kind |-> "patch", revision |-> revision, base |-> base,
   changes |-> [f \in {g \in Fields : revision.fields[g] # None
                         /\ (base = None \/ base.fields[g] # revision.fields[g])} |->
                  revision.fields[f]],
   removed |-> IF base = None THEN {}
               ELSE {f \in Fields : base.fields[f] # None /\ revision.fields[f] = None}]

\* LiveSnapshots.send.
Send(h) ==
  /\ handler[h].step = "collected" /\ ~stream
  /\ LET since == handler[h].since
         revision == [fields |-> past[handler[h].at], number |-> 0]
         base == IF since # None /\ Keeps(since) THEN since ELSE None
     IN  /\ kept' = Newest(Append(Without(kept, revision), revision))
         /\ Answer(h, IF since = revision THEN Unchanged ELSE Patch(base, revision))
  /\ UNCHANGED <<stream, past, numbers, page>>

\* TelemetryStream.respond: the newest snapshot is used again if it is the same.
Respond(h) ==
  /\ handler[h].step = "collected" /\ stream
  /\ LET since == handler[h].since
         fields == past[handler[h].at]
         base == IF since # None /\ Keeps(since) THEN since ELSE None
         latest == \E i \in 1..Len(kept) : kept[i].number = numbers /\ kept[i].fields = fields
         revision == [fields |-> fields, number |-> IF latest THEN numbers ELSE numbers + 1]
     IN  IF base # None /\ base.fields = fields
         THEN /\ kept' = Append(Without(kept, base), base)
              /\ Answer(h, Unchanged)
              /\ UNCHANGED numbers
         ELSE /\ revision.number <= MaxNumbers
              /\ kept' = Newest(Append(Without(kept, revision), revision))
              /\ numbers' = revision.number
              /\ Answer(h, Patch(base, revision))
  /\ UNCHANGED <<stream, past, page>>

\* By age, by size, for other viewers, by a restart.
Forget ==
  /\ \E i \in 1..Len(kept) : kept' = Without(kept, kept[i])
  /\ UNCHANGED <<stream, past, numbers, page, handler>>

----------------------------------------------------------------------------
Waits(p, h) == page[p].waits = h /\ handler[h].step = "answered"

\* Faulty variant: the whole contents are laid over what the page had.
AppliedOver(p, patch) ==
  [f \in Fields |-> IF f \in DOMAIN patch.changes THEN patch.changes[f]
                    ELSE IF f \in patch.removed THEN None ELSE page[p].model[f]]

\* updateSnapshot, applyDelta, streamResult: the fields of the answer over those the
\* page has, or over none after a reset; a page of telemetry wants its own base.
Applied(p, patch) ==
  LET model == IF patch.base = None THEN Nothing ELSE page[p].model
  IN  [f \in Fields |-> IF f \in DOMAIN patch.changes THEN patch.changes[f]
                        ELSE IF f \in patch.removed THEN None ELSE model[f]]

Apply(p, h) ==
  /\ Waits(p, h)
  /\ LET a == handler[h].answer
         accepted == ~stream \/ a.base \in {None, page[p].revision}
     IN  page' = [page EXCEPT ![p] =
           IF a.kind = "unchanged" THEN [@ EXCEPT !.at = handler[h].at, !.waits = None]
           ELSE IF accepted THEN [revision |-> a.revision, model |-> Applied(p, a),
                                  at |-> handler[h].at, waits |-> None]
           ELSE [@ EXCEPT !.revision = None, !.waits = None]]
  /\ handler' = [handler EXCEPT ![h] = Free]
  /\ UNCHANGED <<stream, past, kept, numbers>>

\* The tab is hidden, the request times out, the answer is lost: the page may ask again
\* while the handler is still at work.
Abandon(p) ==
  /\ page[p].waits # None
  /\ page' = [page EXCEPT ![p].waits = None]
  /\ UNCHANGED <<stream, past, kept, numbers, handler>>

Drop(h) ==
  /\ handler[h].step = "answered"
  /\ \A p \in Pages : page[p].waits # h
  /\ handler' = [handler EXCEPT ![h] = Free]
  /\ UNCHANGED <<stream, past, kept, numbers, page>>

Reload(p) ==
  /\ page' = [page EXCEPT ![p] = NewPage]
  /\ UNCHANGED <<stream, past, kept, numbers, handler>>

Next ==
  \/ Change \/ Forget
  \/ \E p \in Pages : \/ Request(p) \/ Abandon(p) \/ Reload(p)
                      \/ \E h \in Handlers : Apply(p, h)
  \/ \E h \in Handlers : Collect(h) \/ Send(h) \/ Respond(h) \/ Drop(h)

Spec == Init /\ [][Next]_liveVars

----------------------------------------------------------------------------
Revisions == [fields : Contents, number : 0..MaxNumbers]

\* The state is well formed (the snapshots of the server, the pages, the handlers).
TypeOK ==
  /\ stream \in BOOLEAN
  /\ past \in Seq(Contents) /\ Len(past) \in 1..MaxChanges + 1
  /\ kept \in Seq(Revisions) /\ Len(kept) <= MaxKept
  /\ numbers \in 0..MaxNumbers
  /\ page \in [Pages -> [revision : Revisions \cup {None}, model : Contents,
                        at : 0..Len(past), waits : Handlers \cup {None}]]
  /\ \A h \in Handlers :
       handler[h].step \in {"free", "asked", "collected", "answered"}

View(p) ==
  IF page[p].revision = None THEN [at |-> 0, shows |-> None]
  ELSE [at |-> page[p].at, shows |-> page[p].model]

Promise == INSTANCE LiveView WITH log <- past, view <- [p \in Pages |-> View(p)]

\* The pages implement LiveView: patches against whatever base the server still has,
\* with answers lost and handlers overtaken, never show a mixture of two moments and
\* never go back.
PagesFollowTheServer == Promise!Spec
=============================================================================
