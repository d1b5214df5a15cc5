--------------------------------- MODULE Tunnels ---------------------------------
(***************************************************************************)
(* The byte streams of previews: signed, timed requests of the gateway     *)
(* (ipc-client.ts) that the runner turns into connections to a server of   *)
(* the account (ipc-server.ts).                                            *)
(*                                                                         *)
(* A connection carries one request line.  The same line may be delivered  *)
(* again on another connection, at any later time.  Time is a clock of     *)
(* ticks; the gateway's may be ahead of the runner's or behind it by Skew. *)
(* What the runner knows of tunnels is in its memory: a restart empties    *)
(* it, and a clock that is set back makes old lines fresh again.           *)
(* The signature itself is not modelled: every line is one the gateway     *)
(* signed.                                                                 *)
(***************************************************************************)
EXTENDS Integers, FiniteSets

CONSTANTS
  Ids,         \* request ids
  Conns,       \* connections to the runner's socket
  MaxAge,      \* TUNNEL_MAX_AGE_MS, in ticks
  Skew,        \* difference of the two clocks
  MaxTunnels,  \* MAX_TUNNELS
  MaxSeen,     \* size of the table of seen ids
  MaxTime,     \* the last tick: a bound
  MaxUpsets,   \* restarts of the runner and reversals of its clock: a bound
  None

TunnelsAssumption ==
  /\ MaxAge \in Nat /\ Skew \in 0..MaxAge /\ MaxTunnels \in Nat /\ MaxSeen \in Nat \ {0}
  /\ MaxTime \in Nat /\ MaxUpsets \in Nat /\ None \notin Ids \cup Int /\ IsFiniteSet(Conns)

VARIABLES
  clock,       \* the runner's clock
  issued,      \* when the gateway says it issued each id, None before
  seen,        \* the runner's table: id -> issue time, None when absent
  active,      \* the runner's counter of open tunnels
  conn,        \* the connections
  upsets,
  accepted,    \* history: how often each id was accepted
  exposed      \* history: how often an upset made its line acceptable again

tunnelVars == <<clock, issued, seen, active, conn, upsets, accepted, exposed>>

States == {"free", "sent", "connecting", "abandoned", "open"}
Times == (0 - Skew)..(MaxTime + Skew)
Free == [state |-> "free", id |-> None]

Init ==
  /\ clock = 0
  /\ issued = [i \in Ids |-> None]
  /\ seen = [i \in Ids |-> None]
  /\ active = 0
  /\ conn = [c \in Conns |-> Free]
  /\ upsets = 0
  /\ accepted = [i \in Ids |-> 0]
  /\ exposed = [i \in Ids |-> 0]

----------------------------------------------------------------------------
Abs(n) == IF n < 0 THEN 0 - n ELSE n
InState(c, s) == conn[c].state = s
Becomes(c, s) == conn' = [conn EXCEPT ![c].state = s]
Closed(c) == conn' = [conn EXCEPT ![c] = Free]

\* IpcClient.tunnel: a fresh id, signed with the gateway's time, on a new socket.
Issue(i, c) ==
  /\ issued[i] = None
  /\ InState(c, "free")
  /\ \E t \in (clock - Skew)..(clock + Skew) : issued' = [issued EXCEPT ![i] = t]
  /\ conn' = [conn EXCEPT ![c] = [state |-> "sent", id |-> i]]
  /\ UNCHANGED <<clock, seen, active, upsets, accepted, exposed>>

\* The same line is delivered once more.
Repeat(i, c) ==
  /\ issued[i] # None
  /\ InState(c, "free")
  /\ conn' = [conn EXCEPT ![c] = [state |-> "sent", id |-> i]]
  /\ UNCHANGED <<clock, issued, seen, active, upsets, accepted, exposed>>

\* Faulty variant: ids are forgotten after the age of a line, not twice it.
PurgedEarly ==
  [i \in Ids |-> IF seen[i] # None /\ 2 * (clock - seen[i]) > MaxAge THEN None ELSE seen[i]]

\* The table without the entries that have aged out.
Purged ==
  [i \in Ids |-> IF seen[i] # None /\ clock - seen[i] > 2 * MaxAge THEN None ELSE seen[i]]

Fresh(i) == Abs(clock - issued[i]) <= MaxAge

\* openTunnel(), up to the connection to the server: all in one turn.
Open(c) ==
  /\ InState(c, "sent")
  /\ LET i == conn[c].id
         p == Purged
         valid == /\ Fresh(i)
                  /\ p[i] = None
                  /\ Cardinality({j \in Ids : p[j] # None}) < MaxSeen
     IN  \/ /\ ~valid
            /\ seen' = p
            /\ Closed(c)
            /\ UNCHANGED accepted
         \/ /\ valid
            /\ seen' = [p EXCEPT ![i] = issued[i]]
            /\ IF active >= MaxTunnels
               THEN Closed(c) /\ UNCHANGED accepted
               ELSE /\ Becomes(c, "connecting")
                    /\ accepted' = [accepted EXCEPT ![i] = @ + 1]
  /\ UNCHANGED <<clock, issued, active, upsets, exposed>>

\* The client gives up or goes away before the server answered.
Abandon(c) ==
  /\ InState(c, "sent") \/ InState(c, "connecting")
  /\ IF InState(c, "sent") THEN Closed(c) ELSE Becomes(c, "abandoned")
  /\ UNCHANGED <<clock, issued, seen, active, upsets, accepted, exposed>>

\* connectLocal() succeeds: the tunnel is counted, unless the client is gone.
Connected(c) ==
  /\ \/ InState(c, "connecting") /\ Becomes(c, "open") /\ active' = active + 1
     \/ InState(c, "abandoned") /\ Closed(c) /\ UNCHANGED active
  /\ UNCHANGED <<clock, issued, seen, upsets, accepted, exposed>>

\* No server listens on either loopback address.
Unavailable(c) ==
  /\ InState(c, "connecting") \/ InState(c, "abandoned")
  /\ Closed(c)
  /\ UNCHANGED <<clock, issued, seen, active, upsets, accepted, exposed>>

\* Either end closes; both sockets' events lead to one close().
Close(c) ==
  /\ InState(c, "open")
  /\ active' = active - 1
  /\ Closed(c)
  /\ UNCHANGED <<clock, issued, seen, upsets, accepted, exposed>>

Tick ==
  /\ clock < MaxTime
  /\ clock' = clock + 1
  /\ UNCHANGED <<issued, seen, active, conn, upsets, accepted, exposed>>

\* The line of an id is neither in the table nor too old.
Acceptable(i) == issued[i] # None /\ seen[i] = None /\ clock - issued[i] <= MaxAge

Upset ==
  /\ upsets < MaxUpsets
  /\ upsets' = upsets + 1
  /\ exposed' = [i \in Ids |-> IF ~Acceptable(i) /\ Acceptable(i)'
                               THEN exposed[i] + 1 ELSE exposed[i]]

\* The runner ends, its connections with it, and startIpcServer() begins anew.
Restart ==
  /\ seen' = [i \in Ids |-> None]
  /\ active' = 0
  /\ conn' = [c \in Conns |-> Free]
  /\ UNCHANGED <<clock, issued, accepted>>
  /\ Upset

SetBack ==
  /\ clock' \in 0..(clock - 1)
  /\ UNCHANGED <<issued, seen, active, conn, accepted>>
  /\ Upset

Next ==
  \/ \E c \in Conns :
       \/ \E i \in Ids : Issue(i, c) \/ Repeat(i, c)
       \/ Open(c) \/ Abandon(c) \/ Connected(c) \/ Unavailable(c) \/ Close(c)
  \/ Tick \/ Restart \/ SetBack

Spec == Init /\ [][Next]_tunnelVars

----------------------------------------------------------------------------
\* The state is well formed (TunnelState and the sockets of ipc-server.ts); the counter
\* that limits the tunnels is the number of the open ones, whatever closes first and
\* however many clients give up while the server is connecting.
TypeOK ==
  /\ clock \in 0..MaxTime
  /\ issued \in [Ids -> Times \cup {None}]
  /\ seen \in [Ids -> Times \cup {None}]
  /\ active = Cardinality({c \in Conns : InState(c, "open")})
  /\ conn \in [Conns -> [state : States, id : Ids \cup {None}]]
  /\ upsets \in 0..MaxUpsets
  /\ accepted \in [Ids -> Nat] /\ exposed \in [Ids -> Nat]

\* A signed request opens one tunnel, however often and whenever it is presented, and
\* one more for each restart of the runner, or reversal of its clock, that made its line
\* acceptable again; without such an upset an id is forgotten only when its line is too
\* old to be accepted.
OneTunnelPerRequest == \A i \in Ids : accepted[i] <= 1 + exposed[i]
=============================================================================
