-------------------------------- MODULE LiveView --------------------------------
(***************************************************************************)
(* What a live page of the console promises to the person who looks at it: *)
(* it shows exactly what the server had at some moment, never a mixture of *)
(* two moments, and never goes back to an earlier one than it has shown.   *)
(***************************************************************************)
EXTENDS Naturals, Sequences

CONSTANTS Pages, Contents, None

VARIABLES
  log,   \* what the server has had, oldest first
  view   \* what each page shows, and the moment it is of; 0 before the first answer

liveViewVars == <<log, view>>
Blank == [at |-> 0, shows |-> None]

Init == (\E c \in Contents : log = <<c>>) /\ view = [p \in Pages |-> Blank]

Change(c) == log' = Append(log, c) /\ UNCHANGED view

Refresh(p) ==
  /\ \E i \in 1..Len(log) :
       /\ i >= view[p].at
       /\ view' = [view EXCEPT ![p] = [at |-> i, shows |-> log[i]]]
  /\ UNCHANGED log

Reload(p) == view' = [view EXCEPT ![p] = Blank] /\ UNCHANGED log

Next == (\E c \in Contents : Change(c)) \/ (\E p \in Pages : Refresh(p) \/ Reload(p))

Spec == Init /\ [][Next]_liveViewVars
=============================================================================
