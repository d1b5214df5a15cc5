----------------------------- MODULE ProcessService -----------------------------
(***************************************************************************)
(* The process service of a runner                                         *)
(* (packages/runner/src/process-service.ts): commands and background       *)
(* processes are launched one at a time, recorded in a durable registry,   *)
(* followed until they have exited and their output is drained, stopped on *)
(* request, and found again after the runner restarts.                     *)
(*                                                                         *)
(* An execution is identified by its record id; "the PID still refers to   *)
(* the recorded process" (PID and start time) is its process being alive.  *)
(* The registry file is replaced atomically and its updates are queued, so *)
(* an update is one step.  A process may die at any moment, which covers   *)
(* signals it honours; a restart may leave some processes running.         *)
(***************************************************************************)
EXTENDS Naturals, FiniteSets

CONSTANTS
  Execs,          \* execution ids
  Stoppers,       \* concurrent stop() calls
  MaxConcurrent,  \* config.maxConcurrentProcesses
  MaxCrashes,     \* bound: runner restarts
  MaxFaults       \* bound: registry writes that fail

ASSUME LimitAssumption == MaxConcurrent \in Nat \ {0}
ASSUME BoundAssumption == MaxCrashes \in Nat /\ MaxFaults \in Nat

VARIABLES
  rec,         \* registry on disk: status of each record
  mode,        \* "background" or "command"
  proc,        \* the process the execution spawned
  pipe,        \* its output: "open" until everyone holding it has closed it
  launch,      \* progress of launch()
  completion,  \* logCompletions: the promise held for the execution
  stopReq,     \* stopRequests
  stops,       \* progress of each stop() call
  up,          \* is the runner running?
  crashes, faults,
  asked,       \* history: executions a stop() call signalled
  lost,        \* history: processes of a launch that a crash cut off
  faulted      \* history: executions whose final registry write failed

disk   == <<rec, mode>>
os     == <<proc, pipe>>
memory == <<launch, completion, stopReq, stops, up>>
bounds == <<crashes, faults>>
ghosts == <<asked, lost, faulted>>
vars   == <<disk, os, memory, bounds, ghosts>>

NoStop == [step |-> "idle"]
Waits  == {"none", "drained", "full"}
StopCall ==
  {NoStop} \cup [step: {"check", "mark", "signal", "term", "kill", "write"}, exec: Execs]
           \cup [step: {"await"}, exec: Execs, wait: Waits]

Alive(e)   == proc[e] = "alive"
Drained(e) == pipe[e] \in {"closed", "lost"}
Running    == {e \in Execs : rec[e] = "running"}
Background == {e \in Execs : mode[e] = "background"}

Init ==
  /\ rec = [e \in Execs |-> "none"]
  /\ mode \in [Execs -> {"background", "command"}]
  /\ proc = [e \in Execs |-> "none"]
  /\ pipe = [e \in Execs |-> "none"]
  /\ launch = [e \in Execs |-> "idle"]
  /\ completion = [e \in Execs |-> "none"]
  /\ stopReq = {}
  /\ stops = [c \in Stoppers |-> NoStop]
  /\ up = TRUE
  /\ crashes = 0 /\ faults = 0
  /\ asked = {} /\ lost = {} /\ faulted = {}

--------------------------------------------------------------------------------
(* launch(), under the one permit of the launches semaphore: a background  *)
(* launch is refused at the limit of running background records.           *)
Permitted == \A f \in Execs : launch[f] = "idle"

LaunchBegin(e) ==
  /\ up /\ Permitted /\ rec[e] = "none" /\ proc[e] = "none"
  /\ mode[e] = "background" => Cardinality(Running \cap Background) < MaxConcurrent
  /\ launch' = [launch EXCEPT ![e] = "admitted"]
  /\ UNCHANGED <<disk, os, completion, stopReq, stops, up, bounds, ghosts>>

Spawn(e) ==
  /\ up /\ launch[e] = "admitted"
  /\ proc' = [proc EXCEPT ![e] = "alive"]
  /\ pipe' = [pipe EXCEPT ![e] = "open"]
  /\ launch' = [launch EXCEPT ![e] = "spawned"]
  /\ UNCHANGED <<disk, completion, stopReq, stops, up, bounds, ghosts>>

(* The output promise is stored before the record is pushed.               *)
LaunchRecord(e) ==
  /\ up /\ launch[e] = "spawned"
  /\ completion' = [completion EXCEPT ![e] = "drained"]
  /\ rec' = [rec EXCEPT ![e] = "running"]
  /\ launch' = [launch EXCEPT ![e] = "recorded"]
  /\ UNCHANGED <<mode, os, stopReq, stops, up, bounds, ghosts>>

(* The promise that also records the exit replaces it, and the permit is   *)
(* given back.                                                             *)
LaunchReturn(e) ==
  /\ up /\ launch[e] = "recorded"
  /\ completion' = [completion EXCEPT ![e] = "full"]
  /\ launch' = [launch EXCEPT ![e] = "idle"]
  /\ UNCHANGED <<disk, os, stopReq, stops, up, bounds, ghosts>>

(* Faulty variant: a failed launch leaves the process it started.          *)
LaunchFailLeaving(e) ==
  /\ up /\ launch[e] \in {"admitted", "spawned"} /\ faults < MaxFaults
  /\ faults' = faults + 1
  /\ launch' = [launch EXCEPT ![e] = "idle"]
  /\ UNCHANGED <<disk, os, completion, stopReq, stops, up, crashes, ghosts>>

(* The catch block: SIGKILL for what was spawned, and no entry stays.      *)
LaunchFail(e) ==
  /\ up /\ launch[e] \in {"admitted", "spawned"} /\ faults < MaxFaults
  /\ faults' = faults + 1
  /\ proc' = [proc EXCEPT ![e] = IF Alive(e) THEN "dead" ELSE @]
  /\ launch' = [launch EXCEPT ![e] = "idle"]
  /\ completion' = [completion EXCEPT ![e] = "none"]
  /\ stopReq' = stopReq \ {e}
  /\ UNCHANGED <<disk, pipe, stops, up, crashes, ghosts>>

--------------------------------------------------------------------------------
(* The operating system.                                                   *)
Exit(e) ==
  /\ Alive(e)
  /\ proc' = [proc EXCEPT ![e] = "dead"]
  /\ UNCHANGED <<disk, pipe, memory, bounds, ghosts>>

(* Descendants may hold the output open after the process has died.        *)
PipeCloses(e) ==
  /\ proc[e] = "dead" /\ pipe[e] = "open"
  /\ pipe' = [pipe EXCEPT ![e] = "closed"]
  /\ UNCHANGED <<disk, proc, memory, bounds, ghosts>>

(* The exit of a drained execution is recorded, if its record still says   *)
(* running; its entries go whether or not the registry could be written.   *)
Forget(e) ==
  /\ completion' = [completion EXCEPT ![e] = "none"]
  /\ stopReq' = stopReq \ {e}

(* Faulty variants: the exit is recorded without waiting for the output;   *)
(* the promise is dropped without recording it; any stop counts.           *)
CompleteUndrained(e) ==
  /\ up /\ completion[e] = "full" /\ ~Alive(e)
  /\ rec' = [rec EXCEPT ![e] = IF @ # "running" THEN @ ELSE "exited"]
  /\ Forget(e)
  /\ UNCHANGED <<mode, os, launch, stops, up, bounds, ghosts>>

CompleteSilently(e) ==
  /\ up /\ completion[e] = "full" /\ pipe[e] = "closed"
  /\ Forget(e)
  /\ UNCHANGED <<disk, os, launch, stops, up, bounds, ghosts>>

Complete(e) ==
  /\ up /\ completion[e] = "full" /\ pipe[e] = "closed"
  /\ rec' = [rec EXCEPT ![e] = IF @ # "running" THEN @
                               ELSE IF e \in stopReq THEN "stopped" ELSE "exited"]
  /\ Forget(e)
  /\ UNCHANGED <<mode, os, launch, stops, up, bounds, ghosts>>

CompleteFails(e) ==
  /\ up /\ completion[e] = "full" /\ pipe[e] = "closed" /\ faults < MaxFaults
  /\ faults' = faults + 1
  /\ faulted' = faulted \cup {e}
  /\ Forget(e)
  /\ UNCHANGED <<disk, os, launch, stops, up, crashes, asked, lost>>

(* refresh(), called by list(), and initialize() after a restart.          *)
Refreshed == [e \in Execs |->
  IF rec[e] = "running" /\ completion[e] = "none" /\ ~Alive(e) THEN "exited" ELSE rec[e]]

Refresh ==
  /\ up /\ rec # Refreshed
  /\ rec' = Refreshed
  /\ UNCHANGED <<mode, os, memory, bounds, ghosts>>

--------------------------------------------------------------------------------
(* stop(): each await is a point where anything else may happen.           *)
At(c, step) == up /\ stops[c].step = step

Goto(c, step, e) == stops' = [stops EXCEPT ![c] = [step |-> step, exec |-> e]]

Return(c) == stops' = [stops EXCEPT ![c] = NoStop]

(* The record is read; an unknown or finished execution is answered here.  *)
StopRead(c, e) ==
  /\ At(c, "idle") /\ rec[e] = "running"
  /\ Goto(c, "check", e)
  /\ UNCHANGED <<disk, os, launch, completion, stopReq, up, bounds, ghosts>>

(* sameProcess(): a process that is gone is marked, unless its completion  *)
(* will do that, and the call fails with PROCESS_STALE.                    *)
StopCheck(c) ==
  /\ At(c, "check")
  /\ LET e == stops[c].exec IN
       \/ Alive(e) /\ Goto(c, "signal", e)
       \/ ~Alive(e) /\ completion[e] = "none" /\ Goto(c, "mark", e)
       \/ ~Alive(e) /\ completion[e] # "none" /\ Return(c)
  /\ UNCHANGED <<disk, os, launch, completion, stopReq, up, bounds, ghosts>>

StopMark(c) ==
  /\ At(c, "mark")
  /\ rec' = [rec EXCEPT ![stops[c].exec] = "exited"]
  /\ Return(c)
  /\ UNCHANGED <<mode, os, launch, completion, stopReq, up, bounds, ghosts>>

(* Faulty variant: the record is written without waiting for the death.    *)
StopSignalAndWrite(c) ==
  /\ At(c, "signal")
  /\ stopReq' = stopReq \cup {stops[c].exec}
  /\ asked' = asked \cup {stops[c].exec}
  /\ Goto(c, "write", stops[c].exec)
  /\ UNCHANGED <<disk, os, launch, completion, up, bounds, lost, faulted>>

(* SIGTERM to the group, or to the process; both fail if nothing is left,  *)
(* and the request stays noted.                                            *)
StopSignal(c) ==
  /\ At(c, "signal")
  /\ stopReq' = stopReq \cup {stops[c].exec}
  /\ asked' = asked \cup {stops[c].exec}
  /\ \/ Goto(c, "term", stops[c].exec)
     \/ ~Alive(stops[c].exec) /\ Return(c)
  /\ UNCHANGED <<disk, os, launch, completion, up, bounds, lost, faulted>>

(* waitForExit(): once dead, the promise held for the execution, if any,   *)
(* is awaited; alive after two seconds, the group gets SIGKILL.            *)
StopWaited(c) ==
  /\ At(c, "term") \/ At(c, "kill")
  /\ ~Alive(stops[c].exec)
  /\ stops' = [stops EXCEPT ![c] =
       [step |-> "await", exec |-> stops[c].exec, wait |-> completion[stops[c].exec]]]
  /\ UNCHANGED <<disk, os, launch, completion, stopReq, up, bounds, ghosts>>

StopKill(c) ==
  /\ At(c, "term")
  /\ \/ Alive(stops[c].exec) /\ Goto(c, "kill", stops[c].exec)
     \/ ~Alive(stops[c].exec) /\ Return(c)
  /\ UNCHANGED <<disk, os, launch, completion, stopReq, up, bounds, ghosts>>

(* Settled in time: go on; the promise of a completion that could not      *)
(* write the registry rejects, and the call fails.                         *)
StopSettled(c) ==
  /\ At(c, "await")
  /\ LET e == stops[c].exec IN
       \/ stops[c].wait = "none" /\ Goto(c, "write", e)
       \/ stops[c].wait = "drained" /\ Drained(e) /\ Goto(c, "write", e)
       \/ stops[c].wait = "full" /\ completion[e] = "none"
          /\ IF e \in faulted THEN Return(c) ELSE Goto(c, "write", e)
  /\ UNCHANGED <<disk, os, launch, completion, stopReq, up, bounds, ghosts>>

StopWrite(c) ==
  /\ At(c, "write")
  /\ rec' = [rec EXCEPT ![stops[c].exec] = "stopped"]
  /\ Return(c)
  /\ UNCHANGED <<mode, os, launch, completion, stopReq, up, bounds, ghosts>>

(* Faulty variant: the wait for the output has no timeout.                 *)
StopGivesUpOnlyAlive(c) ==
  /\ At(c, "kill") /\ Alive(stops[c].exec)
  /\ Return(c)
  /\ UNCHANGED <<disk, os, launch, completion, stopReq, up, bounds, ghosts>>

(* PROCESS_STOP_FAILED: still alive after SIGKILL, output still draining   *)
(* after two seconds, or the registry could not be written.                *)
StopGivesUp(c) ==
  /\ \/ At(c, "kill") /\ Alive(stops[c].exec)
     \/ At(c, "await") /\ stops[c].wait # "none"
  /\ Return(c)
  /\ UNCHANGED <<disk, os, launch, completion, stopReq, up, bounds, ghosts>>

StopWriteFails(c) ==
  /\ At(c, "mark") \/ At(c, "write")
  /\ faults < MaxFaults
  /\ faults' = faults + 1
  /\ Return(c)
  /\ UNCHANGED <<disk, os, launch, completion, stopReq, up, crashes, ghosts>>

--------------------------------------------------------------------------------
(* The runner dies: what it held in memory is gone and the pipes break.    *)
Crash ==
  /\ up /\ crashes < MaxCrashes
  /\ crashes' = crashes + 1
  /\ up' = FALSE
  /\ \E S \in SUBSET {e \in Execs : Alive(e)} :
       proc' = [e \in Execs |-> IF Alive(e) /\ e \notin S THEN "dead" ELSE proc[e]]
  /\ pipe' = [e \in Execs |-> IF pipe[e] = "open" THEN "lost" ELSE pipe[e]]
  /\ lost' = lost \cup {e \in Execs : launch[e] = "spawned"}
  /\ launch' = [e \in Execs |-> "idle"]
  /\ completion' = [e \in Execs |-> "none"]
  /\ stopReq' = {}
  /\ stops' = [c \in Stoppers |-> NoStop]
  /\ UNCHANGED <<disk, faults, asked, faulted>>

(* initialize() runs before the socket is served.                          *)
Restart ==
  /\ ~up
  /\ up' = TRUE
  /\ rec' = Refreshed
  /\ UNCHANGED <<mode, os, launch, completion, stopReq, stops, bounds, ghosts>>

Stopping(c) ==
  \/ StopCheck(c) \/ StopMark(c) \/ StopSignal(c) \/ StopWaited(c) \/ StopKill(c)
  \/ StopSettled(c) \/ StopWrite(c) \/ StopGivesUp(c)

Next ==
  \/ \E e \in Execs :
       \/ LaunchBegin(e) \/ Spawn(e) \/ LaunchRecord(e) \/ LaunchReturn(e) \/ LaunchFail(e)
       \/ Exit(e) \/ PipeCloses(e) \/ Complete(e) \/ CompleteFails(e)
  \/ \E c \in Stoppers, e \in Execs : StopRead(c, e)
  \/ \E c \in Stoppers : Stopping(c) \/ StopWriteFails(c)
  \/ Refresh \/ Crash \/ Restart

Spec == Init /\ [][Next]_vars

(* Promise continuations run, a stop() call goes on or meets its timeouts, *)
(* and the container restart policy brings the runner back.                *)
Fairness ==
  /\ \A e \in Execs : WF_vars(LaunchRecord(e)) /\ WF_vars(LaunchReturn(e)) /\ WF_vars(Complete(e))
  /\ \A c \in Stoppers : WF_vars(Stopping(c))
  /\ WF_vars(Restart)

FairSpec == Spec /\ Fairness

--------------------------------------------------------------------------------
Statuses == {"none", "running", "exited", "stopped"}

TypeOK ==
  /\ rec \in [Execs -> Statuses]
  /\ mode \in [Execs -> {"background", "command"}]
  /\ proc \in [Execs -> {"none", "alive", "dead"}]
  /\ pipe \in [Execs -> {"none", "open", "closed", "lost"}]
  /\ launch \in [Execs -> {"idle", "admitted", "spawned", "recorded"}]
  /\ completion \in [Execs -> Waits]
  /\ stopReq \subseteq Execs
  /\ stops \in [Stoppers -> StopCall]
  /\ up \in BOOLEAN
  /\ crashes \in 0..MaxCrashes /\ faults \in 0..MaxFaults
  /\ asked \subseteq Execs /\ lost \subseteq Execs /\ faulted \subseteq Execs

Finished(e) == rec[e] \in {"exited", "stopped"}

(* A record that says the execution is over is about a process that is     *)
(* dead and whose output has been read to the end (or was cut off by a     *)
(* restart): logs() ends a log on the strength of the status alone.  And   *)
(* "stopped" is only ever said of an execution that a stop() call tried to *)
(* signal: a natural exit is not attributed to somebody else's stop.       *)
FinishedMeansOver ==
  \A e \in Execs :
    /\ Finished(e) => ~Alive(e) /\ Drained(e)
    /\ rec[e] = "stopped" => e \in asked

(* No process escapes the registry: one without a record is being launched *)
(* at this moment, or its launch was cut off by a crash; and of the others *)
(* no more background processes are alive than the limit allows, although  *)
(* the check reads the registry several steps before the record of the new *)
(* process is written.                                                     *)
LiveIsRegistered ==
  /\ \A e \in Execs :
       Alive(e) /\ rec[e] = "none" => launch[e] = "spawned" \/ e \in lost
  /\ Cardinality({e \in Background : Alive(e)} \ lost) <= MaxConcurrent

(* An execution whose end was seen by a running runner, or that was over   *)
(* when the runner starts again, does not stay "running": its completion   *)
(* or initialize() records the end, unless writing the registry failed.    *)
(* (One that survives a restart and dies later waits for the next list().) *)
ExitIsRecorded ==
  \A e \in Execs :
    rec[e] = "running" /\ ~Alive(e) /\ (pipe[e] = "closed" \/ ~up)
      ~> Finished(e) \/ e \in faulted

(* Every stop() call returns, whatever the process does with its signals   *)
(* and whoever keeps its output open.                                      *)
StopReturns == \A c \in Stoppers : stops[c] # NoStop ~> stops[c] = NoStop
================================================================================
