------------------------ MODULE ProcessService_proofs ------------------------
(***************************************************************************)
(* Proofs about the process service: what is recorded as over is over, and *)
(* no process escapes the registry or the limit.  For any executions, any  *)
(* stop() calls, and any number of crashes and failed writes.              *)
(***************************************************************************)
EXTENDS ProcessService, FiniteSetTheorems, TLAPS

\* An execution: its process has an output from the start, which ends after it; a launch
\* has no record before it is recorded; without a promise the output of what is recorded
\* has been drained.
ExecInv(e) ==
  /\ proc[e] = "none" <=> pipe[e] = "none"
  /\ pipe[e] = "closed" => proc[e] = "dead"
  /\ launch[e] = "admitted" => proc[e] = "none" /\ rec[e] = "none"
  /\ launch[e] = "spawned" => proc[e] # "none" /\ rec[e] = "none"
  /\ launch[e] = "recorded" => rec[e] # "none"
  /\ rec[e] # "none" => proc[e] # "none"
  /\ rec[e] # "none" /\ completion[e] = "none" => Drained(e)
  /\ Finished(e) => ~Alive(e) /\ Drained(e)
  /\ rec[e] = "stopped" \/ e \in stopReq => e \in asked
  /\ Alive(e) /\ rec[e] = "none" => launch[e] = "spawned" \/ e \in lost

\* A stop() call is about an execution that has a record; what it is about to record is so.
CallInv(x) ==
  /\ x \in StopCall
  /\ x.step # "idle" => x.exec \in Execs /\ rec[x.exec] # "none"
  /\ x.step \in {"mark", "await", "write"} => ~Alive(x.exec)
  /\ x.step \in {"mark", "write"} => Drained(x.exec)
  /\ x.step = "await" /\ x.wait = "none" => Drained(x.exec)
  /\ x.step \in {"term", "kill", "await", "write"} => x.exec \in asked

\* The background processes that count: those recorded as running, and the one that was
\* let through and has no record yet.
Claimed == (Running \cap Background)
             \cup {e \in Background : launch[e] \in {"admitted", "spawned"}}

LimitInv ==
  /\ \A e, f \in Execs : launch[e] # "idle" /\ launch[f] # "idle" => e = f
  /\ IsFiniteSet(Claimed) /\ Cardinality(Claimed) <= MaxConcurrent

ServiceInv ==
  /\ TypeOK /\ LimitInv
  /\ \A e \in Execs : ExecInv(e)
  /\ \A c \in Stoppers : CallInv(stops[c])

LEMMA ServiceInit == Init => ServiceInv
<1> SUFFICES ASSUME Init
             PROVE  ServiceInv
  OBVIOUS
<1>1. TypeOK
  BY BoundAssumption DEF Init, TypeOK, Statuses, Waits, StopCall, NoStop
<1>2. LimitInv
  <2>1. Claimed = {}
    BY DEF Init, Claimed, Running, Background
  <2> QED
    BY <2>1, FS_EmptySet, LimitAssumption DEF Init, LimitInv
<1>3. \A e \in Execs : ExecInv(e)
  BY DEF Init, ExecInv, Finished, Alive
<1>4. CallInv(NoStop)
  BY DEF CallInv, NoStop, StopCall
<1>5. \A c \in Stoppers : CallInv(stops[c])
  BY <1>4 DEF Init
<1> QED
  BY <1>1, <1>2, <1>3, <1>5 DEF ServiceInv

\* The number of processes only grows when one is let through.
LEMMA LimitLasts ==
  ASSUME LimitInv, Claimed' \subseteq Claimed,
         \A e \in Execs : launch'[e] # "idle" => launch[e] # "idle"
  PROVE  LimitInv'
<1>1. PICK S, T : S = Claimed /\ T = Claimed'
  OBVIOUS
<1>2. IsFiniteSet(S) /\ Cardinality(S) <= MaxConcurrent /\ T \subseteq S
  BY <1>1 DEF LimitInv
<1>3. IsFiniteSet(T) /\ Cardinality(T) <= Cardinality(S)
  BY <1>2, FS_Subset
<1>4. Cardinality(T) \in Nat /\ Cardinality(S) \in Nat
  BY <1>2, <1>3, FS_CardinalityType
<1>5. Cardinality(T) <= MaxConcurrent
  BY <1>2, <1>3, <1>4, LimitAssumption
<1> QED
  BY <1>1, <1>3, <1>5 DEF LimitInv

\* What a call relies on lasts: records stay, the dead stay dead, what is drained stays so.
Lasting ==
  /\ \A e \in Execs : rec[e] # "none" =>
       /\ rec'[e] # "none"
       /\ ~Alive(e) => proc'[e] # "alive"
       /\ Drained(e) => pipe'[e] \in {"closed", "lost"}
  /\ asked \subseteq asked'

LEMMA CallLasts ==
  ASSUME Lasting, NEW x, CallInv(x)
  PROVE  CallInv(x)'
BY DEF Lasting, CallInv, Alive, Drained

LEMMA CallsLast ==
  ASSUME ServiceInv, Lasting, UNCHANGED stops
  PROVE  \A c \in Stoppers : CallInv(stops[c])'
<1> SUFFICES ASSUME NEW c \in Stoppers
             PROVE  CallInv(stops[c])'
  OBVIOUS
<1>1. PICK x : x = stops[c]
  OBVIOUS
<1>2. CallInv(x)'
  BY <1>1, CallLasts DEF ServiceInv
<1> QED
  BY <1>1, <1>2 DEF CallInv

\* One call goes on.
LEMMA CallGoesOn ==
  ASSUME ServiceInv, Lasting, NEW c \in Stoppers, NEW x, CallInv(x)',
         stops' = [stops EXCEPT ![c] = x]
  PROVE  \A d \in Stoppers : CallInv(stops[d])'
<1> SUFFICES ASSUME NEW d \in Stoppers
             PROVE  CallInv(stops[d])'
  OBVIOUS
<1>1. PICK y : y = (IF d = c THEN x ELSE stops[d])
  OBVIOUS
<1>2. CallInv(y)'
  <2>1. CASE d = c
    BY <1>1, <2>1
  <2>2. CASE d # c
    <3>1. CallInv(y)
      BY <1>1, <2>2 DEF ServiceInv
    <3> QED
      BY <3>1, CallLasts
  <2> QED
    BY <2>1, <2>2
<1>3. stops'[d] = y
  BY <1>1 DEF ServiceInv, TypeOK
<1> QED
  BY <1>2, <1>3 DEF CallInv

\* A call that is no more relies on nothing.
LEMMA NoCall == CallInv(NoStop)'
BY DEF CallInv, NoStop, StopCall

-----------------------------------------------------------------------------
(* The launch, and the operating system.                                     *)

LEMMA LaunchBeginStep ==
  ASSUME ServiceInv, NEW e \in Execs, LaunchBegin(e)
  PROVE  ServiceInv'
<1> USE DEF LaunchBegin, disk, os, bounds, ghosts
<1>1. TypeOK'
  BY DEF ServiceInv, TypeOK, StopCall
<1>2. LimitInv'
  <2>1. \A f, g \in Execs : launch'[f] # "idle" /\ launch'[g] # "idle" => f = g
    BY DEF ServiceInv, TypeOK, Permitted
  <2>2. PICK S, T : S = Running \cap Background /\ T = Claimed'
    OBVIOUS
  <2>3. S = Claimed
    BY <2>2 DEF Permitted, Claimed, Background
  <2>4. IsFiniteSet(S) /\ Cardinality(S) <= MaxConcurrent
    BY <2>3 DEF ServiceInv, LimitInv
  <2>5. T = IF mode[e] = "background" THEN S \cup {e} ELSE S
    BY <2>2 DEF ServiceInv, TypeOK, Permitted, Claimed, Background, Running
  <2>6. mode[e] = "background" => e \notin S /\ Cardinality(S) < MaxConcurrent
    BY <2>2 DEF Running
  <2>7. IsFiniteSet(T) /\ Cardinality(T) <= MaxConcurrent
    <3>1. CASE mode[e] = "background"
      <4>1. IsFiniteSet(S \cup {e}) /\ Cardinality(S \cup {e}) = Cardinality(S) + 1
        BY <2>4, <2>6, <3>1, FS_AddElement
      <4>2. Cardinality(S) \in Nat
        BY <2>4, FS_CardinalityType
      <4>3. Cardinality(S) + 1 <= MaxConcurrent
        BY <2>6, <3>1, <4>2, LimitAssumption
      <4> QED
        BY <2>5, <3>1, <4>1, <4>3
    <3>2. CASE mode[e] # "background"
      BY <2>4, <2>5, <3>2
    <3> QED
      BY <3>1, <3>2
  <2> QED
    BY <2>1, <2>2, <2>7 DEF LimitInv
<1>3. \A f \in Execs : ExecInv(f)'
  BY DEF ServiceInv, TypeOK, ExecInv, Finished, Alive, Drained
<1>4. Lasting
  BY DEF Lasting, Alive, Drained
<1>5. \A c \in Stoppers : CallInv(stops[c])'
  BY <1>4, CallsLast
<1> QED
  BY <1>1, <1>2, <1>3, <1>5 DEF ServiceInv

\* The steps of one execution, after which it claims no more than before.
LEMMA ExecStep ==
  ASSUME ServiceInv, NEW e \in Execs,
         \/ Spawn(e) \/ LaunchRecord(e) \/ LaunchReturn(e) \/ LaunchFail(e) \/ Exit(e)
         \/ PipeCloses(e) \/ Complete(e) \/ CompleteFails(e)
  PROVE  ServiceInv'
<1> USE DEF Spawn, LaunchRecord, LaunchReturn, LaunchFail, Exit, PipeCloses, Complete,
            CompleteFails, Forget, disk, os, memory, bounds, ghosts
<1>1. /\ \A f \in Execs \ {e} :
           /\ rec'[f] = rec[f] /\ proc'[f] = proc[f] /\ pipe'[f] = pipe[f]
           /\ launch'[f] = launch[f] /\ completion'[f] = completion[f]
      /\ UNCHANGED <<mode, stops, up, asked, lost>>
      /\ stopReq' \in {stopReq, stopReq \ {e}}
  BY DEF ServiceInv, TypeOK
<1>2. TypeOK'
  <2>1. CASE Spawn(e) \/ LaunchRecord(e) \/ LaunchReturn(e)
    BY <2>1 DEF ServiceInv, TypeOK, Statuses, Waits
  <2>2. CASE LaunchFail(e)
    BY <2>2, BoundAssumption DEF ServiceInv, TypeOK, Statuses, Waits
  <2>3. CASE Exit(e) \/ PipeCloses(e) \/ Complete(e)
    BY <2>3 DEF ServiceInv, TypeOK, Statuses, Waits
  <2>4. CASE CompleteFails(e)
    BY <2>4, BoundAssumption DEF ServiceInv, TypeOK, Statuses, Waits
  <2> QED
    BY <2>1, <2>2, <2>3, <2>4
<1>3. LimitInv'
  <2>1. launch'[e] # "idle" => launch[e] # "idle"
    BY DEF ServiceInv, TypeOK
  <2>2. rec'[e] = "running" => rec[e] = "running" \/ launch[e] = "spawned"
    BY DEF ServiceInv, TypeOK
  <2>3. launch'[e] \in {"admitted", "spawned"} => launch[e] \in {"admitted", "spawned"}
    BY DEF ServiceInv, TypeOK
  <2>4. Claimed' \subseteq Claimed
    BY <1>1, <2>2, <2>3 DEF Claimed, Running, Background
  <2>5. \A f \in Execs : launch'[f] # "idle" => launch[f] # "idle"
    BY <1>1, <2>1
  <2> QED
    BY <2>4, <2>5, LimitLasts DEF ServiceInv
<1>4. ASSUME NEW f \in Execs
      PROVE  ExecInv(f)'
  <2>1. CASE f # e
    BY <1>1, <2>1 DEF ServiceInv, ExecInv, Finished, Alive, Drained
  <2>2. CASE f = e
    <3>1. ExecInv(e)
      BY DEF ServiceInv
    <3>2. CASE Spawn(e) \/ LaunchRecord(e) \/ LaunchReturn(e)
      BY <2>2, <3>1, <3>2 DEF ServiceInv, TypeOK, ExecInv, Finished, Alive, Drained
    <3>3. CASE LaunchFail(e)
      BY <2>2, <3>1, <3>3 DEF ServiceInv, TypeOK, ExecInv, Finished, Alive, Drained
    <3>4. CASE Exit(e) \/ PipeCloses(e)
      BY <2>2, <3>1, <3>4 DEF ServiceInv, TypeOK, ExecInv, Finished, Alive, Drained
    <3>5. CASE Complete(e) \/ CompleteFails(e)
      BY <2>2, <3>1, <3>5 DEF ServiceInv, TypeOK, ExecInv, Finished, Alive, Drained
    <3> QED
      BY <3>2, <3>3, <3>4, <3>5
  <2> QED
    BY <2>1, <2>2
<1>5. Lasting
  <2>1. ASSUME rec[e] # "none"
        PROVE  /\ rec'[e] # "none"
               /\ ~Alive(e) => proc'[e] # "alive"
               /\ Drained(e) => pipe'[e] \in {"closed", "lost"}
    BY <2>1 DEF ServiceInv, TypeOK, ExecInv, Alive, Drained
  <2> QED
    BY <1>1, <2>1 DEF Lasting, Alive, Drained
<1>6. \A c \in Stoppers : CallInv(stops[c])'
  BY <1>1, <1>5, CallsLast
<1> QED
  BY <1>2, <1>3, <1>4, <1>6 DEF ServiceInv

-----------------------------------------------------------------------------
(* The registry is brought up to date, and the runner dies and returns.      *)

\* What has no promise and is not alive was drained before.
LEMMA RefreshStep ==
  ASSUME ServiceInv, Refresh \/ Restart
  PROVE  ServiceInv'
<1>1. /\ rec' = Refreshed /\ up' \in BOOLEAN
      /\ UNCHANGED <<mode, proc, pipe, launch, completion, stopReq, stops, crashes, faults,
                     asked, lost, faulted>>
  BY DEF Refresh, Restart, os, memory, bounds, ghosts, ServiceInv, TypeOK
<1>2. ASSUME NEW e \in Execs
      PROVE  \/ rec'[e] = rec[e]
             \/ /\ rec[e] = "running" /\ completion[e] = "none" /\ ~Alive(e)
                /\ rec'[e] = "exited"
  BY <1>1 DEF Refreshed
<1>3. TypeOK'
  <2>1. rec' \in [Execs -> Statuses]
    BY <1>1 DEF Refreshed, Statuses, ServiceInv, TypeOK
  <2> QED
    BY <1>1, <2>1 DEF ServiceInv, TypeOK
<1>4. LimitInv'
  <2>1. Claimed' \subseteq Claimed
    BY <1>1, <1>2 DEF Claimed, Running, Background
  <2> QED
    BY <1>1, <2>1, LimitLasts DEF ServiceInv
<1>5. \A e \in Execs : ExecInv(e)'
  BY <1>1, <1>2 DEF ServiceInv, ExecInv, Finished, Alive, Drained
<1>6. Lasting
  BY <1>1, <1>2 DEF Lasting, Alive, Drained
<1>7. \A c \in Stoppers : CallInv(stops[c])'
  BY <1>1, <1>6, CallsLast
<1> QED
  BY <1>3, <1>4, <1>5, <1>7 DEF ServiceInv

LEMMA CrashStep ==
  ASSUME ServiceInv, Crash
  PROVE  ServiceInv'
<1>1. PICK S \in SUBSET Execs :
        proc' = [e \in Execs |-> IF Alive(e) /\ e \notin S THEN "dead" ELSE proc[e]]
  BY DEF Crash
<1>2. /\ crashes < MaxCrashes /\ crashes' = crashes + 1 /\ up' = FALSE
      /\ pipe' = [e \in Execs |-> IF pipe[e] = "open" THEN "lost" ELSE pipe[e]]
      /\ lost' = lost \cup {e \in Execs : launch[e] = "spawned"}
      /\ launch' = [e \in Execs |-> "idle"] /\ completion' = [e \in Execs |-> "none"]
      /\ stopReq' = {} /\ stops' = [c \in Stoppers |-> NoStop]
      /\ UNCHANGED <<rec, mode, faults, asked, faulted>>
  BY DEF Crash, disk
<1>3. TypeOK'
  <2>1. /\ proc' \in [Execs -> {"none", "alive", "dead"}]
        /\ pipe' \in [Execs -> {"none", "open", "closed", "lost"}]
    BY <1>1, <1>2 DEF ServiceInv, TypeOK
  <2>2. /\ launch' \in [Execs -> {"idle", "admitted", "spawned", "recorded"}]
        /\ completion' \in [Execs -> Waits] /\ stops' \in [Stoppers -> StopCall]
    BY <1>2 DEF Waits, StopCall
  <2>3. crashes' \in 0..MaxCrashes /\ lost' \subseteq Execs
    BY <1>2, BoundAssumption DEF ServiceInv, TypeOK
  <2> QED
    BY <1>2, <2>1, <2>2, <2>3 DEF ServiceInv, TypeOK
<1>4. LimitInv'
  <2>1. Claimed' \subseteq Claimed
    BY <1>2 DEF Claimed, Running, Background
  <2> QED
    BY <1>2, <2>1, LimitLasts DEF ServiceInv
<1>5. ASSUME NEW e \in Execs
      PROVE  ExecInv(e)'
  <2>1. ExecInv(e) /\ proc[e] \in {"none", "alive", "dead"}
        /\ pipe[e] \in {"none", "open", "closed", "lost"}
    BY DEF ServiceInv, TypeOK
  <2>2. /\ proc'[e] = (IF Alive(e) /\ e \notin S THEN "dead" ELSE proc[e])
        /\ pipe'[e] = (IF pipe[e] = "open" THEN "lost" ELSE pipe[e])
        /\ launch'[e] = "idle" /\ completion'[e] = "none" /\ rec'[e] = rec[e]
        /\ launch[e] = "spawned" => e \in lost'
        /\ e \in lost => e \in lost'
    BY <1>1, <1>2
  <2> QED
    BY <1>2, <2>1, <2>2 DEF ExecInv, Finished, Alive, Drained
<1>6. \A c \in Stoppers : stops'[c] = NoStop
  BY <1>2
<1>7. \A c \in Stoppers : CallInv(stops[c])'
  BY <1>6, NoCall DEF CallInv
<1> QED
  BY <1>3, <1>4, <1>5, <1>7 DEF ServiceInv

-----------------------------------------------------------------------------
(* stop().                                                                   *)

\* A step of a call that leaves the registry alone, and asks for s to stop.
Quiet ==
  /\ UNCHANGED <<rec, mode, proc, pipe, launch, completion, up, crashes, lost, faulted>>
  /\ faults' \in 0..MaxFaults

Asks(s) == s \in SUBSET Execs /\ stopReq' = stopReq \cup s /\ asked' = asked \cup s

Goes(c, x) == CallInv(x)' /\ stops' = [stops EXCEPT ![c] = x]

LEMMA CallOnly ==
  ASSUME ServiceInv, NEW c \in Stoppers, NEW x, Goes(c, x), NEW s, Asks(s), Quiet
  PROVE  ServiceInv'
<1> USE DEF Goes, Asks, Quiet
<1>1. TypeOK'
  <2>1. x \in StopCall
    BY DEF CallInv, StopCall
  <2> QED
    BY <2>1 DEF ServiceInv, TypeOK
<1>2. LimitInv'
  <2>1. Claimed' \subseteq Claimed
    BY DEF Claimed, Running, Background
  <2> QED
    BY <2>1, LimitLasts DEF ServiceInv
<1>3. \A e \in Execs : ExecInv(e)'
  BY DEF ServiceInv, ExecInv, Finished, Alive, Drained
<1>4. Lasting
  BY DEF Lasting, Alive, Drained
<1> QED
  BY <1>1, <1>2, <1>3, <1>4, CallGoesOn DEF ServiceInv

\* A call records an end that is one, and returns.
LEMMA CallRecords ==
  ASSUME ServiceInv, NEW c \in Stoppers, NEW e \in Execs, NEW s \in {"exited", "stopped"},
         rec' = [rec EXCEPT ![e] = s], stops' = [stops EXCEPT ![c] = NoStop],
         UNCHANGED <<mode, proc, pipe, launch, completion, stopReq, up, crashes, faults, asked,
                     lost, faulted>>,
         rec[e] # "none", ~Alive(e), Drained(e), s = "stopped" => e \in asked
  PROVE  ServiceInv'
<1>1. TypeOK'
  BY DEF ServiceInv, TypeOK, Statuses, StopCall
<1>2. LimitInv'
  <2>1. Claimed' \subseteq Claimed
    BY DEF Claimed, Running, Background, ServiceInv, TypeOK
  <2> QED
    BY <2>1, LimitLasts DEF ServiceInv
<1>3. \A f \in Execs : ExecInv(f)'
  BY DEF ServiceInv, TypeOK, ExecInv, Finished, Alive, Drained
<1>4. Lasting
  BY DEF Lasting, Alive, Drained, ServiceInv, TypeOK
<1> QED
  BY <1>1, <1>2, <1>3, <1>4, CallGoesOn, NoCall DEF ServiceInv

\* A call about e may go on with a step: what the step relies on is so.
MayGo(step, e) ==
  /\ e \in Execs /\ rec[e] # "none"
  /\ step \in {"check", "signal", "term", "kill", "mark", "write"}
  /\ step \in {"mark", "write"} => ~Alive(e) /\ Drained(e)
  /\ step \in {"term", "kill", "write"} => e \in asked'

LEMMA CallStep ==
  ASSUME ServiceInv, NEW c \in Stoppers,
         \/ \E e \in Execs : StopRead(c, e)
         \/ Stopping(c) \/ StopWriteFails(c)
  PROVE  ServiceInv'
<1> USE DEF At, disk, os, bounds, ghosts
<1>1. PICK y : y = stops[c] /\ CallInv(y)
  BY DEF ServiceInv
<1>2. faults \in 0..MaxFaults
  BY DEF ServiceInv, TypeOK
<1>3. ASSUME Return(c), Asks({}), Quiet
      PROVE  ServiceInv'
  <2>1. Goes(c, NoStop)
    BY <1>3, NoCall DEF Goes, Return
  <2> QED
    BY <1>3, <2>1, CallOnly
<1>4. ASSUME NEW e, NEW step, NEW s, Goto(c, step, e), MayGo(step, e), Asks(s), Quiet
      PROVE  ServiceInv'
  <2>1. PICK x : x = [step |-> step, exec |-> e]
    OBVIOUS
  <2>2. x \in StopCall /\ x.step = step /\ x.exec = e
    BY <1>4, <2>1 DEF StopCall, MayGo
  <2>3. CallInv(x)'
    BY <1>4, <2>2 DEF CallInv, StopCall, Alive, Drained, MayGo, Quiet
  <2>4. Goes(c, x)
    BY <1>4, <2>1, <2>3 DEF Goto, Goes
  <2> QED
    BY <1>4, <2>4, CallOnly
<1>5. y.step # "idle" => y.exec \in Execs /\ rec[y.exec] # "none" /\ ExecInv(y.exec)
  BY <1>1 DEF CallInv, ServiceInv
<1>6. UNCHANGED <<stopReq, asked>> => Asks({})
  BY DEF Asks
<1>7. CASE \E e \in Execs : StopRead(c, e)
  <2>1. PICK e \in Execs : StopRead(c, e)
    BY <1>7
  <2>2. rec[e] # "none" /\ Goto(c, "check", e) /\ Asks({}) /\ Quiet
    BY <1>2, <1>6, <2>1 DEF StopRead, Quiet
  <2>3. MayGo("check", e)
    BY <2>2 DEF MayGo
  <2> QED
    BY <1>4, <2>2, <2>3
<1>8. CASE StopCheck(c)
  <2>1. /\ y.step = "check" /\ Asks({}) /\ Quiet
        /\ \/ Goto(c, "signal", y.exec)
           \/ ~Alive(y.exec) /\ completion[y.exec] = "none" /\ Goto(c, "mark", y.exec)
           \/ Return(c)
    BY <1>1, <1>2, <1>6, <1>8 DEF StopCheck, Quiet
  <2>2. /\ MayGo("signal", y.exec)
        /\ ~Alive(y.exec) /\ completion[y.exec] = "none" => MayGo("mark", y.exec)
    BY <1>5, <2>1 DEF ExecInv, MayGo
  <2> QED
    BY <1>3, <1>4, <2>1, <2>2
<1>9. CASE StopMark(c)
  <2>1. /\ y.step = "mark" /\ rec' = [rec EXCEPT ![y.exec] = "exited"] /\ Return(c)
        /\ UNCHANGED <<mode, proc, pipe, launch, completion, stopReq, up, crashes, faults,
                       asked, lost, faulted>>
    BY <1>1, <1>9 DEF StopMark
  <2>2. ~Alive(y.exec) /\ Drained(y.exec)
    BY <1>1, <2>1 DEF CallInv
  <2> QED
    BY <1>5, <2>1, <2>2, CallRecords DEF Return
<1>10. CASE StopSignal(c)
  <2>1. /\ y.step = "signal"
        /\ stopReq' = stopReq \cup {y.exec} /\ asked' = asked \cup {y.exec}
        /\ Goto(c, "term", y.exec) \/ Return(c)
        /\ Quiet
    BY <1>1, <1>2, <1>10 DEF StopSignal, Quiet
  <2>2. Asks({y.exec}) /\ MayGo("term", y.exec)
    BY <1>5, <2>1 DEF Asks, MayGo
  <2>3. CASE Goto(c, "term", y.exec)
    BY <1>4, <2>1, <2>2, <2>3
  <2>4. CASE Return(c)
    <3>1. Goes(c, NoStop)
      BY <2>4, NoCall DEF Goes, Return
    <3> QED
      BY <2>1, <2>2, <3>1, CallOnly
  <2> QED
    BY <2>1, <2>3, <2>4
<1>11. CASE StopWaited(c)
  <2>1. PICK w : w = completion[y.exec]
    OBVIOUS
  <2>2. PICK x : x = [step |-> "await", exec |-> y.exec, wait |-> w]
    OBVIOUS
  <2>3. /\ y.step \in {"term", "kill"} /\ ~Alive(y.exec) /\ stops' = [stops EXCEPT ![c] = x]
        /\ Asks({}) /\ Quiet
    BY <1>1, <1>2, <1>6, <1>11, <2>1, <2>2 DEF StopWaited, Quiet
  <2>4. w \in Waits /\ y.exec \in asked /\ (w = "none" => Drained(y.exec))
    BY <1>1, <1>5, <2>1, <2>3 DEF ServiceInv, TypeOK, CallInv, ExecInv
  <2>5. x \in StopCall /\ x.step = "await" /\ x.exec = y.exec /\ x.wait = w
    BY <1>5, <2>2, <2>3, <2>4 DEF StopCall
  <2>6. CallInv(x)'
    BY <1>5, <2>3, <2>4, <2>5 DEF CallInv, StopCall, Alive, Drained, Asks, Quiet
  <2>7. Goes(c, x)
    BY <2>3, <2>6 DEF Goes
  <2> QED
    BY <2>3, <2>7, CallOnly
<1>12. CASE StopKill(c)
  <2>1. /\ y.step = "term" /\ (Goto(c, "kill", y.exec) \/ Return(c)) /\ Asks({}) /\ Quiet
    BY <1>1, <1>2, <1>6, <1>12 DEF StopKill, Quiet
  <2>2. MayGo("kill", y.exec)
    BY <1>1, <1>5, <2>1 DEF CallInv, MayGo, Asks
  <2> QED
    BY <1>3, <1>4, <2>1, <2>2
<1>13. CASE StopSettled(c)
  <2>1. /\ y.step = "await" /\ Asks({}) /\ Quiet
        /\ \/ y.wait = "none" /\ Goto(c, "write", y.exec)
           \/ Drained(y.exec) /\ Goto(c, "write", y.exec)
           \/ completion[y.exec] = "none" /\ Goto(c, "write", y.exec)
           \/ Return(c)
    BY <1>1, <1>2, <1>6, <1>13 DEF StopSettled, Quiet
  <2>2. /\ ~Alive(y.exec) /\ y.exec \in asked'
        /\ y.wait = "none" \/ completion[y.exec] = "none" => Drained(y.exec)
    BY <1>1, <1>5, <2>1 DEF CallInv, ExecInv, Asks
  <2>3. Drained(y.exec) => MayGo("write", y.exec)
    BY <1>5, <2>1, <2>2 DEF MayGo
  <2> QED
    BY <1>3, <1>4, <2>1, <2>2, <2>3
<1>14. CASE StopWrite(c)
  <2>1. /\ y.step = "write" /\ rec' = [rec EXCEPT ![y.exec] = "stopped"] /\ Return(c)
        /\ UNCHANGED <<mode, proc, pipe, launch, completion, stopReq, up, crashes, faults,
                       asked, lost, faulted>>
    BY <1>1, <1>14 DEF StopWrite
  <2>2. ~Alive(y.exec) /\ Drained(y.exec) /\ y.exec \in asked
    BY <1>1, <2>1 DEF CallInv
  <2> QED
    BY <1>5, <2>1, <2>2, CallRecords DEF Return
<1>15. CASE StopGivesUp(c) \/ StopWriteFails(c)
  <2>1. Return(c) /\ Asks({}) /\ Quiet
    BY <1>2, <1>6, <1>15, BoundAssumption DEF StopGivesUp, StopWriteFails, Quiet
  <2> QED
    BY <1>3, <2>1
<1> QED
  BY <1>7, <1>8, <1>9, <1>10, <1>11, <1>12, <1>13, <1>14, <1>15 DEF Stopping

LEMMA ServiceStep == ServiceInv /\ [Next]_vars => ServiceInv'
<1> SUFFICES ASSUME ServiceInv, [Next]_vars
             PROVE  ServiceInv'
  OBVIOUS
<1>1. CASE UNCHANGED vars
  <2>1. /\ UNCHANGED <<rec, mode, proc, pipe, launch, completion, stopReq, stops, up, crashes,
                       faults, asked, lost, faulted>>
    BY <1>1 DEF vars, disk, os, memory, bounds, ghosts
  <2>2. LimitInv'
    BY <2>1 DEF ServiceInv, LimitInv, Claimed, Running, Background
  <2>3. TypeOK' /\ \A e \in Execs : ExecInv(e)'
    BY <2>1 DEF ServiceInv, TypeOK, ExecInv, Finished, Alive, Drained
  <2>4. \A c \in Stoppers : CallInv(stops[c])'
    BY <2>1 DEF ServiceInv, CallInv, Alive, Drained
  <2> QED
    BY <2>2, <2>3, <2>4 DEF ServiceInv
<1> QED
  BY <1>1, LaunchBeginStep, ExecStep, RefreshStep, CrashStep, CallStep DEF Next

-----------------------------------------------------------------------------
\* The registry, the calls and what the runner holds are well formed.
THEOREM ServiceTyping == Spec => []TypeOK
<1>1. ServiceInv => TypeOK
  BY DEF ServiceInv
<1> QED
  BY <1>1, ServiceInit, ServiceStep, PTL DEF Spec

\* An execution that is recorded as over is dead and drained, and one recorded as stopped
\* was signalled by a stop() call, whatever is stopped twice, cut off or restarted.
THEOREM WhatIsOverIsOver == Spec => []FinishedMeansOver
<1>1. ServiceInv => FinishedMeansOver
  BY DEF ServiceInv, ExecInv, FinishedMeansOver
<1> QED
  BY <1>1, ServiceInit, ServiceStep, PTL DEF Spec

\* No live process is unknown to the registry but one that is being launched or was cut off
\* by a crash, and no more background processes are alive than are allowed.
THEOREM NoProcessEscapes == Spec => []LiveIsRegistered
<1>1. ServiceInv => LiveIsRegistered
  <2> SUFFICES ASSUME ServiceInv
               PROVE  LiveIsRegistered
    OBVIOUS
  <2>1. \A e \in Execs : Alive(e) /\ rec[e] = "none" => launch[e] = "spawned" \/ e \in lost
    BY DEF ServiceInv, ExecInv
  <2>2. PICK S \in {{e \in Background : Alive(e)} \ lost}, T \in {Claimed} : TRUE
    OBVIOUS
  <2>3. S \subseteq T
    <3> SUFFICES ASSUME NEW e \in S
                 PROVE  e \in T
      OBVIOUS
    <3>1. e \in Background /\ e \in Execs /\ Alive(e) /\ e \notin lost
      BY <2>2 DEF Background
    <3>2. CASE rec[e] = "none"
      BY <2>1, <2>2, <3>1, <3>2 DEF Claimed
    <3>3. CASE rec[e] # "none"
      <4>1. rec[e] = "running"
        BY <3>1, <3>3 DEF ServiceInv, TypeOK, Statuses, ExecInv, Finished
      <4> QED
        BY <2>2, <3>1, <4>1 DEF Claimed, Running
    <3> QED
      BY <3>2, <3>3
  <2>4. IsFiniteSet(T) /\ Cardinality(T) <= MaxConcurrent
    BY <2>2 DEF ServiceInv, LimitInv
  <2>5. IsFiniteSet(S) /\ Cardinality(S) <= Cardinality(T)
    BY <2>3, <2>4, FS_Subset
  <2>6. Cardinality(S) \in Nat /\ Cardinality(T) \in Nat
    BY <2>4, <2>5, FS_CardinalityType
  <2>7. Cardinality(S) <= MaxConcurrent
    BY <2>4, <2>5, <2>6, LimitAssumption
  <2> QED
    BY <2>1, <2>2, <2>7 DEF LiveIsRegistered
<1> QED
  BY <1>1, ServiceInit, ServiceStep, PTL DEF Spec
=============================================================================
