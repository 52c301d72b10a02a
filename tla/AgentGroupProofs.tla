-------------------------- MODULE AgentGroupProofs --------------------------
(* Proofs about AgentGroup: what is reported, and that all agents are done. *)
EXTENDS AgentGroup, TLAPS

\* The variables that the proofs look at have their types.
GroupTypes ==
    /\ command \in {"apmsoak", "generator", "apmtelemetrygen"}
    /\ options \in [ignoreErrors : BOOLEAN, runForever : BOOLEAN, duration : BOOLEAN]
    /\ members \subseteq Agents /\ members # {}
    /\ parent \in BOOLEAN /\ over \in BOOLEAN
    /\ place \in [Agents -> {"new", "setup", "next", "pass", "done"}]
    /\ passes \in [Agents -> Nat] /\ complete \in [Agents -> Nat]
    /\ result \in [Agents -> {"none", "nil", "canceled", "failed"}]
    /\ groupErr \in {"nil", "canceled", "failed"}

\* What the initial state fixes for good.
Flags ==
    /\ command # "apmsoak" => ~options.runForever /\ ~options.duration
    /\ over => options.duration

\* An agent has a result when it is done, only members start, and the main
\* goroutine returns when the members are done.
Places ==
    /\ \A a \in Agents : result[a] # "none" <=> place[a] = "done"
    /\ \A a \in Agents : place[a] # "new" => a \in members
    /\ \A a \in Agents : place[a] \in {"new", "setup"} => passes[a] = 0 /\ complete[a] = 0
    /\ main = "returned" => \A a \in members : place[a] = "done"

\* Where the error of the group comes from.
Causes ==
    /\ groupErr = "nil" => \A a \in Agents : result[a] \in {"none", "nil"}
    /\ groupErr = "canceled" => parent \/ over
    /\ groupErr = "failed" => \E a \in members : result[a] = "failed"
    /\ command = "apmsoak" /\ groupErr = "nil" => \A a \in Agents : place[a] # "done"
    /\ exit = "130" => parent

\* Nothing but a set-up that fails ends a soak test that is to run for ever.
ForEver ==
    options.runForever /\ groupErr # "nil" =>
        parent \/ over \/ \E a \in members : result[a] = "failed" /\ passes[a] = 0

\* The passes of an agent that are over have been answered in full.
Answered ==
    \A a \in Agents :
        /\ command = "generator" =>
             complete[a] = IF result[a] = "nil" THEN 1 ELSE 0
        /\ command = "apmtelemetrygen" =>
             /\ result[a] = "nil" => passes[a] = Iterations
             /\ ~options.ignoreErrors =>
                  /\ place[a] = "next" => complete[a] = passes[a]
                  /\ place[a] = "pass" => complete[a] + 1 = passes[a]
                  /\ result[a] = "nil" => complete[a] = passes[a]

GroupInv == GroupTypes /\ Flags /\ Places /\ Causes /\ ForEver /\ Answered

\* The invariant holds at first.
LEMMA GroupInitInv == GroupInit => GroupInv
<1> SUFFICES ASSUME GroupInit PROVE GroupInv OBVIOUS
<1> USE GroupAssumption DEF GroupInit
<1>1. GroupTypes BY DEF GroupTypes
<1>2. Flags BY DEF Flags
<1>3. Places BY DEF Places
<1>4. Causes BY DEF Causes
<1>5. ForEver BY DEF ForEver
<1>6. Answered BY DEF Answered
<1> QED BY <1>1, <1>2, <1>3, <1>4, <1>5, <1>6 DEF GroupInv

\* The types, by the action that is taken.
LEMMA TypesStep ==
    ASSUME GroupTypes, [GroupNext]_groupVars
    PROVE  GroupTypes'
<1> USE DEF GroupTypes
<1>1. ASSUME UNCHANGED <<command, options, members>>,
             AllStarted \/ Return \/ Cancel \/ DurationEnds
      PROVE  GroupTypes'
  BY <1>1 DEF AllStarted, Return, Cancel, DurationEnds
<1>2. ASSUME UNCHANGED <<command, options, members>>, NEW a \in Agents,
             StartAgent(a) \/ SetUp(a) \/ AgentPass(a) \/ Send(a)
      PROVE  GroupTypes'
  BY <1>2 DEF StartAgent, SetUp, AgentPass, Send, Goto
<1>3. ASSUME UNCHANGED <<command, options, members>>, NEW a \in Agents,
             SetUpFails(a) \/ Stop(a) \/ EndPass(a) \/ PassFails(a)
      PROVE  GroupTypes'
  BY <1>3 DEF SetUpFails, Stop, EndPass, PassFails, Finish, Goto, Errors
<1>4. CASE UNCHANGED groupVars BY <1>4 DEF groupVars
<1> QED BY <1>1, <1>2, <1>3, <1>4 DEF GroupNext, Main, Agent

\* Only apmsoak runs for ever or for a duration.
LEMMA FlagsStep ==
    ASSUME GroupTypes, Flags, [GroupNext]_groupVars
    PROVE  Flags'
<1>1. over' => over \/ options.duration
  BY DEF GroupTypes, GroupNext, groupVars, Main, Agent, AllStarted, Return, StartAgent,
         Cancel, DurationEnds, SetUp, SetUpFails, Stop, AgentPass, Send, EndPass, PassFails
<1>2. UNCHANGED <<command, options>> BY DEF GroupNext, groupVars
<1> QED BY <1>1, <1>2 DEF Flags

\* Every step keeps the places of main and of the agents consistent.
LEMMA PlacesStep ==
    ASSUME GroupTypes, Places, [GroupNext]_groupVars
    PROVE  Places'
<1> USE DEF GroupTypes, Places
<1>1. ASSUME UNCHANGED <<command, options, members>>,
             AllStarted \/ Return \/ Cancel \/ DurationEnds
      PROVE  Places'
  BY <1>1 DEF AllStarted, Return, Cancel, DurationEnds, At
<1>2. ASSUME UNCHANGED <<command, options, members>>, NEW a \in Agents,
             StartAgent(a) \/ SetUp(a) \/ AgentPass(a) \/ Send(a)
      PROVE  Places'
  BY <1>2 DEF StartAgent, SetUp, AgentPass, Send, Goto, At
<1>3. ASSUME UNCHANGED <<command, options, members>>, NEW a \in Agents,
             SetUpFails(a) \/ Stop(a) \/ EndPass(a) \/ PassFails(a)
      PROVE  Places'
  BY <1>3 DEF SetUpFails, Stop, EndPass, PassFails, Finish, Goto, At, Errors
<1>4. CASE UNCHANGED groupVars BY <1>4 DEF groupVars
<1> QED BY <1>1, <1>2, <1>3, <1>4 DEF GroupNext, Main, Agent

\* An agent that is done gives the group an error that it can account for.
LEMMA CausesStep ==
    ASSUME GroupTypes, Flags, Places, Causes, [GroupNext]_groupVars
    PROVE  Causes'
<1> USE DEF GroupTypes, Flags, Places, Causes
<1>1. ASSUME UNCHANGED <<command, options, members>>,
             AllStarted \/ Return \/ Cancel \/ DurationEnds
      PROVE  Causes'
  BY <1>1 DEF AllStarted, Return, Cancel, DurationEnds, At, ExitCode
<1>2. ASSUME UNCHANGED <<command, options, members>>, NEW a \in Agents,
             StartAgent(a) \/ SetUp(a) \/ AgentPass(a) \/ Send(a)
      PROVE  Causes'
  BY <1>2 DEF StartAgent, SetUp, AgentPass, Send, Goto, At
<1>3. ASSUME UNCHANGED <<command, options, members>>, NEW a \in Agents,
             SetUpFails(a) \/ Stop(a) \/ EndPass(a) \/ PassFails(a)
      PROVE  Causes'
  BY <1>3 DEF SetUpFails, Stop, EndPass, PassFails, Finish, Goto, At, Errors, Done, Loops
<1>4. CASE UNCHANGED groupVars BY <1>4 DEF groupVars
<1> QED BY <1>1, <1>2, <1>3, <1>4 DEF GroupNext, Main, Agent

\* Every step keeps what is known of agents that run for ever.
LEMMA ForEverStep ==
    ASSUME GroupTypes, Flags, Places, ForEver, [GroupNext]_groupVars
    PROVE  ForEver'
<1> USE DEF GroupTypes, Flags, Places, ForEver
<1>1. ASSUME UNCHANGED <<command, options, members>>,
             AllStarted \/ Return \/ Cancel \/ DurationEnds
      PROVE  ForEver'
  BY <1>1 DEF AllStarted, Return, Cancel, DurationEnds
<1>2. ASSUME UNCHANGED <<command, options, members>>, NEW a \in Agents,
             StartAgent(a) \/ SetUp(a) \/ AgentPass(a) \/ Send(a)
      PROVE  ForEver'
  BY <1>2 DEF StartAgent, SetUp, AgentPass, Send, Goto, At
<1>3. ASSUME UNCHANGED <<command, options, members>>, NEW a \in Agents,
             SetUpFails(a) \/ Stop(a) \/ EndPass(a) \/ PassFails(a)
      PROVE  ForEver'
  BY <1>3 DEF SetUpFails, Stop, EndPass, PassFails, Finish, Goto, At, Errors, Done, Loops
<1>4. CASE UNCHANGED groupVars BY <1>4 DEF groupVars
<1> QED BY <1>1, <1>2, <1>3, <1>4 DEF GroupNext, Main, Agent

\* Every step keeps what is known of the answers.
LEMMA AnsweredStep ==
    ASSUME GroupTypes, Flags, Places, Answered, [GroupNext]_groupVars
    PROVE  Answered'
<1> USE GroupAssumption DEF GroupTypes, Places, Answered
<1>1. ASSUME UNCHANGED <<command, options, members>>,
             AllStarted \/ Return \/ Cancel \/ DurationEnds
      PROVE  Answered'
  BY <1>1 DEF AllStarted, Return, Cancel, DurationEnds
<1>2. ASSUME UNCHANGED <<command, options, members>>, NEW a \in Agents,
             StartAgent(a) \/ SetUp(a) \/ AgentPass(a) \/ Send(a)
      PROVE  Answered'
  BY <1>2 DEF StartAgent, SetUp, AgentPass, Send, Goto, At
<1>3. ASSUME UNCHANGED <<command, options, members>>, NEW a \in Agents,
             SetUpFails(a) \/ Stop(a) \/ EndPass(a) \/ PassFails(a)
      PROVE  Answered'
  <2>1. CASE SetUpFails(a) BY <1>3, <2>1 DEF SetUpFails, Finish, Goto, At
  <2>2. CASE Stop(a) BY <1>3, <2>2 DEF Stop, Finish, Goto, At, Loops
  <2>3. CASE EndPass(a) BY <1>3, <2>3 DEF EndPass, Finish, Goto, At
  <2>4. CASE PassFails(a) BY <1>3, <2>4 DEF Flags, PassFails, Finish, Goto, At, Errors
  <2> QED BY <1>3, <2>1, <2>2, <2>3, <2>4
<1>4. CASE UNCHANGED groupVars BY <1>4 DEF groupVars
<1> QED BY <1>1, <1>2, <1>3, <1>4 DEF GroupNext, Main, Agent

\* The invariant holds.
LEMMA GroupInvariant == GroupSpec => []GroupInv
<1>1. GroupInv /\ [GroupNext]_groupVars => GroupInv'
  BY TypesStep, FlagsStep, PlacesStep, CausesStep, ForEverStep, AnsweredStep DEF GroupInv
<1> QED BY <1>1, GroupInitInv, PTL DEF GroupSpec

\* For every number of agents, requests and iterations: the error that Run,
\* RunBlocking or the command reports is the cause (runner.go:148).
THEOREM CauseReported == GroupSpec => []ReportsCause
<1>1. GroupInv => ReportsCause
  <2> SUFFICES ASSUME GroupInv, Returned PROVE ReportsCause BY DEF ReportsCause
  <2>1. \E a \in members : a \in Agents /\ place[a] = "done"
    BY DEF GroupInv, GroupTypes, Places, Returned
  <2>2. options.runForever => groupErr # "nil"
    BY <2>1 DEF GroupInv, GroupTypes, Flags, Causes
  <2> QED BY <2>2 DEF GroupInv, Causes, ForEver, ReportsCause, GroupTypes
<1> QED BY <1>1, GroupInvariant, PTL

\* For every number of agents, requests and iterations: nothing is left to do
\* when Run, RunBlocking or the command returns without an error.
THEOREM EverythingDone == GroupSpec => []AllDone
<1>1. GroupInv => AllDone
  <2> SUFFICES ASSUME GroupInv, Returned PROVE AllDone BY DEF AllDone
  <2>1. \A a \in members : a \in Agents /\ place[a] = "done"
    BY DEF GroupInv, GroupTypes, Places, Returned
  <2>2. ASSUME groupErr = "nil", NEW a \in members
        PROVE  command # "apmsoak" /\ result[a] = "nil"
    BY <2>1, <2>2 DEF GroupInv, Places, Causes
  <2>3. ASSUME groupErr = "nil", NEW a \in members
        PROVE  /\ command = "generator" => complete[a] = 1
               /\ command = "apmtelemetrygen" =>
                    /\ passes[a] = Iterations
                    /\ options.ignoreErrors \/ complete[a] = Iterations
    BY <2>1, <2>2, <2>3 DEF GroupInv, Answered
  <2> QED BY <2>1, <2>2, <2>3 DEF AllDone
<1> QED BY <1>1, GroupInvariant, PTL
=============================================================================
