----------------------------- MODULE AgentGroup -----------------------------
(***************************************************************************)
(* The programs that replay with a group of agents and wait for them:      *)
(* "apmsoak" (Runner.Run, agents in SendBatchesInLoop), "generator" (the   *)
(* package pkg/telemetrygen, RunBlocking, agents in SendBatches once) and  *)
(* "apmtelemetrygen" (one agent in SendBatches, -iterations times).        *)
(*                                                                         *)
(* The first two run their agents in an errgroup: the first error is the   *)
(* group's, and cancels the context the agents share.  A pass of an agent  *)
(* is what Handler details; here it is some requests that may fail.        *)
(***************************************************************************)
EXTENDS Naturals, FiniteSets

CONSTANTS
    Agents,      \* replicas of the agents of the scenario or configuration
    Requests,    \* requests of a pass
    Iterations,  \* -iterations of apmtelemetrygen
    MaxPasses    \* passes begun by an agent of apmsoak (bound)

ASSUME GroupAssumption ==
    /\ IsFiniteSet(Agents) /\ Agents # {}
    /\ Requests \in Nat \ {0} /\ Iterations \in Nat /\ MaxPasses \in Nat

VARIABLES
    command,     \* which program this is
    options,     \* its flags: ignoreErrors, runForever, duration
    members,     \* its agents
    main,        \* where Run, RunBlocking or the command is
    parent,      \* the context it is given is done (a signal, or its caller)
    over,        \* the run duration is over
    place,       \* where each agent is
    sent,        \* requests done by each agent in its pass
    passes,      \* passes begun by each agent
    complete,    \* passes whose requests have all been answered
    result,      \* what each agent returned: "none" as long as it has not
    groupErr,    \* the error of the group
    exit         \* the exit code: "none" before, and for the package

groupVars == <<command, options, members, main, parent, over, place, sent,
               passes, complete, result, groupErr, exit>>

Errors == {"canceled", "failed"}

GroupInit ==
    /\ command \in {"apmsoak", "generator", "apmtelemetrygen"}
    /\ options \in [ignoreErrors : BOOLEAN, runForever : BOOLEAN, duration : BOOLEAN]
    /\ command # "apmsoak" => ~options.runForever /\ ~options.duration
    /\ command = "generator" => ~options.ignoreErrors
    /\ IF command = "apmtelemetrygen" THEN \E a \in Agents : members = {a}
                                      ELSE members = Agents
    /\ main = "start"
    /\ parent = FALSE /\ over = FALSE
    /\ place = [a \in Agents |-> "new"]
    /\ sent = [a \in Agents |-> 0]
    /\ passes = [a \in Agents |-> 0]
    /\ complete = [a \in Agents |-> 0]
    /\ result = [a \in Agents |-> "none"]
    /\ groupErr = "nil"
    /\ exit = "none"

\* The run duration ends without anything being cancelled.
DoneBySignal == parent \/ (groupErr # "nil" /\ command # "apmtelemetrygen")

\* The contexts of an errgroup, or of the command, and what they derive from.
Done == parent \/ over \/ (groupErr # "nil" /\ command # "apmtelemetrygen")

At(a, p) == place[a] = p
Goto(a, p) == place' = [place EXCEPT ![a] = p]

\* The group takes the last error instead of the first.
FinishLast(a, err) ==
    /\ Goto(a, "done")
    /\ result' = [result EXCEPT ![a] = err]
    /\ groupErr' = IF err # "nil" THEN err ELSE groupErr

\* The function given to g.Go returns: the group keeps the first error.
Finish(a, err) ==
    /\ Goto(a, "done")
    /\ result' = [result EXCEPT ![a] = err]
    /\ groupErr' = IF groupErr = "nil" THEN err ELSE groupErr

(***************************************************************************)
(* The surroundings: a signal or the caller's cancellation, and the timer  *)
(***************************************************************************)
Cancel ==
    /\ main # "returned" /\ ~parent
    /\ parent' = TRUE
    /\ UNCHANGED <<main, over, place, sent, passes, complete, result, groupErr, exit>>

DurationEnds ==
    /\ main # "returned" /\ options.duration /\ ~over
    /\ over' = TRUE
    /\ UNCHANGED <<main, parent, place, sent, passes, complete, result, groupErr, exit>>

(***************************************************************************)
(* The main goroutine                                                      *)
(***************************************************************************)
StartAgent(a) ==
    /\ main = "start" /\ a \in members /\ At(a, "new")
    /\ Goto(a, "setup")
    /\ UNCHANGED <<main, parent, over, sent, passes, complete, result, groupErr, exit>>

AllStarted ==
    /\ main = "start"
    /\ \A a \in members : ~At(a, "new")
    /\ main' = "wait"
    /\ UNCHANGED <<parent, over, place, sent, passes, complete, result, groupErr, exit>>

\* apmsoak prints an error and ends well; apmtelemetrygen has exit codes.
ExitCode(err) ==
    CASE command = "generator" -> "none"
      [] command = "apmsoak" -> "0"
      [] OTHER -> CASE err = "nil" -> "0" [] err = "canceled" -> "130" [] OTHER -> "1"

ReturnFirst ==
    /\ main = "wait"
    /\ \E a \in members : At(a, "done")
    /\ main' = "returned"
    /\ exit' = ExitCode(groupErr)
    /\ UNCHANGED <<parent, over, place, sent, passes, complete, result, groupErr>>

Return ==
    /\ main = "wait"
    /\ \A a \in members : At(a, "done")
    /\ main' = "returned"
    /\ exit' = ExitCode(groupErr)
    /\ UNCHANGED <<parent, over, place, sent, passes, complete, result, groupErr>>

(***************************************************************************)
(* An agent                                                                *)
(***************************************************************************)
Loops == command = "apmsoak"

\* getHandlerParams and NewEventHandler: the rate, the URL, the protocol (OTLP
\* is not supported) and the recording are looked at.
SetUp(a) ==
    /\ At(a, "setup")
    /\ Goto(a, "next")
    /\ UNCHANGED <<main, parent, over, sent, passes, complete, result, groupErr, exit>>

SetUpFails(a) ==
    /\ At(a, "setup")
    /\ Finish(a, "failed")
    /\ UNCHANGED <<main, parent, over, sent, passes, complete, exit>>

\* The context of a loop is looked at before each pass.
Stop(a) ==
    /\ At(a, "next")
    /\ IF Loops THEN Done ELSE command = "apmtelemetrygen" /\ passes[a] = Iterations
    /\ Finish(a, IF Loops THEN "canceled" ELSE "nil")
    /\ UNCHANGED <<main, parent, over, sent, passes, complete, exit>>

AgentPass(a) ==
    /\ At(a, "next")
    /\ CASE command = "apmsoak" -> ~Done /\ passes[a] < MaxPasses
         [] command = "apmtelemetrygen" -> passes[a] < Iterations
         [] OTHER -> TRUE
    /\ Goto(a, "pass")
    /\ passes' = [passes EXCEPT ![a] = @ + 1]
    /\ sent' = [sent EXCEPT ![a] = 0]
    /\ UNCHANGED <<main, parent, over, complete, result, groupErr, exit>>

\* The server has answered, with ignoreErrors whatever its answer is.
Send(a) ==
    /\ At(a, "pass") /\ sent[a] < Requests
    /\ sent' = [sent EXCEPT ![a] = @ + 1]
    /\ UNCHANGED <<main, parent, over, place, passes, complete, result, groupErr, exit>>

\* Every error of a pass but those of HTTP reaches RunForever and -ignore-errors.
EndPass(a) ==
    /\ At(a, "pass") /\ sent[a] = Requests
    /\ complete' = [complete EXCEPT ![a] = @ + 1]
    /\ IF command = "generator" THEN Finish(a, "nil")
       ELSE Goto(a, "next") /\ UNCHANGED <<result, groupErr>>
    /\ UNCHANGED <<main, parent, over, sent, passes, exit>>

\* A pass fails for a reason of its own, or because the context is done.
PassFails(a) ==
    /\ At(a, "pass") /\ sent[a] < Requests
    /\ \E err \in Errors :
         /\ err = "canceled" => Done
         /\ IF options.runForever \/ (command = "apmtelemetrygen" /\ options.ignoreErrors)
            THEN Goto(a, "next") /\ UNCHANGED <<result, groupErr>>
            ELSE Finish(a, err)
    /\ UNCHANGED <<main, parent, over, sent, passes, complete, exit>>

Main == AllStarted \/ Return \/ \E a \in Agents : StartAgent(a)
Agent(a) == \/ SetUp(a) \/ SetUpFails(a) \/ Stop(a) \/ AgentPass(a)
            \/ Send(a) \/ EndPass(a) \/ PassFails(a)

GroupNext ==
    /\ Main \/ Cancel \/ DurationEnds \/ \E a \in Agents : Agent(a)
    /\ UNCHANGED <<command, options, members>>
\* Requests are answered or fail, and the timer ends, in the time they have.
GroupFairness ==
    /\ WF_groupVars(GroupNext /\ Main)
    /\ WF_groupVars(GroupNext /\ DurationEnds)
    /\ \A a \in Agents : WF_groupVars(GroupNext /\ Agent(a))

GroupSpec == GroupInit /\ [][GroupNext]_groupVars /\ GroupFairness
-----------------------------------------------------------------------------
Returned == main = "returned"

\* When Run returns no agent sends any more, and without an error every agent
\* has done what it was to do: one pass, or -iterations passes, all of them
\* answered unless their errors are ignored.  A soak test never ends so.
AllDone ==
    Returned =>
        /\ \A a \in members : place[a] = "done"
        /\ groupErr = "nil" => \A a \in members :
             /\ command # "apmsoak" /\ result[a] = "nil"
             /\ command = "generator" => complete[a] = 1
             /\ command = "apmtelemetrygen" =>
                  /\ passes[a] = Iterations
                  /\ options.ignoreErrors \/ complete[a] = Iterations

\* What is reported is the cause: a failure is not hidden by the agents that
\* stop because of it, and a cancellation is reported only if there was one
\* from outside, whatever the agents returned.  With -run-forever nothing but
\* an agent that could not be set up ends the run before that (runner.go:39).
ReportsCause ==
    Returned =>
        /\ groupErr = "canceled" => parent \/ over
        /\ groupErr = "failed" => \E a \in members : result[a] = "failed"
        /\ options.runForever =>
             \/ parent \/ over
             \/ \E a \in members : result[a] = "failed" /\ passes[a] = 0
        /\ exit = "130" => parent

\* Run returns: at once when a context is done or an agent has failed, and in
\* any case unless it is a soak test without a duration.
GroupEnds ==
    /\ (main = "wait" /\ (Done \/ groupErr # "nil")) ~> Returned
    /\ (main = "start" /\ (command # "apmsoak" \/ options.duration)) ~> Returned
=============================================================================
