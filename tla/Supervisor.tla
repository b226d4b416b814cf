----------------------------- MODULE Supervisor -----------------------------
(* run_workers: one process, a thread per background job, and a main thread *)
(* that waits for a signal to stop; or, with --once, each job in turn.       *)
EXTENDS Integers, FiniteSets

CONSTANT Jobs       \* AMATOPAY_WORKERS

VARIABLES
    job,        \* what each job's thread does
    stopEvent,  \* the stop event is set
    main        \* what the main thread does

supervisorVars == <<job, stopEvent, main>>

SupervisorInit ==
    /\ job = [j \in Jobs |-> "off"]
    /\ stopEvent = FALSE
    /\ main = "selecting"

Turns(j, from, to) ==
    /\ job[j] = from
    /\ job' = [job EXCEPT ![j] = to]

-----------------------------------------------------------------------------
(* The main thread.                                                        *)

(* The jobs that are enabled, and that --only and --exclude leave; without   *)
(* any the command fails.                                                  *)
SelectJobs(chosen, mode) ==
    /\ main = "selecting"
    /\ chosen # {}
    /\ job' = [j \in Jobs |-> IF j \in chosen THEN "new" ELSE "off"]
    /\ main' = mode
    /\ UNCHANGED stopEvent

(* With --once a job that fails does not keep the others from running.      *)
RunOnce(j) ==
    /\ main = "once"
    /\ Turns(j, "new", "ended")
    /\ UNCHANGED <<stopEvent, main>>

AllRan ==
    /\ main = "once"
    /\ \A j \in Jobs : job[j] # "new"
    /\ main' = "stopped"
    /\ UNCHANGED <<job, stopEvent>>

(* SIGTERM or SIGINT, once the handlers are installed.                     *)
Signal ==
    /\ main \in {"starting", "waiting", "joining"}
    /\ stopEvent' = TRUE
    /\ UNCHANGED <<job, main>>

StartThread(j) ==
    /\ main = "starting"
    /\ Turns(j, "new", "delayed")
    /\ UNCHANGED <<stopEvent, main>>

AllStarted ==
    /\ main = "starting"
    /\ \A j \in Jobs : job[j] # "new"
    /\ main' = "waiting"
    /\ UNCHANGED <<job, stopEvent>>

(* Stopped, or left without a thread that is alive.                        *)
LeaveWaiting ==
    /\ main = "waiting"
    /\ stopEvent \/ \A j \in Jobs : job[j] \in {"ended", "off"}
    /\ stopEvent' = TRUE
    /\ main' = "joining"
    /\ UNCHANGED job

(* Every join ends, after 30 seconds at the latest; the threads that are    *)
(* left die with the process.                                              *)
Exit ==
    /\ main = "joining"
    /\ main' = "stopped"
    /\ job' = [j \in Jobs |-> IF job[j] = "off" THEN "off" ELSE "ended"]
    /\ UNCHANGED stopEvent

-----------------------------------------------------------------------------
(* A job's thread.                                                         *)

(* stop.wait(initial_delay) or stop.wait(interval) is over.                *)
Wakes(j) ==
    /\ \/ Turns(j, "delayed", IF stopEvent THEN "ended" ELSE "loop")
       \/ Turns(j, "sleeping", "loop")
    /\ UNCHANGED <<stopEvent, main>>

Loops(j) ==
    /\ Turns(j, "loop", IF stopEvent THEN "ended" ELSE "running")
    /\ UNCHANGED <<stopEvent, main>>

RunSucceeds(j) ==
    /\ Turns(j, "running", "sleeping")
    /\ UNCHANGED <<stopEvent, main>>

(* Mutant: the exception ends the thread.                                  *)
RunRaises(j) ==
    /\ Turns(j, "running", "ended")
    /\ UNCHANGED <<stopEvent, main>>

(* run_once catches the exception.                                         *)
RunFails(j) ==
    /\ Turns(j, "running", "sleeping")
    /\ UNCHANGED <<stopEvent, main>>

JobThread(j) == Wakes(j) \/ Loops(j) \/ RunSucceeds(j) \/ RunFails(j)

SupervisorNext ==
    \/ \E chosen \in SUBSET Jobs, mode \in {"starting", "once"} :
           SelectJobs(chosen, mode)
    \/ Signal \/ AllRan \/ AllStarted \/ LeaveWaiting \/ Exit
    \/ \E j \in Jobs : RunOnce(j) \/ StartThread(j) \/ JobThread(j)

(* Threads are scheduled, waits end, and so does every run of a job.        *)
SupervisorFairness ==
    \A j \in Jobs : WF_supervisorVars(StartThread(j)) /\ WF_supervisorVars(JobThread(j))

SupervisorSpec ==
    SupervisorInit /\ [][SupervisorNext]_supervisorVars /\ SupervisorFairness

-----------------------------------------------------------------------------
(* Until it is told to stop, the supervisor runs every job that it has       *)
(* started again and again, whatever the runs of this job or of the others   *)
(* end with, and whichever jobs were chosen.                               *)
(* (apps/core/management/commands/run_workers.py:59)                       *)
JobsRunAgain ==
    \A j \in Jobs :
        job[j] \notin {"new", "off"} /\ main \in {"starting", "waiting", "joining"}
            ~> job[j] = "running" \/ stopEvent
=============================================================================
