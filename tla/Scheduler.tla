----------------------------- MODULE Scheduler ------------------------------
(***************************************************************************)
(* The task scheduler: a running flag that every polling thread reads once *)
(* per interval, and a task table whose write lock trigger_task holds while*)
(* the handler runs.  The polling loop never runs a task.  A panic under a *)
(* write lock poisons it, and every later use of the lock panics.          *)
(***************************************************************************)
EXTENDS Naturals, Sequences, FiniteSets

CONSTANTS
  Callers,      \* threads that call trigger_task and the other operations
  TaskIds,      \* identifiers of tasks
  MaxStarts,    \* bound: calls of start
  MaxTriggers   \* bound: handler runs

ASSUME SchedulerAssumption == IsFiniteSet(Callers) /\ MaxStarts \in Nat /\ MaxTriggers \in Nat

VARIABLES
  running,      \* the flag: "up" or "down", or "poisoned" with its lock
  pollers,      \* the threads start has spawned: "polling" or "ended", in order
  tasks,        \* identifier -> whether the task is enabled
  tasksLock,    \* "free", "poisoned", or the caller whose handler runs under it
  trigger,      \* caller -> what its trigger_task is doing, "dead" after a panic
  executions,   \* the history: task identifiers, in the order they were pushed
  runs          \* task identifier -> handler runs that returned (observed)

schedVars == <<running, pollers, tasks, tasksLock, trigger, executions, runs>>

NoTrigger == [at |-> "none"]
Dead == [at |-> "dead"]
FreeCaller(c) == trigger[c] = NoTrigger
SetTrigger(c, value) == trigger' = [trigger EXCEPT ![c] = value]

SchedInit ==
  /\ running = "down"
  /\ pollers = <<>>
  /\ tasks = [i \in {} |-> TRUE]
  /\ tasksLock = "free"
  /\ trigger = [c \in Callers |-> NoTrigger]
  /\ executions = <<>>
  /\ runs = [i \in TaskIds |-> 0]

-----------------------------------------------------------------------------
(* start, stop and the polling threads. *)

\* A second start panics while it holds the write guard of the flag.
Start(c) ==
  /\ FreeCaller(c)
  /\ Len(pollers) < MaxStarts
  /\ \/ /\ running = "down"
        /\ running' = "up"
        /\ pollers' = Append(pollers, "polling")
        /\ UNCHANGED trigger
     \/ /\ running \in {"up", "poisoned"}
        /\ running' = "poisoned"
        /\ SetTrigger(c, Dead)
        /\ UNCHANGED pollers
  /\ UNCHANGED <<tasks, tasksLock, executions, runs>>

Stop(c) ==
  /\ FreeCaller(c)
  /\ IF running = "poisoned"
     THEN SetTrigger(c, Dead) /\ UNCHANGED running
     ELSE running' = "down" /\ UNCHANGED trigger
  /\ UNCHANGED <<pollers, tasks, tasksLock, executions, runs>>

\* Mutant: a thread that meets a poisoned lock goes on as if the flag were up.
PollPastPoison(p) ==
  /\ p \in DOMAIN pollers /\ pollers[p] = "polling"
  /\ running = "down"
  /\ pollers' = [pollers EXCEPT ![p] = "ended"]
  /\ UNCHANGED <<running, tasks, tasksLock, trigger, executions, runs>>

\* The thread wakes up and reads the flag: it ends if the flag is down, or by a
\* panic if the lock is poisoned, and goes back to sleep otherwise.
Poll(p) ==
  /\ p \in DOMAIN pollers /\ pollers[p] = "polling"
  /\ running # "up"
  /\ pollers' = [pollers EXCEPT ![p] = "ended"]
  /\ UNCHANGED <<running, tasks, tasksLock, trigger, executions, runs>>

-----------------------------------------------------------------------------
(* The task table. *)

\* An operation on the table by c: it waits for the lock and dies of poison.
OnTasks(c, newTasks) ==
  /\ FreeCaller(c)
  /\ \/ tasksLock = "free" /\ tasks' = newTasks /\ UNCHANGED trigger
     \/ tasksLock = "poisoned" /\ SetTrigger(c, Dead) /\ UNCHANGED tasks
  /\ UNCHANGED <<running, pollers, tasksLock, executions, runs>>

AddTask(c, id) ==
  OnTasks(c, [i \in DOMAIN tasks \cup {id} |-> IF i = id THEN TRUE ELSE tasks[i]])

RemoveTask(c, id) ==
  OnTasks(c, [i \in DOMAIN tasks \ {id} |-> tasks[i]])

SetEnabled(c, id, value) ==
  OnTasks(c, [i \in DOMAIN tasks |-> IF i = id THEN value ELSE tasks[i]])

\* trigger_task runs a handler whether or not its task is enabled, and returns
\* nothing for an unknown task.
TriggerTask(c, id) ==
  /\ FreeCaller(c)
  /\ tasksLock = "free" /\ id \in DOMAIN tasks
  /\ Len(executions) + Cardinality({d \in Callers : trigger[d].at = "push"}) < MaxTriggers
  /\ tasksLock' = c
  /\ SetTrigger(c, [at |-> "handler", task |-> id])
  /\ UNCHANGED <<running, pollers, tasks, executions, runs>>

\* The handler returns, successfully or not, and the lock is released.
HandlerReturns(c) ==
  /\ trigger[c].at = "handler"
  /\ tasksLock' = "free"
  /\ SetTrigger(c, [trigger[c] EXCEPT !.at = "push"])
  /\ runs' = [runs EXCEPT ![trigger[c].task] = @ + 1]
  /\ UNCHANGED <<running, pollers, tasks, executions>>

HandlerPanics(c) ==
  /\ trigger[c].at = "handler"
  /\ tasksLock' = "poisoned"
  /\ SetTrigger(c, Dead)
  /\ UNCHANGED <<running, pollers, tasks, executions, runs>>

\* Mutant: an execution is recorded only if its task is still there.
PushExecutionOfTask(c) ==
  /\ trigger[c].at = "push"
  /\ executions' = IF trigger[c].task \in DOMAIN tasks
                    THEN Append(executions, trigger[c].task) ELSE executions
  /\ SetTrigger(c, NoTrigger)
  /\ UNCHANGED <<running, pollers, tasks, tasksLock, runs>>

\* The execution is recorded under the lock of the history, after the other.
PushExecution(c) ==
  /\ trigger[c].at = "push"
  /\ executions' = Append(executions, trigger[c].task)
  /\ SetTrigger(c, NoTrigger)
  /\ UNCHANGED <<running, pollers, tasks, tasksLock, runs>>

\* get_executions of one task: how many the history holds.
GetExecutions(id) == Cardinality({i \in DOMAIN executions : executions[i] = id})

SchedNext ==
  \/ \E p \in 1..MaxStarts : Poll(p)
  \/ \E c \in Callers :
       \/ Start(c)
       \/ Stop(c)
       \/ HandlerReturns(c)
       \/ HandlerPanics(c)
       \/ PushExecution(c)
       \/ \E id \in TaskIds :
            \/ AddTask(c, id)
            \/ RemoveTask(c, id)
            \/ TriggerTask(c, id)
            \/ \E value \in BOOLEAN : SetEnabled(c, id, value)

\* A sleeping thread wakes up: thread::sleep returns.
SchedFairness == \A p \in 1..MaxStarts : WF_schedVars(Poll(p))

SchedSpec == SchedInit /\ [][SchedNext]_schedVars /\ SchedFairness

-----------------------------------------------------------------------------
(* Properties. *)

\* The history of a task counts each of its handler runs once: those that
\* returned are in it, except the ones whose caller is between the two locks,
\* even when the task was removed, replaced or disabled while the handler ran.
HistoryComplete ==
  \A id \in TaskIds :
    runs[id] = GetExecutions(id)
                 + Cardinality({c \in Callers : trigger[c] = [at |-> "push", task |-> id]})

\* Once the flag stays down, or its lock is poisoned by a second start, every
\* polling thread ends, also those that slept through a stop and a restart.
PollersEnd ==
  <>[](running # "up") => <>[](\A p \in DOMAIN pollers : pollers[p] = "ended")
=============================================================================
