---------------------------- MODULE ConversionTasks ----------------------------
(***************************************************************************)
(* serialize and parse of a message type with a callback: the call takes   *)
(* what it needs on the QML thread and starts a task on the thread pool,   *)
(* whose done signal is queued to the QML thread, where onDone calls the   *)
(* callback in its calling context and deletes the task.  A call that finds *)
(* nothing to convert starts none.                                         *)
(***************************************************************************)
EXTENDS Naturals, Sequences, FiniteSets

CONSTANTS
  Contents,     \* what a message, or the bytes it is parsed from, stands for
  Malformed,    \* bytes that do not parse
  MaxTasks,     \* bound: calls with a callback
  PoolSize      \* threads of QThreadPool::globalInstance()

ASSUME TasksAssumption ==
  Malformed \notin Contents /\ MaxTasks \in Nat /\ PoolSize \in Nat \ {0}

VARIABLES
  message,    \* what the program's message, or its bytes, holds now
  tasks,      \* every call with a callback: its operation, its task's copy, its stage
  queued,     \* done signals on their way to the QML thread
  contexts,   \* numbers of the tasks whose calling context is gone
  heard,      \* of each task: the results its callback was called with
  meant       \* history: of each task, what the message held at the call

tasksVars == <<message, tasks, queued, contexts, heard, meant>>

Stages == {"refused", "waiting", "done", "deleted", "leaked"}

Task == [op : {"serialize", "parse"}, copy : Contents \cup {Malformed}, stage : Stages]

TasksTypeOK ==
  /\ message \in Contents \cup {Malformed}
  /\ tasks \in Seq(Task) /\ Len(tasks) <= MaxTasks
  /\ queued \in Seq(DOMAIN tasks)
  /\ contexts \subseteq DOMAIN tasks
  /\ heard \in [DOMAIN tasks -> Seq(Contents \cup {Malformed})]
  /\ meant \in Seq(Contents \cup {Malformed})

TasksInit ==
  /\ message \in Contents
  /\ tasks = <<>> /\ queued = <<>> /\ contexts = {}
  /\ heard = <<>> /\ meant = <<>>

\* The program changes the message, or fills its bytes anew.
ChangeMessage(c) ==
  /\ message' = c
  /\ UNCHANGED <<tasks, queued, contexts, heard, meant>>

\* A call with a callback, whose task takes m and begins at stage st.
Called(op, m, st) ==
  /\ Len(tasks) < MaxTasks
  /\ tasks' = Append(tasks, [op |-> op, copy |-> m, stage |-> st])
  /\ heard' = Append(heard, <<>>)
  /\ meant' = Append(meant, m)
  /\ UNCHANGED <<message, queued, contexts>>

\* serialize converts the message, parse takes the bytes, before the task
\* starts.  What does not parse is no message to serialize.
StartTask(op) ==
  /\ op = "serialize" => message \in Contents
  /\ Called(op, message, "waiting")

\* There is no descriptor, or the first argument is no message that converts
\* or no bytes: the call returns, and forgets the callback, without a task.
CallRefused(op) == Called(op, Malformed, "refused")

\* The QML context of the callback is destroyed.
LeaveContext(t) ==
  /\ tasks[t].stage \in {"waiting", "done"}
  /\ contexts' = contexts \cup {t}
  /\ UNCHANGED <<message, tasks, queued, heard, meant>>

Unfinished(t) == tasks[t].stage = "waiting"

\* The pool starts its tasks in order, as many at a time as it has threads.
Runs(t) ==
  /\ Unfinished(t)
  /\ Cardinality({u \in 1..(t - 1) : Unfinished(u)}) < PoolSize

\* Slip: the task reads the message when it runs.
EndTask_Late(t) ==
  /\ Runs(t)
  /\ tasks' = [tasks EXCEPT ![t].stage = "done", ![t].copy = message]
  /\ queued' = Append(queued, t)
  /\ UNCHANGED <<message, contexts, heard, meant>>

\* Slip: done is not emitted after a failure.
EndTask_Silent(t) ==
  /\ Runs(t)
  /\ tasks' = [tasks EXCEPT ![t].stage = "done"]
  /\ queued' = IF tasks[t].copy = Malformed THEN queued ELSE Append(queued, t)
  /\ UNCHANGED <<message, contexts, heard, meant>>

\* run(), which touches nothing but the task, and ends by emitting done, also
\* after a failure.
EndTask(t) ==
  /\ Runs(t)
  /\ tasks' = [tasks EXCEPT ![t].stage = "done"]
  /\ queued' = Append(queued, t)
  /\ UNCHANGED <<message, contexts, heard, meant>>

\* onDone: without its context the task stays for ever.  The callback's first
\* argument is null whatever came out.
OnDone ==
  /\ queued # <<>>
  /\ LET t == Head(queued)
         there == t \notin contexts
     IN /\ tasks' = [tasks EXCEPT ![t].stage = IF there THEN "deleted" ELSE "leaked"]
        /\ heard' = IF there THEN [heard EXCEPT ![t] = Append(@, tasks[t].copy)] ELSE heard
  /\ queued' = Tail(queued)
  /\ UNCHANGED <<message, contexts, meant>>

PoolStep == \E t \in DOMAIN tasks : EndTask(t)

Program ==
  \/ \E c \in Contents \cup {Malformed} : ChangeMessage(c)
  \/ \E op \in {"serialize", "parse"} : StartTask(op) \/ CallRefused(op)
  \/ \E t \in DOMAIN tasks : LeaveContext(t)

\* A callback is called once at most, with the outcome for what the message
\* held at the call, however the program changes the message meanwhile and in
\* whatever order the pool's threads finish.
HearsItsOwn ==
  /\ TasksTypeOK
  /\ \A t \in DOMAIN tasks : heard[t] # <<>> => heard[t] = <<meant[t]>>

\* The callback of a call that started a task is called unless its context is
\* destroyed, also after a failure to parse.  That of a call refused at once is
\* not.
EveryTaskAnswered ==
  \A t \in 1..MaxTasks :
    (t \in DOMAIN tasks) ~>
      (t \in DOMAIN heard /\ (heard[t] # <<>> \/ t \in contexts \/ tasks[t].stage = "refused"))
=============================================================================
