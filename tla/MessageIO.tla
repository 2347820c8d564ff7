------------------------------- MODULE MessageIO -------------------------------
(***************************************************************************)
(* What moves a message between the program and bytes: the tasks of the    *)
(* thread pool and the calls of a buffer channel.  Both live on the QML    *)
(* thread, which hears no task while write() of a channel is in progress;  *)
(* the pool goes on.                                                       *)
(***************************************************************************)
EXTENDS ConversionTasks, BufferChannel

ioVars == <<tasksVars, bufferVars>>

IOInit == TasksInit /\ BufferInit

Deliver == ~Busy /\ OnDone /\ UNCHANGED bufferVars

Pool == PoolStep /\ UNCHANGED bufferVars

WriteStep == (Serialized \/ Parsed \/ Failed \/ End) /\ UNCHANGED tasksVars

IONext ==
  \/ Deliver
  \/ Pool
  \/ ProgramRuns /\ Program /\ UNCHANGED bufferVars
  \/ BufferNext /\ UNCHANGED tasksVars

IOSpec == IOInit /\ [][IONext]_ioVars

\* The pool's threads and the event loop run, and write() and the callbacks it
\* calls return.
FairIOSpec == IOSpec /\ WF_ioVars(Deliver) /\ WF_ioVars(Pool) /\ WF_ioVars(WriteStep)
=============================================================================
