--------------------------- MODULE ClientLifecycle ---------------------------
(***************************************************************************)
(* The life of the client's objects: the method holders, whose setters     *)
(* drop the implementation (deinit) and whose calls make one on demand     *)
(* (ensureInit), and the channel, which makes its gRPC channel, queue and  *)
(* IO thread once.  A call in flight keeps the raw pointer to the          *)
(* implementation that made it.                                            *)
(*                                                                         *)
(* A gRPC channel completes calls on its IO thread.  The buffers' channel  *)
(* answers within write(): it emits data, whose handler may do anything,   *)
(* and then emits closed; `writing' is the stack of such writes.           *)
(* A configuration stands for a method name and two descriptors.           *)
(***************************************************************************)
EXTENDS Naturals, Sequences

CONSTANTS
  Holders,     \* client method holders of any of the four kinds
  Remote,      \* gRPC channels
  Local,       \* buffer channels
  Configs,     \* complete configurations of a holder
  Unset,       \* no channel; or the name or a descriptor is missing
  MaxImpls,    \* bound: implementations made
  MaxPlaced     \* bound: calls made

Channels == Remote \cup Local

ASSUME ClientAssumption ==
  /\ Remote \cap Local = {}
  /\ Unset \notin Channels /\ Unset \notin Configs
  /\ MaxImpls \in Nat /\ MaxPlaced \in Nat

VARIABLES
  channel,    \* of each holder: channel_
  config,     \* of each holder: method_name_, read_desc_, write_desc_
  clientImpl, \* of each holder: impl_, a number, 0 for null
  made,       \* of each implementation ever made: the channel and configuration it has
  live,       \* the implementations that are not deleted
  queue,      \* of each gRPC channel: its completion queue and IO thread
  inFlight,   \* the calls in flight
  writing,    \* calls that are within write() of a local implementation, innermost last
  placed,     \* history: number of calls made
  changed     \* history: calls whose holder changed a value since

callVars == <<inFlight, writing, placed>>
holderVars == <<channel, config, clientImpl, live, made, queue, callVars, changed>>

Call == [number : 1..MaxPlaced, holder : Holders, impl : 1..MaxImpls]

Impls == DOMAIN made

HoldersTypeOK ==
  /\ channel \in [Holders -> Channels \cup {Unset}]
  /\ config \in [Holders -> Configs \cup {Unset}]
  /\ clientImpl \in [Holders -> 0..Len(made)]
  /\ made \in Seq([channel : Channels, config : Configs]) /\ Len(made) <= MaxImpls
  /\ live \subseteq Impls
  /\ queue \in [Remote -> {"none", "open", "closing", "gone"}]
  /\ inFlight \subseteq Call
  /\ writing \in Seq(Call)
  /\ placed \in 0..MaxPlaced
  /\ changed \subseteq 1..MaxPlaced

HoldersInit ==
  /\ channel = [h \in Holders |-> Unset]
  /\ config = [h \in Holders |-> Unset]
  /\ clientImpl = [h \in Holders |-> 0]
  /\ made = <<>> /\ live = {}
  /\ queue = [c \in Remote |-> "none"]
  /\ inFlight = {} /\ writing = <<>> /\ placed = 0
  /\ changed = {}

Gone(c) == c \in Remote /\ queue[c] = "gone"

\* ~Channel on the QML thread, which waits for the IO thread to end.
InShutdown == \E c \in Remote : queue[c] = "closing"

-----------------------------------------------------------------------------
(* QML thread: the setters.                                                *)

Open == inFlight \cup {writing[i] : i \in DOMAIN writing}

Change(h) == changed' = changed \cup {x.number : x \in {y \in Open : y.holder = h}}

deinit(h) ==
  /\ live' = live \ {clientImpl[h]}
  /\ clientImpl' = [clientImpl EXCEPT ![h] = 0]

\* set_channel: the same value again changes nothing.
SetChannel(h, c) ==
  /\ ~InShutdown
  /\ c # channel[h] /\ ~Gone(c)
  /\ deinit(h)
  /\ channel' = [channel EXCEPT ![h] = c]
  /\ Change(h)
  /\ UNCHANGED <<config, made, queue, callVars>>

\* Slip: the implementation is kept.
SetConfig_Keep(h, x) ==
  /\ ~InShutdown
  /\ x # config[h]
  /\ config' = [config EXCEPT ![h] = x]
  /\ Change(h)
  /\ UNCHANGED <<channel, clientImpl, live, made, queue, callVars>>

\* set_method_name, set_read_descriptor, set_write_descriptor
SetConfig(h, x) ==
  /\ ~InShutdown
  /\ x # config[h]
  /\ deinit(h)
  /\ config' = [config EXCEPT ![h] = x]
  /\ Change(h)
  /\ UNCHANGED <<channel, made, queue, callVars>>

-----------------------------------------------------------------------------
(* QML thread: calls.                                                      *)

readyForInit(h) == channel[h] # Unset /\ config[h] # Unset

\* Channel::ensureInit: raw_, the queue and the thread are made once, with
\* the target and credentials of that moment.
StartThread(c) ==
  queue' = IF c \in Remote /\ queue[c] = "none" THEN [queue EXCEPT ![c] = "open"] ELSE queue

\* ensureInit of the holders: an implementation is made if there is none and
\* everything it needs is set.
ensureInit(h) ==
  \/ /\ clientImpl[h] # 0
     /\ UNCHANGED <<made, clientImpl, live, queue>>
  \/ /\ clientImpl[h] = 0
     /\ readyForInit(h)
     /\ Len(made) < MaxImpls
     /\ made' = Append(made, [channel |-> channel[h], config |-> config[h]])
     /\ clientImpl' = [clientImpl EXCEPT ![h] = Len(made')]
     /\ live' = live \cup {Len(made')}
     /\ StartThread(channel[h])

\* write() of a holder.  Where ensureInit fails it returns false and nothing
\* changes; over a channel that is gone it is undefined and left out.
Write(h) ==
  /\ ~InShutdown
  /\ placed < MaxPlaced
  /\ ~Gone(channel[h])
  /\ ensureInit(h)
  /\ placed' = placed + 1
  /\ LET call == [number |-> placed', holder |-> h, impl |-> clientImpl'[h]]
     IN IF channel[h] \in Remote
          THEN inFlight' = inFlight \cup {call} /\ UNCHANGED writing
          ELSE writing' = Append(writing, call) /\ UNCHANGED inFlight
  /\ UNCHANGED <<channel, config, changed>>

\* writesDone, timeout, set_timeout: they too make an implementation.
Touch(h) ==
  /\ ~InShutdown
  /\ ~Gone(channel[h])
  /\ ensureInit(h)
  /\ UNCHANGED <<channel, config, callVars, changed>>

\* The handler of data returns to write(), which emits closed.
ReturnToWrite ==
  /\ ~InShutdown
  /\ writing # <<>>
  /\ writing' = SubSeq(writing, 1, Len(writing) - 1)
  /\ UNCHANGED <<channel, config, clientImpl, live, made, queue, inFlight, placed, changed>>

\* A channel is destroyed: shutdown() of the queue, if there is one, then the
\* wait for the thread.
DestroyChannel(c) ==
  /\ ~InShutdown
  /\ queue[c] \in {"none", "open"}
  /\ queue' = [queue EXCEPT ![c] = IF @ = "none" THEN "gone" ELSE "closing"]
  /\ UNCHANGED <<channel, config, clientImpl, live, made, callVars, changed>>

-----------------------------------------------------------------------------
(* IO threads.                                                             *)

On(c) == {x \in inFlight : made[x.impl].channel = c}

\* The last completion of a call, whose process() signals through the
\* implementation and deletes the call.
Complete(c) ==
  /\ \E x \in On(c) : inFlight' = inFlight \ {x}
  /\ UNCHANGED <<channel, config, clientImpl, live, made, queue, writing, placed, changed>>

\* Slip: the thread stays while an implementation holds its queue.
EndThread_Impls(c) ==
  /\ queue[c] = "closing"
  /\ On(c) = {} /\ \A i \in live : made[i].channel # c
  /\ queue' = [queue EXCEPT ![c] = "gone"]
  /\ UNCHANGED <<channel, config, clientImpl, live, made, callVars, changed>>

\* Next() of a queue that was shut down returns false when nothing is left:
\* the thread frees the queue and ends, and the destructor returns.
EndThread(c) ==
  /\ queue[c] = "closing"
  /\ On(c) = {}
  /\ queue' = [queue EXCEPT ![c] = "gone"]
  /\ UNCHANGED <<channel, config, clientImpl, live, made, callVars, changed>>

Io(c) == Complete(c) \/ EndThread(c)

HoldersNext ==
  \/ \E h \in Holders :
       \/ \E c \in Channels \cup {Unset} : SetChannel(h, c)
       \/ \E x \in Configs \cup {Unset} : SetConfig(h, x)
       \/ Write(h)
       \/ Touch(h)
  \/ ReturnToWrite
  \/ \E c \in Remote : DestroyChannel(c) \/ Io(c)

HoldersSpec == HoldersInit /\ [][HoldersNext]_holderVars

\* gRPC completes what it was given, and the IO thread runs.
FairHoldersSpec == HoldersSpec /\ \A c \in Remote : WF_holderVars(Io(c))

-----------------------------------------------------------------------------
(* Properties.                                                             *)

\* A holder never calls through an implementation made for another channel,
\* name or descriptor than it has now.
ImplCurrent ==
  \A h \in Holders : clientImpl[h] # 0 =>
    clientImpl[h] \in live /\ made[clientImpl[h]] = [channel |-> channel[h], config |-> config[h]]

\* A call in flight, or a write() that its own callback has interrupted, has
\* its implementation as long as no value of the holder is changed; and no
\* call outlives the IO thread that completes it.
CutOffOnlyByChange ==
  /\ \A x \in Open : x.impl \notin live => x.number \in changed
  /\ \A x \in inFlight : queue[made[x.impl].channel] \in {"open", "closing"}

\* What a call reaches through the pointers it keeps is there: the current
\* implementation of its holder, and the IO thread.
ImplsSafe == HoldersTypeOK /\ ImplCurrent /\ CutOffOnlyByChange

\* The destructor of a channel returns.
DestroyReturns == \A c \in Remote : (queue[c] = "closing") ~> (queue[c] = "gone")
=============================================================================
