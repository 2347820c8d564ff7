--------------------------- MODULE ClientCallbacks ---------------------------
(***************************************************************************)
(* The QML side of every client method: the callback storage of            *)
(* ClientMethod.qml and the queued connection over which the signals of a  *)
(* method object, emitted on the channel's IO thread, reach the QML        *)
(* thread.  The four client modules (ClientUnary, ClientReader,            *)
(* ClientWriter, ClientBidi) extend this one: their IO-thread actions      *)
(* append to `signals', and Deliver is the QML event loop taking one.      *)
(*                                                                         *)
(* A signal is [kind, tag, value].  `value' is the payload of "data" (a    *)
(* member of Payloads) and None in the others.  EmptyPayload stands for a  *)
(* message in which no field is set.                                       *)
(***************************************************************************)
EXTENDS Naturals, Sequences

CONSTANTS
  MaxTag,        \* bound: the number of calls the QML program makes
  Payloads,      \* the messages a call can receive
  EmptyPayload,  \* a received message with no field set
  None           \* no payload

ASSUME CallbackAssumption ==
  /\ MaxTag \in Nat
  /\ EmptyPayload \in Payloads /\ None \notin Payloads

VARIABLES
  lastTag,    \* _storage._tag, the last tag handed out
  callbacks,  \* the tags that have an entry in _storage.callbackStorage
  signals,    \* the queued signals of the method object, oldest first
  heard,      \* per tag, the events the program's callback was called with
  unwinding   \* tags whose callback is being told of a failure: the entry is
              \* removed only when the callback returns

callbackVars == <<lastTag, callbacks, signals, heard, unwinding>>

Tags == 1..MaxTag

SignalKinds == {"data", "dataEnd", "error", "closed"}

Signal == [kind : SignalKinds, tag : Tags, value : Payloads \cup {None}]

\* What a callback is called with: a message, the end of the stream, an
\* error reported by the call, or the refusal of write() or end().
Event == [kind : {"data", "end", "error", "failed"}, value : Payloads \cup {None}]

CallbackInit ==
  /\ lastTag = 0
  /\ callbacks = {}
  /\ signals = <<>>
  /\ heard = [t \in Tags |-> <<>>]
  /\ unwinding = {}

CallbackTypeOK ==
  /\ lastTag \in 0..MaxTag
  /\ callbacks \subseteq Tags
  /\ signals \in Seq(Signal)
  /\ heard \in [Tags -> Seq(Event)]
  /\ unwinding \subseteq Tags

-----------------------------------------------------------------------------
(* What the C++ objects and the four QML method types use.                 *)

DataOf(t, v) == [kind |-> "data", tag |-> t, value |-> v]
EventOf(k, t) == [kind |-> k, tag |-> t, value |-> None]

Emit(s) ==
  /\ signals' = signals \o s
  /\ UNCHANGED <<lastTag, callbacks, heard, unwinding>>

Hears(t, k, v) == heard' = [heard EXCEPT ![t] = Append(@, [kind |-> k, value |-> v])]

\* call(callback): a fresh tag, registered before anything is sent.
NewTag ==
  /\ lastTag < MaxTag
  /\ lastTag' = lastTag + 1
  /\ callbacks' = callbacks \cup {lastTag'}
  /\ UNCHANGED <<signals, heard, unwinding>>

\* write() or end() returned false: the callback is told and then, once it
\* has returned, forgotten.  Without a callback nobody is told.
Refused(t) ==
  /\ IF t \in callbacks
       THEN /\ Hears(t, "failed", None)
            /\ unwinding' = unwinding \cup {t}
       ELSE UNCHANGED <<heard, unwinding>>
  /\ UNCHANGED <<lastTag, callbacks, signals>>

-----------------------------------------------------------------------------
(* The QML event loop.                                                     *)

Oldest == Head(signals)

\* No signal is delivered while a callback is still running.
Take(k) ==
  /\ unwinding = {}
  /\ signals # <<>>
  /\ Oldest.kind = k
  /\ signals' = Tail(signals)
  /\ UNCHANGED lastTag

\* Slip: the callback is forgotten with the first message.
DeliverData_Once ==
  /\ Take("data")
  /\ IF Oldest.value # EmptyPayload /\ Oldest.tag \in callbacks
       THEN Hears(Oldest.tag, "data", Oldest.value)
       ELSE UNCHANGED heard
  /\ callbacks' = callbacks \ {Oldest.tag}
  /\ UNCHANGED unwinding

\* MethodHolder::handleData drops a message in which no field is set (its
\* conversion to a JS value is undefined); handleData of the storage drops
\* one whose tag has no callback.
DeliverData ==
  /\ Take("data")
  /\ IF Oldest.value # EmptyPayload /\ Oldest.tag \in callbacks
       THEN Hears(Oldest.tag, "data", Oldest.value)
       ELSE UNCHANGED heard
  /\ UNCHANGED <<callbacks, unwinding>>

DeliverDataEnd ==
  /\ Take("dataEnd")
  /\ IF Oldest.tag \in callbacks THEN Hears(Oldest.tag, "end", None) ELSE UNCHANGED heard
  /\ UNCHANGED <<callbacks, unwinding>>

\* Slip: handleError without its `finally'.
DeliverError_Kept ==
  /\ Take("error")
  /\ IF Oldest.tag \in callbacks THEN Hears(Oldest.tag, "error", None) ELSE UNCHANGED heard
  /\ UNCHANGED <<callbacks, unwinding>>

\* handleError calls the callback first and removes it in `finally'.
DeliverError ==
  /\ Take("error")
  /\ IF Oldest.tag \in callbacks
       THEN /\ Hears(Oldest.tag, "error", None)
            /\ unwinding' = {Oldest.tag}
       ELSE UNCHANGED <<heard, unwinding>>
  /\ UNCHANGED callbacks

DeliverClosed ==
  /\ Take("closed")
  /\ callbacks' = callbacks \ {Oldest.tag}
  /\ UNCHANGED <<heard, unwinding>>

\* The callback that was told of a failure returns.
Unwind ==
  \E t \in unwinding :
    /\ callbacks' = callbacks \ {t}
    /\ unwinding' = unwinding \ {t}
    /\ UNCHANGED <<lastTag, signals, heard>>

Deliver ==
  \/ DeliverData
  \/ DeliverDataEnd
  \/ DeliverError
  \/ DeliverClosed
  \/ Unwind
=============================================================================
