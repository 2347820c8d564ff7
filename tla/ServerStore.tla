----------------------------- MODULE ServerStore -----------------------------
(***************************************************************************)
(* What the four server methods share: the CallDataStore that turns a      *)
(* call-data object into the integer tag the QML program knows it by, and  *)
(* the queued connection that takes data and dataEnd from the server's IO  *)
(* thread to the QML thread.                                               *)
(*                                                                         *)
(* Not modelled: the closed and error signals of server methods carry      *)
(* ServerXxxCallData::tag_, which no constructor initialises, so they name *)
(* no call; the tag counter does not wrap.                                 *)
(***************************************************************************)
EXTENDS Naturals, Sequences

CONSTANTS
  Calls,         \* the call-data objects there is memory for (a bound)
  NoCall,        \* a null call-data pointer
  MaxTag,        \* bound: the last tag handed out, at most one per call
  EmptyPayload,  \* a message with no field set
  Payloads       \* the messages a client sends

ASSUME StoreAssumption ==
  /\ NoCall \notin Calls
  /\ MaxTag \in Nat \ {0}

VARIABLES
  store,     \* CallDataStore::cdata_
  lastTag,   \* CallDataStore::tag_
  signals,   \* signals queued for the QML thread, oldest first
  known,     \* the tags the QML handler was called with
  ended      \* the tags whose dataEnd reached the QML handler

storeVars == <<store, lastTag, signals, known, ended>>

Tags == 2..MaxTag

StoreTypeOK ==
  /\ store \in [Tags -> Calls \cup {NoCall}]
  /\ lastTag \in 1..MaxTag
  /\ signals \in Seq([kind : {"data", "dataEnd"}, tag : Tags, value : Payloads \cup {EmptyPayload}])
  /\ known \subseteq Tags
  /\ ended \subseteq Tags

StoreInit ==
  /\ store = [t \in Tags |-> NoCall]
  /\ lastTag = 1
  /\ signals = <<>>
  /\ known = {}
  /\ ended = {}

DataOf(t, v) == [kind |-> "data", tag |-> t, value |-> v]
DataEndOf(t) == [kind |-> "dataEnd", tag |-> t, value |-> EmptyPayload]

Emit(s) == signals' = signals \o s /\ UNCHANGED <<store, lastTag, known, ended>>

\* store(c), then the data signal under the new tag.
StoreAndEmit(c, v) ==
  /\ lastTag < MaxTag
  /\ lastTag' = lastTag + 1
  /\ store' = [store EXCEPT ![lastTag'] = c]
  /\ signals' = Append(signals, DataOf(lastTag', v))
  /\ UNCHANGED <<known, ended>>

\* remove(t)
Remove(t) ==
  /\ store' = [store EXCEPT ![t] = NoCall]
  /\ UNCHANGED <<lastTag, signals, known, ended>>

\* MethodHolder::handleData drops a message with no field set; the handler
\* is not called and does not learn the tag.
DeliverData ==
  /\ signals # <<>>
  /\ Head(signals).kind = "data"
  /\ signals' = Tail(signals)
  /\ known' = IF Head(signals).value = EmptyPayload THEN known ELSE known \cup {Head(signals).tag}
  /\ UNCHANGED <<store, lastTag, ended>>

\* onDataEnd looks the handler up and does not create one.
DeliverDataEnd ==
  /\ signals # <<>>
  /\ Head(signals).kind = "dataEnd"
  /\ signals' = Tail(signals)
  /\ ended' = IF Head(signals).tag \in known THEN ended \cup {Head(signals).tag} ELSE ended
  /\ UNCHANGED <<store, lastTag, known>>

Deliver == DeliverData \/ DeliverDataEnd
=============================================================================
