---------------------------- MODULE ClientReader ----------------------------
(***************************************************************************)
(* A server-streaming method of the client: ReaderMethod.qml and           *)
(* grpc::qml::ReaderMethod with its ReaderCallData objects, one for each   *)
(* tag, each with one operation in flight from its constructor on.         *)
(***************************************************************************)
EXTENDS ClientCallbacks

CONSTANT MaxReads   \* bound: the messages the server sends in one call

ASSUME ReaderAssumption == MaxReads \in Nat

VARIABLES
  readStatus,  \* per tag: "none", then the status_ of its object, "freed" by delete
  received     \* history: per tag, the messages gRPC delivered

readerVars == <<callbackVars, readStatus, received>>

ReaderTypeOK ==
  /\ CallbackTypeOK
  /\ readStatus \in [Tags -> {"none", "WRITE", "READ", "DONE", "freed"}]
  /\ received \in [Tags -> Seq(Payloads)]

ReaderInit ==
  /\ CallbackInit
  /\ readStatus = [t \in Tags |-> "none"]
  /\ received = [t \in Tags |-> <<>>]

-----------------------------------------------------------------------------
\* client.method(data, callback): a tag, and a call data object, whose
\* constructor sends the request.
ReaderCall ==
  /\ NewTag
  /\ readStatus' = [readStatus EXCEPT ![lastTag'] = "WRITE"]
  /\ UNCHANGED received

\* The holder is not ready or cannot convert the message: the callback is
\* discarded before call() returns false, and only the tag is used up.
CallRefused ==
  /\ lastTag < MaxTag
  /\ lastTag' = lastTag + 1
  /\ UNCHANGED <<callbacks, signals, heard, unwinding, readStatus, received>>

Goes(t, s) == readStatus' = [readStatus EXCEPT ![t] = s]

\* The request is sent, or the call failed: there is no Finish then, and no
\* closed signal.
ProcessSent(t, ok) ==
  /\ readStatus[t] = "WRITE"
  /\ \/ ok /\ Goes(t, "READ") /\ UNCHANGED callbackVars
     \/ ~ok /\ Goes(t, "freed") /\ Emit(<<EventOf("error", t)>>)
  /\ UNCHANGED received

ProcessRead(t, v) ==
  /\ readStatus[t] = "READ"
  /\ Len(received[t]) < MaxReads
  /\ received' = [received EXCEPT ![t] = Append(@, v)]
  /\ Emit(<<DataOf(t, v)>>)
  /\ UNCHANGED readStatus

\* Slip: no dataEnd signal.
ProcessReadEnd_Silent(t) ==
  /\ readStatus[t] = "READ"
  /\ Goes(t, "DONE")
  /\ UNCHANGED <<callbackVars, received>>

\* The server is done, or gone.
ProcessReadEnd(t) ==
  /\ readStatus[t] = "READ"
  /\ Emit(<<EventOf("dataEnd", t)>>)
  /\ Goes(t, "DONE")
  /\ UNCHANGED received

\* Slip: closed only after an error.
ProcessOver_NotClosed(t, bad) ==
  /\ readStatus[t] = "DONE"
  /\ Emit(IF bad THEN <<EventOf("error", t), EventOf("closed", t)>> ELSE <<>>)
  /\ Goes(t, "freed")
  /\ UNCHANGED received

\* The status of the call, if an error, then closed and delete this.
ProcessOver(t, bad) ==
  /\ readStatus[t] = "DONE"
  /\ Emit((IF bad THEN <<EventOf("error", t)>> ELSE <<>>) \o <<EventOf("closed", t)>>)
  /\ Goes(t, "freed")
  /\ UNCHANGED received

ReaderProcess(t) ==
  \/ \E ok \in BOOLEAN : ProcessSent(t, ok) \/ ProcessOver(t, ~ok)
  \/ \E v \in Payloads : ProcessRead(t, v)
  \/ ProcessReadEnd(t)

ReaderDeliver == Deliver /\ UNCHANGED <<readStatus, received>>

ReaderNext ==
  \/ ReaderCall
  \/ CallRefused
  \/ ReaderDeliver
  \/ \E t \in Tags : ReaderProcess(t)

ReaderSpec == ReaderInit /\ [][ReaderNext]_readerVars

\* gRPC completes what it was given (the server sends at most MaxReads
\* messages) and both threads keep running.
ReaderFairness == (\A t \in Tags : WF_readerVars(ReaderProcess(t))) /\ WF_readerVars(ReaderDeliver)

ReaderFairSpec == ReaderSpec /\ ReaderFairness

-----------------------------------------------------------------------------
(* Properties.                                                             *)

\* The messages gRPC delivered that have a field set; the others are dropped.
Sent(t) == {i \in DOMAIN received[t] : received[t][i] # EmptyPayload}

\* What a tag has heard and, behind it, the queue of signals: one line, in
\* which message v of the tag is at place k.
Places(t) == 1..(Len(heard[t]) + Len(signals))

HeardAt(t, k, v) == k <= Len(heard[t]) /\ heard[t][k] = [kind |-> "data", value |-> v]

QueuedAt(t, k, v) ==
  k > Len(heard[t]) /\ v # EmptyPayload /\ signals[k - Len(heard[t])] = DataOf(t, v)

InLine(t, k, v) == HeardAt(t, k, v) \/ QueuedAt(t, k, v)

\* What the callback of a tag heard, and then what is on its way to it, are
\* the messages of that call, each once and in order, but for those with no
\* field set: the callback is never forgotten while messages of its call are
\* on their way.
StreamIntact ==
  \A t \in Tags : \E place \in [Sent(t) -> Places(t)] :
    /\ \A i \in Sent(t) : InLine(t, place[i], received[t][i])
    /\ \A i, j \in Sent(t) : i < j => place[i] < place[j]
    /\ \A k \in Places(t), v \in Payloads : InLine(t, k, v) => \E i \in Sent(t) : place[i] = k

\* A callback that is forgotten was told of the end or of an error.
ToldTheEnd ==
  \A t \in Tags : readStatus[t] = "freed" /\ t \notin callbacks =>
    \E i \in 1..Len(heard[t]) : heard[t][i].kind \in {"end", "error"}

\* Every callback is eventually forgotten, also after a failed request, for
\* which no closed signal is sent.
EveryCallForgotten == \A t \in Tags : (t \in callbacks) ~> (t \notin callbacks)
=============================================================================
