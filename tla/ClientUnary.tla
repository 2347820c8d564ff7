---------------------------- MODULE ClientUnary ----------------------------
(***************************************************************************)
(* A unary method of the client: UnaryMethod.qml and grpc::qml::           *)
(* UnaryMethod with its UnaryCallData objects, one for each tag.           *)
(*                                                                         *)
(* The constructor of the call data runs process(true), which asks gRPC    *)
(* for the result at once, so a call is one completion away from its end.  *)
(* gRPC, external, completes Finish with an `ok' and fills in a status:    *)
(* ok false means an error status, ok true says nothing of the status.     *)
(***************************************************************************)
EXTENDS ClientCallbacks

VARIABLES
  status,   \* per tag: "none", then the status_ of its object, "freed" by delete
  result    \* history: per tag, what gRPC reported: a message or an error

vars == <<callbackVars, status, result>>

Pending == "pending"
Failed == "failed"

TypeOK ==
  /\ CallbackTypeOK
  /\ status \in [Tags -> {"none", "DONE", "freed"}]
  /\ result \in [Tags -> Payloads \cup {Pending, Failed}]

Init ==
  /\ CallbackInit
  /\ status = [t \in Tags |-> "none"]
  /\ result = [t \in Tags |-> Pending]

-----------------------------------------------------------------------------
\* client.method(data, callback): a tag, and a call data object.
Call ==
  /\ NewTag
  /\ status' = [status EXCEPT ![lastTag'] = "DONE"]
  /\ UNCHANGED result

\* The holder is not ready or cannot convert the message: the callback is
\* discarded before call() returns false, and only the tag is used up.
CallRefused ==
  /\ lastTag < MaxTag
  /\ lastTag' = lastTag + 1
  /\ UNCHANGED <<callbacks, signals, heard, unwinding, status, result>>

\* Slip: closed only after an error.
Process_NotClosed(t, ok, r) ==
  /\ status[t] = "DONE"
  /\ ~ok => r = Failed
  /\ result' = [result EXCEPT ![t] = r]
  /\ Emit(IF ok THEN <<DataOf(t, IF r = Failed THEN EmptyPayload ELSE r)>>
                ELSE <<EventOf("error", t), EventOf("closed", t)>>)
  /\ status' = [status EXCEPT ![t] = "freed"]

\* Slip: the result is emitted under the last tag.
Process_LastTag(t, ok, r) ==
  /\ status[t] = "DONE"
  /\ ~ok => r = Failed
  /\ result' = [result EXCEPT ![t] = r]
  /\ Emit(<<IF ok THEN DataOf(lastTag, IF r = Failed THEN EmptyPayload ELSE r) ELSE EventOf("error", t),
            EventOf("closed", t)>>)
  /\ status' = [status EXCEPT ![t] = "freed"]

\* IO thread: data or error by `ok', then closed, then delete this.
Process(t, ok, r) ==
  /\ status[t] = "DONE"
  /\ ~ok => r = Failed
  /\ result' = [result EXCEPT ![t] = r]
  /\ \/ /\ ok
        /\ Emit(<<DataOf(t, IF r = Failed THEN EmptyPayload ELSE r), EventOf("closed", t)>>)
     \/ /\ ~ok
        /\ Emit(<<EventOf("error", t), EventOf("closed", t)>>)
  /\ status' = [status EXCEPT ![t] = "freed"]

ProcessAny(t) == \E ok \in BOOLEAN : \E r \in Payloads \cup {Failed} : Process(t, ok, r)

QmlDeliver == Deliver /\ UNCHANGED <<status, result>>

Next ==
  \/ Call
  \/ CallRefused
  \/ QmlDeliver
  \/ \E t \in Tags : ProcessAny(t)

Spec == Init /\ [][Next]_vars

\* gRPC completes every call (there is a deadline, or the connection breaks)
\* and both threads keep running.
Fairness == (\A t \in Tags : WF_vars(ProcessAny(t))) /\ WF_vars(QmlDeliver)

FairSpec == Spec /\ Fairness

-----------------------------------------------------------------------------
(* Properties.                                                             *)

\* A call whose callback is forgotten has called it, except when there was no
\* field in the response to deliver: `closed' never overtakes the result.
SilentOnlyIfEmpty ==
  \A t \in Tags : status[t] = "freed" /\ t \notin callbacks =>
    heard[t] # <<>> \/ result[t] \in {EmptyPayload, Failed}

\* Every callback is eventually forgotten.
EveryCallForgotten == \A t \in Tags : (t \in callbacks) ~> (t \notin callbacks)
=============================================================================
