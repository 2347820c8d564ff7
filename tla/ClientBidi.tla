----------------------------- MODULE ClientBidi -----------------------------
(***************************************************************************)
(* A bidirectional-streaming method of the client: ReaderWriterMethod.qml  *)
(* on the QML thread, grpc::qml::ReaderWriterMethod and its                *)
(* ReaderWriterCallData objects, shared with the channel's IO thread.      *)
(*                                                                         *)
(* Unlike ClientWriter, every QML operation holds calls_mutex_ from the    *)
(* lookup to the end, so an operation is one step.  process() decides      *)
(* everything from a status that the QML thread writes only when nothing   *)
(* is in flight, so it is one step as well.                                *)
(*                                                                         *)
(* A call object is never deleted: FINISH only takes it out of calls_.     *)
(*                                                                         *)
(* gRPC is external.  It completes each operation once, at any later time, *)
(* and the completion names only the call.  It must not be given an        *)
(* operation while another is in flight, nor a second WritesDone; what     *)
(* happens after that is gRPC's affair, so the model stops there.          *)
(***************************************************************************)
EXTENDS ClientCallbacks

CONSTANTS
  Calls,              \* the call objects there is memory for (a bound)
  NoCall,             \* a null pointer
  Messages,           \* the request messages the program sends
  Null,               \* the null request that stands for writesDone in requests_
  MaxOps,             \* bound: the operations the QML program performs
  MaxEnds,            \* bound: how often it calls end() with one tag
  MaxReads            \* bound: the messages the server sends in one call

ASSUME BidiAssumption ==
  /\ NoCall \notin Calls
  /\ Null \notin Messages
  /\ MaxOps \in Nat /\ MaxEnds \in Nat /\ MaxReads \in Nat

VARIABLES
  calls,            \* ReaderWriterMethod::calls_
  tagOf,            \* ReaderWriterCallData::tag_, 0 until the object is made
  status,           \* status_
  readDone,         \* read_done_
  writeDone,        \* write_done_
  writeDoneQueued,  \* write_done_queued_
  requests,         \* requests_
  outstanding,      \* operations gRPC has not completed yet
  reads,            \* messages received
  ops,              \* operations performed
  ends,             \* per tag, how often end() was called
  accepted,         \* history: everything write() and writesDone() took, in order
  handed            \* history: everything handed to gRPC, in order

flagVars == <<readDone, writeDone, writeDoneQueued>>
streamVars == <<status, requests, outstanding, accepted, handed>>
callVars == <<calls, tagOf, flagVars, streamVars, reads>>
vars == <<callbackVars, callVars, ops, ends>>

Statuses == {"INIT", "FROZEN", "WRITE", "READ", "WRITES_DONE", "FINISH"}
Requests == Messages \cup {Null}

TypeOK ==
  /\ CallbackTypeOK
  /\ calls \in [Tags -> Calls \cup {NoCall}]
  /\ tagOf \in [Calls -> Tags \cup {0}]
  /\ status \in [Calls -> Statuses]
  /\ readDone \in [Calls -> BOOLEAN]
  /\ writeDone \in [Calls -> BOOLEAN]
  /\ writeDoneQueued \in [Calls -> BOOLEAN]
  /\ requests \in [Calls -> Seq(Requests)]
  /\ outstanding \in [Calls -> Nat]
  /\ reads \in [Calls -> 0..MaxReads]
  /\ ops \in 0..MaxOps
  /\ ends \in [Tags -> 0..MaxEnds]
  /\ accepted \in [Calls -> Seq(Requests)]
  /\ handed \in [Calls -> Seq(Requests)]

Init ==
  /\ CallbackInit
  /\ calls = [t \in Tags |-> NoCall]
  /\ tagOf = [c \in Calls |-> 0]
  /\ status = [c \in Calls |-> "INIT"]
  /\ readDone = [c \in Calls |-> FALSE]
  /\ writeDone = [c \in Calls |-> FALSE]
  /\ writeDoneQueued = [c \in Calls |-> FALSE]
  /\ requests = [c \in Calls |-> <<>>]
  /\ outstanding = [c \in Calls |-> 0]
  /\ reads = [c \in Calls |-> 0]
  /\ ops = 0
  /\ ends = [t \in Tags |-> 0]
  /\ accepted = [c \in Calls |-> <<>>]
  /\ handed = [c \in Calls |-> <<>>]

-----------------------------------------------------------------------------
(* What is handed to gRPC, with the status the code sets beside it.        *)

\* stream_.Write(r), or stream_.WritesDone() for Null.
Hand(c, r) ==
  /\ status' = [status EXCEPT ![c] = IF r = Null THEN "WRITES_DONE" ELSE "WRITE"]
  /\ handed' = [handed EXCEPT ![c] = Append(@, r)]

\* stream_.Finish() or stream_.Read(), in place of what has completed.
Goes(c, s) ==
  /\ status' = [status EXCEPT ![c] = s]
  /\ UNCHANGED <<outstanding, requests, handed>>

\* Slip: back() and pop() of a queue that is a stack.
handleQueuedRequests_Stack(c) ==
  LET n == Len(requests[c])
  IN \/ /\ n = 0
        /\ ~writeDone[c]
        /\ status' = [status EXCEPT ![c] = "FROZEN"]
        /\ outstanding' = [outstanding EXCEPT ![c] = @ - 1]
        /\ UNCHANGED <<requests, handed>>
     \/ /\ n = 0
        /\ writeDone[c]
        /\ Goes(c, "READ")
     \/ /\ n > 0
        /\ requests' = [requests EXCEPT ![c] = SubSeq(@, 1, n - 1)]
        /\ Hand(c, requests[c][n])
        /\ UNCHANGED outstanding

\* Slip: an idle call reads, whether or not the writes are done.
handleQueuedRequests_Read(c) ==
  \/ /\ requests[c] = <<>>
     /\ Goes(c, "READ")
  \/ /\ requests[c] # <<>>
     /\ requests' = [requests EXCEPT ![c] = Tail(@)]
     /\ Hand(c, Head(requests[c]))
     /\ UNCHANGED outstanding

handleQueuedRequests(c) ==
  \/ /\ requests[c] = <<>>
     /\ ~writeDone[c]
     /\ status' = [status EXCEPT ![c] = "FROZEN"]
     /\ outstanding' = [outstanding EXCEPT ![c] = @ - 1]
     /\ UNCHANGED <<requests, handed>>
  \/ /\ requests[c] = <<>>
     /\ writeDone[c]
     /\ Goes(c, "READ")
  \/ /\ requests[c] # <<>>
     /\ requests' = [requests EXCEPT ![c] = Tail(@)]
     /\ Hand(c, Head(requests[c]))
     /\ UNCHANGED outstanding

Holds(s, r) == \E i \in 1..Len(s) : s[i] = r

Twice(s, r) == \E i, j \in 1..Len(s) : i < j /\ s[i] = r /\ s[j] = r

Misused == \E c \in Calls : outstanding[c] > 1 \/ Twice(handed[c], Null)

-----------------------------------------------------------------------------
(* QML thread.                                                             *)

MayAct == ops < MaxOps /\ ops' = ops + 1

\* ensureCallData: a new object, whose constructor starts the call.
Create(t) ==
  \E c \in Calls :
    /\ tagOf[c] = 0
    /\ tagOf' = [tagOf EXCEPT ![c] = t]
    /\ calls' = [calls EXCEPT ![t] = c]
    /\ outstanding' = [outstanding EXCEPT ![c] = 1]
    /\ UNCHANGED <<status, requests, flagVars, accepted, handed, reads>>

Call ==
  /\ NewTag
  /\ Create(lastTag')
  /\ UNCHANGED <<ops, ends>>

\* The stream takes request r: at once if FROZEN, else behind what is queued.
Accept(c, r) ==
  /\ accepted' = [accepted EXCEPT ![c] = Append(@, r)]
  /\ \/ /\ status[c] = "FROZEN"
        /\ Hand(c, r)
        /\ outstanding' = [outstanding EXCEPT ![c] = @ + 1]
        /\ UNCHANGED requests
     \/ /\ status[c] # "FROZEN"
        /\ requests' = [requests EXCEPT ![c] = Append(@, r)]
        /\ UNCHANGED <<status, outstanding, handed>>

\* p.write(): the callback is looked up, then the call, then the flag.
Write(t, m) ==
  LET c == calls[t]
  IN /\ MayAct
     /\ t \in callbacks
     /\ \/ /\ c # NoCall => writeDoneQueued[c]
           /\ Refused(t)
           /\ UNCHANGED streamVars
        \/ /\ c # NoCall /\ ~writeDoneQueued[c]
           /\ Accept(c, m)
           /\ UNCHANGED callbackVars
     /\ UNCHANGED <<calls, tagOf, flagVars, reads, ends>>

\* p.end(): writesDone() looks at the status, not at write_done_queued_.
EndWrites(t) ==
  LET c == calls[t]
  IN /\ MayAct
     /\ t \in callbacks
     /\ ends[t] < MaxEnds
     /\ ends' = [ends EXCEPT ![t] = @ + 1]
     /\ \/ /\ c = NoCall
           /\ Refused(t)
           /\ UNCHANGED <<writeDoneQueued, streamVars>>
        \/ /\ c # NoCall
           /\ writeDoneQueued' = [writeDoneQueued EXCEPT ![c] = TRUE]
           /\ \/ /\ status[c] \in {"WRITES_DONE", "FINISH"}
                 /\ Refused(t)
                 /\ UNCHANGED streamVars
              \/ /\ status[c] \notin {"WRITES_DONE", "FINISH"}
                 /\ Accept(c, Null)
                 /\ UNCHANGED callbackVars
     /\ UNCHANGED <<calls, tagOf, readDone, writeDone, reads>>

\* Setting `timeout' on what call() returned creates a call object when the
\* tag's is gone; else it changes nothing that is modelled.
SetTimeout(t) ==
  /\ MayAct
  /\ t <= lastTag
  /\ calls[t] = NoCall
  /\ Create(t)
  /\ UNCHANGED <<callbackVars, ends>>

-----------------------------------------------------------------------------
(* IO thread: a completion for call c.                                     *)

Completes(c, s) == outstanding[c] > 0 /\ status[c] = s

Streaming == UNCHANGED <<calls, tagOf, writeDoneQueued, accepted, ops, ends>>

ProcessInit(c, ok) ==
  /\ Completes(c, "INIT")
  /\ IF ok THEN handleQueuedRequests(c) ELSE Goes(c, "FINISH")
  /\ Streaming
  /\ UNCHANGED <<callbackVars, readDone, writeDone, reads>>

ProcessWrite(c, ok) ==
  /\ Completes(c, "WRITE")
  /\ \/ ok /\ handleQueuedRequests(c) /\ UNCHANGED callbackVars
     \/ ~ok /\ Goes(c, "FINISH") /\ Emit(<<EventOf("error", tagOf[c])>>)
  /\ Streaming
  /\ UNCHANGED <<readDone, writeDone, reads>>

ProcessRead(c) ==
  /\ Completes(c, "READ")
  /\ reads[c] < MaxReads
  /\ reads' = [reads EXCEPT ![c] = @ + 1]
  /\ \E v \in Payloads : Emit(<<DataOf(tagOf[c], v)>>)
  /\ handleQueuedRequests(c)
  /\ Streaming
  /\ UNCHANGED <<readDone, writeDone>>

\* Slip: reading goes on after the end of the stream.
ProcessReadEnd_Again(c) ==
  /\ Completes(c, "READ")
  /\ ~readDone[c]
  /\ readDone' = [readDone EXCEPT ![c] = TRUE]
  /\ Emit(<<EventOf("dataEnd", tagOf[c])>>)
  /\ Goes(c, "READ")
  /\ Streaming
  /\ UNCHANGED <<writeDone, reads>>

ProcessReadEnd(c) ==
  /\ Completes(c, "READ")
  /\ Emit(<<EventOf("dataEnd", tagOf[c])>>)
  /\ readDone' = [readDone EXCEPT ![c] = TRUE]
  /\ IF writeDone[c] THEN Goes(c, "FINISH") ELSE handleQueuedRequests(c)
  /\ Streaming
  /\ UNCHANGED <<writeDone, reads>>

\* After a failed WritesDone, Finish is given to gRPC and then, because
\* nothing returns, the Read or Finish of the successful case as well.
ProcessWritesDone(c, ok) ==
  /\ Completes(c, "WRITES_DONE")
  /\ writeDone' = [writeDone EXCEPT ![c] = TRUE]
  /\ status' = [status EXCEPT ![c] = IF readDone[c] THEN "FINISH" ELSE "READ"]
  /\ outstanding' = IF ok THEN outstanding ELSE [outstanding EXCEPT ![c] = @ + 1]
  /\ Streaming
  /\ UNCHANGED <<callbackVars, readDone, requests, handed, reads>>

\* Slip: the call is left in calls_ and not closed.
ProcessFinish_Kept(c, bad) ==
  /\ Completes(c, "FINISH")
  /\ outstanding' = [outstanding EXCEPT ![c] = @ - 1]
  /\ Emit(IF bad THEN <<EventOf("error", tagOf[c])>> ELSE <<>>)
  /\ UNCHANGED <<calls, tagOf, flagVars, status, requests, accepted, handed, reads, ops, ends>>

\* The status of the call, if an error, then deleteCall().
ProcessFinish(c, bad) ==
  LET t == tagOf[c]
      error == IF bad THEN <<EventOf("error", t)>> ELSE <<>>
      closed == IF calls[t] # NoCall THEN <<EventOf("closed", t)>> ELSE <<>>
  IN /\ Completes(c, "FINISH")
     /\ outstanding' = [outstanding EXCEPT ![c] = @ - 1]
     /\ calls' = [calls EXCEPT ![t] = NoCall]
     /\ Emit(error \o closed)
     /\ UNCHANGED <<tagOf, flagVars, status, requests, accepted, handed, reads, ops, ends>>

-----------------------------------------------------------------------------
QmlDeliver == ~Misused /\ Deliver /\ UNCHANGED <<callVars, ops, ends>>

Process(c) ==
  /\ ~Misused
  /\ \/ \E ok \in BOOLEAN :
          \/ ProcessInit(c, ok)
          \/ ProcessWrite(c, ok)
          \/ ProcessWritesDone(c, ok)
          \/ ProcessFinish(c, ~ok)
     \/ ProcessRead(c)
     \/ ProcessReadEnd(c)

QmlNext ==
  \/ /\ ~Misused
     /\ \/ Call
        \/ \E t \in Tags : \E m \in Messages : Write(t, m)
        \/ \E t \in Tags : EndWrites(t) \/ SetTimeout(t)
  \/ QmlDeliver

Next == QmlNext \/ \E c \in Calls : Process(c)

Spec == Init /\ [][Next]_vars

\* gRPC completes every operation and both threads keep running.  That the
\* program writes or ends is its own choice.
Fairness == (\A c \in Calls : WF_vars(Process(c))) /\ WF_vars(QmlDeliver)

FairSpec == Spec /\ Fairness

-----------------------------------------------------------------------------
(* Properties.                                                             *)

\* Whatever way the two threads interleave, what write() and writesDone()
\* accepted goes to gRPC in that order, nothing twice and nothing skipped; a
\* call waits in FROZEN only with an empty queue.
HandedInOrder ==
  \A c \in Calls :
    /\ accepted[c] = handed[c] \o requests[c]
    /\ status[c] = "FROZEN" => requests[c] = <<>>

\* After "end" the callback hears no message and no second "end", also when
\* setting the timeout makes a second call object under the same tag.
EndIsLast ==
  \A t \in Tags : \A i, j \in 1..Len(heard[t]) :
    heard[t][i].kind = "end" /\ i < j => heard[t][j].kind \notin {"data", "end"}

\* Nothing is read from the server before the program has ended its side: an
\* answer to a message cannot arrive while the program means to send more.
HalfDuplex == \A c \in Calls : reads[c] > 0 => Holds(handed[c], Null)

\* One operation is in flight, except when FROZEN, before the call and after
\* it, as long as the program does not have a second end() sent and no
\* WritesDone fails.
OneOperation ==
  Misused \/ \A c \in Calls :
    LET over == status[c] = "FINISH" /\ calls[tagOf[c]] # c
    IN outstanding[c] = IF tagOf[c] = 0 \/ status[c] = "FROZEN" \/ over THEN 0 ELSE 1

\* gRPC gets one operation at a time and the program's requests in order.
OneInOrder == TypeOK /\ OneOperation /\ HandedInOrder

\* Under the same condition the callback of a call that accepted end() is
\* eventually forgotten.
EndedIsForgotten ==
  \A c \in Calls : \A t \in Tags :
    (tagOf[c] = t /\ Holds(accepted[c], Null)) ~> (t \notin callbacks \/ Misused)
=============================================================================
