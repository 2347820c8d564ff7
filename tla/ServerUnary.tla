----------------------------- MODULE ServerUnary -----------------------------
(***************************************************************************)
(* A unary method of the server: ServerUnaryMethod, its                    *)
(* ServerUnaryCallData objects and ServerUnaryMethod.qml.  The call data   *)
(* has no lock; respond() and abort() remove the tag from the store and    *)
(* then run resume() or abort() on the object, two steps.                  *)
(***************************************************************************)
EXTENDS ServerStore

VARIABLES
  memory,       \* of each object: "none" until new, "live", "freed" by delete
  status,       \* status_ (INIT is left within the constructor)
  outstanding,  \* operations gRPC has not completed yet
  down,         \* the server was shut down
  qml,          \* the call the QML thread is about to answer
  answered      \* history: the tags respond() or abort() returned true for

callVars == <<memory, status, outstanding>>
vars == <<storeVars, callVars, down, qml, answered>>

Statuses == {"READ", "FROZEN", "DONE"}

TypeOK ==
  /\ StoreTypeOK
  /\ memory \in [Calls -> {"none", "live", "freed"}]
  /\ status \in [Calls -> Statuses]
  /\ outstanding \in [Calls -> Nat]
  /\ down \in BOOLEAN
  /\ qml \in Calls \cup {NoCall}
  /\ answered \subseteq Tags

\* startProcessing() has made the first call object, which waits for a request.
Init ==
  /\ StoreInit
  /\ \E c \in Calls :
       /\ memory = [d \in Calls |-> IF d = c THEN "live" ELSE "none"]
       /\ outstanding = [d \in Calls |-> IF d = c THEN 1 ELSE 0]
  /\ status = [c \in Calls |-> "READ"]
  /\ down = FALSE
  /\ qml = NoCall
  /\ answered = {}

\* GrpcServer::shutdown has not returned: on the QML thread, it waits until
\* gRPC has finished every call.
InShutdown == down /\ \E c \in Calls : memory[c] = "live"

\* Slip: the tag is looked up and not removed.
BeginAnswer_Kept(t) ==
  /\ qml = NoCall /\ ~InShutdown
  /\ t \in known
  /\ store[t] # NoCall
  /\ qml' = store[t]
  /\ answered' = answered \cup {t}
  /\ UNCHANGED <<storeVars, callVars, down>>

\* QML thread: the callback given to the handler, called with a response or
\* an error, any number of times.  Without an entry in the store it returns
\* false.
BeginAnswer(t) ==
  /\ qml = NoCall /\ ~InShutdown
  /\ t \in known
  /\ store[t] # NoCall
  /\ qml' = store[t]
  /\ answered' = answered \cup {t}
  /\ Remove(t)
  /\ UNCHANGED <<callVars, down>>

\* resume() and abort(), which differ in the status Finish sends.
EndAnswer ==
  /\ qml # NoCall
  /\ IF status[qml] = "FROZEN"
       THEN /\ status' = [status EXCEPT ![qml] = "DONE"]
            /\ outstanding' = [outstanding EXCEPT ![qml] = @ + 1]
       ELSE UNCHANGED <<status, outstanding>>
  /\ qml' = NoCall
  /\ UNCHANGED <<storeVars, memory, down, answered>>

Completes(c, s) == outstanding[c] > 0 /\ status[c] = s

\* IO thread: the server is going down.
ProcessShutdown(c) ==
  /\ Completes(c, "READ")
  /\ down
  /\ memory' = [memory EXCEPT ![c] = "freed"]
  /\ outstanding' = [outstanding EXCEPT ![c] = @ - 1]
  /\ UNCHANGED <<storeVars, status, down, qml, answered>>

\* A client calls the method.
ProcessRequest(c) ==
  /\ Completes(c, "READ")
  /\ ~down
  /\ status' = [status EXCEPT ![c] = "FROZEN"]
  /\ outstanding' = [outstanding EXCEPT ![c] = @ - 1]
  /\ \E v \in Payloads : StoreAndEmit(c, v)
  /\ UNCHANGED <<memory, down, qml, answered>>

\* Slip: nobody waits for the next request.
ProcessDone_NoSuccessor(c) ==
  /\ Completes(c, "DONE")
  /\ memory' = [memory EXCEPT ![c] = "freed"]
  /\ outstanding' = [outstanding EXCEPT ![c] = @ - 1]
  /\ UNCHANGED <<storeVars, status, down, qml, answered>>

\* A new object waits for the next request (while there is memory for it) and
\* this one is deleted.
ProcessDone(c) ==
  LET unused == {d \in Calls : memory[d] = "none"}
  IN /\ Completes(c, "DONE")
     /\ \/ /\ unused = {}
           /\ memory' = [memory EXCEPT ![c] = "freed"]
           /\ outstanding' = [outstanding EXCEPT ![c] = @ - 1]
        \/ \E d \in unused :
             /\ memory' = [memory EXCEPT ![c] = "freed", ![d] = "live"]
             /\ outstanding' = [outstanding EXCEPT ![c] = @ - 1, ![d] = 1]
     /\ UNCHANGED <<storeVars, status, down, qml, answered>>

\* GrpcServer::shutdown is called.
Shutdown ==
  /\ qml = NoCall
  /\ ~down
  /\ down' = TRUE
  /\ UNCHANGED <<storeVars, callVars, qml, answered>>

QmlDeliver ==
  /\ qml = NoCall /\ ~InShutdown
  /\ Deliver
  /\ UNCHANGED <<callVars, down, qml, answered>>

QmlNext ==
  \/ \E t \in Tags : BeginAnswer(t)
  \/ EndAnswer
  \/ QmlDeliver
  \/ Shutdown

Process(c) ==
  \/ ProcessShutdown(c)
  \/ ProcessRequest(c)
  \/ ProcessDone(c)

IoNext == \E c \in Calls : Process(c)

Next == QmlNext \/ IoNext

Spec == Init /\ [][Next]_vars

\* gRPC completes what it was given and both threads keep running.
Fairness ==
  /\ \A c \in Calls : WF_vars(Process(c))
  /\ WF_vars(EndAnswer) /\ WF_vars(QmlDeliver)

FairSpec == Spec /\ Fairness

-----------------------------------------------------------------------------
(* Properties.                                                             *)

\* A live call has one operation in flight, or none when FROZEN; and no
\* completion can arrive for a call that is not live.
OneOperation ==
  \A c \in Calls :
    outstanding[c] = IF memory[c] = "live" /\ status[c] # "FROZEN" THEN 1 ELSE 0

\* resume() and abort() always find the call FROZEN, as their Q_ASSERT(false)
\* demands (server_unary.cpp:92-96, 106-110), whenever and however often the
\* handler calls back; the call is alive when they run.
AlwaysFrozen ==
  /\ \A t \in Tags : store[t] # NoCall =>
       memory[store[t]] = "live" /\ status[store[t]] = "FROZEN"
  /\ qml # NoCall => memory[qml] = "live" /\ status[qml] = "FROZEN"

\* A method serves one call at a time, and always has a call object serving
\* or waiting, until the server is shut down or the model runs out of objects.
OneLiveCall ==
  /\ \A c, d \in Calls : memory[c] = "live" /\ memory[d] = "live" => c = d
  /\ \/ \E c \in Calls : memory[c] = "live"
     \/ down
     \/ \A c \in Calls : memory[c] = "freed"

\* Once the handler has answered, the method takes another client (or the
\* server is down, or the model runs out of objects).
TakesNextClient ==
  \A t \in Tags : t \in answered ~>
    \/ \E c \in Calls : memory[c] = "live" /\ status[c] = "READ"
    \/ lastTag > t
    \/ down
    \/ \A c \in Calls : memory[c] = "freed"

\* "This function is called for each incoming request." (README.md:180): the
\* handler learns every tag a request was stored under (unless the server is
\* shut down meanwhile).
HandlerCalled == \A t \in Tags : (lastTag >= t) ~> (t \in known \/ down)
=============================================================================
