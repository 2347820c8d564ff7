----------------------------- MODULE UnaryEndToEnd -----------------------------
(***************************************************************************)
(* A unary method from the client's callback to the server's handler and   *)
(* back: the client of ClientUnary and the server of ServerUnary, two      *)
(* processes with two threads each, and gRPC between them.                 *)
(*                                                                         *)
(* gRPC, external, carries each call to the server's next free call object *)
(* and the response it finishes with back, in any order between calls.  At *)
(* any time it may fail a call towards the client (deadline, connection),  *)
(* of which the server learns nothing.                                     *)
(***************************************************************************)
EXTENDS ServerUnary

CONSTANTS
  MaxCalls,    \* bound: calls the client makes
  Responses,   \* the messages a handler responds with
  None

VARIABLES
  clientTag, callbacks, clientSignals, heard, unwinding, clientStatus, result,
               \* the client's, as in ClientUnary
  rpc,         \* gRPC: where each call of the client is
  request,     \* gRPC: the message of each call
  serves,      \* gRPC: of each call object, the client's call behind it
  reply,       \* of each call object: what it was finished with
  stored,      \* history: of each tag of the server, the client's call
  given        \* history: of each tag of the server, the handler's first answer

C == INSTANCE ClientUnary WITH
  MaxTag <- MaxCalls, Payloads <- Responses,
  lastTag <- clientTag, signals <- clientSignals, status <- clientStatus

ASSUME JointAssumption ==
  /\ MaxCalls \in Nat
  /\ EmptyPayload \in Responses
  /\ {None, C!Pending, C!Failed} \cap Responses = {}

clientVars == <<clientTag, callbacks, clientSignals, heard, unwinding, clientStatus, result>>
wireVars == <<rpc, request, serves, reply>>
historyVars == <<stored, given>>

allVars == <<vars, clientVars, wireVars, historyVars>>

Rpcs == 1..MaxCalls

Answers == Responses \cup {C!Failed}

JointInit ==
  /\ Init
  /\ C!Init
  /\ rpc = [n \in Rpcs |-> "none"]
  /\ request = [n \in Rpcs |-> EmptyPayload]
  /\ serves = [c \in Calls |-> 0]
  /\ reply = [c \in Calls |-> C!Pending]
  /\ stored = [t \in Tags |-> 0]
  /\ given = [t \in Tags |-> C!Pending]

-----------------------------------------------------------------------------
(* The client.                                                             *)

ClientCall ==
  /\ C!Call
  /\ rpc' = [rpc EXCEPT ![clientTag'] = "sent"]
  /\ \E v \in Payloads : request' = [request EXCEPT ![clientTag'] = v]
  /\ UNCHANGED <<vars, serves, reply, historyVars>>

ClientLocal ==
  /\ C!CallRefused \/ C!QmlDeliver
  /\ UNCHANGED <<vars, wireVars, historyVars>>

\* The server's response or status arrives; Finish completes with ok.
Arrives(n) ==
  /\ \E c \in Calls :
       /\ serves[c] = n /\ rpc[n] = "answered"
       /\ C!Process(n, TRUE, reply[c])
  /\ rpc' = [rpc EXCEPT ![n] = "over"]
  /\ UNCHANGED <<vars, request, serves, reply, historyVars>>

\* The call fails on the client's side.
Fails(n) ==
  /\ \E ok \in BOOLEAN : C!Process(n, ok, C!Failed)
  /\ rpc' = [rpc EXCEPT ![n] = "over"]
  /\ UNCHANGED <<vars, request, serves, reply, historyVars>>

-----------------------------------------------------------------------------
(* The server.                                                             *)

\* A call object gets one of the calls on their way.
Accept(c, n) ==
  /\ rpc[n] = "sent"
  /\ ProcessRequest(c)
  /\ signals' = Append(signals, DataOf(lastTag', request[n]))
  /\ rpc' = [rpc EXCEPT ![n] = "accepted"]
  /\ serves' = [serves EXCEPT ![c] = n]
  /\ stored' = [stored EXCEPT ![lastTag'] = n]
  /\ UNCHANGED <<clientVars, request, reply, given>>

\* The handler answers with a response or an error.
Answer(t, r) ==
  /\ BeginAnswer(t)
  /\ reply' = [reply EXCEPT ![qml'] = r]
  /\ given' = IF given[t] = C!Pending THEN [given EXCEPT ![t] = r] ELSE given
  /\ UNCHANGED <<clientVars, rpc, request, serves, stored>>

Finish ==
  /\ EndAnswer
  /\ rpc' = IF outstanding' # outstanding /\ rpc[serves[qml]] = "accepted"
              THEN [rpc EXCEPT ![serves[qml]] = "answered"] ELSE rpc
  /\ UNCHANGED <<clientVars, request, serves, reply, historyVars>>

ServerLocal ==
  /\ QmlDeliver \/ Shutdown
  /\ UNCHANGED <<clientVars, wireVars, historyVars>>

ServerIo(c) ==
  /\ ProcessShutdown(c) \/ ProcessDone(c)
  /\ UNCHANGED <<clientVars, wireVars, historyVars>>

JointNext ==
  \/ ClientCall
  \/ ClientLocal
  \/ \E n \in Rpcs : Arrives(n) \/ Fails(n)
  \/ \E c \in Calls, n \in Rpcs : Accept(c, n)
  \/ \E t \in Tags, r \in Answers : Answer(t, r)
  \/ Finish
  \/ ServerLocal
  \/ \E c \in Calls : ServerIo(c)

JointSpec == JointInit /\ [][JointNext]_allVars

\* gRPC ends every call it has, sooner or later by its deadline, and the
\* threads of both processes run; nobody has to call.
JointFairness ==
  /\ \A n \in Rpcs : WF_allVars(Arrives(n) \/ Fails(n))
  /\ WF_allVars(C!QmlDeliver /\ ClientLocal)
  /\ \A c \in Calls : WF_allVars(ServerIo(c))
  /\ WF_allVars(Finish) /\ WF_allVars(QmlDeliver /\ ServerLocal)

JointFairSpec == JointSpec /\ JointFairness

-----------------------------------------------------------------------------
(* Properties.                                                             *)

\* A message a callback hears is the handler's first answer to the tag that
\* this very call was stored under; and a callback that is forgotten without
\* having been called was one of a call that failed or has an empty response.
HearsItsAnswer ==
  /\ \A n \in Rpcs : \A i \in DOMAIN heard[n] : heard[n][i].kind = "data" =>
       \E t \in Tags : stored[t] = n /\ given[t] = heard[n][i].value
  /\ C!TypeOK /\ C!SilentOnlyIfEmpty

\* The server's safety, whatever the clients do: see ServerUnary.
CallsSafe == TypeOK /\ OneOperation /\ AlwaysFrozen /\ OneLiveCall

\* The client forgets every callback, whatever the server does.
EveryCallForgotten == C!EveryCallForgotten
=============================================================================
