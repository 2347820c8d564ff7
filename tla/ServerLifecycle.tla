--------------------------- MODULE ServerLifecycle ---------------------------
(***************************************************************************)
(* How services come to listen: RpcService (methods, server), RpcServer    *)
(* and GrpcServer (registration, start, shutdown) and the holder of a      *)
(* server method with its injected implementation.  A service stands for   *)
(* its one method.  Everything here runs on the QML thread; start() emits  *)
(* two signals and the program's own handlers of these may do anything a   *)
(* program may do, start another server included: `frames' is the stack of *)
(* the starts in progress.  (A start of a server within its own start is   *)
(* left out.)  A call object that waits for a request keeps the pointer to *)
(* the implementation it was made by.                                      *)
(***************************************************************************)
EXTENDS Naturals, Sequences

CONSTANTS
  Servers,    \* GrpcServer objects
  Services,   \* RpcService objects, each with one method
  Nowhere,    \* a null pointer, or one to an object that is gone
  MaxStarts   \* bound: calls of start() for each server

ASSUME LifecycleAssumption == Nowhere \notin Servers /\ MaxStarts \in Nat

VARIABLES
  configured,  \* the servers with an address and credentials
  attempts,    \* calls of start() so far
  entries,     \* services_: how often each service is in the deque
  started,     \* started_
  up,          \* the servers with server_, cq_ and thread_
  frames,      \* [server, signal, rest]: the start() on top runs; `rest' still to be signalled
  server,      \* of each service: server_, whose signals it is connected to
  listed,      \* the services whose method is in methods_
  alive,       \* the services that are not destroyed
  impl,        \* of each method: the server whose queue its implementation uses
  calls,       \* <<service, server>>: a call object waits for a request
  dangling,    \* the calls whose implementation was deleted
  late,        \* history: connected to a server whose start had begun
  strayed,     \* history: taken from a server that lists it and has not started
  refusals     \* history: starts in a row that gRPC refused for a duplicate

serviceVars == <<server, listed, alive, late, strayed>>
serverVars == <<configured, attempts, entries, started, up, refusals>>
methodVars == <<impl, calls, dangling>>
vars == <<serviceVars, serverVars, methodVars, frames>>

Listed(s) == {v \in Services : entries[s][v] > 0}
Active == {frames[i].server : i \in DOMAIN frames}
Connected(s) == {v \in alive : server[v] = s}

TypeOK ==
  /\ configured \subseteq Servers /\ started \subseteq Servers /\ up \subseteq Servers
  /\ attempts \in [Servers -> 0..MaxStarts]
  /\ entries \in [Servers -> [Services -> Nat]]
  /\ frames \in Seq([server : Servers, signal : {"starting", "started"}, rest : SUBSET Services])
  /\ server \in [Services -> Servers \cup {Nowhere}]
  /\ listed \subseteq Services /\ alive \subseteq Services
  /\ late \subseteq Services /\ strayed \subseteq Services
  /\ impl \in [Services -> Servers \cup {Nowhere}]
  /\ calls \subseteq Services \X Servers /\ dangling \subseteq calls
  /\ refusals \in [Servers -> Nat]

Init ==
  /\ configured = {} /\ started = {} /\ up = {} /\ frames = <<>>
  /\ attempts = [s \in Servers |-> 0]
  /\ entries = [s \in Servers |-> [v \in Services |-> 0]]
  /\ server = [v \in Services |-> Nowhere]
  /\ listed = Services /\ alive = Services /\ late = {} /\ strayed = {}
  /\ impl = [v \in Services |-> Nowhere]
  /\ calls = {} /\ dangling = {}
  /\ refusals = [s \in Servers |-> 0]

-----------------------------------------------------------------------------
(* What the program does, at any time and in the handlers of the signals.  *)

\* set_address, set_credentials: both present, or one of them missing.
Configure(s) ==
  /\ configured' = IF s \in configured THEN configured \ {s} ELSE configured \cup {s}
  /\ UNCHANGED <<attempts, entries, started, up, refusals, serviceVars, methodVars, frames>>

\* RpcService::started()
ServiceStarted(v) == server[v] \in started

\* A disconnected service is not signalled by an emission in progress.
Disconnect(v) ==
  frames' = [i \in DOMAIN frames |-> [frames[i] EXCEPT !.rest = @ \ {v}]]

\* The server of v lists it and has not started: it may still inject into v
\* when v has gone to another server.
Strays(v) ==
  /\ server[v] \in Servers \ started
  /\ entries[server[v]][v] > 0

\* Slip: a service may leave a running server.
SetServer_Running(v, s) ==
  /\ v \in alive
  /\ server[v] # s
  /\ s \notin started
  /\ Disconnect(v)
  /\ server' = [server EXCEPT ![v] = s]
  /\ late' = IF s \in Active THEN late \cup {v} ELSE late \ {v}
  /\ strayed' = IF Strays(v) THEN strayed \cup {v} ELSE strayed
  /\ UNCHANGED <<listed, alive, serverVars, methodVars>>

\* set_server: refused while its server runs, and for a server that runs.
SetServer(v, s) ==
  /\ v \in alive
  /\ server[v] # s
  /\ ~ServiceStarted(v)
  /\ s \notin started
  /\ Disconnect(v)
  /\ server' = [server EXCEPT ![v] = s]
  /\ late' = IF s \in Active THEN late \cup {v} ELSE late \ {v}
  /\ strayed' = IF Strays(v) THEN strayed \cup {v} ELSE strayed
  /\ UNCHANGED <<listed, alive, serverVars, methodVars>>

\* set_methods: refused while the service's server runs.
SetMethods(v) ==
  /\ v \in alive
  /\ ~ServiceStarted(v)
  /\ listed' = IF v \in listed THEN listed \ {v} ELSE listed \cup {v}
  /\ UNCHANGED <<server, alive, late, strayed, serverVars, methodVars, frames>>

\* set_index, or another name or descriptor: the deinit() of a server method
\* does nothing.
ChangeMethod(v) == UNCHANGED vars

\* The service and its method holders are destroyed, with their implementation;
\* its entry in services_ stays.
Destroy(v) ==
  /\ v \in alive
  /\ alive' = alive \ {v}
  /\ Disconnect(v)
  /\ impl' = [impl EXCEPT ![v] = Nowhere]
  /\ dangling' = dangling \cup {c \in calls : c[1] = v}
  /\ UNCHANGED <<server, listed, late, strayed, serverVars, calls>>

-----------------------------------------------------------------------------
(* start(), in steps: the handlers of the program run between them.        *)

Top == frames[Len(frames)]
Push(f) == frames' = Append(frames, f)
SetTop(f) == frames' = [frames EXCEPT ![Len(frames)] = f]
Pop == frames' = SubSeq(frames, 1, Len(frames) - 1)
Running(signal) == frames # <<>> /\ Top.signal = signal

\* start() emits starting to the services connected at that moment.
BeginStart(s) ==
  /\ s \notin started \cup Active
  /\ attempts[s] < MaxStarts
  /\ attempts' = [attempts EXCEPT ![s] = @ + 1]
  /\ Push([server |-> s, signal |-> "starting", rest |-> Connected(s)])
  /\ late' = late \ Connected(s)
  /\ UNCHANGED <<configured, entries, started, up, refusals, methodVars, server, listed, alive, strayed>>

\* registerService, by the handler connected to starting.
RegisterService ==
  /\ Running("starting")
  /\ \E v \in Top.rest :
       /\ entries' = [entries EXCEPT ![Top.server][v] = @ + 1]
       /\ SetTop([Top EXCEPT !.rest = @ \ {v}])
  /\ UNCHANGED <<configured, attempts, started, up, refusals, serviceVars, methodVars>>

\* doStart without address or credentials: gRPC is not asked, and what was
\* registered stays listed.
StartTooEarly ==
  /\ Running("starting") /\ Top.rest = {}
  /\ Top.server \notin configured
  /\ refusals' = [refusals EXCEPT ![Top.server] = 0]
  /\ Pop
  /\ UNCHANGED <<configured, attempts, entries, started, up, serviceVars, methodVars>>

\* inject: the former implementation is deleted.
Inject(injected, queue) ==
  /\ impl' = [v \in Services |-> IF v \in injected THEN queue ELSE impl[v]]
  /\ dangling' = dangling \cup {c \in calls : c[1] \in injected}
  /\ UNCHANGED calls

\* The methods that doStart finds.  It follows every pointer in services_: with
\* a destroyed service there, the behaviour is undefined and the model ends.
Found(s) == Listed(s) \cap listed

Followable(s) == s \in configured /\ Listed(s) \subseteq alive

\* gRPC, external: a method registered twice is refused.
Duplicate(s) == \E v \in Found(s) : entries[s][v] > 1

\* Slip: services_ is kept.
StartRefused_Kept ==
  /\ Running("starting") /\ Top.rest = {}
  /\ LET s == Top.server
     IN /\ Followable(s)
        /\ Inject(Found(s), Nowhere)
        /\ refusals' = [refusals EXCEPT ![s] = IF Duplicate(s) THEN @ + 1 ELSE 0]
  /\ Pop
  /\ UNCHANGED <<entries, configured, attempts, started, up, serviceVars>>

\* BuildAndStart fails, for a duplicate or because it cannot listen: the
\* queue of the new implementations goes, services_ is cleared.
StartRefused ==
  /\ Running("starting") /\ Top.rest = {}
  /\ LET s == Top.server
     IN /\ Followable(s)
        /\ Inject(Found(s), Nowhere)
        /\ entries' = [entries EXCEPT ![s] = [v \in Services |-> 0]]
        /\ refusals' = [refusals EXCEPT ![s] = IF Duplicate(s) THEN @ + 1 ELSE 0]
  /\ Pop
  /\ UNCHANGED <<configured, attempts, started, up, serviceVars>>

\* Slip: started is emitted before started_ is set, while handlers may still
\* move the services.
StartAccepted_Unset ==
  /\ Running("starting") /\ Top.rest = {}
  /\ LET s == Top.server
     IN /\ Followable(s)
        /\ ~Duplicate(s)
        /\ Inject(Found(s), s)
        /\ up' = up \cup {s}
        /\ refusals' = [refusals EXCEPT ![s] = 0]
        /\ SetTop([server |-> s, signal |-> "started", rest |-> Connected(s)])
  /\ UNCHANGED <<configured, attempts, entries, started, serviceVars>>

\* BuildAndStart succeeds: the IO thread runs, started_ is set, and started
\* is emitted to the services connected now.
StartAccepted ==
  /\ Running("starting") /\ Top.rest = {}
  /\ LET s == Top.server
     IN /\ Followable(s)
        /\ ~Duplicate(s)
        /\ Inject(Found(s), s)
        /\ up' = up \cup {s}
        /\ started' = started \cup {s}
        /\ refusals' = [refusals EXCEPT ![s] = 0]
        /\ SetTop([server |-> s, signal |-> "started", rest |-> Connected(s)])
  /\ UNCHANGED <<configured, attempts, entries, serviceVars>>

\* startProcessing, by the handler connected to started: the implementation
\* the method has now makes a call for its own queue, which is that of another
\* server if a handler has started one that lists the service too.  Where there
\* is no implementation (a service connected during the start) the assertion of
\* startProcessing fails; where its queue is gone (a handler has shut the server
\* down) the behaviour is undefined: the model ends.
StartProcessing ==
  /\ Running("started")
  /\ \E v \in Top.rest :
       /\ v \in listed => impl[v] # Nowhere
       /\ calls' = IF v \in listed THEN calls \cup {<<v, impl[v]>>} ELSE calls
       /\ SetTop([Top EXCEPT !.rest = @ \ {v}])
  /\ UNCHANGED <<serverVars, serviceVars, impl, dangling>>

Return ==
  /\ Running("started") /\ Top.rest = {}
  /\ Pop
  /\ UNCHANGED <<serverVars, serviceVars, methodVars>>

\* shutdown(): the IO thread deletes the waiting calls and ends; started_
\* stays set, so the server cannot be started again.
Shutdown(s) ==
  /\ s \in up
  /\ up' = up \ {s}
  /\ calls' = {c \in calls : c[2] # s}
  /\ dangling' = {c \in dangling : c[2] # s}
  /\ impl' = [v \in Services |-> IF impl[v] = s THEN Nowhere ELSE impl[v]]
  /\ UNCHANGED <<configured, attempts, entries, started, refusals, serviceVars, frames>>

Next ==
  \/ \E s \in Servers : Configure(s) \/ BeginStart(s) \/ Shutdown(s)
  \/ \E v \in Services, s \in Servers \cup {Nowhere} : SetServer(v, s)
  \/ \E v \in Services : SetMethods(v) \/ ChangeMethod(v) \/ Destroy(v)
  \/ RegisterService \/ StartTooEarly \/ StartRefused \/ StartAccepted
  \/ StartProcessing \/ Return

Spec == Init /\ [][Next]_vars

-----------------------------------------------------------------------------
(* Properties.                                                             *)

\* A call waits only at a server that lists its service.  That is the server
\* the service is attached to, and the call keeps its implementation, unless
\* the service was destroyed or had strayed: it had been taken from a server
\* that lists it, after a start that came too early.
CallsAnchored ==
  /\ TypeOK
  /\ \A c \in calls :
       /\ entries[c[2]][c[1]] > 0
       /\ c[1] \in alive => server[c[1]] = c[2] \/ c[1] \in strayed
  /\ \A c \in dangling : c[1] \in alive => c[1] \in strayed

\* When start() has returned true, each service of the server waits for
\* requests, however often starting failed before; except a service that was
\* connected during the start, one that is destroyed, one without methods, and
\* one that has strayed.
EveryoneListens ==
  \A v \in alive \cap listed :
    server[v] \in up /\ server[v] \notin Active /\ v \notin late \cup strayed =>
      <<v, server[v]>> \in calls

\* A start that gRPC refuses for a duplicate method is not directly followed by
\* another such refusal, for that start leaves nothing behind.  (One that comes
\* too early, without address or credentials, does leave something behind.)
RefusedOnce == \A s \in Servers : refusals[s] <= 1
=============================================================================
