---------------------------- MODULE ObjectProofs ----------------------------
(***************************************************************************)
(* The objects beside the calls.  ServerLifecycle and ClientLifecycle:     *)
(* where waiting calls belong, that every service of a started server      *)
(* waits for requests, that a refused start leaves nothing behind, and     *)
(* that no holder and no call of a client loses what it points to; for any *)
(* number of objects and of starts.  Message: every field of the generated *)
(* code reads as the program chose, for any values and types.  MessageIO:  *)
(* each callback hears its own result, and no call leaves a descriptor.    *)
(***************************************************************************)
EXTENDS ServerLifecycle, ClientLifecycle, Message, MessageIO, TLAPS

-----------------------------------------------------------------------------
(* The server: its inductive invariant.                                    *)

\* The starts in progress are of different servers.  While starting is
\* signalled the server is not marked started, while started is, it is.
OwnFrames ==
  /\ \A i, j \in DOMAIN frames : frames[i].server = frames[j].server => i = j
  /\ \A i \in DOMAIN frames : (frames[i].signal = "started") <=> (frames[i].server \in started)
  /\ up \subseteq started

\* Who is still to be signalled is alive and attached to the server.
RestConnected ==
  \A i \in DOMAIN frames : \A v \in frames[i].rest : v \in Connected(frames[i].server)

\* Only a service that was taken from a server is listed elsewhere.
ListedElsewhere ==
  \A s \in Servers, v \in alive : entries[s][v] > 0 /\ server[v] # s => v \in strayed

\* Calls wait at running servers; implementations use the queues of running
\* servers that list their service.
AtRunning ==
  /\ \A c \in calls : c[2] \in up
  /\ \A v \in Services : impl[v] # Nowhere => impl[v] \in up /\ entries[impl[v]][v] > 0

\* A service that is attached to a starting server in time is registered, or
\* will be.
Registered ==
  \A i \in DOMAIN frames : \A v \in Connected(frames[i].server) :
    frames[i].signal = "starting" /\ v \notin late \cup strayed =>
      v \in frames[i].rest \/ entries[frames[i].server][v] > 0

\* The signal started is still to reach the service, which can act on it.
ToBeTold(v) ==
  \E i \in DOMAIN frames :
    frames[i].server = server[v] /\ frames[i].signal = "started" /\ v \in frames[i].rest /\ impl[v] = server[v]

Listening ==
  \A v \in alive \cap listed :
    server[v] \in up /\ v \notin late \cup strayed => <<v, server[v]>> \in calls \/ ToBeTold(v)

\* After a refusal the service is listed at most once, and only by the start
\* that is in progress; a server that started has had no refusal since.
Cleared ==
  /\ \A s \in started : refusals[s] = 0
  /\ \A s \in Servers : refusals[s] > 0 =>
       /\ refusals[s] = 1
       /\ \A v \in Services : entries[s][v] > 0 =>
            entries[s][v] = 1 /\ \E i \in DOMAIN frames : frames[i].server = s /\ v \notin frames[i].rest

IInv ==
  /\ CallsAnchored /\ OwnFrames /\ RestConnected /\ ListedElsewhere /\ AtRunning
  /\ Registered /\ Listening /\ Cleared

-----------------------------------------------------------------------------
(* What the operations on the stack of starts do.                          *)

Frame == [server : Servers, signal : {"starting", "started"}, rest : SUBSET Services]

LEMMA FramesType == TypeOK => frames \in Seq(Frame) /\ DOMAIN frames = 1..Len(frames) /\ Len(frames) \in Nat
BY DEF TypeOK, Frame

LEMMA Pushed ==
  ASSUME TypeOK, NEW f \in Frame, Push(f)
  PROVE  /\ frames' \in Seq(Frame) /\ DOMAIN frames' = DOMAIN frames \cup {Len(frames')}
         /\ Len(frames') \notin DOMAIN frames /\ frames'[Len(frames')] = f
         /\ \A i \in DOMAIN frames : frames'[i] = frames[i]
BY FramesType DEF Push

LEMMA TopIs ==
  ASSUME TypeOK, frames # <<>>
  PROVE  Top \in Frame /\ Len(frames) \in DOMAIN frames /\ Top = frames[Len(frames)]
BY FramesType DEF Top

LEMMA TopSet ==
  ASSUME TypeOK, frames # <<>>, NEW f \in Frame, SetTop(f)
  PROVE  /\ frames' \in Seq(Frame) /\ DOMAIN frames' = DOMAIN frames /\ frames'[Len(frames)] = f
         /\ \A i \in DOMAIN frames \ {Len(frames)} : frames'[i] = frames[i]
BY FramesType DEF SetTop

LEMMA Popped ==
  ASSUME TypeOK, frames # <<>>, Pop
  PROVE  /\ frames' \in Seq(Frame) /\ DOMAIN frames' = DOMAIN frames \ {Len(frames)}
         /\ \A i \in DOMAIN frames' : frames'[i] = frames[i]
BY FramesType DEF Pop

LEMMA Disconnected ==
  ASSUME TypeOK, NEW v \in Services, Disconnect(v)
  PROVE  /\ frames' \in Seq(Frame) /\ DOMAIN frames' = DOMAIN frames
         /\ \A i \in DOMAIN frames : /\ frames'[i].server = frames[i].server
                                     /\ frames'[i].signal = frames[i].signal
                                     /\ frames'[i].rest = frames[i].rest \ {v}
<1>1. \A i \in DOMAIN frames : frames[i] \in Frame
  BY FramesType
<1>2. frames' = [i \in 1..Len(frames) |-> [frames[i] EXCEPT !.rest = @ \ {v}]]
  BY FramesType DEF Disconnect
<1>3. \A i \in DOMAIN frames : [frames[i] EXCEPT !.rest = @ \ {v}] \in Frame
  BY <1>1 DEF Frame
<1> QED
  BY <1>1, <1>2, <1>3, FramesType DEF Frame

LEMMA FramesTypeNext == frames' \in Seq(Frame) => frames' \in Seq([server : Servers, signal : {"starting", "started"}, rest : SUBSET Services])
BY DEF Frame

-----------------------------------------------------------------------------
(* Each action keeps the invariant.                                        *)

LEMMA InitIInv == Init => IInv
<1> SUFFICES ASSUME Init PROVE IInv
  OBVIOUS
<1>1. frames = <<>> /\ DOMAIN frames = {}
  BY DEF Init
<1>2. TypeOK
  BY LifecycleAssumption DEF Init, TypeOK
<1>3. CallsAnchored /\ OwnFrames /\ RestConnected /\ ListedElsewhere /\ AtRunning
  BY <1>1, <1>2 DEF Init, CallsAnchored, OwnFrames, RestConnected, ListedElsewhere, AtRunning
<1>4. Registered /\ Listening /\ Cleared
  BY <1>1, <1>2 DEF Init, Registered, Listening, Cleared
<1> QED
  BY <1>3, <1>4 DEF IInv

LEMMA ConfigureIInv ==
  ASSUME IInv, NEW s \in Servers, Configure(s) PROVE IInv'
<1>1. TypeOK'
  BY DEF IInv, CallsAnchored, TypeOK, Configure, serverVars, serviceVars, methodVars
<1>2. UNCHANGED <<attempts, entries, started, up, refusals, server, listed, alive, late, strayed, impl, calls, dangling, frames>>
  BY DEF Configure, serviceVars, methodVars
<1>3. (CallsAnchored /\ OwnFrames /\ RestConnected /\ ListedElsewhere /\ AtRunning)'
  BY <1>1, <1>2 DEF IInv, CallsAnchored, OwnFrames, RestConnected, ListedElsewhere, AtRunning, Connected
<1>4. (Registered /\ Listening /\ Cleared)'
  BY <1>2 DEF IInv, Registered, Listening, Cleared, ToBeTold, Connected
<1> QED
  BY <1>3, <1>4 DEF IInv

LEMMA SetServerIInv ==
  ASSUME IInv, NEW v \in Services, NEW s \in Servers \cup {Nowhere}, SetServer(v, s) PROVE IInv'
<1>0. TypeOK
  BY DEF IInv, CallsAnchored
<1>1. /\ v \in alive /\ server[v] # s /\ server[v] \notin started /\ s \notin started
      /\ Disconnect(v) /\ server' = [server EXCEPT ![v] = s]
      /\ strayed \subseteq strayed'
      /\ UNCHANGED <<configured, attempts, entries, started, up, refusals, listed, alive, impl, calls, dangling>>
  BY DEF SetServer, ServiceStarted, serverVars, methodVars
<1>d. /\ DOMAIN frames' = DOMAIN frames
      /\ \A i \in DOMAIN frames : /\ frames'[i].server = frames[i].server
                                  /\ frames'[i].signal = frames[i].signal
                                  /\ frames'[i].rest = frames[i].rest \ {v}
  BY <1>0, <1>1, Disconnected
<1>2. TypeOK'
  <2>1. late' \subseteq Services /\ strayed' \subseteq Services
    BY <1>0 DEF SetServer, TypeOK
  <2> QED
    BY <1>0, <1>1, <2>1, Disconnected, FramesTypeNext DEF TypeOK
<1>3. CallsAnchored'
  <2> SUFFICES ASSUME NEW c \in calls, c[1] \in alive PROVE server'[c[1]] = c[2] \/ c[1] \in strayed'
    BY <1>1, <1>2 DEF IInv, CallsAnchored
  <2>1. c[2] \in started /\ c[1] \in Services
    BY <1>0 DEF IInv, AtRunning, OwnFrames, TypeOK
  <2>2. server[c[1]] = c[2] \/ c[1] \in strayed
    BY DEF IInv, CallsAnchored
  <2>3. CASE c[1] = v
    BY <2>1, <2>2, <2>3, <1>1
  <2>4. CASE c[1] # v
    BY <2>1, <2>2, <2>4, <1>0, <1>1 DEF TypeOK
  <2> QED
    BY <2>3, <2>4
<1>4. OwnFrames'
  BY <1>0, <1>1, Disconnected DEF IInv, OwnFrames
<1>5. RestConnected'
  <2> SUFFICES ASSUME NEW i \in DOMAIN frames, NEW w \in frames[i].rest, w # v
               PROVE  w \in alive' /\ server'[w] = frames'[i].server
    BY <1>d DEF RestConnected, Connected
  <2>1. w \in alive /\ server[w] = frames[i].server
    BY DEF IInv, RestConnected, Connected
  <2> QED
    BY <2>1, <1>0, <1>1, <1>d DEF TypeOK
<1>6. ListedElsewhere'
  <2> SUFFICES ASSUME NEW r \in Servers, NEW w \in alive, entries[r][w] > 0, server'[w] # r
               PROVE  w \in strayed'
    BY <1>1 DEF ListedElsewhere
  <2>1. CASE w = v /\ server[v] = r
    BY <2>1, <1>1 DEF SetServer, Strays
  <2> QED
    BY <2>1, <1>0, <1>1 DEF IInv, ListedElsewhere, TypeOK
<1>7. AtRunning'
  BY <1>1 DEF IInv, AtRunning
<1>8. Registered'
  <2> SUFFICES ASSUME NEW i \in DOMAIN frames', NEW w \in Connected(frames[i].server)',
                      frames'[i].signal = "starting", w \notin late' \cup strayed'
               PROVE  w \in frames'[i].rest \/ entries[frames'[i].server][w] > 0
    BY <1>0, <1>1, Disconnected DEF Registered, Connected
  <2>1. w \in alive /\ server'[w] = frames[i].server /\ frames[i].signal = "starting" /\ i \in DOMAIN frames
    BY <1>0, <1>1, Disconnected DEF Connected
  <2>2. w # v
    BY <2>1 DEF SetServer, Active, IInv, CallsAnchored, TypeOK
  <2>3. w \notin late \cup strayed /\ server[w] = frames[i].server
    BY <2>1, <2>2, <1>0, <1>1 DEF TypeOK, SetServer
  <2>4. w \in frames[i].rest \/ entries[frames[i].server][w] > 0
    BY <2>1, <2>3 DEF IInv, Registered, Connected
  <2> QED
    BY <2>1, <2>2, <2>4, <1>1, <1>d
<1>9. Listening'
  <2> SUFFICES ASSUME NEW w \in alive \cap listed, server'[w] \in up, w \notin late' \cup strayed'
               PROVE  <<w, server'[w]>> \in calls \/ ToBeTold(w)'
    BY <1>1 DEF Listening
  <2>1. w # v /\ server'[w] = server[w] /\ w \notin late \cup strayed
    BY <1>0, <1>1 DEF IInv, OwnFrames, TypeOK, SetServer
  <2>2. CASE ToBeTold(w)
    BY <2>1, <2>2, <1>0, <1>1, Disconnected DEF ToBeTold
  <2> QED
    BY <2>1, <2>2 DEF IInv, Listening
<1>10. Cleared'
  <2>1. ASSUME NEW r \in Servers, NEW w \in Services,
               NEW i \in DOMAIN frames, frames[i].server = r, w \notin frames[i].rest
        PROVE  \E k \in DOMAIN frames' : frames'[k].server = r /\ w \notin frames'[k].rest
    BY <2>1, <1>d
  <2> QED
    BY <2>1, <1>1 DEF IInv, Cleared
<1> QED
  BY <1>3, <1>4, <1>5, <1>6, <1>7, <1>8, <1>9, <1>10 DEF IInv

LEMMA SetMethodsIInv ==
  ASSUME IInv, NEW v \in Services, SetMethods(v) PROVE IInv'
<1>1. /\ v \in alive /\ server[v] \notin started
      /\ listed' \subseteq Services /\ \A w \in Services \ {v} : w \in listed' <=> w \in listed
      /\ UNCHANGED <<configured, attempts, entries, started, up, refusals, server, alive, late, strayed,
                     impl, calls, dangling, frames>>
  BY DEF SetMethods, ServiceStarted, serverVars, methodVars, IInv, CallsAnchored, TypeOK
<1>2. TypeOK'
  BY <1>1 DEF IInv, CallsAnchored, TypeOK
<1>3. (CallsAnchored /\ OwnFrames /\ RestConnected /\ ListedElsewhere /\ AtRunning)'
  BY <1>1, <1>2 DEF IInv, CallsAnchored, OwnFrames, RestConnected, ListedElsewhere, AtRunning, Connected
<1>4. (Registered /\ Cleared)'
  BY <1>1 DEF IInv, Registered, Cleared, Connected
<1>5. Listening'
  <2> SUFFICES ASSUME NEW w \in alive \cap listed', server[w] \in up, w \notin late \cup strayed
               PROVE  <<w, server[w]>> \in calls \/ ToBeTold(w)
    BY <1>1 DEF Listening, ToBeTold
  <2>1. w # v /\ w \in listed
    BY <1>1 DEF IInv, OwnFrames
  <2> QED
    BY <2>1 DEF IInv, Listening
<1> QED
  BY <1>3, <1>4, <1>5 DEF IInv

LEMMA DestroyIInv ==
  ASSUME IInv, NEW v \in Services, Destroy(v) PROVE IInv'
<1>0. TypeOK
  BY DEF IInv, CallsAnchored
<1>1. /\ alive' = alive \ {v} /\ Disconnect(v)
      /\ impl' = [impl EXCEPT ![v] = Nowhere]
      /\ dangling' = dangling \cup {c \in calls : c[1] = v}
      /\ UNCHANGED <<configured, attempts, entries, started, up, refusals, server, listed, late, strayed, calls>>
  BY DEF Destroy, serverVars
<1>d. /\ DOMAIN frames' = DOMAIN frames
      /\ \A i \in DOMAIN frames : /\ frames'[i].server = frames[i].server
                                  /\ frames'[i].signal = frames[i].signal
                                  /\ frames'[i].rest = frames[i].rest \ {v}
  BY <1>0, <1>1, Disconnected
<1>2. TypeOK'
  <2>1. alive' \subseteq Services /\ dangling' \subseteq calls'
    BY <1>0, <1>1 DEF TypeOK
  <2>2. frames' \in Seq([server : Servers, signal : {"starting", "started"}, rest : SUBSET Services])
    BY <1>0, <1>1, Disconnected, FramesTypeNext
  <2> QED
    BY <1>0, <1>1, <2>1, <2>2 DEF TypeOK
<1>3. CallsAnchored'
  BY <1>1, <1>2 DEF IInv, CallsAnchored
<1>4. OwnFrames'
  BY <1>1, <1>d DEF IInv, OwnFrames
<1>5. RestConnected'
  BY <1>1, <1>d DEF IInv, RestConnected, Connected
<1>6. ListedElsewhere'
  BY <1>1 DEF IInv, ListedElsewhere
<1>7. AtRunning'
  BY <1>0, <1>1 DEF IInv, AtRunning, TypeOK
<1>8. Registered'
  BY <1>1, <1>d DEF IInv, Registered, Connected
<1>9. Listening'
  <2> SUFFICES ASSUME NEW w \in alive' \cap listed, server[w] \in up, w \notin late \cup strayed
               PROVE  <<w, server[w]>> \in calls \/ ToBeTold(w)'
    BY <1>1 DEF Listening
  <2>1. w # v /\ impl'[w] = impl[w]
    BY <1>0, <1>1 DEF TypeOK
  <2>2. CASE ToBeTold(w)
    BY <2>1, <2>2, <1>1, <1>d DEF ToBeTold
  <2> QED
    BY <2>1, <2>2, <1>1 DEF IInv, Listening
<1>10. Cleared'
  <2>1. ASSUME NEW r \in Servers, NEW w \in Services,
               NEW i \in DOMAIN frames, frames[i].server = r, w \notin frames[i].rest
        PROVE  \E k \in DOMAIN frames' : frames'[k].server = r /\ w \notin frames'[k].rest
    BY <2>1, <1>d
  <2> QED
    BY <2>1, <1>1 DEF IInv, Cleared
<1> QED
  BY <1>3, <1>4, <1>5, <1>6, <1>7, <1>8, <1>9, <1>10 DEF IInv

LEMMA BeginStartIInv ==
  ASSUME IInv, NEW s \in Servers, BeginStart(s) PROVE IInv'
<1> DEFINE f == [server |-> s, signal |-> "starting", rest |-> Connected(s)]
<1>0. TypeOK
  BY DEF IInv, CallsAnchored
<1>1. /\ s \notin started /\ s \notin Active
      /\ attempts' = [attempts EXCEPT ![s] = @ + 1] /\ attempts[s] < MaxStarts
      /\ Push(f) /\ late' = late \ Connected(s)
      /\ UNCHANGED <<configured, entries, started, up, refusals, impl, calls, dangling, server, listed, alive, strayed>>
  BY DEF BeginStart, methodVars
<1>f. f \in Frame /\ f.server = s /\ f.signal = "starting" /\ f.rest = Connected(s)
  BY <1>0 DEF Frame, Connected, TypeOK
<1> HIDE DEF f
<1>d. /\ DOMAIN frames' = DOMAIN frames \cup {Len(frames')}
      /\ Len(frames') \notin DOMAIN frames /\ frames'[Len(frames')] = f
      /\ \A i \in DOMAIN frames : frames'[i] = frames[i]
  BY <1>0, <1>1, <1>f, Pushed
<1>a. \A i \in DOMAIN frames : frames[i].server # s
  BY <1>1 DEF Active
<1>2. TypeOK'
  <2>1. frames' \in Seq([server : Servers, signal : {"starting", "started"}, rest : SUBSET Services])
    BY <1>0, <1>1, <1>f, Pushed, FramesTypeNext
  <2>2. attempts' \in [Servers -> 0..MaxStarts]
    BY <1>0, <1>1, LifecycleAssumption DEF TypeOK
  <2> QED
    BY <1>0, <1>1, <2>1, <2>2 DEF TypeOK
<1>3. CallsAnchored'
  BY <1>1, <1>2 DEF IInv, CallsAnchored
<1>4. OwnFrames'
  <2>1. \A i, j \in DOMAIN frames' : frames'[i].server = frames'[j].server => i = j
    BY <1>f, <1>d, <1>a DEF IInv, OwnFrames
  <2>2. ASSUME NEW i \in DOMAIN frames'
        PROVE  frames'[i].signal = "started" <=> frames'[i].server \in started
    BY <1>1, <1>f, <1>d DEF IInv, OwnFrames
  <2> QED
    BY <2>1, <2>2, <1>1 DEF IInv, OwnFrames
<1>5. RestConnected'
  <2> SUFFICES ASSUME NEW i \in DOMAIN frames', NEW w \in frames'[i].rest
               PROVE  w \in alive /\ server[w] = frames'[i].server
    BY <1>1 DEF RestConnected, Connected
  <2>1. CASE i = Len(frames')
    BY <2>1, <1>d, <1>f DEF Connected
  <2>2. CASE i \in DOMAIN frames
    BY <2>2, <1>d DEF IInv, RestConnected, Connected
  <2> QED
    BY <2>1, <2>2, <1>d
<1>6. ListedElsewhere' /\ AtRunning'
  BY <1>1 DEF IInv, ListedElsewhere, AtRunning
<1>8. Registered'
  <2> SUFFICES ASSUME NEW i \in DOMAIN frames', NEW w \in Connected(frames'[i].server),
                      frames'[i].signal = "starting", w \notin late' \cup strayed
               PROVE  w \in frames'[i].rest \/ entries[frames'[i].server][w] > 0
    BY <1>1 DEF Registered, Connected
  <2>1. CASE i = Len(frames')
    BY <2>1, <1>d, <1>f
  <2>2. CASE i \in DOMAIN frames
    BY <2>2, <1>1, <1>d, <1>a DEF IInv, Registered, Connected
  <2> QED
    BY <2>1, <2>2, <1>d
<1>9. Listening'
  <2> SUFFICES ASSUME NEW w \in alive \cap listed, server[w] \in up, w \notin late' \cup strayed
               PROVE  <<w, server[w]>> \in calls \/ ToBeTold(w)'
    BY <1>1 DEF Listening
  <2>1. w \notin late
    BY <1>1 DEF Connected, IInv, OwnFrames
  <2>2. CASE ToBeTold(w)
    BY <2>2, <1>1, <1>d DEF ToBeTold
  <2> QED
    BY <2>1, <2>2 DEF IInv, Listening
<1>10. Cleared'
  <2>1. ASSUME NEW r \in Servers, NEW w \in Services,
               NEW i \in DOMAIN frames, frames[i].server = r, w \notin frames[i].rest
        PROVE  \E k \in DOMAIN frames' : frames'[k].server = r /\ w \notin frames'[k].rest
    BY <2>1, <1>d
  <2> QED
    BY <2>1, <1>1 DEF IInv, Cleared
<1> QED
  BY <1>3, <1>4, <1>5, <1>6, <1>8, <1>9, <1>10 DEF IInv

\* The start on top of the stack.
LEMMA TopStart ==
  ASSUME IInv, NEW k \in {"starting", "started"}, Running(k)
  PROVE  /\ TypeOK /\ frames # <<>> /\ Top \in Frame /\ Top.signal = k
         /\ Len(frames) \in DOMAIN frames /\ Top = frames[Len(frames)]
         /\ Top.server \in Servers /\ Top.rest \subseteq Services /\ Top.rest \subseteq Connected(Top.server)
         /\ (k = "started" <=> Top.server \in started)
         /\ \A i \in DOMAIN frames \ {Len(frames)} : frames[i].server # Top.server
<1>1. TypeOK /\ frames # <<>>
  BY DEF IInv, CallsAnchored, Running
<1>2. Top \in Frame /\ Top.signal = k /\ Len(frames) \in DOMAIN frames /\ Top = frames[Len(frames)]
  BY <1>1, TopIs DEF Running
<1> QED
  BY <1>1, <1>2 DEF Frame, IInv, OwnFrames, RestConnected

\* What stays of the frames when the rest of the top one shrinks.
LEMMA Signalled ==
  ASSUME TypeOK, frames # <<>>, NEW v \in Services, SetTop([Top EXCEPT !.rest = @ \ {v}])
  PROVE  /\ frames' \in Seq(Frame) /\ DOMAIN frames' = DOMAIN frames
         /\ \A i \in DOMAIN frames :
              /\ frames'[i].server = frames[i].server /\ frames'[i].signal = frames[i].signal
              /\ frames'[i].rest = IF i = Len(frames) THEN frames[i].rest \ {v} ELSE frames[i].rest
<1> DEFINE f == [Top EXCEPT !.rest = @ \ {v}]
<1>1. Top \in Frame /\ Len(frames) \in DOMAIN frames /\ Top = frames[Len(frames)]
  BY TopIs
<1>2. f \in Frame /\ f.server = Top.server /\ f.signal = Top.signal /\ f.rest = Top.rest \ {v}
  BY <1>1 DEF Frame
<1> HIDE DEF f
<1>3. /\ frames' \in Seq(Frame) /\ DOMAIN frames' = DOMAIN frames /\ frames'[Len(frames)] = f
      /\ \A i \in DOMAIN frames \ {Len(frames)} : frames'[i] = frames[i]
  BY <1>2, TopSet DEF f
<1> QED
  BY <1>1, <1>2, <1>3

LEMMA RegisterServiceIInv ==
  ASSUME IInv, RegisterService PROVE IInv'
<1> DEFINE s == Top.server
<1>1. PICK v \in Top.rest : /\ entries' = [entries EXCEPT ![s][v] = @ + 1]
                            /\ SetTop([Top EXCEPT !.rest = @ \ {v}])
  BY DEF RegisterService
<1>2. Running("starting") /\ UNCHANGED <<configured, attempts, started, up, refusals, server, listed, alive, late, strayed,
                                         impl, calls, dangling>>
  BY DEF RegisterService, serviceVars, methodVars
<1>0. /\ TypeOK /\ frames # <<>> /\ Len(frames) \in DOMAIN frames /\ Top = frames[Len(frames)]
      /\ s \in Servers /\ v \in Services /\ v \in alive /\ server[v] = s /\ Top.signal = "starting" /\ s \notin started
      /\ frames[Len(frames)].server = s /\ v \in frames[Len(frames)].rest
      /\ \A i \in DOMAIN frames \ {Len(frames)} : frames[i].server # s
  BY <1>1, <1>2, TopStart DEF Connected
<1> HIDE DEF s
<1>d. /\ DOMAIN frames' = DOMAIN frames
      /\ \A i \in DOMAIN frames :
           /\ frames'[i].server = frames[i].server /\ frames'[i].signal = frames[i].signal
           /\ frames'[i].rest = IF i = Len(frames) THEN frames[i].rest \ {v} ELSE frames[i].rest
  BY <1>0, <1>1, Signalled
<1>e. /\ entries' \in [Servers -> [Services -> Nat]] /\ entries'[s][v] = entries[s][v] + 1
      /\ \A r \in Servers, w \in Services : (r # s \/ w # v) => entries'[r][w] = entries[r][w]
  BY <1>0, <1>1 DEF TypeOK
<1>n. entries \in [Servers -> [Services -> Nat]]
  BY <1>0 DEF TypeOK
<1>3. TypeOK'
  <2>1. frames' \in Seq([server : Servers, signal : {"starting", "started"}, rest : SUBSET Services])
    BY <1>0, <1>1, Signalled, FramesTypeNext
  <2> QED
    BY <1>0, <1>2, <2>1, <1>e DEF TypeOK
<1>m. \A r \in Servers, w \in Services : entries[r][w] > 0 => entries'[r][w] > 0
  <2> SUFFICES ASSUME NEW r \in Servers, NEW w \in Services, entries[r][w] > 0
               PROVE  entries'[r][w] > 0
    OBVIOUS
  <2>1. CASE r = s /\ w = v
    <3>1. entries[s][v] \in Nat /\ entries'[s][v] = entries[s][v] + 1
      BY <2>1, <1>e, <1>n
    <3> QED
      BY <2>1, <3>1
  <2>2. CASE ~(r = s /\ w = v)
    BY <2>2, <1>e
  <2> QED
    BY <2>1, <2>2
<1>4. CallsAnchored'
  <2>1. \A c \in calls : c[1] \in Services /\ c[2] \in Servers
    BY <1>0 DEF TypeOK
  <2> QED
    BY <2>1, <1>2, <1>3, <1>m DEF IInv, CallsAnchored
<1>5. OwnFrames'
  BY <1>2, <1>d DEF IInv, OwnFrames
<1>6. RestConnected'
  <2> SUFFICES ASSUME NEW i \in DOMAIN frames', NEW w \in frames'[i].rest
               PROVE  w \in alive /\ server[w] = frames'[i].server
    BY <1>2 DEF RestConnected, Connected
  <2> QED
    BY <1>d DEF IInv, RestConnected, Connected
<1>7. ListedElsewhere'
  <2> SUFFICES ASSUME NEW r \in Servers, NEW w \in alive, entries'[r][w] > 0, server[w] # r
               PROVE  w \in strayed
    BY <1>2 DEF ListedElsewhere
  <2>1. w \in Services
    BY <1>0 DEF TypeOK
  <2>2. entries'[r][w] = entries[r][w]
    BY <2>1, <1>0, <1>e
  <2> QED
    BY <2>2 DEF IInv, ListedElsewhere
<1>8. AtRunning'
  <2>1. \A w \in Services : impl[w] # Nowhere => impl[w] \in Servers
    BY <1>0 DEF TypeOK
  <2> QED
    BY <2>1, <1>2, <1>m DEF IInv, AtRunning
<1>9. Registered'
  <2> SUFFICES ASSUME NEW i \in DOMAIN frames, NEW w \in Connected(frames[i].server),
                      frames[i].signal = "starting", w \notin late \cup strayed
               PROVE  w \in frames'[i].rest \/ entries'[frames[i].server][w] > 0
    BY <1>2, <1>d DEF Registered, Connected
  <2>1. frames[i].server \in Servers /\ w \in Services
    <3>1. frames[i] \in Frame
      BY <1>0, FramesType
    <3> QED
      BY <3>1, <1>0 DEF Frame, Connected, TypeOK
  <2>2. w \in frames[i].rest \/ entries[frames[i].server][w] > 0
    BY DEF IInv, Registered
  <2>3. CASE i = Len(frames) /\ w = v
    BY <2>3, <1>0, <1>e, <1>n
  <2>4. CASE ~(i = Len(frames) /\ w = v)
    BY <2>1, <2>2, <2>4, <1>0, <1>d, <1>e
  <2> QED
    BY <2>3, <2>4
<1>10. Listening'
  <2> SUFFICES ASSUME NEW w \in alive \cap listed, server[w] \in up, w \notin late \cup strayed, ToBeTold(w)
               PROVE  ToBeTold(w)'
    BY <1>2 DEF IInv, Listening
  <2>1. PICK i \in DOMAIN frames : /\ frames[i].server = server[w] /\ frames[i].signal = "started"
                                   /\ w \in frames[i].rest /\ impl[w] = server[w]
    BY DEF ToBeTold
  <2> QED
    BY <2>1, <1>0, <1>2, <1>d DEF ToBeTold
<1>11. Cleared'
  <2>1. ASSUME NEW r \in Servers, refusals[r] > 0, NEW w \in Services, entries'[r][w] > 0
        PROVE  entries'[r][w] = 1 /\ \E i \in DOMAIN frames' : frames'[i].server = r /\ w \notin frames'[i].rest
    <3>1. CASE r = s /\ w = v
      <4>1. entries[s][v] = 0
        <5>1. entries[s][v] \in Nat
          BY <1>0, <1>n
        <5>2. ASSUME entries[s][v] > 0 PROVE FALSE
          <6>1. \E i \in DOMAIN frames : frames[i].server = s /\ v \notin frames[i].rest
            BY <5>2, <2>1, <3>1, <1>0 DEF IInv, Cleared
          <6> QED
            BY <6>1, <1>0
        <5> QED
          BY <5>1, <5>2
      <4>2. v \notin frames'[Len(frames)].rest /\ frames'[Len(frames)].server = s
        BY <1>0, <1>d
      <4> QED
        BY <3>1, <4>1, <4>2, <1>0, <1>d, <1>e
    <3>2. CASE ~(r = s /\ w = v)
      <4>1. PICK i \in DOMAIN frames : frames[i].server = r /\ w \notin frames[i].rest /\ entries[r][w] = 1
        BY <2>1, <3>2, <1>e DEF IInv, Cleared
      <4> QED
        BY <4>1, <2>1, <3>2, <1>d, <1>e
    <3> QED
      BY <3>1, <3>2
  <2> QED
    BY <2>1, <1>2 DEF IInv, Cleared
<1> QED
  BY <1>4, <1>5, <1>6, <1>7, <1>8, <1>9, <1>10, <1>11 DEF IInv

LEMMA StartTooEarlyIInv ==
  ASSUME IInv, StartTooEarly PROVE IInv'
<1> DEFINE s == Top.server
<1>1. /\ Running("starting") /\ Top.rest = {} /\ Pop
      /\ refusals' = [refusals EXCEPT ![s] = 0]
      /\ UNCHANGED <<configured, attempts, entries, started, up, server, listed, alive, late, strayed,
                     impl, calls, dangling>>
  BY DEF StartTooEarly, serviceVars, methodVars
<1>0. /\ TypeOK /\ frames # <<>> /\ Len(frames) \in DOMAIN frames /\ Top = frames[Len(frames)]
      /\ s \in Servers /\ Top.signal = "starting" /\ s \notin started
  BY <1>1, TopStart
<1> HIDE DEF s
<1>d. /\ DOMAIN frames' = DOMAIN frames \ {Len(frames)}
      /\ \A i \in DOMAIN frames' : frames'[i] = frames[i]
  BY <1>0, <1>1, Popped
<1>e. refusals' \in [Servers -> Nat] /\ refusals'[s] = 0 /\ \A r \in Servers \ {s} : refusals'[r] = refusals[r]
  BY <1>0, <1>1 DEF TypeOK
<1>3. TypeOK'
  <2>1. frames' \in Seq([server : Servers, signal : {"starting", "started"}, rest : SUBSET Services])
    BY <1>0, <1>1, Popped, FramesTypeNext
  <2> QED
    BY <1>0, <1>1, <2>1, <1>e DEF TypeOK
<1>4. CallsAnchored' /\ OwnFrames' /\ ListedElsewhere' /\ AtRunning'
  BY <1>1, <1>3, <1>d DEF IInv, CallsAnchored, OwnFrames, ListedElsewhere, AtRunning
<1>5. RestConnected' /\ Registered'
  BY <1>1, <1>d DEF IInv, RestConnected, Registered, Connected
<1>6. Listening'
  <2> SUFFICES ASSUME NEW w \in alive \cap listed, server[w] \in up, w \notin late \cup strayed, ToBeTold(w)
               PROVE  ToBeTold(w)'
    BY <1>1 DEF IInv, Listening
  <2>1. PICK i \in DOMAIN frames : /\ frames[i].server = server[w] /\ frames[i].signal = "started"
                                   /\ w \in frames[i].rest /\ impl[w] = server[w]
    BY DEF ToBeTold
  <2> QED
    BY <2>1, <1>0, <1>1, <1>d DEF ToBeTold
<1>7. Cleared'
  <2>1. ASSUME NEW r \in Servers \ {s}, NEW w \in Services,
               NEW i \in DOMAIN frames, frames[i].server = r, w \notin frames[i].rest
        PROVE  \E k \in DOMAIN frames' : frames'[k].server = r /\ w \notin frames'[k].rest
    BY <2>1, <1>0, <1>d DEF s
  <2>2. started \subseteq Servers
    BY <1>0 DEF TypeOK
  <2> QED
    BY <2>1, <2>2, <1>0, <1>1, <1>e DEF IInv, Cleared
<1> QED
  BY <1>4, <1>5, <1>6, <1>7 DEF IInv

\* A waiting call whose method another start finds belongs to a service that
\* has strayed: the server of the call runs, and is not the one that starts.
LEMMA FoundStrayed ==
  ASSUME IInv, Running("starting"), NEW v \in Found(Top.server), v \in alive, server[v] \in up
  PROVE  v \in strayed
<1>1. Top.server \in Servers /\ Top.server \notin started
  BY TopStart
<1>2. entries[Top.server][v] > 0
  BY DEF Found, Listed
<1>3. server[v] # Top.server
  BY <1>1 DEF IInv, OwnFrames
<1> QED
  BY <1>1, <1>2, <1>3 DEF IInv, ListedElsewhere

\* What inject does to the calls, when the methods found get the queue q.
LEMMA Injected ==
  ASSUME IInv, Running("starting"), NEW q \in Servers \cup {Nowhere}, Inject(Found(Top.server), q)
  PROVE  /\ calls' = calls /\ dangling \subseteq dangling' /\ dangling' \subseteq calls
         /\ impl' \in [Services -> Servers \cup {Nowhere}]
         /\ \A v \in Services : impl'[v] = IF v \in Found(Top.server) THEN q ELSE impl[v]
         /\ \A c \in dangling' : c \in dangling \/ (c[1] \in alive => c[1] \in strayed)
<1>1. TypeOK
  BY DEF IInv, CallsAnchored
<1>2. /\ impl' = [v \in Services |-> IF v \in Found(Top.server) THEN q ELSE impl[v]]
      /\ dangling' = dangling \cup {c \in calls : c[1] \in Found(Top.server)} /\ calls' = calls
  BY DEF Inject
<1>3. ASSUME NEW c \in calls, c[1] \in Found(Top.server), c[1] \in alive PROVE c[1] \in strayed
  <2>1. c[1] \in strayed \/ (server[c[1]] = c[2] /\ c[2] \in up)
    BY <1>3 DEF IInv, CallsAnchored, AtRunning
  <2> QED
    BY <2>1, <1>3, FoundStrayed
<1> QED
  BY <1>1, <1>2, <1>3 DEF TypeOK

\* A server that was refused for a duplicate has none at its next refusal.
LEMMA NoDuplicateTwice ==
  ASSUME IInv, NEW s \in Servers, refusals[s] > 0 PROVE ~Duplicate(s)
<1> SUFFICES ASSUME NEW v \in Found(s), entries[s][v] > 1 PROVE FALSE
  BY DEF Duplicate
<1>1. v \in Services /\ entries[s][v] > 0
  BY DEF Found, Listed
<1>2. entries[s][v] = 1
  BY <1>1 DEF IInv, Cleared
<1> QED
  BY <1>2

LEMMA StartRefusedIInv ==
  ASSUME IInv, StartRefused PROVE IInv'
<1> DEFINE s == Top.server
<1>1. /\ Running("starting") /\ Top.rest = {} /\ Pop
      /\ Inject(Found(s), Nowhere)
      /\ entries' = [entries EXCEPT ![s] = [v \in Services |-> 0]]
      /\ refusals' = [refusals EXCEPT ![s] = IF Duplicate(s) THEN @ + 1 ELSE 0]
      /\ UNCHANGED <<configured, attempts, started, up, server, listed, alive, late, strayed>>
  BY DEF StartRefused, serviceVars
<1>0. /\ TypeOK /\ frames # <<>> /\ Len(frames) \in DOMAIN frames /\ frames[Len(frames)].server = s
      /\ s \in Servers /\ frames[Len(frames)].signal = "starting" /\ s \notin started
      /\ \A i \in DOMAIN frames \ {Len(frames)} : frames[i].server # s
  BY <1>1, TopStart
<1>i. /\ calls' = calls /\ dangling \subseteq dangling' /\ dangling' \subseteq calls
      /\ impl' \in [Services -> Servers \cup {Nowhere}]
      /\ \A v \in Services : impl'[v] = IF v \in Found(s) THEN Nowhere ELSE impl[v]
      /\ \A c \in dangling' : c \in dangling \/ (c[1] \in alive => c[1] \in strayed)
  BY <1>1, Injected
<1>f. \A v \in Found(s) : v \in alive /\ server[v] \in up => v \in strayed
  BY <1>1, FoundStrayed
<1> HIDE DEF s
<1>d. /\ DOMAIN frames' = DOMAIN frames \ {Len(frames)}
      /\ \A i \in DOMAIN frames' : frames'[i] = frames[i]
  BY <1>0, <1>1, Popped
<1>e. /\ entries' \in [Servers -> [Services -> Nat]]
      /\ \A v \in Services : entries'[s][v] = 0
      /\ \A r \in Servers \ {s} : entries'[r] = entries[r]
  BY <1>0, <1>1 DEF TypeOK
<1>r. refusals' \in [Servers -> Nat] /\ refusals'[s] \in {0, 1} /\ \A r \in Servers \ {s} : refusals'[r] = refusals[r]
  <2>1. refusals \in [Servers -> Nat]
    BY <1>0 DEF TypeOK
  <2>2. refusals[s] = 0 \/ ~Duplicate(s)
    BY <2>1, <1>0, NoDuplicateTwice
  <2> QED
    BY <2>1, <2>2, <1>0, <1>1
<1>3. TypeOK'
  <2>1. frames' \in Seq([server : Servers, signal : {"starting", "started"}, rest : SUBSET Services])
    BY <1>0, <1>1, Popped, FramesTypeNext
  <2> QED
    BY <1>0, <1>1, <2>1, <1>e, <1>r, <1>i DEF TypeOK
<1>u. \A r \in up : r \in Servers \ {s} /\ entries'[r] = entries[r]
  BY <1>0, <1>e DEF IInv, OwnFrames, TypeOK
<1>4. CallsAnchored' /\ OwnFrames'
  <2>1. \A c \in calls : entries'[c[2]][c[1]] > 0
    BY <1>u DEF IInv, CallsAnchored, AtRunning
  <2> QED
    BY <2>1, <1>1, <1>3, <1>d, <1>i DEF IInv, CallsAnchored, OwnFrames
<1>5. RestConnected'
  BY <1>1, <1>d DEF IInv, RestConnected, Connected
<1>6. ListedElsewhere'
  <2> SUFFICES ASSUME NEW r \in Servers, NEW w \in alive, entries'[r][w] > 0, server[w] # r
               PROVE  w \in strayed
    BY <1>1 DEF ListedElsewhere
  <2>1. w \in Services
    BY <1>0 DEF TypeOK
  <2>2. r # s
    BY <2>1, <1>e
  <2> QED
    BY <2>2, <1>e DEF IInv, ListedElsewhere
<1>7. AtRunning'
  BY <1>1, <1>i, <1>u DEF IInv, AtRunning
<1>8. Registered'
  <2> SUFFICES ASSUME NEW i \in DOMAIN frames', NEW w \in Connected(frames[i].server),
                      frames[i].signal = "starting", w \notin late \cup strayed
               PROVE  w \in frames[i].rest \/ entries'[frames[i].server][w] > 0
    BY <1>1, <1>d DEF Registered, Connected
  <2>1. i \in DOMAIN frames /\ frames[i].server \in Servers \ {s}
    <3>1. i \in DOMAIN frames /\ frames[i] \in Frame
      BY <1>0, <1>d, FramesType
    <3> QED
      BY <3>1, <1>0, <1>d DEF Frame
  <2>2. w \in frames[i].rest \/ entries[frames[i].server][w] > 0
    BY <2>1 DEF IInv, Registered
  <2> QED
    BY <2>1, <2>2, <1>e
<1>9. Listening'
  <2> SUFFICES ASSUME NEW w \in alive \cap listed, server[w] \in up, w \notin late \cup strayed, ToBeTold(w)
               PROVE  ToBeTold(w)'
    BY <1>1, <1>i DEF IInv, Listening
  <2>1. PICK i \in DOMAIN frames : /\ frames[i].server = server[w] /\ frames[i].signal = "started"
                                   /\ w \in frames[i].rest /\ impl[w] = server[w]
    BY DEF ToBeTold
  <2>2. i \in DOMAIN frames' /\ w \in Services /\ w \notin Found(s)
    BY <2>1, <1>0, <1>d, <1>f DEF TypeOK
  <2> QED
    BY <2>1, <2>2, <1>1, <1>d, <1>i DEF ToBeTold
<1>10. Cleared'
  <2>1. ASSUME NEW r \in Servers \ {s}, NEW w \in Services,
               NEW i \in DOMAIN frames, frames[i].server = r, w \notin frames[i].rest
        PROVE  \E k \in DOMAIN frames' : frames'[k].server = r /\ w \notin frames'[k].rest
    BY <2>1, <1>0, <1>d
  <2>2. \A r \in started : r \in Servers \ {s}
    BY <1>0 DEF TypeOK
  <2>3. \A r \in started : refusals'[r] = 0
    BY <2>2, <1>r DEF IInv, Cleared
  <2>4. ASSUME NEW r \in Servers, refusals'[r] > 0
        PROVE  /\ refusals'[r] = 1
               /\ \A v \in Services : entries'[r][v] > 0 =>
                    entries'[r][v] = 1 /\ \E i \in DOMAIN frames' : frames'[i].server = r /\ v \notin frames'[i].rest
    <3>1. CASE r = s
      BY <3>1, <2>4, <1>r, <1>e
    <3>2. CASE r # s
      BY <3>2, <2>1, <2>4, <1>r, <1>e DEF IInv, Cleared
    <3> QED
      BY <3>1, <3>2
  <2> QED
    BY <2>3, <2>4, <1>1 DEF Cleared
<1> QED
  BY <1>4, <1>5, <1>6, <1>7, <1>8, <1>9, <1>10 DEF IInv

LEMMA ReturnIInv ==
  ASSUME IInv, Return PROVE IInv'
<1>1. /\ Running("started") /\ Top.rest = {} /\ Pop
      /\ UNCHANGED <<configured, attempts, entries, started, up, refusals, server, listed, alive, late, strayed,
                     impl, calls, dangling>>
  BY DEF Return, serverVars, serviceVars, methodVars
<1>0. /\ TypeOK /\ frames # <<>> /\ Len(frames) \in DOMAIN frames /\ frames[Len(frames)].rest = {}
      /\ frames[Len(frames)].signal = "started" /\ frames[Len(frames)].server \in started
  BY <1>1, TopStart
<1>d. /\ DOMAIN frames' = DOMAIN frames \ {Len(frames)}
      /\ \A i \in DOMAIN frames' : frames'[i] = frames[i]
  BY <1>0, <1>1, Popped
<1>3. TypeOK'
  <2>1. frames' \in Seq([server : Servers, signal : {"starting", "started"}, rest : SUBSET Services])
    BY <1>0, <1>1, Popped, FramesTypeNext
  <2> QED
    BY <1>0, <1>1, <2>1 DEF TypeOK
<1>4. CallsAnchored' /\ OwnFrames' /\ ListedElsewhere' /\ AtRunning'
  BY <1>1, <1>3, <1>d DEF IInv, CallsAnchored, OwnFrames, ListedElsewhere, AtRunning
<1>5. RestConnected' /\ Registered'
  BY <1>1, <1>d DEF IInv, RestConnected, Registered, Connected
<1>6. Listening'
  <2> SUFFICES ASSUME NEW w \in alive \cap listed, server[w] \in up, w \notin late \cup strayed, ToBeTold(w)
               PROVE  ToBeTold(w)'
    BY <1>1 DEF IInv, Listening
  <2>1. PICK i \in DOMAIN frames : /\ frames[i].server = server[w] /\ frames[i].signal = "started"
                                   /\ w \in frames[i].rest /\ impl[w] = server[w]
    BY DEF ToBeTold
  <2> QED
    BY <2>1, <1>0, <1>1, <1>d DEF ToBeTold
<1>7. Cleared'
  <2>1. ASSUME NEW r \in Servers, refusals[r] > 0, NEW w \in Services,
               NEW i \in DOMAIN frames, frames[i].server = r, w \notin frames[i].rest
        PROVE  \E k \in DOMAIN frames' : frames'[k].server = r /\ w \notin frames'[k].rest
    <3>1. r \notin started
      BY <2>1 DEF IInv, Cleared
    <3> QED
      BY <3>1, <2>1, <1>0, <1>d
  <2> QED
    BY <2>1, <1>1 DEF IInv, Cleared
<1> QED
  BY <1>4, <1>5, <1>6, <1>7 DEF IInv

LEMMA StartAcceptedIInv ==
  ASSUME IInv, StartAccepted PROVE IInv'
<1> DEFINE s == Top.server
           f == [server |-> s, signal |-> "started", rest |-> Connected(s)]
<1>1. /\ Running("starting") /\ Top.rest = {} /\ SetTop(f)
      /\ Inject(Found(s), s)
      /\ up' = up \cup {s} /\ started' = started \cup {s}
      /\ refusals' = [refusals EXCEPT ![s] = 0]
      /\ UNCHANGED <<configured, attempts, entries, server, listed, alive, late, strayed>>
  BY DEF StartAccepted, serviceVars
<1>0. /\ TypeOK /\ frames # <<>> /\ Len(frames) \in DOMAIN frames /\ frames[Len(frames)].server = s
      /\ s \in Servers /\ frames[Len(frames)].signal = "starting" /\ s \notin started
      /\ frames[Len(frames)].rest = {}
      /\ \A i \in DOMAIN frames \ {Len(frames)} : frames[i].server # s
  BY <1>1, TopStart
<1>i. /\ calls' = calls /\ dangling \subseteq dangling' /\ dangling' \subseteq calls
      /\ impl' \in [Services -> Servers \cup {Nowhere}]
      /\ \A v \in Services : impl'[v] = IF v \in Found(s) THEN s ELSE impl[v]
      /\ \A c \in dangling' : c \in dangling \/ (c[1] \in alive => c[1] \in strayed)
  BY <1>0, <1>1, Injected
<1>f. \A v \in Found(s) : v \in alive /\ server[v] \in up => v \in strayed
  BY <1>1, FoundStrayed
<1> HIDE DEF s
<1>g. f \in Frame /\ f.server = s /\ f.signal = "started" /\ f.rest = Connected(s)
  BY <1>0 DEF Frame, Connected, TypeOK
<1> HIDE DEF f
<1>d. /\ frames' \in Seq(Frame) /\ DOMAIN frames' = DOMAIN frames /\ frames'[Len(frames)] = f
      /\ \A i \in DOMAIN frames \ {Len(frames)} : frames'[i] = frames[i]
  BY <1>0, <1>1, <1>g, TopSet
<1>r. refusals' \in [Servers -> Nat] /\ refusals'[s] = 0 /\ \A r \in Servers \ {s} : refusals'[r] = refusals[r]
  BY <1>0, <1>1 DEF TypeOK
<1>3. TypeOK'
  <2>1. frames' \in Seq([server : Servers, signal : {"starting", "started"}, rest : SUBSET Services])
    BY <1>d, FramesTypeNext
  <2> QED
    BY <1>0, <1>1, <2>1, <1>r, <1>i DEF TypeOK
<1>4. CallsAnchored'
  BY <1>1, <1>3, <1>i DEF IInv, CallsAnchored
<1>5. OwnFrames'
  <2>1. \A i, j \in DOMAIN frames' : frames'[i].server = frames'[j].server => i = j
    BY <1>g, <1>d, <1>0 DEF IInv, OwnFrames
  <2>2. ASSUME NEW i \in DOMAIN frames'
        PROVE  frames'[i].signal = "started" <=> frames'[i].server \in started'
    BY <1>0, <1>1, <1>g, <1>d DEF IInv, OwnFrames
  <2> QED
    BY <2>1, <2>2, <1>1 DEF IInv, OwnFrames
<1>6. RestConnected'
  <2> SUFFICES ASSUME NEW i \in DOMAIN frames', NEW w \in frames'[i].rest
               PROVE  w \in alive /\ server[w] = frames'[i].server
    BY <1>1 DEF RestConnected, Connected
  <2>1. CASE i = Len(frames)
    BY <2>1, <1>d, <1>g DEF Connected
  <2>2. CASE i # Len(frames)
    BY <2>2, <1>d DEF IInv, RestConnected, Connected
  <2> QED
    BY <2>1, <2>2
<1>7. ListedElsewhere' /\ AtRunning'
  <2>1. \A v \in Found(s) : entries[s][v] > 0
    BY DEF Found, Listed
  <2> QED
    BY <2>1, <1>1, <1>i DEF IInv, ListedElsewhere, AtRunning
<1>8. Registered'
  <2> SUFFICES ASSUME NEW i \in DOMAIN frames', NEW w \in Connected(frames'[i].server),
                      frames'[i].signal = "starting", w \notin late \cup strayed
               PROVE  w \in frames'[i].rest \/ entries[frames'[i].server][w] > 0
    BY <1>1 DEF Registered, Connected
  <2>1. i # Len(frames)
    BY <1>d, <1>g
  <2> QED
    BY <2>1, <1>d DEF IInv, Registered
<1>9. Listening'
  <2> SUFFICES ASSUME NEW w \in alive \cap listed, server[w] \in up \cup {s}, w \notin late \cup strayed
               PROVE  <<w, server[w]>> \in calls \/ ToBeTold(w)'
    BY <1>1, <1>i DEF Listening
  <2>0. w \in Services
    BY <1>0 DEF TypeOK
  <2>1. CASE server[w] = s
    <3>1. w \in Connected(s)
      BY <2>1 DEF Connected
    <3>2. entries[s][w] > 0
      BY <3>1, <1>0 DEF IInv, Registered
    <3>3. w \in Found(s)
      BY <2>0, <3>2 DEF Found, Listed
    <3>4. impl'[w] = server'[w] /\ server'[w] = s
      BY <2>0, <2>1, <3>3, <1>1, <1>i
    <3> QED
      BY <3>1, <3>4, <1>0, <1>d, <1>g DEF ToBeTold
  <2>2. CASE server[w] \in up /\ ToBeTold(w)
    <3>1. PICK i \in DOMAIN frames : /\ frames[i].server = server[w] /\ frames[i].signal = "started"
                                     /\ w \in frames[i].rest /\ impl[w] = server[w]
      BY <2>2 DEF ToBeTold
    <3>2. i # Len(frames) /\ w \notin Found(s)
      BY <2>2, <3>1, <1>0, <1>f
    <3>3. impl'[w] = impl[w] /\ frames'[i] = frames[i] /\ server'[w] = server[w]
      BY <2>0, <3>2, <1>1, <1>i, <1>d
    <3> QED
      BY <3>1, <3>3, <1>d DEF ToBeTold
  <2> QED
    BY <2>1, <2>2 DEF IInv, Listening
<1>10. Cleared'
  <2>1. ASSUME NEW r \in Servers \ {s}, NEW w \in Services,
               NEW i \in DOMAIN frames, frames[i].server = r, w \notin frames[i].rest
        PROVE  \E k \in DOMAIN frames' : frames'[k].server = r /\ w \notin frames'[k].rest
    BY <2>1, <1>0, <1>d
  <2>2. started \subseteq Servers
    BY <1>0 DEF TypeOK
  <2>3. \A r \in started' : refusals'[r] = 0
    BY <2>2, <1>1, <1>r DEF IInv, Cleared
  <2>4. ASSUME NEW r \in Servers, refusals'[r] > 0
        PROVE  /\ refusals'[r] = 1
               /\ \A v \in Services : entries[r][v] > 0 =>
                    entries[r][v] = 1 /\ \E i \in DOMAIN frames' : frames'[i].server = r /\ v \notin frames'[i].rest
    <3>1. r # s /\ refusals'[r] = refusals[r]
      BY <2>4, <1>r
    <3> QED
      BY <3>1, <2>1, <2>4 DEF IInv, Cleared
  <2> QED
    BY <2>3, <2>4, <1>1 DEF Cleared
<1> QED
  BY <1>4, <1>5, <1>6, <1>7, <1>8, <1>9, <1>10 DEF IInv

LEMMA StartProcessingIInv ==
  ASSUME IInv, StartProcessing PROVE IInv'
<1> DEFINE s == Top.server
<1>1. PICK v \in Top.rest :
        /\ v \in listed => impl[v] # Nowhere
        /\ calls' = IF v \in listed THEN calls \cup {<<v, impl[v]>>} ELSE calls
        /\ SetTop([Top EXCEPT !.rest = @ \ {v}])
  BY DEF StartProcessing
<1>2. /\ Running("started")
      /\ UNCHANGED <<configured, attempts, entries, started, up, refusals, server, listed, alive, late, strayed,
                     impl, dangling>>
  BY DEF StartProcessing, serverVars, serviceVars
<1>0. /\ TypeOK /\ frames # <<>> /\ Len(frames) \in DOMAIN frames /\ frames[Len(frames)].server = s
      /\ s \in Servers /\ v \in Services /\ v \in alive /\ server[v] = s /\ s \in started
      /\ frames[Len(frames)].signal = "started"
      /\ \A i \in DOMAIN frames \ {Len(frames)} : frames[i].server # s
  BY <1>1, <1>2, TopStart DEF Connected
<1> HIDE DEF s
<1>d. /\ DOMAIN frames' = DOMAIN frames
      /\ \A i \in DOMAIN frames :
           /\ frames'[i].server = frames[i].server /\ frames'[i].signal = frames[i].signal
           /\ frames'[i].rest = IF i = Len(frames) THEN frames[i].rest \ {v} ELSE frames[i].rest
  BY <1>0, <1>1, Signalled
<1>p. impl[v] # Nowhere =>
        /\ impl[v] \in up /\ impl[v] \in Servers /\ entries[impl[v]][v] > 0
        /\ server[v] = impl[v] \/ v \in strayed
  BY <1>0 DEF IInv, AtRunning, ListedElsewhere, TypeOK
<1>c. calls \subseteq calls' /\ \A c \in calls' : c \in calls \/ (c = <<v, impl[v]>> /\ impl[v] # Nowhere)
  BY <1>1
<1>3. TypeOK'
  <2>1. frames' \in Seq([server : Servers, signal : {"starting", "started"}, rest : SUBSET Services])
    BY <1>0, <1>1, Signalled, FramesTypeNext
  <2>2. calls' \subseteq Services \X Servers /\ dangling \subseteq calls'
    BY <1>0, <1>c, <1>p DEF TypeOK
  <2> QED
    BY <1>0, <1>2, <2>1, <2>2 DEF TypeOK
<1>4. CallsAnchored'
  <2>1. ASSUME NEW c \in calls'
        PROVE  /\ entries[c[2]][c[1]] > 0
               /\ c[1] \in alive => server[c[1]] = c[2] \/ c[1] \in strayed
    BY <1>0, <1>c, <1>p DEF IInv, CallsAnchored
  <2> QED
    BY <2>1, <1>2, <1>3 DEF IInv, CallsAnchored
<1>5. OwnFrames'
  BY <1>2, <1>d DEF IInv, OwnFrames
<1>6. RestConnected'
  <2> SUFFICES ASSUME NEW i \in DOMAIN frames', NEW w \in frames'[i].rest
               PROVE  w \in alive /\ server[w] = frames'[i].server
    BY <1>2 DEF RestConnected, Connected
  <2> QED
    BY <1>d DEF IInv, RestConnected, Connected
<1>7. ListedElsewhere'
  BY <1>2 DEF IInv, ListedElsewhere
<1>8. AtRunning'
  <2>1. \A c \in calls' : c[2] \in up
    BY <1>c, <1>p DEF IInv, AtRunning
  <2> QED
    BY <2>1, <1>2 DEF IInv, AtRunning
<1>9. Registered'
  <2> SUFFICES ASSUME NEW i \in DOMAIN frames, NEW w \in Connected(frames[i].server),
                      frames[i].signal = "starting", w \notin late \cup strayed
               PROVE  w \in frames'[i].rest \/ entries[frames[i].server][w] > 0
    BY <1>2, <1>d DEF Registered, Connected
  <2>1. i # Len(frames)
    BY <1>0
  <2> QED
    BY <2>1, <1>d DEF IInv, Registered
<1>10. Listening'
  <2> SUFFICES ASSUME NEW w \in alive \cap listed, server[w] \in up, w \notin late \cup strayed, ToBeTold(w)
               PROVE  <<w, server[w]>> \in calls' \/ ToBeTold(w)'
    BY <1>2, <1>c DEF IInv, Listening
  <2>1. PICK i \in DOMAIN frames : /\ frames[i].server = server[w] /\ frames[i].signal = "started"
                                   /\ w \in frames[i].rest /\ impl[w] = server[w]
    BY DEF ToBeTold
  <2>2. CASE w = v
    BY <2>1, <2>2, <1>0, <1>1
  <2>3. CASE w # v
    BY <2>1, <2>3, <1>2, <1>d DEF ToBeTold
  <2> QED
    BY <2>2, <2>3
<1>11. Cleared'
  <2>1. ASSUME NEW r \in Servers, NEW w \in Services,
               NEW i \in DOMAIN frames, frames[i].server = r, w \notin frames[i].rest
        PROVE  \E k \in DOMAIN frames' : frames'[k].server = r /\ w \notin frames'[k].rest
    BY <2>1, <1>d
  <2> QED
    BY <2>1, <1>2 DEF IInv, Cleared
<1> QED
  BY <1>4, <1>5, <1>6, <1>7, <1>8, <1>9, <1>10, <1>11 DEF IInv

LEMMA ShutdownIInv ==
  ASSUME IInv, NEW s \in Servers, Shutdown(s) PROVE IInv'
<1>0. TypeOK
  BY DEF IInv, CallsAnchored
<1>1. /\ s \in up /\ up' = up \ {s}
      /\ calls' = {c \in calls : c[2] # s} /\ dangling' = {c \in dangling : c[2] # s}
      /\ impl' = [v \in Services |-> IF impl[v] = s THEN Nowhere ELSE impl[v]]
      /\ UNCHANGED <<configured, attempts, entries, started, refusals, server, listed, alive, late, strayed, frames>>
  BY DEF Shutdown, serviceVars
<1>2. TypeOK'
  BY <1>0, <1>1 DEF TypeOK
<1>3. CallsAnchored'
  BY <1>1, <1>2 DEF IInv, CallsAnchored
<1>4. OwnFrames' /\ RestConnected' /\ ListedElsewhere'
  BY <1>1 DEF IInv, OwnFrames, RestConnected, ListedElsewhere, Connected
<1>5. AtRunning'
  <2>1. \A c \in calls' : c[2] \in up'
    BY <1>1 DEF IInv, AtRunning
  <2>2. ASSUME NEW v \in Services, impl'[v] # Nowhere PROVE impl'[v] \in up' /\ entries[impl'[v]][v] > 0
    BY <2>2, <1>0, <1>1 DEF IInv, AtRunning, TypeOK
  <2> QED
    BY <2>1, <2>2, <1>1 DEF AtRunning
<1>6. Registered' /\ Cleared'
  BY <1>1 DEF IInv, Registered, Cleared, Connected
<1>7. Listening'
  <2> SUFFICES ASSUME NEW w \in alive \cap listed, server[w] \in up', w \notin late \cup strayed
               PROVE  <<w, server[w]>> \in calls' \/ ToBeTold(w)'
    BY <1>1 DEF Listening
  <2>1. server[w] \in up /\ server[w] # s
    BY <1>1
  <2>2. CASE ToBeTold(w)
    <3>1. w \in Services /\ impl[w] = server[w]
      BY <2>2, <1>0 DEF TypeOK, ToBeTold
    <3>2. impl'[w] = impl[w]
      BY <2>1, <3>1, <1>1
    <3> QED
      BY <2>2, <3>2, <1>1 DEF ToBeTold
  <2>3. CASE <<w, server[w]>> \in calls
    BY <2>1, <2>3, <1>1
  <2> QED
    BY <2>1, <2>2, <2>3 DEF IInv, Listening
<1> QED
  BY <1>3, <1>4, <1>5, <1>6, <1>7 DEF IInv

LEMMA NextIInv == IInv /\ [Next]_vars => IInv'
<1> SUFFICES ASSUME IInv, [Next]_vars PROVE IInv'
  OBVIOUS
<1>1. CASE UNCHANGED vars
  <2>1. UNCHANGED <<configured, attempts, entries, started, up, frames, server, listed, alive, impl, calls, dangling,
                    late, strayed, refusals>>
    BY <1>1 DEF vars, serviceVars, serverVars, methodVars
  <2>2. (CallsAnchored /\ OwnFrames /\ RestConnected /\ ListedElsewhere /\ AtRunning)'
    BY <2>1 DEF IInv, CallsAnchored, TypeOK, OwnFrames, RestConnected, ListedElsewhere, AtRunning, Connected
  <2>3. (Registered /\ Listening /\ Cleared)'
    BY <2>1 DEF IInv, Registered, Listening, Cleared, ToBeTold, Connected
  <2> QED
    BY <2>2, <2>3 DEF IInv
<1>2. ASSUME NEW s \in Servers, Configure(s) \/ BeginStart(s) \/ Shutdown(s) PROVE IInv'
  BY <1>2, ConfigureIInv, BeginStartIInv, ShutdownIInv
<1>3. ASSUME NEW v \in Services, NEW s \in Servers \cup {Nowhere}, SetServer(v, s) PROVE IInv'
  BY <1>3, SetServerIInv
<1>4. ASSUME NEW v \in Services, SetMethods(v) \/ Destroy(v) PROVE IInv'
  BY <1>4, SetMethodsIInv, DestroyIInv
<1>5. CASE RegisterService \/ StartTooEarly \/ StartRefused \/ StartAccepted \/ StartProcessing \/ Return
  BY <1>5, RegisterServiceIInv, StartTooEarlyIInv, StartRefusedIInv, StartAcceptedIInv, StartProcessingIInv, ReturnIInv
<1> QED
  BY <1>1, <1>2, <1>3, <1>4, <1>5 DEF Next, ChangeMethod

-----------------------------------------------------------------------------
(* The server's theorems.                                                  *)

\* The inductive invariant: who is still to be signalled by the starts in
\* progress, where a service is listed, and what it takes until it listens.
THEOREM Invariance == Spec => []IInv
BY InitIInv, NextIInv, PTL DEF Spec

\* A call waits at a server that lists its service; that is the server the
\* service is attached to, and the call keeps its implementation, unless the
\* service was destroyed or was taken from a server that listed it before that
\* started (server_method.cpp:36-65, server.cpp:30-79).
THEOREM CallsAnchoredAlways == Spec => []CallsAnchored
<1>1. IInv => CallsAnchored
  BY DEF IInv
<1> QED
  BY <1>1, Invariance, PTL

\* When start() has returned true, every service of the server that was there
\* in time and still is waits for requests, whatever the handlers of starting
\* and started did meanwhile.
THEOREM EveryoneListensAlways == Spec => []EveryoneListens
<1>1. IInv => EveryoneListens
  <2> SUFFICES ASSUME IInv, NEW v \in alive \cap listed, server[v] \in up, server[v] \notin Active,
                      v \notin late \cup strayed
               PROVE  <<v, server[v]>> \in calls
    BY DEF EveryoneListens
  <2>1. ~ToBeTold(v)
    BY DEF ToBeTold, Active
  <2> QED
    BY <2>1 DEF IInv, Listening
<1> QED
  BY <1>1, Invariance, PTL

\* gRPC refuses a start for a duplicate at most once in a row, however many
\* starts there are: services_.clear() in doStart leaves nothing registered.
THEOREM RefusedOnceAlways == Spec => []RefusedOnce
<1>1. IInv => RefusedOnce
  <2> SUFFICES ASSUME IInv, NEW s \in Servers PROVE refusals[s] <= 1
    BY DEF RefusedOnce
  <2>1. refusals[s] \in Nat /\ (refusals[s] > 0 => refusals[s] = 1)
    BY DEF IInv, Cleared, CallsAnchored, TypeOK
  <2> QED
    BY <2>1
<1> QED
  BY <1>1, Invariance, PTL

-----------------------------------------------------------------------------
(* The client: its inductive invariant.                                    *)

\* No two holders share an implementation, and the calls that run through one
\* belong to the holder that has it, if one still has.
OwnImpls ==
  /\ \A g, h \in Holders : clientImpl[g] # 0 /\ clientImpl[g] = clientImpl[h] => g = h
  /\ \A x \in Open : /\ x.impl \in Impls
                     /\ \A h \in Holders : clientImpl[h] = x.impl => x.holder = h

\* An implementation made for a gRPC channel has its queue and thread started,
\* and only calls over such a channel wait for a completion.
ThreadMade ==
  /\ \A i \in Impls : made[i].channel \in Remote => queue[made[i].channel] # "none"
  /\ \A x \in inFlight : made[x.impl].channel \in Remote

ClientIInv == HoldersTypeOK /\ ImplCurrent /\ CutOffOnlyByChange /\ OwnImpls /\ ThreadMade

LEMMA ClientInitIInv ==
  ASSUME HoldersInit PROVE ClientIInv
<1>1. inFlight = {} /\ writing = <<>> /\ made = <<>> /\ Open = {} /\ Impls = {}
  BY DEF HoldersInit, Open, Impls
<1>2. HoldersTypeOK
  BY <1>1, ClientAssumption DEF HoldersInit, HoldersTypeOK, Impls
<1>3. ImplCurrent /\ CutOffOnlyByChange /\ OwnImpls /\ ThreadMade
  BY <1>1 DEF HoldersInit, ImplCurrent, CutOffOnlyByChange, OwnImpls, ThreadMade
<1> QED
  BY <1>2, <1>3 DEF ClientIInv

\* A setter drops the implementation of its holder, and thereby cuts off only
\* calls of that holder, which Change records.
LEMMA SetterIInv ==
  ASSUME ClientIInv, NEW h \in Holders, deinit(h), Change(h),
         channel' \in [Holders -> Channels \cup {Unset}], config' \in [Holders -> Configs \cup {Unset}],
         \A g \in Holders \ {h} : channel'[g] = channel[g] /\ config'[g] = config[g],
         UNCHANGED <<made, queue, inFlight, writing, placed>>
  PROVE  ClientIInv'
<1>0. /\ clientImpl \in [Holders -> 0..Len(made)] /\ live \subseteq Impls /\ inFlight \subseteq Call
      /\ writing \in Seq(Call) /\ changed \subseteq 1..MaxPlaced
      /\ made \in Seq([channel : Channels, config : Configs]) /\ Len(made) \in Nat
  BY DEF ClientIInv, HoldersTypeOK
<1>1. /\ live' = live \ {clientImpl[h]} /\ clientImpl' = [clientImpl EXCEPT ![h] = 0]
      /\ Open' = Open /\ Impls' = Impls
  BY DEF deinit, Open, Impls
<1>2. changed \subseteq changed' /\ \A x \in Open : x.holder = h => x.number \in changed'
  BY DEF Change
<1>3. Open \subseteq Call
  BY <1>0 DEF Open
<1>4. clientImpl' \in [Holders -> 0..Len(made)] /\ clientImpl'[h] = 0 /\ \A g \in Holders \ {h} : clientImpl'[g] = clientImpl[g]
  BY <1>0, <1>1
<1>5. HoldersTypeOK'
  <2>1. changed' \subseteq 1..MaxPlaced
    BY <1>0, <1>3 DEF Change, Call
  <2> QED
    BY <2>1, <1>0, <1>1, <1>4 DEF ClientIInv, HoldersTypeOK, Channels, Call
<1>6. ImplCurrent'
  <2> SUFFICES ASSUME NEW g \in Holders, clientImpl'[g] # 0
               PROVE  clientImpl'[g] \in live' /\ made'[clientImpl'[g]] = [channel |-> channel'[g], config |-> config'[g]]
    BY DEF ImplCurrent
  <2>1. g # h /\ clientImpl'[g] = clientImpl[g] /\ channel'[g] = channel[g] /\ config'[g] = config[g]
    BY <1>4
  <2>2. clientImpl[g] \in live /\ made[clientImpl[g]] = [channel |-> channel[g], config |-> config[g]]
    BY <2>1 DEF ClientIInv, ImplCurrent
  <2>3. clientImpl[g] # clientImpl[h]
    BY <2>1 DEF ClientIInv, OwnImpls
  <2> QED
    BY <2>1, <2>2, <2>3, <1>1
<1>7. CutOffOnlyByChange'
  <2>1. ASSUME NEW x \in Open, x.impl \notin live' PROVE x.number \in changed'
    <3>1. CASE x.impl \notin live
      BY <3>1, <1>2 DEF ClientIInv, CutOffOnlyByChange
    <3>2. CASE x.impl = clientImpl[h]
      BY <3>2, <1>2 DEF ClientIInv, OwnImpls
    <3> QED
      BY <2>1, <3>1, <3>2, <1>1
  <2> QED
    BY <2>1, <1>1 DEF ClientIInv, CutOffOnlyByChange
<1>8. OwnImpls'
  <2>1. \A x \in Open : x.impl \in Impls /\ x.impl # 0
    BY <1>0, <1>3 DEF ClientIInv, OwnImpls, Call
  <2>2. ASSUME NEW x \in Open, NEW g \in Holders, clientImpl'[g] = x.impl PROVE x.holder = g
    BY <2>1, <2>2, <1>4 DEF ClientIInv, OwnImpls
  <2>3. \A f, g \in Holders : clientImpl'[f] # 0 /\ clientImpl'[f] = clientImpl'[g] => f = g
    BY <1>4 DEF ClientIInv, OwnImpls
  <2> QED
    BY <2>1, <2>2, <2>3, <1>1 DEF OwnImpls
<1>9. ThreadMade'
  BY <1>1 DEF ClientIInv, ThreadMade
<1> QED
  BY <1>5, <1>6, <1>7, <1>8, <1>9 DEF ClientIInv

LEMMA SetChannelIInv ==
  ASSUME ClientIInv, NEW h \in Holders, NEW c \in Channels \cup {Unset}, SetChannel(h, c) PROVE ClientIInv'
<1>1. /\ deinit(h) /\ Change(h) /\ channel' = [channel EXCEPT ![h] = c]
      /\ UNCHANGED <<config, made, queue, inFlight, writing, placed>>
  BY DEF SetChannel, callVars
<1>2. channel \in [Holders -> Channels \cup {Unset}] /\ config \in [Holders -> Configs \cup {Unset}]
  BY DEF ClientIInv, HoldersTypeOK
<1> QED
  BY <1>1, <1>2, SetterIInv

LEMMA SetConfigIInv ==
  ASSUME ClientIInv, NEW h \in Holders, NEW x \in Configs \cup {Unset}, SetConfig(h, x) PROVE ClientIInv'
<1>1. /\ deinit(h) /\ Change(h) /\ config' = [config EXCEPT ![h] = x]
      /\ UNCHANGED <<channel, made, queue, inFlight, writing, placed>>
  BY DEF SetConfig, callVars
<1>2. channel \in [Holders -> Channels \cup {Unset}] /\ config \in [Holders -> Configs \cup {Unset}]
  BY DEF ClientIInv, HoldersTypeOK
<1> QED
  BY <1>1, <1>2, SetterIInv

\* ensureInit keeps what the calls point to, and leaves the holder with an
\* implementation for its channel, whose thread runs if it is a gRPC channel.
LEMMA EnsureInit ==
  ASSUME ClientIInv, NEW h \in Holders, ~InShutdown, ~Gone(channel[h]), ensureInit(h),
         UNCHANGED <<channel, config>>
  PROVE  /\ clientImpl' \in [Holders -> 0..Len(made')] /\ live' \subseteq 1..Len(made') /\ live \subseteq live'
         /\ made' \in Seq([channel : Channels, config : Configs]) /\ Len(made') <= MaxImpls
         /\ Len(made) \in Nat /\ Len(made') \in Nat /\ Len(made) <= Len(made') /\ \A i \in 1..Len(made) : made'[i] = made[i]
         /\ queue' \in [Remote -> {"none", "open", "closing", "gone"}]
         /\ \A c \in Remote : queue[c] = "none" \/ queue'[c] = queue[c]
         /\ ImplCurrent' /\ clientImpl'[h] \in 1..Len(made') /\ clientImpl'[h] \in live'
         /\ made'[clientImpl'[h]].channel = channel[h] /\ channel[h] \in Channels
         /\ (channel[h] \in Remote => queue'[channel[h]] = "open")
         /\ \A i \in 1..Len(made') : made'[i].channel \in Remote => queue'[made'[i].channel] # "none"
         /\ \A f, g \in Holders : clientImpl'[f] # 0 /\ clientImpl'[f] = clientImpl'[g] => f = g
         /\ \A i \in 1..Len(made), g \in Holders : clientImpl'[g] = i => clientImpl[g] = i
<1>0. /\ clientImpl \in [Holders -> 0..Len(made)] /\ live \subseteq 1..Len(made)
      /\ made \in Seq([channel : Channels, config : Configs]) /\ Len(made) \in Nat /\ Len(made) <= MaxImpls
      /\ queue \in [Remote -> {"none", "open", "closing", "gone"}]
      /\ channel \in [Holders -> Channels \cup {Unset}] /\ config \in [Holders -> Configs \cup {Unset}]
      /\ Impls = 1..Len(made) /\ MaxImpls \in Nat
  BY ClientAssumption DEF ClientIInv, HoldersTypeOK, Impls
<1>1. \A g \in Holders : clientImpl[g] # 0 =>
        clientImpl[g] \in live /\ made[clientImpl[g]] = [channel |-> channel[g], config |-> config[g]]
  BY DEF ClientIInv, ImplCurrent
<1>2. \A f, g \in Holders : clientImpl[f] # 0 /\ clientImpl[f] = clientImpl[g] => f = g
  BY DEF ClientIInv, OwnImpls
<1>3. \A i \in 1..Len(made) : made[i].channel \in Remote => queue[made[i].channel] # "none"
  BY <1>0 DEF ClientIInv, ThreadMade
<1>4. \A c \in Remote : queue[c] # "closing" /\ (channel[h] = c => queue[c] # "gone")
  BY DEF InShutdown, Gone
<1>5. CASE clientImpl[h] # 0 /\ UNCHANGED <<made, clientImpl, live, queue>>
  <2>0. clientImpl[h] \in 1..Len(made)
    BY <1>0, <1>5
  <2>1. clientImpl[h] \in live /\ made[clientImpl[h]].channel = channel[h]
    <3>1. clientImpl[h] # 0
      BY <1>5
    <3>2. made[clientImpl[h]] = [channel |-> channel[h], config |-> config[h]]
      BY <3>1, <1>1
    <3> QED
      BY <3>1, <3>2, <1>1
  <2>2. channel[h] \in Channels
    <3> DEFINE Impl == [channel : Channels, config : Configs]
    <3>1. made \in Seq(Impl)
      BY <1>0
    <3> HIDE DEF Impl
    <3>2. made[clientImpl[h]] \in Impl
      BY <2>0, <3>1
    <3> QED
      BY <3>2, <2>1 DEF Impl
  <2>3. channel[h] \in Remote => queue[channel[h]] = "open"
    BY <2>0, <2>1, <1>0, <1>3, <1>4
  <2>4. ImplCurrent'
    BY <1>5 DEF ClientIInv, ImplCurrent
  <2> QED
    BY <2>0, <2>1, <2>2, <2>3, <2>4, <1>0, <1>2, <1>3, <1>5
<1>6. CASE /\ clientImpl[h] = 0 /\ readyForInit(h) /\ Len(made) < MaxImpls
           /\ made' = Append(made, [channel |-> channel[h], config |-> config[h]])
           /\ clientImpl' = [clientImpl EXCEPT ![h] = Len(made')]
           /\ live' = live \cup {Len(made')}
           /\ StartThread(channel[h])
  <2> DEFINE new == [channel |-> channel[h], config |-> config[h]]
  <2>1. new \in [channel : Channels, config : Configs] /\ channel[h] \in Channels
    BY <1>0, <1>6 DEF readyForInit
  <2>2. /\ made' \in Seq([channel : Channels, config : Configs]) /\ Len(made') = Len(made) + 1
        /\ \A i \in 1..Len(made) : made'[i] = made[i] /\ made'[Len(made) + 1] = new
    BY <2>1, <1>0, <1>6
  <2>3. /\ clientImpl' \in [Holders -> 0..Len(made')] /\ clientImpl'[h] = Len(made) + 1
        /\ \A g \in Holders \ {h} : clientImpl'[g] = clientImpl[g]
    BY <2>2, <1>0, <1>6
  <2>4. /\ queue' \in [Remote -> {"none", "open", "closing", "gone"}]
        /\ \A c \in Remote : queue'[c] = IF c = channel[h] /\ queue[c] = "none" THEN "open" ELSE queue[c]
    BY <1>0, <1>6 DEF StartThread
  <2>5. made'[Len(made) + 1] = new /\ new.channel = channel[h]
    BY <2>2, <1>0, <1>6
  <2> HIDE DEF new
  <2>6. live' \subseteq 1..Len(made') /\ live \subseteq live' /\ clientImpl'[h] \in live' /\ Len(made') <= MaxImpls
    <3>1. Len(made') <= MaxImpls
      BY <2>2, <1>0, <1>6
    <3>2. live' = live \cup {Len(made) + 1}
      BY <2>2, <1>6
    <3>3. 1..Len(made) \subseteq 1..Len(made') /\ Len(made) + 1 \in 1..Len(made')
      BY <2>2, <1>0
    <3> QED
      BY <3>1, <3>2, <3>3, <2>3, <1>0
  <2>7. ImplCurrent'
    <3> SUFFICES ASSUME NEW g \in Holders, clientImpl'[g] # 0
                 PROVE  clientImpl'[g] \in live' /\ made'[clientImpl'[g]] = [channel |-> channel[g], config |-> config[g]]
      BY DEF ImplCurrent
    <3>1. CASE g = h
      BY <3>1, <2>3, <2>5, <2>6 DEF new
    <3>2. CASE g # h
      <4>1. clientImpl'[g] = clientImpl[g] /\ clientImpl[g] \in 1..Len(made)
        BY <3>2, <2>3, <1>0
      <4> QED
        BY <4>1, <2>2, <2>6, <1>1
    <3> QED
      BY <3>1, <3>2
  <2>8. channel[h] \in Remote => queue'[channel[h]] = "open"
    BY <2>4, <1>0, <1>4
  <2>9. \A i \in 1..Len(made') : made'[i].channel \in Remote => queue'[made'[i].channel] # "none"
    BY <2>2, <2>4, <2>5, <2>8, <1>0, <1>3
  <2>10. \A f, g \in Holders : clientImpl'[f] # 0 /\ clientImpl'[f] = clientImpl'[g] => f = g
    <3>1. \A g \in Holders : clientImpl[g] # Len(made) + 1
      BY <1>0
    <3> QED
      BY <3>1, <2>3, <1>2
  <2>11. \A i \in 1..Len(made), g \in Holders : clientImpl'[g] = i => clientImpl[g] = i
    BY <2>3, <1>0
  <2>12. clientImpl'[h] \in 1..Len(made') /\ made'[clientImpl'[h]].channel = channel[h]
    BY <2>2, <2>3, <2>5, <1>0
  <2>13. \A c \in Remote : queue[c] = "none" \/ queue'[c] = queue[c]
    BY <2>4
  <2>14. Len(made) \in Nat /\ Len(made') \in Nat /\ Len(made) <= Len(made') /\ \A i \in 1..Len(made) : made'[i] = made[i]
    BY <2>2, <1>0
  <2> QED
    BY <2>1, <2>2, <2>3, <2>4, <2>6, <2>7, <2>8, <2>9, <2>10, <2>11, <2>12, <2>13, <2>14
<1> QED
  BY <1>5, <1>6 DEF ensureInit

LEMMA TouchIInv ==
  ASSUME ClientIInv, NEW h \in Holders, Touch(h) PROVE ClientIInv'
<1>1. /\ ~InShutdown /\ ~Gone(channel[h]) /\ ensureInit(h)
      /\ UNCHANGED <<channel, config, inFlight, writing, placed, changed>>
  BY DEF Touch, callVars
<1>2. Open' = Open /\ Impls = 1..Len(made) /\ Impls' = 1..Len(made')
  <2>1. made \in Seq([channel : Channels, config : Configs]) /\ made' \in Seq([channel : Channels, config : Configs])
    BY <1>1, EnsureInit DEF ClientIInv, HoldersTypeOK
  <2> QED
    BY <2>1, <1>1 DEF Open, Impls
<1>3. HoldersTypeOK'
  BY <1>1, <1>2, EnsureInit DEF ClientIInv, HoldersTypeOK, Channels, Call
<1>4. ImplCurrent'
  BY <1>1, EnsureInit
<1>5. \A x \in inFlight : x.impl \in 1..Len(made) /\ made'[x.impl] = made[x.impl]
  BY <1>1, <1>2, EnsureInit DEF ClientIInv, OwnImpls, Open
<1>6. CutOffOnlyByChange'
  <2>1. live \subseteq live'
    BY <1>1, EnsureInit
  <2>2. ASSUME NEW x \in inFlight PROVE queue'[made'[x.impl].channel] \in {"open", "closing"}
    <3>1. made[x.impl].channel \in Remote /\ queue[made[x.impl].channel] \in {"open", "closing"}
      BY DEF ClientIInv, ThreadMade, CutOffOnlyByChange
    <3> QED
      BY <3>1, <1>1, <1>5, EnsureInit
  <2> QED
    BY <2>1, <2>2, <1>1, <1>2 DEF ClientIInv, CutOffOnlyByChange
<1>7. OwnImpls'
  <2>1. /\ \A f, g \in Holders : clientImpl'[f] # 0 /\ clientImpl'[f] = clientImpl'[g] => f = g
        /\ \A i \in 1..Len(made), g \in Holders : clientImpl'[g] = i => clientImpl[g] = i
        /\ 1..Len(made) \subseteq 1..Len(made')
    BY <1>1, EnsureInit
  <2> QED
    BY <2>1, <1>2 DEF ClientIInv, OwnImpls
<1>8. ThreadMade'
  BY <1>1, <1>2, <1>5, EnsureInit DEF ClientIInv, ThreadMade
<1> QED
  BY <1>3, <1>4, <1>6, <1>7, <1>8 DEF ClientIInv

LEMMA WriteIInv ==
  ASSUME ClientIInv, NEW h \in Holders, Write(h) PROVE ClientIInv'
<1> DEFINE call == [number |-> placed', holder |-> h, impl |-> clientImpl'[h]]
<1>1. /\ ~InShutdown /\ ~Gone(channel[h]) /\ ensureInit(h)
      /\ placed < MaxPlaced /\ placed' = placed + 1
      /\ IF channel[h] \in Remote
           THEN inFlight' = inFlight \cup {call} /\ UNCHANGED writing
           ELSE writing' = Append(writing, call) /\ UNCHANGED inFlight
      /\ UNCHANGED <<channel, config, changed>>
  BY DEF Write
<1>e. /\ clientImpl' \in [Holders -> 0..Len(made')] /\ live' \subseteq 1..Len(made') /\ live \subseteq live'
      /\ made' \in Seq([channel : Channels, config : Configs]) /\ Len(made') <= MaxImpls
      /\ Len(made) \in Nat /\ Len(made') \in Nat /\ Len(made) <= Len(made') /\ \A i \in 1..Len(made) : made'[i] = made[i]
      /\ queue' \in [Remote -> {"none", "open", "closing", "gone"}]
      /\ \A c \in Remote : queue[c] = "none" \/ queue'[c] = queue[c]
      /\ ImplCurrent' /\ clientImpl'[h] \in 1..Len(made') /\ clientImpl'[h] \in live'
      /\ made'[clientImpl'[h]].channel = channel[h] /\ channel[h] \in Channels
      /\ (channel[h] \in Remote => queue'[channel[h]] = "open")
      /\ \A i \in 1..Len(made') : made'[i].channel \in Remote => queue'[made'[i].channel] # "none"
      /\ \A f, g \in Holders : clientImpl'[f] # 0 /\ clientImpl'[f] = clientImpl'[g] => f = g
      /\ \A i \in 1..Len(made), g \in Holders : clientImpl'[g] = i => clientImpl[g] = i
  BY <1>1, EnsureInit
<1>0. /\ placed \in 0..MaxPlaced /\ MaxPlaced \in Nat /\ MaxImpls \in Nat /\ inFlight \subseteq Call
      /\ writing \in Seq(Call) /\ changed \subseteq 1..MaxPlaced
      /\ channel \in [Holders -> Channels \cup {Unset}] /\ config \in [Holders -> Configs \cup {Unset}]
  BY ClientAssumption DEF ClientIInv, HoldersTypeOK
<1>c. call \in Call /\ call.impl = clientImpl'[h] /\ call.holder = h
  <2>1. placed' \in 1..MaxPlaced
    BY <1>0, <1>1
  <2>2. clientImpl'[h] \in 1..MaxImpls
    BY <1>e, <1>0
  <2> QED
    BY <2>1, <2>2 DEF Call
<1>m. Impls = 1..Len(made) /\ Impls' = 1..Len(made')
  BY <1>e DEF ClientIInv, HoldersTypeOK, Impls
<1>d. inFlight' \subseteq inFlight \cup (IF channel[h] \in Remote THEN {call} ELSE {})
  BY <1>1
<1> HIDE DEF call
<1>w. writing' \in Seq(Call) /\ Open' \subseteq Open \cup {call}
  <2>1. CASE channel[h] \in Remote
    BY <2>1, <1>0, <1>1 DEF Open, call
  <2>2. CASE channel[h] \notin Remote
    <3>1. writing' = Append(writing, call) /\ inFlight' = inFlight
      BY <2>2, <1>1 DEF call
    <3>2. writing' \in Seq(Call) /\ \A i \in DOMAIN writing' : writing'[i] = call \/ (i \in DOMAIN writing /\ writing'[i] = writing[i])
      BY <3>1, <1>0, <1>c
    <3> QED
      BY <3>1, <3>2 DEF Open
  <2> QED
    BY <2>1, <2>2
<1>2. HoldersTypeOK'
  <2>1. placed' \in 0..MaxPlaced
    BY <1>0, <1>1
  <2>2. inFlight' \subseteq Call
    BY <1>0, <1>d, <1>c
  <2>3. channel' \in [Holders -> Channels \cup {Unset}] /\ config' \in [Holders -> Configs \cup {Unset}]
        /\ changed' \subseteq 1..MaxPlaced
    BY <1>0, <1>1
  <2>4. live' \subseteq Impls'
    BY <1>e, <1>m
  <2> QED
    BY <2>1, <2>2, <2>3, <2>4, <1>e, <1>w DEF HoldersTypeOK, Channels, Call
<1>3. \A x \in inFlight : x.impl \in 1..Len(made) /\ made'[x.impl] = made[x.impl]
  BY <1>e, <1>m DEF ClientIInv, OwnImpls, Open
<1>4. CutOffOnlyByChange'
  <2>1. ASSUME NEW x \in Open', x.impl \notin live' PROVE x.number \in changed'
    BY <2>1, <1>1, <1>e, <1>w, <1>c DEF ClientIInv, CutOffOnlyByChange
  <2>2. ASSUME NEW x \in inFlight' PROVE queue'[made'[x.impl].channel] \in {"open", "closing"}
    <3>1. CASE x \in inFlight
      <4>1. made[x.impl].channel \in Remote /\ queue[made[x.impl].channel] \in {"open", "closing"}
        BY <3>1 DEF ClientIInv, ThreadMade, CutOffOnlyByChange
      <4> QED
        BY <4>1, <3>1, <1>3, <1>e
    <3>2. CASE x = call /\ channel[h] \in Remote
      BY <3>2, <1>c, <1>e
    <3> QED
      BY <3>1, <3>2, <1>d
  <2> QED
    BY <2>1, <2>2 DEF CutOffOnlyByChange
<1>5. OwnImpls'
  <2>1. ASSUME NEW x \in Open'
        PROVE  x.impl \in 1..Len(made') /\ \A g \in Holders : clientImpl'[g] = x.impl => x.holder = g
    <3>0. \A f, g \in Holders : clientImpl'[f] # 0 /\ clientImpl'[f] = clientImpl'[g] => f = g
      BY <1>e
    <3>1. CASE x = call
      <4>0. clientImpl'[h] \in 1..Len(made') /\ Len(made') \in Nat
        BY <1>e
      <4>1. x.impl = clientImpl'[h] /\ x.holder = h /\ x.impl \in 1..Len(made') /\ clientImpl'[h] # 0
        BY <3>1, <1>c, <4>0
      <4> QED
        BY <4>1, <3>0
    <3>2. CASE x \in Open
      <4>1. x.impl \in 1..Len(made) /\ \A g \in Holders : clientImpl[g] = x.impl => x.holder = g
        BY <3>2, <1>m DEF ClientIInv, OwnImpls
      <4>2. /\ Len(made) \in Nat /\ Len(made') \in Nat /\ Len(made) <= Len(made')
            /\ \A i \in 1..Len(made), g \in Holders : clientImpl'[g] = i => clientImpl[g] = i
        BY <1>e
      <4> QED
        BY <4>1, <4>2
    <3> QED
      BY <3>1, <3>2, <1>w
  <2> QED
    BY <2>1, <1>e, <1>m DEF OwnImpls
<1>6. ThreadMade'
  <2>1. ASSUME NEW x \in inFlight' PROVE made'[x.impl].channel \in Remote
    <3>1. CASE x \in inFlight
      BY <3>1, <1>3 DEF ClientIInv, ThreadMade
    <3>2. CASE x = call /\ channel[h] \in Remote
      BY <3>2, <1>c, <1>e
    <3> QED
      BY <3>1, <3>2, <1>d
  <2> QED
    BY <2>1, <1>e, <1>m DEF ThreadMade
<1> QED
  BY <1>2, <1>4, <1>5, <1>6, <1>e DEF ClientIInv

\* The end of a write and the last completion of a call only take calls away.
LEMMA CallOver ==
  ASSUME ClientIInv, inFlight' \subseteq inFlight, Open' \subseteq Open, writing' \in Seq(Call),
         UNCHANGED <<channel, config, clientImpl, live, made, queue, placed, changed>>
  PROVE  ClientIInv'
<1>1. Impls' = Impls
  BY DEF Impls
<1>2. HoldersTypeOK' /\ ImplCurrent'
  BY <1>1 DEF ClientIInv, HoldersTypeOK, Call, ImplCurrent
<1>3. CutOffOnlyByChange'
  BY DEF ClientIInv, CutOffOnlyByChange
<1>4. OwnImpls' /\ ThreadMade'
  BY <1>1 DEF ClientIInv, OwnImpls, ThreadMade
<1> QED
  BY <1>2, <1>3, <1>4 DEF ClientIInv

LEMMA ClientReturnIInv ==
  ASSUME ClientIInv, ReturnToWrite PROVE ClientIInv'
<1>1. /\ writing # <<>> /\ writing' = SubSeq(writing, 1, Len(writing) - 1)
      /\ UNCHANGED <<channel, config, clientImpl, live, made, queue, inFlight, placed, changed>>
  BY DEF ReturnToWrite
<1>2. writing \in Seq(Call)
  BY DEF ClientIInv, HoldersTypeOK
<1>3. writing' \in Seq(Call) /\ \A i \in DOMAIN writing' : i \in DOMAIN writing /\ writing'[i] = writing[i]
  BY <1>1, <1>2
<1>4. Open' \subseteq Open
  BY <1>1, <1>3 DEF Open
<1> QED
  BY <1>1, <1>3, <1>4, CallOver

LEMMA CompleteIInv ==
  ASSUME ClientIInv, NEW c \in Remote, Complete(c) PROVE ClientIInv'
<1>1. /\ inFlight' \subseteq inFlight
      /\ UNCHANGED <<channel, config, clientImpl, live, made, queue, writing, placed, changed>>
  BY DEF Complete
<1>2. Open' \subseteq Open /\ writing' \in Seq(Call)
  BY <1>1 DEF Open, ClientIInv, HoldersTypeOK
<1> QED
  BY <1>1, <1>2, CallOver

\* A queue that is shut down or gone was not new, and has no more calls when
\* its thread ends.
LEMMA QueueIInv ==
  ASSUME ClientIInv, NEW c \in Remote, NEW q \in {"closing", "gone"}, queue' = [queue EXCEPT ![c] = q],
         q = "gone" => On(c) = {},
         UNCHANGED <<channel, config, clientImpl, live, made, inFlight, writing, placed, changed>>
  PROVE  ClientIInv'
<1>1. Impls' = Impls /\ Open' = Open
  BY DEF Impls, Open
<1>2. queue \in [Remote -> {"none", "open", "closing", "gone"}]
  BY DEF ClientIInv, HoldersTypeOK
<1>3. queue' \in [Remote -> {"none", "open", "closing", "gone"}] /\ queue'[c] = q /\ \A r \in Remote \ {c} : queue'[r] = queue[r]
  BY <1>2
<1>4. HoldersTypeOK' /\ ImplCurrent'
  BY <1>1, <1>3 DEF ClientIInv, HoldersTypeOK, Call, Channels, ImplCurrent
<1>5. CutOffOnlyByChange'
  <2>1. ASSUME NEW x \in inFlight PROVE queue'[made[x.impl].channel] \in {"open", "closing"}
    <3>1. made[x.impl].channel \in Remote /\ queue[made[x.impl].channel] \in {"open", "closing"}
      BY DEF ClientIInv, ThreadMade, CutOffOnlyByChange
    <3>2. CASE made[x.impl].channel = c
      BY <3>2, <1>3 DEF On
    <3> QED
      BY <3>1, <3>2, <1>3
  <2> QED
    BY <2>1, <1>1 DEF ClientIInv, CutOffOnlyByChange
<1>6. OwnImpls'
  BY <1>1 DEF ClientIInv, OwnImpls
<1>7. ThreadMade'
  BY <1>1, <1>3 DEF ClientIInv, ThreadMade
<1> QED
  BY <1>4, <1>5, <1>6, <1>7 DEF ClientIInv

LEMMA DestroyChannelIInv ==
  ASSUME ClientIInv, NEW c \in Remote, DestroyChannel(c) PROVE ClientIInv'
<1>1. /\ queue' = [queue EXCEPT ![c] = IF queue[c] = "none" THEN "gone" ELSE "closing"]
      /\ UNCHANGED <<channel, config, clientImpl, live, made, inFlight, writing, placed, changed>>
  BY DEF DestroyChannel, callVars
<1>2. queue[c] = "none" => On(c) = {}
  BY DEF On, ClientIInv, CutOffOnlyByChange
<1> QED
  BY <1>1, <1>2, QueueIInv

LEMMA EndThreadIInv ==
  ASSUME ClientIInv, NEW c \in Remote, EndThread(c) PROVE ClientIInv'
<1>1. /\ On(c) = {} /\ queue' = [queue EXCEPT ![c] = "gone"]
      /\ UNCHANGED <<channel, config, clientImpl, live, made, inFlight, writing, placed, changed>>
  BY DEF EndThread, callVars
<1> QED
  BY <1>1, QueueIInv

-----------------------------------------------------------------------------
(* The client's theorems.                                                  *)

\* The inductive invariant: no two holders share an implementation, and a call
\* runs through one that its holder has, or has dropped.
THEOREM ClientInvariance == HoldersSpec => []ClientIInv
<1>1. HoldersInit => ClientIInv
  BY ClientInitIInv
<1>2. ASSUME ClientIInv, [HoldersNext]_(holderVars) PROVE ClientIInv'
  <2>1. CASE UNCHANGED holderVars
    <3>1. UNCHANGED <<channel, config, clientImpl, live, made, queue, inFlight, writing, placed, changed>>
      BY <2>1 DEF holderVars, callVars
    <3>2. Open' = Open /\ writing' \in Seq(Call)
      BY <1>2, <3>1 DEF Open, ClientIInv, HoldersTypeOK
    <3> QED
      BY <1>2, <3>1, <3>2, CallOver
  <2>2. ASSUME NEW h \in Holders, NEW c \in Channels \cup {Unset}, SetChannel(h, c) PROVE ClientIInv'
    BY <1>2, <2>2, SetChannelIInv
  <2>3. ASSUME NEW h \in Holders, NEW x \in Configs \cup {Unset}, SetConfig(h, x) PROVE ClientIInv'
    BY <1>2, <2>3, SetConfigIInv
  <2>4. ASSUME NEW h \in Holders, Write(h) \/ Touch(h) PROVE ClientIInv'
    BY <1>2, <2>4, WriteIInv, TouchIInv
  <2>5. CASE ReturnToWrite
    BY <1>2, <2>5, ClientReturnIInv
  <2>6. ASSUME NEW c \in Remote, DestroyChannel(c) \/ Io(c) PROVE ClientIInv'
    BY <1>2, <2>6, DestroyChannelIInv, CompleteIInv, EndThreadIInv DEF Io
  <2> QED
    BY <1>2, <2>1, <2>2, <2>3, <2>4, <2>5, <2>6 DEF HoldersNext
<1> QED
  BY <1>1, <1>2, PTL DEF HoldersSpec

\* A holder calls through an implementation made for what it is set to, a call
\* has its implementation until a value of its holder is changed, and the IO
\* thread that completes it (deinit and ensureInit of method.h).
THEOREM ImplsSafeAlways == HoldersSpec => []ImplsSafe
<1>1. ClientIInv => ImplsSafe
  BY DEF ClientIInv, ImplsSafe
<1> QED
  BY <1>1, ClientInvariance, PTL

-----------------------------------------------------------------------------
(* A oneof.  OneofAsChosen says nothing of what _fields holds for the      *)
(* current case, on which a copy depends, nor of a oneof whose choice was  *)
(* undefined: Current and Followed do.                                     *)

\* The current case is the one chosen, or gone.
Followed ==
  /\ which \in {chosen, NotSet}
  /\ chosen = NotSet => value = Undefined /\ ~unsure

\* The entry of the current case is the value it was given.
Current ==
  ~unsure =>
    /\ which = chosen
    /\ which # NotSet => held[which] = value /\ value \in Values

OneofIInv == OneofTypeOK /\ Followed /\ Current

\* A new message has no case.
LEMMA OneofInitIInv == OneofInit => OneofIInv
BY OneofAssumption DEF OneofInit, OneofIInv, OneofTypeOK, Followed, Current

\* clear of a case, and the entries it leaves, are well formed.
LEMMA EmptiedType ==
  ASSUME OneofTypeOK, NEW c \in Cases
  PROVE  Emptied(c) \in [Cases -> Values \cup {Undefined}]
BY OneofAssumption DEF OneofTypeOK, Emptied

\* What clear of the whole oneof leaves is well formed.
LEMMA ForgottenType ==
  ASSUME OneofTypeOK
  PROVE  Forgotten \in [Cases -> Values \cup {Undefined}]
<1>1. CASE which \in StringCases \cup MessageCases
  BY <1>1, EmptiedType DEF Forgotten, Cases
<1>2. CASE which \notin StringCases \cup MessageCases
  BY <1>2 DEF Forgotten, OneofTypeOK
<1> QED
  BY <1>1, <1>2

\* Clearing another case than the current one changes nothing that is seen.
LEMMA ClearFieldIInv ==
  ASSUME OneofIInv, NEW c \in Cases, clearField(c)
  PROVE  OneofIInv'
<1> USE OneofAssumption
<1>1. held' = Emptied(c) /\ held' \in [Cases -> Values \cup {Undefined}]
  BY EmptiedType DEF OneofIInv, clearField
<1>2. \A d \in Cases \ {c} : held'[d] = held[d]
  BY <1>1 DEF Emptied, OneofIInv, OneofTypeOK
<1>3. OneofTypeOK'
  BY <1>1 DEF OneofIInv, OneofTypeOK, clearField, Nothing
<1>4. Followed'
  BY DEF OneofIInv, Followed, clearField, Nothing
<1>5. Current'
  BY <1>2 DEF OneofIInv, OneofTypeOK, Followed, Current, clearField, Nothing
<1> QED
  BY <1>3, <1>4, <1>5 DEF OneofIInv

\* Clearing the oneof leaves no case.
LEMMA ClearOneofIInv ==
  ASSUME OneofIInv, clearOneof
  PROVE  OneofIInv'
<1>1. held' \in [Cases -> Values \cup {Undefined}]
  BY ForgottenType DEF OneofIInv, clearOneof
<1> QED
  BY <1>1, OneofAssumption DEF OneofIInv, OneofTypeOK, Followed, Current, clearOneof, Nothing

\* A case that is set is the one to be seen, with its value.
LEMMA SetFieldIInv ==
  ASSUME OneofIInv, NEW c \in Cases, NEW v \in Values \cup {Undefined}, setField(c, v)
  PROVE  OneofIInv'
<1> USE OneofAssumption
<1>1. Converted(c, v) \in Values \cup {Undefined}
  BY DEF Converted
<1>2. /\ held' = [Forgotten EXCEPT ![c] = Converted(c, v)]
      /\ which' = c /\ chosen' = c
      /\ value' = IF v = Undefined THEN Default ELSE v
      /\ unsure' = (v = Undefined)
  BY DEF setField
<1>3. held' \in [Cases -> Values \cup {Undefined}] /\ held'[c] = Converted(c, v)
  BY <1>1, <1>2, ForgottenType DEF OneofIInv
<1>4. OneofTypeOK'
  BY <1>2, <1>3 DEF OneofTypeOK
<1>5. Followed'
  BY <1>2 DEF Followed
<1>6. Current'
  BY <1>2, <1>3 DEF Current, Converted
<1> QED
  BY <1>4, <1>5, <1>6 DEF OneofIInv

\* A new message made of the current case, or of no case.
LEMMA MergedIInv ==
  ASSUME OneofIInv, NEW c \in {which, NotSet}, NEW v \in Values \cup {Undefined}, Merged(c, v),
         UNCHANGED <<chosen, value, unsure>>,
         ~unsure => c = which /\ (c # NotSet => Converted(c, v) = value)
  PROVE  OneofIInv'
<1> USE OneofAssumption
<1>1. Converted(c, v) \in Values \cup {Undefined}
  BY DEF Converted
<1>2. which' = c /\ held' = [x \in Cases |-> IF x = c THEN Converted(c, v) ELSE Undefined]
  BY DEF Merged
<1>3. OneofTypeOK'
  BY <1>1, <1>2 DEF OneofIInv, OneofTypeOK
<1>4. Followed'
  BY <1>2 DEF OneofIInv, Followed
<1>5. Current'
  BY <1>2 DEF OneofIInv, OneofTypeOK, Current
<1> QED
  BY <1>3, <1>4, <1>5 DEF OneofIInv

\* The message is sent: its current case arrives.
LEMMA SentIInv ==
  ASSUME OneofIInv, OneofSent
  PROVE  OneofIInv'
<1> USE OneofAssumption
<1>1. CASE which # NotSet /\ held[which] # Undefined
  <2> DEFINE v == IF which \in MessageCases /\ held[which] = Default THEN Undefined ELSE held[which]
  <2>1. v \in Values \cup {Undefined} /\ Converted(which, v) = held[which]
    BY <1>1 DEF OneofIInv, OneofTypeOK, Converted
  <2>2. Merged(which, v) /\ UNCHANGED <<chosen, value, unsure>>
    BY <1>1 DEF OneofSent
  <2>3. ~unsure => Converted(which, v) = value
    BY <1>1, <2>1 DEF OneofIInv, Current
  <2> HIDE DEF v
  <2> QED
    BY <2>1, <2>2, <2>3, MergedIInv
<1>2. CASE ~(which # NotSet /\ held[which] # Undefined)
  <2>1. Merged(NotSet, Undefined) /\ UNCHANGED <<chosen, value, unsure>>
    BY <1>2 DEF OneofSent
  <2>2. ~unsure => NotSet = which
    BY <1>2 DEF OneofIInv, Current
  <2> QED
    BY <2>1, <2>2, MergedIInv
<1> QED
  BY <1>1, <1>2

\* The message is copied: the entry of the current case is the copy's.
LEMMA CopiedIInv ==
  ASSUME OneofIInv, OneofCopied
  PROVE  OneofIInv'
<1> USE OneofAssumption
<1> DEFINE v == IF which = NotSet THEN Undefined ELSE held[which]
<1>1. v \in Values \cup {Undefined}
  BY DEF OneofIInv, OneofTypeOK
<1>2. Merged(which, v) /\ UNCHANGED <<chosen, value, unsure>>
  BY DEF OneofCopied
<1>3. ~unsure /\ which # NotSet => Converted(which, v) = value
  BY DEF OneofIInv, Current, Converted
<1> HIDE DEF v
<1> QED
  BY <1>1, <1>2, <1>3, MergedIInv

LEMMA OneofNextIInv ==
  ASSUME OneofIInv, OneofNext
  PROVE  OneofIInv'
BY ClearFieldIInv, ClearOneofIInv, SetFieldIInv, SentIInv, CopiedIInv DEF OneofNext

\* The case that is seen is the one chosen, with its value.
LEMMA OneofIsAsChosen ==
  ASSUME OneofIInv
  PROVE  OneofAsChosen
BY OneofAssumption DEF OneofIInv, OneofTypeOK, Followed, Current, OneofAsChosen, getField

-----------------------------------------------------------------------------
(* A repeated field of numbers: beyond its view, a buffer that clear has    *)
(* not left is 0.                                                          *)

NumbersIInv ==
  /\ NumbersTypeOK
  /\ ~spoilt => Len(asked) = length /\ \A i \in 1..length : asked[i] = buffer[i]
  /\ ~cleared => \A i \in (length + 1)..Len(buffer) : buffer[i] = 0

\* A view in a new buffer keeps its elements, the rest is 0.
LEMMA MovedIs ==
  ASSUME NumbersTypeOK, NEW n \in Nat
  PROVE  /\ Moved(n) \in Seq(Numbers) /\ Len(Moved(n)) = n
         /\ \A i \in 1..n : Moved(n)[i] = IF i <= length THEN buffer[i] ELSE 0
<1>1. Moved(n) \in [1..n -> Numbers]
  BY NumbersAssumption DEF Moved, NumbersTypeOK
<1> QED
  BY <1>1 DEF Moved

\* The buffer for n elements: the view stays, and what comes new is 0.
LEMMA GrownIs ==
  ASSUME NumbersTypeOK, NEW n \in Nat
  PROVE  /\ Grown(n) \in Seq(Numbers) /\ Len(Grown(n)) \in Nat
         /\ Len(Grown(n)) >= n /\ Len(Grown(n)) >= Len(buffer)
         /\ \A i \in 1..length : Grown(n)[i] = buffer[i]
         /\ IF Len(buffer) < n
              THEN Len(Grown(n)) > Len(buffer) /\ \A i \in (length + 1)..Len(Grown(n)) : Grown(n)[i] = 0
              ELSE Grown(n) = buffer
<1> DEFINE m == Larger(2 * Len(buffer), n)
<1>1. Len(buffer) \in Nat /\ length \in Nat /\ length <= Len(buffer)
  BY NumbersAssumption DEF NumbersTypeOK
<1>2. CASE Len(buffer) < n
  <2>1. m \in Nat /\ m >= n /\ m > Len(buffer)
    BY <1>1, <1>2 DEF Larger
  <2>2. Grown(n) = Moved(m)
    BY <1>2 DEF Grown
  <2> HIDE DEF m
  <2>3. Grown(n) \in Seq(Numbers) /\ Len(Grown(n)) = m
        /\ \A i \in 1..m : Grown(n)[i] = IF i <= length THEN buffer[i] ELSE 0
    BY <2>1, <2>2, MovedIs
  <2> QED
    BY <1>1, <1>2, <2>1, <2>3
<1>3. CASE ~(Len(buffer) < n)
  BY <1>1, <1>3 DEF Grown, NumbersTypeOK
<1> QED
  BY <1>2, <1>3

\* What a step must show: the new buffer and view, and the array asked for.
LEMMA NumbersStep ==
  ASSUME NumbersIInv, NEW contents \in Seq(Numbers), NEW n \in 0..MaxLen, n <= Len(contents),
         Becomes(contents, n), spoilt' \in BOOLEAN, asked' \in Seq(Numbers),
         ~spoilt' => Len(asked') = n /\ \A i \in 1..n : asked'[i] = contents[i],
         ~cleared \/ Len(contents) # Len(buffer) => \A i \in (n + 1)..Len(contents) : contents[i] = 0
  PROVE  NumbersIInv'
<1>1. buffer' = contents /\ length' = n /\ cleared' = (cleared /\ Len(contents) = Len(buffer))
  BY DEF Becomes
<1>2. cleared' \in BOOLEAN
  BY <1>1 DEF NumbersIInv, NumbersTypeOK
<1>3. NumbersTypeOK'
  BY <1>1, <1>2 DEF NumbersTypeOK
<1>4. ~spoilt' => Len(asked') = length' /\ \A i \in 1..length' : asked'[i] = buffer'[i]
  BY <1>1
<1>5. ~cleared' => \A i \in (length' + 1)..Len(buffer') : buffer'[i] = 0
  BY <1>1
<1> QED
  BY <1>3, <1>4, <1>5 DEF NumbersIInv

\* The facts about the state before a step.
LEMMA NumbersFacts ==
  ASSUME NumbersIInv
  PROVE  /\ MaxLen \in Nat /\ 0 \in Numbers
         /\ buffer \in Seq(Numbers) /\ asked \in Seq(Numbers)
         /\ length \in 0..MaxLen /\ length <= Len(buffer) /\ Len(buffer) \in Nat
         /\ cleared \in BOOLEAN /\ spoilt \in BOOLEAN
         /\ ~spoilt => Len(asked) = length /\ \A i \in 1..length : asked[i] = buffer[i]
         /\ ~cleared => \A i \in (length + 1)..Len(buffer) : buffer[i] = 0
BY NumbersAssumption DEF NumbersIInv, NumbersTypeOK

LEMMA AddIInv ==
  ASSUME NumbersIInv, NEW v \in Numbers, add(v)
  PROVE  NumbersIInv'
<1> DEFINE n == length + 1
           g == Grown(n)
           contents == [g EXCEPT ![n] = v]
<1>1. n \in 1..MaxLen /\ Becomes(contents, n) /\ spoilt' = spoilt
      /\ asked' = IF spoilt' THEN <<>> ELSE Append(asked, v)
  BY NumbersFacts DEF add, Ask
<1>2. /\ g \in Seq(Numbers) /\ Len(g) \in Nat /\ Len(g) >= n
      /\ \A i \in 1..length : g[i] = buffer[i]
      /\ IF Len(buffer) < n
           THEN Len(g) > Len(buffer) /\ \A i \in (length + 1)..Len(g) : g[i] = 0
           ELSE g = buffer
  <2>1. n \in Nat /\ NumbersTypeOK
    BY <1>1, NumbersFacts DEF NumbersIInv
  <2> HIDE DEF n
  <2>2. /\ g \in Seq(Numbers) /\ Len(g) \in Nat /\ Len(g) >= n
        /\ \A i \in 1..length : g[i] = buffer[i]
        /\ IF Len(buffer) < n
             THEN Len(g) > Len(buffer) /\ \A i \in (length + 1)..Len(g) : g[i] = 0
             ELSE g = buffer
    BY <2>1, GrownIs
  <2> QED
    BY <2>2
<1> HIDE DEF g
<1>3. contents \in Seq(Numbers) /\ Len(contents) = Len(g) /\ contents[n] = v
      /\ \A i \in 1..Len(g) : i # n => contents[i] = g[i]
  BY <1>1, <1>2
<1> HIDE DEF contents
<1>4. asked' \in Seq(Numbers) /\ spoilt' \in BOOLEAN
  BY <1>1, NumbersFacts
<1>5. ~spoilt' => Len(asked') = n /\ \A i \in 1..n : asked'[i] = contents[i]
  <2>1. ~spoilt' => /\ asked' = Append(asked, v) /\ asked \in Seq(Numbers) /\ Len(asked) = length
                    /\ \A i \in 1..length : asked[i] = buffer[i]
    BY <1>1, NumbersFacts
  <2>2. length \in Nat
    BY NumbersFacts
  <2>3. ~spoilt' => Len(asked') = n /\ asked'[n] = v /\ \A i \in 1..length : asked'[i] = buffer[i]
    BY <2>1, <2>2
  <2> QED
    BY <1>1, <1>2, <1>3, <2>2, <2>3
<1>6. ~cleared \/ Len(contents) # Len(buffer) => \A i \in (n + 1)..Len(contents) : contents[i] = 0
  BY <1>1, <1>2, <1>3, NumbersFacts
<1> HIDE DEF n
<1> QED
  BY <1>1, <1>2, <1>3, <1>4, <1>5, <1>6, NumbersStep

\* Where the new array is the longer one, nothing is left of the old one.
LEMMA SetIInv ==
  ASSUME NumbersIInv, NEW values \in Arrays, set(values)
  PROVE  NumbersIInv'
<1> DEFINE n == Len(values)
           old == Grown(n)
           m == Larger(n, length)
           contents == [i \in DOMAIN old |-> IF i <= n THEN values[i] ELSE old[i]]
<1>1. values \in Seq(Numbers) /\ n \in 0..MaxLen
  BY NumbersAssumption DEF Arrays
<1>2. Becomes(contents, m) /\ spoilt' = (n < length) /\ asked' = IF spoilt' THEN <<>> ELSE values
  BY DEF set, Ask
<1>3. /\ old \in Seq(Numbers) /\ Len(old) \in Nat /\ Len(old) >= n /\ Len(old) >= Len(buffer)
      /\ \A i \in 1..length : old[i] = buffer[i]
      /\ IF Len(buffer) < n
           THEN Len(old) > Len(buffer) /\ \A i \in (length + 1)..Len(old) : old[i] = 0
           ELSE old = buffer
  <2>1. n \in Nat /\ NumbersTypeOK
    BY <1>1, NumbersFacts DEF NumbersIInv
  <2> HIDE DEF n
  <2> QED
    BY <2>1, GrownIs
<1>4. m \in 0..MaxLen /\ m >= n /\ m >= length /\ (m = n \/ m = length) /\ m <= Len(old)
  BY <1>1, <1>3, NumbersFacts DEF Larger
<1> HIDE DEF old, m
<1>5. contents \in [1..Len(old) -> Numbers]
  BY <1>1, <1>3
<1>6. contents \in Seq(Numbers) /\ Len(contents) = Len(old)
      /\ \A i \in 1..Len(old) : contents[i] = IF i <= n THEN values[i] ELSE old[i]
  BY <1>3, <1>5
<1> HIDE DEF contents
<1>7. asked' \in Seq(Numbers) /\ spoilt' \in BOOLEAN
  BY <1>1, <1>2
<1>8. ~spoilt' => Len(asked') = m /\ \A i \in 1..m : asked'[i] = contents[i]
  <2>1. ~spoilt' => asked' = values /\ ~(n < length)
    BY <1>2
  <2>2. ~(n < length) => m = n
    BY <1>1, <1>4, NumbersFacts
  <2> QED
    BY <1>1, <1>3, <1>4, <1>6, <2>1, <2>2
<1>9. ~cleared \/ Len(contents) # Len(buffer) => \A i \in (m + 1)..Len(contents) : contents[i] = 0
  <2>1. ~cleared \/ Len(contents) # Len(buffer) => \A i \in (length + 1)..Len(old) : old[i] = 0
    BY <1>3, <1>6, NumbersFacts
  <2> QED
    BY <1>1, <1>3, <1>4, <1>6, <2>1, NumbersFacts
<1> QED
  BY <1>2, <1>4, <1>6, <1>3, <1>7, <1>8, <1>9, NumbersStep

LEMMA SetAtIInv ==
  ASSUME NumbersIInv, NEW i \in 1..MaxLen, NEW v \in Numbers, setAt(i, v)
  PROVE  NumbersIInv'
<1> DEFINE contents == [buffer EXCEPT ![i] = v]
<1>1. i <= length /\ Becomes(contents, length) /\ spoilt' = spoilt
      /\ asked' = IF spoilt THEN <<>> ELSE [asked EXCEPT ![i] = v]
  BY DEF setAt
<1>2. contents \in Seq(Numbers) /\ Len(contents) = Len(buffer)
      /\ \A j \in 1..Len(buffer) : contents[j] = IF j = i THEN v ELSE buffer[j]
  <2>1. buffer \in Seq(Numbers) /\ Len(buffer) \in Nat /\ i \in 1..Len(buffer)
    BY <1>1, NumbersFacts
  <2>2. contents \in [1..Len(buffer) -> Numbers]
    BY <2>1
  <2> QED
    BY <2>1, <2>2
<1> HIDE DEF contents
<1>3. asked' \in Seq(Numbers)
      /\ (~spoilt' => Len(asked') = length /\ \A j \in 1..length : asked'[j] = contents[j])
  BY <1>1, <1>2, NumbersFacts
<1>4. ~cleared \/ Len(contents) # Len(buffer) => \A j \in (length + 1)..Len(contents) : contents[j] = 0
  BY <1>1, <1>2, NumbersFacts
<1> QED
  BY <1>1, <1>2, <1>3, <1>4, NumbersFacts, NumbersStep

\* What resize uncovers is 0 unless clear left it there.
LEMMA ResizeIInv ==
  ASSUME NumbersIInv, NEW n \in 0..MaxLen, resize(n)
  PROVE  NumbersIInv'
<1> DEFINE g == Grown(n)
           m == Larger(n, length)
           array == [i \in 1..m |-> IF i <= length THEN asked[i] ELSE 0]
<1>1. Becomes(g, m) /\ spoilt' = (spoilt \/ (cleared /\ length < n /\ n <= Len(buffer)))
      /\ asked' = IF spoilt' THEN <<>> ELSE array
  BY DEF resize, Ask
<1>2. /\ g \in Seq(Numbers) /\ Len(g) \in Nat /\ Len(g) >= n /\ Len(g) >= Len(buffer)
      /\ \A i \in 1..length : g[i] = buffer[i]
      /\ IF Len(buffer) < n
           THEN Len(g) > Len(buffer) /\ \A i \in (length + 1)..Len(g) : g[i] = 0
           ELSE g = buffer
  <2>1. n \in Nat /\ NumbersTypeOK
    BY NumbersFacts DEF NumbersIInv
  <2> QED
    BY <2>1, GrownIs
<1>3. m \in 0..MaxLen /\ m >= n /\ m >= length /\ (m = n \/ m = length) /\ m <= Len(g)
  BY <1>2, NumbersFacts DEF Larger
<1> HIDE DEF g, m
<1>4. ~spoilt' => array \in [1..m -> Numbers]
  BY <1>1, <1>3, NumbersFacts
<1>5. ~spoilt' => array \in Seq(Numbers) /\ Len(array) = m
      /\ \A i \in 1..m : array[i] = IF i <= length THEN asked[i] ELSE 0
  BY <1>3, <1>4
<1> HIDE DEF array
<1>6. asked' \in Seq(Numbers) /\ spoilt' \in BOOLEAN
  BY <1>1, <1>5, NumbersFacts
<1>7. ~spoilt' => \A i \in (length + 1)..m : g[i] = 0
  BY <1>1, <1>2, <1>3, NumbersFacts
<1>8. ~spoilt' => Len(asked') = m /\ \A i \in 1..m : asked'[i] = g[i]
  BY <1>1, <1>2, <1>3, <1>5, <1>7, NumbersFacts
<1>9. ~cleared \/ Len(g) # Len(buffer) => \A i \in (m + 1)..Len(g) : g[i] = 0
  BY <1>2, <1>3, NumbersFacts
<1> QED
  BY <1>1, <1>2, <1>3, <1>6, <1>8, <1>9, NumbersStep

LEMMA ReserveIInv ==
  ASSUME NumbersIInv, NEW n \in 0..MaxLen, reserve(n)
  PROVE  NumbersIInv'
<1> DEFINE g == Moved(n)
<1>1. Len(buffer) < n /\ Becomes(g, length) /\ asked' = asked /\ spoilt' = spoilt
  BY DEF reserve
<1>2. g \in Seq(Numbers) /\ Len(g) = n /\ \A i \in 1..n : g[i] = IF i <= length THEN buffer[i] ELSE 0
  BY NumbersFacts, MovedIs DEF NumbersIInv
<1> HIDE DEF g
<1>3. /\ ~spoilt' => Len(asked') = length /\ \A i \in 1..length : asked'[i] = g[i]
      /\ \A i \in (length + 1)..Len(g) : g[i] = 0
  BY <1>1, <1>2, NumbersFacts
<1> QED
  BY <1>1, <1>2, <1>3, NumbersFacts, NumbersStep

LEMMA ClearIInv ==
  ASSUME NumbersIInv, clear
  PROVE  NumbersIInv'
<1>1. length' = 0 /\ buffer' = buffer /\ asked' = <<>> /\ cleared' = TRUE /\ spoilt' = FALSE
  BY DEF clear
<1>2. cleared' \in BOOLEAN /\ spoilt' \in BOOLEAN
  BY <1>1
<1>3. Len(asked') = 0 /\ asked' \in Seq(Numbers) /\ 0 \in 0..MaxLen /\ 0 <= Len(buffer)
  BY <1>1, NumbersFacts
<1>4. NumbersTypeOK'
  BY <1>1, <1>2, <1>3, NumbersFacts DEF NumbersTypeOK
<1> QED
  BY <1>1, <1>3, <1>4 DEF NumbersIInv

\* The copy is the view.
LEMMA NumbersCopiedIInv ==
  ASSUME NumbersIInv, NumbersCopied
  PROVE  NumbersIInv'
<1>1. View \in Seq(Numbers) /\ Len(View) = length /\ \A i \in 1..length : View[i] = buffer[i]
  BY NumbersFacts DEF View
<1>2. buffer' = View /\ length' = length /\ cleared' = FALSE /\ asked' = asked /\ spoilt' = spoilt
  BY <1>1 DEF NumbersCopied, NumbersWire
<1>3. cleared' \in BOOLEAN /\ spoilt' \in BOOLEAN
  BY <1>2, NumbersFacts
<1>4. NumbersTypeOK'
  BY <1>1, <1>2, <1>3, NumbersFacts DEF NumbersTypeOK
<1> QED
  BY <1>1, <1>2, <1>4, NumbersFacts DEF NumbersIInv

LEMMA NumbersInitIInv == NumbersInit => NumbersIInv
<1> SUFFICES ASSUME NumbersInit PROVE NumbersIInv
  OBVIOUS
<1>1. cleared \in BOOLEAN /\ spoilt \in BOOLEAN
  BY DEF NumbersInit
<1>2. buffer = <<>> /\ asked = <<>> /\ length = 0 /\ 0 \in 0..MaxLen
  BY NumbersAssumption DEF NumbersInit
<1>3. Len(buffer) = 0 /\ Len(asked) = 0 /\ buffer \in Seq(Numbers) /\ asked \in Seq(Numbers)
  BY <1>2
<1>4. NumbersTypeOK
  BY <1>1, <1>2, <1>3 DEF NumbersTypeOK
<1> QED
  BY <1>2, <1>3, <1>4 DEF NumbersIInv

LEMMA NumbersNextIInv ==
  ASSUME NumbersIInv, NumbersNext
  PROVE  NumbersIInv'
BY AddIInv, SetIInv, SetAtIInv, ResizeIInv, ReserveIInv, ClearIInv, NumbersCopiedIInv DEF NumbersNext

\* The view is what was asked for.
LEMMA NumbersAreAsked ==
  ASSUME NumbersIInv
  PROVE  NumbersTypeOK /\ NumbersAsAsked
<1>1. View \in Seq(Numbers) /\ Len(View) = length /\ \A i \in 1..length : View[i] = buffer[i]
  BY NumbersFacts DEF View
<1>2. ~spoilt => View = asked
  BY <1>1, NumbersFacts
<1> QED
  BY <1>2 DEF NumbersIInv, NumbersAsAsked

-----------------------------------------------------------------------------
(* A repeated field of messages: both arrays name the same objects, which  *)
(* hold what is wanted.                                                    *)

\* What the elements of the field hold.
Holding(array) ==
  \A i \in 1..Len(array) : wanted[i] = IF array[i] = Hole THEN Hole ELSE body[array[i]]

MessagesIInv ==
  /\ names \in Seq(Objects \cup {Hole}) /\ raws = names
  /\ body \in [Objects -> Bodies]
  /\ wanted \in Seq(Bodies \cup {Hole}) /\ Len(wanted) = Len(names)
  /\ Holding(names)

\* The two arrays show what the program put there.
LEMMA MessagesAreAsPut ==
  ASSUME MessagesIInv
  PROVE  MessagesAsPut
<1> DEFINE inside(array) == [i \in DOMAIN array |-> IF array[i] = Hole THEN Hole ELSE body[array[i]]]
<1>1. names \in Seq(Objects \cup {Hole}) /\ wanted \in Seq(Bodies \cup {Hole}) /\ Len(wanted) = Len(names)
      /\ raws = names /\ \A i \in 1..Len(names) : wanted[i] = IF names[i] = Hole THEN Hole ELSE body[names[i]]
  BY DEF MessagesIInv, Holding
<1>2. DOMAIN names = 1..Len(names) /\ DOMAIN wanted = 1..Len(names)
      /\ wanted = [i \in 1..Len(names) |-> wanted[i]]
  BY <1>1
<1>3. inside(names) = wanted
  BY <1>1, <1>2
<1> QED
  BY <1>1, <1>3 DEF MessagesAsPut

\* To set the content of an object that is given changes nothing elsewhere.
LEMMA PutGiven ==
  ASSUME MessagesIInv, NEW o \in Objects, NEW c \in Bodies, Given(o, c), Put(o, c)
  PROVE  /\ body' \in [Objects -> Bodies] /\ body'[o] = c
         /\ \A i \in 1..Len(names) : names[i] # Hole => body'[names[i]] = body[names[i]]
<1>1. body \in [Objects -> Bodies] /\ body' = [body EXCEPT ![o] = c]
  BY DEF MessagesIInv, Put
<1>2. \A i \in 1..Len(names) : names[i] = o /\ names[i] # Hole => body[o] = c
  BY DEF Given, InUse
<1>3. \A i \in 1..Len(names) : names[i] # Hole => names[i] \in Objects
  BY DEF MessagesIInv
<1> QED
  BY <1>1, <1>2, <1>3

LEMMA AddMessageIInv ==
  ASSUME MessagesIInv, NEW o \in Objects, NEW c \in Bodies, addMessage(o, c)
  PROVE  MessagesIInv'
<1>1. /\ names' = Append(names, o) /\ raws' = Append(raws, o) /\ wanted' = Append(wanted, c)
      /\ names \in Seq(Objects \cup {Hole}) /\ raws = names
      /\ wanted \in Seq(Bodies \cup {Hole}) /\ Len(wanted) = Len(names)
      /\ o # Hole
  BY MessagesAssumption DEF addMessage, MessagesIInv
<1>2. /\ body' \in [Objects -> Bodies] /\ body'[o] = c
      /\ \A i \in 1..Len(names) : names[i] # Hole => body'[names[i]] = body[names[i]]
  BY PutGiven DEF addMessage
<1>3. names' \in Seq(Objects \cup {Hole}) /\ raws' = names' /\ wanted' \in Seq(Bodies \cup {Hole})
      /\ Len(names') = Len(names) + 1 /\ Len(wanted') = Len(names') /\ Len(names) \in Nat
  BY <1>1
<1>4. Holding(names)'
  <2>1. ASSUME NEW i \in 1..Len(names')
        PROVE  wanted'[i] = IF names'[i] = Hole THEN Hole ELSE body'[names'[i]]
    <3>1. CASE i \in 1..Len(names)
      <4>1. names'[i] = names[i] /\ wanted'[i] = wanted[i]
        BY <1>1, <3>1
      <4>2. wanted[i] = IF names[i] = Hole THEN Hole ELSE body[names[i]]
        BY <3>1 DEF MessagesIInv, Holding
      <4> QED
        BY <1>2, <3>1, <4>1, <4>2
    <3>2. CASE i = Len(names) + 1
      <4>1. names'[i] = o /\ wanted'[i] = c
        BY <1>1, <3>2
      <4> QED
        BY <1>1, <1>2, <4>1
    <3> QED
      BY <1>3, <3>1, <3>2
  <2> QED
    BY <2>1 DEF Holding
<1> QED
  BY <1>2, <1>3, <1>4 DEF MessagesIInv

LEMMA SetMessageAtIInv ==
  ASSUME MessagesIInv, NEW i \in 1..MaxMessages, NEW o \in Objects, NEW c \in Bodies, setMessageAt(i, o, c)
  PROVE  MessagesIInv'
<1> DEFINE n == IF i > Len(names) THEN i ELSE Len(names)
<1>1. /\ names' = Extended(names, i, o, Hole) /\ raws' = Extended(raws, i, o, Hole)
      /\ wanted' = Extended(wanted, i, c, Hole)
      /\ names \in Seq(Objects \cup {Hole}) /\ raws = names
      /\ wanted \in Seq(Bodies \cup {Hole}) /\ Len(wanted) = Len(names) /\ Len(names) \in Nat
      /\ o # Hole /\ i \in Nat \ {0}
  BY MessagesAssumption DEF setMessageAt, MessagesIInv
<1>2. /\ body' \in [Objects -> Bodies] /\ body'[o] = c
      /\ \A j \in 1..Len(names) : names[j] # Hole => body'[names[j]] = body[names[j]]
  BY PutGiven DEF setMessageAt
<1>3. /\ names' \in Seq(Objects \cup {Hole}) /\ Len(names') = n /\ names'[i] = o
      /\ \A j \in 1..Len(names) : j # i => names'[j] = names[j]
      /\ \A j \in 1..n : j # i /\ j > Len(names) => names'[j] = Hole
  <2>1. names' = [j \in 1..n |-> IF j = i THEN o ELSE IF j <= Len(names) THEN names[j] ELSE Hole]
    BY <1>1 DEF Extended
  <2>2. n \in Nat /\ i \in 1..n /\ 1..Len(names) \subseteq 1..n
    BY <1>1
  <2> HIDE DEF n
  <2>3. names' \in [1..n -> Objects \cup {Hole}]
    BY <1>1, <2>1, <2>2
  <2>4. names' \in Seq(Objects \cup {Hole}) /\ Len(names') = n
    BY <2>2, <2>3
  <2> QED
    BY <1>1, <2>1, <2>2, <2>4
<1>4. /\ wanted' \in Seq(Bodies \cup {Hole}) /\ Len(wanted') = n /\ wanted'[i] = c
      /\ \A j \in 1..Len(wanted) : j # i => wanted'[j] = wanted[j]
      /\ \A j \in 1..n : j # i /\ j > Len(wanted) => wanted'[j] = Hole
  <2>1. wanted' = [j \in 1..n |-> IF j = i THEN c ELSE IF j <= Len(wanted) THEN wanted[j] ELSE Hole]
    BY <1>1 DEF Extended
  <2>2. n \in Nat /\ i \in 1..n /\ 1..Len(wanted) \subseteq 1..n
    BY <1>1
  <2> HIDE DEF n
  <2>3. wanted' \in [1..n -> Bodies \cup {Hole}]
    BY <1>1, <2>1, <2>2
  <2>4. wanted' \in Seq(Bodies \cup {Hole}) /\ Len(wanted') = n
    BY <2>2, <2>3
  <2> QED
    BY <1>1, <2>1, <2>2, <2>4
<1> HIDE DEF n
<1>5. Holding(names)'
  <2>1. ASSUME NEW j \in 1..n
        PROVE  wanted'[j] = IF names'[j] = Hole THEN Hole ELSE body'[names'[j]]
    <3>1. CASE j = i
      <4>1. names'[j] = o /\ wanted'[j] = c
        BY <1>3, <1>4, <3>1
      <4> QED
        BY <1>1, <1>2, <4>1
    <3>2. CASE j # i /\ j <= Len(names)
      <4>0. j \in 1..Len(names)
        BY <1>1, <3>2
      <4>1. j \in 1..Len(names) /\ names'[j] = names[j] /\ wanted'[j] = wanted[j]
        <5>1. names'[j] = names[j]
          BY <1>3, <3>2, <4>0
        <5>2. wanted'[j] = wanted[j]
          <6>1. Len(wanted) = Len(names)
            BY <1>1
          <6>2. j \in 1..Len(wanted) /\ j # i
            BY <3>2, <4>0, <6>1
          <6> QED
            BY <1>4, <6>2
        <5> QED
          BY <4>0, <5>1, <5>2
      <4>2. wanted[j] = IF names[j] = Hole THEN Hole ELSE body[names[j]]
        BY <4>1 DEF MessagesIInv, Holding
      <4> QED
        BY <1>2, <4>1, <4>2
    <3>3. CASE j # i /\ ~(j <= Len(names))
      BY <1>1, <1>3, <1>4, <3>3
    <3> QED
      BY <3>1, <3>2, <3>3
  <2> QED
    BY <1>3, <2>1 DEF Holding
<1>6. raws' = names'
  BY <1>1
<1> QED
  BY <1>2, <1>3, <1>4, <1>5, <1>6 DEF MessagesIInv

\* A field of new objects, each with its content.
LEMMA RenewedIs ==
  ASSUME MessagesIInv, NEW n \in Nat, NEW cs \in [1..n -> Bodies], Renewed(cs)
  PROVE  /\ names' \in Seq(Objects) /\ Len(names') = n /\ raws' = names'
         /\ body' \in [Objects -> Bodies]
         /\ \A i \in 1..n : names'[i] \in Objects /\ body'[names'[i]] = cs[i]
<1>0. cs \in Seq(Bodies) /\ Len(cs) = n
  OBVIOUS
<1>1. PICK os \in [1..n -> Objects] :
        /\ \A i, j \in 1..n : i # j => os[i] # os[j]
        /\ names' = os /\ raws' = os
        /\ body' = [o \in Objects |->
             IF \E i \in 1..n : os[i] = o THEN cs[CHOOSE i \in 1..n : os[i] = o] ELSE body[o]]
  BY <1>0 DEF Renewed
<1>2. ASSUME NEW o \in Objects, NEW i \in 1..n, os[i] = o
      PROVE  (CHOOSE j \in 1..n : os[j] = o) = i
  <2>1. (CHOOSE j \in 1..n : os[j] = o) \in 1..n /\ os[CHOOSE j \in 1..n : os[j] = o] = o
    BY <1>2
  <2> QED
    BY <2>1, <1>1, <1>2
<1>3. ASSUME NEW o \in Objects
      PROVE  body'[o] = IF \E i \in 1..n : os[i] = o THEN cs[CHOOSE i \in 1..n : os[i] = o] ELSE body[o]
  BY <1>1
<1>4. ASSUME NEW i \in 1..n
      PROVE  os[i] \in Objects /\ body'[os[i]] = cs[i]
  <2>1. os[i] \in Objects
    OBVIOUS
  <2>2. (CHOOSE j \in 1..n : os[j] = os[i]) = i
    BY <1>2, <2>1
  <2> QED
    BY <1>3, <2>1, <2>2
<1>5. body' \in [Objects -> Bodies]
  <2>1. ASSUME NEW o \in Objects
        PROVE  body'[o] \in Bodies
    <3>1. CASE \E i \in 1..n : os[i] = o
      <4>1. PICK i \in 1..n : os[i] = o
        BY <3>1
      <4> QED
        BY <1>4, <4>1
    <3>2. CASE ~ \E i \in 1..n : os[i] = o
      BY <1>3, <3>2 DEF MessagesIInv
    <3> QED
      BY <3>1, <3>2
  <2>2. body' = [o \in Objects |-> body'[o]]
    BY <1>1
  <2> QED
    BY <2>1, <2>2
<1>6. os \in Seq(Objects) /\ Len(os) = n
  OBVIOUS
<1> QED
  BY <1>1, <1>4, <1>5, <1>6

\* New objects that hold what the program wants.
LEMMA RenewedIInv ==
  ASSUME MessagesIInv, NEW n \in Nat, NEW cs \in [1..n -> Bodies], Renewed(cs), wanted' = cs
  PROVE  MessagesIInv'
<1>1. /\ names' \in Seq(Objects) /\ Len(names') = n /\ raws' = names'
      /\ body' \in [Objects -> Bodies]
      /\ \A i \in 1..n : names'[i] \in Objects /\ body'[names'[i]] = cs[i]
  BY RenewedIs
<1>2. Hole \notin Objects
  BY MessagesAssumption
<1>3. wanted' \in Seq(Bodies \cup {Hole}) /\ Len(wanted') = n
  OBVIOUS
<1>4. names' \in Seq(Objects \cup {Hole})
  BY <1>1
<1>5. Holding(names)'
  BY <1>1, <1>2 DEF Holding
<1> QED
  BY <1>1, <1>3, <1>4, <1>5 DEF MessagesIInv

\* A sequence without its i-th element.
LEMMA RemoveAtIs ==
  ASSUME NEW S, NEW s \in Seq(S), NEW i \in 1..Len(s)
  PROVE  /\ RemoveAt(s, i) \in Seq(S) /\ Len(RemoveAt(s, i)) = Len(s) - 1
         /\ \A j \in 1..(Len(s) - 1) : RemoveAt(s, i)[j] = IF j < i THEN s[j] ELSE s[j + 1]
<1> DEFINE n == Len(s)
           a == SubSeq(s, 1, i - 1)
           b == SubSeq(s, i + 1, n)
           r == RemoveAt(s, i)
<1>0. n \in Nat /\ i \in 1..n
  OBVIOUS
<1>1. a \in Seq(S) /\ Len(a) = i - 1 /\ \A j \in 1..(i - 1) : a[j] = s[j]
  OBVIOUS
<1>2. b \in Seq(S) /\ Len(b) = n - i /\ \A j \in 1..(n - i) : b[j] = s[j + i]
  OBVIOUS
<1>3. r = a \o b
  BY DEF RemoveAt
<1> HIDE DEF a, b, r, n
<1>4. a \o b \in Seq(S)
  BY <1>1, <1>2
<1>5. Len(a \o b) = Len(a) + Len(b)
  <2>1. a \in Seq(S) /\ b \in Seq(S)
    BY <1>1, <1>2
  <2> QED
    BY <2>1
<1>6. Len(r) = n - 1
  BY <1>0, <1>1, <1>2, <1>3, <1>5
<1>7. \A j \in 1..(i - 1) : r[j] = s[j]
  BY <1>0, <1>1, <1>2, <1>3
<1>8. ASSUME NEW j \in i..(n - 1)
      PROVE  r[j] = s[j + 1]
  <2>1. r[j] = b[j - (i - 1)]
    BY <1>0, <1>1, <1>2, <1>3
  <2>2. j - (i - 1) \in 1..(n - i) /\ (j - (i - 1)) + i = j + 1
    BY <1>0
  <2> QED
    BY <1>2, <2>1, <2>2
<1>9. \A j \in 1..(n - 1) : r[j] = IF j < i THEN s[j] ELSE s[j + 1]
  BY <1>0, <1>7, <1>8
<1> QED
  BY <1>3, <1>4, <1>6, <1>9 DEF r, n

LEMMA RemoveMessageIInv ==
  ASSUME MessagesIInv, NEW i \in 1..MaxMessages, removeMessage(i)
  PROVE  MessagesIInv'
<1> DEFINE n == Len(names)
<1>1. /\ names \in Seq(Objects \cup {Hole}) /\ wanted \in Seq(Bodies \cup {Hole})
      /\ raws = names /\ Len(wanted) = n /\ n \in Nat /\ i \in 1..n /\ body' = body
      /\ names' = RemoveAt(names, i) /\ wanted' = RemoveAt(wanted, i) /\ raws' = names'
  BY DEF removeMessage, MessagesIInv
<1>3. /\ names' \in Seq(Objects \cup {Hole}) /\ Len(names') = n - 1
      /\ \A j \in 1..(n - 1) : names'[j] = IF j < i THEN names[j] ELSE names[j + 1]
  BY <1>1, RemoveAtIs
<1>4. /\ wanted' \in Seq(Bodies \cup {Hole}) /\ Len(wanted') = n - 1
      /\ \A j \in 1..(n - 1) : wanted'[j] = IF j < i THEN wanted[j] ELSE wanted[j + 1]
  <2>1. i \in 1..Len(wanted)
    BY <1>1
  <2>2. /\ RemoveAt(wanted, i) \in Seq(Bodies \cup {Hole}) /\ Len(RemoveAt(wanted, i)) = Len(wanted) - 1
        /\ \A j \in 1..(Len(wanted) - 1) : RemoveAt(wanted, i)[j] = IF j < i THEN wanted[j] ELSE wanted[j + 1]
    BY <1>1, <2>1, RemoveAtIs
  <2> QED
    BY <1>1, <2>2
<1> HIDE DEF n
<1>5. Holding(names)'
  <2>1. ASSUME NEW j \in 1..(n - 1)
        PROVE  wanted'[j] = IF names'[j] = Hole THEN Hole ELSE body'[names'[j]]
    <3>1. \A k \in 1..n : wanted[k] = IF names[k] = Hole THEN Hole ELSE body[names[k]]
      BY DEF MessagesIInv, Holding, n
    <3>2. j \in 1..n /\ j + 1 \in 1..n
      BY <1>1
    <3> QED
      BY <1>1, <1>3, <1>4, <3>1, <3>2
  <2> QED
    BY <1>3, <2>1 DEF Holding
<1> QED
  BY <1>1, <1>3, <1>4, <1>5 DEF MessagesIInv

LEMMA ClearMessagesIInv ==
  ASSUME MessagesIInv, clearMessages
  PROVE  MessagesIInv'
BY DEF clearMessages, MessagesIInv, Holding

\* A message that is in the field twice changes at both places.
LEMMA MutateIInv ==
  ASSUME MessagesIInv, NEW i \in 1..MaxMessages, NEW c \in Bodies, Mutate(i, c)
  PROVE  MessagesIInv'
<1>1. /\ names \in Seq(Objects \cup {Hole}) /\ raws = names /\ names' = names /\ raws' = raws
      /\ wanted \in Seq(Bodies \cup {Hole}) /\ Len(wanted) = Len(names) /\ Len(names) \in Nat
      /\ i \in 1..Len(names) /\ names[i] # Hole /\ names[i] \in Objects
      /\ body \in [Objects -> Bodies] /\ body' = [body EXCEPT ![names[i]] = c]
      /\ wanted' = [j \in 1..Len(names) |-> IF names[j] = names[i] THEN c ELSE wanted[j]]
  BY DEF Mutate, Put, MessagesIInv
<1>2. wanted' \in [1..Len(names) -> Bodies \cup {Hole}]
  BY <1>1
<1>3. wanted' \in Seq(Bodies \cup {Hole}) /\ Len(wanted') = Len(names)
  BY <1>1, <1>2
<1>4. Holding(names)'
  <2>1. ASSUME NEW j \in 1..Len(names)
        PROVE  wanted'[j] = IF names[j] = Hole THEN Hole ELSE body'[names[j]]
    <3>1. wanted[j] = IF names[j] = Hole THEN Hole ELSE body[names[j]]
      BY DEF MessagesIInv, Holding
    <3>2. names[j] # Hole => names[j] \in Objects
      BY <1>1
    <3> QED
      BY <1>1, <3>1, <3>2
  <2> QED
    BY <1>1, <2>1 DEF Holding
<1>5. body' \in [Objects -> Bodies]
  BY <1>1
<1> QED
  BY <1>1, <1>3, <1>4, <1>5 DEF MessagesIInv

\* What is sent are the messages without the holes.
LEMMA MessagesSentIInv ==
  ASSUME MessagesIInv, MessagesSent
  PROVE  MessagesIInv'
<1>0. PICK n \in 0..Len(raws) : \E sent \in [1..n -> DOMAIN raws] :
        /\ MessagesWire(sent)
        /\ Renewed([i \in 1..n |-> body[raws[sent[i]]]])
        /\ wanted' = [i \in 1..n |-> wanted[sent[i]]]
  BY DEF MessagesSent
<1>1. PICK sent \in [1..n -> DOMAIN raws] :
        /\ MessagesWire(sent)
        /\ Renewed([i \in 1..n |-> body[raws[sent[i]]]])
        /\ wanted' = [i \in 1..n |-> wanted[sent[i]]]
  BY <1>0
<1>2. names \in Seq(Objects \cup {Hole}) /\ raws = names /\ body \in [Objects -> Bodies]
      /\ DOMAIN raws = 1..Len(names) /\ n \in Nat
      /\ \A i \in 1..Len(names) : wanted[i] = IF names[i] = Hole THEN Hole ELSE body[names[i]]
  BY DEF MessagesIInv, Holding
<1>3. ASSUME NEW i \in 1..n
      PROVE  raws[sent[i]] # Hole /\ sent[i] \in 1..Len(names)
  BY <1>1, <1>2 DEF MessagesWire
<1> DEFINE cs == [i \in 1..n |-> body[raws[sent[i]]]]
<1>4. \A i \in 1..n : body[raws[sent[i]]] \in Bodies /\ wanted[sent[i]] = body[raws[sent[i]]]
  BY <1>2, <1>3
<1>5. cs \in [1..n -> Bodies] /\ wanted' = cs
  BY <1>1, <1>4
<1>6. Renewed(cs)
  BY <1>1
<1> HIDE DEF cs
<1> QED
  BY <1>2, <1>5, <1>6, RenewedIInv

LEMMA MessagesCopiedIInv ==
  ASSUME MessagesIInv, MessagesCopied
  PROVE  MessagesIInv'
<1> DEFINE n == Len(names)
           cs == [i \in 1..n |-> IF raws[i] = Hole THEN Blank ELSE body[raws[i]]]
<1>1. names \in Seq(Objects \cup {Hole}) /\ raws = names /\ body \in [Objects -> Bodies]
      /\ wanted \in Seq(Bodies \cup {Hole}) /\ Len(wanted) = n
      /\ DOMAIN raws = 1..n /\ DOMAIN wanted = 1..n /\ n \in Nat
      /\ \A i \in 1..n : wanted[i] = IF names[i] = Hole THEN Hole ELSE body[names[i]]
  BY DEF MessagesIInv, Holding
<1>2. Renewed(cs) /\ wanted' = [i \in 1..n |-> IF wanted[i] = Hole THEN Blank ELSE wanted[i]]
  BY <1>1 DEF MessagesCopied
<1>3. \A i \in 1..n : names[i] # Hole => names[i] \in Objects /\ body[names[i]] \in Bodies /\ body[names[i]] # Hole
  BY <1>1, MessagesAssumption
<1>4. Blank \in Bodies
  BY MessagesAssumption
<1>5. cs \in [1..n -> Bodies] /\ wanted' = cs
  BY <1>1, <1>2, <1>3, <1>4
<1> HIDE DEF n, cs
<1> QED
  BY <1>1, <1>2, <1>5, RenewedIInv

LEMMA MessagesInitIInv == MessagesInit => MessagesIInv
BY MessagesAssumption DEF MessagesInit, MessagesIInv, Holding

LEMMA MessagesNextIInv ==
  ASSUME MessagesIInv, MessagesNext
  PROVE  MessagesIInv'
<1>1. ASSUME NEW n \in 0..MaxMessages, NEW cs \in [1..n -> Bodies], setMessages(cs)
      PROVE  MessagesIInv'
  <2>1. n \in Nat /\ Renewed(cs) /\ wanted' = cs
    BY <1>1, MessagesAssumption DEF setMessages
  <2> QED
    BY <2>1, RenewedIInv
<1> QED
  BY <1>1, AddMessageIInv, SetMessageAtIInv, RemoveMessageIInv, MutateIInv, ClearMessagesIInv,
     MessagesSentIInv, MessagesCopiedIInv DEF MessagesNext

-----------------------------------------------------------------------------
(* An integer field: what is tagged as an int32 is one, so that the number *)
(* is taken as it is.                                                      *)

\* A value that is tagged as an int32 is one.
Tagged ==
  /\ kind \in Kinds /\ given \in Int
  /\ Fits(given, kind) => js.n = given /\ (js.tag = "int" => Fits(js.n, "int32"))

\* What type k has is the same modulo the number of its values.
LEMMA Modulo ==
  ASSUME NEW M \in Nat \ {0}, NEW n \in Int
  PROVE  /\ n \in 0..(M - 1) => n % M = n
         /\ n \in -M..-1 => n % M = n + M
OBVIOUS

LEMMA WrapFits ==
  ASSUME NEW k \in Kinds, NEW n \in Int, Fits(n, k)
  PROVE  Wrap(n, k) = n
<1> DEFINE H == Half(k)
<1>1. H \in Nat \ {0} /\ 2 * H \in Nat \ {0}
  BY ScalarAssumption DEF Half
<1>2. IF k \in Unsigned THEN n \in 0..(2 * H - 1) ELSE n \in -H..(H - 1)
  BY DEF Fits
<1>3. /\ n \in 0..(2 * H - 1) => n % (2 * H) = n
      /\ n \in -(2 * H)..-1 => n % (2 * H) = n + 2 * H
  <2> HIDE DEF H
  <2> QED
    BY <1>1, Modulo
<1>4. Wrap(n, k) = IF k \in Unsigned \/ n % (2 * H) < H THEN n % (2 * H) ELSE (n % (2 * H)) - 2 * H
  BY DEF Wrap
<1> HIDE DEF H
<1>5. CASE n >= 0
  BY <1>1, <1>2, <1>3, <1>4, <1>5
<1>6. CASE n < 0
  <2>1. k \notin Unsigned /\ n \in -H..-1 /\ n % (2 * H) = n + 2 * H
    BY <1>1, <1>2, <1>3, <1>6
  <2> QED
    BY <1>1, <1>4, <2>1
<1> QED
  BY <1>5, <1>6

\* A number that fits an int32 and its kind is the same in both.
LEMMA WrapTwice ==
  ASSUME NEW n \in Int, Fits(n, "int32"), NEW k \in Kinds, Fits(n, k)
  PROVE  Wrap(Wrap(n, "int32"), k) = n
BY WrapFits DEF Kinds

\* A number that fits the wider type and the tag of an int32 is taken whole.
LEMMA TakenWhole ==
  ASSUME Tagged, Fits(given, kind)
  PROVE  setFieldValue(js) = given /\ setRepeatedFieldValue(js) = given
<1>1. given \in Int /\ kind \in Kinds /\ js.n = given /\ Wrap(given, kind) = given
      /\ (js.tag = "int" => Fits(given, "int32"))
  BY WrapFits DEF Tagged
<1>2. Fits(given, "int32") => Wrap(given, "int32") = given
  BY <1>1, WrapFits DEF Kinds
<1>3. kind = "uint64" /\ Fits(given, "int32") => Fits(given, "uint32")
  BY <1>1, ScalarAssumption DEF Fits, Half, Unsigned, Wide
<1>4. kind = "uint64" /\ Fits(given, "int32") => Wrap(given, "uint32") = given
  BY <1>1, <1>3, WrapFits DEF Kinds
<1>5. setFieldValue(js) = given
  BY <1>1, <1>2, <1>4 DEF setFieldValue
<1>6. setRepeatedFieldValue(js) = given
  BY <1>1, <1>2 DEF setRepeatedFieldValue
<1> QED
  BY <1>5, <1>6

LEMMA SetScalarIInv ==
  ASSUME Tagged, NEW n \in Doubles, NEW tag \in {"int", "double"}, SetScalar(n, tag)
  PROVE  Tagged'
<1>1. n \in Int
  BY ScalarAssumption DEF Doubles
<1>2. js' = [tag |-> tag, n |-> n] /\ given' = n /\ kind' = kind /\ (tag = "int" => Fits(n, "int32"))
  BY DEF SetScalar, Js
<1> QED
  BY <1>1, <1>2 DEF Tagged, Fits

LEMMA ScalarSentIInv ==
  ASSUME Tagged, ScalarSent
  PROVE  Tagged'
<1>1. kind' = kind /\ given' = given /\ given \in Int /\ kind \in Kinds
  BY DEF ScalarSent, Tagged
<1>2. SUFFICES ASSUME Fits(given, kind)
               PROVE  js'.n = given /\ (js'.tag = "int" => Fits(js'.n, "int32"))
  BY <1>1 DEF Tagged, Fits
<1>3. js' = getFieldValue(given)
  BY <1>2, TakenWhole DEF ScalarSent
<1>4. /\ Fits(given, "int32") => Wrap(given, "int32") = given
      /\ kind \in {"int32", "enum"} => Fits(given, "int32")
      /\ kind = "uint32" => Fits(given, "uint32")
  <2>1. Fits(given, "int32") => Wrap(given, "int32") = given
    BY <1>1, WrapFits DEF Kinds
  <2>2. kind = "enum" => Fits(given, "int32")
    BY <1>2 DEF Fits, Half, Unsigned, Wide
  <2> QED
    BY <2>1, <2>2, <1>2
<1> QED
  BY <1>1, <1>3, <1>4 DEF getFieldValue, FromInt32, FromUInt32, Js, Kinds

-----------------------------------------------------------------------------
(* The tasks.                                                              *)

\* The copy a task works on is the message as it was; a task whose done is
\* queued was not told of, once only, and is told of when it is deleted.
TasksIInv ==
  /\ TasksTypeOK /\ Len(meant) = Len(tasks)
  /\ \A t \in DOMAIN tasks : tasks[t].copy = meant[t]
  /\ \A i \in DOMAIN queued : tasks[queued[i]].stage = "done"
  /\ \A i, j \in DOMAIN queued : queued[i] = queued[j] => i = j
  /\ \A t \in DOMAIN tasks :
       heard[t] # <<>> => heard[t] = <<meant[t]>> /\ tasks[t].stage = "deleted"

Outcomes == Contents \cup {Malformed}

LEMMA TasksInitIInv == TasksInit => TasksIInv
<1> SUFFICES ASSUME TasksInit PROVE TasksIInv
  OBVIOUS
<1>1. message \in Contents /\ tasks = <<>> /\ queued = <<>> /\ contexts = {} /\ heard = <<>> /\ meant = <<>>
  BY DEF TasksInit
<1>2. tasks \in Seq(Task) /\ Len(tasks) = 0 /\ Len(meant) = 0 /\ DOMAIN tasks = {} /\ DOMAIN queued = {}
      /\ queued \in Seq(DOMAIN tasks) /\ meant \in Seq(Outcomes)
  BY <1>1
<1>3. heard \in [DOMAIN tasks -> Seq(Outcomes)]
  BY <1>1
<1>4. Len(tasks) <= MaxTasks
  BY <1>2, TasksAssumption
<1> QED
  BY <1>1, <1>2, <1>3, <1>4 DEF TasksIInv, TasksTypeOK, Outcomes

\* The facts about the state before a step.
LEMMA TasksFacts ==
  ASSUME TasksIInv
  PROVE  /\ message \in Outcomes /\ tasks \in Seq(Task) /\ Len(tasks) \in Nat /\ MaxTasks \in Nat
         /\ DOMAIN tasks = 1..Len(tasks) /\ Len(tasks) <= MaxTasks
         /\ queued \in Seq(1..Len(tasks)) /\ contexts \subseteq 1..Len(tasks)
         /\ heard \in [1..Len(tasks) -> Seq(Outcomes)]
         /\ meant \in Seq(Outcomes) /\ Len(meant) = Len(tasks)
BY TasksAssumption DEF TasksIInv, TasksTypeOK, Outcomes

\* A call with a callback, with a task or without.
LEMMA CalledIInv ==
  ASSUME TasksIInv, NEW op \in {"serialize", "parse"}, NEW m \in Outcomes, NEW st \in {"waiting", "refused"},
         Called(op, m, st)
  PROVE  TasksIInv'
<1> DEFINE n == Len(tasks)
           task == [op |-> op, copy |-> m, stage |-> st]
<1>1. /\ n < MaxTasks /\ tasks' = Append(tasks, task) /\ heard' = Append(heard, <<>>)
      /\ meant' = Append(meant, m) /\ message' = message /\ queued' = queued /\ contexts' = contexts
  BY DEF Called
<1>2. task \in Task /\ task.copy = m
  BY TasksFacts DEF Task, Stages, Outcomes
<1> HIDE DEF task
<1>3. /\ tasks' \in Seq(Task) /\ Len(tasks') = n + 1 /\ n \in Nat /\ DOMAIN tasks' = 1..(n + 1)
      /\ tasks'[n + 1] = task /\ \A t \in 1..n : tasks'[t] = tasks[t]
  BY <1>1, <1>2, TasksFacts
<1>4. /\ meant' \in Seq(Outcomes) /\ Len(meant') = n + 1
      /\ meant'[n + 1] = m /\ \A t \in 1..n : meant'[t] = meant[t]
  BY <1>1, TasksFacts
<1>5. heard \in Seq(Seq(Outcomes)) /\ Len(heard) = n
  <2> DEFINE S == Seq(Outcomes)
  <2>1. heard \in [1..n -> S] /\ n \in Nat
    BY TasksFacts
  <2> HIDE DEF n, S
  <2>2. heard \in Seq(S) /\ Len(heard) = n
    BY <2>1
  <2> QED
    BY <2>2 DEF S
<1>6. /\ heard' \in [1..(n + 1) -> Seq(Outcomes)]
      /\ heard'[n + 1] = <<>> /\ \A t \in 1..n : heard'[t] = heard[t]
  <2>1. <<>> \in Seq(Outcomes)
    OBVIOUS
  <2> DEFINE S == Seq(Outcomes)
  <2> HIDE DEF S
  <2>2. heard' \in Seq(S) /\ Len(heard') = n + 1 /\ heard'[n + 1] = <<>> /\ \A t \in 1..n : heard'[t] = heard[t]
    BY <1>1, <1>5, <2>1, TasksFacts DEF S
  <2>3. n \in Nat
    BY TasksFacts
  <2> HIDE DEF n
  <2>4. heard' \in [1..(n + 1) -> S]
    BY <2>2, <2>3
  <2> QED
    BY <2>2, <2>4 DEF S
<1>7. queued' \in Seq(1..(n + 1)) /\ \A i \in DOMAIN queued : queued[i] \in 1..n
  BY <1>1, TasksFacts
<1> HIDE DEF n
<1>8. TasksTypeOK'
  <2>1. contexts' \subseteq 1..(n + 1) /\ n + 1 <= MaxTasks /\ message' \in Outcomes
    BY <1>1, TasksFacts DEF n
  <2> QED
    BY <1>3, <1>4, <1>6, <1>7, <2>1 DEF TasksTypeOK, Outcomes
<1>9. \A t \in 1..(n + 1) : tasks'[t].copy = meant'[t]
  <2>1. \A t \in 1..n : tasks[t].copy = meant[t]
    BY TasksFacts DEF TasksIInv, n
  <2> QED
    BY <1>2, <1>3, <1>4, <2>1
<1>10. \A i \in DOMAIN queued : tasks'[queued[i]].stage = "done"
  BY <1>3, <1>7 DEF TasksIInv
<1>11. \A t \in 1..(n + 1) : heard'[t] # <<>> => heard'[t] = <<meant'[t]>> /\ tasks'[t].stage = "deleted"
  <2>1. \A t \in 1..n : heard[t] # <<>> => heard[t] = <<meant[t]>> /\ tasks[t].stage = "deleted"
    BY TasksFacts DEF TasksIInv, n
  <2>2. \A t \in 1..n : heard'[t] # <<>> => heard'[t] = <<meant'[t]>> /\ tasks'[t].stage = "deleted"
    BY <1>3, <1>4, <1>6, <2>1
  <2> QED
    BY <1>3, <1>6, <2>2
<1> QED
  BY <1>1, <1>3, <1>4, <1>8, <1>9, <1>10, <1>11 DEF TasksIInv

\* A task that runs was not done before.
LEMMA EndTaskIInv ==
  ASSUME TasksIInv, NEW t \in DOMAIN tasks, EndTask(t)
  PROVE  TasksIInv'
<1> DEFINE n == Len(tasks)
<1>1. /\ tasks[t].stage = "waiting" /\ tasks' = [tasks EXCEPT ![t].stage = "done"]
      /\ queued' = Append(queued, t) /\ UNCHANGED <<message, contexts, heard, meant>> /\ t \in 1..n
  BY TasksFacts DEF EndTask, Runs, Unfinished
<1>2. /\ tasks' \in [1..n -> Task] /\ tasks'[t].copy = tasks[t].copy /\ tasks'[t].stage = "done"
      /\ \A u \in 1..n : u # t => tasks'[u] = tasks[u]
  <2>1. tasks \in [1..n -> Task]
    BY TasksFacts
  <2> HIDE DEF n
  <2>2. [tasks[t] EXCEPT !.stage = "done"] \in Task
    BY <1>1, <2>1 DEF Task, Stages
  <2>3. tasks' = [tasks EXCEPT ![t] = [tasks[t] EXCEPT !.stage = "done"]]
    BY <1>1, <2>1
  <2>4. [tasks[t] EXCEPT !.stage = "done"].copy = tasks[t].copy /\ [tasks[t] EXCEPT !.stage = "done"].stage = "done"
    BY <1>1, <2>1 DEF Task
  <2> QED
    BY <1>1, <2>1, <2>2, <2>3, <2>4
<1>3. tasks' \in Seq(Task) /\ Len(tasks') = n /\ DOMAIN tasks' = 1..n
  <2>1. n \in Nat
    BY TasksFacts
  <2> HIDE DEF n
  <2> QED
    BY <1>2, <2>1
<1>4. /\ queued' \in Seq(1..n) /\ Len(queued') = Len(queued) + 1 /\ Len(queued) \in Nat
      /\ queued'[Len(queued) + 1] = t /\ \A i \in 1..Len(queued) : queued'[i] = queued[i]
  BY <1>1, TasksFacts
<1>5. \A i \in 1..Len(queued) : queued[i] \in 1..n /\ queued[i] # t /\ tasks[queued[i]].stage = "done"
  <2>1. ASSUME NEW i \in 1..Len(queued)
        PROVE  queued[i] \in 1..n /\ tasks[queued[i]].stage = "done"
    BY TasksFacts DEF TasksIInv
  <2> QED
    BY <1>1, <2>1
<1>6. TasksTypeOK'
  BY <1>1, <1>3, <1>4, TasksFacts DEF TasksTypeOK, Outcomes
<1>7. \A u \in 1..n : tasks'[u].copy = meant'[u]
  BY <1>1, <1>2, TasksFacts DEF TasksIInv
<1>8. \A i \in 1..Len(queued') : tasks'[queued'[i]].stage = "done"
  BY <1>2, <1>4, <1>5
<1>9. \A i, j \in 1..Len(queued') : queued'[i] = queued'[j] => i = j
  <2>1. \A i, j \in 1..Len(queued) : queued[i] = queued[j] => i = j
    BY TasksFacts DEF TasksIInv
  <2> SUFFICES ASSUME NEW i \in 1..Len(queued'), NEW j \in 1..Len(queued'), queued'[i] = queued'[j]
               PROVE  i = j
    OBVIOUS
  <2> DEFINE q == Len(queued)
  <2>2. q \in Nat /\ i \in 1..(q + 1) /\ j \in 1..(q + 1)
    BY <1>4
  <2>3. \A k \in 1..q : queued'[k] = queued[k] /\ queued[k] # t
    BY <1>4, <1>5
  <2>4. queued'[q + 1] = t
    BY <1>4
  <2>5. \A k, l \in 1..q : queued[k] = queued[l] => k = l
    BY <2>1
  <2> HIDE DEF q
  <2>6. CASE i \in 1..q /\ j \in 1..q
    BY <2>3, <2>5, <2>6
  <2>7. CASE i \notin 1..q
    <3>1. i = q + 1
      BY <2>2, <2>7
    <3> QED
      BY <2>2, <2>3, <2>4, <3>1
  <2>8. CASE j \notin 1..q
    <3>1. j = q + 1
      BY <2>2, <2>8
    <3> QED
      BY <2>2, <2>3, <2>4, <3>1
  <2> QED
    BY <2>6, <2>7, <2>8
<1>10. \A u \in 1..n : heard'[u] # <<>> => heard'[u] = <<meant'[u]>> /\ tasks'[u].stage = "deleted"
  BY <1>1, <1>2, TasksFacts DEF TasksIInv
<1>11. DOMAIN queued' = 1..Len(queued') /\ Len(meant') = n
  BY <1>1, <1>4, TasksFacts
<1> QED
  BY <1>3, <1>6, <1>7, <1>8, <1>9, <1>10, <1>11 DEF TasksIInv

LEMMA OnDoneIInv ==
  ASSUME TasksIInv, OnDone
  PROVE  TasksIInv'
<1> DEFINE n == Len(tasks)
           t == Head(queued)
           s == IF t \notin contexts THEN "deleted" ELSE "leaked"
<1>1. /\ queued # <<>> /\ tasks' = [tasks EXCEPT ![t].stage = s]
      /\ heard' = IF t \notin contexts THEN [heard EXCEPT ![t] = Append(@, tasks[t].copy)] ELSE heard
      /\ queued' = Tail(queued) /\ UNCHANGED <<message, contexts, meant>>
  BY DEF OnDone
<1>2. /\ queued \in Seq(1..n) /\ Len(queued) \in Nat \ {0} /\ t = queued[1] /\ t \in 1..n
      /\ queued' \in Seq(1..n) /\ Len(queued') = Len(queued) - 1
      /\ \A i \in 1..Len(queued') : queued'[i] = queued[i + 1]
  BY <1>1, TasksFacts
<1>3. tasks[t].stage = "done" /\ tasks[t].copy = meant[t] /\ heard[t] = <<>>
  BY <1>2, TasksFacts DEF TasksIInv
<1> HIDE DEF t
<1>4. /\ tasks' \in [1..n -> Task] /\ tasks'[t].copy = tasks[t].copy /\ tasks'[t].stage = s
      /\ \A u \in 1..n : u # t => tasks'[u] = tasks[u]
  <2>1. tasks \in [1..n -> Task] /\ s \in {"deleted", "leaked"}
    BY TasksFacts
  <2> HIDE DEF n, s
  <2>2. [tasks[t] EXCEPT !.stage = s] \in Task
    BY <1>2, <2>1 DEF Task, Stages
  <2>3. tasks' = [tasks EXCEPT ![t] = [tasks[t] EXCEPT !.stage = s]]
    BY <1>1, <1>2, <2>1
  <2>4. [tasks[t] EXCEPT !.stage = s].copy = tasks[t].copy /\ [tasks[t] EXCEPT !.stage = s].stage = s
    BY <1>2, <2>1 DEF Task
  <2> QED
    BY <1>2, <2>1, <2>2, <2>3, <2>4
<1>5. tasks' \in Seq(Task) /\ Len(tasks') = n /\ DOMAIN tasks' = 1..n
  <2>1. n \in Nat
    BY TasksFacts
  <2> HIDE DEF n
  <2> QED
    BY <1>4, <2>1
<1>6. /\ heard' \in [1..n -> Seq(Outcomes)]
      /\ \A u \in 1..n : u # t => heard'[u] = heard[u]
      /\ heard'[t] # <<>> => heard'[t] = <<meant[t]>> /\ s = "deleted"
  <2>1. CASE t \notin contexts
    <3>1. Append(<<>>, meant[t]) = <<meant[t]>> /\ <<meant[t]>> \in Seq(Outcomes)
      BY <1>2, TasksFacts
    <3>2. heard' = [heard EXCEPT ![t] = <<meant[t]>>]
      BY <1>1, <1>3, <2>1, <3>1
    <3>3. heard \in [1..n -> Seq(Outcomes)]
      BY TasksFacts
    <3> QED
      BY <1>2, <2>1, <3>1, <3>2, <3>3
  <2>2. CASE t \in contexts
    BY <1>1, <1>3, <2>2, TasksFacts
  <2> QED
    BY <2>1, <2>2
<1> HIDE DEF s
<1>7. \A i \in 1..Len(queued') : queued'[i] \in 1..n /\ queued'[i] # t /\ tasks[queued'[i]].stage = "done"
  <2>1. ASSUME NEW i \in 1..Len(queued')
        PROVE  queued'[i] \in 1..n /\ queued'[i] # t /\ tasks[queued'[i]].stage = "done"
    <3>1. i + 1 \in 1..Len(queued) /\ 1 \in 1..Len(queued) /\ i + 1 # 1 /\ queued'[i] = queued[i + 1]
      BY <1>2
    <3>2. queued[i + 1] \in 1..n /\ queued[i + 1] # queued[1] /\ tasks[queued[i + 1]].stage = "done"
      <4>0. DOMAIN queued = 1..Len(queued) /\ \A j \in 1..Len(queued) : queued[j] \in 1..n
        BY <1>2
      <4>1. \A j \in 1..Len(queued) : queued[j] \in 1..n /\ tasks[queued[j]].stage = "done"
        BY <4>0 DEF TasksIInv
      <4>2. \A j, k \in 1..Len(queued) : queued[j] = queued[k] => j = k
        BY TasksFacts DEF TasksIInv
      <4> QED
        BY <3>1, <4>1, <4>2
    <3> QED
      BY <1>2, <3>1, <3>2
  <2> QED
    BY <2>1
<1>8. TasksTypeOK'
  BY <1>1, <1>2, <1>5, <1>6, TasksFacts DEF TasksTypeOK, Outcomes
<1>9. \A u \in 1..n : tasks'[u].copy = meant'[u]
  BY <1>1, <1>4, TasksFacts DEF TasksIInv
<1>10. \A i \in 1..Len(queued') : tasks'[queued'[i]].stage = "done"
  BY <1>4, <1>7
<1>11. \A i, j \in 1..Len(queued') : queued'[i] = queued'[j] => i = j
  <2>1. ASSUME NEW i \in 1..Len(queued'), NEW j \in 1..Len(queued'), queued'[i] = queued'[j]
        PROVE  i = j
    <3>1. i + 1 \in 1..Len(queued) /\ j + 1 \in 1..Len(queued) /\ queued[i + 1] = queued[j + 1]
      BY <1>2, <2>1
    <3>2. \A k, l \in 1..Len(queued) : queued[k] = queued[l] => k = l
      BY TasksFacts DEF TasksIInv
    <3>3. i + 1 = j + 1
      BY <3>1, <3>2
    <3> QED
      BY <1>2, <3>3
  <2> QED
    BY <2>1
<1>12. \A u \in 1..n : heard'[u] # <<>> => heard'[u] = <<meant'[u]>> /\ tasks'[u].stage = "deleted"
  <2>1. \A u \in 1..n : u # t /\ heard[u] # <<>> => heard[u] = <<meant[u]>> /\ tasks[u].stage = "deleted"
    BY TasksFacts DEF TasksIInv
  <2> QED
    BY <1>1, <1>4, <1>6, <2>1
<1>13. DOMAIN queued' = 1..Len(queued') /\ Len(meant') = n
  BY <1>1, <1>2, TasksFacts
<1> QED
  BY <1>5, <1>8, <1>9, <1>10, <1>11, <1>12, <1>13 DEF TasksIInv

LEMMA ProgramIInv ==
  ASSUME TasksIInv, Program
  PROVE  TasksIInv'
<1>1. ASSUME NEW c \in Outcomes, ChangeMessage(c) PROVE TasksIInv'
  BY <1>1 DEF ChangeMessage, TasksIInv, TasksTypeOK, Outcomes
<1>2. ASSUME NEW t \in DOMAIN tasks, LeaveContext(t) PROVE TasksIInv'
  BY <1>2 DEF LeaveContext, TasksIInv, TasksTypeOK
<1>3. ASSUME NEW op \in {"serialize", "parse"}, StartTask(op) PROVE TasksIInv'
  BY <1>3, TasksFacts, CalledIInv DEF StartTask
<1>4. ASSUME NEW op \in {"serialize", "parse"}, CallRefused(op) PROVE TasksIInv'
  BY <1>4, CalledIInv DEF CallRefused, Outcomes
<1> QED
  BY <1>1, <1>2, <1>3, <1>4 DEF Program, Outcomes

-----------------------------------------------------------------------------
(* The buffers.                                                            *)

\* The write has a stream with a descriptor.
Streams(w) == w.at \in {"open", "failed"} /\ w.fd # 0

\* file_ is the descriptor of the innermost write that has opened anything.
FileIsInnermost ==
  file # 0 => \E i \in DOMAIN writes :
                /\ Streams(writes[i]) /\ writes[i].fd = file
                /\ \A j \in DOMAIN writes : j > i => writes[j].at \in {"told", "refused"}

BuffersIInv ==
  /\ BufferTypeOK
  /\ \A i \in DOMAIN writes : Streams(writes[i]) => writes[i].fd \in open
  /\ \A d \in open : \E i \in DOMAIN writes : Streams(writes[i]) /\ writes[i].fd = d
  /\ \A i, j \in DOMAIN writes : Streams(writes[i]) /\ Streams(writes[j]) /\ writes[i].fd = writes[j].fd => i = j
  /\ FileIsInnermost
  /\ ~lost => content = saved /\ saved \in Stored

LEMMA BuffersFacts ==
  ASSUME BuffersIInv
  PROVE  /\ writes \in Seq(WriteFrame) /\ Len(writes) \in Nat /\ DOMAIN writes = 1..Len(writes)
         /\ writes \in [1..Len(writes) -> WriteFrame]
         /\ MaxDepth \in Nat /\ Len(writes) <= MaxDepth /\ MaxCalls \in Nat
         /\ file \in 0..MaxDepth /\ open \subseteq 1..MaxDepth
BY BufferAssumption DEF BuffersIInv, BufferTypeOK

\* The first m elements of a sequence.
LEMMA PrefixIs ==
  ASSUME NEW S, NEW s \in Seq(S), NEW m \in 0..Len(s)
  PROVE  /\ SubSeq(s, 1, m) \in Seq(S) /\ Len(SubSeq(s, 1, m)) = m
         /\ \A i \in 1..m : SubSeq(s, 1, m)[i] = s[i]
OBVIOUS

\* A step that tells or ends the innermost write, which has its stream closed.
\* What is left below is as it was.
LEMMA BelowIs ==
  ASSUME BuffersIInv, Busy
  PROVE  /\ Below \in Seq(WriteFrame) /\ Len(Below) = Len(writes) - 1
         /\ Len(writes) \in 1..MaxDepth /\ Len(writes) - 1 \in Nat
         /\ \A i \in 1..(Len(writes) - 1) : Below[i] = writes[i]
         /\ TopWrite \in WriteFrame /\ TopWrite = writes[Len(writes)]
<1>1. writes \in Seq(WriteFrame) /\ writes # <<>> /\ Len(writes) \in Nat
  BY BuffersFacts DEF Busy
<1>2. Len(writes) \in 1..MaxDepth
  BY <1>1, BuffersFacts
<1>3. TopWrite \in WriteFrame /\ TopWrite = writes[Len(writes)]
  BY <1>1, <1>2 DEF TopWrite
<1>4. Below \in Seq(WriteFrame) /\ Len(Below) = Len(writes) - 1
      /\ \A i \in 1..(Len(writes) - 1) : Below[i] = writes[i]
  <2> DEFINE m == Len(writes) - 1
  <2>1. m \in 0..Len(writes)
    BY <1>1, <1>2
  <2>2. Below = SubSeq(writes, 1, m)
    BY DEF Below
  <2> HIDE DEF m
  <2>3. Below \in Seq(WriteFrame) /\ Len(Below) = m /\ \A i \in 1..m : Below[i] = writes[i]
    BY <1>1, <2>1, <2>2, PrefixIs
  <2> QED
    BY <2>3 DEF m
<1> QED
  BY <1>2, <1>3, <1>4

LEMMA BufferInitIInv == BufferInit => BuffersIInv
<1> SUFFICES ASSUME BufferInit PROVE BuffersIInv
  OBVIOUS
<1>1. writes = <<>> /\ open = {} /\ file = 0 /\ lost = TRUE /\ content = Garbage /\ saved = Garbage /\ count = 0
      /\ medium \in {"file", "memory"}
  BY DEF BufferInit
<1>2. lost \in BOOLEAN
  BY <1>1
<1>3. writes \in Seq(WriteFrame) /\ Len(writes) = 0 /\ DOMAIN writes = {}
  BY <1>1
<1>4. BufferTypeOK
  BY <1>1, <1>2, <1>3, BufferAssumption DEF BufferTypeOK
<1> QED
  BY <1>1, <1>3, <1>4 DEF BuffersIInv, FileIsInnermost

\* The invariant from what the writes, the descriptors and the histories are.
LEMMA Assembled ==
  ASSUME BuffersIInv, NEW n \in Nat, n <= MaxDepth,
         writes' \in Seq(WriteFrame), Len(writes') = n,
         \A i \in 1..n : Streams(writes'[i]) => writes'[i].fd \in open',
         \A d \in open' : \E i \in 1..n : Streams(writes'[i]) /\ writes'[i].fd = d,
         \A i, j \in 1..n : Streams(writes'[i]) /\ Streams(writes'[j]) /\ writes'[i].fd = writes'[j].fd => i = j,
         file' # 0 => \E i \in 1..n :
                        /\ Streams(writes'[i]) /\ writes'[i].fd = file'
                        /\ \A j \in 1..n : j > i => writes'[j].at \in {"told", "refused"},
         file' \in 0..MaxDepth, open' \subseteq 1..MaxDepth,
         medium' = medium, count' \in 0..MaxCalls, lost' \in BOOLEAN,
         content' \in Stored \cup {Garbage}, saved' \in Stored \cup {Garbage},
         ~lost' => content' = saved' /\ saved' \in Stored
  PROVE  BuffersIInv'
<1>1. BufferTypeOK'
  BY DEF BuffersIInv, BufferTypeOK
<1>2. DOMAIN writes' = 1..n
  OBVIOUS
<1>3. FileIsInnermost'
  BY <1>2 DEF FileIsInnermost
<1> QED
  BY <1>1, <1>2, <1>3 DEF BuffersIInv

\* The innermost write with its marks, above those below it.
LEMMA TopChanged ==
  ASSUME BuffersIInv, Busy, NEW w \in WriteFrame, writes' = Append(Below, w)
  PROVE  /\ writes' \in Seq(WriteFrame) /\ Len(writes') = Len(writes) /\ writes'[Len(writes)] = w
         /\ \A i \in 1..(Len(writes) - 1) : writes'[i] = writes[i]
<1>1. /\ Below \in Seq(WriteFrame) /\ Len(Below) = Len(writes) - 1 /\ Len(writes) - 1 \in Nat
      /\ \A i \in 1..(Len(writes) - 1) : Below[i] = writes[i]
  BY BelowIs
<1> DEFINE b == Below
           m == Len(writes) - 1
<1>2. b \in Seq(WriteFrame) /\ Len(b) = m /\ m \in Nat /\ m + 1 = Len(writes) /\ writes' = Append(b, w)
      /\ \A i \in 1..m : b[i] = writes[i]
  BY <1>1, BuffersFacts
<1> HIDE DEF b, m
<1>3. writes' \in Seq(WriteFrame) /\ Len(writes') = m + 1 /\ writes'[m + 1] = w /\ \A i \in 1..m : writes'[i] = b[i]
  BY <1>2
<1>4. writes' \in Seq(WriteFrame) /\ Len(writes') = Len(writes) /\ writes'[Len(writes)] = w
      /\ \A i \in 1..m : writes'[i] = writes[i]
  BY <1>2, <1>3
<1> QED
  BY <1>4 DEF m

\* The innermost write closes its stream: file_ names no other.
LEMMA Closed ==
  ASSUME BuffersIInv, Busy, TopWrite.at \in {"open", "failed"}, CloseStream(TopWrite.fd)
  PROVE  /\ file' = 0 /\ open' \subseteq open
         /\ \A i \in 1..(Len(writes) - 1) : Streams(writes[i]) => writes[i].fd \in open'
         /\ \A d \in open' : \E i \in 1..(Len(writes) - 1) : Streams(writes[i]) /\ writes[i].fd = d
<1> DEFINE n == Len(writes)
           fd == writes[n].fd
<1>1. /\ n \in Nat \ {0} /\ DOMAIN writes = 1..n /\ TopWrite = writes[n] /\ fd = TopWrite.fd
      /\ 0 \notin open
  BY BelowIs, BuffersFacts
<1>2. file' = 0 /\ open' = open \ {fd, file}
  BY <1>1 DEF CloseStream
<1>3. file = 0 \/ file = fd
  <2> SUFFICES ASSUME file # 0 PROVE file = fd
    OBVIOUS
  <2>1. PICK i \in DOMAIN writes :
          /\ writes[i].fd = file
          /\ \A j \in DOMAIN writes : j > i => writes[j].at \in {"told", "refused"}
    BY DEF BuffersIInv, FileIsInnermost
  <2>2. n \in DOMAIN writes /\ writes[n].at \notin {"told", "refused"}
    BY <1>1
  <2>3. ~(n > i)
    BY <2>1, <2>2
  <2>4. i = n
    BY <1>1, <2>1, <2>3
  <2> QED
    BY <2>1, <2>4
<1>4. open' = open \ {fd}
  BY <1>1, <1>2, <1>3
<1>5. writes[n].at \in {"open", "failed"}
  BY <1>1
<1> HIDE DEF fd
<1>6. ASSUME NEW i \in 1..(n - 1), Streams(writes[i])
      PROVE  writes[i].fd \in open'
  <2>1. i \in DOMAIN writes /\ n \in DOMAIN writes /\ i # n
    <3>1. n \in Nat \ {0} /\ DOMAIN writes = 1..n
      BY <1>1
    <3> HIDE DEF n
    <3> QED
      BY <3>1
  <2>2. writes[i].fd \in open
    BY <1>6, <2>1 DEF BuffersIInv
  <2>3. writes[i].fd # fd
    <3>1. CASE fd = 0
      BY <1>6, <3>1 DEF Streams
    <3>2. CASE fd # 0
      <4>1. Streams(writes[n])
        BY <1>5, <3>2 DEF Streams, fd
      <4> QED
        BY <1>6, <2>1, <4>1 DEF BuffersIInv, fd
    <3> QED
      BY <3>1, <3>2
  <2> QED
    BY <1>4, <2>2, <2>3
<1>7. ASSUME NEW d \in open'
      PROVE  \E i \in 1..(n - 1) : Streams(writes[i]) /\ writes[i].fd = d
  <2>1. PICK i \in DOMAIN writes : Streams(writes[i]) /\ writes[i].fd = d
    BY <1>4 DEF BuffersIInv
  <2>2. i # n
    BY <1>4, <2>1 DEF fd
  <2>3. i \in 1..(n - 1)
    BY <1>1, <2>1, <2>2
  <2> QED
    BY <2>1, <2>3
<1> QED
  BY <1>2, <1>4, <1>6, <1>7

\* The innermost write has told its result.
LEMMA ToldIInv ==
  ASSUME BuffersIInv, Busy, TopWrite.at = "open", CloseStream(TopWrite.fd),
         NEW w \in WriteFrame, w.at = "told", writes' = Append(Below, w),
         medium' = medium, count' = count, lost' \in BOOLEAN,
         content' \in Stored \cup {Garbage}, saved' \in Stored \cup {Garbage},
         ~lost' => content' = saved' /\ saved' \in Stored
  PROVE  BuffersIInv'
<1> DEFINE n == Len(writes)
<1>1. /\ file' = 0 /\ open' \subseteq open
      /\ \A i \in 1..(n - 1) : Streams(writes[i]) => writes[i].fd \in open'
      /\ \A d \in open' : \E i \in 1..(n - 1) : Streams(writes[i]) /\ writes[i].fd = d
  BY Closed
<1>2. /\ writes' \in Seq(WriteFrame) /\ Len(writes') = n /\ writes'[n] = w
      /\ \A i \in 1..(n - 1) : writes'[i] = writes[i]
  BY TopChanged
<1>3. n \in Nat /\ n <= MaxDepth /\ open' \subseteq 1..MaxDepth /\ file' \in 0..MaxDepth /\ count' \in 0..MaxCalls
  BY <1>1, BuffersFacts DEF BuffersIInv, BufferTypeOK
<1> HIDE DEF n
<1>4. ~Streams(writes'[n])
  BY <1>2 DEF Streams
<1>5. \A i \in 1..n : i = n \/ i \in 1..(n - 1)
  BY <1>3
<1>6. \A i \in 1..n : Streams(writes'[i]) => writes'[i].fd \in open'
  BY <1>1, <1>2, <1>4, <1>5
<1>7. \A d \in open' : \E i \in 1..n : Streams(writes'[i]) /\ writes'[i].fd = d
  BY <1>1, <1>2, <1>3, <1>4
<1>8. \A i, j \in 1..n : Streams(writes'[i]) /\ Streams(writes'[j]) /\ writes'[i].fd = writes'[j].fd => i = j
  <2>1. \A i, j \in 1..(n - 1) : Streams(writes[i]) /\ Streams(writes[j]) /\ writes[i].fd = writes[j].fd => i = j
    BY <1>3, BuffersFacts DEF BuffersIInv, n
  <2>2. ASSUME NEW i \in 1..n, NEW j \in 1..n, Streams(writes'[i]), Streams(writes'[j]), writes'[i].fd = writes'[j].fd
        PROVE  i = j
    <3>1. i \in 1..(n - 1) /\ j \in 1..(n - 1)
      BY <1>4, <1>5, <2>2
    <3>2. writes'[i] = writes[i] /\ writes'[j] = writes[j]
      BY <1>2, <3>1
    <3> QED
      BY <2>1, <2>2, <3>1, <3>2
  <2> QED
    BY <2>2
<1> QED
  BY <1>1, <1>2, <1>3, <1>6, <1>7, <1>8, Assembled

LEMMA SerializedIInv ==
  ASSUME BuffersIInv, Serialized
  PROVE  BuffersIInv'
<1> DEFINE w == [TopWrite EXCEPT !.at = "told"]
<1>1. /\ Busy /\ TopWrite.at = "open" /\ writes' = Append(Below, w) /\ CloseStream(TopWrite.fd)
      /\ medium' = medium /\ count' = count
      /\ \/ content' = TopWrite.msg /\ saved' = TopWrite.msg /\ lost' = FALSE
         \/ content' = content /\ saved' = saved /\ lost' = lost
  BY DEF Serialized
<1>2. TopWrite \in WriteFrame
  BY <1>1, BelowIs
<1>3. w \in WriteFrame /\ w.at = "told" /\ TopWrite.msg \in Stored
  BY <1>2 DEF WriteFrame
<1> HIDE DEF w
<1>4. /\ lost' \in BOOLEAN
  BY <1>1 DEF BuffersIInv, BufferTypeOK
<1>5. content' \in Stored \cup {Garbage} /\ saved' \in Stored \cup {Garbage}
  BY <1>1, <1>3 DEF BuffersIInv, BufferTypeOK
<1>6. ~lost' => content' = saved' /\ saved' \in Stored
  BY <1>1, <1>3 DEF BuffersIInv
<1> QED
  BY <1>1, <1>3, <1>4, <1>5, <1>6, ToldIInv

LEMMA ParsedIInv ==
  ASSUME BuffersIInv, Parsed
  PROVE  BuffersIInv'
<1>1. PICK m \in Stored : writes' = Append(Below, [TopWrite EXCEPT !.at = "told", !.msg = m])
  BY DEF Parsed
<1>2. /\ Busy /\ TopWrite.at = "open" /\ CloseStream(TopWrite.fd)
      /\ UNCHANGED <<medium, content, count, saved, lost>>
  BY DEF Parsed
<1> DEFINE w == [TopWrite EXCEPT !.at = "told", !.msg = m]
<1>3. TopWrite \in WriteFrame
  BY <1>2, BelowIs
<1>4. w \in WriteFrame /\ w.at = "told" /\ writes' = Append(Below, w)
  BY <1>1, <1>3 DEF WriteFrame
<1> HIDE DEF w
<1>5. /\ lost' \in BOOLEAN
  BY <1>2 DEF BuffersIInv, BufferTypeOK
<1>6. content' \in Stored \cup {Garbage} /\ saved' \in Stored \cup {Garbage}
  BY <1>2 DEF BuffersIInv, BufferTypeOK
<1>7. ~lost' => content' = saved' /\ saved' \in Stored
  BY <1>2 DEF BuffersIInv
<1> QED
  BY <1>2, <1>4, <1>5, <1>6, <1>7, ToldIInv

LEMMA FailedIInv ==
  ASSUME BuffersIInv, Failed
  PROVE  BuffersIInv'
<1> DEFINE n == Len(writes)
           w == [TopWrite EXCEPT !.at = "failed"]
<1>1. /\ Busy /\ TopWrite.at = "open" /\ writes' = Append(Below, w)
      /\ UNCHANGED <<medium, content, file, open, count, saved, lost>>
  BY DEF Failed
<1>2. n \in Nat \ {0} /\ n <= MaxDepth /\ TopWrite = writes[n] /\ TopWrite \in WriteFrame
  BY <1>1, BelowIs
<1>3. w \in WriteFrame /\ w.fd = writes[n].fd /\ (Streams(w) <=> Streams(writes[n]))
  BY <1>1, <1>2 DEF WriteFrame, Streams
<1> HIDE DEF w
<1>4. /\ writes' \in Seq(WriteFrame) /\ Len(writes') = n /\ writes'[n] = w
      /\ \A i \in 1..(n - 1) : writes'[i] = writes[i]
  BY <1>1, <1>3, TopChanged
<1>5. \A i \in 1..n : i = n \/ i \in 1..(n - 1)
  BY <1>2
<1>6. DOMAIN writes = 1..n
  BY BuffersFacts
<1>7. \A i \in 1..n : writes'[i].fd = writes[i].fd /\ (Streams(writes'[i]) <=> Streams(writes[i]))
  <2> HIDE DEF n
  <2> QED
    BY <1>3, <1>4, <1>5
<1>8. n \in Nat /\ n > 0 /\ n \in 1..n
  BY <1>2
<1>9. \A i \in 1..n : Streams(writes'[i]) => writes'[i].fd \in open'
  BY <1>1, <1>6, <1>7 DEF BuffersIInv
<1>10. \A d \in open' : \E i \in 1..n : Streams(writes'[i]) /\ writes'[i].fd = d
  <2>1. \A d \in open : \E i \in 1..n : Streams(writes[i]) /\ writes[i].fd = d
    BY <1>6 DEF BuffersIInv
  <2> HIDE DEF n
  <2> QED
    BY <1>1, <1>7, <2>1
<1>11. \A i, j \in 1..n : Streams(writes'[i]) /\ Streams(writes'[j]) /\ writes'[i].fd = writes'[j].fd => i = j
  BY <1>6, <1>7 DEF BuffersIInv
<1>12. file' # 0 => \E i \in 1..n :
                      /\ Streams(writes'[i]) /\ writes'[i].fd = file'
                      /\ \A j \in 1..n : j > i => writes'[j].at \in {"told", "refused"}
  <2> SUFFICES ASSUME file # 0
               PROVE  \E i \in 1..n : /\ Streams(writes'[i]) /\ writes'[i].fd = file
                                      /\ \A j \in 1..n : j > i => writes'[j].at \in {"told", "refused"}
    BY <1>1
  <2>1. PICK i \in 1..n : /\ Streams(writes[i]) /\ writes[i].fd = file
                          /\ \A j \in 1..n : j > i => writes[j].at \in {"told", "refused"}
    BY <1>6 DEF BuffersIInv, FileIsInnermost
  <2>2. i = n
    <3>1. writes[n].at \notin {"told", "refused"}
      BY <1>1, <1>2
    <3>2. ~(n > i)
      BY <1>8, <2>1, <3>1
    <3> QED
      BY <1>2, <3>2
  <2>3. \A j \in 1..n : ~(j > n)
    BY <1>2
  <2> QED
    BY <1>7, <2>1, <2>2, <2>3
<1>13. /\ file' \in 0..MaxDepth /\ open' \subseteq 1..MaxDepth /\ medium' = medium /\ count' \in 0..MaxCalls
       /\ lost' \in BOOLEAN
  BY <1>1 DEF BuffersIInv, BufferTypeOK
<1>14. /\ content' \in Stored \cup {Garbage} /\ saved' \in Stored \cup {Garbage}
       /\ (~lost' => content' = saved' /\ saved' \in Stored)
  BY <1>1 DEF BuffersIInv, BufferTypeOK
<1> HIDE DEF n
<1> QED
  BY <1>2, <1>4, <1>8, <1>9, <1>10, <1>11, <1>12, <1>13, <1>14, Assembled

\* The write that returns is the innermost; after a failure it closes its
\* stream, otherwise it has none.
LEMMA EndIInv ==
  ASSUME BuffersIInv, End
  PROVE  BuffersIInv'
<1> DEFINE n == Len(writes)
           m == n - 1
<1>1. /\ Busy /\ TopWrite.at # "open" /\ writes' = Below
      /\ UNCHANGED <<medium, content, count, saved, lost>>
  BY DEF End
<1>2. /\ n \in Nat \ {0} /\ n <= MaxDepth /\ TopWrite = writes[n] /\ DOMAIN writes = 1..n /\ m \in Nat /\ m <= MaxDepth
      /\ writes' \in Seq(WriteFrame) /\ Len(writes') = m /\ \A i \in 1..m : writes'[i] = writes[i]
  BY <1>1, BelowIs, BuffersFacts
<1>3. /\ file' # 0 => file' = file /\ \E i \in 1..m :
                        /\ Streams(writes[i]) /\ writes[i].fd = file
                        /\ \A j \in 1..m : j > i => writes[j].at \in {"told", "refused"}
      /\ open' \subseteq open
      /\ \A i \in 1..m : Streams(writes[i]) => writes[i].fd \in open'
      /\ \A d \in open' : \E i \in 1..m : Streams(writes[i]) /\ writes[i].fd = d
  <2>1. CASE TopWrite.at = "failed"
    <3>1. CloseStream(TopWrite.fd)
      BY <2>1 DEF End
    <3> QED
      BY <1>1, <2>1, <3>1, Closed
  <2>2. CASE TopWrite.at # "failed"
    <3>1. ~Streams(writes[n]) /\ file' = file /\ open' = open
      BY <1>1, <1>2, <2>2 DEF End, Streams
    <3>3. \A i \in 1..n : i # n => i \in 1..m
      <4>1. n \in Nat \ {0} /\ m = n - 1
        BY <1>2
      <4> HIDE DEF n, m
      <4> QED
        BY <4>1
    <3>4. \A i \in 1..m : i \in 1..n
      BY <1>2
    <3>5. \A i \in 1..m : Streams(writes[i]) => writes[i].fd \in open'
      BY <1>2, <3>1, <3>4 DEF BuffersIInv
    <3>6. \A d \in open' : \E i \in 1..m : Streams(writes[i]) /\ writes[i].fd = d
      <4>1. \A d \in open : \E i \in 1..n : Streams(writes[i]) /\ writes[i].fd = d
        BY <1>2 DEF BuffersIInv
      <4> HIDE DEF n, m
      <4> QED
        BY <3>1, <3>3, <4>1
    <3>7. ASSUME file # 0
          PROVE  \E i \in 1..m : /\ Streams(writes[i]) /\ writes[i].fd = file
                                 /\ \A j \in 1..m : j > i => writes[j].at \in {"told", "refused"}
      <4>1. PICK i \in 1..n : /\ Streams(writes[i]) /\ writes[i].fd = file
                              /\ \A j \in 1..n : j > i => writes[j].at \in {"told", "refused"}
        BY <1>2, <3>7 DEF BuffersIInv, FileIsInnermost
      <4> HIDE DEF n, m
      <4>2. i \in 1..m
        BY <3>1, <3>3, <4>1
      <4> QED
        BY <3>4, <4>1, <4>2
    <3> QED
      BY <3>1, <3>5, <3>6, <3>7
  <2> QED
    BY <2>1, <2>2
<1>4. \A i, j \in 1..m : Streams(writes'[i]) /\ Streams(writes'[j]) /\ writes'[i].fd = writes'[j].fd => i = j
  <2>1. \A i, j \in 1..n : Streams(writes[i]) /\ Streams(writes[j]) /\ writes[i].fd = writes[j].fd => i = j
    BY <1>2 DEF BuffersIInv
  <2>2. \A i \in 1..m : i \in 1..n
    BY <1>2
  <2> HIDE DEF n, m
  <2> QED
    BY <1>2, <2>1, <2>2
<1> HIDE DEF n, m
<1>5. \A i \in 1..m : Streams(writes'[i]) => writes'[i].fd \in open'
  BY <1>2, <1>3
<1>6. \A d \in open' : \E i \in 1..m : Streams(writes'[i]) /\ writes'[i].fd = d
  BY <1>2, <1>3
<1>7. /\ file' \in 0..MaxDepth /\ open' \subseteq 1..MaxDepth /\ medium' = medium /\ count' \in 0..MaxCalls
      /\ lost' \in BOOLEAN
  BY <1>1, <1>3, BuffersFacts DEF BuffersIInv, BufferTypeOK
<1>8. /\ content' \in Stored \cup {Garbage} /\ saved' \in Stored \cup {Garbage}
      /\ (~lost' => content' = saved' /\ saved' \in Stored)
  BY <1>1 DEF BuffersIInv, BufferTypeOK
<1>9. file' # 0 => \E i \in 1..m :
                     /\ Streams(writes'[i]) /\ writes'[i].fd = file'
                     /\ \A j \in 1..m : j > i => writes'[j].at \in {"told", "refused"}
  BY <1>2, <1>3
<1> QED
  BY <1>2, <1>4, <1>5, <1>6, <1>7, <1>8, <1>9, Assembled

\* A new write has a descriptor that no other has, or none.
LEMMA BeginIInv ==
  ASSUME BuffersIInv, NEW op \in {"serialize", "parse"}, NEW msg \in Stored, Begin(op, msg)
  PROVE  BuffersIInv'
<1> DEFINE n == Len(writes)
           m == n + 1
<1>0. n \in Nat /\ m \in Nat /\ m <= MaxDepth /\ DOMAIN writes = 1..n
      /\ count' \in 0..MaxCalls /\ medium' = medium /\ saved' = saved
  BY BuffersFacts DEF Begin, BuffersIInv, BufferTypeOK
<1>1. PICK d \in 0..MaxDepth, at \in {"open", "refused"} :
        /\ writes' = Append(writes, [op |-> op, msg |-> msg, fd |-> d, at |-> at])
        /\ open' = open \cup ({d} \ {0}) /\ d \notin open
        /\ at = "open" => file' = d
        /\ at = "refused" => d = 0 /\ file' \in {file, 0}
        /\ content' \in Stored \cup {Garbage}
        /\ lost' \in BOOLEAN /\ (~lost' => ~lost /\ content' = content)
  <2>0. 0 \notin open
    BY BuffersFacts
  <2>1. CASE Opened(op, msg)
    <3>1. PICK d \in 0..MaxDepth :
            /\ IF medium = "file" THEN NextFd(d) ELSE d = 0
            /\ writes' = Append(writes, [op |-> op, msg |-> msg, fd |-> d, at |-> "open"])
            /\ file' = d /\ open' = open \cup ({d} \ {0})
            /\ content' = IF op = "serialize" THEN Garbage ELSE content
            /\ lost' = (lost \/ op = "serialize")
      BY <2>1 DEF Opened
    <3>2. d \notin open
      BY <2>0, <3>1 DEF NextFd
    <3>3. lost' \in BOOLEAN /\ content' \in Stored \cup {Garbage}
      BY <3>1 DEF BuffersIInv, BufferTypeOK
    <3>4. ~lost' => ~lost /\ content' = content
      BY <3>1
    <3> QED
      BY <3>1, <3>2, <3>3, <3>4
  <2>2. CASE Refused(op, msg)
    <3>1. /\ writes' = Append(writes, [op |-> op, msg |-> msg, fd |-> 0, at |-> "refused"])
          /\ file' \in {file, 0} /\ open' = open /\ content' = content /\ lost' = lost
      BY <2>2 DEF Refused
    <3>2. lost' \in BOOLEAN /\ content' \in Stored \cup {Garbage}
      BY <3>1 DEF BuffersIInv, BufferTypeOK
    <3>3. open' = open \cup ({0} \ {0}) /\ 0 \in 0..MaxDepth
      BY <3>1, BuffersFacts
    <3> QED
      BY <2>0, <3>1, <3>2, <3>3
  <2> QED
    BY <2>1, <2>2 DEF Begin
<1> DEFINE w == [op |-> op, msg |-> msg, fd |-> d, at |-> at]
<1>2. w \in WriteFrame /\ w.fd = d /\ (Streams(w) <=> d # 0)
  BY <1>1 DEF WriteFrame, Streams
<1> HIDE DEF w
<1>3. /\ writes' \in Seq(WriteFrame) /\ Len(writes') = m /\ writes'[m] = w
      /\ \A i \in 1..n : writes'[i] = writes[i]
  <2>1. writes' = Append(writes, w) /\ writes \in Seq(WriteFrame)
    BY <1>1, BuffersFacts DEF w
  <2> QED
    BY <1>2, <2>1
<1>4. /\ \A i \in 1..n : Streams(writes[i]) => writes[i].fd \in open
      /\ \A e \in open : \E i \in 1..n : Streams(writes[i]) /\ writes[i].fd = e
      /\ \A i, j \in 1..n : Streams(writes[i]) /\ Streams(writes[j]) /\ writes[i].fd = writes[j].fd => i = j
  BY <1>0 DEF BuffersIInv
<1>5. \A i \in 1..m : i = m \/ i \in 1..n
  BY <1>0
<1>6. m \in 1..m /\ m > 0 /\ \A i \in 1..n : i \in 1..m
  BY <1>0
<1> HIDE DEF n, m
<1>7. \A i \in 1..m : Streams(writes'[i]) => writes'[i].fd \in open'
  BY <1>1, <1>2, <1>3, <1>4, <1>5
<1>8. \A e \in open' : \E i \in 1..m : Streams(writes'[i]) /\ writes'[i].fd = e
  BY <1>1, <1>2, <1>3, <1>4, <1>6
<1>9. \A i, j \in 1..m : Streams(writes'[i]) /\ Streams(writes'[j]) /\ writes'[i].fd = writes'[j].fd => i = j
  <2>1. ASSUME NEW i \in 1..m, NEW j \in 1..m, Streams(writes'[i]), Streams(writes'[j]), writes'[i].fd = writes'[j].fd
        PROVE  i = j
    <3>1. CASE i \in 1..n /\ j \in 1..n
      BY <1>3, <1>4, <2>1, <3>1
    <3>2. CASE i \in 1..n /\ j = m
      BY <1>1, <1>2, <1>3, <1>4, <2>1, <3>2
    <3>3. CASE i = m /\ j \in 1..n
      BY <1>1, <1>2, <1>3, <1>4, <2>1, <3>3
    <3> QED
      BY <1>5, <3>1, <3>2, <3>3
  <2> QED
    BY <2>1
<1>10. ASSUME file' # 0
       PROVE  \E i \in 1..m : /\ Streams(writes'[i]) /\ writes'[i].fd = file'
                              /\ \A j \in 1..m : j > i => writes'[j].at \in {"told", "refused"}
  <2>1. CASE at = "open"
    <3>1. Streams(writes'[m]) /\ writes'[m].fd = file'
      BY <1>1, <1>2, <1>3, <1>10, <2>1
    <3>2. \A j \in 1..m : ~(j > m)
      BY <1>0
    <3> QED
      BY <1>6, <3>1, <3>2
  <2>2. CASE at = "refused"
    <3>1. file' = file /\ w.at = "refused"
      BY <1>1, <1>10, <2>2 DEF w
    <3>2. PICK i \in 1..n : /\ Streams(writes[i]) /\ writes[i].fd = file
                            /\ \A j \in 1..n : j > i => writes[j].at \in {"told", "refused"}
      BY <1>0, <1>10, <3>1 DEF BuffersIInv, FileIsInnermost
    <3>3. \A j \in 1..m : j > i => writes'[j].at \in {"told", "refused"}
      BY <1>3, <1>5, <3>1, <3>2
    <3> QED
      BY <1>3, <1>6, <3>1, <3>2, <3>3
  <2> QED
    BY <1>1, <2>1, <2>2
<1>11. file' \in 0..MaxDepth /\ open' \subseteq 1..MaxDepth
  BY <1>1, BuffersFacts DEF BuffersIInv, BufferTypeOK
<1>12. saved' \in Stored \cup {Garbage} /\ (~lost' => content' = saved' /\ saved' \in Stored)
  BY <1>0, <1>1 DEF BuffersIInv, BufferTypeOK
<1> QED
  BY <1>0, <1>1, <1>3, <1>7, <1>8, <1>9, <1>10, <1>11, <1>12, Assembled

LEMMA ResizeBufferIInv ==
  ASSUME BuffersIInv, Resize
  PROVE  BuffersIInv'
<1>1. content' = Garbage /\ lost' = TRUE /\ UNCHANGED <<medium, file, open, writes, count, saved>>
  BY DEF Resize
<1>2. lost' \in BOOLEAN
  BY <1>1
<1>3. BufferTypeOK'
  BY <1>1, <1>2 DEF BuffersIInv, BufferTypeOK
<1> QED
  BY <1>1, <1>3 DEF BuffersIInv, FileIsInnermost

LEMMA BufferNextIInv ==
  ASSUME BuffersIInv, BufferNext
  PROVE  BuffersIInv'
BY BeginIInv, SerializedIInv, ParsedIInv, FailedIInv, EndIInv, ResizeBufferIInv DEF BufferNext

-----------------------------------------------------------------------------
(* A message: its fields.                                                  *)

FieldsIInv == NumbersIInv /\ MessagesIInv /\ OneofIInv /\ Tagged

LEMMA FieldsInitIInv == FieldsInit => FieldsIInv
<1>1. ScalarInit => Tagged
  BY ScalarAssumption DEF ScalarInit, Tagged, Kinds, Fits, Half, Unsigned, Wide, Js
<1> QED
  BY <1>1, NumbersInitIInv, MessagesInitIInv, OneofInitIInv DEF FieldsInit, FieldsIInv

LEMMA FieldsNextIInv == FieldsIInv /\ [FieldsNext]_fieldsVars => FieldsIInv'
<1> SUFFICES ASSUME FieldsIInv, [FieldsNext]_fieldsVars PROVE FieldsIInv'
  OBVIOUS
<1>1. UNCHANGED numbersVars => NumbersIInv'
  BY DEF numbersVars, FieldsIInv, NumbersIInv, NumbersTypeOK
<1>2. UNCHANGED messagesVars => MessagesIInv'
  BY DEF messagesVars, FieldsIInv, MessagesIInv, Holding
<1>3. UNCHANGED scalarVars => Tagged'
  BY DEF scalarVars, FieldsIInv, Tagged, Fits
<1>4. NumbersNext => NumbersIInv'
  BY NumbersNextIInv DEF FieldsIInv
<1>5. MessagesNext => MessagesIInv'
  BY MessagesNextIInv DEF FieldsIInv
<1>6. ScalarNext => Tagged'
  BY SetScalarIInv, ScalarSentIInv DEF FieldsIInv, ScalarNext
<1>7. UNCHANGED oneofVars => OneofIInv'
  BY DEF oneofVars, FieldsIInv, OneofIInv, OneofTypeOK, Followed, Current
<1>8. OneofNext => OneofIInv'
  BY OneofNextIInv DEF FieldsIInv
<1> QED
  BY <1>1, <1>2, <1>3, <1>4, <1>5, <1>6, <1>7, <1>8 DEF FieldsNext, fieldsVars, FieldsIInv

\* The inductive invariant of a message's fields.
THEOREM FieldsInvariance == FieldsSpec => []FieldsIInv
BY FieldsInitIInv, FieldsNextIInv, PTL DEF FieldsSpec

\* A repeated field is the array the program asked for, however its buffer
\* grew, shrank and was reserved, and whichever messages were put, removed and
\* changed in it (field_generator.cpp:189-417, message.js:40-65).
THEOREM RepeatedKeptAlways == FieldsSpec => []RepeatedKept
<1>1. FieldsIInv => RepeatedKept
  BY NumbersAreAsked, MessagesAreAsPut DEF FieldsIInv, RepeatedKept
<1> QED
  BY <1>1, FieldsInvariance, PTL

\* One case at most is to be seen, the one the program set last with the value
\* it set, whatever the message went through since (oneof_generator.cpp,
\* field_generator.cpp:460-518).
THEOREM OneofAsChosenAlways == FieldsSpec => []OneofAsChosen
<1>1. FieldsIInv => OneofAsChosen
  BY OneofIsAsChosen DEF FieldsIInv
<1> QED
  BY <1>1, FieldsInvariance, PTL

\* A number of the field's type arrives as it was given, through the 32-bit
\* and 64-bit conversions of descriptor.cpp, for any widths of the two.
THEOREM NumberKeptAlways == FieldsSpec => []NumberKept
<1>1. FieldsIInv => NumberKept
  BY DEF FieldsIInv, Tagged, NumberKept
<1> QED
  BY <1>1, FieldsInvariance, PTL

-----------------------------------------------------------------------------
(* Tasks and buffers side by side.                                         *)

IOIInv == TasksIInv /\ BuffersIInv

LEMMA IONextIInv == IOIInv /\ [IONext]_ioVars => IOIInv'
<1> SUFFICES ASSUME IOIInv, [IONext]_ioVars PROVE IOIInv'
  OBVIOUS
<1>1. UNCHANGED tasksVars => TasksIInv'
  BY DEF tasksVars, IOIInv, TasksIInv, TasksTypeOK
<1>2. UNCHANGED bufferVars => BuffersIInv'
  BY DEF bufferVars, IOIInv, BuffersIInv, BufferTypeOK, FileIsInnermost
<1>3. OnDone => TasksIInv'
  BY OnDoneIInv DEF IOIInv
<1>4. PoolStep => TasksIInv'
  BY EndTaskIInv DEF IOIInv, PoolStep
<1>5. Program => TasksIInv'
  BY ProgramIInv DEF IOIInv
<1>6. BufferNext => BuffersIInv'
  BY BufferNextIInv DEF IOIInv
<1> QED
  BY <1>1, <1>2, <1>3, <1>4, <1>5, <1>6 DEF IONext, Deliver, Pool, ioVars, IOIInv

\* The inductive invariant of tasks and buffers.
THEOREM IOInvariance == IOSpec => []IOIInv
<1>1. IOInit => IOIInv
  BY TasksInitIInv, BufferInitIInv DEF IOInit, IOIInv
<1> QED
  BY <1>1, IONextIInv, PTL DEF IOSpec

\* A callback of serialize or parse hears the outcome for its own message,
\* once, in whatever order the pool's threads end (descriptor.cpp:107-123 and
\* :728-765).
THEOREM HearsItsOwnAlways == IOSpec => []HearsItsOwn
<1>1. IOIInv => HearsItsOwn
  BY DEF IOIInv, TasksIInv, HearsItsOwn
<1> QED
  BY <1>1, IOInvariance, PTL

\* However calls of a channel nest in each other's callbacks, no descriptor is
\* left open by one that has ended (file.cpp:39-105, buffer.cpp:15-72).
THEOREM NothingLeftAlways == IOSpec => []NothingLeft
<1>1. IOIInv => NothingLeft
  <2> SUFFICES ASSUME BuffersIInv PROVE NothingLeft
    BY DEF IOIInv
  <2> DEFINE fds == {writes[i].fd : i \in {j \in DOMAIN writes : writes[j].at \in {"open", "failed"}}}
  <2>1. 0 \notin open
    BY BuffersFacts
  <2>2. \A d \in open : d \in fds
    BY DEF BuffersIInv, Streams
  <2>3. \A d \in fds : d # 0 => d \in open
    BY DEF BuffersIInv, Streams
  <2>4. open = fds \ {0}
    BY <2>1, <2>2, <2>3
  <2> QED
    BY <2>4 DEF NothingLeft, BuffersIInv
<1> QED
  BY <1>1, IOInvariance, PTL

\* parseFrom gives back what the last serializeTo stored, unless a failure
\* came between (buffer.cpp:15-69, memory.cpp:17-23).
THEOREM ReadBackAlways == IOSpec => ReadBack
<1>1. IOIInv /\ [IONext]_ioVars => [Parsed => lost \/ writes'[Len(writes')].msg = saved]_bufferVars
  <2> SUFFICES ASSUME BuffersIInv, Parsed, ~lost
               PROVE  writes'[Len(writes')].msg = saved
    BY DEF IOIInv
  <2>1. PICK m \in Stored : /\ content # Garbage => m = content
                            /\ writes' = Append(Below, [TopWrite EXCEPT !.at = "told", !.msg = m])
    BY DEF Parsed
  <2>2. content = saved /\ saved \in Stored /\ saved # Garbage
    BY BufferAssumption DEF BuffersIInv
  <2> DEFINE w == [TopWrite EXCEPT !.at = "told", !.msg = m]
  <2>3. Busy /\ TopWrite \in WriteFrame
    BY BelowIs DEF Parsed
  <2>4. w \in WriteFrame /\ w.msg = m
    BY <2>3 DEF WriteFrame
  <2>5. writes' = Append(Below, w)
    BY <2>1
  <2> HIDE DEF w
  <2>6. Len(writes') = Len(writes) /\ writes'[Len(writes)] = w
    BY <2>3, <2>4, <2>5, TopChanged
  <2> QED
    BY <2>1, <2>2, <2>4, <2>6
<1> QED
  BY <1>1, IOInvariance, PTL DEF IOSpec, ReadBack
=============================================================================
