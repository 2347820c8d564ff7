-------------------------- MODULE ClientStreamProofs --------------------------
(***************************************************************************)
(* The two methods of the client that stream in one direction, for any     *)
(* number of calls, call objects and messages.                             *)
(*                                                                         *)
(* First the client-streaming one: gRPC's rule for one call, the order of  *)
(* what gRPC is given, the honesty of the result and when the unlocked     *)
(* pointer may dangle.                                                     *)
(*                                                                         *)
(* The invariants checked by TLC are not inductive.  What they lack:       *)
(*   Fresh          an object that does not exist yet will start in INIT;  *)
(*   Listed         calls_ has exactly the calls not past deleteCall, so a *)
(*                  call finds itself there and its closed is emitted;     *)
(*   Working        the objects the two threads work on were created, and  *)
(*                  the one the IO thread ends is still there;             *)
(*   Over           what the status of a call says about what gRPC has;    *)
(*   HandedInOrder  nothing is lost between write() and gRPC, and end() is *)
(*                  the last thing gRPC is given;                          *)
(*   ResponseEnded  a response is one of a call that is finishing and that *)
(*                  was ended;                                             *)
(*   Sealing        behind a response no signal but closed can be heard;   *)
(*   TagsOld        a tag not handed out yet has no callback and no past.  *)
(***************************************************************************)
EXTENDS ClientWriter, ClientReader, TLAPS

Holds(q, x) == \E i \in 1..Len(q) : q[i] = x

Ends(q) == Holds(q, Null)

Fresh == \A c \in Calls : memory[c] = "none" => status[c] = "INIT"

\* The IO thread is past deleteCall of c.
Unlisted(c) == io.pc = "delete" /\ io.call = c

Listed ==
  /\ \A t \in Tags : calls[t] # NoCall =>
       memory[calls[t]] = "live" /\ tagOf[calls[t]] = t /\ ~Unlisted(calls[t])
  /\ \A c \in Calls : memory[c] = "live" /\ ~Unlisted(c) =>
       tagOf[c] \in Tags /\ calls[tagOf[c]] = c

Working ==
  /\ qml # Idle => memory[qml.call] # "none"
  /\ io # AtNext => memory[io.call] = "live" /\ status[io.call] = "FINISH"

Over ==
  \A c \in Calls :
    /\ memory[c] = "freed" => status[c] = "FINISH"
    /\ status[c] = "DONE" => Ends(handed[c])
    /\ status[c] = "FINISH" => refused[c] \/ Ends(handed[c])
    /\ Ends(handed[c]) => status[c] \in {"DONE", "FINISH"}

\* The end marker is nowhere but at the end.
EndLast(q) == \A i \in 1..Len(q) : q[i] = Null => i = Len(q)

HandedInOrder ==
  \A c \in Calls :
    /\ accepted[c] = handed[c] \o requests[c]
    /\ status[c] = "FROZEN" => requests[c] = <<>>
    /\ EndLast(handed[c])

EndedCall(t) == \E c \in Calls : tagOf[c] = t /\ status[c] = "FINISH" /\ Ends(handed[c])

ResponseEnded == \A t \in Tags : Answered(t) => EndedCall(t)

\* Of the signals behind the n-th, the first of t is closed, or will be.
Sealed(t, n) ==
  \/ \E j \in DOMAIN signals :
       /\ j > n /\ signals[j].tag = t /\ signals[j].kind = "closed"
       /\ \A k \in DOMAIN signals : n < k /\ k < j => signals[k].tag # t
  \/ /\ \A k \in DOMAIN signals : k > n => signals[k].tag # t
     /\ io.pc = "erase" /\ tagOf[io.call] = t

IsResult(e) == e.kind \in {"data", "error"}

HasResult(t) == \E i \in DOMAIN heard[t] : IsResult(heard[t][i])

Sealing ==
  \A t \in Tags :
    /\ \A i \in DOMAIN signals : signals[i].kind = "data" /\ signals[i].tag = t => Sealed(t, i)
    /\ t \in callbacks \ unwinding /\ HasResult(t) => Sealed(t, 0)

TagsOld ==
  /\ \A t \in callbacks : t <= lastTag
  /\ \A t \in Tags : t > lastTag => heard[t] = <<>>

IInv ==
  /\ GrpcContract
  /\ Fresh
  /\ Listed
  /\ Working
  /\ Over
  /\ HandedInOrder
  /\ ResponseEnded
  /\ Sealing
  /\ OneResult
  /\ TagsOld

-----------------------------------------------------------------------------
(* Queues of requests.                                                     *)

\* Where a queue contains the end marker.
LEMMA EndsOf ==
  ASSUME NEW q \in Seq(Requests)
  PROVE  /\ ~Ends(<<>>) /\ EndLast(<<>>)
         /\ \A r \in Requests : /\ Append(q, r) \in Seq(Requests)
                                /\ Ends(Append(q, r)) <=> Ends(q) \/ r = Null
                                /\ ~Ends(q) => EndLast(Append(q, r))
<1>1. ~Ends(<<>>) /\ EndLast(<<>>)
  BY DEF Ends, Holds, EndLast
<1>2. ASSUME NEW r \in Requests
      PROVE  /\ Append(q, r) \in Seq(Requests)
             /\ Ends(Append(q, r)) <=> Ends(q) \/ r = Null
             /\ ~Ends(q) => EndLast(Append(q, r))
  <2>1. Len(Append(q, r)) = Len(q) + 1 /\ Append(q, r)[Len(q) + 1] = r
    OBVIOUS
  <2>2. \A i \in 1..Len(q) : Append(q, r)[i] = q[i]
    OBVIOUS
  <2>3. 1..Len(Append(q, r)) = (1..Len(q)) \cup {Len(q) + 1}
    BY <2>1
  <2>4. Append(q, r) \in Seq(Requests)
    OBVIOUS
  <2> HIDE DEF Requests
  <2> QED
    BY <2>1, <2>2, <2>3, <2>4 DEF Ends, Holds, EndLast
<1> QED
  BY <1>1, <1>2

\* What is appended to the queue is appended to the whole.
LEMMA AppendConcat ==
  ASSUME NEW a \in Seq(Requests), NEW q \in Seq(Requests), NEW r \in Requests
  PROVE  Append(a \o q, r) = a \o Append(q, r)
OBVIOUS

\* An empty queue adds nothing.
LEMMA ConcatEmpty ==
  ASSUME NEW a \in Seq(Requests)
  PROVE  a \o <<>> = a
OBVIOUS

\* Moving the head of the queue to what was handed over loses nothing, and the
\* head is the next element of the whole.
LEMMA MoveHead ==
  ASSUME NEW a \in Seq(Requests), NEW q \in Seq(Requests), q # <<>>
  PROVE  /\ Append(a, Head(q)) \o Tail(q) = a \o q
         /\ Head(q) \in Requests /\ Tail(q) \in Seq(Requests)
         /\ Len(a) < Len(a \o q) /\ (a \o q)[Len(a) + 1] = Head(q)
OBVIOUS

\* If a ends with its only end marker, it is all of a \o q up to the end.
LEMMA UpToEndOf ==
  ASSUME NEW a \in Seq(Requests), NEW q \in Seq(Requests), Ends(a), EndLast(a)
  PROVE  Ends(a \o q) /\ UpToEnd(a \o q) = a
<1> DEFINE s == a \o q
           ends == {i \in 1..Len(s) : s[i] = Null}
<1>1. Len(s) = Len(a) + Len(q) /\ Len(a) \in Nat /\ Len(q) \in Nat
  OBVIOUS
<1>2. \A i \in 1..Len(a) : s[i] = a[i]
  OBVIOUS
<1>3. Len(a) \in ends /\ \A j \in ends : Len(a) <= j
  BY <1>1, <1>2 DEF Ends, Holds, EndLast
<1>4. \A k \in ends : (\A j \in ends : k <= j) => k = Len(a)
  BY <1>1, <1>3
<1>5. (CHOOSE i \in ends : \A j \in ends : i <= j) = Len(a)
  BY <1>3, <1>4
<1>6. SubSeq(s, 1, Len(a)) = a
  OBVIOUS
<1>7. Ends(s)
  BY <1>3 DEF Ends, Holds
<1> QED
  BY <1>3, <1>5, <1>6, <1>7 DEF UpToEnd

-----------------------------------------------------------------------------
(* The signals: what each kind of step does to Sealing and OneResult.      *)

SignalInv == CallbackTypeOK /\ Sealing /\ OneResult /\ TagsOld

\* Answered, but for the bounds of its quantifiers.
LEMMA AnsweredDomain ==
  ASSUME CallbackTypeOK, NEW t \in Tags
  PROVE  Answered(t) <=>
           \/ \E i \in DOMAIN signals : signals[i].tag = t /\ signals[i].kind = "data"
           \/ \E i \in DOMAIN heard[t] : heard[t][i].kind = "data"
<1>1. signals \in Seq(Signal) /\ heard[t] \in Seq(Event)
  BY DEF CallbackTypeOK
<1>2. DOMAIN signals = 1..Len(signals) /\ DOMAIN heard[t] = 1..Len(heard[t])
  BY <1>1
<1> QED
  BY <1>2 DEF Answered

\* A step of the IO or the QML thread that touches no signal.
LEMMA SilentStep ==
  ASSUME SignalInv, UNCHANGED callbackVars,
         io.pc = "erase" => io'.pc = "erase" /\ tagOf'[io'.call] = tagOf[io.call]
  PROVE  SignalInv' /\ \A t \in Tags : Answered(t)' => Answered(t)
<1>1. CallbackTypeOK' /\ OneResult' /\ TagsOld'
  BY DEF SignalInv, callbackVars, CallbackTypeOK, OneResult, TagsOld
<1>2. Sealing'
  BY DEF SignalInv, callbackVars, Sealing, Sealed, HasResult
<1>3. \A t \in Tags : Answered(t)' => Answered(t)
  BY DEF callbackVars, Answered
<1> QED
  BY <1>1, <1>2, <1>3 DEF SignalInv

\* A seal holds when a signal is queued, the awaited closed included.
LEMMA SealStays ==
  ASSUME signals \in Seq(Signal), NEW s \in Signal, signals' = signals \o <<s>>,
         io.pc = "erase" => s = ClosedOf(tagOf[io.call]),
         NEW t \in Tags, NEW n \in 0..Len(signals), Sealed(t, n)
  PROVE  Sealed(t, n)'
<1>1. /\ DOMAIN signals = 1..Len(signals) /\ Len(signals) \in Nat
      /\ DOMAIN signals' = 1..(Len(signals) + 1)
      /\ \A i \in 1..Len(signals) : signals'[i] = signals[i]
      /\ signals'[Len(signals) + 1] = s
  OBVIOUS
<1>2. CASE \E j \in DOMAIN signals :
             /\ j > n /\ signals[j].tag = t /\ signals[j].kind = "closed"
             /\ \A k \in DOMAIN signals : n < k /\ k < j => signals[k].tag # t
  <2>1. PICK j \in DOMAIN signals :
          /\ j > n /\ signals[j].tag = t /\ signals[j].kind = "closed"
          /\ \A k \in DOMAIN signals : n < k /\ k < j => signals[k].tag # t
    BY <1>2
  <2>2. j \in DOMAIN signals' /\ signals'[j] = signals[j]
    BY <1>1
  <2>3. \A k \in DOMAIN signals' : n < k /\ k < j => k \in DOMAIN signals /\ signals'[k] = signals[k]
    BY <1>1
  <2> QED
    BY <2>1, <2>2, <2>3 DEF Sealed
<1>3. CASE /\ \A k \in DOMAIN signals : k > n => signals[k].tag # t
           /\ io.pc = "erase" /\ tagOf[io.call] = t
  <2> DEFINE j == Len(signals) + 1
  <2>1. j \in DOMAIN signals' /\ j > n /\ signals'[j].tag = t /\ signals'[j].kind = "closed"
    BY <1>1, <1>3 DEF ClosedOf
  <2>2. \A k \in DOMAIN signals' : n < k /\ k < j => signals'[k].tag # t
    BY <1>1, <1>3
  <2> QED
    BY <2>1, <2>2 DEF Sealed
<1> QED
  BY <1>2, <1>3 DEF Sealed

\* One signal is queued: a response while its call is being ended, or closed,
\* or an error while no call is.
LEMMA EmitStep ==
  ASSUME SignalInv, NEW s \in Signal, Emit(<<s>>),
         io.pc = "erase" => s = ClosedOf(tagOf[io.call]),
         s.kind = "data" => io'.pc = "erase" /\ tagOf'[io'.call] = s.tag
  PROVE  /\ SignalInv'
         /\ \A t \in Tags : Answered(t)' => Answered(t) \/ (s.kind = "data" /\ s.tag = t)
<1>1. /\ signals \in Seq(Signal) /\ signals' = signals \o <<s>>
      /\ UNCHANGED <<lastTag, callbacks, heard, unwinding>>
  BY DEF SignalInv, CallbackTypeOK, Emit
<1>2. /\ DOMAIN signals = 1..Len(signals) /\ Len(signals) \in Nat
      /\ DOMAIN signals' = 1..(Len(signals) + 1)
      /\ \A i \in 1..Len(signals) : signals'[i] = signals[i]
      /\ signals'[Len(signals) + 1] = s
      /\ signals' \in Seq(Signal)
  BY <1>1
<1>3. CallbackTypeOK' /\ OneResult' /\ TagsOld'
  BY <1>1, <1>2 DEF SignalInv, CallbackTypeOK, OneResult, TagsOld
<1>4. Sealing'
  <2> SUFFICES ASSUME NEW t \in Tags
               PROVE  /\ \A i \in DOMAIN signals' :
                           signals'[i].kind = "data" /\ signals'[i].tag = t => Sealed(t, i)'
                      /\ t \in callbacks' \ unwinding' /\ HasResult(t)' => Sealed(t, 0)'
    BY DEF Sealing
  <2>1. ASSUME NEW i \in DOMAIN signals', signals'[i].kind = "data", signals'[i].tag = t
        PROVE  Sealed(t, i)'
    <3>1. CASE i \in DOMAIN signals
      <4>1. Sealed(t, i) /\ i \in 0..Len(signals)
        BY <2>1, <3>1, <1>2 DEF SignalInv, Sealing
      <4> QED
        BY <4>1, <1>1, SealStays
    <3>2. CASE i = Len(signals) + 1
      BY <2>1, <3>2, <1>2 DEF Sealed
    <3> QED
      BY <3>1, <3>2, <1>2
  <2>2. ASSUME t \in callbacks', t \notin unwinding', HasResult(t)'
        PROVE  Sealed(t, 0)'
    <3>1. Sealed(t, 0) /\ 0 \in 0..Len(signals)
      BY <2>2, <1>1, <1>2 DEF SignalInv, Sealing, HasResult
    <3> QED
      BY <3>1, <1>1, SealStays
  <2> QED
    BY <2>1, <2>2
<1>5. \A t \in Tags : Answered(t)' => Answered(t) \/ (s.kind = "data" /\ s.tag = t)
  <2>1. CallbackTypeOK /\ CallbackTypeOK'
    BY <1>3 DEF SignalInv
  <2> SUFFICES ASSUME NEW t \in Tags, Answered(t)'
               PROVE  Answered(t) \/ (s.kind = "data" /\ s.tag = t)
    OBVIOUS
  <2>2. \/ \E i \in DOMAIN signals' : signals'[i].tag = t /\ signals'[i].kind = "data"
        \/ \E i \in DOMAIN heard'[t] : heard'[t][i].kind = "data"
    BY <1>2, <1>3 DEF Answered, CallbackTypeOK
  <2> QED
    BY <2>1, <2>2, <1>1, <1>2, AnsweredDomain
<1> QED
  BY <1>3, <1>4, <1>5 DEF SignalInv

\* What a callback has heard, after one event more.
LEMMA HearsMore ==
  ASSUME CallbackTypeOK, NEW t \in Tags, NEW k \in {"data", "end", "error", "failed"},
         NEW v \in Payloads \cup {None}, Hears(t, k, v)
  PROVE  /\ heard' \in [Tags -> Seq(Event)]
         /\ \A u \in Tags : u # t => heard'[u] = heard[u]
         /\ DOMAIN heard[t] = 1..Len(heard[t]) /\ Len(heard[t]) \in Nat
         /\ DOMAIN heard'[t] = 1..(Len(heard[t]) + 1) /\ Len(heard'[t]) = Len(heard[t]) + 1
         /\ \A i \in 1..Len(heard[t]) : heard'[t][i] = heard[t][i]
         /\ heard'[t][Len(heard[t]) + 1].kind = k
<1> DEFINE e == [kind |-> k, value |-> v]
<1>1. e \in Event /\ e.kind = k
  BY DEF Event
<1> HIDE DEF e
<1>2. heard' = [heard EXCEPT ![t] = Append(@, e)] /\ heard \in [Tags -> Seq(Event)]
  BY DEF Hears, e, CallbackTypeOK
<1>3. Append(heard[t], e) \in Seq(Event) /\ heard'[t] = Append(heard[t], e)
  BY <1>1, <1>2
<1> QED
  BY <1>1, <1>2, <1>3

\* An event that is no result changes no result.
LEMMA HearsNoResult ==
  ASSUME CallbackTypeOK, NEW t \in Tags, NEW k \in {"end", "failed"}, Hears(t, k, None)
  PROVE  \A u \in Tags :
           /\ \A i \in DOMAIN heard'[u] : IsResult(heard'[u][i]) =>
                i \in DOMAIN heard[u] /\ heard'[u][i] = heard[u][i]
           /\ HasResult(u)' => HasResult(u)
<1>1. ASSUME NEW u \in Tags, NEW i \in DOMAIN heard'[u], IsResult(heard'[u][i])
      PROVE  i \in DOMAIN heard[u] /\ heard'[u][i] = heard[u][i]
  <2>1. CASE u = t
    BY <1>1, <2>1, HearsMore DEF IsResult
  <2>2. CASE u # t
    BY <1>1, <2>2, HearsMore
  <2> QED
    BY <2>1, <2>2
<1> QED
  BY <1>1 DEF HasResult

\* The events of a refusal are no results: Refused.
LEMMA RefusedStep ==
  ASSUME SignalInv, NEW t \in Tags, Refused(t), UNCHANGED <<io, tagOf>>
  PROVE  SignalInv' /\ \A u \in Tags : Answered(u)' => Answered(u)
<1>1. CallbackTypeOK /\ UNCHANGED <<lastTag, callbacks, signals>>
  BY DEF SignalInv, Refused
<1>2. CASE t \notin callbacks
  <2>1. UNCHANGED callbackVars
    BY <1>1, <1>2 DEF Refused, callbackVars
  <2> QED
    BY <2>1, SilentStep
<1>3. CASE t \in callbacks
  <2>1. Hears(t, "failed", None) /\ unwinding' = unwinding \cup {t}
    BY <1>3 DEF Refused
  <2>2. \A u \in Tags :
           /\ \A i \in DOMAIN heard'[u] : IsResult(heard'[u][i]) =>
                i \in DOMAIN heard[u] /\ heard'[u][i] = heard[u][i]
           /\ HasResult(u)' => HasResult(u)
    BY <1>1, <2>1, HearsNoResult
  <2>3. heard' \in [Tags -> Seq(Event)] /\ \A u \in Tags : u # t => heard'[u] = heard[u]
    BY <1>1, <2>1, HearsMore
  <2>4. CallbackTypeOK'
    BY <1>1, <2>1, <2>3 DEF CallbackTypeOK
  <2>5. Sealing'
    BY <1>1, <2>1, <2>2 DEF SignalInv, Sealing, Sealed
  <2>6. OneResult'
    <3>1. \A u \in Tags : DOMAIN heard'[u] = 1..Len(heard'[u]) /\ DOMAIN heard[u] = 1..Len(heard[u])
      BY <1>1, <2>3 DEF CallbackTypeOK
    <3> QED
      BY <2>2, <3>1 DEF SignalInv, OneResult, IsResult
  <2>7. TagsOld'
    <3>1. t <= lastTag /\ t \in Nat /\ lastTag \in Nat
      BY <1>1, <1>3, CallbackAssumption DEF SignalInv, TagsOld, CallbackTypeOK, Tags
    <3>2. \A u \in Tags : u > lastTag => u # t
      BY <3>1
    <3> QED
      BY <1>1, <2>3, <3>2 DEF SignalInv, TagsOld
  <2>8. ASSUME NEW u \in Tags, Answered(u)' PROVE Answered(u)
    <3>1. \/ \E i \in DOMAIN signals : signals[i].tag = u /\ signals[i].kind = "data"
          \/ \E i \in DOMAIN heard'[u] : heard'[u][i].kind = "data"
      BY <1>1, <2>3, <2>8 DEF Answered, CallbackTypeOK
    <3> QED
      BY <1>1, <2>2, <3>1, AnsweredDomain DEF IsResult
  <2> QED
    BY <2>4, <2>5, <2>6, <2>7, <2>8 DEF SignalInv
<1> QED
  BY <1>2, <1>3

\* The next tag has no past.
LEMMA NewTagStep ==
  ASSUME SignalInv, NewTag, UNCHANGED <<io, tagOf>>
  PROVE  SignalInv' /\ \A t \in Tags : Answered(t)' => Answered(t)
<1>1. /\ lastTag \in Nat /\ lastTag' = lastTag + 1 /\ lastTag' \in Tags
      /\ callbacks' = callbacks \cup {lastTag'}
      /\ UNCHANGED <<signals, heard, unwinding>>
  BY CallbackAssumption DEF SignalInv, CallbackTypeOK, NewTag, Tags
<1>2. heard[lastTag'] = <<>>
  BY <1>1 DEF SignalInv, TagsOld
<1>3. CallbackTypeOK'
  BY <1>1 DEF SignalInv, CallbackTypeOK, Tags
<1>4. ~HasResult(lastTag')
  BY <1>2 DEF HasResult
<1>5. Sealing'
  BY <1>1, <1>4 DEF SignalInv, Sealing, Sealed, HasResult
<1>6. OneResult'
  BY <1>1 DEF SignalInv, OneResult
<1>7. TagsOld'
  BY <1>1 DEF SignalInv, CallbackTypeOK, TagsOld, Tags
<1>8. \A t \in Tags : Answered(t)' => Answered(t)
  BY <1>1 DEF Answered
<1> QED
  BY <1>3, <1>5, <1>6, <1>7, <1>8 DEF SignalInv

\* What is left of the queue once the oldest signal is taken, and the seals.
LEMMA TakeBehind ==
  ASSUME signals \in Seq(Signal), signals # <<>>, signals' = Tail(signals), UNCHANGED <<io, tagOf>>
  PROVE  /\ Oldest \in Signal /\ signals' \in Seq(Signal) /\ Len(signals) \in Nat
         /\ DOMAIN signals = 1..Len(signals) /\ DOMAIN signals' = 1..(Len(signals) - 1)
         /\ 1 \in DOMAIN signals /\ Oldest = signals[1]
         /\ \A i \in DOMAIN signals' : i + 1 \in DOMAIN signals /\ signals'[i] = signals[i + 1]
         /\ \A t \in Tags, n \in Nat : Sealed(t, n + 1) => Sealed(t, n)'
         /\ \A t \in Tags : Sealed(t, 0) =>
              \/ Oldest.tag = t /\ Oldest.kind = "closed"
              \/ Oldest.tag # t /\ Sealed(t, 0)'
<1>1. /\ Oldest \in Signal /\ signals' \in Seq(Signal) /\ Len(signals) \in Nat
      /\ DOMAIN signals = 1..Len(signals) /\ DOMAIN signals' = 1..(Len(signals) - 1)
      /\ 1 \in DOMAIN signals /\ Oldest = signals[1]
      /\ \A i \in DOMAIN signals' : i + 1 \in DOMAIN signals /\ signals'[i] = signals[i + 1]
  BY DEF Oldest
<1>2. ASSUME NEW t \in Tags, NEW n \in Nat, Sealed(t, n + 1) PROVE Sealed(t, n)'
  <2>1. CASE \E j \in DOMAIN signals :
               /\ j > n + 1 /\ signals[j].tag = t /\ signals[j].kind = "closed"
               /\ \A k \in DOMAIN signals : n + 1 < k /\ k < j => signals[k].tag # t
    <3>1. PICK j \in DOMAIN signals :
            /\ j > n + 1 /\ signals[j].tag = t /\ signals[j].kind = "closed"
            /\ \A k \in DOMAIN signals : n + 1 < k /\ k < j => signals[k].tag # t
      BY <2>1
    <3>2. j - 1 \in DOMAIN signals' /\ j - 1 > n /\ signals'[j - 1] = signals[j]
      BY <3>1, <1>1
    <3>3. \A k \in DOMAIN signals' : n < k /\ k < j - 1 => signals'[k].tag # t
      BY <3>1, <1>1
    <3> QED
      BY <3>1, <3>2, <3>3 DEF Sealed
  <2>2. CASE /\ \A k \in DOMAIN signals : k > n + 1 => signals[k].tag # t
             /\ io.pc = "erase" /\ tagOf[io.call] = t
    <3>1. \A k \in DOMAIN signals' : k > n => signals'[k].tag # t
      BY <2>2, <1>1
    <3> QED
      BY <3>1, <2>2 DEF Sealed
  <2> QED
    BY <1>2, <2>1, <2>2 DEF Sealed
<1>3. ASSUME NEW t \in Tags, Sealed(t, 0)
      PROVE  \/ Oldest.tag = t /\ Oldest.kind = "closed"
             \/ Oldest.tag # t /\ Sealed(t, 0)'
  <2>1. CASE Oldest.tag = t
    BY <2>1, <1>1, <1>3 DEF Sealed
  <2>2. CASE Oldest.tag # t
    <3>1. CASE \E j \in DOMAIN signals :
                 /\ j > 0 /\ signals[j].tag = t /\ signals[j].kind = "closed"
                 /\ \A k \in DOMAIN signals : 0 < k /\ k < j => signals[k].tag # t
      <4>1. PICK j \in DOMAIN signals :
              /\ j > 0 /\ signals[j].tag = t /\ signals[j].kind = "closed"
              /\ \A k \in DOMAIN signals : 0 < k /\ k < j => signals[k].tag # t
        BY <3>1
      <4>2. j > 1
        BY <4>1, <2>2, <1>1
      <4>3. Sealed(t, 0 + 1)
        BY <4>1, <4>2, <1>1 DEF Sealed
      <4> QED
        BY <4>3, <2>2, <1>2
    <3>2. CASE /\ \A k \in DOMAIN signals : k > 0 => signals[k].tag # t
               /\ io.pc = "erase" /\ tagOf[io.call] = t
      <4>1. Sealed(t, 0 + 1)
        BY <3>2, <1>1 DEF Sealed
      <4> QED
        BY <4>1, <2>2, <1>2
    <3> QED
      BY <1>3, <3>1, <3>2 DEF Sealed
  <2> QED
    BY <2>1, <2>2
<1> QED
  BY <1>1, <1>2, <1>3

\* The first result that a callback hears is its only one.
LEMMA FirstResult ==
  ASSUME CallbackTypeOK, OneResult, NEW t \in Tags, ~HasResult(t),
         NEW k \in {"data", "error"}, NEW v \in Payloads \cup {None}, Hears(t, k, v)
  PROVE  OneResult' /\ \A u \in Tags : u # t /\ HasResult(u)' => HasResult(u)
<1>1. /\ heard' \in [Tags -> Seq(Event)]
      /\ \A u \in Tags : u # t => heard'[u] = heard[u]
      /\ DOMAIN heard[t] = 1..Len(heard[t]) /\ Len(heard[t]) \in Nat
      /\ DOMAIN heard'[t] = 1..(Len(heard[t]) + 1) /\ Len(heard'[t]) = Len(heard[t]) + 1
      /\ \A i \in 1..Len(heard[t]) : heard'[t][i] = heard[t][i]
  BY HearsMore
<1>2. \A i \in 1..Len(heard'[t]) : IsResult(heard'[t][i]) => i = Len(heard[t]) + 1
  BY <1>1 DEF HasResult
<1>3. \A u \in Tags : \A i, j \in 1..Len(heard'[u]) :
        IsResult(heard'[u][i]) /\ IsResult(heard'[u][j]) => i = j
  <2> SUFFICES ASSUME NEW u \in Tags, NEW i \in 1..Len(heard'[u]), NEW j \in 1..Len(heard'[u]),
                      IsResult(heard'[u][i]), IsResult(heard'[u][j])
               PROVE  i = j
    OBVIOUS
  <2>1. CASE u = t
    BY <2>1, <1>2
  <2>2. CASE u # t
    BY <2>2, <1>1 DEF OneResult, IsResult
  <2> QED
    BY <2>1, <2>2
<1> QED
  BY <1>1, <1>3 DEF OneResult, IsResult, HasResult

\* No event that is no result makes a second one of the first.
LEMMA NoResult ==
  ASSUME CallbackTypeOK, OneResult, NEW t \in Tags, NEW k \in {"end", "failed"},
         Hears(t, k, None)
  PROVE  OneResult'
<1>1. heard' \in [Tags -> Seq(Event)]
  BY HearsMore
<1>2. \A u \in Tags : DOMAIN heard'[u] = 1..Len(heard'[u]) /\ DOMAIN heard[u] = 1..Len(heard[u])
  BY <1>1 DEF CallbackTypeOK
<1> QED
  BY <1>2, HearsNoResult DEF OneResult, IsResult

\* The oldest signal is delivered: the callback that hears a result from it has
\* heard none.
LEMMA TakeStep ==
  ASSUME SignalInv, DeliverData \/ DeliverDataEnd \/ DeliverError \/ DeliverClosed,
         UNCHANGED <<io, tagOf>>
  PROVE  SignalInv' /\ \A t \in Tags : Answered(t)' => Answered(t)
<1> DEFINE o == Oldest
<1>1. /\ signals \in Seq(Signal) /\ signals # <<>> /\ signals' = Tail(signals)
      /\ unwinding = {} /\ UNCHANGED lastTag
      /\ CallbackTypeOK /\ OneResult
  BY DEF SignalInv, CallbackTypeOK, DeliverData, DeliverDataEnd, DeliverError, DeliverClosed, Take
<1>2. /\ o \in Signal /\ signals' \in Seq(Signal)
      /\ DOMAIN signals = 1..Len(signals)
      /\ 1 \in DOMAIN signals /\ o = signals[1]
      /\ \A i \in DOMAIN signals' : i + 1 \in DOMAIN signals /\ signals'[i] = signals[i + 1]
      /\ DOMAIN signals' \subseteq Nat
      /\ \A t \in Tags, n \in Nat : Sealed(t, n + 1) => Sealed(t, n)'
      /\ \A t \in Tags : Sealed(t, 0) => \/ o.tag = t /\ o.kind = "closed"
                                         \/ o.tag # t /\ Sealed(t, 0)'
  BY <1>1, TakeBehind
<1>3. o.tag \in Tags /\ o.value \in Payloads \cup {None}
  BY <1>2 DEF Signal
<1>4. \A t \in callbacks : HasResult(t) => \/ o.tag = t /\ o.kind = "closed"
                                           \/ o.tag # t /\ Sealed(t, 0)'
  BY <1>1, <1>2 DEF SignalInv, CallbackTypeOK, Sealing
<1>5. \A t \in Tags : o.kind = "data" /\ o.tag = t => Sealed(t, 0)'
  <2> SUFFICES ASSUME NEW t \in Tags, o.kind = "data", o.tag = t PROVE Sealed(t, 0)'
    OBVIOUS
  <2>1. Sealed(t, 0 + 1)
    BY <1>2 DEF SignalInv, Sealing
  <2> QED
    BY <2>1, <1>2
<1>6. \A t \in Tags : \A i \in DOMAIN signals' :
        signals'[i].kind = "data" /\ signals'[i].tag = t => Sealed(t, i)'
  BY <1>2 DEF SignalInv, Sealing
<1> HIDE DEF o
<1>7. ASSUME heard' \in [Tags -> Seq(Event)], OneResult',
             callbacks' \subseteq callbacks, unwinding' \subseteq Tags,
             \A t \in Tags : t \notin callbacks => heard'[t] = heard[t],
             \A t \in callbacks' \ unwinding' : HasResult(t)' => Sealed(t, 0)',
             \A t \in Tags : \A i \in DOMAIN heard'[t] : heard'[t][i].kind = "data" =>
               \/ \E j \in DOMAIN heard[t] : heard[t][j].kind = "data"
               \/ o.kind = "data" /\ o.tag = t
      PROVE  SignalInv' /\ \A t \in Tags : Answered(t)' => Answered(t)
  <2>1. CallbackTypeOK'
    BY <1>1, <1>2, <1>7 DEF CallbackTypeOK
  <2>2. Sealing'
    BY <1>6, <1>7 DEF Sealing
  <2>3. TagsOld'
    <3>1. \A t \in Tags : t > lastTag => t \notin callbacks
      BY <1>1, CallbackAssumption DEF SignalInv, TagsOld, CallbackTypeOK, Tags
    <3> QED
      BY <3>1, <1>1, <1>7 DEF SignalInv, TagsOld
  <2>4. ASSUME NEW t \in Tags, Answered(t)' PROVE Answered(t)
    <3>1. \/ \E i \in DOMAIN signals' : signals'[i].tag = t /\ signals'[i].kind = "data"
          \/ \E i \in DOMAIN heard'[t] : heard'[t][i].kind = "data"
      BY <1>2, <1>7, <2>4 DEF Answered
    <3> QED
      BY <3>1, <1>1, <1>2, <1>7, AnsweredDomain
  <2> QED
    BY <1>7, <2>1, <2>2, <2>3, <2>4 DEF SignalInv
<1>8. CASE UNCHANGED heard /\ callbacks' = callbacks \ {o.tag} /\ UNCHANGED unwinding
  <2>1. OneResult' /\ heard' \in [Tags -> Seq(Event)]
    BY <1>1, <1>8 DEF CallbackTypeOK, OneResult
  <2>2. \A t \in callbacks' \ unwinding' : HasResult(t)' => Sealed(t, 0)'
    BY <1>4, <1>8 DEF HasResult
  <2> QED
    BY <1>1, <1>7, <1>8, <2>1, <2>2
<1>9. CASE UNCHANGED <<heard, callbacks, unwinding>> /\ o.kind # "closed"
  <2>1. OneResult' /\ heard' \in [Tags -> Seq(Event)] /\ unwinding \subseteq Tags
    BY <1>1, <1>9 DEF CallbackTypeOK, OneResult
  <2>2. \A t \in callbacks' \ unwinding' : HasResult(t)' => Sealed(t, 0)'
    BY <1>4, <1>9 DEF HasResult
  <2> QED
    BY <1>1, <1>7, <1>9, <2>1, <2>2
<1>10. CASE /\ o.tag \in callbacks /\ o.kind \in {"data", "error"}
            /\ Hears(o.tag, o.kind, IF o.kind = "data" THEN o.value ELSE None)
            /\ UNCHANGED callbacks
            /\ unwinding' = IF o.kind = "data" THEN {} ELSE {o.tag}
  <2> DEFINE v == IF o.kind = "data" THEN o.value ELSE None
  <2>1. ~HasResult(o.tag) /\ o.kind # "closed" /\ v \in Payloads \cup {None}
    BY <1>3, <1>4, <1>10
  <2> HIDE DEF v
  <2>2. Hears(o.tag, o.kind, v)
    BY <1>10 DEF v
  <2>3. OneResult' /\ \A u \in Tags : u # o.tag /\ HasResult(u)' => HasResult(u)
    BY <1>1, <1>3, <1>10, <2>1, <2>2, FirstResult
  <2>4. /\ heard' \in [Tags -> Seq(Event)]
        /\ \A u \in Tags : u # o.tag => heard'[u] = heard[u]
        /\ DOMAIN heard[o.tag] = 1..Len(heard[o.tag]) /\ Len(heard[o.tag]) \in Nat
        /\ DOMAIN heard'[o.tag] = 1..(Len(heard[o.tag]) + 1)
        /\ \A i \in 1..Len(heard[o.tag]) : heard'[o.tag][i] = heard[o.tag][i]
        /\ heard'[o.tag][Len(heard[o.tag]) + 1].kind = o.kind
    BY <1>1, <1>3, <1>10, <2>1, <2>2, HearsMore
  <2>5. \A t \in callbacks' \ unwinding' : HasResult(t)' => Sealed(t, 0)'
    <3>1. callbacks' \subseteq Tags
      BY <1>1, <1>10 DEF CallbackTypeOK
    <3> QED
      BY <3>1, <1>4, <1>5, <1>10, <2>3
  <2>6. \A t \in Tags : \A i \in DOMAIN heard'[t] : heard'[t][i].kind = "data" =>
          \/ \E j \in DOMAIN heard[t] : heard[t][j].kind = "data"
          \/ o.kind = "data" /\ o.tag = t
    BY <2>4
  <2> QED
    BY <1>3, <1>7, <1>10, <2>3, <2>4, <2>5, <2>6
<1>11. CASE o.kind = "dataEnd" /\ Hears(o.tag, "end", None) /\ UNCHANGED <<callbacks, unwinding>>
            /\ o.tag \in callbacks
  <2>1. OneResult' /\ heard' \in [Tags -> Seq(Event)] /\ \A u \in Tags : u # o.tag => heard'[u] = heard[u]
    BY <1>1, <1>3, <1>11, NoResult, HearsMore
  <2>2. \A u \in Tags :
           /\ \A i \in DOMAIN heard'[u] : IsResult(heard'[u][i]) =>
                i \in DOMAIN heard[u] /\ heard'[u][i] = heard[u][i]
           /\ HasResult(u)' => HasResult(u)
    BY <1>1, <1>3, <1>11, HearsNoResult
  <2>3. \A t \in callbacks' \ unwinding' : HasResult(t)' => Sealed(t, 0)'
    <3>1. callbacks' \subseteq Tags
      BY <1>1, <1>11 DEF CallbackTypeOK
    <3> QED
      BY <3>1, <1>4, <1>11, <2>2
  <2> QED
    BY <1>1, <1>7, <1>11, <2>1, <2>2, <2>3 DEF IsResult
<1>12. CASE DeliverData
  <2>1. o.kind = "data" /\ UNCHANGED <<callbacks, unwinding>>
        /\ (UNCHANGED heard \/ (o.tag \in callbacks /\ Hears(o.tag, "data", o.value)))
    BY <1>12 DEF DeliverData, Take, o
  <2> QED
    BY <2>1, <1>1, <1>9, <1>10
<1>13. CASE DeliverError
  <2>1. o.kind = "error" /\ UNCHANGED callbacks
        /\ \/ UNCHANGED <<heard, unwinding>>
           \/ o.tag \in callbacks /\ Hears(o.tag, "error", None) /\ unwinding' = {o.tag}
    BY <1>13 DEF DeliverError, Take, o
  <2> QED
    BY <2>1, <1>9, <1>10
<1>14. CASE DeliverDataEnd
  BY <1>14, <1>9, <1>11 DEF DeliverDataEnd, Take, o
<1>15. CASE DeliverClosed
  BY <1>15, <1>8 DEF DeliverClosed, Take, o
<1> QED
  BY <1>12, <1>13, <1>14, <1>15

\* The QML event loop delivers a signal, or the callback told of a failure
\* returns and is forgotten.
LEMMA DeliverStep ==
  ASSUME SignalInv, Deliver, UNCHANGED <<io, tagOf>>
  PROVE  SignalInv' /\ \A t \in Tags : Answered(t)' => Answered(t)
<1>1. CASE Unwind
  <2>1. PICK u \in unwinding : /\ callbacks' = callbacks \ {u} /\ unwinding' = unwinding \ {u}
                               /\ UNCHANGED <<lastTag, signals, heard>>
    BY <1>1 DEF Unwind
  <2>2. CallbackTypeOK' /\ OneResult' /\ TagsOld'
    BY <2>1 DEF SignalInv, CallbackTypeOK, OneResult, TagsOld
  <2>3. Sealing'
    BY <2>1 DEF SignalInv, Sealing, Sealed, HasResult
  <2>4. \A t \in Tags : Answered(t)' => Answered(t)
    BY <2>1 DEF Answered
  <2> QED
    BY <2>2, <2>3, <2>4 DEF SignalInv
<1> QED
  BY <1>1, TakeStep DEF Deliver

-----------------------------------------------------------------------------
(* The calls.                                                              *)

LEMMA SignalsOf == IInv => SignalInv
BY DEF IInv, GrpcContract, TypeOK, SignalInv

\* No call object yet.
LEMMA InitIInv == Init => IInv
<1> SUFFICES ASSUME Init PROVE IInv
  OBVIOUS
<1> USE CallbackAssumption, WriterAssumption
<1>1. TypeOK
  <2>1. CallbackTypeOK
    BY DEF Init, CallbackInit, CallbackTypeOK, Tags
  <2>2. /\ requests \in [Calls -> Seq(Requests)] /\ accepted \in [Calls -> Seq(Requests)]
        /\ handed \in [Calls -> Seq(Requests)]
    BY DEF Init
  <2>3. ops \in 0..MaxOps
    BY DEF Init
  <2> QED
    BY <2>1, <2>2, <2>3 DEF Init, TypeOK, Statuses
<1>2. GrpcContract
  BY <1>1 DEF Init, GrpcContract
<1>3. Fresh /\ Listed
  BY DEF Init, Fresh, Listed
<1>4. Working
  BY DEF Init, Working
<1>5. Over
  <2>1. \A c \in Calls : handed[c] = <<>> /\ status[c] = "INIT" /\ memory[c] = "none"
    BY DEF Init
  <2>2. ~Ends(<<>>)
    BY DEF Ends, Holds
  <2> QED
    BY <2>1, <2>2 DEF Over
<1>6. HandedInOrder
  <2>1. \A c \in Calls : /\ accepted[c] = <<>> /\ handed[c] = <<>> /\ requests[c] = <<>>
                         /\ status[c] = "INIT"
    BY DEF Init
  <2>2. <<>> \in Seq(Requests) /\ <<>> \o <<>> = <<>>
    OBVIOUS
  <2> QED
    BY <2>1, <2>2, EndsOf DEF HandedInOrder
<1>7. /\ ResponseEnded /\ OneResult
      /\ \A t \in Tags : ~HasResult(t)
  BY DEF Init, CallbackInit, ResponseEnded, Answered, OneResult, HasResult
<1>8. Sealing /\ TagsOld
  BY <1>7 DEF Init, CallbackInit, Sealing, TagsOld
<1> QED
  BY <1>2, <1>3, <1>4, <1>5, <1>6, <1>7, <1>8 DEF IInv

\* A call that was ended and is finishing stays what it is.
LEMMA EndedStays ==
  ASSUME ResponseEnded,
         \A t \in Tags : Answered(t)' => Answered(t),
         \A c \in Calls : status[c] = "FINISH" =>
           tagOf'[c] = tagOf[c] /\ status'[c] = "FINISH" /\ handed'[c] = handed[c]
  PROVE  ResponseEnded'
BY DEF ResponseEnded, EndedCall, Ends, Holds

\* A step that changes no call.
LEMMA QuietStep ==
  ASSUME IInv, UNCHANGED <<callVars, io>>, SignalInv',
         \A t \in Tags : Answered(t)' => Answered(t), ops' \in 0..MaxOps,
         \/ qml' = Idle
         \/ /\ qml' \in [op : QmlOps, tag : Tags, call : Calls, request : Requests]
            /\ memory[qml'.call] # "none"
  PROVE  IInv'
<1>1. GrpcContract'
  BY DEF IInv, GrpcContract, TypeOK, SignalInv, callVars, Dying
<1>2. Fresh' /\ Listed'
  BY DEF IInv, Fresh, Listed, Unlisted, callVars
<1>5. Over'
  BY DEF IInv, Over, callVars, Ends, Holds
<1>6. HandedInOrder'
  BY DEF IInv, HandedInOrder, callVars, EndLast
<1>3. Working'
  BY DEF IInv, Working, callVars
<1>4. ResponseEnded'
  BY EndedStays DEF IInv, callVars
<1> QED
  BY <1>1, <1>2, <1>3, <1>4, <1>5, <1>6 DEF IInv, SignalInv

LEMMA CallIInv ==
  ASSUME IInv, Call
  PROVE  IInv'
<1>1. SignalInv' /\ \A t \in Tags : Answered(t)' => Answered(t)
  BY SignalsOf, NewTagStep DEF Call, callVars
<1> QED
  BY <1>1, QuietStep DEF Call, IInv, GrpcContract, TypeOK

\* A call found in calls_ is alive; a new one is INIT with one operation.
LEMMA EnsureIInv ==
  ASSUME IInv, NEW t \in Tags, NEW op \in QmlOps, NEW r \in Requests, MayAct,
         ensureCallData(t, op, r), ops' = ops + 1, UNCHANGED <<callbackVars, io>>
  PROVE  IInv'
<1> USE CallbackAssumption, WriterAssumption
<1>1. ops' \in 0..MaxOps /\ ops \in Nat
  BY DEF IInv, GrpcContract, TypeOK, MayAct
<1>2. CASE /\ calls[t] # NoCall
           /\ qml' = [op |-> op, tag |-> t, call |-> calls[t], request |-> r]
           /\ UNCHANGED callVars
  <2>1. calls[t] \in Calls /\ memory[calls[t]] = "live"
    BY <1>2 DEF IInv, GrpcContract, TypeOK, Listed
  <2>2. SignalInv' /\ \A u \in Tags : Answered(u)' => Answered(u)
    BY <1>2, SignalsOf, SilentStep DEF callVars
  <2> QED
    BY <1>1, <1>2, <2>1, <2>2, QuietStep
<1>3. CASE /\ calls[t] = NoCall
           /\ \E c \in Calls :
                /\ memory[c] = "none"
                /\ memory' = [memory EXCEPT ![c] = "live"]
                /\ calls' = [calls EXCEPT ![t] = c]
                /\ tagOf' = [tagOf EXCEPT ![c] = t]
                /\ outstanding' = [outstanding EXCEPT ![c] = 1]
                /\ qml' = [op |-> op, tag |-> t, call |-> c, request |-> r]
           /\ UNCHANGED <<status, requests, refused, accepted, handed>>
  <2>1. PICK c \in Calls :
          /\ memory[c] = "none"
          /\ memory' = [memory EXCEPT ![c] = "live"]
          /\ calls' = [calls EXCEPT ![t] = c]
          /\ tagOf' = [tagOf EXCEPT ![c] = t]
          /\ outstanding' = [outstanding EXCEPT ![c] = 1]
          /\ qml' = [op |-> op, tag |-> t, call |-> c, request |-> r]
    BY <1>3
  <2>2. status[c] = "INIT" /\ (io # AtNext => io.call # c)
    BY <2>1 DEF IInv, Fresh, Working
  <2>3. TypeOK
    BY DEF IInv, GrpcContract
  <2>4. SignalInv' /\ \A u \in Tags : Answered(u)' => Answered(u)
    <3>1. io.pc = "erase" => io # AtNext /\ io.call \in Calls
      BY <2>3 DEF TypeOK, AtNext
    <3>2. io.pc = "erase" => io'.pc = "erase" /\ tagOf'[io'.call] = tagOf[io.call]
      BY <2>1, <2>2, <2>3, <3>1 DEF TypeOK
    <3> QED
      BY <3>2, SignalsOf, SilentStep
  <2>5. TypeOK'
    <3>1. /\ memory' \in [Calls -> {"none", "live", "freed"}]
          /\ calls' \in [Tags -> Calls \cup {NoCall}]
          /\ tagOf' \in [Calls -> Tags \cup {0}]
          /\ outstanding' \in [Calls -> Nat]
      BY <2>1, <2>3 DEF TypeOK
    <3>2. qml' \in [op : QmlOps, tag : Tags, call : Calls, request : Requests]
      BY <2>1
    <3> QED
      BY <1>1, <1>3, <2>3, <2>4, <3>1, <3>2 DEF TypeOK, SignalInv
  <2>6. GrpcContract'
    <3>1. \A d \in Calls :
            outstanding'[d] =
              IF memory'[d] = "live" /\ status[d] # "FROZEN" /\ ~(io # AtNext /\ io.call = d)
                THEN 1 ELSE 0
      BY <2>1, <2>2, <2>3 DEF IInv, GrpcContract, TypeOK, Dying
    <3> QED
      BY <1>3, <2>5, <3>1 DEF GrpcContract, Dying
  <2>7. Fresh' /\ Over'
    BY <1>3, <2>1, <2>2, <2>3 DEF IInv, TypeOK, Fresh, Over, Ends, Holds
  <2>8. Listed'
    <3>1. ~Unlisted(c)
      BY <2>2, <2>3 DEF TypeOK, Unlisted, AtNext
    <3>2. \A d \in Calls \ {c} : memory[d] = "live" /\ ~Unlisted(d) => tagOf[d] # t
      BY <1>3 DEF IInv, Listed
    <3>3. \A u \in Tags : calls[u] # c
      <4>1. \A u \in Tags : calls[u] # NoCall => memory[calls[u]] = "live"
        BY DEF IInv, Listed
      <4> QED
        BY <2>1, <4>1
    <3> QED
      BY <2>1, <2>3, <3>1, <3>2, <3>3 DEF IInv, Listed, TypeOK, Unlisted
  <2>9. Working'
    BY <1>3, <2>1, <2>2, <2>3 DEF IInv, TypeOK, Working
  <2>10. HandedInOrder'
    BY <1>3 DEF IInv, HandedInOrder, EndLast
  <2>11. ResponseEnded'
    BY <1>3, <2>1, <2>2, <2>3, <2>4, EndedStays DEF IInv, TypeOK
  <2> QED
    BY <2>4, <2>6, <2>7, <2>8, <2>9, <2>10, <2>11 DEF IInv, SignalInv
<1> QED
  BY <1>2, <1>3 DEF ensureCallData

LEMMA BeginWriteIInv ==
  ASSUME IInv, NEW t \in Tags, NEW m \in Messages, BeginWrite(t, m)
  PROVE  IInv'
BY EnsureIInv DEF BeginWrite, QmlOps, Requests

LEMMA BeginSetTimeoutIInv ==
  ASSUME IInv, NEW t \in Tags, BeginSetTimeout(t)
  PROVE  IInv'
BY EnsureIInv DEF BeginSetTimeout, QmlOps, Requests

\* end() without a call is refused.
LEMMA BeginEndIInv ==
  ASSUME IInv, NEW t \in Tags, BeginEnd(t)
  PROVE  IInv'
<1>1. TypeOK /\ ops' \in 0..MaxOps
  BY WriterAssumption DEF IInv, GrpcContract, TypeOK, BeginEnd, MayAct
<1>2. UNCHANGED <<callVars, io>> /\ UNCHANGED tagOf /\ qml = Idle
  BY DEF BeginEnd, MayAct, callVars
<1>3. CASE /\ calls[t] # NoCall
           /\ qml' = [op |-> "writesDone", tag |-> t, call |-> calls[t], request |-> Null]
           /\ UNCHANGED callbackVars
  <2>1. calls[t] \in Calls /\ memory[calls[t]] = "live"
    BY <1>1, <1>3 DEF IInv, TypeOK, Listed
  <2>2. qml' \in [op : QmlOps, tag : Tags, call : Calls, request : Requests]
    BY <1>3, <2>1 DEF QmlOps, Requests
  <2>3. SignalInv' /\ \A u \in Tags : Answered(u)' => Answered(u)
    BY <1>2, <1>3, SignalsOf, SilentStep
  <2> QED
    BY <1>1, <1>2, <1>3, <2>1, <2>2, <2>3, QuietStep
<1>4. CASE Refused(t) /\ UNCHANGED qml
  <2>1. SignalInv' /\ \A u \in Tags : Answered(u)' => Answered(u)
    BY <1>2, <1>4, SignalsOf, RefusedStep
  <2> QED
    BY <1>1, <1>2, <1>4, <2>1, QuietStep
<1> QED
  BY <1>3, <1>4 DEF BeginEnd

LEMMA BeginTimeoutIInv ==
  ASSUME IInv, NEW t \in Tags, BeginTimeout(t)
  PROVE  IInv'
<1>1. TypeOK /\ ops' \in 0..MaxOps
  BY WriterAssumption DEF IInv, GrpcContract, TypeOK, BeginTimeout, MayAct
<1>2. UNCHANGED <<callbackVars, callVars, io>> /\ UNCHANGED tagOf
  BY DEF BeginTimeout, callVars
<1>3. calls[t] \in Calls /\ memory[calls[t]] = "live"
  BY <1>1 DEF IInv, TypeOK, Listed, BeginTimeout
<1>4. qml' \in [op : QmlOps, tag : Tags, call : Calls, request : Requests] /\ qml'.call = calls[t]
  BY <1>3 DEF QmlOps, Requests, BeginTimeout
<1>5. SignalInv' /\ \A u \in Tags : Answered(u)' => Answered(u)
  BY <1>2, SignalsOf, SilentStep
<1> QED
  BY <1>1, <1>2, <1>3, <1>4, <1>5, QuietStep

LEMMA EndTimeoutIInv ==
  ASSUME IInv, EndTimeout
  PROVE  IInv'
<1>1. UNCHANGED <<callbackVars, callVars, io, ops>> /\ UNCHANGED tagOf /\ qml' = Idle
  BY DEF EndTimeout, callVars
<1>2. SignalInv' /\ \A u \in Tags : Answered(u)' => Answered(u)
  BY <1>1, SignalsOf, SilentStep
<1> QED
  BY <1>1, <1>2, QuietStep DEF IInv, GrpcContract, TypeOK

LEMMA QmlDeliverIInv ==
  ASSUME IInv, QmlDeliver
  PROVE  IInv'
<1>1. UNCHANGED <<callVars, qml, io, ops>> /\ UNCHANGED tagOf /\ qml' = Idle /\ Deliver
  BY DEF QmlDeliver, callVars
<1>2. SignalInv' /\ \A u \in Tags : Answered(u)' => Answered(u)
  BY <1>1, SignalsOf, DeliverStep
<1> QED
  BY <1>1, <1>2, QuietStep DEF IInv, GrpcContract, TypeOK


\* write() or writesDone() on the pointer looked up.
LEMMA EndWriteIInv ==
  ASSUME IInv, EndWrite
  PROVE  IInv'
<1> USE CallbackAssumption, WriterAssumption
<1> DEFINE c == qml.call
           r == qml.request
<1>1. TypeOK /\ CallbackTypeOK /\ SignalInv
  BY SignalsOf DEF IInv, GrpcContract, SignalInv
<1>2. /\ qml.op \in QmlOps /\ c \in Calls /\ r \in Requests /\ qml.tag \in Tags /\ qml # Idle
      /\ qml' = Idle /\ UNCHANGED <<calls, memory, tagOf, refused, io, ops>>
  BY <1>1 DEF TypeOK, EndWrite, Using, Return, Idle
<1>3. SignalInv' /\ \A u \in Tags : Answered(u)' => Answered(u)
  <2>1. UNCHANGED callbackVars \/ Refused(qml.tag)
    BY DEF EndWrite, Return
  <2> QED
    BY <1>1, <1>2, <2>1, SilentStep, RefusedStep
<1>4. CASE UNCHANGED <<status, requests, outstanding, accepted, handed>>
  BY <1>1, <1>2, <1>3, <1>4, QuietStep DEF callVars, TypeOK
<1>5. /\ requests[c] \in Seq(Requests) /\ accepted[c] \in Seq(Requests) /\ handed[c] \in Seq(Requests)
      /\ accepted[c] = handed[c] \o requests[c]
  BY <1>1, <1>2 DEF TypeOK, IInv, HandedInOrder
<1>6. CASE /\ ~Dangling /\ status[c] = "FROZEN"
           /\ Hand(c, r)
           /\ outstanding' = [outstanding EXCEPT ![c] = @ + 1]
           /\ accepted' = [accepted EXCEPT ![c] = Append(@, r)]
           /\ UNCHANGED requests
  <2>1. memory[c] = "live" /\ outstanding[c] = 0
    BY <1>1, <1>2, <1>6 DEF IInv, Working, GrpcContract, TypeOK, Dangling
  <2>2. ~(io # AtNext /\ io.call = c)
    BY <1>6 DEF IInv, Working
  <2>3. /\ status' = [status EXCEPT ![c] = IF r = Null THEN "DONE" ELSE "WRITE"]
        /\ handed' = [handed EXCEPT ![c] = Append(@, r)]
    BY <1>6 DEF Hand
  <2>4. ~Ends(handed[c]) /\ requests[c] = <<>> /\ accepted[c] = handed[c]
    <3>1. ~Ends(handed[c]) /\ requests[c] = <<>>
      BY <1>2, <1>6 DEF IInv, Over, HandedInOrder
    <3> QED
      BY <3>1, <1>5, ConcatEmpty
  <2>5. /\ Append(handed[c], r) \in Seq(Requests)
        /\ Ends(Append(handed[c], r)) <=> r = Null
        /\ EndLast(Append(handed[c], r))
        /\ Append(handed[c], r) \o <<>> = Append(handed[c], r)
    BY <1>2, <1>5, <2>4, EndsOf, ConcatEmpty
  <2> HIDE DEF c, r
  <2>6. TypeOK'
    <3>1. /\ status' \in [Calls -> Statuses] /\ outstanding' \in [Calls -> Nat]
          /\ handed' \in [Calls -> Seq(Requests)] /\ accepted' \in [Calls -> Seq(Requests)]
      BY <1>1, <1>2, <1>6, <2>3, <2>4, <2>5 DEF TypeOK, Statuses
    <3> QED
      BY <1>1, <1>2, <1>3, <1>6, <3>1 DEF TypeOK, SignalInv
  <2>7. GrpcContract'
    <3>1. \A d \in Calls :
            outstanding'[d] =
              IF memory[d] = "live" /\ status'[d] # "FROZEN" /\ ~(io # AtNext /\ io.call = d)
                THEN 1 ELSE 0
      BY <1>1, <1>2, <1>6, <2>1, <2>2, <2>3 DEF IInv, GrpcContract, TypeOK, Dying
    <3> QED
      BY <1>2, <2>6, <3>1 DEF GrpcContract, Dying
  <2>8. Fresh' /\ Listed'
    BY <1>1, <1>2, <2>1, <2>3 DEF IInv, TypeOK, Fresh, Listed, Unlisted
  <2>9. Working'
    BY <1>1, <1>2, <2>2, <2>3 DEF IInv, TypeOK, Working
  <2>10. Over'
    <3> SUFFICES ASSUME NEW d \in Calls
                 PROVE  /\ memory[d] = "freed" => status'[d] = "FINISH"
                        /\ status'[d] = "DONE" => Ends(handed'[d])
                        /\ status'[d] = "FINISH" => refused[d] \/ Ends(handed'[d])
                        /\ Ends(handed'[d]) => status'[d] \in {"DONE", "FINISH"}
      BY <1>2 DEF Over, Ends, Holds
    <3>1. CASE d = c
      <4>1. status'[d] = (IF r = Null THEN "DONE" ELSE "WRITE") /\ handed'[d] = Append(handed[c], r)
        BY <1>1, <1>2, <2>3, <3>1 DEF TypeOK
      <4> QED
        BY <4>1, <3>1, <2>1, <2>5
    <3>2. CASE d # c
      <4>1. status'[d] = status[d] /\ handed'[d] = handed[d]
        BY <1>1, <1>2, <2>3, <3>2 DEF TypeOK
      <4> QED
        BY <4>1 DEF IInv, Over
    <3> QED
      BY <3>1, <3>2
  <2>11. HandedInOrder'
    <3> SUFFICES ASSUME NEW d \in Calls
                 PROVE  /\ accepted'[d] = handed'[d] \o requests[d]
                        /\ status'[d] = "FROZEN" => requests[d] = <<>>
                        /\ EndLast(handed'[d])
      BY <1>6 DEF HandedInOrder, EndLast
    <3>1. CASE d = c
      <4>1. /\ accepted'[d] = Append(accepted[c], r) /\ handed'[d] = Append(handed[c], r)
            /\ requests[d] = <<>>
        BY <1>1, <1>2, <1>6, <2>3, <2>4, <3>1 DEF TypeOK
      <4> QED
        BY <4>1, <2>4, <2>5
    <3>2. CASE d # c
      <4>1. accepted'[d] = accepted[d] /\ handed'[d] = handed[d] /\ status'[d] = status[d]
        BY <1>1, <1>2, <1>6, <2>3, <3>2 DEF TypeOK
      <4> QED
        BY <4>1 DEF IInv, HandedInOrder
    <3> QED
      BY <3>1, <3>2
  <2>12. ResponseEnded'
    <3>1. \A d \in Calls : status[d] = "FINISH" =>
            tagOf'[d] = tagOf[d] /\ status'[d] = "FINISH" /\ handed'[d] = handed[d]
      BY <1>1, <1>2, <1>6, <2>3 DEF TypeOK, c
    <3> QED
      BY <1>3, <3>1, EndedStays DEF IInv
  <2> QED
    BY <1>3, <2>7, <2>8, <2>9, <2>10, <2>11, <2>12 DEF IInv, SignalInv
<1>7. CASE /\ requests' = [requests EXCEPT ![c] = Append(@, r)]
           /\ accepted' = [accepted EXCEPT ![c] = Append(@, r)]
           /\ status[c] \in {"INIT", "WRITE"}
           /\ UNCHANGED <<status, outstanding, handed>>
  <2>1. /\ Append(requests[c], r) \in Seq(Requests) /\ Append(accepted[c], r) \in Seq(Requests)
        /\ Append(accepted[c], r) = handed[c] \o Append(requests[c], r)
    <3>1. Append(handed[c] \o requests[c], r) = handed[c] \o Append(requests[c], r)
      BY <1>2, <1>5, AppendConcat
    <3> QED
      BY <1>2, <1>5, <3>1, EndsOf
  <2> HIDE DEF c, r
  <2>2. TypeOK'
    <3>1. requests' \in [Calls -> Seq(Requests)] /\ accepted' \in [Calls -> Seq(Requests)]
      BY <1>1, <1>2, <1>7, <2>1 DEF TypeOK
    <3> QED
      BY <1>1, <1>2, <1>3, <1>7, <3>1 DEF TypeOK, SignalInv
  <2>3. GrpcContract'
    BY <1>2, <1>7, <2>2 DEF IInv, GrpcContract, Dying
  <2>4. Fresh' /\ Listed' /\ Working'
    BY <1>2, <1>7 DEF IInv, Fresh, Listed, Unlisted, Working
  <2>5. Over'
    BY <1>2, <1>7 DEF IInv, Over, Ends, Holds
  <2>6. HandedInOrder'
    <3> SUFFICES ASSUME NEW d \in Calls
                 PROVE  /\ accepted'[d] = handed[d] \o requests'[d]
                        /\ status[d] = "FROZEN" => requests'[d] = <<>>
                        /\ EndLast(handed[d])
      BY <1>7 DEF HandedInOrder, EndLast
    <3>1. CASE d = c
      <4>1. /\ accepted'[d] = Append(accepted[c], r) /\ requests'[d] = Append(requests[c], r)
        BY <1>1, <1>2, <1>7, <3>1 DEF TypeOK
      <4> QED
        BY <3>1, <4>1, <2>1, <1>7 DEF IInv, HandedInOrder
    <3>2. CASE d # c
      <4>1. accepted'[d] = accepted[d] /\ requests'[d] = requests[d]
        BY <1>1, <1>2, <1>7, <3>2 DEF TypeOK
      <4> QED
        BY <4>1 DEF IInv, HandedInOrder
    <3> QED
      BY <3>1, <3>2
  <2>7. ResponseEnded'
    BY <1>2, <1>3, <1>7, EndedStays DEF IInv
  <2> QED
    BY <1>3, <2>3, <2>4, <2>5, <2>6, <2>7 DEF IInv, SignalInv
<1> QED
  BY <1>4, <1>6, <1>7 DEF EndWrite

\* gRPC took an operation and the queue goes on, or the call is FROZEN.
LEMMA HandleQueuedIInv ==
  ASSUME IInv, NEW c \in Calls, io = AtNext, outstanding[c] > 0, status[c] \in {"INIT", "WRITE"},
         handleQueuedRequests(c), refused' \in [Calls -> BOOLEAN],
         \A d \in Calls \ {c} : refused'[d] = refused[d],
         UNCHANGED <<calls, memory, tagOf, accepted, qml, io, ops>>,
         SignalInv', \A t \in Tags : Answered(t)' => Answered(t)
  PROVE  IInv'
<1> USE CallbackAssumption, WriterAssumption
<1>1. TypeOK
  BY DEF IInv, GrpcContract
<1>2. memory[c] = "live" /\ outstanding[c] = 1
  BY DEF IInv, GrpcContract
<1>3. /\ requests[c] \in Seq(Requests) /\ handed[c] \in Seq(Requests)
      /\ accepted[c] = handed[c] \o requests[c] /\ ~Ends(handed[c]) /\ EndLast(handed[c])
  BY <1>1 DEF TypeOK, IInv, HandedInOrder, Over
<1>4. PICK s \in Statuses, n \in {0, 1}, q \in Seq(Requests), h \in Seq(Requests) :
        /\ status' = [status EXCEPT ![c] = s]
        /\ outstanding' = [outstanding EXCEPT ![c] = n]
        /\ requests' = [requests EXCEPT ![c] = q]
        /\ handed' = [handed EXCEPT ![c] = h]
        /\ s \in {"FROZEN", "WRITE", "DONE"}
        /\ n = 0 <=> s = "FROZEN"
        /\ s = "FROZEN" => q = <<>>
        /\ s = "DONE" <=> Ends(h)
        /\ EndLast(h)
        /\ h \o q = handed[c] \o requests[c]
  <2>1. CASE /\ requests[c] = <<>>
             /\ status' = [status EXCEPT ![c] = "FROZEN"]
             /\ outstanding' = [outstanding EXCEPT ![c] = @ - 1]
             /\ UNCHANGED <<requests, handed>>
    <3>1. outstanding' = [outstanding EXCEPT ![c] = 0]
      BY <1>2, <2>1
    <3>2. requests' = [requests EXCEPT ![c] = requests[c]] /\ handed' = [handed EXCEPT ![c] = handed[c]]
      BY <1>1, <2>1 DEF TypeOK
    <3>3. "FROZEN" \in Statuses
      BY DEF Statuses
    <3> QED
      BY <1>3, <2>1, <3>1, <3>2, <3>3
  <2>2. CASE /\ requests[c] # <<>>
             /\ requests' = [requests EXCEPT ![c] = Tail(@)]
             /\ Hand(c, Head(requests[c]))
             /\ UNCHANGED outstanding
    <3> DEFINE r == Head(requests[c])
               s == IF r = Null THEN "DONE" ELSE "WRITE"
               h == Append(handed[c], r)
               q == Tail(requests[c])
    <3>1. r \in Requests /\ q \in Seq(Requests) /\ h \o q = handed[c] \o requests[c]
      BY <1>3, <2>2, MoveHead
    <3>2. h \in Seq(Requests) /\ (Ends(h) <=> r = Null) /\ EndLast(h)
      BY <1>3, <3>1, EndsOf
    <3>3. /\ status' = [status EXCEPT ![c] = s] /\ handed' = [handed EXCEPT ![c] = h]
          /\ requests' = [requests EXCEPT ![c] = q]
      BY <2>2 DEF Hand
    <3>4. outstanding' = [outstanding EXCEPT ![c] = 1]
      BY <1>1, <1>2, <2>2 DEF TypeOK
    <3>5. s \in Statuses /\ s \in {"WRITE", "DONE"} /\ (s = "DONE" <=> r = Null)
      BY DEF Statuses
    <3> HIDE DEF r, s, h, q
    <3>6. /\ 1 \in {0, 1}
          /\ s \in {"FROZEN", "WRITE", "DONE"} /\ s # "FROZEN"
          /\ 1 = 0 <=> s = "FROZEN"
          /\ s = "DONE" <=> Ends(h)
      BY <3>2, <3>5
    <3> QED
      BY <3>1, <3>2, <3>3, <3>4, <3>5, <3>6
  <2> QED
    BY <2>1, <2>2 DEF handleQueuedRequests
<1>5. TypeOK'
  <2>1. /\ status' \in [Calls -> Statuses] /\ outstanding' \in [Calls -> Nat]
        /\ requests' \in [Calls -> Seq(Requests)] /\ handed' \in [Calls -> Seq(Requests)]
    BY <1>1, <1>4 DEF TypeOK
  <2> QED
    BY <1>1, <2>1 DEF TypeOK, SignalInv
<1>6. /\ \A d \in Calls \ {c} : /\ status'[d] = status[d] /\ outstanding'[d] = outstanding[d]
                                /\ requests'[d] = requests[d] /\ handed'[d] = handed[d]
      /\ status'[c] = s /\ outstanding'[c] = n /\ requests'[c] = q /\ handed'[c] = h
  BY <1>1, <1>4 DEF TypeOK
<1>7. GrpcContract'
  <2>1. \A d \in Calls :
          outstanding'[d] = IF memory[d] = "live" /\ status'[d] # "FROZEN" /\ ~Dying(d) THEN 1 ELSE 0
    BY <1>2, <1>4, <1>6 DEF IInv, GrpcContract, Dying
  <2> QED
    BY <1>5, <2>1 DEF GrpcContract, Dying
<1>8. Fresh' /\ Working'
  BY <1>2, <1>6 DEF IInv, Fresh, Working
<1>9. Listed'
  BY DEF IInv, Listed, Unlisted
<1>10. Over'
  <2> SUFFICES ASSUME NEW d \in Calls
               PROVE  /\ memory[d] = "freed" => status'[d] = "FINISH"
                      /\ status'[d] = "DONE" => Ends(handed'[d])
                      /\ status'[d] = "FINISH" => refused'[d] \/ Ends(handed'[d])
                      /\ Ends(handed'[d]) => status'[d] \in {"DONE", "FINISH"}
    BY DEF Over, Ends, Holds
  <2>1. CASE d = c
    BY <1>2, <1>4, <1>6, <2>1
  <2>2. CASE d # c
    BY <1>6, <2>2 DEF IInv, Over
  <2> QED
    BY <2>1, <2>2
<1>11. HandedInOrder'
  <2> SUFFICES ASSUME NEW d \in Calls
               PROVE  /\ accepted[d] = handed'[d] \o requests'[d]
                      /\ status'[d] = "FROZEN" => requests'[d] = <<>>
                      /\ EndLast(handed'[d])
    BY DEF HandedInOrder, EndLast
  <2>1. CASE d = c
    BY <1>3, <1>4, <1>6, <2>1
  <2>2. CASE d # c
    BY <1>6, <2>2 DEF IInv, HandedInOrder
  <2> QED
    BY <2>1, <2>2
<1>12. ResponseEnded'
  <2>1. \A d \in Calls : status[d] = "FINISH" =>
          tagOf'[d] = tagOf[d] /\ status'[d] = "FINISH" /\ handed'[d] = handed[d]
    BY <1>6
  <2> QED
    BY <2>1, EndedStays DEF IInv
<1> QED
  BY <1>7, <1>8, <1>9, <1>10, <1>11, <1>12 DEF IInv, SignalInv

\* The call is told to finish: it could not be started, or was ended.
LEMMA FinishCallIInv ==
  ASSUME IInv, NEW c \in Calls, io = AtNext, outstanding[c] > 0, status[c] \in {"INIT", "DONE"},
         FinishCall(c), refused' \in [Calls -> BOOLEAN],
         \A d \in Calls \ {c} : refused'[d] = refused[d],
         refused'[c] \/ Ends(handed[c]),
         UNCHANGED <<calls, memory, tagOf, accepted, qml, io, ops>>,
         SignalInv', \A t \in Tags : Answered(t)' => Answered(t)
  PROVE  IInv'
<1>1. TypeOK
  BY DEF IInv, GrpcContract
<1>2. memory[c] = "live" /\ outstanding[c] = 1
  BY DEF IInv, GrpcContract
<1>3. /\ \A d \in Calls \ {c} : status'[d] = status[d]
      /\ status'[c] = "FINISH" /\ status' \in [Calls -> Statuses]
      /\ UNCHANGED <<outstanding, requests, handed>>
  BY <1>1 DEF TypeOK, FinishCall, Statuses
<1>4. GrpcContract'
  <2>1. TypeOK'
    BY <1>1, <1>3 DEF TypeOK, SignalInv
  <2>2. \A d \in Calls :
          outstanding[d] = IF memory[d] = "live" /\ status'[d] # "FROZEN" /\ ~Dying(d) THEN 1 ELSE 0
    BY <1>2, <1>3 DEF IInv, GrpcContract, Dying
  <2> QED
    BY <1>3, <2>1, <2>2 DEF GrpcContract, Dying
<1>5. Fresh' /\ Working'
  BY <1>2, <1>3 DEF IInv, Fresh, Working
<1>6. Listed'
  BY DEF IInv, Listed, Unlisted
<1>7. Over'
  <2> SUFFICES ASSUME NEW d \in Calls
               PROVE  /\ memory[d] = "freed" => status'[d] = "FINISH"
                      /\ status'[d] = "DONE" => Ends(handed[d])
                      /\ status'[d] = "FINISH" => refused'[d] \/ Ends(handed[d])
                      /\ Ends(handed[d]) => status'[d] \in {"DONE", "FINISH"}
    BY <1>3 DEF Over, Ends, Holds
  <2> QED
    BY <1>2, <1>3 DEF IInv, Over
<1>8. HandedInOrder'
  BY <1>3 DEF IInv, HandedInOrder, EndLast
<1>9. ResponseEnded'
  BY <1>3, EndedStays DEF IInv
<1> QED
  BY <1>4, <1>5, <1>6, <1>7, <1>8, <1>9 DEF IInv, SignalInv

\* A call that gRPC could start goes on with what was queued meanwhile.
LEMMA ProcessInitIInv ==
  ASSUME IInv, NEW c \in Calls, NEW bad \in BOOLEAN, ProcessInit(c, bad)
  PROVE  IInv'
<1>1. /\ io = AtNext /\ outstanding[c] > 0 /\ status[c] = "INIT"
      /\ UNCHANGED <<calls, memory, tagOf, accepted, qml, io, ops>> /\ UNCHANGED callbackVars
      /\ refused' = [refused EXCEPT ![c] = bad]
  BY DEF ProcessInit, Completes
<1>2. /\ refused' \in [Calls -> BOOLEAN] /\ refused'[c] = bad
      /\ \A d \in Calls \ {c} : refused'[d] = refused[d]
  BY <1>1 DEF IInv, GrpcContract, TypeOK
<1>3. SignalInv' /\ \A t \in Tags : Answered(t)' => Answered(t)
  BY <1>1, SignalsOf, SilentStep
<1>4. CASE bad
  BY <1>1, <1>2, <1>3, <1>4, FinishCallIInv DEF ProcessInit
<1>5. CASE ~bad
  BY <1>1, <1>2, <1>3, <1>5, HandleQueuedIInv DEF ProcessInit
<1> QED
  BY <1>4, <1>5

\* What an error signal does, or none: no callback has a result by it yet.
LEMMA ErrorStep ==
  ASSUME IInv, NEW c \in Calls, io = AtNext, memory[c] = "live", UNCHANGED <<io, tagOf>>,
         Emit(<<ErrorOf(tagOf[c])>>) \/ UNCHANGED callbackVars
  PROVE  SignalInv' /\ \A t \in Tags : Answered(t)' => Answered(t)
<1>1. CASE UNCHANGED callbackVars
  BY <1>1, SignalsOf, SilentStep
<1>2. CASE Emit(<<ErrorOf(tagOf[c])>>)
  <2> DEFINE s == ErrorOf(tagOf[c])
  <2>1. tagOf[c] \in Tags
    BY DEF IInv, Listed, Unlisted, AtNext
  <2>2. s \in Signal /\ s.kind = "error" /\ io.pc # "erase"
    BY <2>1 DEF ErrorOf, Signal, SignalKinds, AtNext
  <2> HIDE DEF s
  <2>3. Emit(<<s>>)
    BY <1>2 DEF s
  <2> QED
    BY <2>2, <2>3, SignalsOf, EmitStep
<1> QED
  BY <1>1, <1>2

\* A failed Write is reported, and the queue goes on.
LEMMA ProcessWriteIInv ==
  ASSUME IInv, NEW c \in Calls, NEW bad \in BOOLEAN, ProcessWrite(c, bad)
  PROVE  IInv'
<1>1. /\ io = AtNext /\ outstanding[c] > 0 /\ status[c] = "WRITE" /\ handleQueuedRequests(c)
      /\ UNCHANGED <<calls, memory, tagOf, refused, accepted, qml, io, ops>>
  BY DEF ProcessWrite, Completes
<1>2. memory[c] = "live"
  BY <1>1 DEF IInv, GrpcContract
<1>3. SignalInv' /\ \A t \in Tags : Answered(t)' => Answered(t)
  BY <1>1, <1>2, ErrorStep DEF ProcessWrite
<1>4. refused' \in [Calls -> BOOLEAN] /\ \A d \in Calls \ {c} : refused'[d] = refused[d]
  BY <1>1 DEF IInv, GrpcContract, TypeOK
<1> QED
  BY <1>1, <1>3, <1>4, HandleQueuedIInv

\* WritesDone completed: the result is asked for.
LEMMA ProcessDoneIInv ==
  ASSUME IInv, NEW c \in Calls, NEW bad \in BOOLEAN, ProcessDone(c, bad)
  PROVE  IInv'
<1>1. /\ io = AtNext /\ outstanding[c] > 0 /\ status[c] = "DONE" /\ FinishCall(c)
      /\ UNCHANGED <<calls, memory, tagOf, refused, accepted, qml, io, ops>>
  BY DEF ProcessDone, Completes
<1>2. memory[c] = "live" /\ Ends(handed[c])
  BY <1>1 DEF IInv, GrpcContract, Over
<1>3. SignalInv' /\ \A t \in Tags : Answered(t)' => Answered(t)
  BY <1>1, <1>2, ErrorStep DEF ProcessDone
<1>4. refused' \in [Calls -> BOOLEAN] /\ \A d \in Calls \ {c} : refused'[d] = refused[d]
  BY <1>1 DEF IInv, GrpcContract, TypeOK
<1> QED
  BY <1>1, <1>2, <1>3, <1>4, FinishCallIInv

\* The result of a call is a response only if the call was ended.
LEMMA ProcessFinishIInv ==
  ASSUME IInv, NEW c \in Calls, NEW bad \in BOOLEAN, ProcessFinish(c, bad)
  PROVE  IInv'
<1> USE CallbackAssumption, WriterAssumption
<1>1. /\ io = AtNext /\ outstanding[c] > 0 /\ status[c] = "FINISH" /\ (refused[c] => bad)
      /\ outstanding' = [outstanding EXCEPT ![c] = @ - 1]
      /\ io' = [pc |-> "erase", call |-> c]
      /\ UNCHANGED <<calls, memory, tagOf, status, requests, refused, accepted, handed, qml, ops>>
  BY DEF ProcessFinish, Completes
<1>2. TypeOK /\ memory[c] = "live" /\ outstanding[c] = 1
  BY <1>1 DEF IInv, GrpcContract
<1>3. tagOf[c] \in Tags
  BY <1>1, <1>2 DEF IInv, Listed, Unlisted, AtNext
<1>4. PICK s \in Signal : /\ Emit(<<s>>) /\ s.tag = tagOf[c]
                          /\ s.kind = "data" => ~bad
  <2>1. CASE bad /\ Emit(<<ErrorOf(tagOf[c])>>)
    BY <1>3, <2>1 DEF ErrorOf, Signal, SignalKinds
  <2>2. ASSUME ~bad, NEW v \in Payloads, Emit(<<DataOf(tagOf[c], v)>>)
        PROVE  \E s \in Signal : /\ Emit(<<s>>) /\ s.tag = tagOf[c]
                                 /\ s.kind = "data" => ~bad
    <3>1. DataOf(tagOf[c], v) \in Signal /\ DataOf(tagOf[c], v).tag = tagOf[c]
      BY <1>3 DEF DataOf, Signal, SignalKinds
    <3> QED
      BY <2>2, <3>1
  <2> QED
    BY <2>1, <2>2 DEF ProcessFinish
<1>5. io.pc # "erase" /\ io'.pc = "erase" /\ tagOf'[io'.call] = s.tag
  BY <1>1, <1>4 DEF AtNext
<1>6. SignalInv' /\ \A t \in Tags : Answered(t)' => Answered(t) \/ (s.kind = "data" /\ s.tag = t)
  BY <1>4, <1>5, SignalsOf, EmitStep
<1>7. GrpcContract'
  <2>1. /\ io' \in [pc : {"erase", "delete"}, call : Calls] /\ io' # AtNext /\ io'.call = c
        /\ outstanding' \in [Calls -> Nat]
        /\ outstanding'[c] = 0 /\ \A d \in Calls \ {c} : outstanding'[d] = outstanding[d]
    BY <1>1, <1>2 DEF AtNext, TypeOK
  <2>2. TypeOK'
    BY <1>1, <1>2, <1>6, <2>1 DEF TypeOK, SignalInv
  <2> QED
    BY <1>1, <2>1, <2>2 DEF IInv, GrpcContract, Dying
<1>8. Fresh' /\ HandedInOrder'
  BY <1>1 DEF IInv, Fresh, HandedInOrder, EndLast
<1>9. Over'
  BY <1>1 DEF IInv, Over, Ends, Holds
<1>10. Listed'
  BY <1>1 DEF IInv, Listed, Unlisted, AtNext
<1>11. Working'
  BY <1>1, <1>2 DEF IInv, Working
<1>12. ResponseEnded'
  <2> SUFFICES ASSUME NEW t \in Tags, Answered(t)' PROVE EndedCall(t)
    BY <1>1 DEF ResponseEnded, EndedCall, Ends, Holds
  <2>1. CASE Answered(t)
    BY <2>1 DEF IInv, ResponseEnded
  <2>2. CASE s.kind = "data" /\ s.tag = t
    BY <1>1, <1>4, <2>2 DEF IInv, Over, EndedCall
  <2> QED
    BY <1>6, <2>1, <2>2
<1> QED
  BY <1>6, <1>7, <1>8, <1>9, <1>10, <1>11, <1>12 DEF IInv, SignalInv

\* The call finds itself in calls_, and closed goes out behind its result.
LEMMA deleteCallIInv ==
  ASSUME IInv, deleteCall
  PROVE  IInv'
<1> USE CallbackAssumption, WriterAssumption
<1> DEFINE c == io.call
<1>1. /\ TypeOK /\ io.pc = "erase" /\ io # AtNext /\ c \in Calls
      /\ memory[c] = "live" /\ status[c] = "FINISH"
      /\ UNCHANGED <<memory, tagOf, status, requests, outstanding, refused, accepted, handed, qml, ops>>
  BY DEF IInv, GrpcContract, TypeOK, Working, deleteCall, AtNext
<1>2. tagOf[c] \in Tags /\ calls[tagOf[c]] = c
  BY <1>1 DEF IInv, Listed, Unlisted
<1>3. /\ calls' = [calls EXCEPT ![tagOf[c]] = NoCall]
      /\ Emit(<<ClosedOf(tagOf[c])>>)
      /\ io' = [pc |-> "delete", call |-> c]
  <2>1. calls[tagOf[c]] # NoCall
    BY <1>1, <1>2
  <2>2. io \in [pc : {"erase", "delete"}, call : Calls]
    BY <1>1 DEF TypeOK
  <2>3. [io EXCEPT !.pc = "delete"] = [pc |-> "delete", call |-> c]
    BY <2>2
  <2> QED
    BY <2>1, <2>3 DEF deleteCall
<1> HIDE DEF c
<1>4. SignalInv' /\ \A t \in Tags : Answered(t)' => Answered(t)
  <2> DEFINE s == ClosedOf(tagOf[c])
  <2>1. s \in Signal /\ s.kind = "closed" /\ s = ClosedOf(tagOf[io.call])
    BY <1>2 DEF ClosedOf, Signal, SignalKinds, c
  <2>2. Emit(<<s>>)
    BY <1>3
  <2> HIDE DEF s
  <2> QED
    BY <2>1, <2>2, SignalsOf, EmitStep
<1>5. io'.pc = "delete" /\ io'.call = c /\ io' # AtNext /\ io.call = c
  BY <1>3 DEF AtNext, c
<1>6. GrpcContract'
  <2>1. TypeOK'
    BY <1>1, <1>2, <1>3, <1>4 DEF TypeOK, SignalInv
  <2> QED
    BY <1>1, <1>5, <2>1 DEF IInv, GrpcContract, Dying
<1>7. Fresh' /\ HandedInOrder'
  BY <1>1 DEF IInv, Fresh, HandedInOrder, EndLast
<1>8. Over'
  BY <1>1 DEF IInv, Over, Ends, Holds
<1>9. Working'
  BY <1>1, <1>5 DEF IInv, Working
<1>10. Listed'
  <2>1. \A t \in Tags : calls'[t] = IF t = tagOf[c] THEN NoCall ELSE calls[t]
    BY <1>1, <1>3 DEF TypeOK
  <2>2. \A d \in Calls : ~Unlisted(d) /\ (Unlisted(d)' <=> d = c)
    BY <1>1, <1>5 DEF Unlisted
  <2>3. ASSUME NEW t \in Tags, calls'[t] # NoCall
        PROVE  memory[calls'[t]] = "live" /\ tagOf[calls'[t]] = t /\ ~(io'.pc = "delete" /\ io'.call = calls'[t])
    <3>1. t # tagOf[c] /\ calls'[t] = calls[t]
      BY <2>1, <2>3
    <3>2. memory[calls[t]] = "live" /\ tagOf[calls[t]] = t
      BY <2>3, <3>1 DEF IInv, Listed
    <3> QED
      BY <3>1, <3>2, <1>5
  <2>4. ASSUME NEW d \in Calls, memory[d] = "live", ~Unlisted(d)'
        PROVE  tagOf[d] \in Tags /\ calls'[tagOf[d]] = d
    <3>1. d # c /\ tagOf[d] \in Tags /\ calls[tagOf[d]] = d
      BY <2>2, <2>4 DEF IInv, Listed
    <3>2. tagOf[d] # tagOf[c]
      BY <1>2, <3>1
    <3> QED
      BY <2>1, <3>1, <3>2
  <2> QED
    BY <1>1, <2>3, <2>4 DEF Listed, Unlisted
<1>11. ResponseEnded'
  BY <1>1, <1>4, EndedStays DEF IInv
<1> QED
  BY <1>4, <1>6, <1>7, <1>8, <1>9, <1>10, <1>11 DEF IInv, SignalInv

\* The object is deleted: calls_ has it no more.
LEMMA DeleteSelfIInv ==
  ASSUME IInv, DeleteSelf
  PROVE  IInv'
<1> USE CallbackAssumption, WriterAssumption
<1> DEFINE c == io.call
<1>1. /\ TypeOK /\ io.pc = "delete" /\ io # AtNext /\ c \in Calls
      /\ memory[c] = "live" /\ status[c] = "FINISH"
      /\ memory' = [memory EXCEPT ![c] = "freed"] /\ io' = AtNext
      /\ UNCHANGED callbackVars
      /\ UNCHANGED <<calls, tagOf, status, requests, outstanding, refused, accepted, handed, qml, ops>>
  BY DEF IInv, GrpcContract, TypeOK, Working, DeleteSelf, AtNext
<1>2. SignalInv' /\ \A t \in Tags : Answered(t)' => Answered(t)
  BY <1>1, SignalsOf, SilentStep
<1>3. /\ memory'[c] = "freed" /\ \A d \in Calls \ {c} : memory'[d] = memory[d]
      /\ memory' \in [Calls -> {"none", "live", "freed"}]
  BY <1>1 DEF TypeOK
<1>4. GrpcContract'
  <2>1. TypeOK'
    BY <1>1, <1>2, <1>3 DEF TypeOK, SignalInv
  <2> QED
    BY <1>1, <1>3, <2>1 DEF IInv, GrpcContract, Dying
<1>5. Fresh' /\ HandedInOrder'
  BY <1>1, <1>3 DEF IInv, Fresh, HandedInOrder, EndLast
<1>6. Over'
  BY <1>1, <1>3 DEF IInv, Over, Ends, Holds
<1>7. Working'
  <2>1. qml # Idle => qml.call \in Calls
    BY <1>1 DEF TypeOK
  <2> QED
    BY <1>1, <1>3, <2>1 DEF IInv, Working
<1>8. Listed'
  <2>1. \A d \in Calls : (Unlisted(d) <=> d = c) /\ ~Unlisted(d)'
    BY <1>1 DEF Unlisted, AtNext
  <2>2. \A t \in Tags : calls[t] \in Calls \cup {NoCall}
    BY <1>1 DEF TypeOK
  <2> HIDE DEF c
  <2> QED
    BY <1>1, <1>3, <2>1, <2>2 DEF IInv, Listed
<1>9. ResponseEnded'
  BY <1>1, <1>2, EndedStays DEF IInv
<1> QED
  BY <1>2, <1>4, <1>5, <1>6, <1>7, <1>8, <1>9 DEF IInv, SignalInv

-----------------------------------------------------------------------------
\* Nothing happens.
LEMMA StutterIInv ==
  ASSUME IInv, UNCHANGED vars
  PROVE  IInv'
<1>1. UNCHANGED <<callbackVars, callVars, io, qml, ops>> /\ UNCHANGED tagOf
  BY DEF vars, callVars
<1>2. SignalInv' /\ \A t \in Tags : Answered(t)' => Answered(t)
  BY <1>1, SignalsOf, SilentStep
<1>3. TypeOK /\ (qml # Idle => memory[qml.call] # "none")
  BY DEF IInv, GrpcContract, Working
<1>4. \/ qml' = Idle
      \/ /\ qml' \in [op : QmlOps, tag : Tags, call : Calls, request : Requests]
         /\ memory[qml'.call] # "none"
  BY <1>1, <1>3 DEF TypeOK
<1> QED
  BY <1>1, <1>2, <1>3, <1>4, QuietStep DEF TypeOK

LEMMA NextIInv == IInv /\ [Next]_vars => IInv'
<1> SUFFICES ASSUME IInv, [Next]_vars PROVE IInv'
  OBVIOUS
<1>1. CASE QmlNext
  BY <1>1, CallIInv, BeginWriteIInv, BeginEndIInv, BeginTimeoutIInv, BeginSetTimeoutIInv,
     EndWriteIInv, EndTimeoutIInv, QmlDeliverIInv
  DEF QmlNext
<1>2. CASE IoNext
  BY <1>2, ProcessInitIInv, ProcessWriteIInv, ProcessDoneIInv, ProcessFinishIInv,
     deleteCallIInv, DeleteSelfIInv
  DEF IoNext, Process
<1>3. CASE UNCHANGED vars
  BY <1>3, StutterIInv
<1> QED
  BY <1>1, <1>2, <1>3 DEF Next

\* The invariant holds in every state of the client-streaming method.
THEOREM Invariance == Spec => []IInv
BY InitIInv, NextIInv, PTL DEF Spec

\* gRPC's rule for one call object, "does not allow more than one request at
\* once" (writer.cpp:148): a call that is neither FROZEN nor ending has exactly
\* one operation in flight, and a deleted one has none.
THEOREM GrpcContractAlways == Spec => []GrpcContract
<1>1. IInv => GrpcContract
  BY DEF IInv
<1> QED
  BY <1>1, Invariance, PTL

\* The pointer used after calls_mutex_ is released (writer.cpp:212-263) can
\* dangle only once its call could not be started or was ended.
THEOREM DanglingAlways == Spec => []DanglingOnlyWhenOver
<1>1. IInv => DanglingOnlyWhenOver
  <2> SUFFICES ASSUME IInv, Dangling
               PROVE  refused[qml.call] \/ Ends(handed[qml.call])
    BY DEF DanglingOnlyWhenOver, Ends, Holds
  <2>1. qml.call \in Calls /\ memory[qml.call] = "freed"
    BY DEF IInv, GrpcContract, TypeOK, Dangling
  <2> QED
    BY <2>1 DEF IInv, Over
<1> QED
  BY <1>1, Invariance, PTL

\* The callback hears one result, however many signals a failed Write, a
\* failed WritesDone and Finish emit, and a response is one to everything that
\* was accepted before end() (writer.cpp:75-116).
THEOREM ResultHonestAlways == Spec => []ResultHonest
<1>1. IInv => ResultHonest
  <2> SUFFICES ASSUME IInv PROVE SuccessMeansSent
    BY DEF ResultHonest, IInv
  <2> SUFFICES ASSUME NEW t \in Tags, Answered(t)
               PROVE  \E c \in Calls :
                        /\ tagOf[c] = t
                        /\ Null \in {accepted[c][i] : i \in 1..Len(accepted[c])}
                        /\ handed[c] = UpToEnd(accepted[c])
    BY DEF SuccessMeansSent
  <2>1. PICK c \in Calls : tagOf[c] = t /\ Ends(handed[c])
    BY DEF IInv, ResponseEnded, EndedCall
  <2>2. /\ handed[c] \in Seq(Requests) /\ requests[c] \in Seq(Requests)
        /\ accepted[c] = handed[c] \o requests[c] /\ EndLast(handed[c])
    BY DEF IInv, GrpcContract, TypeOK, HandedInOrder
  <2>3. Ends(accepted[c]) /\ handed[c] = UpToEnd(accepted[c])
    BY <2>1, <2>2, UpToEndOf
  <2> QED
    BY <2>1, <2>3 DEF Ends, Holds
<1> QED
  BY <1>1, Invariance, PTL

-----------------------------------------------------------------------------
(* The requests of a call are an OutgoingStream.                           *)

\* A call that was not ended is open.
LEMMA StreamOpen ==
  ASSUME IInv, NEW c \in Calls, status[c] \notin {"DONE", "FINISH"}
  PROVE  Stream!Open(c)
<1>1. handed[c] \in Seq(Requests) /\ ~Ends(handed[c])
  BY DEF IInv, GrpcContract, TypeOK, Over
<1>2. handed[c] # <<>> => Len(handed[c]) \in 1..Len(handed[c])
  BY <1>1
<1> QED
  BY <1>1, <1>2 DEF Stream!Open, Ends, Holds

\* write() and end() are Accept, or AcceptAndHandOver when FROZEN.
LEMMA EndWriteStream ==
  ASSUME IInv, EndWrite
  PROVE  Stream!Next \/ UNCHANGED <<accepted, handed>>
<1> DEFINE c == qml.call
           r == qml.request
<1>1. c \in Calls /\ r \in Requests
  BY DEF IInv, GrpcContract, TypeOK, EndWrite, Using, Idle
<1>2. CASE UNCHANGED <<accepted, handed>>
  BY <1>2
<1>3. CASE /\ status[c] = "FROZEN"
           /\ Hand(c, r)
           /\ accepted' = [accepted EXCEPT ![c] = Append(@, r)]
  <2>1. handed[c] = accepted[c]
    <3>1. handed[c] \in Seq(Requests) /\ accepted[c] = handed[c] \o <<>>
      BY <1>1, <1>3 DEF IInv, GrpcContract, TypeOK, HandedInOrder
    <3> QED
      BY <3>1, ConcatEmpty
  <2>2. Stream!Open(c)
    BY <1>1, <1>3, StreamOpen
  <2> QED
    BY <1>1, <1>3, <2>1, <2>2 DEF Hand, Stream!Next, Stream!AcceptAndHandOver
<1>4. CASE /\ accepted' = [accepted EXCEPT ![c] = Append(@, r)]
           /\ UNCHANGED handed
  BY <1>1, <1>4 DEF Stream!Next, Stream!Accept
<1> QED
  BY <1>2, <1>3, <1>4 DEF EndWrite

\* The IO thread hands over the next accepted request, or none.
LEMMA HandleQueuedStream ==
  ASSUME IInv, NEW c \in Calls, status[c] \in {"INIT", "WRITE"}, handleQueuedRequests(c),
         accepted' = accepted
  PROVE  Stream!Next \/ UNCHANGED <<accepted, handed>>
<1>1. CASE UNCHANGED handed
  BY <1>1
<1>2. CASE requests[c] # <<>> /\ Hand(c, Head(requests[c]))
  <2>1. handed' = [handed EXCEPT ![c] = Append(@, Head(requests[c]))]
    BY <1>2 DEF Hand
  <2>2. /\ requests[c] \in Seq(Requests) /\ handed[c] \in Seq(Requests)
        /\ accepted[c] = handed[c] \o requests[c]
    BY DEF IInv, GrpcContract, TypeOK, HandedInOrder
  <2>3. Len(handed[c]) < Len(accepted[c]) /\ accepted[c][Len(handed[c]) + 1] = Head(requests[c])
    BY <1>2, <2>2, MoveHead
  <2>4. Stream!HandOver(c)
    BY <2>1, <2>3, StreamOpen DEF Stream!HandOver
  <2> QED
    BY <2>4 DEF Stream!Next
<1> QED
  BY <1>1, <1>2 DEF handleQueuedRequests

\* The client-streaming method implements OutgoingStream: gRPC is given what
\* the program wrote, in order, nothing twice and nothing after WritesDone
\* (writer.cpp:118-167).
THEOREM Refinement == Spec => ImplementsStream
<1>1. Init => Stream!Init
  BY DEF Init, Stream!Init
<1>2. ASSUME IInv, [Next]_vars PROVE Stream!Next \/ UNCHANGED <<accepted, handed>>
  <2>1. CASE EndWrite
    BY <1>2, <2>1, EndWriteStream
  <2>2. CASE QmlNext /\ ~EndWrite
    BY <2>2 DEF QmlNext, Call, BeginWrite, BeginEnd, BeginTimeout, BeginSetTimeout, ensureCallData,
                EndTimeout, QmlDeliver, callVars
  <2>3. ASSUME NEW c \in Calls, NEW bad \in BOOLEAN,
               \/ ProcessInit(c, bad) \/ ProcessWrite(c, bad)
               \/ ProcessDone(c, bad) \/ ProcessFinish(c, bad)
        PROVE  Stream!Next \/ UNCHANGED <<accepted, handed>>
    <3>1. CASE ProcessInit(c, bad) \/ ProcessWrite(c, bad)
      BY <1>2, <3>1, HandleQueuedStream DEF ProcessInit, ProcessWrite, Completes, FinishCall
    <3>2. CASE ProcessDone(c, bad) \/ ProcessFinish(c, bad)
      BY <3>2 DEF ProcessDone, ProcessFinish, FinishCall
    <3> QED
      BY <2>3, <3>1, <3>2
  <2>4. CASE deleteCall \/ DeleteSelf
    BY <2>4 DEF deleteCall, DeleteSelf
  <2>5. CASE UNCHANGED vars
    BY <2>5 DEF vars, callVars
  <2> QED
    BY <1>2, <2>1, <2>2, <2>3, <2>4, <2>5 DEF Next, IoNext, Process
<1>3. IInv /\ [Next]_vars => [Stream!Next]_<<accepted, handed>>
  BY <1>2
<1> QED
  BY <1>1, <1>3, Invariance, PTL DEF Spec, ImplementsStream, Stream!Spec

-----------------------------------------------------------------------------
(* The server-streaming method.  What its two invariants lack:             *)
(*   Following      an error is followed by closed only, and closed by     *)
(*                  nothing of the same call;                              *)
(*   Announced      a signal of a tag is one of a call that was made, an   *)
(*                  error or closed one of a call that is over;            *)
(*   Listening      the callback is there as long as the call is in        *)
(*                  flight, or messages or their end are queued;           *)
(*   Ended          past the last read, the callback was told or will be;  *)
(*   TagsNew        a tag not handed out yet has neither call nor callback.*)

Following ==
  \A j, k \in 1..Len(signals) : j < k /\ signals[j].tag = signals[k].tag =>
    signals[j].kind # "closed" /\ (signals[j].kind = "error" => signals[k].kind = "closed")

Announced ==
  \A j \in 1..Len(signals) :
    /\ readStatus[signals[j].tag] # "none"
    /\ signals[j].kind \in {"error", "closed"} => readStatus[signals[j].tag] = "freed"

InFlight(t) == readStatus[t] \in {"WRITE", "READ", "DONE"}

Listens(t) == t \in callbacks /\ t \notin unwinding

Listening ==
  /\ \A t \in Tags : InFlight(t) => Listens(t)
  /\ \A j \in 1..Len(signals) : signals[j].kind \in {"data", "dataEnd"} => Listens(signals[j].tag)

Told(t) == \E i \in 1..Len(heard[t]) : heard[t][i].kind \in {"end", "error"}

Coming(t) == \E j \in 1..Len(signals) : signals[j].tag = t /\ signals[j].kind \in {"dataEnd", "error"}

Ended ==
  \A t \in Tags : readStatus[t] \in {"DONE", "freed"} => Told(t) \/ (Listens(t) /\ Coming(t))

TagsNew == \A t \in Tags : t > lastTag => readStatus[t] = "none" /\ t \notin callbacks \cup unwinding

CallInv == Following /\ Announced /\ Listening /\ Ended /\ TagsNew

ReaderIInv == ReaderTypeOK /\ StreamIntact /\ CallInv

\* A way to place the messages of a tag: StreamIntact.
Intact(t, place) ==
  /\ place \in [Sent(t) -> Places(t)]
  /\ \A i \in Sent(t) : InLine(t, place[i], received[t][i])
  /\ \A i, j \in Sent(t) : i < j => place[i] < place[j]
  /\ \A k \in Places(t), v \in Payloads : InLine(t, k, v) => \E i \in Sent(t) : place[i] = k

\* The facts about the state before a step.
LEMMA ReaderFacts ==
  ASSUME ReaderTypeOK
  PROVE  /\ signals \in Seq(Signal) /\ Len(signals) \in Nat
         /\ \A j \in 1..Len(signals) : /\ signals[j] \in Signal /\ signals[j].tag \in Tags
                                       /\ signals[j].kind \in SignalKinds
         /\ \A t \in Tags : heard[t] \in Seq(Event) /\ Len(heard[t]) \in Nat
         /\ \A t \in Tags : /\ received[t] \in Seq(Payloads) /\ Len(received[t]) \in Nat
                            /\ DOMAIN received[t] = 1..Len(received[t])
<1>1. /\ signals \in Seq(Signal) /\ heard \in [Tags -> Seq(Event)] /\ received \in [Tags -> Seq(Payloads)]
  BY DEF ReaderTypeOK, CallbackTypeOK
<1>2. \A j \in 1..Len(signals) : signals[j] \in Signal
  BY <1>1
<1>3. \A x \in Signal : x.tag \in Tags /\ x.kind \in SignalKinds
  BY DEF Signal
<1> QED
  BY <1>1, <1>2, <1>3

\* The line of a tag: what of it a step keeps.
LEMMA LineKept ==
  ASSUME NEW t \in Tags, NEW p, Intact(t, p),
         Sent(t)' = Sent(t), \A i \in Sent(t) : received'[t][i] = received[t][i] /\ received[t][i] \in Payloads,
         Places(t) \subseteq Places(t)',
         \A k \in Places(t), v \in Payloads : InLine(t, k, v)' <=> InLine(t, k, v),
         \A k \in Places(t)' \ Places(t), v \in Payloads : ~InLine(t, k, v)'
  PROVE  Intact(t, p)'
<1>1. p \in [Sent(t)' -> Places(t)']
  BY DEF Intact
<1>2. \A i \in Sent(t)' : InLine(t, p[i], received[t][i])'
  BY DEF Intact
<1>3. \A k \in Places(t)', v \in Payloads : InLine(t, k, v)' => \E i \in Sent(t)' : p[i] = k
  BY DEF Intact
<1>4. \A i, j \in Sent(t)' : i < j => p[i] < p[j]
  BY DEF Intact
<1> QED
  BY <1>1, <1>2, <1>3, <1>4 DEF Intact

\* The place behind n is no message of the tag, and goes.
LEMMA LineShifted ==
  ASSUME NEW t \in Tags, NEW p, Intact(t, p), NEW n \in Nat, NEW N \in Nat, n <= N,
         Sent(t)' = Sent(t), \A i \in Sent(t) : received'[t][i] = received[t][i] /\ received[t][i] \in Payloads,
         Places(t) = 1..(N + 1), Places(t)' = 1..N,
         \A v \in Payloads : ~InLine(t, n + 1, v),
         \A k \in 1..n, v \in Payloads : InLine(t, k, v)' <=> InLine(t, k, v),
         \A k \in (n + 1)..N, v \in Payloads : InLine(t, k, v)' <=> InLine(t, k + 1, v)
  PROVE  \E q : Intact(t, q)'
<1>0. PICK q : q = [i \in Sent(t) |-> IF p[i] <= n THEN p[i] ELSE p[i] - 1]
  OBVIOUS
<1>1. \A i \in Sent(t) : p[i] \in 1..(N + 1) /\ p[i] # n + 1 /\ q[i] = IF p[i] <= n THEN p[i] ELSE p[i] - 1
  BY <1>0 DEF Intact
<1>2. q \in [Sent(t)' -> Places(t)']
  BY <1>0, <1>1
<1>3. ASSUME NEW i \in Sent(t)
      PROVE  InLine(t, q[i], received[t][i])'
  <2>1. InLine(t, p[i], received[t][i])
    BY DEF Intact
  <2>2. CASE p[i] <= n
    <3>1. p[i] \in 1..n /\ q[i] = p[i]
      BY <1>1, <2>2
    <3>2. InLine(t, p[i], received[t][i])'
      BY <2>1, <3>1
    <3> QED
      BY <3>1, <3>2
  <2>3. CASE ~(p[i] <= n)
    <3>1. q[i] \in (n + 1)..N /\ q[i] + 1 = p[i]
      BY <1>1, <2>3
    <3> QED
      BY <2>1, <3>1
  <2> QED
    BY <2>2, <2>3
<1>4. ASSUME NEW i \in Sent(t), NEW j \in Sent(t), i < j
      PROVE  q[i] < q[j]
  <2>1. p[i] < p[j]
    BY <1>4 DEF Intact
  <2> QED
    BY <1>1, <2>1
<1>5. ASSUME NEW k \in Places(t)', NEW v \in Payloads, InLine(t, k, v)'
      PROVE  \E i \in Sent(t) : q[i] = k
  <2>1. CASE k <= n
    <3>1. k \in 1..n /\ k \in Places(t)
      BY <2>1
    <3>2. PICK i \in Sent(t) : p[i] = k
      BY <1>5, <3>1 DEF Intact
    <3> QED
      BY <1>1, <2>1, <3>2
  <2>2. CASE ~(k <= n)
    <3>1. k \in (n + 1)..N /\ k + 1 \in Places(t)
      BY <2>2
    <3>2. PICK i \in Sent(t) : p[i] = k + 1
      BY <1>5, <3>1 DEF Intact
    <3> QED
      BY <1>1, <3>1, <3>2
  <2> QED
    BY <2>1, <2>2
<1>6. Intact(t, q)'
  BY <1>2, <1>3, <1>4, <1>5 DEF Intact
<1> QED
  BY <1>6

\* One message more, at the end of the line.
LEMMA LineLonger ==
  ASSUME NEW t \in Tags, NEW p, Intact(t, p), NEW N \in Nat, NEW m \in Nat,
         NEW w \in Payloads, Sent(t) \subseteq 1..m, Sent(t)' = Sent(t) \cup {m + 1},
         \A i \in Sent(t) : received'[t][i] = received[t][i] /\ received[t][i] \in Payloads,
         received'[t][m + 1] = w,
         Places(t) = 1..N, Places(t)' = 1..(N + 1),
         InLine(t, N + 1, w)',
         \A k \in 1..N, v \in Payloads : InLine(t, k, v)' <=> InLine(t, k, v)
  PROVE  \E q : Intact(t, q)'
<1>0. PICK q : q = [i \in Sent(t) \cup {m + 1} |-> IF i = m + 1 THEN N + 1 ELSE p[i]]
  OBVIOUS
<1>1. /\ \A i \in Sent(t) : i \in 1..m /\ i # m + 1 /\ p[i] \in 1..N /\ q[i] = p[i]
      /\ q[m + 1] = N + 1
  BY <1>0 DEF Intact
<1>2. q \in [Sent(t)' -> Places(t)']
  BY <1>0, <1>1
<1>3. ASSUME NEW i \in Sent(t)'
      PROVE  InLine(t, q[i], received[t][i])'
  <2>1. CASE i \in Sent(t)
    <3>1. InLine(t, p[i], received[t][i]) /\ p[i] \in 1..N
      BY <1>1, <2>1 DEF Intact
    <3>2. InLine(t, p[i], received[t][i])'
      BY <2>1, <3>1
    <3> QED
      BY <1>1, <2>1, <3>2
  <2>2. CASE i = m + 1
    BY <1>1, <2>2
  <2> QED
    BY <2>1, <2>2
<1>4. ASSUME NEW i \in Sent(t)', NEW j \in Sent(t)', i < j
      PROVE  q[i] < q[j]
  <2>1. i \in Sent(t)
    BY <1>1, <1>4
  <2>2. CASE j \in Sent(t)
    <3>1. p[i] < p[j]
      BY <1>4, <2>1, <2>2 DEF Intact
    <3> QED
      BY <1>1, <2>1, <2>2, <3>1
  <2>3. CASE j = m + 1
    BY <1>1, <2>1, <2>3
  <2> QED
    BY <2>2, <2>3
<1>5. ASSUME NEW k \in Places(t)', NEW v \in Payloads, InLine(t, k, v)'
      PROVE  \E i \in Sent(t)' : q[i] = k
  <2>1. CASE k \in 1..N
    <3>1. PICK i \in Sent(t) : p[i] = k
      BY <1>5, <2>1 DEF Intact
    <3> QED
      BY <1>1, <3>1
  <2>2. CASE k = N + 1
    BY <1>1, <2>2
  <2> QED
    BY <2>1, <2>2
<1>6. Intact(t, q)'
  BY <1>2, <1>3, <1>4, <1>5 DEF Intact
<1> QED
  BY <1>6

\* What is emitted comes behind what is queued.
LEMMA EmitQueue ==
  ASSUME ReaderTypeOK, NEW s \in Seq(Signal), Emit(s)
  PROVE  /\ signals' \in Seq(Signal) /\ Len(signals') = Len(signals) + Len(s) /\ Len(s) \in Nat
         /\ \A j \in 1..Len(signals) : signals'[j] = signals[j]
         /\ \A j \in 1..Len(s) : signals'[Len(signals) + j] = s[j]
         /\ \A j \in 1..Len(signals') : j \in 1..Len(signals) \/ \E i \in 1..Len(s) : j = Len(signals) + i
<1>1. signals' = signals \o s /\ signals \in Seq(Signal) /\ Len(signals) \in Nat /\ Len(s) \in Nat
  BY ReaderFacts DEF Emit
<1>2. signals' \in Seq(Signal) /\ Len(signals') = Len(signals) + Len(s)
  BY <1>1
<1>3. ASSUME NEW j \in 1..Len(signals)
      PROVE  signals'[j] = signals[j]
  BY <1>1
<1>4. ASSUME NEW j \in 1..Len(s)
      PROVE  signals'[Len(signals) + j] = s[j]
  BY <1>1
<1>5. ASSUME NEW j \in 1..Len(signals'), j \notin 1..Len(signals)
      PROVE  \E i \in 1..Len(s) : j = Len(signals) + i
  <2>1. j - Len(signals) \in 1..Len(s) /\ j = Len(signals) + (j - Len(signals))
    BY <1>1, <1>2, <1>5
  <2> QED
    BY <2>1
<1> QED
  BY <1>1, <1>2, <1>3, <1>4, <1>5

\* The queue without its oldest.
LEMMA TakeQueue ==
  ASSUME ReaderTypeOK, signals # <<>>, signals' = Tail(signals)
  PROVE  /\ signals' \in Seq(Signal) /\ Len(signals') \in Nat /\ Len(signals) = Len(signals') + 1
         /\ Head(signals) = signals[1] /\ 1 \in 1..Len(signals)
         /\ \A j \in 1..Len(signals') : j + 1 \in 1..Len(signals) /\ signals'[j] = signals[j + 1]
BY ReaderFacts

\* An operation of the call of t completes, and s is emitted.
LEMMA EmitCallInv ==
  ASSUME ReaderTypeOK, CallInv, NEW t \in Tags, InFlight(t), NEW s \in Seq(Signal), Emit(s),
         NEW st \in {"READ", "DONE", "freed"}, Goes(t, st),
         \A i \in 1..Len(s) : s[i].tag = t /\ (s[i].kind \in {"error", "closed"} => st = "freed"),
         \A i, j \in 1..Len(s) : i < j => s[i].kind # "closed" /\ (s[i].kind = "error" => s[j].kind = "closed"),
         st = "READ" \/ readStatus[t] = "DONE" \/ \E i \in 1..Len(s) : s[i].kind \in {"dataEnd", "error"}
  PROVE  CallInv'
<1> DEFINE n == Len(signals)
<1>1. /\ n \in Nat /\ Len(s) \in Nat /\ Len(signals') = n + Len(s)
      /\ \A j \in 1..n : signals'[j] = signals[j]
      /\ \A j \in 1..Len(s) : signals'[n + j] = s[j]
      /\ \A j \in 1..Len(signals') : j \in 1..n \/ \E i \in 1..Len(s) : j = n + i
      /\ \A j \in 1..n : signals[j].tag \in Tags
  BY EmitQueue, ReaderFacts
<1>2. /\ UNCHANGED <<lastTag, callbacks, heard, unwinding>>
      /\ readStatus \in [Tags -> {"none", "WRITE", "READ", "DONE", "freed"}]
  BY DEF Emit, ReaderTypeOK
<1>3. readStatus'[t] = st /\ \A u \in Tags : u # t => readStatus'[u] = readStatus[u]
  BY <1>2 DEF Goes
<1>4. Listens(t) /\ \A u \in Tags : Listens(u)' <=> Listens(u)
  BY <1>2 DEF CallInv, Listening, Listens
<1>5. \A j \in 1..n : signals[j].tag = t => signals[j].kind \notin {"error", "closed"}
  BY DEF CallInv, Announced, InFlight
<1>6. /\ \A j, k \in 1..n : j < k /\ signals[j].tag = signals[k].tag =>
           signals[j].kind # "closed" /\ (signals[j].kind = "error" => signals[k].kind = "closed")
      /\ \A j \in 1..n : /\ readStatus[signals[j].tag] # "none"
                         /\ signals[j].kind \in {"error", "closed"} => readStatus[signals[j].tag] = "freed"
      /\ \A j \in 1..n : signals[j].kind \in {"data", "dataEnd"} => Listens(signals[j].tag)
      /\ \A u \in Tags : InFlight(u) => Listens(u)
  BY DEF CallInv, Following, Announced, Listening
<1> HIDE DEF n
<1>7. Following'
  <2> SUFFICES ASSUME NEW j \in 1..Len(signals'), NEW k \in 1..Len(signals'), j < k, signals'[j].tag = signals'[k].tag
               PROVE  signals'[j].kind # "closed" /\ (signals'[j].kind = "error" => signals'[k].kind = "closed")
    BY DEF Following
  <2>1. CASE k \in 1..n
    <3>1. j \in 1..n
      BY <1>1, <2>1
    <3> QED
      BY <1>1, <1>6, <2>1, <3>1
  <2>2. CASE k \notin 1..n /\ j \in 1..n
    <3>1. signals'[k].tag = t
      BY <1>1, <2>2
    <3> QED
      BY <1>1, <1>5, <2>2, <3>1
  <2>3. CASE k \notin 1..n /\ j \notin 1..n
    <3>1. PICK a \in 1..Len(s), b \in 1..Len(s) : j = n + a /\ k = n + b
      BY <1>1, <2>3
    <3>2. a < b /\ signals'[j] = s[a] /\ signals'[k] = s[b]
      BY <1>1, <3>1
    <3> QED
      BY <3>2
  <2> QED
    BY <2>1, <2>2, <2>3
<1>8. Announced'
  <2> SUFFICES ASSUME NEW j \in 1..Len(signals')
               PROVE  /\ readStatus'[signals'[j].tag] # "none"
                      /\ signals'[j].kind \in {"error", "closed"} => readStatus'[signals'[j].tag] = "freed"
    BY DEF Announced
  <2>1. CASE j \in 1..n
    BY <1>1, <1>3, <1>5, <1>6, <2>1
  <2>2. CASE j \notin 1..n
    <3>1. PICK i \in 1..Len(s) : j = n + i
      BY <1>1, <2>2
    <3>2. signals'[j] = s[i]
      BY <1>1, <3>1
    <3> QED
      BY <1>3, <3>2
  <2> QED
    BY <2>1, <2>2
<1>9. Listening'
  <2>1. \A u \in Tags : InFlight(u)' => Listens(u)'
    BY <1>3, <1>4, <1>6 DEF InFlight
  <2>2. \A j \in 1..Len(signals') : signals'[j].kind \in {"data", "dataEnd"} =>
         signals'[j].tag \in callbacks' /\ signals'[j].tag \notin unwinding'
    <3> SUFFICES ASSUME NEW j \in 1..Len(signals'), signals'[j].kind \in {"data", "dataEnd"}
                 PROVE  signals'[j].tag \in callbacks' /\ signals'[j].tag \notin unwinding'
      OBVIOUS
    <3>1. CASE j \in 1..n
      <4>1. Listens(signals[j].tag) /\ signals'[j] = signals[j]
        BY <1>1, <1>6, <3>1
      <4> QED
        BY <1>2, <4>1 DEF Listens
    <3>2. CASE j \notin 1..n
      <4>1. signals'[j].tag = t
        BY <1>1, <3>2
      <4> QED
        BY <1>2, <1>4, <4>1 DEF Listens
    <3> QED
      BY <3>1, <3>2
  <2> QED
    BY <2>1, <2>2 DEF Listening, Listens
<1>10. Ended'
  <2> SUFFICES ASSUME NEW u \in Tags, readStatus'[u] \in {"DONE", "freed"}
               PROVE  Told(u)' \/ (Listens(u)' /\ Coming(u)')
    BY DEF Ended
  <2>1. \A w \in Tags : Told(w) => Told(w)'
    BY <1>2 DEF Told
  <2>2. \A w \in Tags : Coming(w) => Coming(w)'
    <3> SUFFICES ASSUME NEW w \in Tags, NEW j \in 1..n, signals[j].tag = w, signals[j].kind \in {"dataEnd", "error"}
                 PROVE  Coming(w)'
      BY DEF Coming, n
    <3>1. j \in 1..Len(signals') /\ signals'[j] = signals[j]
      BY <1>1
    <3> QED
      BY <3>1 DEF Coming
  <2>3. CASE readStatus[u] \in {"DONE", "freed"}
    BY <1>4, <2>1, <2>2, <2>3 DEF CallInv, Ended
  <2>4. CASE readStatus[u] \notin {"DONE", "freed"}
    <3>1. u = t /\ st # "READ" /\ readStatus[t] # "DONE"
      BY <1>3, <2>4
    <3>2. PICK i \in 1..Len(s) : s[i].kind \in {"dataEnd", "error"}
      BY <3>1
    <3>3. n + i \in 1..Len(signals') /\ signals'[n + i] = s[i] /\ s[i].tag = t
      BY <1>1
    <3>4. Coming(t)'
      BY <3>2, <3>3 DEF Coming
    <3> QED
      BY <1>4, <3>1, <3>4
  <2> QED
    BY <2>3, <2>4
<1>11. TagsNew'
  BY <1>2, <1>3 DEF CallInv, TagsNew, InFlight
<1> QED
  BY <1>7, <1>8, <1>9, <1>10, <1>11 DEF CallInv

\* The oldest signal is delivered: who still listens, and what they heard.
LEMMA TakeCallInv ==
  ASSUME ReaderTypeOK, CallInv, signals # <<>>, signals' = Tail(signals),
         UNCHANGED <<lastTag, readStatus>>, NEW x \in Signal, x = signals[1],
         \A t \in Tags : (t # x.tag \/ x.kind \in {"data", "dataEnd"}) => (Listens(t)' <=> Listens(t)),
         \A t \in Tags : Told(t) => Told(t)',
         x.kind \in {"dataEnd", "error"} /\ Listens(x.tag) => Told(x.tag)',
         callbacks' \cup unwinding' \subseteq callbacks \cup unwinding
  PROVE  CallInv'
<1>1. /\ Len(signals') \in Nat /\ Len(signals) = Len(signals') + 1 /\ 1 \in 1..Len(signals)
      /\ \A j \in 1..Len(signals') : j + 1 \in 1..Len(signals) /\ signals'[j] = signals[j + 1]
      /\ \A j \in 1..Len(signals) : signals[j].tag \in Tags /\ signals[j].kind \in SignalKinds
  BY TakeQueue, ReaderFacts
<1>2. /\ \A j, k \in 1..Len(signals) : j < k /\ signals[j].tag = signals[k].tag =>
           signals[j].kind # "closed" /\ (signals[j].kind = "error" => signals[k].kind = "closed")
      /\ \A j \in 1..Len(signals) :
           /\ readStatus[signals[j].tag] # "none"
           /\ signals[j].kind \in {"error", "closed"} => readStatus[signals[j].tag] = "freed"
      /\ \A j \in 1..Len(signals) : signals[j].kind \in {"data", "dataEnd"} => Listens(signals[j].tag)
      /\ \A u \in Tags : InFlight(u) => Listens(u)
  BY DEF CallInv, Following, Announced, Listening
\* Behind an error there is only closed, behind closed nothing.
<1>3. ASSUME NEW j \in 1..Len(signals'), signals'[j].tag = x.tag
      PROVE  x.kind # "closed" /\ (x.kind = "error" => signals'[j].kind = "closed")
  <2>1. 1 < j + 1 /\ j + 1 \in 1..Len(signals) /\ signals'[j] = signals[j + 1]
    BY <1>1
  <2> QED
    BY <1>1, <1>2, <1>3, <2>1
<1>4. Following'
  <2> SUFFICES ASSUME NEW j \in 1..Len(signals'), NEW k \in 1..Len(signals'), j < k, signals'[j].tag = signals'[k].tag
               PROVE  signals'[j].kind # "closed" /\ (signals'[j].kind = "error" => signals'[k].kind = "closed")
    BY DEF Following
  <2>1. j + 1 < k + 1
    BY <1>1
  <2> QED
    BY <1>1, <1>2, <2>1
<1>5. Announced'
  BY <1>1, <1>2 DEF Announced
<1>6. Listening'
  <2>1. ASSUME NEW u \in Tags, InFlight(u)
        PROVE  Listens(u)'
    <3>1. u = x.tag => x.kind \in {"data", "dataEnd"}
      BY <1>1, <1>2, <2>1 DEF InFlight, SignalKinds
    <3> QED
      BY <1>2, <2>1, <3>1
  <2>2. ASSUME NEW j \in 1..Len(signals'), signals'[j].kind \in {"data", "dataEnd"}
        PROVE  signals'[j].tag \in callbacks' /\ signals'[j].tag \notin unwinding'
    <3>1. signals'[j].tag \in Tags /\ Listens(signals'[j].tag)
      BY <1>1, <1>2, <2>2
    <3>2. signals'[j].tag = x.tag => x.kind \in {"data", "dataEnd"}
      BY <1>1, <1>3, <2>2 DEF SignalKinds
    <3>3. PICK u \in Tags : u = signals'[j].tag
      BY <3>1
    <3>4. Listens(u)'
      BY <3>1, <3>2, <3>3
    <3> QED
      BY <3>3, <3>4 DEF Listens
  <2>3. \A u \in Tags : InFlight(u)' <=> InFlight(u)
    BY DEF InFlight
  <2> QED
    BY <2>1, <2>2, <2>3 DEF Listening, Listens
<1>7. Ended'
  <2> SUFFICES ASSUME NEW u \in Tags, readStatus[u] \in {"DONE", "freed"}, ~Told(u)'
               PROVE  Listens(u)' /\ Coming(u)'
    BY DEF Ended
  <2>1. Listens(u) /\ Coming(u)
    BY DEF CallInv, Ended
  <2>2. PICK j \in 1..Len(signals) : signals[j].tag = u /\ signals[j].kind \in {"dataEnd", "error"}
    BY <2>1 DEF Coming
  <2>3. j # 1
    BY <2>1, <2>2
  <2>4. j - 1 \in 1..Len(signals') /\ signals'[j - 1] = signals[j]
    BY <1>1, <2>3
  <2>5. Coming(u)'
    BY <2>2, <2>4 DEF Coming
  <2>6. u = x.tag => x.kind \in {"data", "dataEnd"}
    BY <1>1, <1>3, <2>1, <2>2, <2>4 DEF SignalKinds
  <2> QED
    BY <2>1, <2>5, <2>6
<1>8. TagsNew'
  BY DEF CallInv, TagsNew
<1> QED
  BY <1>4, <1>5, <1>6, <1>7, <1>8 DEF CallInv

\* A signal that is no message of the tag leaves its line as it is, and so does
\* a message that has no field set.
LEMMA EmitIntact ==
  ASSUME ReaderTypeOK, NEW s \in Seq(Signal), Emit(s), NEW t \in Tags, NEW p, Intact(t, p),
         \A i \in 1..Len(s), v \in Payloads : v # EmptyPayload => s[i] # DataOf(t, v),
         Sent(t)' = Sent(t), \A i \in Sent(t) : received'[t][i] = received[t][i]
  PROVE  Intact(t, p)'
<1> DEFINE n == Len(signals)
           h == Len(heard[t])
<1>1. /\ n \in Nat /\ Len(s) \in Nat /\ Len(signals') = n + Len(s)
      /\ \A j \in 1..n : signals'[j] = signals[j]
      /\ \A j \in 1..Len(s) : signals'[n + j] = s[j]
      /\ h \in Nat /\ heard' = heard
  BY EmitQueue, ReaderFacts DEF Emit
<1>2. Places(t) = 1..(h + n) /\ Places(t)' = 1..(h + n + Len(s))
  <2>1. Places(t)' = 1..(h + (n + Len(s)))
    BY <1>1 DEF Places
  <2>2. h + (n + Len(s)) = h + n + Len(s)
    <3>1. h \in Nat /\ n \in Nat /\ Len(s) \in Nat
      BY <1>1
    <3>2. \A a, b, c \in Nat : a + (b + c) = a + b + c
      OBVIOUS
    <3> HIDE DEF h, n
    <3> QED
      BY <3>1, <3>2
  <2> QED
    BY <2>1, <2>2 DEF Places
<1>3. Places(t) \subseteq Places(t)'
  BY <1>1, <1>2
<1>4. ASSUME NEW k \in Places(t), NEW v \in Payloads
      PROVE  InLine(t, k, v)' <=> InLine(t, k, v)
  <2>1. k > h => k - h \in 1..n
    BY <1>1, <1>2
  <2>2. k > h => signals'[k - h] = signals[k - h]
    BY <1>1, <2>1
  <2> QED
    BY <1>1, <2>2 DEF InLine, HeardAt, QueuedAt, DataOf
<1>5. ASSUME NEW k \in Places(t)' \ Places(t), NEW v \in Payloads
      PROVE  ~InLine(t, k, v)'
  <2>1. k > h /\ ~(k <= h) /\ k - h - n \in 1..Len(s) /\ k - h = n + (k - h - n)
    BY <1>1, <1>2
  <2>2. signals'[k - h] = s[k - h - n]
    BY <1>1, <2>1
  <2>3. v # EmptyPayload => signals'[k - h] # DataOf(t, v)
    BY <2>1, <2>2
  <2> QED
    BY <1>1, <2>1, <2>3 DEF InLine, HeardAt, QueuedAt, DataOf
<1>6. \A i \in Sent(t) : received[t][i] \in Payloads
  BY ReaderFacts DEF Sent
<1> QED
  BY <1>3, <1>4, <1>5, <1>6, LineKept

\* The oldest signal is delivered: a message of the tag goes from the queue to
\* what was heard, and stays where it is in the line; any other leaves the line.
LEMMA TakeIntact ==
  ASSUME ReaderTypeOK, signals # <<>>, signals' = Tail(signals), received' = received,
         NEW t \in Tags, NEW p, Intact(t, p),
         \/ /\ heard'[t] = heard[t]
            /\ \A v \in Payloads : v # EmptyPayload => signals[1] # DataOf(t, v)
         \/ \E e \in Event :
              /\ heard'[t] = Append(heard[t], e)
              /\ \A v \in Payloads : e = [kind |-> "data", value |-> v] <=>
                                       v # EmptyPayload /\ signals[1] = DataOf(t, v)
  PROVE  \E q : Intact(t, q)'
<1> DEFINE n == Len(signals')
           h == Len(heard[t])
<1>1. /\ n \in Nat /\ Len(signals) = n + 1 /\ h \in Nat /\ heard[t] \in Seq(Event)
      /\ \A j \in 1..n : signals'[j] = signals[j + 1]
  BY TakeQueue, ReaderFacts
<1>2. Sent(t)' = Sent(t) /\ \A i \in Sent(t) : received'[t][i] = received[t][i] /\ received[t][i] \in Payloads
  BY ReaderFacts DEF Sent
<1>3. Places(t) = 1..(h + n + 1)
  BY <1>1 DEF Places
<1>4. CASE /\ heard'[t] = heard[t]
           /\ \A v \in Payloads : v # EmptyPayload => signals[1] # DataOf(t, v)
  <2>1. Places(t)' = 1..(h + n)
    BY <1>1, <1>4 DEF Places
  <2>2. ASSUME NEW v \in Payloads
        PROVE  ~InLine(t, h + 1, v)
    <3>1. h + 1 - h = 1 /\ ~(h + 1 <= h)
      BY <1>1
    <3> QED
      BY <1>4, <3>1 DEF InLine, HeardAt, QueuedAt
  <2>3. ASSUME NEW k \in 1..h, NEW v \in Payloads
        PROVE  InLine(t, k, v)' <=> InLine(t, k, v)
    <3>1. k <= h /\ ~(k > h)
      BY <1>1
    <3> QED
      BY <1>4, <3>1 DEF InLine, HeardAt, QueuedAt
  <2>4. ASSUME NEW k \in (h + 1)..(h + n), NEW v \in Payloads
        PROVE  InLine(t, k, v)' <=> InLine(t, k + 1, v)
    <3>1. k > h /\ ~(k <= h) /\ k + 1 > h /\ ~(k + 1 <= h) /\ k - h \in 1..n /\ k + 1 - h = (k - h) + 1
      BY <1>1
    <3>2. signals'[k - h] = signals[k + 1 - h]
      BY <1>1, <3>1
    <3>3. ~HeardAt(t, k, v)' /\ ~HeardAt(t, k + 1, v)
      BY <1>4, <3>1 DEF HeardAt
    <3>4. QueuedAt(t, k, v)' <=> v # EmptyPayload /\ signals'[k - h] = DataOf(t, v)
      BY <1>4, <3>1 DEF QueuedAt
    <3>5. QueuedAt(t, k + 1, v) <=> v # EmptyPayload /\ signals[k + 1 - h] = DataOf(t, v)
      BY <3>1 DEF QueuedAt
    <3> QED
      BY <3>2, <3>3, <3>4, <3>5 DEF InLine
  <2>5. h + n \in Nat /\ h <= h + n
    BY <1>1
  <2> HIDE DEF n, h
  <2>6. \A N \in Nat : N = h + n => \E q : Intact(t, q)'
    BY <1>1, <1>2, <1>3, <2>1, <2>2, <2>3, <2>4, <2>5, LineShifted
  <2> QED
    BY <2>5, <2>6
<1>5. ASSUME NEW e \in Event, heard'[t] = Append(heard[t], e),
             \A v \in Payloads : e = [kind |-> "data", value |-> v] <=>
                                   v # EmptyPayload /\ signals[1] = DataOf(t, v)
      PROVE  \E q : Intact(t, q)'
  <2>1. /\ Len(heard'[t]) = h + 1 /\ heard'[t][h + 1] = e
        /\ \A k \in 1..h : heard'[t][k] = heard[t][k]
    BY <1>1, <1>5
  <2>2. Places(t)' = Places(t)
    <3>1. Places(t)' = 1..((h + 1) + n)
      BY <2>1 DEF Places
    <3> QED
      BY <1>1, <1>3, <3>1
  <2>3. ASSUME NEW k \in Places(t), NEW v \in Payloads
        PROVE  InLine(t, k, v)' <=> InLine(t, k, v)
    <3>1. CASE k <= h
      <4>1. k \in 1..h /\ k <= h + 1 /\ ~(k > h) /\ ~(k > h + 1)
        BY <1>1, <1>3, <3>1
      <4> QED
        BY <2>1, <4>1 DEF InLine, HeardAt, QueuedAt
    <3>2. CASE k = h + 1
      <4>1. ~(k <= h) /\ k > h /\ k <= h + 1 /\ ~(k > h + 1) /\ k - h = 1
        BY <1>1, <3>2
      <4>2. HeardAt(t, k, v)' <=> e = [kind |-> "data", value |-> v]
        BY <2>1, <3>2, <4>1 DEF HeardAt
      <4>3. QueuedAt(t, k, v) <=> v # EmptyPayload /\ signals[1] = DataOf(t, v)
        BY <4>1 DEF QueuedAt
      <4>4. ~QueuedAt(t, k, v)' /\ ~HeardAt(t, k, v)
        BY <2>1, <4>1 DEF QueuedAt, HeardAt
      <4> QED
        BY <1>5, <4>2, <4>3, <4>4 DEF InLine
    <3>3. CASE k > h + 1
      <4>1. ~(k <= h) /\ ~(k <= h + 1) /\ k > h /\ k - (h + 1) \in 1..n /\ k - h = (k - (h + 1)) + 1
        BY <1>1, <1>3, <3>3
      <4>2. signals'[k - (h + 1)] = signals[k - h]
        BY <1>1, <4>1
      <4> QED
        BY <2>1, <3>3, <4>1, <4>2 DEF InLine, HeardAt, QueuedAt, DataOf
    <3> QED
      BY <1>1, <1>3, <3>1, <3>2, <3>3
  <2>4. Intact(t, p)'
    BY <1>2, <2>2, <2>3, LineKept
  <2> QED
    BY <2>4
<1> QED
  BY <1>4, <1>5

-----------------------------------------------------------------------------
(* The steps of the server-streaming method.                               *)

LEMMA InitReaderIInv == ReaderInit => ReaderIInv
<1> SUFFICES ASSUME ReaderInit
             PROVE  ReaderIInv
  OBVIOUS
<1>1. /\ lastTag = 0 /\ callbacks = {} /\ signals = <<>> /\ unwinding = {} /\ Len(signals) = 0
      /\ heard = [t \in Tags |-> <<>>] /\ readStatus = [t \in Tags |-> "none"]
      /\ received = [t \in Tags |-> <<>>]
  BY DEF ReaderInit, CallbackInit
<1>2. ReaderTypeOK
  <2>1. <<>> \in Seq(Signal) /\ <<>> \in Seq(Event) /\ <<>> \in Seq(Payloads)
    OBVIOUS
  <2> QED
    BY <1>1, <2>1, CallbackAssumption DEF ReaderTypeOK, CallbackTypeOK
<1>3. StreamIntact
  <2> SUFFICES ASSUME NEW t \in Tags
               PROVE  \E p : Intact(t, p)
    BY DEF StreamIntact, Intact
  <2>1. heard[t] = <<>> /\ received[t] = <<>>
    BY <1>1
  <2>2. Sent(t) = {} /\ Places(t) = {}
    BY <1>1, <2>1 DEF Sent, Places
  <2>3. Intact(t, [i \in {} |-> 1])
    BY <2>2 DEF Intact
  <2> QED
    BY <2>3
<1>4. CallInv
  BY <1>1 DEF CallInv, Following, Announced, Listening, InFlight, Ended, TagsNew
<1> QED
  BY <1>2, <1>3, <1>4 DEF ReaderIInv

\* A step that touches neither the line of a tag nor what gRPC delivered.
LEMMA StillIntact ==
  ASSUME StreamIntact, UNCHANGED <<signals, heard, received>>
  PROVE  StreamIntact'
<1> SUFFICES ASSUME NEW t \in Tags
             PROVE  \E p : Intact(t, p)'
  BY DEF StreamIntact, Intact
<1>1. PICK p : Intact(t, p)
  BY DEF StreamIntact, Intact
<1>2. Intact(t, p)'
  BY <1>1 DEF Intact, Sent, Places, InLine, HeardAt, QueuedAt
<1> QED
  BY <1>2

LEMMA ReaderCallIInv ==
  ASSUME ReaderIInv, ReaderCall
  PROVE  ReaderIInv'
<1>1. /\ lastTag \in Nat /\ lastTag' = lastTag + 1 /\ lastTag' \in Tags
      /\ callbacks' = callbacks \cup {lastTag'}
      /\ readStatus' = [readStatus EXCEPT ![lastTag'] = "WRITE"]
      /\ readStatus \in [Tags -> {"none", "WRITE", "READ", "DONE", "freed"}]
      /\ UNCHANGED <<signals, heard, unwinding, received>>
  BY CallbackAssumption DEF ReaderCall, NewTag, ReaderIInv, ReaderTypeOK, CallbackTypeOK, Tags
<1>2. readStatus[lastTag'] = "none" /\ lastTag' \notin callbacks \cup unwinding
  BY <1>1 DEF ReaderIInv, CallInv, TagsNew
<1>3. /\ readStatus'[lastTag'] = "WRITE" /\ \A t \in Tags : t # lastTag' => readStatus'[t] = readStatus[t]
      /\ \A j \in 1..Len(signals) : signals[j].tag \in Tags /\ signals[j].tag # lastTag'
  BY <1>1, <1>2, ReaderFacts DEF ReaderIInv, CallInv, Announced
<1>4. ReaderTypeOK'
  BY <1>1 DEF ReaderIInv, ReaderTypeOK, CallbackTypeOK, Tags
<1>5. StreamIntact'
  BY <1>1, StillIntact DEF ReaderIInv
<1>6. Following'
  BY <1>1 DEF ReaderIInv, CallInv, Following
<1>7. Announced'
  BY <1>1, <1>3 DEF ReaderIInv, CallInv, Announced
<1>8. Listening'
  BY <1>1, <1>2, <1>3 DEF ReaderIInv, CallInv, Listening, InFlight, Listens
<1>9. Ended'
  <2> SUFFICES ASSUME NEW t \in Tags, readStatus'[t] \in {"DONE", "freed"}
               PROVE  Told(t)' \/ (Listens(t)' /\ Coming(t)')
    BY DEF Ended
  <2>1. readStatus[t] \in {"DONE", "freed"}
    BY <1>3
  <2>2. Told(t) \/ (Listens(t) /\ Coming(t))
    BY <2>1 DEF ReaderIInv, CallInv, Ended
  <2> QED
    BY <1>1, <2>2 DEF Told, Listens, Coming
<1>10. TagsNew'
  BY <1>1, <1>3 DEF ReaderIInv, CallInv, TagsNew, Tags
<1> QED
  BY <1>4, <1>5, <1>6, <1>7, <1>8, <1>9, <1>10 DEF ReaderIInv, CallInv

LEMMA CallRefusedIInv ==
  ASSUME ReaderIInv, CallRefused
  PROVE  ReaderIInv'
<1>1. /\ lastTag \in Nat /\ lastTag' = lastTag + 1 /\ lastTag' \in Tags
      /\ UNCHANGED <<callbacks, signals, heard, unwinding, readStatus, received>>
  BY CallbackAssumption DEF CallRefused, ReaderIInv, ReaderTypeOK, CallbackTypeOK, Tags
<1>2. ReaderTypeOK'
  BY <1>1 DEF ReaderIInv, ReaderTypeOK, CallbackTypeOK, Tags
<1>3. StreamIntact'
  BY <1>1, StillIntact DEF ReaderIInv
<1>4. Following' /\ Announced' /\ Listening'
  BY <1>1 DEF ReaderIInv, CallInv, Following, Announced, Listening, InFlight, Listens
<1>5. Ended'
  BY <1>1 DEF ReaderIInv, CallInv, Ended, Told, Listens, Coming
<1>6. TagsNew'
  BY <1>1 DEF ReaderIInv, CallInv, TagsNew, Tags
<1> QED
  BY <1>2, <1>3, <1>4, <1>5, <1>6 DEF ReaderIInv, CallInv

\* A completion that is no message: s is emitted.
LEMMA EmitIInv ==
  ASSUME ReaderIInv, NEW t \in Tags, InFlight(t), NEW s \in Seq(Signal), Emit(s),
         NEW st \in {"READ", "DONE", "freed"}, Goes(t, st), UNCHANGED received,
         \A i \in 1..Len(s) : /\ s[i].tag = t /\ s[i].kind # "data"
                              /\ s[i].kind \in {"error", "closed"} => st = "freed",
         \A i, j \in 1..Len(s) : i < j => s[i].kind # "closed" /\ (s[i].kind = "error" => s[j].kind = "closed"),
         st = "READ" \/ readStatus[t] = "DONE" \/ \E i \in 1..Len(s) : s[i].kind \in {"dataEnd", "error"}
  PROVE  ReaderIInv'
<1>1. ReaderTypeOK'
  <2>1. signals' \in Seq(Signal)
    BY EmitQueue DEF ReaderIInv
  <2> QED
    BY <2>1 DEF ReaderIInv, ReaderTypeOK, CallbackTypeOK, Emit, Goes
<1>2. StreamIntact'
  <2> SUFFICES ASSUME NEW u \in Tags
               PROVE  \E p : Intact(u, p)'
    BY DEF StreamIntact, Intact
  <2>1. PICK p : Intact(u, p)
    BY DEF ReaderIInv, StreamIntact, Intact
  <2>2. \A i \in 1..Len(s), v \in Payloads : s[i] # DataOf(u, v)
    BY DEF DataOf
  <2>3. Sent(u)' = Sent(u) /\ \A i \in Sent(u) : received'[u][i] = received[u][i]
    BY DEF Sent
  <2>4. Intact(u, p)'
    BY <2>1, <2>2, <2>3, EmitIntact DEF ReaderIInv
  <2> QED
    BY <2>4
<1>3. CallInv'
  <2>1. \A i \in 1..Len(s) : s[i].tag = t /\ (s[i].kind \in {"error", "closed"} => st = "freed")
    OBVIOUS
  <2> QED
    BY <2>1, EmitCallInv DEF ReaderIInv
<1> QED
  BY <1>1, <1>2, <1>3 DEF ReaderIInv

LEMMA ProcessSentIInv ==
  ASSUME ReaderIInv, NEW t \in Tags, NEW ok \in BOOLEAN, ProcessSent(t, ok)
  PROVE  ReaderIInv'
<1>1. InFlight(t) /\ UNCHANGED received
  BY DEF ProcessSent, InFlight
<1>2. CASE ok
  <2>1. Goes(t, "READ") /\ UNCHANGED callbackVars
    BY <1>2 DEF ProcessSent
  <2> DEFINE s == <<>>
  <2>2. s \in Seq(Signal) /\ Len(s) = 0 /\ signals \o s = signals
    BY ReaderFacts DEF ReaderIInv
  <2>3. Emit(s)
    BY <2>1, <2>2 DEF Emit, callbackVars
  <2> HIDE DEF s
  <2>4. 1..Len(s) = {}
    BY <2>2
  <2> QED
    BY <1>1, <2>1, <2>2, <2>3, <2>4, EmitIInv
<1>3. CASE ~ok
  <2> DEFINE s == <<EventOf("error", t)>>
  <2>1. Goes(t, "freed") /\ Emit(s)
    BY <1>3 DEF ProcessSent
  <2>2. EventOf("error", t) \in Signal /\ EventOf("error", t).tag = t /\ EventOf("error", t).kind = "error"
    BY DEF EventOf, Signal, SignalKinds
  <2>3. s \in Seq(Signal) /\ Len(s) = 1 /\ s[1].tag = t /\ s[1].kind = "error"
    BY <2>2
  <2> HIDE DEF s
  <2> QED
    BY <1>1, <2>1, <2>3, EmitIInv
<1> QED
  BY <1>2, <1>3

LEMMA ProcessReadEndIInv ==
  ASSUME ReaderIInv, NEW t \in Tags, ProcessReadEnd(t)
  PROVE  ReaderIInv'
<1> DEFINE s == <<EventOf("dataEnd", t)>>
<1>1. InFlight(t) /\ UNCHANGED received /\ Goes(t, "DONE") /\ Emit(s)
  BY DEF ProcessReadEnd, InFlight
<1>2. EventOf("dataEnd", t) \in Signal /\ EventOf("dataEnd", t).tag = t /\ EventOf("dataEnd", t).kind = "dataEnd"
  BY DEF EventOf, Signal, SignalKinds
<1>3. s \in Seq(Signal) /\ Len(s) = 1 /\ s[1].tag = t /\ s[1].kind = "dataEnd"
  BY <1>2
<1> HIDE DEF s
<1> QED
  BY <1>1, <1>3, EmitIInv

LEMMA TwoSignals ==
  ASSUME NEW p \in Seq(Signal), NEW q \in Seq(Signal), Len(p) = 1, Len(q) = 1
  PROVE  p \o q \in Seq(Signal) /\ Len(p \o q) = 2 /\ (p \o q)[1] = p[1] /\ (p \o q)[2] = q[1]
<1>1. \A a, b \in Seq(Signal) : a \o b \in Seq(Signal)
  OBVIOUS
<1>2. \A a, b \in Seq(Signal) : Len(a \o b) = Len(a) + Len(b)
  OBVIOUS
<1>3. \A a, b \in Seq(Signal) : \A i \in 1..Len(a) : (a \o b)[i] = a[i]
  OBVIOUS
<1>4. \A a, b \in Seq(Signal) : \A i \in 1..(Len(a) + Len(b)) : i > Len(a) => (a \o b)[i] = b[i - Len(a)]
  OBVIOUS
<1>5. 1 \in 1..Len(p) /\ 2 \in 1..(Len(p) + Len(q)) /\ 2 > Len(p) /\ 2 - Len(p) = 1 /\ Len(p) + Len(q) = 2
  OBVIOUS
<1>6. (p \o q)[1] = p[1]
  BY <1>3, <1>5
<1>7. (p \o q)[2] = q[1]
  BY <1>4, <1>5
<1> QED
  BY <1>1, <1>2, <1>5, <1>6, <1>7

LEMMA ProcessOverIInv ==
  ASSUME ReaderIInv, NEW t \in Tags, NEW bad \in BOOLEAN, ProcessOver(t, bad)
  PROVE  ReaderIInv'
<1> DEFINE a == EventOf("error", t)
           b == EventOf("closed", t)
           s == (IF bad THEN <<a>> ELSE <<>>) \o <<b>>
<1>1. InFlight(t) /\ readStatus[t] = "DONE" /\ UNCHANGED received /\ Goes(t, "freed") /\ Emit(s)
  BY DEF ProcessOver, InFlight
<1>2. a \in Signal /\ a.tag = t /\ a.kind = "error" /\ b \in Signal /\ b.tag = t /\ b.kind = "closed"
  BY DEF EventOf, Signal, SignalKinds
<1> HIDE DEF a, b
<1>3. CASE bad
  <2> DEFINE p == <<a>>
             q == <<b>>
  <2>1. s = p \o q
    BY <1>3
  <2> HIDE DEF s
  <2>2. s \in Seq(Signal) /\ Len(s) = 2 /\ s[1] = a /\ s[2] = b
    <3>1. p \in Seq(Signal) /\ Len(p) = 1 /\ p[1] = a /\ q \in Seq(Signal) /\ Len(q) = 1 /\ q[1] = b
      BY <1>2
    <3> HIDE DEF p, q
    <3> QED
      BY <2>1, <3>1, TwoSignals
  <2>3. \A i \in 1..Len(s) : s[i].tag = t /\ s[i].kind \in {"error", "closed"}
    BY <1>2, <2>2
  <2>4. \A i, j \in 1..Len(s) : i < j => s[i].kind = "error" /\ s[j].kind = "closed"
    BY <1>2, <2>2
  <2> QED
    BY <1>1, <2>2, <2>3, <2>4, EmitIInv
<1>4. CASE ~bad
  <2>1. s = <<b>>
    BY <1>4
  <2>2. s \in Seq(Signal) /\ Len(s) = 1 /\ s[1] = b
    BY <1>2, <2>1
  <2> HIDE DEF s
  <2>3. \A i \in 1..Len(s) : s[i].tag = t /\ s[i].kind = "closed"
    BY <1>2, <2>2
  <2>4. \A i, j \in 1..Len(s) : ~(i < j)
    BY <2>2
  <2> QED
    BY <1>1, <2>2, <2>3, <2>4, EmitIInv
<1> QED
  BY <1>3, <1>4

LEMMA ProcessReadIInv ==
  ASSUME ReaderIInv, NEW t \in Tags, NEW w \in Payloads, ProcessRead(t, w)
  PROVE  ReaderIInv'
<1> DEFINE s == <<DataOf(t, w)>>
<1>a. PICK m \in Nat, h \in Nat, n \in Nat :
        m = Len(received[t]) /\ h = Len(heard[t]) /\ n = Len(signals)
  BY ReaderFacts DEF ReaderIInv
<1>b. PICK N \in Nat : N = h + n
  OBVIOUS
<1>1. /\ InFlight(t) /\ readStatus[t] = "READ" /\ Emit(s) /\ readStatus' = readStatus
      /\ received' = [received EXCEPT ![t] = Append(@, w)]
      /\ readStatus \in [Tags -> {"none", "WRITE", "READ", "DONE", "freed"}]
      /\ received \in [Tags -> Seq(Payloads)] /\ m \in Nat /\ Len(heard[t]) \in Nat /\ Len(signals) \in Nat
      /\ heard' = heard /\ N \in Nat
  BY <1>a, <1>b, ReaderFacts DEF ProcessRead, InFlight, ReaderIInv, ReaderTypeOK, Emit
<1>2. s \in Seq(Signal) /\ Len(s) = 1 /\ s[1] = DataOf(t, w) /\ s[1].tag = t /\ s[1].kind = "data" /\ s[1].value = w
  BY DEF DataOf, Signal, SignalKinds
<1> HIDE DEF s
<1>3. /\ signals' \in Seq(Signal) /\ Len(signals') = Len(signals) + 1
      /\ \A j \in 1..Len(signals) : signals'[j] = signals[j]
      /\ signals'[Len(signals) + 1] = DataOf(t, w)
  <2>1. /\ signals' \in Seq(Signal) /\ Len(signals') = Len(signals) + Len(s)
        /\ \A j \in 1..Len(signals) : signals'[j] = signals[j]
        /\ \A j \in 1..Len(s) : signals'[Len(signals) + j] = s[j]
    BY <1>1, <1>2, EmitQueue DEF ReaderIInv
  <2>2. 1 \in 1..Len(s)
    BY <1>2
  <2> QED
    BY <1>2, <2>1, <2>2
<1>4. /\ received' \in [Tags -> Seq(Payloads)] /\ received'[t] = Append(received[t], w)
      /\ \A u \in Tags : u # t => received'[u] = received[u]
  BY <1>1
<1>5. /\ DOMAIN received[t] = 1..m /\ DOMAIN received'[t] = 1..(m + 1) /\ received'[t][m + 1] = w
      /\ \A i \in 1..m : received'[t][i] = received[t][i] /\ received[t][i] \in Payloads
  BY <1>a, <1>1, <1>4
<1>6. ReaderTypeOK'
  BY <1>1, <1>3, <1>4 DEF ReaderIInv, ReaderTypeOK, CallbackTypeOK, Emit
<1>7. CallInv'
  <2>1. Goes(t, "READ")
    BY <1>1 DEF Goes
  <2>2. \A i \in 1..Len(s) : s[i].tag = t /\ s[i].kind = "data"
    BY <1>2
  <2>3. \A i, j \in 1..Len(s) : ~(i < j)
    BY <1>2
  <2>4. ReaderTypeOK /\ CallInv
    BY DEF ReaderIInv
  <2> QED
    BY <1>1, <1>2, <2>1, <2>2, <2>3, <2>4, EmitCallInv
<1>8. ASSUME NEW u \in Tags
      PROVE  \E p : Intact(u, p)'
  <2>1. PICK p : Intact(u, p)
    BY DEF ReaderIInv, StreamIntact, Intact
  <2>2. CASE u # t
    <3>1. Sent(u)' = Sent(u) /\ \A i \in Sent(u) : received'[u][i] = received[u][i]
      BY <1>4, <2>2 DEF Sent
    <3>2. \A i \in 1..Len(s), v \in Payloads : s[i] # DataOf(u, v)
      BY <1>2, <2>2 DEF DataOf
    <3>3. Intact(u, p)'
      BY <1>1, <1>2, <2>1, <3>1, <3>2, EmitIntact DEF ReaderIInv
    <3> QED
      BY <3>3
  <2>3. CASE u = t /\ w = EmptyPayload
    <3>1. Sent(t)' = Sent(t) /\ \A i \in Sent(t) : received'[t][i] = received[t][i]
      BY <1>1, <1>5, <2>3 DEF Sent
    <3>2. \A i \in 1..Len(s), v \in Payloads : v # EmptyPayload => s[i] # DataOf(t, v)
      BY <1>2, <2>3 DEF DataOf
    <3>3. Intact(t, p)'
      BY <1>1, <1>2, <2>1, <2>3, <3>1, <3>2, EmitIntact DEF ReaderIInv
    <3> QED
      BY <2>3, <3>3
  <2>4. CASE u = t /\ w # EmptyPayload
    <3>1. /\ Sent(t) \subseteq 1..m /\ Sent(t)' = Sent(t) \cup {m + 1}
          /\ \A i \in Sent(t) : received'[t][i] = received[t][i] /\ received[t][i] \in Payloads
      BY <1>1, <1>5, <2>4 DEF Sent
    <3>2. Places(t) = 1..N /\ Places(t)' = 1..(N + 1) /\ N \in Nat
      <4>1. Places(t)' = 1..(h + (n + 1))
        BY <1>a, <1>1, <1>3 DEF Places
      <4>2. h + (n + 1) = N + 1
        BY <1>b
      <4> QED
        BY <1>a, <1>b, <4>1, <4>2 DEF Places
    <3>3. InLine(t, N + 1, w)'
      <4>1. N + 1 > h /\ N + 1 - h = n + 1
        BY <1>b
      <4>2. PICK k \in Nat : k = N + 1
        OBVIOUS
      <4>3. QueuedAt(t, k, w)'
        <5>1. Len(heard'[t]) = h /\ signals'[n + 1] = DataOf(t, w)
          BY <1>a, <1>1, <1>3
        <5>2. k - h = n + 1 /\ k > h
          BY <4>1, <4>2
        <5>3. k > Len(heard'[t]) /\ signals'[k - Len(heard'[t])] = DataOf(t, w)
          BY <5>1, <5>2
        <5> QED
          BY <2>4, <5>3 DEF QueuedAt, DataOf
      <4> QED
        BY <4>2, <4>3 DEF InLine
    <3>4. ASSUME NEW k \in 1..N, NEW v \in Payloads
          PROVE  InLine(t, k, v)' <=> InLine(t, k, v)
      <4>1. k > Len(heard[t]) => k - Len(heard[t]) \in 1..Len(signals)
        <5>1. k > h => k - h \in 1..n
          BY <1>b
        <5> QED
          BY <1>a, <5>1
      <4>2. k > Len(heard[t]) => signals'[k - Len(heard[t])] = signals[k - Len(heard[t])]
        BY <1>3, <4>1
      <4> QED
        BY <1>1, <4>2 DEF InLine, HeardAt, QueuedAt, DataOf
    <3>5. received'[t][m + 1] = w
      BY <1>5
    <3>6. \E q : Intact(t, q)'
      BY <1>1, <2>1, <2>4, <3>1, <3>2, <3>3, <3>4, <3>5, LineLonger
    <3> QED
      BY <2>4, <3>6
  <2> QED
    BY <2>2, <2>3, <2>4
<1>9. StreamIntact'
  BY <1>8 DEF StreamIntact, Intact
<1> QED
  BY <1>6, <1>7, <1>9 DEF ReaderIInv

\* A signal is delivered, and at most the callback of its tag hears of it.
LEMMA TakeIInv ==
  ASSUME ReaderIInv, signals # <<>>, signals' = Tail(signals),
         UNCHANGED <<lastTag, readStatus, received>>, NEW x \in Signal, x = signals[1],
         callbacks' \subseteq callbacks, unwinding' \subseteq Tags,
         callbacks' \cup unwinding' \subseteq callbacks \cup unwinding,
         \A t \in Tags : (t # x.tag \/ x.kind \in {"data", "dataEnd"}) => (Listens(t)' <=> Listens(t)),
         \/ /\ heard' = heard
            /\ x.kind = "data" => x.value = EmptyPayload
            /\ x.kind \in {"dataEnd", "error"} => ~Listens(x.tag)
         \/ \E k \in {"data", "end", "error"}, w \in Payloads \cup {None} :
              /\ Hears(x.tag, k, w)
              /\ k = "data" <=> x.kind = "data"
              /\ k = "data" => w = x.value /\ w # EmptyPayload
  PROVE  ReaderIInv'
<1>1. /\ x.tag \in Tags /\ x.value \in Payloads \cup {None} /\ x.kind \in SignalKinds
      /\ x = [kind |-> x.kind, tag |-> x.tag, value |-> x.value]
  BY DEF Signal
<1>2. ReaderTypeOK /\ CallbackTypeOK /\ CallInv /\ StreamIntact /\ signals' \in Seq(Signal)
  BY TakeQueue DEF ReaderIInv, ReaderTypeOK
<1>3. /\ heard' \in [Tags -> Seq(Event)]
      /\ \A t \in Tags : Told(t) => Told(t)'
      /\ x.kind \in {"dataEnd", "error"} /\ Listens(x.tag) => Told(x.tag)'
      /\ \A t \in Tags :
           \/ /\ heard'[t] = heard[t]
              /\ \A v \in Payloads : v # EmptyPayload => x # DataOf(t, v)
           \/ \E e \in Event :
                /\ heard'[t] = Append(heard[t], e)
                /\ \A v \in Payloads : e = [kind |-> "data", value |-> v] <=>
                                         v # EmptyPayload /\ x = DataOf(t, v)
  <2>1. CASE /\ heard' = heard
             /\ x.kind = "data" => x.value = EmptyPayload
             /\ x.kind \in {"dataEnd", "error"} => ~Listens(x.tag)
    <3>1. \A t \in Tags, v \in Payloads : v # EmptyPayload => x # DataOf(t, v)
      BY <2>1 DEF DataOf
    <3> QED
      BY <1>2, <2>1, <3>1 DEF Told, CallbackTypeOK
  <2>2. ASSUME NEW k \in {"data", "end", "error"}, NEW w \in Payloads \cup {None}, Hears(x.tag, k, w),
               k = "data" <=> x.kind = "data", k = "data" => w = x.value /\ w # EmptyPayload
        PROVE  /\ heard' \in [Tags -> Seq(Event)]
               /\ \A t \in Tags : Told(t) => Told(t)'
               /\ x.kind \in {"dataEnd", "error"} /\ Listens(x.tag) => Told(x.tag)'
               /\ \A t \in Tags :
                    \/ /\ heard'[t] = heard[t]
                       /\ \A v \in Payloads : v # EmptyPayload => x # DataOf(t, v)
                    \/ \E e \in Event :
                         /\ heard'[t] = Append(heard[t], e)
                         /\ \A v \in Payloads : e = [kind |-> "data", value |-> v] <=>
                                                  v # EmptyPayload /\ x = DataOf(t, v)
    <3> DEFINE e == [kind |-> k, value |-> w]
               u == x.tag
    <3>1. e \in Event /\ e.kind = k /\ e.value = w
      BY <1>1 DEF Event
    <3>2. heard' = [heard EXCEPT ![u] = Append(@, e)] /\ heard \in [Tags -> Seq(Event)] /\ u \in Tags
      BY <1>1, <1>2, <2>2 DEF Hears, CallbackTypeOK
    <3>3. \A v \in Payloads : e = [kind |-> "data", value |-> v] <=> v # EmptyPayload /\ x = DataOf(u, v)
      BY <1>1, <2>2, <3>1 DEF DataOf
    <3>4. \A t \in Tags, v \in Payloads : t # u => x # DataOf(t, v)
      BY DEF DataOf
    <3> HIDE DEF e
    <3>5. /\ heard' \in [Tags -> Seq(Event)] /\ heard'[u] = Append(heard[u], e)
          /\ \A t \in Tags : t # u => heard'[t] = heard[t]
      BY <3>1, <3>2
    <3>6. /\ Len(heard'[u]) = Len(heard[u]) + 1 /\ heard'[u][Len(heard[u]) + 1] = e /\ Len(heard[u]) \in Nat
          /\ \A i \in 1..Len(heard[u]) : heard'[u][i] = heard[u][i]
      BY <3>1, <3>2, <3>5
    <3>7. ASSUME NEW t \in Tags, Told(t)
          PROVE  Told(t)'
      <4>1. PICK i \in 1..Len(heard[t]) : heard[t][i].kind \in {"end", "error"}
        BY <3>7 DEF Told
      <4>2. CASE t = u
        <5>1. i \in 1..Len(heard'[t]) /\ heard'[t][i] = heard[t][i]
          BY <3>6, <4>1, <4>2
        <5> QED
          BY <4>1, <5>1 DEF Told
      <4>3. CASE t # u
        BY <3>5, <3>7, <4>3 DEF Told
      <4> QED
        BY <4>2, <4>3
    <3>8. x.kind \in {"dataEnd", "error"} => Told(u)'
      <4>1. ASSUME x.kind \in {"dataEnd", "error"}
            PROVE  Told(u)'
        <5>1. e.kind \in {"end", "error"}
          BY <2>2, <3>1, <4>1
        <5>2. Len(heard[u]) + 1 \in 1..Len(heard'[u]) /\ heard'[u][Len(heard[u]) + 1].kind \in {"end", "error"}
          BY <3>6, <5>1
        <5> QED
          BY <5>2 DEF Told
      <4> QED
        BY <4>1
    <3>9. ASSUME NEW t \in Tags
          PROVE  \/ /\ heard'[t] = heard[t]
                    /\ \A v \in Payloads : v # EmptyPayload => x # DataOf(t, v)
                 \/ \E d \in Event :
                      /\ heard'[t] = Append(heard[t], d)
                      /\ \A v \in Payloads : d = [kind |-> "data", value |-> v] <=>
                                               v # EmptyPayload /\ x = DataOf(t, v)
      <4>1. CASE t = u
        BY <3>1, <3>3, <3>5, <4>1
      <4>2. CASE t # u
        BY <3>4, <3>5, <4>2
      <4> QED
        BY <4>1, <4>2
    <3> QED
      BY <3>5, <3>7, <3>8, <3>9
  <2> QED
    BY <2>1, <2>2
<1>4. ReaderTypeOK'
  BY <1>2, <1>3 DEF ReaderTypeOK, CallbackTypeOK
<1>5. CallInv'
  BY <1>2, <1>3, TakeCallInv
<1>6. ASSUME NEW t \in Tags
      PROVE  \E q : Intact(t, q)'
  <2>1. PICK p : Intact(t, p)
    BY <1>2 DEF StreamIntact, Intact
  <2> QED
    BY <1>2, <1>3, <2>1, TakeIntact
<1>7. StreamIntact'
  BY <1>6 DEF StreamIntact, Intact
<1> QED
  BY <1>4, <1>5, <1>7 DEF ReaderIInv

LEMMA ReaderDeliverIInv ==
  ASSUME ReaderIInv, ReaderDeliver
  PROVE  ReaderIInv'
<1> DEFINE x == signals[1]
<1>1. ReaderTypeOK /\ CallbackTypeOK /\ CallInv /\ UNCHANGED <<readStatus, received>>
  BY DEF ReaderIInv, ReaderTypeOK, ReaderDeliver
<1>2. ASSUME NEW k, Take(k)
      PROVE  /\ signals # <<>> /\ signals' = Tail(signals) /\ UNCHANGED lastTag /\ unwinding = {}
             /\ Oldest = x /\ x \in Signal /\ x.tag \in Tags /\ x.kind = k /\ 1 \in 1..Len(signals)
             /\ callbacks \subseteq Tags
  <2>1. signals # <<>> /\ signals' = Tail(signals) /\ UNCHANGED lastTag /\ unwinding = {} /\ Oldest.kind = k
    BY <1>2 DEF Take
  <2>2. Head(signals) = x /\ 1 \in 1..Len(signals)
    BY <1>1, <2>1, TakeQueue
  <2> QED
    BY <1>1, <2>1, <2>2, ReaderFacts DEF Oldest, CallbackTypeOK
<1> HIDE DEF x
<1>3. CASE DeliverData
  <2>1. Take("data") /\ UNCHANGED <<callbacks, unwinding>>
    BY <1>3 DEF DeliverData
  <2>2. /\ signals # <<>> /\ signals' = Tail(signals) /\ UNCHANGED lastTag /\ unwinding = {}
        /\ Oldest = x /\ x \in Signal /\ x.tag \in Tags /\ x.kind = "data" /\ 1 \in 1..Len(signals)
    BY <1>2, <2>1
  <2>3. x.tag \in callbacks
    BY <1>1, <2>2 DEF CallInv, Listening, Listens, x
  <2>4. \A t \in Tags : Listens(t)' <=> Listens(t)
    BY <2>1 DEF Listens
  <2>5. \/ heard' = heard /\ x.value = EmptyPayload
        \/ Hears(x.tag, "data", x.value) /\ x.value # EmptyPayload
    BY <1>3, <2>2, <2>3 DEF DeliverData
  <2>6. unwinding' \subseteq Tags /\ callbacks' \subseteq callbacks /\ callbacks' \cup unwinding' \subseteq callbacks \cup unwinding
    BY <2>1, <2>2
  <2>7. x.value \in Payloads \cup {None}
    BY <2>2 DEF Signal
  <2> QED
    BY <1>1, <2>2, <2>4, <2>5, <2>6, <2>7, TakeIInv DEF x
<1>4. CASE DeliverDataEnd
  <2>1. Take("dataEnd") /\ UNCHANGED <<callbacks, unwinding>>
    BY <1>4 DEF DeliverDataEnd
  <2>2. /\ signals # <<>> /\ signals' = Tail(signals) /\ UNCHANGED lastTag /\ unwinding = {}
        /\ Oldest = x /\ x \in Signal /\ x.tag \in Tags /\ x.kind = "dataEnd" /\ 1 \in 1..Len(signals)
    BY <1>2, <2>1
  <2>3. x.tag \in callbacks
    BY <1>1, <2>2 DEF CallInv, Listening, Listens, x
  <2>4. \A t \in Tags : Listens(t)' <=> Listens(t)
    BY <2>1 DEF Listens
  <2>5. Hears(x.tag, "end", None)
    BY <1>4, <2>2, <2>3 DEF DeliverDataEnd
  <2>6. unwinding' \subseteq Tags /\ callbacks' \subseteq callbacks /\ callbacks' \cup unwinding' \subseteq callbacks \cup unwinding
    BY <2>1, <2>2
  <2> QED
    BY <1>1, <2>2, <2>4, <2>5, <2>6, TakeIInv DEF x
<1>5. CASE DeliverError
  <2>1. Take("error") /\ UNCHANGED callbacks
    BY <1>5 DEF DeliverError
  <2>2. /\ signals # <<>> /\ signals' = Tail(signals) /\ UNCHANGED lastTag /\ unwinding = {}
        /\ Oldest = x /\ x \in Signal /\ x.tag \in Tags /\ x.kind = "error" /\ 1 \in 1..Len(signals)
    BY <1>2, <2>1
  <2>3. CASE x.tag \in callbacks
    <3>1. Hears(x.tag, "error", None) /\ unwinding' = {x.tag}
      BY <1>5, <2>2, <2>3 DEF DeliverError
    <3>2. \A t \in Tags : t # x.tag => (Listens(t)' <=> Listens(t))
      BY <2>1, <2>2, <3>1 DEF Listens
    <3>3. unwinding' \subseteq Tags /\ callbacks' \subseteq callbacks /\ callbacks' \cup unwinding' \subseteq callbacks \cup unwinding
      BY <2>1, <2>2, <2>3, <3>1
    <3> QED
      BY <1>1, <2>2, <3>1, <3>2, <3>3, TakeIInv DEF x
  <2>4. CASE x.tag \notin callbacks
    <3>1. UNCHANGED <<callbacks, heard, unwinding>>
      BY <1>5, <2>2, <2>4 DEF DeliverError
    <3>2. ~Listens(x.tag) /\ \A t \in Tags : Listens(t)' <=> Listens(t)
      BY <2>4, <3>1 DEF Listens
    <3>3. unwinding' \subseteq Tags /\ callbacks' \subseteq callbacks /\ callbacks' \cup unwinding' \subseteq callbacks \cup unwinding
      BY <2>2, <3>1
    <3> QED
      BY <1>1, <2>2, <3>1, <3>2, <3>3, TakeIInv DEF x
  <2> QED
    BY <2>3, <2>4
<1>6. CASE DeliverClosed
  <2>1. Take("closed") /\ UNCHANGED <<heard, unwinding>>
    BY <1>6 DEF DeliverClosed
  <2>2. /\ signals # <<>> /\ signals' = Tail(signals) /\ UNCHANGED lastTag /\ unwinding = {}
        /\ Oldest = x /\ x \in Signal /\ x.tag \in Tags /\ x.kind = "closed" /\ 1 \in 1..Len(signals)
    BY <1>2, <2>1
  <2>3. callbacks' = callbacks \ {x.tag}
    BY <1>6, <2>2 DEF DeliverClosed
  <2>4. \A t \in Tags : t # x.tag => (Listens(t)' <=> Listens(t))
    BY <2>1, <2>3 DEF Listens
  <2>5. unwinding' \subseteq Tags /\ callbacks' \subseteq callbacks /\ callbacks' \cup unwinding' \subseteq callbacks \cup unwinding
    BY <2>1, <2>2, <2>3
  <2> QED
    BY <1>1, <2>1, <2>2, <2>4, <2>5, TakeIInv DEF x
<1>7. CASE Unwind
  <2>1. PICK u \in unwinding : /\ callbacks' = callbacks \ {u} /\ unwinding' = unwinding \ {u}
                               /\ UNCHANGED <<lastTag, signals, heard>>
    BY <1>7 DEF Unwind
  <2>2. ReaderTypeOK'
    BY <1>1, <2>1 DEF ReaderTypeOK, CallbackTypeOK
  <2>3. StreamIntact'
    BY <1>1, <2>1, StillIntact DEF ReaderIInv
  <2>4. \A t : Listens(t)' <=> Listens(t)
    BY <2>1 DEF Listens
  <2>5. Following' /\ Announced'
    BY <1>1, <2>1 DEF CallInv, Following, Announced
  <2>6. Listening'
    <3>1. \A t \in Tags : InFlight(t)' => Listens(t)'
      BY <1>1, <2>4 DEF CallInv, Listening, InFlight
    <3>2. ASSUME NEW j \in 1..Len(signals), signals[j].kind \in {"data", "dataEnd"}
          PROVE  signals[j].tag \in callbacks' /\ signals[j].tag \notin unwinding'
      <4>1. Listens(signals[j].tag)
        BY <1>1, <3>2 DEF CallInv, Listening
      <4> QED
        BY <2>1, <4>1 DEF Listens
    <3> QED
      BY <2>1, <3>1, <3>2 DEF Listening, Listens
  <2>7. Ended'
    BY <1>1, <2>1, <2>4 DEF CallInv, Ended, Told, Coming
  <2>8. TagsNew'
    BY <1>1, <2>1 DEF CallInv, TagsNew
  <2> QED
    BY <2>2, <2>3, <2>5, <2>6, <2>7, <2>8 DEF ReaderIInv, CallInv
<1> QED
  BY <1>3, <1>4, <1>5, <1>6, <1>7 DEF ReaderDeliver, Deliver

LEMMA ReaderNextIInv == ReaderIInv /\ [ReaderNext]_readerVars => ReaderIInv'
<1> SUFFICES ASSUME ReaderIInv, [ReaderNext]_readerVars
             PROVE  ReaderIInv'
  OBVIOUS
<1>1. CASE ReaderCall
  BY <1>1, ReaderCallIInv
<1>2. CASE CallRefused
  BY <1>2, CallRefusedIInv
<1>3. CASE ReaderDeliver
  BY <1>3, ReaderDeliverIInv
<1>4. ASSUME NEW t \in Tags, ReaderProcess(t)
      PROVE  ReaderIInv'
  <2>1. ASSUME NEW ok \in BOOLEAN, ProcessSent(t, ok)
        PROVE  ReaderIInv'
    BY <2>1, ProcessSentIInv
  <2>2. ASSUME NEW ok \in BOOLEAN, ProcessOver(t, ~ok)
        PROVE  ReaderIInv'
    <3>1. (~ok) \in BOOLEAN
      OBVIOUS
    <3> QED
      BY <2>2, <3>1, ProcessOverIInv
  <2>3. ASSUME NEW v \in Payloads, ProcessRead(t, v)
        PROVE  ReaderIInv'
    BY <2>3, ProcessReadIInv
  <2>4. CASE ProcessReadEnd(t)
    BY <2>4, ProcessReadEndIInv
  <2> QED
    BY <1>4, <2>1, <2>2, <2>3, <2>4 DEF ReaderProcess
<1>5. CASE UNCHANGED readerVars
  <2>1. UNCHANGED <<lastTag, callbacks, signals, heard, unwinding, readStatus, received>>
    BY <1>5 DEF readerVars, callbackVars
  <2>2. ReaderTypeOK'
    BY <2>1 DEF ReaderIInv, ReaderTypeOK, CallbackTypeOK
  <2>3. StreamIntact'
    BY <2>1, StillIntact DEF ReaderIInv
  <2>4. CallInv'
    BY <2>1 DEF ReaderIInv, CallInv, Following, Announced, Listening, InFlight, Listens, Ended, Told, Coming, TagsNew
  <2> QED
    BY <2>2, <2>3, <2>4 DEF ReaderIInv
<1> QED
  BY <1>1, <1>2, <1>3, <1>4, <1>5 DEF ReaderNext

\* The invariant of the server-streaming method: ReaderTypeOK, StreamIntact and
\* what the header of this part lists.
THEOREM ReaderInvariance == ReaderSpec => []ReaderIInv
<1>1. ReaderInit => ReaderIInv
  BY InitReaderIInv
<1>2. ReaderIInv /\ [ReaderNext]_readerVars => ReaderIInv'
  BY ReaderNextIInv
<1> QED
  BY <1>1, <1>2, PTL DEF ReaderSpec

\* What the callback heard and what is on its way to it are the messages of the
\* call, in order and complete but for the empty ones, for any number of calls
\* in flight (ReaderCallData::process and the handlers of ClientMethod.qml).
THEOREM StreamIntactAlways == ReaderSpec => []StreamIntact
<1>1. ReaderIInv => StreamIntact
  BY DEF ReaderIInv
<1> QED
  BY <1>1, ReaderInvariance, PTL

\* No callback is forgotten before it was told of the end or of an error.
THEOREM ToldTheEndAlways == ReaderSpec => []ToldTheEnd
<1>1. ReaderIInv => ToldTheEnd
  BY DEF ReaderIInv, CallInv, Ended, Listens, ToldTheEnd, Told
<1> QED
  BY <1>1, ReaderInvariance, PTL
=============================================================================
