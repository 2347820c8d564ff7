--------------------------- MODULE ClientBidiProofs ---------------------------
(***************************************************************************)
(* The client's end of the bidirectional method, for any number of calls,  *)
(* call objects and messages: gRPC's rule for one call, the order of what  *)
(* gRPC is given, and that nothing follows the end.                        *)
(*                                                                         *)
(* The program stops where gRPC was misused, so every step starts from a   *)
(* state in which it was not.  The invariants checked by TLC are not       *)
(* inductive.  What they lack:                                             *)
(*   Fresh        an object that does not exist yet is as it will start;   *)
(*   Listed       calls_ has every call that is not past its FINISH, so    *)
(*                deleteCall finds the call and emits closed;              *)
(*   WritesFirst  a call reads only once WritesDone was handed over;       *)
(*   Sealing      behind a dataEnd comes no message and no dataEnd of the  *)
(*                tag before closed does;                                  *)
(*   TagsOld      a tag not handed out yet has no callback, call or past.  *)
(***************************************************************************)
EXTENDS ClientBidi, TLAPS

Fresh ==
  \A c \in Calls : tagOf[c] = 0 =>
    /\ status[c] = "INIT" /\ outstanding[c] = 0 /\ reads[c] = 0
    /\ requests[c] = <<>> /\ accepted[c] = <<>> /\ handed[c] = <<>>

Listed ==
  /\ \A t \in Tags : calls[t] # NoCall => tagOf[calls[t]] = t
  /\ \A c \in Calls : tagOf[c] # 0 /\ status[c] # "FINISH" => calls[tagOf[c]] = c

WritesFirst ==
  \A c \in Calls :
    /\ status[c] = "READ" => writeDone[c]
    /\ status[c] = "WRITES_DONE" \/ writeDone[c] \/ reads[c] > 0 => Holds(handed[c], Null)

Streams(s) == s.kind \in {"data", "dataEnd"}

\* The call that t has is done but for its status.
Ending(t) == calls[t] # NoCall /\ status[calls[t]] = "FINISH"

\* Of the signals of t behind the n-th, none is a message or an end before
\* closed, which is queued or will be.
Sealed(t, n) ==
  \/ \E j \in DOMAIN signals :
       /\ j > n /\ signals[j].tag = t /\ signals[j].kind = "closed"
       /\ \A k \in DOMAIN signals : n < k /\ k < j /\ signals[k].tag = t => ~Streams(signals[k])
  \/ /\ \A k \in DOMAIN signals : k > n /\ signals[k].tag = t => ~Streams(signals[k])
     /\ Ending(t)

HeardEnd(t) == \E i \in DOMAIN heard[t] : heard[t][i].kind = "end"

Sealing ==
  \A t \in Tags :
    /\ \A i \in DOMAIN signals : signals[i].kind = "dataEnd" /\ signals[i].tag = t => Sealed(t, i)
    /\ t \in callbacks /\ HeardEnd(t) => Sealed(t, 0)

TagsOld ==
  /\ \A t \in callbacks : t <= lastTag
  /\ \A t \in Tags : t > lastTag => heard[t] = <<>> /\ calls[t] = NoCall

IInv ==
  /\ TypeOK
  /\ OneOperation
  /\ HandedInOrder
  /\ Fresh
  /\ Listed
  /\ WritesFirst
  /\ Sealing
  /\ TagsOld
  /\ EndIsLast

-----------------------------------------------------------------------------
(* Queues of requests.                                                     *)

\* Where a sequence contains the null request, and where it does so twice.
LEMMA HoldsOf ==
  ASSUME NEW q \in Seq(Requests), NEW r \in Requests
  PROVE  /\ ~Holds(<<>>, Null) /\ ~Twice(<<>>, Null)
         /\ Append(q, r) \in Seq(Requests)
         /\ Holds(Append(q, r), Null) <=> Holds(q, Null) \/ r = Null
<1>1. ~Holds(<<>>, Null) /\ ~Twice(<<>>, Null)
  BY DEF Holds, Twice
<1>2. Len(Append(q, r)) = Len(q) + 1 /\ Append(q, r)[Len(q) + 1] = r
  OBVIOUS
<1>3. \A i \in 1..Len(q) : Append(q, r)[i] = q[i]
  OBVIOUS
<1>4. 1..Len(Append(q, r)) = (1..Len(q)) \cup {Len(q) + 1}
  BY <1>2
<1>5. Append(q, r) \in Seq(Requests)
  OBVIOUS
<1> HIDE DEF Requests
<1> QED
  BY <1>1, <1>2, <1>3, <1>4, <1>5 DEF Holds

\* What is appended to the queue is appended to the whole.
LEMMA AppendConcat ==
  ASSUME NEW a \in Seq(Requests), NEW q \in Seq(Requests), NEW r \in Requests
  PROVE  Append(a \o q, r) = a \o Append(q, r)
OBVIOUS

\* An empty queue adds nothing.
LEMMA ConcatEmpty ==
  ASSUME NEW a \in Seq(Requests)
  PROVE  a \o <<>> = a
OBVIOUS

\* Moving the head of the queue to what was handed over loses nothing.
LEMMA MoveHead ==
  ASSUME NEW a \in Seq(Requests), NEW q \in Seq(Requests), q # <<>>
  PROVE  /\ Append(a, Head(q)) \o Tail(q) = a \o q
         /\ Head(q) \in Requests /\ Tail(q) \in Seq(Requests)
OBVIOUS

-----------------------------------------------------------------------------
(* The signals: what each kind of step does to Sealing and EndIsLast.      *)

SignalInv == CallbackTypeOK /\ Sealing /\ TagsOld /\ EndIsLast

\* A seal holds when the call queues signals, as long as none of an ending
\* call is a message or an end, and it goes on ending or queues closed.
LEMMA SealStays ==
  ASSUME signals \in Seq(Signal), NEW q \in Seq(Signal), signals' = signals \o q,
         NEW t \in Tags, NEW n \in 0..Len(signals), Sealed(t, n),
         Ending(t) => /\ \A k \in DOMAIN q : q[k].tag = t => ~Streams(q[k])
                      /\ Ending(t)' \/ \E k \in DOMAIN q : q[k].tag = t /\ q[k].kind = "closed"
  PROVE  Sealed(t, n)'
<1>1. /\ DOMAIN signals = 1..Len(signals) /\ Len(signals) \in Nat
      /\ DOMAIN q = 1..Len(q) /\ Len(q) \in Nat
      /\ DOMAIN signals' = 1..(Len(signals) + Len(q))
      /\ \A i \in 1..Len(signals) : signals'[i] = signals[i]
      /\ \A i \in 1..Len(q) : signals'[Len(signals) + i] = q[i]
  OBVIOUS
<1>2. CASE \E j \in DOMAIN signals :
             /\ j > n /\ signals[j].tag = t /\ signals[j].kind = "closed"
             /\ \A k \in DOMAIN signals : n < k /\ k < j /\ signals[k].tag = t => ~Streams(signals[k])
  <2>1. PICK j \in DOMAIN signals :
          /\ j > n /\ signals[j].tag = t /\ signals[j].kind = "closed"
          /\ \A k \in DOMAIN signals : n < k /\ k < j /\ signals[k].tag = t => ~Streams(signals[k])
    BY <1>2
  <2>2. j \in DOMAIN signals' /\ signals'[j] = signals[j]
    BY <1>1
  <2>3. \A k \in DOMAIN signals' : n < k /\ k < j => k \in DOMAIN signals /\ signals'[k] = signals[k]
    BY <1>1
  <2> QED
    BY <2>1, <2>2, <2>3 DEF Sealed
<1>3. CASE /\ \A k \in DOMAIN signals : k > n /\ signals[k].tag = t => ~Streams(signals[k])
           /\ Ending(t)
  <2>1. \A k \in DOMAIN signals' :
          \/ (k \in DOMAIN signals /\ signals'[k] = signals[k])
          \/ (k - Len(signals) \in DOMAIN q /\ signals'[k] = q[k - Len(signals)])
    <3> SUFFICES ASSUME NEW k \in DOMAIN signals', k \notin DOMAIN signals
                 PROVE  k - Len(signals) \in DOMAIN q /\ signals'[k] = q[k - Len(signals)]
      BY <1>1
    <3>1. k - Len(signals) \in 1..Len(q) /\ Len(signals) + (k - Len(signals)) = k
      BY <1>1
    <3> QED
      BY <3>1, <1>1
  <2>2. \A k \in DOMAIN signals' : k > n /\ signals'[k].tag = t => ~Streams(signals'[k])
    BY <1>3, <2>1
  <2>3. CASE Ending(t)'
    BY <2>2, <2>3 DEF Sealed
  <2>4. CASE \E k \in DOMAIN q : q[k].tag = t /\ q[k].kind = "closed"
    <3>1. PICK k \in DOMAIN q : q[k].tag = t /\ q[k].kind = "closed"
      BY <2>4
    <3>2. /\ Len(signals) + k \in DOMAIN signals' /\ signals'[Len(signals) + k] = q[k]
          /\ Len(signals) + k > n
      BY <3>1, <1>1
    <3> QED
      BY <3>1, <3>2, <2>2 DEF Sealed
  <2> QED
    BY <1>3, <2>3, <2>4
<1> QED
  BY <1>2, <1>3 DEF Sealed

\* What process() of a call does to the signals.
LEMMA EmitStep ==
  ASSUME SignalInv, NEW q \in Seq(Signal), Emit(q),
         \A t \in Tags : Ending(t) =>
           /\ \A k \in DOMAIN q : q[k].tag = t => ~Streams(q[k])
           /\ Ending(t)' \/ \E k \in DOMAIN q : q[k].tag = t /\ q[k].kind = "closed",
         \A k \in DOMAIN q : q[k].kind = "dataEnd" => k = Len(q) /\ Ending(q[k].tag)',
         \A t \in Tags : t > lastTag /\ calls[t] = NoCall => calls'[t] = NoCall
  PROVE  SignalInv'
<1>1. /\ signals \in Seq(Signal) /\ signals' = signals \o q
      /\ UNCHANGED <<lastTag, callbacks, heard, unwinding>>
  BY DEF SignalInv, CallbackTypeOK, Emit
<1>2. /\ DOMAIN signals = 1..Len(signals) /\ Len(signals) \in Nat
      /\ DOMAIN q = 1..Len(q) /\ Len(q) \in Nat
      /\ DOMAIN signals' = 1..(Len(signals) + Len(q)) /\ signals' \in Seq(Signal)
      /\ \A i \in 1..Len(signals) : signals'[i] = signals[i]
      /\ \A i \in 1..Len(q) : signals'[Len(signals) + i] = q[i]
  BY <1>1
<1>3. CallbackTypeOK' /\ EndIsLast' /\ TagsOld'
  BY <1>1, <1>2 DEF SignalInv, CallbackTypeOK, EndIsLast, TagsOld
<1>4. ASSUME NEW t \in Tags, NEW n \in 0..Len(signals), Sealed(t, n) PROVE Sealed(t, n)'
  BY <1>1, <1>4, SealStays
<1>5. ASSUME NEW t \in Tags, NEW i \in DOMAIN signals', signals'[i].kind = "dataEnd", signals'[i].tag = t
      PROVE  Sealed(t, i)'
  <2>1. CASE i \in DOMAIN signals
    <3>1. Sealed(t, i) /\ i \in 0..Len(signals)
      BY <1>5, <2>1, <1>2 DEF SignalInv, Sealing
    <3> QED
      BY <3>1, <1>4
  <2>2. CASE i \notin DOMAIN signals
    <3>1. i - Len(signals) \in DOMAIN q /\ Len(signals) + (i - Len(signals)) = i
      BY <2>2, <1>2
    <3>2. signals'[i] = q[i - Len(signals)]
      BY <3>1, <1>2
    <3>3. i - Len(signals) = Len(q) /\ Ending(t)'
      BY <3>1, <3>2, <1>5
    <3>4. \A k \in DOMAIN signals' : ~(k > i)
      BY <3>1, <3>3, <1>2
    <3> QED
      BY <3>3, <3>4 DEF Sealed
  <2> QED
    BY <2>1, <2>2
<1>6. Sealing'
  <2>1. ASSUME NEW t \in Tags, t \in callbacks', HeardEnd(t)' PROVE Sealed(t, 0)'
    <3>1. Sealed(t, 0) /\ 0 \in 0..Len(signals)
      BY <2>1, <1>1, <1>2 DEF SignalInv, Sealing, HeardEnd
    <3> QED
      BY <3>1, <1>4
  <2> QED
    BY <2>1, <1>5 DEF Sealing
<1> QED
  BY <1>3, <1>6 DEF SignalInv

\* A step that touches no signal.
LEMMA SilentStep ==
  ASSUME SignalInv, UNCHANGED callbackVars,
         \A t \in Tags : Ending(t) => Ending(t)',
         \A t \in Tags : t > lastTag /\ calls[t] = NoCall => calls'[t] = NoCall
  PROVE  SignalInv'
<1>1. signals \in Seq(Signal) /\ UNCHANGED <<lastTag, callbacks, signals, heard, unwinding>>
  BY DEF SignalInv, CallbackTypeOK, callbackVars
<1> DEFINE q == <<>>
<1>2. Emit(q) /\ q \in Seq(Signal) /\ DOMAIN q = {}
  BY <1>1 DEF Emit
<1> HIDE DEF q
<1> QED
  BY <1>2, EmitStep

\* What a callback has heard, after one event more.
LEMMA HearsMore ==
  ASSUME CallbackTypeOK, NEW t \in Tags, NEW k \in {"data", "end", "error", "failed"},
         NEW v \in Payloads \cup {None}, Hears(t, k, v)
  PROVE  /\ heard' \in [Tags -> Seq(Event)]
         /\ \A u \in Tags : u # t => heard'[u] = heard[u]
         /\ DOMAIN heard[t] = 1..Len(heard[t]) /\ Len(heard[t]) \in Nat
         /\ DOMAIN heard'[t] = 1..(Len(heard[t]) + 1) /\ Len(heard'[t]) = Len(heard[t]) + 1
         /\ \A i \in 1..Len(heard[t]) : heard'[t][i] = heard[t][i]
         /\ heard'[t][Len(heard[t]) + 1].kind = k
<1> DEFINE e == [kind |-> k, value |-> v]
<1>1. e \in Event /\ e.kind = k
  BY DEF Event
<1> HIDE DEF e
<1>2. heard' = [heard EXCEPT ![t] = Append(@, e)] /\ heard \in [Tags -> Seq(Event)]
  BY DEF Hears, e, CallbackTypeOK
<1>3. Append(heard[t], e) \in Seq(Event) /\ heard'[t] = Append(heard[t], e)
  BY <1>1, <1>2
<1> QED
  BY <1>1, <1>2, <1>3

\* A message or an end that a callback hears is no second thought, if it has
\* not heard the end.
LEMMA HearsInOrder ==
  ASSUME CallbackTypeOK, EndIsLast, NEW t \in Tags, NEW k \in {"data", "end", "error", "failed"},
         NEW v \in Payloads \cup {None}, Hears(t, k, v), k \in {"data", "end"} => ~HeardEnd(t)
  PROVE  /\ EndIsLast'
         /\ \A u \in Tags : HeardEnd(u)' => HeardEnd(u) \/ (u = t /\ k = "end")
<1>1. /\ heard' \in [Tags -> Seq(Event)]
      /\ \A u \in Tags : u # t => heard'[u] = heard[u]
      /\ DOMAIN heard[t] = 1..Len(heard[t]) /\ Len(heard[t]) \in Nat
      /\ DOMAIN heard'[t] = 1..(Len(heard[t]) + 1) /\ Len(heard'[t]) = Len(heard[t]) + 1
      /\ \A i \in 1..Len(heard[t]) : heard'[t][i] = heard[t][i]
      /\ heard'[t][Len(heard[t]) + 1].kind = k
  BY HearsMore
<1>2. ASSUME NEW u \in Tags, NEW i \in 1..Len(heard'[u]), NEW j \in 1..Len(heard'[u]),
             heard'[u][i].kind = "end", i < j
      PROVE  heard'[u][j].kind \notin {"data", "end"}
  <2>1. CASE u # t
    BY <1>1, <1>2, <2>1 DEF EndIsLast
  <2>2. CASE u = t /\ j \in 1..Len(heard[t])
    <3>1. i \in 1..Len(heard[t])
      BY <1>1, <1>2, <2>2
    <3> QED
      BY <3>1, <1>1, <1>2, <2>2 DEF EndIsLast
  <2>3. CASE u = t /\ j = Len(heard[t]) + 1
    <3>1. i \in 1..Len(heard[t])
      BY <1>1, <1>2, <2>3
    <3>2. HeardEnd(t)
      BY <3>1, <1>1, <1>2, <2>3 DEF HeardEnd
    <3> QED
      BY <3>2, <1>1, <2>3
  <2> QED
    BY <1>1, <1>2, <2>1, <2>2, <2>3
<1>3. ASSUME NEW u \in Tags, HeardEnd(u)' PROVE HeardEnd(u) \/ (u = t /\ k = "end")
  <2>1. PICK i \in DOMAIN heard'[u] : heard'[u][i].kind = "end"
    BY <1>3 DEF HeardEnd
  <2>2. CASE u # t
    BY <2>1, <2>2, <1>1 DEF HeardEnd
  <2>3. CASE u = t /\ i \in 1..Len(heard[t])
    BY <2>1, <2>3, <1>1 DEF HeardEnd
  <2>4. CASE u = t /\ i = Len(heard[t]) + 1
    BY <2>1, <2>4, <1>1
  <2> QED
    BY <1>1, <2>1, <2>2, <2>3, <2>4
<1> QED
  BY <1>2, <1>3 DEF EndIsLast

\* A callback that is told of a refusal: Refused.
LEMMA RefusedStep ==
  ASSUME SignalInv, NEW t \in callbacks, Refused(t), UNCHANGED <<calls, status>>
  PROVE  SignalInv'
<1>1. /\ Hears(t, "failed", None) /\ unwinding' = unwinding \cup {t}
      /\ UNCHANGED <<lastTag, callbacks, signals>> /\ CallbackTypeOK /\ t \in Tags
  BY DEF SignalInv, Refused, CallbackTypeOK
<1>2. heard' \in [Tags -> Seq(Event)] /\ \A u \in Tags : u # t => heard'[u] = heard[u]
  BY <1>1, HearsMore
<1>3. EndIsLast' /\ \A u \in Tags : HeardEnd(u)' => HeardEnd(u)
  BY <1>1, HearsInOrder DEF SignalInv
<1>4. CallbackTypeOK'
  BY <1>1, <1>2 DEF CallbackTypeOK
<1>5. Sealing'
  BY <1>1, <1>3 DEF SignalInv, Sealing, Sealed, Ending
<1>6. TagsOld'
  <2>1. t <= lastTag /\ t \in Nat /\ lastTag \in Nat
    BY <1>1, CallbackAssumption DEF SignalInv, TagsOld, CallbackTypeOK, Tags
  <2>2. \A u \in Tags : u > lastTag => u # t
    BY <2>1
  <2> QED
    BY <1>1, <1>2, <2>2 DEF SignalInv, TagsOld
<1> QED
  BY <1>3, <1>4, <1>5, <1>6 DEF SignalInv

\* The next tag has no past, and gets a call.
LEMMA NewTagStep ==
  ASSUME SignalInv, NewTag, UNCHANGED status, NEW c \in Calls, calls' = [calls EXCEPT ![lastTag'] = c],
         calls \in [Tags -> Calls \cup {NoCall}]
  PROVE  SignalInv'
<1>1. /\ lastTag \in Nat /\ lastTag' = lastTag + 1 /\ lastTag' \in Tags
      /\ callbacks' = callbacks \cup {lastTag'}
      /\ UNCHANGED <<signals, heard, unwinding>>
  BY CallbackAssumption DEF SignalInv, CallbackTypeOK, NewTag, Tags
<1>2. heard[lastTag'] = <<>> /\ calls[lastTag'] = NoCall
  BY <1>1 DEF SignalInv, TagsOld
<1>3. CallbackTypeOK'
  BY <1>1 DEF SignalInv, CallbackTypeOK, Tags
<1>4. ~HeardEnd(lastTag')
  BY <1>2 DEF HeardEnd
<1>5. \A t \in Tags : Ending(t) => Ending(t)'
  BY <1>1, <1>2 DEF Ending
<1>6. Sealing'
  BY <1>1, <1>4, <1>5 DEF SignalInv, Sealing, Sealed, HeardEnd
<1>7. EndIsLast'
  BY <1>1 DEF SignalInv, EndIsLast
<1>8. TagsOld'
  BY <1>1 DEF SignalInv, CallbackTypeOK, TagsOld, Tags
<1> QED
  BY <1>3, <1>6, <1>7, <1>8 DEF SignalInv

\* What is left of the queue once the oldest signal is taken, and the seals.
LEMMA TakeBehind ==
  ASSUME signals \in Seq(Signal), signals # <<>>, signals' = Tail(signals), UNCHANGED <<calls, status>>
  PROVE  /\ Oldest \in Signal /\ signals' \in Seq(Signal) /\ Len(signals) \in Nat
         /\ DOMAIN signals = 1..Len(signals) /\ DOMAIN signals' = 1..(Len(signals) - 1)
         /\ 1 \in DOMAIN signals /\ Oldest = signals[1]
         /\ \A i \in DOMAIN signals' : i + 1 \in DOMAIN signals /\ signals'[i] = signals[i + 1]
         /\ \A t \in Tags, n \in Nat : Sealed(t, n + 1) => Sealed(t, n)'
         /\ \A t \in Tags : Sealed(t, 0) =>
              \/ Oldest.tag = t /\ Oldest.kind = "closed"
              \/ (Oldest.tag = t => ~Streams(Oldest)) /\ Sealed(t, 0)'
<1>1. /\ Oldest \in Signal /\ signals' \in Seq(Signal) /\ Len(signals) \in Nat
      /\ DOMAIN signals = 1..Len(signals) /\ DOMAIN signals' = 1..(Len(signals) - 1)
      /\ 1 \in DOMAIN signals /\ Oldest = signals[1]
      /\ \A i \in DOMAIN signals' : i + 1 \in DOMAIN signals /\ signals'[i] = signals[i + 1]
  BY DEF Oldest
<1>2. ASSUME NEW t \in Tags, NEW n \in Nat, Sealed(t, n + 1) PROVE Sealed(t, n)'
  <2>1. CASE \E j \in DOMAIN signals :
               /\ j > n + 1 /\ signals[j].tag = t /\ signals[j].kind = "closed"
               /\ \A k \in DOMAIN signals : n + 1 < k /\ k < j /\ signals[k].tag = t => ~Streams(signals[k])
    <3>1. PICK j \in DOMAIN signals :
            /\ j > n + 1 /\ signals[j].tag = t /\ signals[j].kind = "closed"
            /\ \A k \in DOMAIN signals : n + 1 < k /\ k < j /\ signals[k].tag = t => ~Streams(signals[k])
      BY <2>1
    <3>2. j - 1 \in DOMAIN signals' /\ j - 1 > n /\ signals'[j - 1] = signals[j]
      BY <3>1, <1>1
    <3>3. \A k \in DOMAIN signals' : n < k /\ k < j - 1 /\ signals'[k].tag = t => ~Streams(signals'[k])
      BY <3>1, <1>1
    <3> QED
      BY <3>1, <3>2, <3>3 DEF Sealed
  <2>2. CASE /\ \A k \in DOMAIN signals : k > n + 1 /\ signals[k].tag = t => ~Streams(signals[k])
             /\ Ending(t)
    <3>1. \A k \in DOMAIN signals' : k > n /\ signals'[k].tag = t => ~Streams(signals'[k])
      BY <2>2, <1>1
    <3> QED
      BY <3>1, <2>2 DEF Sealed, Ending
  <2> QED
    BY <1>2, <2>1, <2>2 DEF Sealed
<1>3. ASSUME NEW t \in Tags, Sealed(t, 0)
      PROVE  \/ Oldest.tag = t /\ Oldest.kind = "closed"
             \/ (Oldest.tag = t => ~Streams(Oldest)) /\ Sealed(t, 0)'
  <2>1. CASE \E j \in DOMAIN signals :
               /\ j > 0 /\ signals[j].tag = t /\ signals[j].kind = "closed"
               /\ \A k \in DOMAIN signals : 0 < k /\ k < j /\ signals[k].tag = t => ~Streams(signals[k])
    <3>1. PICK j \in DOMAIN signals :
            /\ j > 0 /\ signals[j].tag = t /\ signals[j].kind = "closed"
            /\ \A k \in DOMAIN signals : 0 < k /\ k < j /\ signals[k].tag = t => ~Streams(signals[k])
      BY <2>1
    <3>2. CASE j = 1
      BY <3>1, <3>2, <1>1
    <3>3. CASE j > 1
      <4>1. Sealed(t, 0 + 1)
        BY <3>1, <3>3, <1>1 DEF Sealed
      <4>2. Oldest.tag = t => ~Streams(Oldest)
        BY <3>1, <3>3, <1>1
      <4> QED
        BY <4>1, <4>2, <1>2
    <3> QED
      BY <3>1, <3>2, <3>3, <1>1
  <2>2. CASE /\ \A k \in DOMAIN signals : k > 0 /\ signals[k].tag = t => ~Streams(signals[k])
             /\ Ending(t)
    <3>1. Sealed(t, 0 + 1)
      BY <2>2, <1>1 DEF Sealed
    <3> QED
      BY <3>1, <2>2, <1>1, <1>2
  <2> QED
    BY <1>3, <2>1, <2>2 DEF Sealed
<1> QED
  BY <1>1, <1>2, <1>3

\* The oldest signal is delivered: a callback that hears a message or an end
\* from it has not heard an end.
LEMMA TakeStep ==
  ASSUME SignalInv, DeliverData \/ DeliverDataEnd \/ DeliverError \/ DeliverClosed,
         UNCHANGED <<calls, status>>
  PROVE  SignalInv'
<1> DEFINE o == Oldest
<1>1. /\ signals \in Seq(Signal) /\ signals # <<>> /\ signals' = Tail(signals)
      /\ UNCHANGED lastTag /\ CallbackTypeOK /\ EndIsLast
  BY DEF SignalInv, CallbackTypeOK, DeliverData, DeliverDataEnd, DeliverError, DeliverClosed, Take
<1>2. /\ o \in Signal /\ signals' \in Seq(Signal)
      /\ DOMAIN signals = 1..Len(signals)
      /\ 1 \in DOMAIN signals /\ o = signals[1]
      /\ \A i \in DOMAIN signals' : i + 1 \in DOMAIN signals /\ signals'[i] = signals[i + 1]
      /\ DOMAIN signals' \subseteq Nat
      /\ \A t \in Tags, n \in Nat : Sealed(t, n + 1) => Sealed(t, n)'
      /\ \A t \in Tags : Sealed(t, 0) => \/ (o.tag = t /\ o.kind = "closed")
                                         \/ ((o.tag = t => ~Streams(o)) /\ Sealed(t, 0)')
  BY <1>1, TakeBehind
<1>3. o.tag \in Tags /\ o.value \in Payloads \cup {None}
  BY <1>2 DEF Signal
<1>4. \A t \in callbacks : HeardEnd(t) => \/ (o.tag = t /\ o.kind = "closed")
                                          \/ ((o.tag = t => ~Streams(o)) /\ Sealed(t, 0)')
  BY <1>1, <1>2 DEF SignalInv, CallbackTypeOK, Sealing
<1>5. \A t \in Tags : o.kind = "dataEnd" /\ o.tag = t => Sealed(t, 0)'
  <2> SUFFICES ASSUME NEW t \in Tags, o.kind = "dataEnd", o.tag = t PROVE Sealed(t, 0)'
    OBVIOUS
  <2>1. Sealed(t, 0 + 1)
    BY <1>2 DEF SignalInv, Sealing
  <2> QED
    BY <2>1, <1>2
<1>6. \A t \in Tags : \A i \in DOMAIN signals' :
        signals'[i].kind = "dataEnd" /\ signals'[i].tag = t => Sealed(t, i)'
  BY <1>2 DEF SignalInv, Sealing
<1> HIDE DEF o
<1>7. ASSUME heard' \in [Tags -> Seq(Event)], EndIsLast',
             callbacks' \subseteq callbacks, unwinding' \subseteq Tags,
             \A t \in Tags : t \notin callbacks => heard'[t] = heard[t],
             \A t \in callbacks' : HeardEnd(t)' => Sealed(t, 0)'
      PROVE  SignalInv'
  <2>1. CallbackTypeOK'
    BY <1>1, <1>2, <1>7 DEF CallbackTypeOK
  <2>2. Sealing'
    BY <1>6, <1>7 DEF Sealing
  <2>3. TagsOld'
    <3>1. \A t \in Tags : t > lastTag => t \notin callbacks
      BY <1>1, CallbackAssumption DEF SignalInv, TagsOld, CallbackTypeOK, Tags
    <3> QED
      BY <3>1, <1>1, <1>7 DEF SignalInv, TagsOld
  <2> QED
    BY <1>7, <2>1, <2>2, <2>3 DEF SignalInv
<1>8. CASE UNCHANGED <<heard, unwinding>> /\ callbacks' = callbacks \ {o.tag}
  <2>1. EndIsLast' /\ heard' \in [Tags -> Seq(Event)] /\ unwinding \subseteq Tags
    BY <1>1, <1>8 DEF CallbackTypeOK, EndIsLast
  <2>2. \A t \in callbacks' : HeardEnd(t)' => Sealed(t, 0)'
    BY <1>4, <1>8 DEF HeardEnd
  <2> QED
    BY <1>7, <1>8, <2>1, <2>2
<1>9. CASE UNCHANGED <<heard, callbacks, unwinding>> /\ o.kind # "closed"
  <2>1. EndIsLast' /\ heard' \in [Tags -> Seq(Event)] /\ unwinding \subseteq Tags
    BY <1>1, <1>9 DEF CallbackTypeOK, EndIsLast
  <2>2. \A t \in callbacks' : HeardEnd(t)' => Sealed(t, 0)'
    BY <1>4, <1>9 DEF HeardEnd
  <2> QED
    BY <1>7, <1>9, <2>1, <2>2
<1>10. ASSUME NEW k \in {"data", "end", "error"}, NEW v \in Payloads \cup {None},
              o.tag \in callbacks, Hears(o.tag, k, v), UNCHANGED callbacks,
              unwinding' \in {unwinding, {o.tag}},
              o.kind = IF k = "end" THEN "dataEnd" ELSE k
       PROVE  SignalInv'
  <2>1. k \in {"data", "end"} => ~HeardEnd(o.tag)
    BY <1>3, <1>4, <1>10 DEF Streams
  <2>2. EndIsLast' /\ \A u \in Tags : HeardEnd(u)' => HeardEnd(u) \/ (u = o.tag /\ k = "end")
    BY <1>1, <1>3, <1>10, <2>1, HearsInOrder
  <2>3. heard' \in [Tags -> Seq(Event)] /\ \A u \in Tags : u # o.tag => heard'[u] = heard[u]
    BY <1>1, <1>3, <1>10, HearsMore
  <2>4. \A t \in callbacks' : HeardEnd(t)' => Sealed(t, 0)'
    <3>1. callbacks' \subseteq Tags /\ o.kind # "closed"
      BY <1>1, <1>10 DEF CallbackTypeOK
    <3> QED
      BY <3>1, <1>4, <1>5, <1>10, <2>2
  <2>5. unwinding' \subseteq Tags
    BY <1>1, <1>3, <1>10 DEF CallbackTypeOK
  <2> QED
    BY <1>7, <1>10, <2>2, <2>3, <2>4, <2>5
<1>11. CASE DeliverData
  <2>1. o.kind = "data" /\ UNCHANGED <<callbacks, unwinding>>
        /\ (UNCHANGED heard \/ (o.tag \in callbacks /\ Hears(o.tag, "data", o.value)))
    BY <1>11 DEF DeliverData, Take, o
  <2> QED
    BY <2>1, <1>3, <1>9, <1>10
<1>12. CASE DeliverError
  <2>1. o.kind = "error" /\ UNCHANGED callbacks
        /\ \/ UNCHANGED <<heard, unwinding>>
           \/ o.tag \in callbacks /\ Hears(o.tag, "error", None) /\ unwinding' = {o.tag}
    BY <1>12 DEF DeliverError, Take, o
  <2> QED
    BY <2>1, <1>9, <1>10
<1>13. CASE DeliverDataEnd
  <2>1. o.kind = "dataEnd" /\ UNCHANGED <<callbacks, unwinding>>
        /\ (UNCHANGED heard \/ (o.tag \in callbacks /\ Hears(o.tag, "end", None)))
    BY <1>13 DEF DeliverDataEnd, Take, o
  <2> QED
    BY <2>1, <1>9, <1>10
<1>14. CASE DeliverClosed
  BY <1>14, <1>8 DEF DeliverClosed, Take, o
<1> QED
  BY <1>11, <1>12, <1>13, <1>14

\* The QML event loop delivers a signal, or the callback told of a failure
\* returns and is forgotten.
LEMMA DeliverStep ==
  ASSUME SignalInv, Deliver, UNCHANGED <<calls, status>> PROVE SignalInv'
<1>1. CASE Unwind
  <2>1. PICK u \in unwinding : /\ callbacks' = callbacks \ {u} /\ unwinding' = unwinding \ {u}
                               /\ UNCHANGED <<lastTag, signals, heard>>
    BY <1>1 DEF Unwind
  <2>2. CallbackTypeOK' /\ EndIsLast' /\ TagsOld'
    BY <2>1 DEF SignalInv, CallbackTypeOK, EndIsLast, TagsOld
  <2>3. Sealing'
    BY <2>1 DEF SignalInv, Sealing, Sealed, HeardEnd, Ending
  <2> QED
    BY <2>2, <2>3 DEF SignalInv
<1> QED
  BY <1>1, TakeStep DEF Deliver

-----------------------------------------------------------------------------
(* The calls.                                                              *)

LEMMA SignalsOf == IInv => SignalInv
BY DEF IInv, TypeOK, SignalInv

\* No call object yet.
LEMMA InitIInv == Init => IInv
<1> SUFFICES ASSUME Init PROVE IInv
  OBVIOUS
<1> USE CallbackAssumption, BidiAssumption
<1>1. TypeOK
  <2>1. CallbackTypeOK
    BY DEF Init, CallbackInit, CallbackTypeOK, Tags
  <2>2. /\ requests \in [Calls -> Seq(Requests)] /\ accepted \in [Calls -> Seq(Requests)]
        /\ handed \in [Calls -> Seq(Requests)]
    BY DEF Init
  <2>3. ops \in 0..MaxOps /\ ends \in [Tags -> 0..MaxEnds] /\ reads \in [Calls -> 0..MaxReads]
    BY DEF Init
  <2> QED
    BY <2>1, <2>2, <2>3 DEF Init, TypeOK, Statuses
<1>2. OneOperation /\ Fresh /\ Listed
  BY DEF Init, OneOperation, Fresh, Listed
<1>3. HandedInOrder
  <2>1. <<>> \in Seq(Requests) /\ <<>> \o <<>> = <<>>
    OBVIOUS
  <2> QED
    BY <2>1 DEF Init, HandedInOrder
<1>4. WritesFirst
  BY DEF Init, WritesFirst
<1>5. EndIsLast /\ \A t \in Tags : ~HeardEnd(t)
  BY DEF Init, CallbackInit, EndIsLast, HeardEnd
<1>6. Sealing /\ TagsOld
  BY <1>5 DEF Init, CallbackInit, Sealing, TagsOld
<1> QED
  BY <1>1, <1>2, <1>3, <1>4, <1>5, <1>6 DEF IInv

\* A step of one call that is in calls_.
LEMMA StepIInv ==
  ASSUME IInv, ~Misused, NEW c \in Calls, tagOf[c] \in Tags, calls[tagOf[c]] = c,
         UNCHANGED <<calls, tagOf>>, SignalInv', TypeOK',
         \A d \in Calls \ {c} :
           /\ status'[d] = status[d] /\ outstanding'[d] = outstanding[d]
           /\ writeDone'[d] = writeDone[d] /\ reads'[d] = reads[d]
           /\ requests'[d] = requests[d] /\ accepted'[d] = accepted[d] /\ handed'[d] = handed[d],
         Misused' \/ outstanding'[c] = (IF status'[c] = "FROZEN" THEN 0 ELSE 1),
         accepted'[c] = handed'[c] \o requests'[c],
         status'[c] = "FROZEN" => requests'[c] = <<>>,
         status'[c] = "READ" => writeDone'[c],
         status'[c] = "WRITES_DONE" \/ writeDone'[c] \/ reads'[c] > 0 => Holds(handed'[c], Null)
  PROVE  IInv'
<1>0. tagOf[c] # 0
  BY CallbackAssumption DEF Tags
<1>1. OneOperation'
  <2> SUFFICES ASSUME ~Misused', NEW d \in Calls
               PROVE  outstanding'[d] = IF \/ tagOf[d] = 0 \/ status'[d] = "FROZEN"
                                           \/ status'[d] = "FINISH" /\ calls[tagOf[d]] # d
                                        THEN 0 ELSE 1
    BY DEF OneOperation
  <2>1. CASE d = c
    BY <2>1, <1>0
  <2>2. CASE d # c
    BY <2>2 DEF IInv, OneOperation
  <2> QED
    BY <2>1, <2>2
<1>2. HandedInOrder'
  <2> SUFFICES ASSUME NEW d \in Calls
               PROVE  accepted'[d] = handed'[d] \o requests'[d] /\ (status'[d] = "FROZEN" => requests'[d] = <<>>)
    BY DEF HandedInOrder
  <2> QED
    BY DEF IInv, HandedInOrder
<1>3. Fresh'
  BY <1>0 DEF IInv, Fresh
<1>4. Listed'
  BY DEF IInv, Listed
<1>5. WritesFirst'
  <2> SUFFICES ASSUME NEW d \in Calls
               PROVE  /\ status'[d] = "READ" => writeDone'[d]
                      /\ status'[d] = "WRITES_DONE" \/ writeDone'[d] \/ reads'[d] > 0 => Holds(handed'[d], Null)
    BY DEF WritesFirst, Holds
  <2>1. CASE d = c
    BY <2>1
  <2>2. CASE d # c
    BY <2>2 DEF IInv, WritesFirst
  <2> QED
    BY <2>1, <2>2
<1> QED
  BY <1>1, <1>2, <1>3, <1>4, <1>5 DEF IInv, SignalInv

\* A call that gRPC completes something for exists and is in calls_.
LEMMA Live ==
  ASSUME IInv, ~Misused, NEW c \in Calls, NEW s \in Statuses, Completes(c, s)
  PROVE  outstanding[c] = 1 /\ tagOf[c] \in Tags /\ calls[tagOf[c]] = c
<1>1. outstanding[c] > 0 /\ outstanding[c] \in Nat /\ tagOf[c] \in Tags \cup {0}
  BY DEF Completes, IInv, TypeOK
<1>2. outstanding[c] = IF \/ tagOf[c] = 0 \/ status[c] = "FROZEN"
                          \/ status[c] = "FINISH" /\ calls[tagOf[c]] # c
                       THEN 0 ELSE 1
  BY DEF IInv, OneOperation
<1>3. outstanding[c] # 0
  BY <1>1
<1>4. outstanding[c] = 1 /\ tagOf[c] # 0 /\ ~(status[c] = "FINISH" /\ calls[tagOf[c]] # c)
  BY <1>2, <1>3
<1> QED
  BY <1>1, <1>4 DEF IInv, Listed

\* Which calls are ending changes only for a call that reaches FINISH.
LEMMA EndingStays ==
  ASSUME IInv, NEW c \in Calls, UNCHANGED calls, \A d \in Calls \ {c} : status'[d] = status[d],
         status[c] = "FINISH" => status'[c] = "FINISH"
  PROVE  \A t \in Tags : Ending(t) => Ending(t)' /\ calls[t] \in Calls
BY DEF IInv, TypeOK, Ending

\* One signal of a call that is not finishing; after dataEnd it is.
LEMMA EmitOne ==
  ASSUME IInv, NEW c \in Calls, UNCHANGED calls, \A d \in Calls \ {c} : status'[d] = status[d],
         status[c] # "FINISH", tagOf[c] \in Tags, calls[tagOf[c]] = c,
         NEW s \in Signal, s.tag = tagOf[c], Emit(<<s>>), s.kind = "dataEnd" => status'[c] = "FINISH"
  PROVE  SignalInv'
<1> DEFINE q == <<s>>
<1>1. q \in Seq(Signal) /\ DOMAIN q = {1} /\ q[1] = s /\ Len(q) = 1 /\ Emit(q)
  OBVIOUS
<1>2. c # NoCall
  BY BidiAssumption
<1> HIDE DEF q
<1>3. \A t \in Tags : Ending(t) => Ending(t)' /\ t # tagOf[c]
  BY EndingStays DEF Ending
<1>4. s.kind = "dataEnd" => Ending(s.tag)'
  BY <1>2 DEF Ending
<1> QED
  BY <1>1, <1>3, <1>4, SignalsOf, EmitStep

\* handleQueuedRequests when the call, the writes or the reads have got on.
LEMMA HandleQueuedIInv ==
  ASSUME IInv, ~Misused, NEW c \in Calls, NEW s \in {"INIT", "WRITE", "READ"}, Completes(c, s),
         handleQueuedRequests(c), Streaming, UNCHANGED writeDone, SignalInv',
         readDone' \in [Calls -> BOOLEAN], reads' \in [Calls -> 0..MaxReads],
         \A d \in Calls \ {c} : reads'[d] = reads[d],
         reads'[c] > 0 => Holds(handed[c], Null)
  PROVE  IInv'
<1>1. outstanding[c] = 1 /\ tagOf[c] \in Tags /\ calls[tagOf[c]] = c
  BY Live DEF Statuses
<1>2. /\ UNCHANGED <<calls, tagOf, writeDoneQueued, accepted, ops, ends>>
      /\ TypeOK
  BY DEF Streaming, IInv
<1>3. /\ status \in [Calls -> Statuses] /\ outstanding \in [Calls -> Nat]
      /\ requests \in [Calls -> Seq(Requests)] /\ handed \in [Calls -> Seq(Requests)]
      /\ writeDone \in [Calls -> BOOLEAN]
      /\ requests[c] \in Seq(Requests) /\ handed[c] \in Seq(Requests)
      /\ accepted[c] = handed[c] \o requests[c]
      /\ writeDone[c] => Holds(handed[c], Null)
  BY <1>2 DEF TypeOK, IInv, HandedInOrder, WritesFirst
<1>4. ASSUME status' \in [Calls -> Statuses], outstanding' \in [Calls -> Nat],
             requests' \in [Calls -> Seq(Requests)], handed' \in [Calls -> Seq(Requests)]
      PROVE  TypeOK'
  BY <1>2, <1>4 DEF TypeOK, SignalInv
<1>5. CASE /\ requests[c] = <<>> /\ ~writeDone[c]
           /\ status' = [status EXCEPT ![c] = "FROZEN"]
           /\ outstanding' = [outstanding EXCEPT ![c] = @ - 1]
           /\ UNCHANGED <<requests, handed>>
  <2>1. /\ status' \in [Calls -> Statuses] /\ status'[c] = "FROZEN"
        /\ outstanding'[c] = 0 /\ outstanding' \in [Calls -> Nat]
        /\ \A d \in Calls \ {c} : status'[d] = status[d] /\ outstanding'[d] = outstanding[d]
    BY <1>1, <1>3, <1>5 DEF Statuses
  <2>2. TypeOK'
    BY <1>3, <1>4, <1>5, <2>1
  <2> QED
    BY <1>1, <1>2, <1>3, <1>5, <2>1, <2>2, StepIInv
<1>6. CASE requests[c] = <<>> /\ writeDone[c] /\ Goes(c, "READ")
  <2>0. status' = [status EXCEPT ![c] = "READ"] /\ UNCHANGED <<outstanding, requests, handed>>
    BY <1>6 DEF Goes
  <2>1. /\ status' \in [Calls -> Statuses] /\ status'[c] = "READ"
        /\ outstanding'[c] = 1 /\ outstanding' \in [Calls -> Nat]
        /\ \A d \in Calls \ {c} : status'[d] = status[d] /\ outstanding'[d] = outstanding[d]
    BY <1>1, <1>3, <2>0 DEF Statuses
  <2>2. TypeOK'
    BY <1>3, <1>4, <2>0, <2>1
  <2> QED
    BY <1>1, <1>2, <1>3, <1>6, <2>0, <2>1, <2>2, StepIInv
<1>7. CASE /\ requests[c] # <<>>
           /\ requests' = [requests EXCEPT ![c] = Tail(@)]
           /\ Hand(c, Head(requests[c]))
           /\ UNCHANGED outstanding
  <2> DEFINE r == Head(requests[c])
  <2>1. /\ Append(handed[c], r) \o Tail(requests[c]) = accepted[c]
        /\ r \in Requests /\ Tail(requests[c]) \in Seq(Requests)
    BY <1>3, <1>7, MoveHead
  <2>2. /\ status' = [status EXCEPT ![c] = IF r = Null THEN "WRITES_DONE" ELSE "WRITE"]
        /\ handed' = [handed EXCEPT ![c] = Append(@, r)]
    BY <1>7 DEF Hand
  <2> HIDE DEF r
  <2>3. /\ Append(handed[c], r) \in Seq(Requests)
        /\ Holds(Append(handed[c], r), Null) <=> Holds(handed[c], Null) \/ r = Null
    BY <1>3, <2>1, HoldsOf
  <2>4. /\ status' \in [Calls -> Statuses] /\ status'[c] = (IF r = Null THEN "WRITES_DONE" ELSE "WRITE")
        /\ handed' \in [Calls -> Seq(Requests)] /\ handed'[c] = Append(handed[c], r)
        /\ requests' \in [Calls -> Seq(Requests)] /\ requests'[c] = Tail(requests[c])
        /\ outstanding' \in [Calls -> Nat] /\ outstanding'[c] = 1
        /\ \A d \in Calls \ {c} : /\ status'[d] = status[d] /\ outstanding'[d] = outstanding[d]
                                  /\ handed'[d] = handed[d] /\ requests'[d] = requests[d]
    BY <1>1, <1>3, <1>7, <2>1, <2>2, <2>3 DEF Statuses
  <2>5. TypeOK'
    BY <1>4, <2>4
  <2>6. accepted'[c] = handed'[c] \o requests'[c]
    BY <1>2, <2>1, <2>4
  <2>7. status'[c] = "WRITES_DONE" \/ writeDone'[c] \/ reads'[c] > 0 => Holds(handed'[c], Null)
    BY <1>3, <2>3, <2>4
  <2> QED
    BY <1>1, <1>2, <2>4, <2>5, <2>6, <2>7, StepIInv
<1> QED
  BY <1>5, <1>6, <1>7 DEF handleQueuedRequests

\* Finish is given to gRPC in place of what has completed.
LEMMA GoesFinishIInv ==
  ASSUME IInv, ~Misused, NEW c \in Calls, NEW s \in {"INIT", "WRITE", "READ"}, Completes(c, s),
         Goes(c, "FINISH"), Streaming, UNCHANGED <<writeDone, reads>>, SignalInv',
         readDone' \in [Calls -> BOOLEAN]
  PROVE  IInv'
<1>1. outstanding[c] = 1 /\ tagOf[c] \in Tags /\ calls[tagOf[c]] = c
  BY Live DEF Statuses
<1>2. /\ UNCHANGED <<calls, tagOf, writeDoneQueued, accepted, ops, ends, outstanding, requests, handed>>
      /\ status' = [status EXCEPT ![c] = "FINISH"] /\ TypeOK
  BY DEF Streaming, Goes, IInv
<1>3. /\ status \in [Calls -> Statuses] /\ accepted[c] = handed[c] \o requests[c]
      /\ writeDone[c] \/ reads[c] > 0 => Holds(handed[c], Null)
  BY <1>2 DEF TypeOK, IInv, HandedInOrder, WritesFirst
<1>4. /\ status' \in [Calls -> Statuses] /\ status'[c] = "FINISH"
      /\ \A d \in Calls \ {c} : status'[d] = status[d]
  BY <1>2, <1>3 DEF Statuses
<1>5. TypeOK'
  BY <1>2, <1>4 DEF TypeOK, SignalInv
<1> QED
  BY <1>1, <1>2, <1>3, <1>4, <1>5, StepIInv

\* What handleQueuedRequests and Goes do to the status of a call, and no other.
LEMMA OthersStay ==
  ASSUME NEW c \in Calls, NEW s, handleQueuedRequests(c) \/ Goes(c, s), TypeOK
  PROVE  \A d \in Calls \ {c} : status'[d] = status[d]
BY DEF handleQueuedRequests, Goes, Hand, TypeOK

LEMMA ProcessInitIInv ==
  ASSUME IInv, ~Misused, NEW c \in Calls, NEW ok \in BOOLEAN, ProcessInit(c, ok) PROVE IInv'
<1>1. /\ Completes(c, "INIT") /\ Streaming /\ UNCHANGED <<callbackVars, readDone, writeDone, reads, calls>>
      /\ (handleQueuedRequests(c) \/ Goes(c, "FINISH")) /\ status[c] # "FINISH"
      /\ TypeOK
  BY DEF ProcessInit, Completes, Streaming, IInv
<1>2. \A d \in Calls \ {c} : status'[d] = status[d]
  BY <1>1, OthersStay
<1>3. SignalInv'
  <2>1. \A t \in Tags : Ending(t) => Ending(t)'
    BY <1>1, <1>2, EndingStays
  <2> QED
    BY <2>1, <1>1, SignalsOf, SilentStep
<1>4. /\ readDone' \in [Calls -> BOOLEAN] /\ reads' \in [Calls -> 0..MaxReads]
      /\ \A d \in Calls \ {c} : reads'[d] = reads[d]
      /\ reads'[c] > 0 => Holds(handed[c], Null)
  BY <1>1 DEF TypeOK, IInv, WritesFirst
<1>5. CASE handleQueuedRequests(c)
  BY <1>1, <1>3, <1>4, <1>5, HandleQueuedIInv
<1>6. CASE Goes(c, "FINISH")
  BY <1>1, <1>3, <1>4, <1>6, GoesFinishIInv
<1> QED
  BY <1>1, <1>5, <1>6

LEMMA ProcessWriteIInv ==
  ASSUME IInv, ~Misused, NEW c \in Calls, NEW ok \in BOOLEAN, ProcessWrite(c, ok) PROVE IInv'
<1>1. /\ Completes(c, "WRITE") /\ Streaming /\ UNCHANGED <<readDone, writeDone, reads, calls>>
      /\ status[c] # "FINISH" /\ TypeOK
      /\ \/ handleQueuedRequests(c) /\ UNCHANGED callbackVars
         \/ Goes(c, "FINISH") /\ Emit(<<EventOf("error", tagOf[c])>>)
  BY DEF ProcessWrite, Completes, Streaming, IInv
<1>2. \A d \in Calls \ {c} : status'[d] = status[d]
  BY <1>1, OthersStay
<1>4. /\ readDone' \in [Calls -> BOOLEAN] /\ reads' \in [Calls -> 0..MaxReads]
      /\ \A d \in Calls \ {c} : reads'[d] = reads[d]
      /\ reads'[c] > 0 => Holds(handed[c], Null)
  BY <1>1 DEF TypeOK, IInv, WritesFirst
<1>5. CASE handleQueuedRequests(c) /\ UNCHANGED callbackVars
  <2>1. \A t \in Tags : Ending(t) => Ending(t)'
    BY <1>1, <1>2, EndingStays
  <2>2. SignalInv'
    BY <2>1, <1>1, <1>5, SignalsOf, SilentStep
  <2> QED
    BY <1>1, <2>2, <1>4, <1>5, HandleQueuedIInv
<1>6. CASE Goes(c, "FINISH") /\ Emit(<<EventOf("error", tagOf[c])>>)
  <2> DEFINE s == EventOf("error", tagOf[c])
  <2>1. outstanding[c] = 1 /\ tagOf[c] \in Tags /\ calls[tagOf[c]] = c
    BY <1>1, Live DEF Statuses
  <2>2. s \in Signal /\ s.tag = tagOf[c] /\ s.kind # "dataEnd" /\ Emit(<<s>>)
    BY <2>1, <1>6 DEF EventOf, Signal, SignalKinds
  <2> HIDE DEF s
  <2>3. SignalInv'
    BY <1>1, <1>2, <2>1, <2>2, EmitOne
  <2> QED
    BY <1>1, <2>3, <1>4, <1>6, GoesFinishIInv
<1> QED
  BY <1>1, <1>5, <1>6

LEMMA ProcessReadIInv ==
  ASSUME IInv, ~Misused, NEW c \in Calls, ProcessRead(c) PROVE IInv'
<1>1. /\ Completes(c, "READ") /\ Streaming /\ UNCHANGED <<readDone, writeDone, calls>>
      /\ status[c] = "READ" /\ TypeOK /\ handleQueuedRequests(c)
      /\ reads[c] < MaxReads /\ reads' = [reads EXCEPT ![c] = @ + 1]
  BY DEF ProcessRead, Completes, Streaming, IInv
<1>2. \A d \in Calls \ {c} : status'[d] = status[d]
  BY <1>1, OthersStay
<1>3. PICK v \in Payloads : Emit(<<DataOf(tagOf[c], v)>>)
  BY DEF ProcessRead
<1>4. /\ readDone' \in [Calls -> BOOLEAN]
      /\ \A d \in Calls \ {c} : reads'[d] = reads[d]
      /\ Holds(handed[c], Null)
  BY <1>1 DEF TypeOK, IInv, WritesFirst
<1>5. reads' \in [Calls -> 0..MaxReads]
  <2>1. reads \in [Calls -> 0..MaxReads] /\ MaxReads \in Nat
    BY <1>1, BidiAssumption DEF TypeOK
  <2>2. reads[c] + 1 \in 0..MaxReads
    BY <1>1, <2>1
  <2> QED
    BY <1>1, <2>1, <2>2
<1>6. SignalInv'
  <2> DEFINE s == DataOf(tagOf[c], v)
  <2>1. outstanding[c] = 1 /\ tagOf[c] \in Tags /\ calls[tagOf[c]] = c
    BY <1>1, Live DEF Statuses
  <2>2. s \in Signal /\ s.tag = tagOf[c] /\ s.kind # "dataEnd" /\ Emit(<<s>>)
    BY <2>1, <1>3 DEF DataOf, Signal, SignalKinds
  <2> HIDE DEF s
  <2> QED
    BY <1>1, <1>2, <2>1, <2>2, EmitOne
<1> QED
  BY <1>1, <1>4, <1>5, <1>6, HandleQueuedIInv

\* The server has ended: the writes are over, so the call is, but for Finish.
LEMMA ProcessReadEndIInv ==
  ASSUME IInv, ~Misused, NEW c \in Calls, ProcessReadEnd(c) PROVE IInv'
<1>1. /\ Completes(c, "READ") /\ Streaming /\ UNCHANGED <<writeDone, reads, calls>>
      /\ status[c] = "READ" /\ TypeOK /\ Emit(<<EventOf("dataEnd", tagOf[c])>>)
      /\ readDone' = [readDone EXCEPT ![c] = TRUE]
  BY DEF ProcessReadEnd, Completes, Streaming, IInv
<1>2. Goes(c, "FINISH")
  BY <1>1 DEF ProcessReadEnd, IInv, WritesFirst
<1>3. (\A d \in Calls \ {c} : status'[d] = status[d]) /\ status'[c] = "FINISH"
  BY <1>1, <1>2 DEF Goes, TypeOK
<1>4. readDone' \in [Calls -> BOOLEAN]
  BY <1>1 DEF TypeOK
<1>5. SignalInv'
  <2> DEFINE s == EventOf("dataEnd", tagOf[c])
  <2>1. outstanding[c] = 1 /\ tagOf[c] \in Tags /\ calls[tagOf[c]] = c
    BY <1>1, Live DEF Statuses
  <2>2. s \in Signal /\ s.tag = tagOf[c] /\ Emit(<<s>>)
    BY <2>1, <1>1 DEF EventOf, Signal, SignalKinds
  <2> HIDE DEF s
  <2> QED
    BY <1>1, <1>3, <2>1, <2>2, EmitOne
<1> QED
  BY <1>1, <1>2, <1>4, <1>5, GoesFinishIInv

\* WritesDone has completed; after a failure gRPC gets one operation too many.
LEMMA ProcessWritesDoneIInv ==
  ASSUME IInv, ~Misused, NEW c \in Calls, NEW ok \in BOOLEAN, ProcessWritesDone(c, ok) PROVE IInv'
<1>1. /\ Completes(c, "WRITES_DONE") /\ status[c] = "WRITES_DONE" /\ TypeOK
      /\ UNCHANGED <<calls, tagOf, writeDoneQueued, accepted, ops, ends, readDone, requests, handed, reads>>
      /\ UNCHANGED callbackVars
      /\ writeDone' = [writeDone EXCEPT ![c] = TRUE]
      /\ status' = [status EXCEPT ![c] = IF readDone[c] THEN "FINISH" ELSE "READ"]
      /\ outstanding' = IF ok THEN outstanding ELSE [outstanding EXCEPT ![c] = @ + 1]
  BY DEF ProcessWritesDone, Completes, Streaming, IInv
<1>2. outstanding[c] = 1 /\ tagOf[c] \in Tags /\ calls[tagOf[c]] = c
  BY <1>1, Live DEF Statuses
<1>3. /\ status' \in [Calls -> Statuses] /\ status'[c] \in {"FINISH", "READ"}
      /\ writeDone' \in [Calls -> BOOLEAN] /\ writeDone'[c]
      /\ \A d \in Calls \ {c} : status'[d] = status[d] /\ writeDone'[d] = writeDone[d]
  BY <1>1 DEF TypeOK, Statuses
<1>4. /\ outstanding' \in [Calls -> Nat]
      /\ \A d \in Calls \ {c} : outstanding'[d] = outstanding[d]
      /\ Misused' \/ outstanding'[c] = 1
  <2>1. CASE ok
    BY <2>1, <1>1, <1>2 DEF TypeOK
  <2>2. CASE ~ok
    BY <2>2, <1>1, <1>2 DEF TypeOK, Misused
  <2> QED
    BY <2>1, <2>2
<1>5. Holds(handed[c], Null) /\ accepted[c] = handed[c] \o requests[c]
  BY <1>1 DEF IInv, WritesFirst, HandedInOrder
<1>6. SignalInv'
  <2>1. \A t \in Tags : Ending(t) => Ending(t)'
    BY <1>1, <1>3, EndingStays
  <2> QED
    BY <2>1, <1>1, SignalsOf, SilentStep
<1>7. TypeOK'
  BY <1>1, <1>3, <1>4, <1>6 DEF TypeOK, SignalInv
<1> QED
  BY <1>1, <1>2, <1>3, <1>4, <1>5, <1>6, <1>7, StepIInv

\* The status arrives: the call leaves calls_, and closed is the last signal.
LEMMA ProcessFinishIInv ==
  ASSUME IInv, ~Misused, NEW c \in Calls, NEW bad \in BOOLEAN, ProcessFinish(c, bad) PROVE IInv'
<1> DEFINE t == tagOf[c]
           q == (IF bad THEN <<EventOf("error", t)>> ELSE <<>>) \o <<EventOf("closed", t)>>
<1>1. /\ Completes(c, "FINISH") /\ status[c] = "FINISH" /\ TypeOK
      /\ outstanding' = [outstanding EXCEPT ![c] = @ - 1]
      /\ calls' = [calls EXCEPT ![t] = NoCall]
      /\ UNCHANGED <<tagOf, flagVars, status, requests, accepted, handed, reads, ops, ends>>
  BY DEF ProcessFinish, Completes, IInv
<1>2. outstanding[c] = 1 /\ t \in Tags /\ calls[t] = c /\ c # NoCall /\ t # 0
  BY <1>1, Live, BidiAssumption, CallbackAssumption DEF Statuses, Tags
<1>3. Emit(q)
  BY <1>2 DEF ProcessFinish
<1>4. /\ q \in Seq(Signal)
      /\ \A k \in DOMAIN q : q[k].kind \in {"error", "closed"}
      /\ \E k \in DOMAIN q : q[k].tag = t /\ q[k].kind = "closed"
  <2> DEFINE e == EventOf("error", t)
             z == EventOf("closed", t)
             a == IF bad THEN <<e>> ELSE <<>>
  <2>1. e \in Signal /\ z \in Signal /\ e.kind = "error" /\ z.kind = "closed" /\ z.tag = t
    BY <1>2 DEF EventOf, Signal, SignalKinds
  <2>2. q = a \o <<z>>
    OBVIOUS
  <2> HIDE DEF q, e, z
  <2>3. a \in Seq(Signal) /\ Len(a) \in Nat /\ \A k \in 1..Len(a) : a[k] = e
    BY <2>1
  <2> HIDE DEF a
  <2>4. /\ q \in Seq(Signal) /\ DOMAIN q = 1..(Len(a) + 1)
        /\ \A k \in 1..Len(a) : q[k] = a[k]
        /\ q[Len(a) + 1] = z
    BY <2>1, <2>2, <2>3
  <2>5. Len(a) + 1 \in DOMAIN q /\ \A k \in DOMAIN q : k \in 1..Len(a) \/ k = Len(a) + 1
    BY <2>3, <2>4
  <2> QED
    BY <2>1, <2>3, <2>4, <2>5
<1> HIDE DEF q
<1>5. /\ calls \in [Tags -> Calls \cup {NoCall}]
      /\ calls' \in [Tags -> Calls \cup {NoCall}] /\ calls'[t] = NoCall
      /\ \A u \in Tags \ {t} : calls'[u] = calls[u]
      /\ outstanding' \in [Calls -> Nat] /\ outstanding'[c] = 0
      /\ \A d \in Calls \ {c} : outstanding'[d] = outstanding[d]
      /\ tagOf \in [Calls -> Tags \cup {0}]
  BY <1>1, <1>2 DEF TypeOK
<1>6. SignalInv'
  <2>1. \A u \in Tags : Ending(u) => u = t \/ Ending(u)'
    BY <1>1, <1>5 DEF Ending
  <2>2. \A k \in DOMAIN q : ~Streams(q[k]) /\ q[k].kind # "dataEnd"
    BY <1>4 DEF Streams
  <2>3. \A u \in Tags : calls[u] = NoCall => calls'[u] = NoCall
    BY <1>5
  <2> QED
    BY <1>3, <1>4, <2>1, <2>2, <2>3, SignalsOf, EmitStep
<1>7. TypeOK'
  BY <1>1, <1>5, <1>6 DEF TypeOK, SignalInv, flagVars
<1>8. OneOperation'
  <2> SUFFICES ASSUME NEW d \in Calls
               PROVE  outstanding'[d] = IF \/ tagOf[d] = 0 \/ status[d] = "FROZEN"
                                           \/ status[d] = "FINISH" /\ calls'[tagOf[d]] # d
                                        THEN 0 ELSE 1
    BY <1>1 DEF OneOperation
  <2>1. CASE d = c
    BY <2>1, <1>1, <1>2, <1>5
  <2>2. CASE d # c
    <3>1. tagOf[d] # 0 => (calls'[tagOf[d]] # d <=> calls[tagOf[d]] # d)
      BY <2>2, <1>2, <1>5, BidiAssumption
    <3>2. outstanding[d] = IF \/ tagOf[d] = 0 \/ status[d] = "FROZEN"
                              \/ status[d] = "FINISH" /\ calls[tagOf[d]] # d
                           THEN 0 ELSE 1
      BY DEF IInv, OneOperation
    <3> QED
      BY <2>2, <3>1, <3>2, <1>5
  <2> QED
    BY <2>1, <2>2
<1>9. HandedInOrder' /\ WritesFirst'
  BY <1>1 DEF IInv, HandedInOrder, WritesFirst, flagVars, Holds
<1>10. Fresh'
  BY <1>1, <1>2, <1>5 DEF IInv, Fresh
<1>11. Listed'
  <2>1. \A u \in Tags : calls'[u] # NoCall => tagOf'[calls'[u]] = u
    BY <1>1, <1>5 DEF IInv, Listed
  <2>2. ASSUME NEW d \in Calls, tagOf[d] # 0, status[d] # "FINISH" PROVE calls'[tagOf[d]] = d
    <3>1. calls[tagOf[d]] = d /\ d # c
      BY <2>2, <1>1 DEF IInv, Listed
    <3> QED
      BY <2>2, <3>1, <1>2, <1>5
  <2> QED
    BY <2>1, <2>2, <1>1 DEF Listed
<1> QED
  BY <1>6, <1>7, <1>8, <1>9, <1>10, <1>11 DEF IInv, SignalInv

\* A call object is made for a tag that has none.
LEMMA CreateIInv ==
  ASSUME IInv, ~Misused, NEW t \in Tags, calls[t] = NoCall, NEW c \in Calls, tagOf[c] = 0,
         tagOf' = [tagOf EXCEPT ![c] = t],
         calls' = [calls EXCEPT ![t] = c],
         outstanding' = [outstanding EXCEPT ![c] = 1],
         UNCHANGED <<status, requests, flagVars, accepted, handed, reads>>,
         SignalInv', ops' \in 0..MaxOps, ends' = ends
  PROVE  IInv'
<1>1. /\ calls \in [Tags -> Calls \cup {NoCall}] /\ calls'[t] = c
      /\ calls' \in [Tags -> Calls \cup {NoCall}]
      /\ \A u \in Tags \ {t} : calls'[u] = calls[u]
      /\ outstanding' \in [Calls -> Nat] /\ outstanding'[c] = 1
      /\ \A d \in Calls \ {c} : outstanding'[d] = outstanding[d] /\ tagOf'[d] = tagOf[d]
      /\ tagOf \in [Calls -> Tags \cup {0}] /\ tagOf' \in [Calls -> Tags \cup {0}] /\ tagOf'[c] = t
      /\ c # NoCall /\ t # 0
  BY BidiAssumption, CallbackAssumption DEF IInv, TypeOK, Tags
<1>2. status[c] = "INIT"
  BY DEF IInv, Fresh
<1>3. TypeOK'
  BY <1>1 DEF IInv, TypeOK, SignalInv, flagVars
<1>4. OneOperation'
  <2> SUFFICES ASSUME NEW d \in Calls
               PROVE  outstanding'[d] = IF \/ tagOf'[d] = 0 \/ status[d] = "FROZEN"
                                           \/ status[d] = "FINISH" /\ calls'[tagOf'[d]] # d
                                        THEN 0 ELSE 1
    BY DEF OneOperation
  <2>1. CASE d = c
    BY <2>1, <1>1, <1>2
  <2>2. CASE d # c
    <3>1. tagOf[d] # 0 => (calls'[tagOf[d]] # d <=> calls[tagOf[d]] # d)
      BY <2>2, <1>1, BidiAssumption
    <3>2. outstanding[d] = IF \/ tagOf[d] = 0 \/ status[d] = "FROZEN"
                              \/ status[d] = "FINISH" /\ calls[tagOf[d]] # d
                           THEN 0 ELSE 1
      BY DEF IInv, OneOperation
    <3> QED
      BY <2>2, <3>1, <3>2, <1>1
  <2> QED
    BY <2>1, <2>2
<1>5. HandedInOrder' /\ WritesFirst'
  BY DEF IInv, HandedInOrder, WritesFirst, flagVars, Holds
<1>6. Fresh'
  BY <1>1 DEF IInv, Fresh
<1>7. Listed'
  <2>1. ASSUME NEW u \in Tags, calls'[u] # NoCall PROVE tagOf'[calls'[u]] = u
    <3>1. CASE u = t
      BY <3>1, <1>1
    <3>2. CASE u # t
      <4>1. calls'[u] = calls[u] /\ calls[u] \in Calls /\ tagOf[calls[u]] = u
        BY <2>1, <3>2, <1>1 DEF IInv, Listed
      <4>2. calls[u] # c
        BY <4>1, <1>1, CallbackAssumption DEF Tags
      <4> QED
        BY <4>1, <4>2, <1>1
    <3> QED
      BY <3>1, <3>2
  <2>2. ASSUME NEW d \in Calls, tagOf'[d] # 0, status[d] # "FINISH" PROVE calls'[tagOf'[d]] = d
    <3>1. CASE d = c
      BY <3>1, <1>1
    <3>2. CASE d # c
      <4>1. calls[tagOf[d]] = d /\ tagOf[d] \in Tags /\ tagOf'[d] = tagOf[d]
        BY <2>2, <3>2, <1>1 DEF IInv, Listed
      <4>2. tagOf[d] # t
        BY <4>1, <1>1, BidiAssumption
      <4> QED
        BY <4>1, <4>2, <1>1
    <3> QED
      BY <3>1, <3>2
  <2> QED
    BY <2>1, <2>2 DEF Listed
<1> QED
  BY <1>3, <1>4, <1>5, <1>6, <1>7 DEF IInv, SignalInv

LEMMA CallIInv ==
  ASSUME IInv, ~Misused, Call PROVE IInv'
<1>1. PICK c \in Calls :
        /\ tagOf[c] = 0 /\ tagOf' = [tagOf EXCEPT ![c] = lastTag']
        /\ calls' = [calls EXCEPT ![lastTag'] = c] /\ outstanding' = [outstanding EXCEPT ![c] = 1]
        /\ UNCHANGED <<status, requests, flagVars, accepted, handed, reads>>
  BY DEF Call, Create
<1>2. NewTag /\ UNCHANGED <<ops, ends>> /\ calls \in [Tags -> Calls \cup {NoCall}] /\ ops \in 0..MaxOps
  BY DEF Call, IInv, TypeOK
<1>3. lastTag' \in Tags /\ calls[lastTag'] = NoCall
  <2>1. lastTag \in 0..MaxTag /\ lastTag < MaxTag /\ lastTag' = lastTag + 1 /\ MaxTag \in Nat
    BY <1>2, CallbackAssumption DEF IInv, TypeOK, CallbackTypeOK, NewTag
  <2>2. lastTag' \in Tags /\ lastTag' > lastTag
    BY <2>1 DEF Tags
  <2> QED
    BY <2>2 DEF IInv, TagsOld
<1>4. SignalInv'
  BY <1>1, <1>2, SignalsOf, NewTagStep
<1> QED
  BY <1>1, <1>2, <1>3, <1>4, CreateIInv

LEMMA SetTimeoutIInv ==
  ASSUME IInv, ~Misused, NEW t \in Tags, SetTimeout(t) PROVE IInv'
<1>1. PICK c \in Calls :
        /\ tagOf[c] = 0 /\ tagOf' = [tagOf EXCEPT ![c] = t]
        /\ calls' = [calls EXCEPT ![t] = c] /\ outstanding' = [outstanding EXCEPT ![c] = 1]
        /\ UNCHANGED <<status, requests, flagVars, accepted, handed, reads>>
  BY DEF SetTimeout, Create
<1>2. /\ calls[t] = NoCall /\ t <= lastTag /\ UNCHANGED <<callbackVars, ends>>
      /\ calls \in [Tags -> Calls \cup {NoCall}] /\ lastTag \in Nat
  BY DEF SetTimeout, IInv, TypeOK, CallbackTypeOK
<1>3. ops' \in 0..MaxOps
  BY BidiAssumption DEF SetTimeout, MayAct, IInv, TypeOK
<1>4. SignalInv'
  <2>1. \A u \in Tags : Ending(u) => Ending(u)'
    BY <1>1, <1>2 DEF Ending
  <2>2. \A u \in Tags : u > lastTag => u # t
    BY <1>2, CallbackAssumption DEF Tags
  <2>3. \A u \in Tags : u > lastTag /\ calls[u] = NoCall => calls'[u] = NoCall
    BY <1>1, <1>2, <2>2
  <2> QED
    BY <1>2, <2>1, <2>3, SignalsOf, SilentStep
<1> QED
  BY <1>1, <1>2, <1>3, <1>4, CreateIInv

\* A request is handed over at once, or queued.  A second WritesDone is too
\* many for gRPC.
LEMMA AcceptIInv ==
  ASSUME IInv, ~Misused, NEW t \in Tags, NEW c \in Calls, c = calls[t], NEW r \in Requests, Accept(c, r),
         UNCHANGED <<callbackVars, calls, tagOf, readDone, writeDone, reads>>,
         writeDoneQueued' \in [Calls -> BOOLEAN], ops' \in 0..MaxOps, ends' \in [Tags -> 0..MaxEnds]
  PROVE  IInv'
<1>1. /\ accepted' = [accepted EXCEPT ![c] = Append(@, r)]
      /\ TypeOK
  BY DEF Accept, IInv
<1>2. /\ status \in [Calls -> Statuses] /\ outstanding \in [Calls -> Nat]
      /\ requests \in [Calls -> Seq(Requests)] /\ handed \in [Calls -> Seq(Requests)]
      /\ accepted \in [Calls -> Seq(Requests)]
      /\ requests[c] \in Seq(Requests) /\ handed[c] \in Seq(Requests) /\ accepted[c] \in Seq(Requests)
      /\ accepted[c] = handed[c] \o requests[c]
      /\ status[c] = "FROZEN" => requests[c] = <<>>
      /\ status[c] = "READ" => writeDone[c]
      /\ status[c] = "WRITES_DONE" \/ writeDone[c] \/ reads[c] > 0 => Holds(handed[c], Null)
  BY <1>1 DEF TypeOK, IInv, HandedInOrder, WritesFirst
<1>3. tagOf[c] = t /\ tagOf[c] \in Tags /\ calls[tagOf[c]] = c /\ tagOf[c] # 0
  BY BidiAssumption, CallbackAssumption DEF IInv, Listed, Tags
<1>4. outstanding[c] = IF status[c] = "FROZEN" THEN 0 ELSE 1
  BY <1>3 DEF IInv, OneOperation
<1>5. /\ accepted' \in [Calls -> Seq(Requests)] /\ accepted'[c] = Append(accepted[c], r)
      /\ \A d \in Calls \ {c} : accepted'[d] = accepted[d]
  BY <1>1, <1>2
<1>6. ASSUME \A d \in Calls \ {c} : status'[d] = status[d], status[c] = "FINISH" => status'[c] = "FINISH"
      PROVE  SignalInv'
  <2>1. \A u \in Tags : Ending(u) => Ending(u)'
    BY <1>6, EndingStays
  <2> QED
    BY <2>1, SignalsOf, SilentStep
<1>7. CASE /\ status[c] = "FROZEN" /\ Hand(c, r)
           /\ outstanding' = [outstanding EXCEPT ![c] = @ + 1] /\ UNCHANGED requests
  <2>1. /\ status' = [status EXCEPT ![c] = IF r = Null THEN "WRITES_DONE" ELSE "WRITE"]
        /\ handed' = [handed EXCEPT ![c] = Append(@, r)]
    BY <1>7 DEF Hand
  <2>2. /\ Append(handed[c], r) \in Seq(Requests)
        /\ Holds(Append(handed[c], r), Null) <=> Holds(handed[c], Null) \/ r = Null
    BY <1>2, HoldsOf
  <2>3. /\ status' \in [Calls -> Statuses] /\ status'[c] = (IF r = Null THEN "WRITES_DONE" ELSE "WRITE")
        /\ handed' \in [Calls -> Seq(Requests)] /\ handed'[c] = Append(handed[c], r)
        /\ outstanding' \in [Calls -> Nat] /\ outstanding'[c] = 1
        /\ \A d \in Calls \ {c} : /\ status'[d] = status[d] /\ outstanding'[d] = outstanding[d]
                                  /\ handed'[d] = handed[d]
    BY <1>2, <1>4, <1>7, <2>1, <2>2 DEF Statuses
  <2>4. SignalInv'
    BY <1>6, <1>7, <2>3
  <2>5. TypeOK'
    BY <1>1, <1>5, <1>7, <2>3, <2>4 DEF TypeOK, SignalInv
  <2>6. accepted'[c] = handed'[c] \o requests'[c]
    <3>1. requests[c] = <<>> /\ requests'[c] = <<>>
      BY <1>2, <1>7
    <3>2. accepted[c] = handed[c]
      BY <3>1, <1>2, ConcatEmpty
    <3> QED
      BY <3>1, <3>2, <1>5, <2>2, <2>3, ConcatEmpty
  <2>7. status'[c] = "WRITES_DONE" \/ writeDone'[c] \/ reads'[c] > 0 => Holds(handed'[c], Null)
    BY <1>2, <2>2, <2>3
  <2> QED
    BY <1>3, <1>5, <1>7, <2>3, <2>4, <2>5, <2>6, <2>7, StepIInv
<1>8. CASE /\ status[c] # "FROZEN" /\ requests' = [requests EXCEPT ![c] = Append(@, r)]
           /\ UNCHANGED <<status, outstanding, handed>>
  <2>1. /\ requests' \in [Calls -> Seq(Requests)] /\ requests'[c] = Append(requests[c], r)
        /\ \A d \in Calls \ {c} : requests'[d] = requests[d]
    BY <1>2, <1>8
  <2>2. SignalInv'
    BY <1>6, <1>8
  <2>3. TypeOK'
    BY <1>1, <1>5, <1>8, <2>1, <2>2 DEF TypeOK, SignalInv
  <2>4. accepted'[c] = handed'[c] \o requests'[c]
    <3>1. Append(handed[c] \o requests[c], r) = handed[c] \o Append(requests[c], r)
      BY <1>2, AppendConcat
    <3> QED
      BY <3>1, <1>2, <1>5, <1>8, <2>1
  <2> QED
    BY <1>2, <1>3, <1>4, <1>5, <1>8, <2>1, <2>2, <2>3, <2>4, StepIInv
<1> QED
  BY <1>7, <1>8 DEF Accept

\* A step that changes nothing of the calls but flags that no invariant reads.
LEMMA QuietStep ==
  ASSUME IInv, SignalInv', UNCHANGED <<calls, tagOf, readDone, writeDone, reads, streamVars>>,
         writeDoneQueued' \in [Calls -> BOOLEAN], ops' \in 0..MaxOps, ends' \in [Tags -> 0..MaxEnds]
  PROVE  IInv'
<1>1. TypeOK'
  BY DEF IInv, TypeOK, SignalInv, streamVars
<1>2. OneOperation'
  BY DEF IInv, OneOperation, Misused, Twice, streamVars
<1>3. HandedInOrder' /\ Fresh' /\ Listed' /\ WritesFirst'
  BY DEF IInv, HandedInOrder, Fresh, Listed, WritesFirst, Holds, streamVars
<1> QED
  BY <1>1, <1>2, <1>3 DEF IInv, SignalInv

LEMMA WriteIInv ==
  ASSUME IInv, ~Misused, NEW t \in Tags, NEW m \in Messages, Write(t, m) PROVE IInv'
<1> DEFINE c == calls[t]
<1>1. /\ ops' \in 0..MaxOps /\ UNCHANGED <<calls, tagOf, flagVars, reads, ends>> /\ t \in callbacks
      /\ writeDoneQueued \in [Calls -> BOOLEAN] /\ ends \in [Tags -> 0..MaxEnds]
      /\ c \in Calls \cup {NoCall}
  BY BidiAssumption DEF Write, MayAct, IInv, TypeOK
<1>2. CASE Refused(t) /\ UNCHANGED streamVars
  <2>1. SignalInv'
    BY <1>1, <1>2, SignalsOf, RefusedStep DEF streamVars
  <2> QED
    BY <1>1, <1>2, <2>1, QuietStep DEF flagVars
<1>3. CASE c # NoCall /\ Accept(c, m) /\ UNCHANGED callbackVars
  <2>1. c \in Calls /\ c = calls[t] /\ m \in Requests
    BY <1>1, <1>3 DEF Requests
  <2> HIDE DEF c
  <2> QED
    BY <1>1, <1>3, <2>1, AcceptIInv DEF flagVars
<1> QED
  BY <1>2, <1>3 DEF Write

LEMMA EndWritesIInv ==
  ASSUME IInv, ~Misused, NEW t \in Tags, EndWrites(t) PROVE IInv'
<1> DEFINE c == calls[t]
<1>1. /\ UNCHANGED <<calls, tagOf, readDone, writeDone, reads>> /\ t \in callbacks
      /\ writeDoneQueued \in [Calls -> BOOLEAN] /\ c \in Calls \cup {NoCall}
      /\ ends' = [ends EXCEPT ![t] = @ + 1] /\ ends[t] < MaxEnds /\ ends \in [Tags -> 0..MaxEnds]
  BY DEF EndWrites, IInv, TypeOK
<1>2. ops' \in 0..MaxOps
  BY BidiAssumption DEF EndWrites, MayAct, IInv, TypeOK
<1>3. ends' \in [Tags -> 0..MaxEnds]
  <2>1. ends[t] + 1 \in 0..MaxEnds
    BY <1>1, BidiAssumption
  <2> QED
    BY <1>1, <2>1
<1>4. writeDoneQueued' \in [Calls -> BOOLEAN]
  BY <1>1 DEF EndWrites, TypeOK
<1>5. CASE Refused(t) /\ UNCHANGED streamVars
  <2>1. SignalInv'
    BY <1>1, <1>5, SignalsOf, RefusedStep DEF streamVars
  <2> QED
    BY <1>1, <1>2, <1>3, <1>4, <1>5, <2>1, QuietStep
<1>6. CASE c # NoCall /\ Accept(c, Null) /\ UNCHANGED callbackVars
  <2>1. c \in Calls /\ c = calls[t] /\ Null \in Requests
    BY <1>1, <1>6 DEF Requests
  <2> HIDE DEF c
  <2> QED
    BY <1>1, <1>2, <1>3, <1>4, <1>6, <2>1, AcceptIInv
<1> QED
  BY <1>5, <1>6 DEF EndWrites

LEMMA QmlDeliverIInv ==
  ASSUME IInv, QmlDeliver PROVE IInv'
<1>1. /\ Deliver /\ UNCHANGED <<calls, tagOf, readDone, writeDone, writeDoneQueued, reads, streamVars, ops, ends>>
      /\ UNCHANGED status /\ TypeOK
  BY DEF QmlDeliver, callVars, flagVars, streamVars, IInv
<1>2. SignalInv'
  BY <1>1, SignalsOf, DeliverStep
<1>3. writeDoneQueued' \in [Calls -> BOOLEAN] /\ ops' \in 0..MaxOps /\ ends' \in [Tags -> 0..MaxEnds]
  BY <1>1 DEF TypeOK
<1> QED
  BY <1>1, <1>2, <1>3, QuietStep

LEMMA StutterIInv ==
  ASSUME IInv, UNCHANGED vars PROVE IInv'
<1>1. /\ UNCHANGED <<calls, tagOf, readDone, writeDone, writeDoneQueued, reads, streamVars, ops, ends>>
      /\ UNCHANGED <<status, callbackVars>> /\ TypeOK
  BY DEF vars, callVars, flagVars, streamVars, IInv
<1>2. SignalInv'
  <2>1. \A u \in Tags : Ending(u) => Ending(u)'
    BY <1>1 DEF Ending
  <2> QED
    BY <1>1, <2>1, SignalsOf, SilentStep
<1>3. writeDoneQueued' \in [Calls -> BOOLEAN] /\ ops' \in 0..MaxOps /\ ends' \in [Tags -> 0..MaxEnds]
  BY <1>1 DEF TypeOK
<1> QED
  BY <1>1, <1>2, <1>3, QuietStep

LEMMA NextIInv == IInv /\ [Next]_vars => IInv'
<1> SUFFICES ASSUME IInv, [Next]_vars PROVE IInv'
  OBVIOUS
<1>1. CASE UNCHANGED vars
  BY <1>1, StutterIInv
<1>2. ASSUME NEW c \in Calls, Process(c) PROVE IInv'
  BY <1>2, ProcessInitIInv, ProcessWriteIInv, ProcessReadIInv, ProcessReadEndIInv, ProcessWritesDoneIInv,
     ProcessFinishIInv DEF Process
<1>3. CASE QmlNext
  BY <1>3, CallIInv, WriteIInv, EndWritesIInv, SetTimeoutIInv, QmlDeliverIInv DEF QmlNext
<1> QED
  BY <1>1, <1>2, <1>3 DEF Next

-----------------------------------------------------------------------------
(* The theorems.                                                           *)

\* The inductive invariant: a call that is not past its FINISH is in calls_,
\* what was accepted is handed over or queued, the reads follow the writes,
\* and closed follows the end.
THEOREM Invariance == Spec => []IInv
<1>1. Init => IInv
  BY InitIInv
<1> QED
  BY <1>1, NextIInv, PTL DEF Spec

\* gRPC gets one operation of a call at a time and the requests in the order
\* of write() and end(), until it is given a second WritesDone (writesDone of
\* reader_writer.h) or a Read beside Finish (WRITES_DONE in reader_writer.cpp).
THEOREM OneInOrderAlways == Spec => []OneInOrder
<1>1. IInv => OneInOrder
  BY DEF IInv, OneInOrder
<1> QED
  BY <1>1, Invariance, PTL

\* The callback hears nothing of the stream after "end", though setting the
\* timeout may make a second call object under its tag (ensureCallData).
THEOREM EndIsLastAlways == Spec => []EndIsLast
<1>1. IInv => EndIsLast
  BY DEF IInv
<1> QED
  BY <1>1, Invariance, PTL

\* Nothing is read from the server before WritesDone was handed to gRPC
\* (handleQueuedRequests reads only where write_done_ is set).
THEOREM HalfDuplexAlways == Spec => []HalfDuplex
<1>1. IInv => HalfDuplex
  BY DEF IInv, WritesFirst, HalfDuplex
<1> QED
  BY <1>1, Invariance, PTL
=============================================================================
