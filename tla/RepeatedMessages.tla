--------------------------- MODULE RepeatedMessages ---------------------------
(***************************************************************************)
(* A repeated field of messages as the generated code keeps it: an array   *)
(* of message objects for the program (_name) and, beside it, the array of *)
(* their raw arrays (_fields[index]) that is serialized.  A message object *)
(* shares its raw array, so a change made through one is seen in the       *)
(* other, and an object added twice is there twice.                        *)
(***************************************************************************)
EXTENDS Naturals, Sequences, SequencesExt

CONSTANTS
  Bodies,       \* what a message holds
  Blank,        \* a message in which nothing is set
  Objects,      \* message objects; the bound on those in use at once
  Hole,         \* an element of an array that was never set
  MaxMessages   \* bound: length of the field

ASSUME MessagesAssumption ==
  /\ Hole \notin Objects \cup Bodies /\ Blank \in Bodies
  /\ MaxMessages \in Nat

VARIABLES
  names,        \* _name: the objects
  raws,         \* _fields[index]: the raw arrays, each named by its object
  body,         \* of each object: what its raw array holds
  wanted        \* history: the contents the program put in place, in order

messagesVars == <<names, raws, body, wanted>>

InUse == {names[i] : i \in DOMAIN names} \ {Hole}

Fresh == Objects \ InUse

MessagesInit ==
  /\ names = <<>> /\ raws = <<>>
  /\ body = [o \in Objects |-> Blank]
  /\ wanted = <<>>

\* _maybeConvertToMessage: an object of the type is kept, anything else is
\* copied into a new one.
Given(o, c) == IF o \in InUse THEN body[o] = c ELSE TRUE

Put(o, c) == body' = [body EXCEPT ![o] = c]

addMessage(o, c) ==
  /\ Len(names) < MaxMessages
  /\ Given(o, c) /\ Put(o, c)
  /\ names' = Append(names, o) /\ raws' = Append(raws, o)
  /\ wanted' = Append(wanted, c)

Extended(array, i, x, empty) ==
  [j \in 1..(IF i > Len(array) THEN i ELSE Len(array)) |->
    IF j = i THEN x ELSE IF j <= Len(array) THEN array[j] ELSE empty]

\* An index beyond the end leaves holes before it.
setMessageAt(i, o, c) ==
  /\ Given(o, c) /\ Put(o, c)
  /\ names' = Extended(names, i, o, Hole) /\ raws' = Extended(raws, i, o, Hole)
  /\ wanted' = Extended(wanted, i, c, Hole)

\* The field consists of new objects, one for each of cs.
Renewed(cs) ==
  \E os \in [1..Len(cs) -> Objects] :
    /\ \A i, j \in 1..Len(cs) : i # j => os[i] # os[j]
    /\ names' = os /\ raws' = os
    /\ body' = [o \in Objects |->
         IF \E i \in 1..Len(cs) : os[i] = o THEN cs[CHOOSE i \in 1..Len(cs) : os[i] = o] ELSE body[o]]

\* Replacement setter: every value is copied.
setMessages(cs) ==
  /\ Renewed(cs)
  /\ wanted' = cs

removeMessage(i) ==
  /\ i \in DOMAIN names
  /\ names' = RemoveAt(names, i) /\ raws' = RemoveAt(raws, i)
  /\ wanted' = RemoveAt(wanted, i)
  /\ UNCHANGED body

clearMessages ==
  /\ names' = <<>> /\ raws' = <<>> /\ wanted' = <<>>
  /\ UNCHANGED body

\* A field of the message at i is set through the object getAt returns.
Mutate(i, c) ==
  /\ i \in DOMAIN names /\ names[i] # Hole
  /\ Put(names[i], c)
  /\ wanted' = [j \in DOMAIN wanted |-> IF names[j] = names[i] THEN c ELSE wanted[j]]
  /\ UNCHANGED <<names, raws>>

\* setRepeatedFieldValue: the elements that are sent, in order; holes are left
\* out.
MessagesWire(sent) ==
  /\ {sent[i] : i \in DOMAIN sent} = {i \in DOMAIN raws : raws[i] # Hole}
  /\ \A i, j \in DOMAIN sent : i < j => sent[i] < sent[j]

\* The message is sent and parsed.
MessagesSent ==
  \E n \in 0..Len(raws) : \E sent \in [1..n -> DOMAIN raws] :
    /\ MessagesWire(sent)
    /\ Renewed([i \in 1..n |-> body[raws[sent[i]]]])
    /\ wanted' = [i \in 1..n |-> wanted[sent[i]]]

\* The message is copied (_mergeFromRawArray of its raw array): a hole becomes
\* a message.
MessagesCopied ==
  LET filled(x) == IF x = Hole THEN Blank ELSE x
  IN /\ Renewed([i \in DOMAIN raws |-> IF raws[i] = Hole THEN Blank ELSE body[raws[i]]])
     /\ wanted' = [i \in DOMAIN wanted |-> filled(wanted[i])]

MessagesNext ==
  \/ \E o \in Objects, c \in Bodies : addMessage(o, c)
  \/ \E i \in 1..MaxMessages, o \in Objects, c \in Bodies : setMessageAt(i, o, c)
  \/ \E n \in 0..MaxMessages : \E cs \in [1..n -> Bodies] : setMessages(cs)
  \/ \E i \in 1..MaxMessages : removeMessage(i)
  \/ \E i \in 1..MaxMessages, c \in Bodies : Mutate(i, c)
  \/ clearMessages
  \/ MessagesSent
  \/ MessagesCopied

\* What the program sees in the field and what is serialized from it are the
\* messages it put there, in order, with every change made to them since.
MessagesAsPut ==
  LET held(array) == [i \in DOMAIN array |-> IF array[i] = Hole THEN Hole ELSE body[array[i]]]
  IN held(names) = wanted /\ held(raws) = wanted
=============================================================================
