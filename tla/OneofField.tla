------------------------------ MODULE OneofField ------------------------------
(***************************************************************************)
(* A oneof as the generated code keeps it: the number of the current case  *)
(* in _oneofs, and one entry of _fields for each case, which may hold an   *)
(* old value while another case is current.                                *)
(*                                                                         *)
(* A case that is set to undefined becomes the current one, with nothing   *)
(* to send or, of a message type, a message with nothing set; the comment  *)
(* in field_generator.cpp has the whole oneof cleared.  `unsure' says that *)
(* the program has done so, and nothing is claimed of the oneof then.      *)
(***************************************************************************)
EXTENDS Naturals

CONSTANTS
  NumberCases,    \* cases of a number, boolean or enum type
  StringCases,    \* cases of type string or bytes
  MessageCases,   \* cases of a message type
  NotSet,         \* _NOT_SET, the case number 0
  Values,         \* values of the cases
  Default,        \* default value of a scalar; a message with nothing set
  Undefined

Cases == NumberCases \cup StringCases \cup MessageCases

ASSUME OneofAssumption ==
  /\ NotSet \notin Cases
  /\ MessageCases \cap (NumberCases \cup StringCases) = {}
  /\ NumberCases \cap StringCases = {}
  /\ Default \in Values /\ Undefined \notin Values

VARIABLES
  which,      \* _oneofs[index]
  held,       \* _fields of the cases
  chosen,     \* history: the case the program chose
  value,      \* history: the value it gave it
  unsure      \* history: that value was undefined

oneofVars == <<which, held, chosen, value, unsure>>

OneofTypeOK ==
  /\ which \in Cases \cup {NotSet}
  /\ held \in [Cases -> Values \cup {Undefined}]
  /\ chosen \in Cases \cup {NotSet}
  /\ value \in Values \cup {Undefined}
  /\ unsure \in BOOLEAN

OneofInit ==
  /\ which = NotSet
  /\ held = [c \in Cases |-> Undefined]
  /\ chosen = NotSet /\ value = Undefined /\ unsure = FALSE

\* clear of a field: a scalar gets its default value.
Emptied(c) == [held EXCEPT ![c] = IF c \in MessageCases THEN Undefined ELSE Default]

Nothing == chosen' = NotSet /\ value' = Undefined /\ unsure' = FALSE

\* Slip: whatever the current case.
clearField_Any(c) ==
  /\ held' = Emptied(c)
  /\ which' = NotSet
  /\ IF chosen = c THEN Nothing ELSE UNCHANGED <<chosen, value, unsure>>

clearField(c) ==
  /\ held' = Emptied(c)
  /\ which' = IF which = c THEN NotSet ELSE which
  /\ IF chosen = c THEN Nothing ELSE UNCHANGED <<chosen, value, unsure>>

\* clear of the oneof: it empties the current string or message only.
Forgotten == IF which \in StringCases \cup MessageCases THEN Emptied(which) ELSE held

clearOneof ==
  /\ held' = Forgotten
  /\ which' = NotSet
  /\ Nothing

\* A message is made of anything, also of undefined.
Converted(c, v) == IF c \in MessageCases /\ v = Undefined THEN Default ELSE v

setField(c, v) ==
  /\ held' = [Forgotten EXCEPT ![c] = Converted(c, v)]
  /\ which' = c
  /\ chosen' = c
  /\ value' = IF v = Undefined THEN Default ELSE v
  /\ unsure' = (v = Undefined)

getField(c) ==
  IF which # c THEN Undefined ELSE IF held[c] = Undefined THEN Default ELSE held[c]

\* What a new message has of a oneof whose case c arrives with v.
Merged(c, v) ==
  /\ held' = [x \in Cases |-> IF x = c THEN Converted(c, v) ELSE Undefined]
  /\ which' = c

\* jsValueToMessage takes the field of the current case, unless its value is
\* undefined; messageToJsValue gives that case and value, where a message in
\* which nothing is set is undefined again.
OneofSent ==
  /\ IF which # NotSet /\ held[which] # Undefined
       THEN Merged(which, IF which \in MessageCases /\ held[which] = Default THEN Undefined ELSE held[which])
       ELSE Merged(NotSet, Undefined)
  /\ UNCHANGED <<chosen, value, unsure>>

\* A copy is made of the raw array.
OneofCopied ==
  /\ Merged(which, IF which = NotSet THEN Undefined ELSE held[which])
  /\ UNCHANGED <<chosen, value, unsure>>

OneofNext ==
  \/ \E c \in Cases : clearField(c)
  \/ clearOneof
  \/ \E c \in Cases, v \in Values \cup {Undefined} : setField(c, v)
  \/ OneofSent
  \/ OneofCopied

\* One case at most is to be seen, the one the program set last, with the
\* value it set, before and after the message is sent or copied; unless that
\* value was undefined.
OneofAsChosen ==
  ~unsure =>
    /\ which = chosen
    /\ \A c \in Cases : getField(c) = IF c = chosen THEN value ELSE Undefined
=============================================================================
