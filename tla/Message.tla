-------------------------------- MODULE Message --------------------------------
(***************************************************************************)
(* A generated message: the fields of four sorts as the program changes    *)
(* them, the message sent (serialize, parse and the constructor) or copied *)
(* at any time in between.  Fields share nothing: each has its own entries *)
(* of _fields and _oneofs.  So a behaviour works on one field, which it    *)
(* chooses in its first state.                                             *)
(***************************************************************************)
EXTENDS RepeatedNumbers, RepeatedMessages, OneofField, ScalarField

VARIABLE field    \* the field this behaviour is about

fieldsVars == <<field, numbersVars, messagesVars, oneofVars, scalarVars>>

FieldsInit ==
  /\ field \in {"numbers", "messages", "oneof", "scalar"}
  /\ NumbersInit /\ MessagesInit /\ OneofInit /\ ScalarInit
  /\ field # "scalar" => kind = "int32" /\ ~repeated

FieldsNext ==
  /\ UNCHANGED field
  /\ \/ /\ field = "numbers" /\ NumbersNext
        /\ UNCHANGED <<messagesVars, oneofVars, scalarVars>>
     \/ /\ field = "messages" /\ MessagesNext
        /\ UNCHANGED <<numbersVars, oneofVars, scalarVars>>
     \/ /\ field = "oneof" /\ OneofNext
        /\ UNCHANGED <<numbersVars, messagesVars, scalarVars>>
     \/ /\ field = "scalar" /\ ScalarNext
        /\ UNCHANGED <<numbersVars, messagesVars, oneofVars>>

FieldsSpec == FieldsInit /\ [][FieldsNext]_fieldsVars

\* A repeated field is the array the program asked for, of numbers as of
\* messages: where it is read and where it is sent.
RepeatedKept == NumbersTypeOK /\ NumbersAsAsked /\ MessagesAsPut
=============================================================================
