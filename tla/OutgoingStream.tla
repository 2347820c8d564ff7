--------------------------- MODULE OutgoingStream ---------------------------
(***************************************************************************)
(* What every streaming call object promises about the messages the        *)
(* program gives it: they are handed to gRPC in the order they were        *)
(* accepted, each at most once, and nothing is handed over after the end   *)
(* marker (writesDone on the client, end on the server).  It does not      *)
(* promise that everything accepted is handed over: what is accepted after *)
(* the end marker never is, and a call may be aborted.                     *)
(*                                                                         *)
(* ClientWriter, ServerWriter and ServerBidi implement it.                 *)
(***************************************************************************)
EXTENDS Naturals, Sequences

CONSTANTS
  Streams,   \* the call objects
  Items,     \* messages and the end marker
  End        \* the end marker

VARIABLES
  accepted,  \* per stream, what the program was told is accepted
  handed     \* per stream, what gRPC was given

Init ==
  /\ accepted = [s \in Streams |-> <<>>]
  /\ handed = [s \in Streams |-> <<>>]

Open(s) == handed[s] = <<>> \/ handed[s][Len(handed[s])] # End

Accept(s, r) ==
  /\ accepted' = [accepted EXCEPT ![s] = Append(@, r)]
  /\ UNCHANGED handed

HandOver(s) ==
  /\ Open(s)
  /\ Len(handed[s]) < Len(accepted[s])
  /\ handed' = [handed EXCEPT ![s] = Append(@, accepted[s][Len(@) + 1])]
  /\ UNCHANGED accepted

\* An idle stream hands over at once what it accepts.
AcceptAndHandOver(s, r) ==
  /\ Open(s)
  /\ handed[s] = accepted[s]
  /\ accepted' = [accepted EXCEPT ![s] = Append(@, r)]
  /\ handed' = [handed EXCEPT ![s] = Append(@, r)]

Next ==
  \E s \in Streams :
    \/ HandOver(s)
    \/ \E r \in Items : Accept(s, r) \/ AcceptAndHandOver(s, r)

Spec == Init /\ [][Next]_<<accepted, handed>>
=============================================================================
