------------------------------ MODULE MC_Message ------------------------------
(* Message with the message objects interchangeable, and an enum. *)
EXTENDS Message

Symmetry == Permutations(Objects)

EnumValues == {-3, 0, 2}
=============================================================================
