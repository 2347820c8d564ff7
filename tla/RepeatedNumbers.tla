--------------------------- MODULE RepeatedNumbers ---------------------------
(***************************************************************************)
(* A repeated field of numbers as the generated code keeps it: a typed     *)
(* array, which is a view of the first `length' elements of a buffer that  *)
(* outgrows it.  The methods of the field replace the view, and the buffer *)
(* when it is too small; what the buffer holds beyond the view is what was *)
(* left there.                                                             *)
(*                                                                         *)
(* `asked' is the array the program asked for.  The code does not give it  *)
(* in two cases, which `spoilt' records: the replacement setter keeps the  *)
(* tail of a longer array, and resize after clear uncovers old elements.   *)
(***************************************************************************)
EXTENDS Naturals, Sequences

CONSTANTS
  Numbers,    \* element values
  MaxLen      \* bound: length the program asks for

ASSUME NumbersAssumption == 0 \in Numbers /\ MaxLen \in Nat

VARIABLES
  buffer,     \* contents of the typed array's ArrayBuffer
  length,     \* length of the typed array
  asked,      \* history: what the program asked for
  cleared,    \* history: clear was called since the buffer was made
  spoilt      \* history: the code may differ from what was asked

numbersVars == <<buffer, length, asked, cleared, spoilt>>

Arrays == UNION {[1..n -> Numbers] : n \in 0..MaxLen}

View == SubSeq(buffer, 1, length)

NumbersTypeOK ==
  /\ buffer \in Seq(Numbers)
  /\ length \in 0..MaxLen /\ length <= Len(buffer)
  /\ asked \in Seq(Numbers)
  /\ cleared \in BOOLEAN /\ spoilt \in BOOLEAN

NumbersInit ==
  /\ buffer = <<>> /\ length = 0
  /\ asked = <<>>
  /\ cleared = FALSE /\ spoilt = FALSE

Larger(a, b) == IF a >= b THEN a ELSE b

\* The view in a new buffer of n elements.
Moved(n) == [i \in 1..n |-> IF i <= length THEN buffer[i] ELSE 0]

\* Slip: the elements are not copied.
Grown_Empty(n) ==
  IF Len(buffer) < n THEN [i \in 1..Larger(2 * Len(buffer), n) |-> 0] ELSE buffer

\* _ensureLength: the buffer of an array that is to have n elements.
Grown(n) == IF Len(buffer) < n THEN Moved(Larger(2 * Len(buffer), n)) ELSE buffer

Ask(array) == asked' = IF spoilt' THEN <<>> ELSE array

\* A call that ends with a view of n elements over `contents'.
Becomes(contents, n) ==
  /\ buffer' = contents
  /\ length' = n
  /\ cleared' = (cleared /\ Len(contents) = Len(buffer))

add(v) ==
  /\ length < MaxLen
  /\ Becomes([Grown(length + 1) EXCEPT ![length + 1] = v], length + 1)
  /\ UNCHANGED spoilt
  /\ Ask(Append(asked, v))

\* Replacement setter: writes over the beginning of what is there.
set(values) ==
  LET n == Len(values)
      old == Grown(n) IN
  /\ Becomes([i \in DOMAIN old |-> IF i <= n THEN values[i] ELSE old[i]], Larger(n, length))
  /\ spoilt' = (n < length)
  /\ Ask(values)

\* An index beyond the end of a typed array is ignored.
setAt(i, v) ==
  /\ i <= length
  /\ Becomes([buffer EXCEPT ![i] = v], length)
  /\ UNCHANGED spoilt
  /\ asked' = IF spoilt THEN <<>> ELSE [asked EXCEPT ![i] = v]

\* Grows and never shrinks.
resize(n) ==
  /\ Becomes(Grown(n), Larger(n, length))
  /\ spoilt' = (spoilt \/ (cleared /\ length < n /\ n <= Len(buffer)))
  /\ Ask([i \in 1..Larger(n, length) |-> IF i <= length THEN asked[i] ELSE 0])

reserve(n) ==
  /\ Len(buffer) < n
  /\ Becomes(Moved(n), length)
  /\ UNCHANGED <<asked, spoilt>>

clear ==
  /\ length' = 0 /\ cleared' = TRUE
  /\ asked' = <<>> /\ spoilt' = FALSE
  /\ UNCHANGED buffer

\* What setRepeatedNumber adds to the message, element by element.
NumbersWire == View

\* The message is serialized, or its raw array taken, and a new one is made
\* of it: getRepeatedNumber's buffer, or the array, is set as the field.
NumbersCopied ==
  /\ buffer' = NumbersWire /\ length' = Len(NumbersWire)
  /\ cleared' = FALSE
  /\ UNCHANGED <<asked, spoilt>>

NumbersNext ==
  \/ \E v \in Numbers : add(v)
  \/ \E values \in Arrays : set(values)
  \/ \E i \in 1..MaxLen, v \in Numbers : setAt(i, v)
  \/ \E n \in 0..MaxLen : resize(n) \/ reserve(n)
  \/ clear
  \/ NumbersCopied

\* The field, before and after it is sent or copied, is the array the program
\* asked for, whatever the history of its buffer.
NumbersAsAsked == ~spoilt => View = asked
=============================================================================
