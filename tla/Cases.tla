------------------------------- MODULE Cases --------------------------------
(***************************************************************************)
(* The inputs of the pure algorithms: every sequence over an algorithm's   *)
(* alphabet, up to a length.  A behaviour picks the algorithm and lengthens*)
(* its input; the modules that extend this one state what the algorithm    *)
(* makes of every input.                                                   *)
(***************************************************************************)
EXTENDS Integers, Sequences

CONSTANTS
  Alphabet,   \* the items of each algorithm's input
  MaxItems    \* bound: the length of each algorithm's input

ASSUME CasesBound == DOMAIN MaxItems = DOMAIN Alphabet /\ \A a \in DOMAIN MaxItems : MaxItems[a] \in Nat

VARIABLES algorithm, input

vars == <<algorithm, input>>

Init == algorithm \in DOMAIN Alphabet /\ input = <<>>

Lengthen(x) ==
  /\ Len(input) < MaxItems[algorithm]
  /\ input' = Append(input, x)
  /\ UNCHANGED algorithm

Next == \E x \in Alphabet[algorithm] : Lengthen(x)

Spec == Init /\ [][Next]_vars
=============================================================================
