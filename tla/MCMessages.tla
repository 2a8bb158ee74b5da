------------------------------ MODULE MCMessages ------------------------------
EXTENDS Messages, TLC

CONSTANTS s1, l1, l2, l3

(* The classes are given unsorted; the shorter holds one small parameter   *)
(* and has one buffer for three messages.                                  *)
MCStock == << [length |-> 64, buffers |-> <<l1, l2, l3>>],
              [length |-> 32, buffers |-> <<s1>>] >>

MCCodings == {Pc8, Pc16}

(* A byte and a double word with the same code, and a larger code whose    *)
(* data look like a parameter.                                             *)
MCParam == { [code |-> 1, data |-> <<7>>],
             [code |-> 1, data |-> <<8, 0, 0, 0>>],
             [code |-> 2, data |-> <<1, 1>>] }

(* Operators do not tell buffers of a class apart.                         *)
MCSymmetry == Permutations({l1, l2, l3})
=============================================================================
