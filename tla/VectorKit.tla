------------------------------ MODULE VectorKit ------------------------------
(***************************************************************************)
(* What the fixture generators of fixturegen/ share: the values that go     *)
(* into a vector, and the vector itself.                                    *)
(*                                                                         *)
(* A text is [t, up]: t is a tuple that stands for what the text says, up   *)
(* whether its letters are upper case.  Hashes and signatures are perfect:  *)
(* a hash is the tuple of what was hashed, a signature the record of the    *)
(* key and of the bytes signed.                                             *)
(*                                                                         *)
(* A vector is one directory the generators write:                          *)
(*   family, id   the generator's family of vectors and the number          *)
(*   doc          input.json, as the family's verifier reads it             *)
(*   exit, codes  expects of manifest.yaml, codes as a set                  *)
(*   caps         required_capabilities, path -> set of values that will do *)
(*   outputs      expected.json's outputs                                   *)
(*   catches      the faulty SDKs the notes or comments of the fixture say  *)
(*                it catches                                                *)
(***************************************************************************)
EXTENDS Naturals, Sequences, Runner

Text(t) == [t |-> t, up |-> FALSE]

\* str.upper() changes letters only: a run of one digit stays as it is.
Digits == {"0", "1", "2", "3"}
Upper(x) ==
  IF \A i \in DOMAIN x.t : x.t[i] \in Digits THEN x ELSE [x EXCEPT !.up = TRUE]
Lower(x) == [x EXCEPT !.up = FALSE]

SameLetters(x, y, lowers) ==
  IF lowers THEN x.t = y.t ELSE x = y

\* A value of an `outputs` object, as Runner compares it.
Fact(x)  == [str |-> TRUE, text |-> x.t, upper |-> x.up]
NullFact == [str |-> FALSE, text |-> << >>, upper |-> FALSE]

NoCaps == [path \in {} |-> {}]
NoFacts == [key \in {} |-> NullFact]

=============================================================================
