----------------------------- MODULE MCFfiPlugin -----------------------------
(***************************************************************************)
(* FfiPlugin on a small instance: a "float" model with three scores, an    *)
(* "int8" one whose output is not a whole number of floats, and a "tiny"   *)
(* one whose output is smaller than a float; lengths that are too short,   *)
(* exact and too long for each.                                            *)
(***************************************************************************)
EXTENDS FfiPlugin

MCFile == {"float", "int8", "tiny"}
MCInBytes  == [f \in MCFile |-> CASE f = "float" -> 8 [] f = "int8" -> 4
                                  [] f = "tiny" -> 4]
MCOutBytes == [f \in MCFile |-> CASE f = "float" -> 12 [] f = "int8" -> 9
                                  [] f = "tiny" -> 3]
MCLength == {-1, 0, 1, 2, 3, 4, 5}
MCScore == {1, 2, 3}
=============================================================================
