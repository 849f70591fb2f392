------------------------------- MODULE MCApp -------------------------------
(***************************************************************************)
(* The application with the two models its settings screen offers.  The    *)
(* float32 model takes exactly the samples the service passes and has two  *)
(* classes, one of them without a command; the int8 model takes fewer      *)
(* samples than it is given.                                               *)
(***************************************************************************)
EXTENDS App

MCFile == {"float32", "int8"}
MCInBytes  == [f \in MCFile |-> IF f = "float32" THEN 4 ELSE 2]
MCOutBytes == [f \in MCFile |-> IF f = "float32" THEN 8 ELSE 5]
=============================================================================
