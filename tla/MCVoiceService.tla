--------------------------- MODULE MCVoiceService ---------------------------
(***************************************************************************)
(* VoiceService with the two model types the settings screen offers, or    *)
(* with all three that the service knows.  The float models take exactly   *)
(* the samples the service passes, the int8 one fewer, and the int8 output *)
(* is no whole number of floats.                                           *)
(***************************************************************************)
EXTENDS VoiceService

MCFile == {"float32", "int8"}
MCInBytes  == [f \in MCFile |-> IF f = "float32" THEN 4 ELSE 2]
MCOutBytes == [f \in MCFile |-> IF f = "float32" THEN 8 ELSE 5]

MCAllFiles == {"float32", "float16", "int8"}
MCAllInBytes  == [f \in MCAllFiles |-> IF f = "int8" THEN 2 ELSE 4]
MCAllOutBytes == [f \in MCAllFiles |-> IF f = "int8" THEN 5 ELSE 8]
=============================================================================
