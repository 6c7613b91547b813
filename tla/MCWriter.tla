------------------------------- MODULE MCWriter -------------------------------
(* Writer.tla on two flows, three writes and two flushes.                  *)
EXTENDS Writer
CONSTANTS f1, f2
MCFlows == {f1, f2}
=============================================================================
