------------------------------ MODULE MCReads ------------------------------
(* Three keys; as strings, "10" comes before "2" and "5".                   *)
EXTENDS Reads
Strings == <<10, 2, 5>>
=============================================================================
