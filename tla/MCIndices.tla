------------------------------ MODULE MCIndices ------------------------------
(* An array may hold a secondary key twice.                                  *)
EXTENDS Indices
SingleKeys == {<<>>, <<0>>, <<2>>}
ArrayKeys == {<<>>, <<1, 1>>, <<0, 2>>}
=============================================================================
