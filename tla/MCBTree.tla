------------------------------ MODULE MCBTree ------------------------------
(* Small trees of small orders: seven keys make order 3 three levels deep.  *)
EXTENDS BTree
=============================================================================
