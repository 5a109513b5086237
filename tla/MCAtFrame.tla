------------------------------ MODULE MCAtFrame ------------------------------
(* Two tasks that send two commands between them.                         *)
EXTENDS AtFrame
=============================================================================
