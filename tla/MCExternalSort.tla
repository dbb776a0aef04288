--------------------------- MODULE MCExternalSort ---------------------------
(* Inputs of one to four blocks, full and not, with equal edges.              *)
EXTENDS ExternalSort

Small == {<<>>, <<2, 1>>, <<3, 1, 2>>, <<4, 2, 3, 1, 2>>, <<5, 1, 4, 2, 3, 2, 1>>}
=============================================================================
