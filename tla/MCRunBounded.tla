---------------------------- MODULE MCRunBounded ----------------------------
(* Blocks of two bytes; stdout outgrows its limit by more than a block,    *)
(* and stderr the pipe.                                                    *)
EXTENDS RunBounded

MCMaxBytes == [s \in Streams |-> IF s = "stdout" THEN 4 ELSE 2]
=============================================================================
