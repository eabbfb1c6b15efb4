------------------------- MODULE MCInternalStorage -------------------------
(* Two callers of one key, a queue with room for one command, two power    *)
(* losses.                                                                 *)
EXTENDS InternalStorage

CONSTANTS c1, c2
MCCallers == {c1, c2}
=============================================================================
