------------------------------ MODULE MCOutBuf ------------------------------
(***************************************************************************)
(* Five lines of heap, and the lines a function body writes: plain code,  *)
(* a frame reference as loc_str prints a stack slot (after other text),   *)
(* and gen_return's "@E@".  Stack sizes 0 and 4: an empty frame has an    *)
(* empty prologue and epilogue, so changeln removes the marker line.      *)
(***************************************************************************)
EXTENDS OutBuf

MCNodes == 1 .. 5
MCCode == {Plain, EMark, <<Ch("a"), FP(2)>>}
MCSizes == {0, 4}

=============================================================================
