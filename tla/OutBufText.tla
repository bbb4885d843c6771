----------------------------- MODULE OutBufText -----------------------------
(***************************************************************************)
(* The text the backends write into the output buffer (src/outbuf.c),     *)
(* cut down to what the buffer tells apart.  A character is a record      *)
(* [c, v]:                                                                 *)
(*   "nl"        the newline at which FOR_ALL_LINES cuts a text;          *)
(*   "P", "E"    the markers "@P@" and "@E@", which fix_stack replaces    *)
(*               when one is a whole line (strcmp);                       *)
(*   "fp"        a frame reference "@FP@v@", v the offset sscanf reads;   *)
(*   "sp"        what sp_format prints for v = stack_size - offset;       *)
(*   other       any other text.                                          *)
(***************************************************************************)
EXTENDS Integers, Sequences

Ch(c) == [c |-> c, v |-> 0]
NL == Ch("nl")
PMark == <<Ch("P")>>
EMark == <<Ch("E")>>
FP(off) == [c |-> "fp", v |-> off]
SP(n) == [c |-> "sp", v |-> n]
IsFP(ch) == ch.c = "fp"

\* The lines a text stands for, as outbuf.h describes them: the text is cut
\* at every newline, and a newline at its end ends the last line without
\* starting another, so the empty text is no line at all.
Lines(s) ==
    LET t == IF s # <<>> /\ s[Len(s)] # NL THEN s \o <<NL>> ELSE s
        cuts == <<0>> \o SelectSeq([i \in 1 .. Len(t) |-> i], LAMBDA i : t[i] = NL)
    IN [k \in 1 .. Len(cuts) - 1 |-> SubSeq(t, cuts[k] + 1, cuts[k + 1] - 1)]

=============================================================================
