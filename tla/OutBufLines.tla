---------------------------- MODULE OutBufLines ----------------------------
(***************************************************************************)
(* What src/outbuf.h promises of an output buffer: a sequence of lines    *)
(* and the text written since the last complete line.                     *)
(*   write      -- adds text after the pending text;                      *)
(*   writeln    -- adds text, then the pending text becomes lines;        *)
(*   fix_stack  -- "fixes stack references given the maximal size of the  *)
(*                 stack": a line "@P@" becomes the prologue's lines, a   *)
(*                 line "@E@" the epilogue's, and every frame reference   *)
(*                 "@FP@off@" is printed as stack_size - off (spec 4.9:   *)
(*                 "every frame-relative reference ... patched");         *)
(*   writeout   -- prints the lines to the output file (out);             *)
(*   clearbuf   -- forgets the lines and the pending text.                *)
(***************************************************************************)
EXTENDS OutBufText, SequencesExt

CONSTANTS Texts,   \* the texts write and writeln are given
          Sizes,   \* the stack sizes fix_stack is given
          Frames   \* the prologues and epilogues fix_stack is given

VARIABLES lines, pending, out

Patched(l, n) == [i \in DOMAIN l |-> IF IsFP(l[i]) THEN SP(n - l[i].v) ELSE l[i]]

Fixed(l, n, pro, epi) ==
    CASE l = PMark -> Lines(pro)
      [] l = EMark -> Lines(epi)
      [] OTHER -> <<Patched(l, n)>>

Init == lines = <<>> /\ pending = <<>> /\ out = <<>>

Write(s) == pending' = pending \o s /\ UNCHANGED <<lines, out>>

Writeln(s) ==
    /\ lines' = lines \o Lines(pending \o s)
    /\ pending' = <<>>
    /\ UNCHANGED out

FixStack(n, pro, epi) ==
    /\ lines' = FlattenSeq([i \in DOMAIN lines |-> Fixed(lines[i], n, pro, epi)])
    /\ UNCHANGED <<pending, out>>

WriteOut == out' = out \o lines /\ UNCHANGED <<lines, pending>>

ClearBuf == lines' = <<>> /\ pending' = <<>> /\ UNCHANGED out

Next ==
    \/ \E s \in Texts : Write(s) \/ Writeln(s)
    \/ \E n \in Sizes, pro, epi \in Frames : FixStack(n, pro, epi)
    \/ WriteOut
    \/ ClearBuf

Spec == Init /\ [][Next]_<<lines, pending, out>>

=============================================================================
