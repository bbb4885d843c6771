------------------------------- MODULE OutBuf -------------------------------
(***************************************************************************)
(* The output buffer of src/outbuf.c: a doubly linked list of lines,      *)
(* each malloc'd on its own, and the fixed tmpbuf that write collects     *)
(* text in until writeln or flushbuf makes lines of it.  The backends     *)
(* write every function into it, and end_func patches it with fix_stack,  *)
(* which walks the list and replaces lines with changeln (removeln, then  *)
(* insertln after the removed line's prev) before writeout prints it.     *)
(*                                                                         *)
(* The heap is mem, a function from Nodes (the addresses xmalloc may      *)
(* return) to [prev, next, str]; used is the set xmalloc has handed out   *)
(* and free has not taken back.  No code reads a line after freeing it,  *)
(* so a freed node's fields are forgotten (FreedLine).                     *)
(***************************************************************************)
EXTENDS OutBufText, SequencesExt, FiniteSets

CONSTANTS Nodes,        \* addresses of lines; 0 is NULL
          Code,         \* the lines gen_code and gen_return writeln
          Sizes,        \* the stack sizes end_func passes to fix_stack
          TMPBUF_SIZE,  \* the size of tmpbuf, in characters of OutBufText
          MaxOut        \* no function starts once writeout has printed this many lines

Null == 0

FreedLine == [prev |-> Null, next |-> Null, str |-> <<>>]

\* xmalloc: the lowest address not handed out
xmalloc(b) == CHOOSE n \in Nodes \ b.used : \A m \in Nodes \ b.used : n <= m

\* do_appendln ignores the line FOR_ALL_LINES passes it
do_appendln(b, dummy, str) ==
    LET nl == xmalloc(b)
    IN [b EXCEPT !.mem[nl] = [prev |-> b.tail, next |-> Null, str |-> str],
                 !.mem = IF b.tail # Null THEN [@ EXCEPT ![b.tail].next = nl] ELSE @,
                 !.head = IF b.tail = Null THEN nl ELSE @,
                 !.tail = nl,
                 !.used = @ \cup {nl}]

\* mutant: the line after the new one keeps its old prev
do_insertln_keeping_prev(b, line, str) ==
    LET nl == xmalloc(b)
        nxt == IF line # Null THEN b.mem[line].next ELSE b.head
    IN [b EXCEPT !.mem[nl] = [prev |-> line, next |-> nxt, str |-> str],
                 !.mem = IF line # Null THEN [@ EXCEPT ![line].next = nl] ELSE @,
                 !.head = IF line = Null THEN nl ELSE @,
                 !.tail = IF line = b.tail THEN nl ELSE @,
                 !.used = @ \cup {nl}]

\* a new line after line, or first when line is NULL
do_insertln(b, line, str) ==
    LET nl == xmalloc(b)
        nxt == IF line # Null THEN b.mem[line].next ELSE b.head
    IN [b EXCEPT !.mem[nl] = [prev |-> line, next |-> nxt, str |-> str],
                 !.mem = IF line # Null THEN [@ EXCEPT ![line].next = nl] ELSE @,
                 !.head = IF line = Null THEN nl ELSE @,
                 !.tail = IF line = b.tail THEN nl ELSE @,
                 !.mem = IF nxt # Null THEN [@ EXCEPT ![nxt].prev = nl] ELSE @,
                 !.used = @ \cup {nl}]

\* FOR_ALL_LINES: func on each piece of str up to a newline, then line
\* moves on to the line after it (the head when it was NULL)
RECURSIVE for_all_lines(_, _, _, _), for_all_lines_next(_, _, _, _)
for_all_lines(b, line, str, insert) ==
    IF str = <<>> THEN b
    ELSE LET i == SelectInSeq(str, LAMBDA ch : ch = NL)
             cur == IF i = 0 THEN str ELSE SubSeq(str, 1, i - 1)
         IN for_all_lines_next(IF insert THEN do_insertln(b, line, cur) ELSE do_appendln(b, line, cur),
                               line, IF i = 0 THEN <<>> ELSE SubSeq(str, i + 1, Len(str)), insert)

for_all_lines_next(b, line, rest, insert) ==
    for_all_lines(b, IF line # Null THEN b.mem[line].next ELSE b.head, rest, insert)

appendln(b, str) == for_all_lines(b, Null, str, FALSE)

insertln(b, line, str) == for_all_lines(b, line, str, TRUE)

\* mutant: the tail stays on the line removed
removeln_keeping_tail(b, line) ==
    LET p == b.mem[line].prev
        n == b.mem[line].next
    IN [b EXCEPT !.mem = IF p # Null THEN [@ EXCEPT ![p].next = n] ELSE @,
                 !.mem = IF n # Null THEN [@ EXCEPT ![n].prev = p] ELSE @,
                 !.head = IF @ = line THEN n ELSE @,
                 !.mem[line] = FreedLine,
                 !.used = @ \ {line}]

removeln(b, line) ==
    LET p == b.mem[line].prev
        n == b.mem[line].next
    IN [b EXCEPT !.mem = IF p # Null THEN [@ EXCEPT ![p].next = n] ELSE @,
                 !.mem = IF n # Null THEN [@ EXCEPT ![n].prev = p] ELSE @,
                 !.head = IF @ = line THEN n ELSE @,
                 !.tail = IF @ = line THEN p ELSE @,
                 !.mem[line] = FreedLine,
                 !.used = @ \ {line}]

\* prev is read before removeln frees the line
changeln(b, line, str) == insertln(removeln(b, line), b.mem[line].prev, str)

\* the lines from head, following next; fuel stops the walk on a cycle
RECURSIVE walk(_, _, _)
walk(b, line, fuel) ==
    IF line = Null \/ fuel = 0 THEN <<>> ELSE <<line>> \o walk(b, b.mem[line].next, fuel - 1)

ListNodes(b) == walk(b, b.head, Cardinality(Nodes) + 1)

ListText(b) == LET L == ListNodes(b) IN [i \in DOMAIN L |-> b.mem[L[i]].str]

\* one line of fix_stack's loop: the markers are replaced, and the first
\* "@FP@off@" of any other line is printed as stack_size - off
fix_line(b, line, n, pro, epi) ==
    LET s == b.mem[line].str
        i == SelectInSeq(s, IsFP)
    IN CASE s = PMark -> changeln(b, line, pro)
         [] s = EMark -> changeln(b, line, epi)
         [] i # 0 -> changeln(b, line, ReplaceAt(s, i, SP(n - s[i].v)))
         [] OTHER -> b

\* next is taken before the line is changed (and freed)
RECURSIVE fix_from(_, _, _, _, _)
\* mutant: next read after changeln has freed the line
fix_from_reading_next_late(b, line, n, pro, epi) ==
    IF line = Null THEN b
    ELSE LET b2 == fix_line(b, line, n, pro, epi)
         IN fix_from(b2, b2.mem[line].next, n, pro, epi)

fix_from(b, line, n, pro, epi) ==
    IF line = Null THEN b
    ELSE fix_from(fix_line(b, line, n, pro, epi), b.mem[line].next, n, pro, epi)

fix_stack(b, n, pro, epi) == fix_from(b, b.head, n, pro, epi)

\* the lines clearbuf reaches from head are freed
clearbuf(b) ==
    LET freed == ToSet(ListNodes(b))
    IN [b EXCEPT !.mem = [n \in Nodes |-> IF n \in freed THEN FreedLine ELSE @[n]],
                 !.used = @ \ freed, !.head = Null, !.tail = Null, !.tmpbuf = <<>>]

write(b, s) == [b EXCEPT !.tmpbuf = @ \o s]

flushbuf(b) == IF b.tmpbuf # <<>> THEN [appendln(b, b.tmpbuf) EXCEPT !.tmpbuf = <<>>] ELSE b

\* end_func's prologue and epilogue: "sub esp, n" and "add esp, n", or
\* empty strings when the frame is empty
Prologue(n) == IF n > 0 THEN <<Ch("sub")>> ELSE <<>>
Epilogue(n) == IF n > 0 THEN <<Ch("add")>> ELSE <<>>

-----------------------------------------------------------------------------
(***************************************************************************)
(* The buffer is driven by the backends, and both call it in one order    *)
(* for every function (pc is where the caller is):                        *)
(*   "start"    start_func's clearbuf;                                    *)
(*   "header"   the header: the quadr backend writes it in parts with     *)
(*              write and ends it with writeln, the i386 one writes       *)
(*              whole lines; then writeln("@P@");                          *)
(*   "body"     gen_code's writeln of every instruction, gen_return's     *)
(*              writeln("@E@"); then end_func's fix_stack;                *)
(*   "fixed"    end_func's data lines (i386), then writeout;              *)
(*   "written"  end_func's clearbuf.                                       *)
(***************************************************************************)
VARIABLES buf,  \* outbuf_t and the heap: [head, tail, tmpbuf, mem, used]
          out,  \* the lines writeout has printed to the output file
          pc    \* where the backend driving the buffer is

vars == <<buf, out, pc>>

\* a line of text with no marker and no frame reference
Plain == <<Ch("a")>>

Init ==
    /\ buf = [head |-> Null, tail |-> Null, tmpbuf |-> <<>>, used |-> {},
              mem |-> [n \in Nodes |-> FreedLine]]
    /\ out = <<>>
    /\ pc = "start"

\* write and writeln xabort when tmpbuf would overflow: the compiler stops
Fits(s) == Len(buf.tmpbuf) + Len(s) < TMPBUF_SIZE

\* the heap is large enough for the lines a step makes
Room(s) == Cardinality(Nodes \ buf.used) >= Len(Lines(buf.tmpbuf \o s))

Write(s) == Fits(s) /\ buf' = write(buf, s) /\ UNCHANGED out

Writeln(s) == Fits(s) /\ Room(s) /\ buf' = flushbuf(write(buf, s)) /\ UNCHANGED out

\* mutant: an empty frame is taken to need no patching
FixStack_skipping_empty_frame(n) ==
    /\ buf' = IF n > 0 THEN fix_stack(buf, n, Prologue(n), Epilogue(n)) ELSE buf
    /\ UNCHANGED out

FixStack(n) == buf' = fix_stack(buf, n, Prologue(n), Epilogue(n)) /\ UNCHANGED out

WriteOut == out' = out \o ListText(buf) /\ UNCHANGED buf

ClearBuf == buf' = clearbuf(buf) /\ UNCHANGED out

\* write or writeln past the end of tmpbuf: xabort ends the compiler
Overflow(s) == ~Fits(s) /\ pc' = "aborted" /\ UNCHANGED <<buf, out>>

\* start_func: clearbuf, the header, then "@P@" on a line of its own;
\* MaxOut bounds the lines printed before the last function starts
StartFunc ==
    /\ pc = "start" /\ Len(out) < MaxOut /\ ClearBuf /\ pc' = "header"

\* the header is one line (quadr, main adds "$.i0 := 0") or two (i386)
MaxHeader == 2

Header ==
    /\ pc = "header"
    /\ \/ Write(Plain) /\ UNCHANGED pc
       \/ Cardinality(buf.used) < MaxHeader /\ Writeln(Plain) /\ UNCHANGED pc
       \/ Overflow(Plain)
       \/ buf.used # {} /\ buf.tmpbuf = <<>> /\ Writeln(PMark) /\ pc' = "body"

\* gen_code and gen_return: every line of the body is a writeln
Body ==
    /\ pc = "body"
    /\ \/ \E s \in Code : Writeln(s) /\ UNCHANGED pc
       \/ \E n \in Sizes : FixStack(n) /\ pc' = "fixed"

\* end_func after fix_stack: data lines, writeout, clearbuf
EndFunc ==
    \/ pc = "fixed" /\ Writeln(Plain) /\ UNCHANGED pc
    \/ pc = "fixed" /\ WriteOut /\ pc' = "written"
    \/ pc = "written" /\ ClearBuf /\ pc' = "start"

\* the compiler has stopped: after its last function, or in xabort
Terminating ==
    /\ \/ pc = "start" /\ Len(out) >= MaxOut
       \/ pc = "aborted"
    /\ UNCHANGED vars

Next == StartFunc \/ Header \/ Body \/ EndFunc \/ Terminating

Spec == Init /\ [][Next]_vars

-----------------------------------------------------------------------------
Ptr(b) == b.used \cup {Null}

\* Every pointer the buffer holds names a line that is allocated: head,
\* tail, and the prev and next of every allocated line.
TypeOK ==
    /\ buf.used \subseteq Nodes
    /\ buf.head \in Ptr(buf) /\ buf.tail \in Ptr(buf)
    /\ \A n \in buf.used : buf.mem[n].prev \in Ptr(buf) /\ buf.mem[n].next \in Ptr(buf)
    /\ Len(buf.tmpbuf) < TMPBUF_SIZE

\* The list stays a well-formed doubly linked list through every
\* appendln, insertln, removeln and changeln, fix_stack's included: every
\* allocated line is reached from head exactly once, the walk ends at
\* tail, and every prev is the line whose next leads to it.  A line lost
\* from the list is a line writeout drops and clearbuf never frees.
ListWellFormed ==
    LET L == ListNodes(buf)
    IN /\ Len(L) = Cardinality(buf.used) /\ ToSet(L) = buf.used
       /\ buf.tail = IF L = <<>> THEN Null ELSE L[Len(L)]
       /\ \A i \in DOMAIN L : buf.mem[L[i]].prev = IF i = 1 THEN Null ELSE L[i - 1]

\* The pointer list implements the buffer outbuf.h describes: read from
\* head, its lines are the abstract lines, and each call changes them as
\* the abstract call does; fix_stack, which walks the list while changeln
\* frees and allocates lines under it, patches every marker and every
\* frame reference.
\* Nothing writeout prints is left for fix_stack: no printed line is a
\* "@P@" or "@E@" marker and none holds a frame reference.  This needs
\* fix_stack's walk to reach every line while changeln frees the line
\* it stands on, and end_func to write out only after fix_stack.
NoMarkerPrinted ==
    \A i \in DOMAIN out :
        /\ out[i] \notin {PMark, EMark}
        /\ \A j \in DOMAIN out[i] : ~IsFP(out[i][j])

Abs == INSTANCE OutBufLines WITH lines <- ListText(buf), pending <- buf.tmpbuf,
            Texts <- Code \cup {Plain, PMark}, Frames <- {Prologue(n) : n \in Sizes} \cup {Epilogue(n) : n \in Sizes}
Implements == Abs!Spec

=============================================================================
