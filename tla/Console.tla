------------------------------- MODULE Console -------------------------------
(***************************************************************************)
(* The console and the serial port (kernel/console.c, uart.c): keys come   *)
(* in through the interrupt handler, which edits the line and echoes;      *)
(* readers take lines; writers send characters, one per transmit           *)
(* interrupt; the kernel's own messages (printk) are sent without          *)
(* interrupts, as the echo is.                                             *)
(***************************************************************************)
EXTENDS Integers, Sequences, SequencesExt, FiniteSetsExt

CONSTANTS Readers, Writers,
          Keys,            \* what can be typed
          INPUT_BUF_SIZE,
          UINT,            \* the indices are unsigned integers modulo UINT
          Start,           \* characters typed and read before
          Batch,           \* characters consolewrite copies at a time
          Fifo,            \* characters the transmitter holds
          RxFifo,          \* characters the receiver holds
          Budgets          \* how many keys, of which, how many messages, calls of read and
                           \*   of write, and their n: [keys, of, prints, reads, writes, n]

ASSUME ConsoleAssumption == UINT % INPUT_BUF_SIZE = 0 /\ UINT > INPUT_BUF_SIZE

VARIABLES cons,            \* buffer and indices
          rx, thr, irq,    \* the port: characters received, to be sent, and its interrupt
          tx_busy,
          handler, echo,   \* uartintr: where it is, and what it has to echo
          sync,            \* who has seen the transmitter idle in uartputc_sync
          rd, wr, killed,
          left,            \* what is left of the budget
          screen, sent,    \* what the echo has drawn, and what was sent for the writers
          tty              \* what a terminal should have: see Type

input == <<cons, rd, killed>>
output == <<tx_busy, wr>>
vars == <<input, output, rx, thr, irq, handler, echo, sync, left, screen, sent, tty>>

NoRead == [pc |-> "idle", n |-> 0, got |-> <<>>, eof |-> FALSE]
NoWrite == [pc |-> "idle", i |-> 0, upto |-> 0, n |-> 0]

Init ==
    /\ cons = [r |-> Start % UINT, w |-> Start % UINT, e |-> Start % UINT, buf |-> [i \in 0..INPUT_BUF_SIZE - 1 |-> "nul"]]
    /\ rx = <<>> /\ thr = <<>> /\ irq = FALSE /\ tx_busy = FALSE
    /\ handler = "out" /\ echo = <<>> /\ sync = {}
    /\ rd = [p \in Readers |-> NoRead] /\ wr = [p \in Writers |-> NoWrite] /\ killed = {}
    /\ left \in Budgets /\ screen = <<<<>>, FALSE>> /\ sent = <<>>
    /\ tty = [ready |-> <<>>, line |-> <<>>, screen |-> <<>>]

(***************************************************************************)
(* The serial port (external).  An interrupt is pending when a character   *)
(* has come in and when the transmitter has become idle.  A character      *)
(* written into a full transmitter is lost.                                *)
(***************************************************************************)
press(c) ==
    /\ left.keys > 0 /\ c \in left.of /\ Len(rx) < RxFifo /\ left' = [left EXCEPT !.keys = @ - 1]
    /\ rx' = Append(rx, c) /\ irq' = TRUE
    /\ UNCHANGED <<input, output, thr, handler, echo, sync, screen, sent, tty>>

transmit ==
    /\ thr # <<>> /\ thr' = Tail(thr)
    /\ irq' = (irq \/ Len(thr) = 1)
    /\ sent' = IF Head(thr)[1] \in Writers THEN Append(sent, Head(thr)) ELSE sent
    /\ UNCHANGED <<input, output, rx, handler, echo, sync, left, screen, tty>>

\* A terminal scr = <<text, erasing>> shows c: "bs", " ", "bs" erases one character.
Shows(scr, c) == IF c = "bs" THEN <<scr[1], ~scr[2]>>
                 ELSE IF scr[2] THEN <<Front(scr[1]), TRUE>> ELSE <<Append(scr[1], c), FALSE>>

WriteReg(c) == thr' = IF Len(thr) < Fifo THEN Append(thr, c) ELSE thr

(***************************************************************************)
(* consoleintr: the effect of a key on the buffer, and what is screen.     *)
(***************************************************************************)
Size == INPUT_BUF_SIZE
Used == (cons.e - cons.r) % UINT
Edited == (cons.e - cons.w) % UINT

\* How far ^U goes back: to the end of the line before.
KillCount == Max({k \in 0..Edited : \A j \in 1..k : cons.buf[(cons.e - j) % Size] # "nl"})

consputc(c) == IF c = "BACKSPACE" THEN <<"bs", " ", "bs">> ELSE <<c>>
Repeat(k) == FlattenSeq([i \in 1..k |-> consputc("BACKSPACE")])

\* Slots outside the window are zeroed, so that equal situations are equal states.
Cleared(b) == [b EXCEPT !.buf = [i \in DOMAIN b.buf |->
                  IF \E k \in 1..((b.e - b.r) % UINT) : (b.r + k - 1) % Size = i THEN b.buf[i] ELSE "nul"]]

Full_only(c, e) == c \in {"nl", "^D"}

\* The line is handed over to the readers.
Full(c, e) == c \in {"nl", "^D"} \/ (e - cons.r) % UINT = Size

Back(k) == cons' = Cleared([cons EXCEPT !.e = (@ - k) % UINT]) /\ echo' = Repeat(k) /\ UNCHANGED rd

WakeReaders == [p \in Readers |-> IF rd[p].pc = "asleep" THEN [rd[p] EXCEPT !.pc = "run"] ELSE rd[p]]

Store(c) ==
    LET e == (cons.e + 1) % UINT IN
    /\ cons' = [cons EXCEPT !.buf[cons.e % Size] = c, !.e = e, !.w = IF Full(c, e) THEN e ELSE @]
    /\ rd' = IF Full(c, e) THEN WakeReaders ELSE rd
    /\ echo' = consputc(c)

consoleintr(c) ==
    CASE c = "^U" -> Back(KillCount)
      [] c = "^H" -> Back(IF cons.e # cons.w THEN 1 ELSE 0)
      [] OTHER -> IF c # "nul" /\ Used < Size THEN Store(IF c = "cr" THEN "nl" ELSE c)
                  ELSE UNCHANGED <<cons, rd>> /\ echo' = <<>>

(***************************************************************************)
(* The reference: a terminal has a line, which is edited until it is       *)
(* handed over at its end or when the terminal is full, what was handed    *)
(* over, and a screen that shows every character that was not erased.      *)
(***************************************************************************)
Erase(t, k) == [t EXCEPT !.line = SubSeq(@, 1, Len(@) - k), !.screen = SubSeq(@, 1, Len(@) - k)]

Accept(t, c) ==
    LET n == Len(t.ready) + Len(t.line) IN
    IF n = Size THEN t
    ELSE IF c \in {"nl", "^D"} \/ n + 1 = Size
    THEN [ready |-> t.ready \o Append(t.line, c), line |-> <<>>, screen |-> Append(t.screen, c)]
    ELSE [t EXCEPT !.line = Append(@, c), !.screen = Append(@, c)]

Type(t, c) == CASE c = "^U" -> Erase(t, Len(t.line))
                [] c = "^H" -> Erase(t, Min({1, Len(t.line)}))
                [] c = "nul" -> t
                [] OTHER -> Accept(t, IF c = "cr" THEN "nl" ELSE c)

(***************************************************************************)
(* uartintr.  It acknowledges, looks whether the transmitter is idle, and  *)
(* handles what has come in.  It has cons.lock until the echo is out.      *)
(***************************************************************************)
Woken_none == wr

Woken == [p \in Writers |-> IF wr[p].pc = "asleep" THEN [wr[p] EXCEPT !.pc = "send"] ELSE wr[p]]

uartintr ==
    /\ irq /\ handler = "out"
    /\ irq' = FALSE /\ handler' = "rx"
    /\ IF thr = <<>> THEN tx_busy' = FALSE /\ wr' = Woken ELSE UNCHANGED output
    /\ UNCHANGED <<input, rx, thr, echo, sync, left, screen, sent, tty>>

uartgetc ==
    /\ handler = "rx"
    /\ \/ rx = <<>> /\ handler' = "out" /\ UNCHANGED <<cons, rd, rx, echo, tty>>
       \/ rx # <<>> /\ consoleintr(Head(rx)) /\ tty' = Type(tty, Head(rx)) /\ rx' = Tail(rx) /\ handler' = IF echo' = <<>> THEN "rx" ELSE "echo"
    /\ UNCHANGED <<killed, output, thr, irq, sync, left, screen, sent>>

(***************************************************************************)
(* uartputc_sync, which the echo and printk use: wait until the            *)
(* transmitter is idle, then write.                                        *)
(***************************************************************************)
Wants(who) == IF who = "echo" THEN handler = "echo" ELSE left.prints > 0

sync_idle(who) ==
    /\ Wants(who) /\ who \notin sync /\ thr = <<>>
    /\ sync' = sync \cup {who}
    /\ UNCHANGED <<input, output, rx, thr, irq, handler, echo, left, screen, sent, tty>>

sync_write(who) ==
    /\ who \in sync /\ sync' = sync \ {who}
    /\ IF who = "echo"
       THEN /\ WriteReg(<<"echo", 0>>) /\ echo' = Tail(echo) /\ screen' = Shows(screen, Head(echo))
            /\ handler' = IF Len(echo) = 1 THEN "rx" ELSE "echo"
            /\ UNCHANGED left
       ELSE WriteReg(<<"kernel", 0>>) /\ left' = [left EXCEPT !.prints = @ - 1] /\ UNCHANGED <<echo, screen, handler>>
    /\ UNCHANGED <<input, output, rx, irq, sent, tty>>

(***************************************************************************)
(* consolewrite copies a batch, or fails to; uartwrite sends it, one       *)
(* character whenever tx_busy is clear.                                    *)
(***************************************************************************)
Rest == <<input, rx, irq, handler, echo, sync, screen, sent, tty>>

call_write(p) ==
    /\ wr[p].pc = "idle" /\ left.writes > 0 /\ left' = [left EXCEPT !.writes = @ - 1]
    /\ wr' = [wr EXCEPT ![p] = [NoWrite EXCEPT !.pc = "copy", !.n = left.n]]
    /\ UNCHANGED <<Rest, thr, tx_busy>>

consolewrite(p) ==
    /\ wr[p].pc = "copy"
    /\ \/ wr[p].i = wr[p].n /\ wr' = [wr EXCEPT ![p].pc = "done"]
       \/ wr[p].i < wr[p].n /\ wr' = [wr EXCEPT ![p].pc = "send", ![p].upto = Min({wr[p].i + Batch, wr[p].n})]
       \/ wr[p].i < wr[p].n /\ wr' = [wr EXCEPT ![p].pc = "done"]
    /\ UNCHANGED <<Rest, left, thr, tx_busy>>

Idle_busy == TRUE

Idle == ~tx_busy

uartwrite(p) ==
    /\ wr[p].pc = "send"
    /\ \/ ~Idle /\ wr' = [wr EXCEPT ![p].pc = "asleep"] /\ UNCHANGED <<thr, tx_busy>>
       \/ /\ Idle /\ WriteReg(<<p, wr[p].i + 1>>) /\ tx_busy' = TRUE
          /\ wr' = [wr EXCEPT ![p].i = @ + 1, ![p].pc = IF wr[p].i + 1 = wr[p].upto THEN "copy" ELSE "asleep"]
    /\ UNCHANGED <<Rest, left>>

(***************************************************************************)
(* consoleread holds cons.lock but when it sleeps: it takes what there is, *)
(* up to n characters, a newline or ^D.                                    *)
(***************************************************************************)
Others == <<output, rx, thr, irq, handler, echo, sync, screen, sent>>

call_read(p) ==
    /\ rd[p].pc \in {"idle", "done"} /\ left.reads > 0 /\ left' = [left EXCEPT !.reads = @ - 1]
    /\ rd' = [rd EXCEPT ![p] = [NoRead EXCEPT !.pc = "run", !.n = left.n]]
    /\ UNCHANGED <<cons, killed, tty, Others>>

Window(a, b) == [k \in 1..((b - a) % UINT) |-> cons.buf[(a + k - 1) % Size]]

\* A ^D behind other characters stays for the next read.
Saved(got) == got # <<>>

consoleread(p) ==
    /\ rd[p].pc = "run" /\ handler # "echo"
    /\ LET A == Window(cons.r, cons.w)
           most == Min({rd[p].n - Len(rd[p].got), Len(A)})
           ends == {k \in 1..most : A[k] \in {"nl", "^D"}}
           k == IF ends = {} THEN most ELSE Min(ends)
           eof == ends # {} /\ A[k] = "^D"
           got == rd[p].got \o SubSeq(A, 1, IF eof THEN k - 1 ELSE k)
           n == IF eof /\ Saved(got) THEN k - 1 ELSE k
       IN  /\ cons' = Cleared([cons EXCEPT !.r = (@ + n) % UINT])
           /\ tty' = [tty EXCEPT !.ready = SubSeq(@, n + 1, Len(@))]
           /\ rd' = [rd EXCEPT ![p].got = got, ![p].eof = eof,
                               ![p].pc = IF ends # {} \/ Len(got) = rd[p].n THEN "done"
                                         ELSE IF p \in killed THEN "killed" ELSE "asleep"]
    /\ UNCHANGED <<killed, left, Others>>

\* either_copyout fails: the character is gone, and the read ends with what it had.
copyout_fails(p) ==
    /\ rd[p].pc = "run" /\ handler # "echo" /\ Len(rd[p].got) < rd[p].n
    /\ cons.r # cons.w /\ cons.buf[cons.r % Size] # "^D"
    /\ cons' = Cleared([cons EXCEPT !.r = (@ + 1) % UINT]) /\ tty' = [tty EXCEPT !.ready = Tail(@)]
    /\ rd' = [rd EXCEPT ![p].pc = "done"]
    /\ UNCHANGED <<killed, left, Others>>

\* kill makes a sleeping process runnable.
kill(p) ==
    /\ p \notin killed /\ rd[p].pc \notin {"idle", "done"} /\ killed' = killed \cup {p}
    /\ rd' = IF rd[p].pc = "asleep" THEN [rd EXCEPT ![p].pc = "run"] ELSE rd
    /\ UNCHANGED <<cons, left, tty, Others>>

Handler == uartintr \/ uartgetc
Sync(who) == sync_idle(who) \/ sync_write(who)
Writes(p) == consolewrite(p) \/ uartwrite(p)

Next ==
    \/ (\E c \in Keys : press(c)) \/ transmit \/ Handler
    \/ \E who \in {"echo", "printk"} : Sync(who)
    \/ \E p \in Readers : consoleread(p) \/ copyout_fails(p) \/ kill(p) \/ call_read(p)
    \/ \E p \in Writers : Writes(p) \/ call_write(p)

\* The port sends, its interrupt is served, and the scheduler runs the writers.
Fairness == WF_vars(transmit) /\ WF_vars(Handler) /\ WF_vars(Sync("echo")) /\ \A p \in Writers : WF_vars(Writes(p))

Spec == Init /\ [][Next]_vars /\ Fairness

-----------------------------------------------------------------------------
\* The circular buffer is the terminal of the reference: editing (consoleintr) reaches
\* back to the end of the last line and no further, a full buffer takes no more, what
\* is handed over is taken once and in order, also around the ends of the buffer and
\* of the indices, and the echo agrees with it character by character.  A reader sleeps only
\* while there is nothing to read and nobody has killed it.
TtyAgrees ==
    /\ \A p \in Readers : rd[p].pc = "asleep" => tty.ready = <<>> /\ p \notin killed
    /\ tty.ready = Window(cons.r, cons.w) /\ tty.line = Window(cons.w, cons.e)
    /\ tty.screen = FoldLeft(Shows, screen, echo)[1]

\* Every character of consolewrite is sent once and in order, beside echo and printk:
\* the transmitter is never overrun.
OutputOnce ==
    \A p \in Writers : SelectSeq(sent \o thr, LAMBDA c : c[1] = p) = [k \in 1..wr[p].i |-> <<p, k>>]

\* A writer ends.
WritersEnd == \A p \in Writers : wr[p].pc = "copy" ~> wr[p].pc = "done"
=============================================================================
