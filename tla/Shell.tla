-------------------------------- MODULE Shell --------------------------------
(* The shell's line editor, kernel/shell.c, on the keyboard ring it shares with
   IRQ 1 and the text-mode cursor of kernel/vga.c.

   The loop of shell_run is split where an interrupt matters: keyboard_getc reads
   kbuf[kbuf_tail] and then advances kbuf_tail, and IRQ 1 may come in between.
   Commands are abstracted to what they leave before the prompt, completion to the
   number of characters it adds; the screen to the column of its cursor, which a
   process may move by printing.                     *)
EXTENDS Keyboard

CONSTANTS LINE_MAX, HIST_MAX, VGA_WIDTH,
          PromptLen,        \* the length of "novaos> "
          SerialBytes       \* bytes a serial terminal may send

ASSUME ShellAssumption ==
  /\ LINE_MAX \in Nat /\ LINE_MAX > 1 /\ HIST_MAX \in Nat \ {0}
  /\ VGA_WIDTH \in Nat \ {0}
  /\ PromptLen \in Nat
  /\ SerialBytes \subseteq 1..255

VARIABLES pc, c,                        \* shell_run's place and its character
          line, hist, hist_count, hist_pos,
          tx,                           \* the cursor's column
          log,                          \* history: the commands remembered
          displaced                     \* history: the cursor was moved off the line

editor == <<line, hist, hist_count, hist_pos, log>>
cursor == <<tx, displaced>>
vars   == <<ring, modifiers, pc, c, editor, cursor>>

Char == Code \cap 0..255
Line == {l \in Seq(Char) : Len(l) < LINE_MAX}

EditorTypeOK ==
  /\ pc \in {"get", "advance", "key"} /\ c \in Code
  /\ line \in Line
  /\ hist \in [0..(HIST_MAX - 1) -> Line]
  /\ hist_count \in Nat /\ hist_pos \in -1..(HIST_MAX - 1)

TypeOK ==
  /\ KeyboardTypeOK /\ EditorTypeOK
  /\ tx \in 0..(VGA_WIDTH - 1) /\ displaced \in BOOLEAN

------------------------------------------------------------------------------
(* vga_putc: the cursor's column after each character. *)

Wrapped(x) == IF x >= VGA_WIDTH THEN 0 ELSE x
Moved(x, ch) ==
  CASE ch \in {10, 13} -> 0
    [] ch = 9          -> Wrapped(((x + 4) \div 4) * 4)
    [] ch = 8          -> IF x > 0 THEN x - 1 ELSE 0
    [] OTHER           -> Wrapped(x + 1)

Space(n) == [i \in 1..n |-> 32]
Prompt   == Space(PromptLen)            \* as wide as the prompt

Wraps(l) == PromptLen + Len(l) >= VGA_WIDTH

\* con_write: the cursor after a string.
MoveBy(chars) == tx' = FoldLeft(Moved, tx, chars)
Show(chars)   == MoveBy(chars) /\ displaced' = (displaced \/ Wraps(line'))

\* redraw_line: wipe, prompt, line, from the first column wherever the cursor was.
Redraw(l) == /\ MoveBy(<<13>> \o Space(VGA_WIDTH) \o <<13>> \o Prompt \o l)
             /\ displaced' = Wraps(l)

Init ==
  /\ KeyboardInit
  /\ pc = "get" /\ c = 0
  /\ line = <<>>
  /\ hist = [i \in 0..(HIST_MAX - 1) |-> <<>>]
  /\ hist_count = 0 /\ hist_pos = -1
  /\ tx = PromptLen % VGA_WIDTH
  /\ log = <<>> /\ displaced = Wraps(<<>>)

------------------------------------------------------------------------------
(* History. *)

\* remember(line): skip empty lines and immediate duplicates.
CountFirst ==                        \* mutant: counts before it stores
  /\ hist' = [hist EXCEPT ![(hist_count + 1) % HIST_MAX] = line]
  /\ hist_count' = hist_count + 1
  /\ log' = Append(log, line)
Remember ==
  LET last == hist[(hist_count - 1) % HIST_MAX]
  IN  IF line = <<>> \/ (hist_count > 0 /\ last = line)
      THEN UNCHANGED <<hist, hist_count, log>>
      ELSE /\ hist' = [hist EXCEPT ![hist_count % HIST_MAX] = line]
           /\ hist_count' = hist_count + 1
           /\ log' = Append(log, line)

\* hist_get(back), where it does not return NULL.
HasHist(back)  == back < HIST_MAX /\ back < hist_count
HistGet(back)  == hist[(hist_count - 1 - back) % HIST_MAX]

------------------------------------------------------------------------------
(* shell_run. *)

KeyOnly == UNCHANGED <<pc, c, editor, cursor>>
Interrupt == KeyInterrupt /\ KeyOnly

\* keyboard_getc reads a code, and later frees its place in the ring.
ReadKey == /\ pc = "get" /\ Pending
           /\ c' = kbuf[kbuf_tail]
           /\ pc' = "advance"
           /\ UNCHANGED <<ring, modifiers, editor, cursor>>

Advance == /\ pc = "advance"
           /\ kbuf_tail' = After(kbuf_tail)
           /\ pc' = "key"
           /\ UNCHANGED <<kbuf, kbuf_head, offered, modifiers, c, editor, cursor>>

\* An empty ring: serial_getc.
ReadSerial == /\ pc = "get" /\ ~ Pending
              /\ sent < MaxSent /\ sent' = sent + 1
              /\ c' \in SerialBytes
              /\ pc' = "key"
              /\ UNCHANGED <<ring, shift, caps, extended, held, prefixed, editor, cursor>>

\* Serial terminals send CR and DEL.
Key == CASE c = 13 -> 10 [] c = 127 -> 8 [] OTHER -> c

Typed(guard) == /\ pc = "key" /\ guard
                /\ pc' = "get"
                /\ UNCHANGED <<ring, modifiers, c>>

\* Remember and execute the line: the command prints whole lines or leaves something
\* before the prompt, as may a process.
EnterKey ==
  /\ Typed(Key = 10)
  /\ Remember
  /\ line' = <<>> /\ hist_pos' = -1
  /\ \E other \in {<<>>, <<97>>} :
       /\ MoveBy(<<10>> \o other \o Prompt)
       /\ displaced' = (other # <<>> \/ Wraps(<<>>))

NoRubOut == <<32>>                                    \* mutant: prints over it
RubOut == <<8, 32, 8>>
BackspaceKey ==
  /\ Typed(Key = 8 /\ line # <<>>)
  /\ line' = Front(line)
  /\ Show(RubOut)
  /\ UNCHANGED <<hist, hist_count, hist_pos, log>>

\* complete: a single match adds what is missing, as far as it fits; several are only
\* reported, "\n(multiple matches)\n", and neither prompt nor line is written again.
Added(n)      == /\ line' = line \o [i \in 1..n |-> 97]
                 /\ Show([i \in 1..n |-> 97])
SeveralMatch  == /\ line' = line
                 /\ MoveBy(<<10>>) /\ displaced' = TRUE
TabKey ==
  /\ Typed(Key = 9 /\ line # <<>>)
  /\ SeveralMatch \/ \E n \in 0..(LINE_MAX - 1 - Len(line)) : Added(n)
  /\ UNCHANGED <<hist, hist_count, hist_pos, log>>

\* The codes shell_run compares with: 0x100 + 'A' and 0x100 + 'B'.
UpCode   == KEY_EXT + 65
DownCode == KEY_EXT + 66

Recall(pos) == /\ hist_pos' = pos
               /\ line' = HistGet(pos)
               /\ Redraw(line')
               /\ UNCHANGED <<hist, hist_count, log>>

\* Codes from 0x100 on: up goes to an older command, down to a newer one or to a
\* fresh line, the rest is ignored.
ExtendedKey ==
  /\ Typed(Key > 255)
  /\ CASE Key = UpCode /\ HasHist(hist_pos + 1) -> Recall(hist_pos + 1)
       [] Key = DownCode /\ hist_pos > 0        -> Recall(hist_pos - 1)
       [] Key = DownCode /\ hist_pos <= 0       ->
            /\ hist_pos' = -1 /\ line' = <<>>
            /\ Redraw(<<>>)
            /\ UNCHANGED <<hist, hist_count, log>>
       [] OTHER -> UNCHANGED <<editor, cursor>>

Unbounded == TRUE                                     \* mutant: no length test
Room      == Len(line) < LINE_MAX - 1
PrintableKey ==
  /\ Typed(Key \in 32..255 /\ Room)
  /\ line' = Append(line, Key)
  /\ Show(<<Key>>)
  /\ UNCHANGED <<hist, hist_count, hist_pos, log>>

\* Everything else falls through: backspace and tab on an empty line, a full line,
\* and control codes no branch tests.
OtherKey ==
  /\ Typed(\/ Key \in {8, 9} /\ line = <<>>
           \/ Key \in 32..255 /\ ~ Room
           \/ Key \in (0..31) \ {8, 9, 10})
  /\ UNCHANGED <<editor, cursor>>

\* A process prints a character, between any two steps of the shell.
ProcessWrites ==
  /\ sent < MaxSent /\ sent' = sent + 1
  /\ \E ch \in {10, 97} : MoveBy(<<ch>>)
  /\ displaced' = TRUE
  /\ UNCHANGED <<ring, shift, caps, extended, held, prefixed, pc, c, editor>>

Next == \/ Interrupt \/ ProcessWrites \/ ReadKey \/ Advance \/ ReadSerial
        \/ EnterKey \/ BackspaceKey \/ TabKey
        \/ ExtendedKey \/ PrintableKey \/ OtherKey

Spec == Init /\ [][Next]_vars

------------------------------------------------------------------------------
(* Properties. *)

\* The ring is a queue whatever moment IRQ 1 picks: no code is lost while there is
\* room, none is read twice or out of order, across the wrap of both indices and
\* in the window where a code is read and its slot not yet free.
Keys == INSTANCE KeyQueue WITH
          Capacity <- KB_BUF_SIZE - 1,
          queue <- IF pc = "advance" THEN Tail(Contents) ELSE Contents,
          taken <- c
KeysInOrder == Keys!Spec

\* The history holds the last HIST_MAX commands, newest first, although the count
\* runs on past the buffer and duplicates are skipped.
HistoryNewestFirst ==
  \A back \in 0..(HIST_MAX - 1) :
    HasHist(back) => HistGet(back) = log[Len(log) - back]

\* The cursor stands right behind the line, whatever was typed, completed, rubbed out
\* and recalled, until a process prints, completion lists several matches or the line
\* wraps, and again from the next prompt or recalled line on.  (In between the screen
\* and the line differ: backspace does not find the way back to the row before.)
CursorAfterLine ==
  pc = "get" /\ ~ displaced => tx = PromptLen + Len(line)
==============================================================================
