------------------------------- MODULE Desktop -------------------------------
(* The desktop, kernel/gui.c, and the mouse driver it reads, kernel/mouse.c.

   The frame loop runs with interrupts on.  It takes its snapshot of the mouse with
   one load of a driver variable after the other, so IRQ 12 may come between any two
   of them, the load and the store of an edge detector included; the rest of a frame
   works on the snapshot and on the loop's own variables, and is split only where
   the program text is.  The mouse itself is the environment: it sends packets of
   three bytes, some of which may get lost.  A title and the contents of a window
   are left out; the picture is what was drawn of the windows and the cursor.    *)
EXTENDS Integers, Sequences, FiniteSets, FiniteSetsExt

CONSTANTS GFX_W, GFX_H, TASKBAR_H, TITLE_H, MAX_WIN,
          WinW, WinH,               \* the size win_open gives a window
          CloseBox,                 \* the close box, as offsets in the window
          CASCADE_X, CASCADE_Y, StepX, StepY,
          Places,                   \* places of the cascade, 6 in the code
          Moves,                    \* motions the mouse may report in one packet
          MaxInput                  \* bound: packets, keys and lost bytes together

Slot == 0..(MAX_WIN - 1)

ASSUME DesktopAssumption ==
  /\ {GFX_W, GFX_H, TASKBAR_H, TITLE_H, WinW, WinH, CASCADE_X, CASCADE_Y,
      StepX, StepY, MaxInput} \subseteq Nat
  /\ MAX_WIN \in Nat /\ MAX_WIN >= 3 /\ Places \in Nat \ {0}
  /\ 0 < WinW /\ TITLE_H < WinH
  /\ CASCADE_X + (Places - 1) * StepX + WinW <= GFX_W
  /\ CASCADE_Y + (Places - 1) * StepY + WinH + TASKBAR_H <= GFX_H
  /\ CloseBox \subseteq (0..(WinW - 1)) \X (0..(WinH - 1))
  /\ Moves \subseteq (-128..127) \X (-128..127)

VARIABLES m_x, m_y, m_buttons, m_prev,      \* mouse.c; of the buttons, the left one
          m_pkt,                            \* the bytes m_pkt[0] .. m_pkt[m_cycle - 1]
          used, at, lit,                    \* wins[]: used, x and y, focused
          focus, cascade,
          pc, in, drag, grab,               \* gui_enter's locals
          need_redraw, last,
          wire,                             \* bytes of a packet still to come
          input, lost,                      \* inputs so far; a byte was lost
          hand,                             \* where the mouse moved the pointer to
          fresh,                            \* history: a press no click was seen for
          stale, arrows                     \* the picture: out of date; its cursors

driver  == <<m_x, m_y, m_buttons, m_prev, m_pkt, fresh>>
mouse   == <<wire, lost, hand>>
windows == <<used, at, lit, focus, cascade>>
dragging == <<drag, grab>>
picture == <<need_redraw, last, stale, arrows>>
vars    == <<driver, mouse, windows, pc, in, dragging, input, picture>>

Pixel == (0..(GFX_W - 1)) \X (0..(GFX_H - 1))
PixelOrNone == Pixel \cup {<<-1, -1>>}

TypeOK ==
  /\ <<m_x, m_y>> \in Pixel /\ m_buttons \in 0..1 /\ m_prev \in 0..1
  /\ m_pkt \in Seq(0..255) /\ Len(m_pkt) < 3
  /\ used \subseteq Slot /\ lit \subseteq Slot /\ at \in [Slot -> Pixel]
  /\ focus \in Slot \cup {-1} /\ cascade \in 0..(Places - 1)
  /\ pc \in {"shell", "pressed", "store", "released", "consume", "down", "mx", "my",
             "click", "drag", "key", "draw"}
  /\ in \in [click: BOOLEAN, release: BOOLEAN, down: BOOLEAN,
             mx: 0..(GFX_W - 1), my: 0..(GFX_H - 1)]
  /\ drag \in Slot \cup {-1} /\ grab \in Pixel
  /\ need_redraw \in BOOLEAN /\ last \in PixelOrNone
  /\ stale \in BOOLEAN /\ arrows \subseteq Pixel

NoUpperEdge(v, hi) == IF v < 0 THEN 0 ELSE v      \* mutant
Clamp(v, hi) == IF v < 0 THEN 0 ELSE IF v > hi THEN hi ELSE v

------------------------------------------------------------------------------
(* IRQ 12.  The driver takes every third byte for the end of a packet. *)

Unsigned(b) == b                              \* mutant: no sign
i8(b) == IF b < 128 THEN b ELSE b - 256

mouse_process(pkt) ==
  /\ m_x' = Clamp(m_x + i8(pkt[2]), GFX_W - 1)
  /\ m_y' = Clamp(m_y - i8(pkt[3]), GFX_H - 1)       \* screen Y grows down
  /\ m_buttons' = pkt[1] % 2
  /\ fresh' = (fresh \/ (m_buttons = 0 /\ pkt[1] % 2 = 1))

mouse_handler(d) ==
  /\ \/ /\ Len(m_pkt) < 2
        /\ m_pkt' = Append(m_pkt, d)
        /\ UNCHANGED <<m_x, m_y, m_buttons, fresh>>
     \/ /\ Len(m_pkt) = 2
        /\ m_pkt' = <<>>
        /\ mouse_process(Append(m_pkt, d))
  /\ UNCHANGED m_prev

\* A packet: flags with the left button and the two signs, dx, and dy upwards.
Byte(v)   == v % 256
Sign(v)   == IF v < 0 THEN 1 ELSE 0
Packet(left, move) ==
  <<8 + left + 16 * Sign(move[1]) + 32 * Sign(move[2]), Byte(move[1]), Byte(move[2])>>

Input    == input < MaxInput /\ input' = input + 1
LoopOnly == UNCHANGED <<windows, pc, in, dragging, picture>>

\* The user moves the mouse or presses or releases its button.
MoveMouse ==
  /\ wire = <<>> /\ Input
  /\ \E left \in 0..1, move \in Moves :
       /\ wire' = Packet(left, move)
       /\ hand' = <<Clamp(hand[1] + move[1], GFX_W - 1), Clamp(hand[2] - move[2], GFX_H - 1)>>
  /\ UNCHANGED <<driver, lost>>
  /\ LoopOnly

MouseByte ==
  /\ wire # <<>>
  /\ mouse_handler(Head(wire))
  /\ wire' = Tail(wire)
  /\ UNCHANGED <<input, lost, hand>>
  /\ LoopOnly

LoseByte ==
  /\ wire # <<>> /\ Input
  /\ lost' = TRUE
  /\ wire' = Tail(wire)
  /\ UNCHANGED <<driver, hand>>
  /\ LoopOnly

------------------------------------------------------------------------------
(* The snapshot.  Each detector loads m_buttons twice, once for the edge and once
   for what it stores in m_prev.                                               *)

Loop(from, to) == pc = from /\ pc' = to /\ UNCHANGED mouse
Snapshot(field, value) ==
  /\ in' = [in EXCEPT ![field] = value]
  /\ UNCHANGED <<m_x, m_y, m_buttons, m_prev, m_pkt, windows, dragging, input, picture>>

LeftClicked ==
  /\ Loop("pressed", "store")
  /\ Snapshot("click", m_buttons = 1 /\ m_prev = 0)
  /\ fresh' = (fresh /\ ~ in'.click)

KeepPrev == UNCHANGED m_prev                  \* mutant: the edge is not consumed
StorePrev == m_prev' = m_buttons
Consume(from, to) ==
  /\ Loop(from, to)
  /\ StorePrev
  /\ UNCHANGED <<m_x, m_y, m_buttons, m_pkt, fresh, windows, in, dragging, input, picture>>

LeftReleased == /\ Loop("released", "consume")
                /\ Snapshot("release", m_buttons = 0 /\ m_prev = 1)
                /\ UNCHANGED fresh
LeftDown == /\ Loop("down", "mx")
            /\ Snapshot("down", m_buttons = 1)
            /\ UNCHANGED fresh
PosX == Loop("mx", "my") /\ Snapshot("mx", m_x) /\ UNCHANGED fresh
PosY == Loop("my", "click") /\ Snapshot("my", m_y) /\ UNCHANGED fresh

------------------------------------------------------------------------------
(* Windows. *)

Offset(x, y, w) == <<x - at[w][1], y - at[w][2]>>
Inside(x, y, w) == Offset(x, y, w) \in (0..(WinW - 1)) \X (0..(WinH - 1))

\* The window under a point: the focused one is on top, then higher slots.
win_at(x, y) == IF focus \in used /\ Inside(x, y, focus) THEN focus
                ELSE Max({w \in used : Inside(x, y, w)} \cup {-1})
win_at_title(x, y) ==
  LET w == win_at(x, y)
  IN  IF w # -1 /\ y <= at[w][2] + TITLE_H THEN w ELSE -1
win_at_close(x, y) == Max({w \in used : Offset(x, y, w) \in CloseBox} \cup {-1})

win_raise(w) ==
  /\ lit' = (lit \ (used \cap {focus})) \cup {w}
  /\ focus' = w

win_open(w) ==
  /\ used' = used \cup {w}
  /\ at' = [at EXCEPT ![w] = <<CASCADE_X + cascade * StepX, CASCADE_Y + cascade * StepY>>]
  /\ cascade' = (cascade + 1) % Places
  /\ win_raise(w)

CloseOnly(w) ==                               \* mutant: the focus stays
  /\ used' = used \ {w}
  /\ UNCHANGED <<at, cascade, focus, lit>>
win_close(w) ==
  /\ used' = used \ {w}
  /\ focus' = Max(used' \cup {-1})
  /\ lit' = lit \cup (used' \cap {focus'})
  /\ UNCHANGED <<at, cascade>>

\* What redraw_all paints of the windows; a change makes the screen stale.
Painted == <<used, [w \in used |-> at[w]], lit \cap used, focus>>
Repaint(needed) ==
  /\ need_redraw' = (need_redraw \/ needed)
  /\ stale' = (stale \/ Painted' # Painted)
  /\ UNCHANGED <<last, arrows>>

------------------------------------------------------------------------------
(* gui_enter. *)

\* Opens three windows on an empty desktop; the flags of other slots are kept.
Enter ==
  /\ Loop("shell", "pressed")
  /\ used' = 0..2 /\ focus' = 2 /\ lit' = (lit \ 0..1) \cup {2}
  /\ at' = [w \in Slot |-> IF w \in 0..2
                           THEN <<CASCADE_X + (w % Places) * StepX,
                                  CASCADE_Y + (w % Places) * StepY>> ELSE at[w]]
  /\ cascade' = 3 % Places
  /\ drag' = -1 /\ grab' = <<0, 0>>
  /\ need_redraw' = TRUE /\ last' = <<-1, -1>> /\ stale' = TRUE /\ arrows' = {}
  /\ UNCHANGED <<driver, in, input>>

Click ==
  /\ Loop("click", "drag")
  /\ LET c == win_at_close(in.mx, in.my)
         w == win_at_title(in.mx, in.my)
     IN  \/ /\ in.click /\ c # -1
            /\ win_close(c)
            /\ drag' = -1 /\ UNCHANGED grab
            /\ Repaint(TRUE)
         \/ /\ in.click /\ c = -1 /\ w # -1
            /\ win_raise(w)
            /\ drag' = w /\ grab' = Offset(in.mx, in.my, w)
            /\ UNCHANGED <<used, at, cascade>>
            /\ Repaint(TRUE)
         \/ /\ ~ in.click \/ (c = -1 /\ w = -1)
            /\ UNCHANGED <<windows, dragging, picture>>
  /\ UNCHANGED <<driver, in, input>>

\* A window follows the pointer, but not under the taskbar or off the screen.
NoTaskbar(x, y) == <<Clamp(x, GFX_W - WinW), Clamp(y, GFX_H - WinH)>>     \* mutant
Kept(x, y) == <<Clamp(x, GFX_W - WinW), Clamp(y, GFX_H - TASKBAR_H - WinH)>>

Drag ==
  /\ Loop("drag", "key")
  /\ drag' = (IF in.release THEN -1 ELSE drag)
  /\ at' = (IF drag' # -1 /\ in.down
            THEN [at EXCEPT ![drag'] = Kept(in.mx - grab[1], in.my - grab[2])]
            ELSE at)
  /\ UNCHANGED <<driver, used, lit, focus, cascade, in, grab, input>>
  /\ Repaint(at' # at)

Key(to) == /\ Loop("key", to)
           /\ Input
           /\ UNCHANGED <<driver, in, dragging>>

NoKey == Loop("key", "draw") /\ UNCHANGED <<driver, windows, in, dragging, input, picture>>

EscKey == /\ Key("draw")
          /\ IF focus # -1 THEN win_close(focus) ELSE UNCHANGED windows
          /\ Repaint(TRUE)

EnterKey == Key("shell") /\ UNCHANGED <<windows, picture>>

OpenKey == /\ Key("draw")
           /\ IF used # Slot THEN win_open(Min(Slot \ used)) ELSE UNCHANGED windows
           /\ Repaint(TRUE)

\* Tab: the next open slot after the focused one.
TabKey ==
  /\ Key("draw")
  /\ \/ /\ used # {}
        /\ LET steps == Min({k \in 1..MAX_WIN : (focus + k) % MAX_WIN \in used})
           IN  win_raise((focus + steps) % MAX_WIN)
        /\ UNCHANGED <<used, at, cascade>>
        /\ Repaint(TRUE)
     \/ used = {} /\ UNCHANGED <<windows, picture>>

\* redraw_all if something changed or the pointer moved, then the cursor.
OnlyIfNeeded == need_redraw                   \* mutant: the old cursor stays
Redraws == need_redraw \/ <<in.mx, in.my>> # last
Draw ==
  /\ Loop("draw", "pressed")
  /\ stale' = (stale /\ ~ Redraws)
  /\ arrows' = (IF Redraws THEN {} ELSE arrows) \cup {<<in.mx, in.my>>}
  /\ need_redraw' = FALSE
  /\ last' = <<in.mx, in.my>>
  /\ UNCHANGED <<driver, windows, in, dragging, input>>

Init ==
  /\ m_x = GFX_W \div 2 /\ m_y = GFX_H \div 2
  /\ m_buttons = 0 /\ m_prev = 0 /\ m_pkt = <<>> /\ fresh = FALSE
  /\ wire = <<>> /\ input = 0 /\ lost = FALSE /\ hand = <<m_x, m_y>>
  /\ used = {} /\ lit = {} /\ at = [w \in Slot |-> <<0, 0>>] /\ focus = -1 /\ cascade = 0
  /\ pc = "shell" /\ drag = -1 /\ grab = <<0, 0>>
  /\ in = [click |-> FALSE, release |-> FALSE, down |-> FALSE, mx |-> 0, my |-> 0]
  /\ need_redraw = TRUE /\ last = <<-1, -1>> /\ stale = FALSE /\ arrows = {}

Frame == \/ LeftClicked \/ Consume("store", "released")
         \/ LeftReleased \/ Consume("consume", "down")
         \/ LeftDown \/ PosX \/ PosY
         \/ Click \/ Drag \/ Draw
         \/ NoKey \/ EscKey \/ EnterKey \/ OpenKey \/ TabKey

Next == MoveMouse \/ MouseByte \/ LoseByte \/ Enter \/ Frame

Spec == Init /\ [][Next]_vars

\* The frame loop goes on: hlt is left at every interrupt, the timer never stops, and the
\* 8042 raises IRQ 12 again until a packet is complete.  It does so only as long as the
\* boot thread gets the CPU, which a process calling SYS_sleep in a loop, or an exception
\* that halts the machine, can deny it for ever (Sched); so Spec does not assume it.
LoopGoesOn == WF_vars(Frame) /\ WF_vars(MouseByte)

------------------------------------------------------------------------------
(* Properties. *)

\* While anything is open, one open window has the focus and is drawn so, whatever
\* was closed by mouse or key, in any order of slots.
FocusOpen ==
  pc # "shell" => \/ used = {} /\ focus = -1
                  \/ focus \in used \cap lit

\* No window leaves the screen or goes under the taskbar: not by a torn or corrupted
\* pointer, and not by a drag that outlives its window and goes on in a reused slot.
OnScreen ==
  \A w \in used : /\ at[w][1] \in 0..(GFX_W - WinW)
                  /\ at[w][2] \in 0..(GFX_H - TASKBAR_H - WinH)

\* A press is seen as a click at most once, with IRQ 12 between the load and the store
\* of either detector.  (It may be missed: a press that comes after the first load of
\* mouse_left_clicked and before its second one is consumed unseen.)
OneClickPerPress == [][pc = "pressed" /\ in'.click /\ pc' = "store" => fresh]_vars

\* After each frame the screen shows the windows as they are, and one cursor: every
\* change has asked for a redraw, and no cursor is left behind.
ScreenCurrent ==
  pc = "pressed" /\ last # <<-1, -1>> => ~ stale /\ arrows = {last}

\* While the loop goes on: when the mouse comes to rest, the cursor comes to where it was
\* moved, however the packets fell between the reads of a frame, unless a byte was lost.
PointerArrives == LoopGoesOn => <>[](pc # "shell" /\ ~ lost => last = hand)
==============================================================================
