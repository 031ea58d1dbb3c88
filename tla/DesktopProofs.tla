---------------------------- MODULE DesktopProofs ----------------------------
(* Theorems about Desktop, for every screen, number of windows, size of a window and
   place of its close box, and every motion the mouse reports.  Nothing is assumed of the
   interrupts: packets fall anywhere in a frame, and any byte may be lost.        *)
EXTENDS Desktop, SequenceTheorems, FiniteSetTheorems, WellFoundedInduction, TLAPS

------------------------------------------------------------------------------
(* Least and greatest members, and clamped values. *)

\* A non-empty set of naturals has a least element.
LEMMA HasLeast ==
  ASSUME NEW S \in SUBSET Nat, S # {}
  PROVE  \E n \in S : \A m \in S : n <= m
<1> DEFINE Initial == {0..(n-1) : n \in S}
<1>1. Initial \subseteq FiniteSubsetsOf(Nat) /\ Initial # {}
  <2>1. ASSUME NEW n \in S PROVE 0..(n-1) \in SUBSET Nat /\ IsFiniteSet(0..(n-1))
    <3>1. 0 \in Int /\ n-1 \in Int /\ 0..(n-1) \in SUBSET Nat
      OBVIOUS
    <3> QED BY <3>1, FS_Interval
  <2> QED BY <2>1, Zenon DEF FiniteSubsetsOf
<1>2. PICK x \in Initial : \A y \in Initial : ~ (<<y, x>> \in StrictSubsetOrdering(Nat))
  <2>1. IsWellFoundedOn(StrictSubsetOrdering(Nat), FiniteSubsetsOf(Nat))
    BY FS_StrictSubsetOrderingWellFounded
  <2> HIDE DEF Initial
  <2> QED BY <1>1, <2>1, WFMin
<1>3. PICK n \in S : x = 0..(n-1)
  OBVIOUS
<1>4. ASSUME NEW m \in S PROVE n <= m
  <2>1. SUFFICES ASSUME m < n PROVE FALSE
    OBVIOUS
  <2>2. 0..(m-1) \in Initial /\ 0..(m-1) \subseteq 0..(n-1) /\ 0..(m-1) # 0..(n-1)
    <3>1. m \in 0..(n-1) /\ m \notin 0..(m-1)
      BY <2>1
    <3> QED BY <2>1, <3>1
  <2>3. <<0..(m-1), 0..(n-1)>> \in StrictSubsetOrdering(Nat)
    <3> DEFINE a == 0..(m-1)
               b == 0..(n-1)
    <3>1. a \in SUBSET Nat /\ b \in SUBSET Nat /\ a \subseteq b /\ a # b
      BY <2>2
    <3> HIDE DEF a, b, Initial
    <3>2. <<a, b>> \in StrictSubsetOrdering(Nat)
      BY <3>1 DEF StrictSubsetOrdering
    <3> QED BY <3>2 DEF a, b
  <2>4. 0..(m-1) \in Initial
    BY <2>2
  <2> HIDE DEF Initial
  <2>5. ~ (<<0..(m-1), 0..(n-1)>> \in StrictSubsetOrdering(Nat))
    BY <1>2, <1>3, <2>4, Zenon
  <2> QED BY <2>3, <2>5, Zenon
<1> QED BY <1>4

LEMMA MinMember ==
  ASSUME NEW S \in SUBSET Nat, S # {}
  PROVE  Min(S) \in S
BY HasLeast DEF Min

\* The highest slot of a set, or -1 for none.
LEMMA MaxMember ==
  ASSUME NEW S \in SUBSET Slot
  PROVE  /\ Max(S \cup {-1}) \in S \cup {-1}
         /\ (S # {} => Max(S \cup {-1}) \in S)
         /\ (S = {} => Max(S \cup {-1}) = -1)
<1> DEFINE T == S \cup {-1}
           Below == {MAX_WIN - x : x \in T}
<1>1. MAX_WIN \in Nat /\ T \subseteq -1..(MAX_WIN - 1)
  BY DesktopAssumption DEF Slot
<1>2. Below \in SUBSET Nat /\ Below # {}
  BY <1>1
<1>3. PICK b \in Below : \A d \in Below : b <= d
  <2> HIDE DEF Below
  <2> QED BY <1>2, HasLeast
<1>4. PICK x \in T : b = MAX_WIN - x
  OBVIOUS
<1>5. \A y \in T : x >= y
  <2> TAKE y \in T
  <2>1. MAX_WIN - y \in Below
    OBVIOUS
  <2>2. MAX_WIN - x <= MAX_WIN - y
    BY <1>3, <1>4, <2>1
  <2>3. x \in Int /\ y \in Int
    BY <1>1
  <2> HIDE DEF T
  <2> QED BY <1>1, <2>2, <2>3
<1>6. Max(T) \in T /\ \A y \in T : Max(T) >= y
  <2> HIDE DEF T
  <2> QED BY <1>5 DEF Max
<1>7. ASSUME S # {} PROVE Max(T) # -1
  <2>1. PICK s \in S : TRUE
    BY <1>7
  <2>2. s \in T /\ s \in Nat
    BY <1>1, <2>1 DEF Slot
  <2> HIDE DEF T
  <2> QED BY <1>6, <2>2
<1> QED BY <1>6, <1>7

LEMMA ClampRange ==
  ASSUME NEW v \in Int, NEW hi \in Nat
  PROVE  Clamp(v, hi) \in 0..hi
BY DEF Clamp

------------------------------------------------------------------------------
(* The geometry. *)

Inner == (0..(GFX_W - WinW)) \X (0..(GFX_H - TASKBAR_H - WinH))

LEMMA Sizes ==
  /\ {GFX_W, GFX_H, TASKBAR_H, TITLE_H, WinW, WinH, CASCADE_X, CASCADE_Y, StepX, StepY} \subseteq Nat
  /\ MAX_WIN \in Nat /\ MAX_WIN >= 3 /\ Places \in Nat \ {0}
  /\ 0 < WinW /\ WinW <= GFX_W /\ 0 < WinH /\ TASKBAR_H + WinH <= GFX_H
  /\ Inner \subseteq Pixel
<1>1. /\ GFX_W \in Nat /\ GFX_H \in Nat /\ TASKBAR_H \in Nat /\ TITLE_H \in Nat /\ WinW \in Nat
      /\ WinH \in Nat /\ CASCADE_X \in Nat /\ CASCADE_Y \in Nat /\ StepX \in Nat /\ StepY \in Nat
      /\ MAX_WIN \in Nat /\ MAX_WIN >= 3 /\ Places \in Nat \ {0} /\ 0 < WinW /\ TITLE_H < WinH
  BY DesktopAssumption
<1>2. (Places - 1) * StepX \in Nat /\ (Places - 1) * StepY \in Nat
  BY <1>1
<1> DEFINE p == (Places - 1) * StepX
           q == (Places - 1) * StepY
<1>3. CASCADE_X + p + WinW <= GFX_W /\ CASCADE_Y + q + WinH + TASKBAR_H <= GFX_H
  BY DesktopAssumption
<1>4. p \in Nat /\ q \in Nat
  BY <1>2
<1> HIDE DEF p, q
<1>5. WinW <= GFX_W /\ TASKBAR_H + WinH <= GFX_H /\ 0 < WinH
  BY <1>1, <1>3, <1>4
<1>6. Inner \subseteq Pixel
  BY <1>1, <1>5 DEF Inner, Pixel
<1> QED BY <1>1, <1>5, <1>6

\* Every place of the cascade leaves room for a window.
LEMMA CascadeFits ==
  ASSUME NEW k \in 0..(Places - 1)
  PROVE  <<CASCADE_X + k * StepX, CASCADE_Y + k * StepY>> \in Inner
<1>1. /\ GFX_W \in Nat /\ GFX_H \in Nat /\ TASKBAR_H \in Nat /\ WinW \in Nat /\ WinH \in Nat
      /\ CASCADE_X \in Nat /\ CASCADE_Y \in Nat /\ StepX \in Nat /\ StepY \in Nat /\ Places \in Nat \ {0}
  BY DesktopAssumption
<1>2. ASSUME NEW s \in Nat PROVE k * s \in Nat /\ (Places - 1) * s \in Nat /\ k * s <= (Places - 1) * s
  <2> DEFINE d == Places - 1 - k
  <2>1. d \in Nat /\ Places - 1 = k + d
    BY <1>1
  <2> HIDE DEF d
  <2>2. (k + d) * s = k * s + d * s /\ d * s \in Nat /\ k * s \in Nat
    BY <2>1
  <2> QED BY <2>1, <2>2
<1> DEFINE p == (Places - 1) * StepX
           q == (Places - 1) * StepY
           x == k * StepX
           y == k * StepY
<1>3. CASCADE_X + p + WinW <= GFX_W /\ CASCADE_Y + q + WinH + TASKBAR_H <= GFX_H
  BY DesktopAssumption
<1>4. p \in Nat /\ q \in Nat /\ x \in Nat /\ y \in Nat /\ x <= p /\ y <= q
  BY <1>1, <1>2
<1> HIDE DEF p, q, x, y
<1>5. CASCADE_X + x \in 0..(GFX_W - WinW) /\ CASCADE_Y + y \in 0..(GFX_H - TASKBAR_H - WinH)
  BY <1>1, <1>3, <1>4
<1> QED BY <1>5 DEF Inner, x, y

\* Where a dragged window goes, it fits.
LEMMA KeptFits ==
  ASSUME NEW x \in Int, NEW y \in Int
  PROVE  Kept(x, y) \in Inner
<1>1. GFX_W - WinW \in Nat /\ GFX_H - TASKBAR_H - WinH \in Nat
  BY Sizes
<1> QED BY <1>1, ClampRange DEF Kept, Inner

------------------------------------------------------------------------------
(* The invariant. *)

None == <<-1, -1>>

\* TypeOK in the parts the steps change together.
DriverOK  == /\ <<m_x, m_y>> \in Pixel /\ m_buttons \in 0..1 /\ m_prev \in 0..1
             /\ m_pkt \in Seq(0..255) /\ Len(m_pkt) < 3
WindowsOK == /\ used \subseteq Slot /\ lit \subseteq Slot /\ at \in [Slot -> Pixel]
             /\ focus \in Slot \cup {-1} /\ cascade \in 0..(Places - 1)
LoopOK    == /\ pc \in {"shell", "pressed", "store", "released", "consume", "down", "mx", "my",
                        "click", "drag", "key", "draw"}
             /\ in \in [click: BOOLEAN, release: BOOLEAN, down: BOOLEAN,
                        mx: 0..(GFX_W - 1), my: 0..(GFX_H - 1)]
             /\ drag \in Slot \cup {-1} /\ grab \in Pixel
PictureOK == /\ need_redraw \in BOOLEAN /\ last \in PixelOrNone
             /\ stale \in BOOLEAN /\ arrows \subseteq Pixel

\* Bytes on the wire are bytes.
Wire  == wire \in Seq(0..255)
\* The next load of the edge detector can find a press only if it is a new one, except
\* between the two loads.
Press == pc # "store" /\ m_buttons = 1 /\ m_prev = 0 => fresh
\* Whatever makes the picture old asks for a redraw; the cursor painted is the last one.
Painting == /\ stale => need_redraw
            /\ arrows = (IF last = None THEN {} ELSE {last})
            /\ pc = "pressed" /\ last # None => ~ need_redraw

Inv == TypeOK /\ Wire /\ Press /\ FocusOpen /\ OnScreen /\ Painting

LEMMA TypeParts == TypeOK <=> DriverOK /\ WindowsOK /\ LoopOK /\ PictureOK
BY DEF TypeOK, DriverOK, WindowsOK, LoopOK, PictureOK

LEMMA TypePartsNext ==
  ASSUME DriverOK', WindowsOK', LoopOK', PictureOK'
  PROVE  TypeOK'
BY DEF TypeOK, DriverOK, WindowsOK, LoopOK, PictureOK

LEMMA InitInv == Init => Inv
<1> SUFFICES ASSUME Init PROVE Inv
  OBVIOUS
<1>1. GFX_W \in Nat \ {0} /\ GFX_H \in Nat \ {0} /\ MAX_WIN \in Nat \ {0} /\ Places \in Nat \ {0}
  BY Sizes
<1>2. DriverOK
  <2>1. GFX_W \div 2 \in 0..(GFX_W - 1) /\ GFX_H \div 2 \in 0..(GFX_H - 1)
    BY <1>1
  <2>2. <<m_x, m_y>> \in Pixel
    BY <2>1 DEF Init, Pixel
  <2> QED BY <2>2 DEF Init, DriverOK
<1>3. WindowsOK
  BY <1>1 DEF Init, WindowsOK, Pixel
<1>4. LoopOK
  BY <1>1 DEF Init, LoopOK, Pixel
<1>5. PictureOK
  BY DEF Init, PictureOK, PixelOrNone
<1>6. Wire /\ Press /\ FocusOpen /\ OnScreen /\ Painting
  BY DEF Init, Wire, Press, FocusOpen, OnScreen, Painting, None
<1> QED BY <1>2, <1>3, <1>4, <1>5, <1>6, TypeParts DEF Inv

------------------------------------------------------------------------------
(* The mouse and its driver. *)

\* What does not touch the loop and its windows keeps all that is said of them.
LEMMA LoopKept ==
  ASSUME Inv, UNCHANGED <<windows, pc, in, dragging, picture>>
  PROVE  WindowsOK' /\ LoopOK' /\ PictureOK' /\ FocusOpen' /\ OnScreen' /\ Painting'
<1>1. /\ used' = used /\ at' = at /\ lit' = lit /\ focus' = focus /\ cascade' = cascade
      /\ pc' = pc /\ in' = in /\ drag' = drag /\ grab' = grab
      /\ need_redraw' = need_redraw /\ last' = last /\ stale' = stale /\ arrows' = arrows
  BY DEF windows, dragging, picture
<1>2. WindowsOK /\ LoopOK /\ PictureOK /\ FocusOpen /\ OnScreen /\ Painting
  BY TypeParts DEF Inv
<1>3. WindowsOK' /\ LoopOK'
  BY <1>1, <1>2 DEF WindowsOK, LoopOK
<1>4. PictureOK'
  BY <1>1, <1>2 DEF PictureOK
<1>5. FocusOpen' /\ OnScreen'
  BY <1>1, <1>2 DEF FocusOpen, OnScreen
<1>6. Painting'
  BY <1>1, <1>2, Zenon DEF Painting
<1> QED BY <1>3, <1>4, <1>5, <1>6

LEMMA PacketBytes ==
  ASSUME NEW left \in 0..1, NEW move \in Moves
  PROVE  Packet(left, move) \in Seq(0..255)
<1>1. move[1] \in -128..127 /\ move[2] \in -128..127
  BY DesktopAssumption
<1>2. Sign(move[1]) \in 0..1 /\ Sign(move[2]) \in 0..1
  BY DEF Sign
<1>3. Byte(move[1]) \in 0..255 /\ Byte(move[2]) \in 0..255
  BY <1>1 DEF Byte
<1>4. 8 + left + 16 * Sign(move[1]) + 32 * Sign(move[2]) \in 0..255
  BY <1>2
<1> QED BY <1>3, <1>4 DEF Packet

\* A byte, whatever it was meant to be, leaves the pointer on the screen.
LEMMA HandlerTypes ==
  ASSUME DriverOK, NEW d \in 0..255, mouse_handler(d)
  PROVE  DriverOK' /\ (m_buttons' = 1 => m_buttons = 1 \/ fresh') /\ (fresh => fresh') /\ m_prev' = m_prev
<1>1. m_prev' = m_prev
  BY DEF mouse_handler
<1>2. m_pkt \in Seq(0..255) /\ Len(m_pkt) \in Nat /\ m_x \in 0..(GFX_W - 1) /\ m_y \in 0..(GFX_H - 1)
  BY DEF DriverOK, Pixel
<1>3. /\ Append(m_pkt, d) \in Seq(0..255) /\ Len(Append(m_pkt, d)) = Len(m_pkt) + 1
  BY <1>2, AppendProperties
<1>4. CASE /\ Len(m_pkt) < 2 /\ m_pkt' = Append(m_pkt, d)
           /\ UNCHANGED <<m_x, m_y, m_buttons, fresh>>
  BY <1>1, <1>2, <1>3, <1>4 DEF DriverOK
<1>5. CASE Len(m_pkt) = 2 /\ m_pkt' = <<>> /\ mouse_process(Append(m_pkt, d))
  <2> DEFINE pkt == Append(m_pkt, d)
  <2>1. pkt[1] \in 0..255 /\ pkt[2] \in 0..255 /\ pkt[3] \in 0..255
    <3>1. pkt \in Seq(0..255) /\ Len(pkt) = 3
      BY <1>3, <1>5
    <3> HIDE DEF pkt
    <3>2. \A k \in 1..3 : pkt[k] \in 0..255
      BY <3>1, ElementOfSeq
    <3>3. 1 \in 1..3 /\ 2 \in 1..3 /\ 3 \in 1..3
      OBVIOUS
    <3> QED BY <3>2, <3>3, Zenon
  <2>2. mouse_process(pkt)
    BY <1>5
  <2> HIDE DEF pkt
  <2>3. i8(pkt[2]) \in Int /\ i8(pkt[3]) \in Int
    BY <2>1 DEF i8
  <2>4. GFX_W - 1 \in Nat /\ GFX_H - 1 \in Nat
    BY Sizes
  <2>5. m_x' \in 0..(GFX_W - 1) /\ m_y' \in 0..(GFX_H - 1)
    <3>1. m_x + i8(pkt[2]) \in Int /\ m_y - i8(pkt[3]) \in Int
      BY <1>2, <2>3, <2>4
    <3> QED BY <2>2, <2>4, <3>1, ClampRange DEF mouse_process
  <2>6. m_buttons' \in 0..1
    BY <2>1, <2>2 DEF mouse_process
  <2>7. m_pkt' \in Seq(0..255) /\ Len(m_pkt') < 3
    BY <1>5
  <2>8. DriverOK'
    BY <1>1, <2>5, <2>6, <2>7 DEF DriverOK, Pixel
  <2>9. fresh' = (fresh \/ (m_buttons = 0 /\ pkt[1] % 2 = 1)) /\ m_buttons' = pkt[1] % 2
    BY <2>2 DEF mouse_process
  <2>10. m_buttons = 0 \/ m_buttons = 1
    BY DEF DriverOK
  <2> QED BY <1>1, <2>8, <2>9, <2>10, Zenon
<1> QED BY <1>4, <1>5 DEF mouse_handler

LEMMA MouseStep ==
  ASSUME Inv, MoveMouse \/ MouseByte \/ LoseByte
  PROVE  Inv'
<1>1. DriverOK /\ wire \in Seq(0..255) /\ pc' = pc /\ UNCHANGED <<windows, pc, in, dragging, picture>>
  BY TypeParts DEF Inv, Wire, MoveMouse, MouseByte, LoseByte, LoopOnly
<1>2. wire # <<>> => Head(wire) \in 0..255 /\ Tail(wire) \in Seq(0..255)
  BY <1>1, HeadTailProperties
<1>3. DriverOK' /\ Wire' /\ Press'
  <2>1. CASE MoveMouse
    <3>1. DriverOK' /\ Press'
      <4>1. /\ m_x' = m_x /\ m_y' = m_y /\ m_buttons' = m_buttons /\ m_prev' = m_prev
            /\ m_pkt' = m_pkt /\ fresh' = fresh /\ pc' = pc
        BY <1>1, <2>1 DEF MoveMouse, driver
      <4> QED BY <1>1, <4>1 DEF DriverOK, Inv, Press
    <3>2. Wire'
      BY <2>1, PacketBytes DEF MoveMouse, Wire
    <3> QED BY <3>1, <3>2
  <2>2. CASE LoseByte
    <3>1. DriverOK' /\ Press'
      <4>1. /\ m_x' = m_x /\ m_y' = m_y /\ m_buttons' = m_buttons /\ m_prev' = m_prev
            /\ m_pkt' = m_pkt /\ fresh' = fresh /\ pc' = pc
        BY <1>1, <2>2 DEF LoseByte, driver
      <4> QED BY <1>1, <4>1 DEF DriverOK, Inv, Press
    <3>2. Wire'
      BY <1>2, <2>2 DEF LoseByte, Wire
    <3> QED BY <3>1, <3>2
  <2>3. CASE MouseByte
    <3>1. /\ wire # <<>> /\ wire' = Tail(wire) /\ mouse_handler(Head(wire))
      BY <2>3 DEF MouseByte
    <3>2. /\ DriverOK' /\ (m_buttons' = 1 => m_buttons = 1 \/ fresh') /\ (fresh => fresh')
          /\ m_prev' = m_prev
      BY <1>1, <1>2, <3>1, HandlerTypes
    <3>3. Press'
      BY <1>1, <3>2, Zenon DEF Inv, Press
    <3> QED BY <1>2, <3>1, <3>2, <3>3 DEF Wire
  <2> QED BY <2>1, <2>2, <2>3
<1> QED BY <1>1, <1>3, LoopKept, TypePartsNext DEF Inv

------------------------------------------------------------------------------
(* The snapshot of a frame. *)

LEMMA SnapshotKeeps ==
  ASSUME Inv, UNCHANGED <<m_x, m_y, m_buttons, m_pkt, mouse, windows, dragging, picture>>,
         pc # "shell", pc' \in {"store", "released", "consume", "down", "mx", "my", "click", "draw"},
         in' \in [click: BOOLEAN, release: BOOLEAN, down: BOOLEAN,
                  mx: 0..(GFX_W - 1), my: 0..(GFX_H - 1)],
         m_prev' \in 0..1, Press'
  PROVE  Inv'
<1>1. /\ m_x' = m_x /\ m_y' = m_y /\ m_buttons' = m_buttons /\ m_pkt' = m_pkt /\ wire' = wire
      /\ used' = used /\ at' = at /\ lit' = lit /\ focus' = focus /\ cascade' = cascade
      /\ drag' = drag /\ grab' = grab
      /\ need_redraw' = need_redraw /\ last' = last /\ stale' = stale /\ arrows' = arrows
  BY DEF windows, dragging, picture, mouse
<1>2. DriverOK /\ WindowsOK /\ LoopOK /\ PictureOK /\ FocusOpen /\ OnScreen /\ Painting /\ Wire
  BY TypeParts DEF Inv
<1>3. pc' # "shell" /\ pc' # "pressed"
  OBVIOUS
<1>4. DriverOK' /\ Wire'
  BY <1>1, <1>2 DEF DriverOK, Wire
<1>5. WindowsOK'
  BY <1>1, <1>2 DEF WindowsOK
<1>6. LoopOK'
  BY <1>1, <1>2 DEF LoopOK
<1>7. PictureOK'
  BY <1>1, <1>2 DEF PictureOK
<1>8. FocusOpen' /\ OnScreen'
  BY <1>1, <1>2 DEF FocusOpen, OnScreen
<1>9. Painting'
  BY <1>1, <1>2, <1>3, Zenon DEF Painting
<1> QED BY <1>4, <1>5, <1>6, <1>7, <1>8, <1>9, TypePartsNext DEF Inv

LEMMA SnapshotStep ==
  ASSUME Inv,
         \/ LeftClicked \/ LeftReleased \/ LeftDown \/ PosX \/ PosY \/ NoKey
         \/ Consume("store", "released") \/ Consume("consume", "down")
  PROVE  Inv'
<1> DEFINE Reading == [click: BOOLEAN, release: BOOLEAN, down: BOOLEAN,
                       mx: 0..(GFX_W - 1), my: 0..(GFX_H - 1)]
<1>1. /\ in \in Reading /\ m_prev \in 0..1 /\ m_buttons \in 0..1
      /\ m_x \in 0..(GFX_W - 1) /\ m_y \in 0..(GFX_H - 1)
      /\ (pc # "store" /\ m_buttons = 1 /\ m_prev = 0 => fresh)
  BY DEF Inv, TypeOK, Press, Pixel
<1>2. CASE LeftClicked
  <2>1. pc = "pressed" /\ pc' = "store" /\ in' = [in EXCEPT !.click = (m_buttons = 1 /\ m_prev = 0)]
        /\ UNCHANGED <<m_x, m_y, m_buttons, m_prev, m_pkt, mouse, windows, dragging, picture>>
    BY <1>2 DEF LeftClicked, Loop, Snapshot
  <2>2. in' \in Reading
    BY <1>1, <2>1
  <2> QED BY <1>1, <2>1, <2>2, SnapshotKeeps DEF Press
<1>3. CASE LeftReleased
  <2>1. pc = "released" /\ pc' = "consume"
        /\ in' = [in EXCEPT !.release = (m_buttons = 0 /\ m_prev = 1)]
        /\ UNCHANGED <<m_x, m_y, m_buttons, m_prev, m_pkt, fresh, mouse, windows, dragging, picture>>
    BY <1>3 DEF LeftReleased, Loop, Snapshot
  <2>2. in' \in Reading
    BY <1>1, <2>1
  <2> QED BY <1>1, <2>1, <2>2, SnapshotKeeps DEF Press
<1>4. CASE LeftDown
  <2>1. pc = "down" /\ pc' = "mx" /\ in' = [in EXCEPT !.down = (m_buttons = 1)]
        /\ UNCHANGED <<m_x, m_y, m_buttons, m_prev, m_pkt, fresh, mouse, windows, dragging, picture>>
    BY <1>4 DEF LeftDown, Loop, Snapshot
  <2>2. in' \in Reading
    BY <1>1, <2>1
  <2> QED BY <1>1, <2>1, <2>2, SnapshotKeeps DEF Press
<1>5. CASE PosX
  <2>1. pc = "mx" /\ pc' = "my" /\ in' = [in EXCEPT !.mx = m_x]
        /\ UNCHANGED <<m_x, m_y, m_buttons, m_prev, m_pkt, fresh, mouse, windows, dragging, picture>>
    BY <1>5 DEF PosX, Loop, Snapshot
  <2>2. in' \in Reading
    BY <1>1, <2>1
  <2> QED BY <1>1, <2>1, <2>2, SnapshotKeeps DEF Press
<1>6. CASE PosY
  <2>1. pc = "my" /\ pc' = "click" /\ in' = [in EXCEPT !.my = m_y]
        /\ UNCHANGED <<m_x, m_y, m_buttons, m_prev, m_pkt, fresh, mouse, windows, dragging, picture>>
    BY <1>6 DEF PosY, Loop, Snapshot
  <2>2. in' \in Reading
    BY <1>1, <2>1
  <2> QED BY <1>1, <2>1, <2>2, SnapshotKeeps DEF Press
<1>7. CASE NoKey
  <2>1. pc = "key" /\ pc' = "draw" /\ in' = in
        /\ UNCHANGED <<m_x, m_y, m_buttons, m_prev, m_pkt, fresh, mouse, windows, dragging, picture>>
    BY <1>7 DEF NoKey, Loop, driver
  <2> QED BY <1>1, <2>1, SnapshotKeeps DEF Press
<1>8. CASE Consume("store", "released") \/ Consume("consume", "down")
  <2>1. pc \in {"store", "consume"} /\ pc' \in {"released", "down"} /\ in' = in /\ m_prev' = m_buttons
        /\ UNCHANGED <<m_x, m_y, m_buttons, m_pkt, fresh, mouse, windows, dragging, picture>>
    BY <1>8 DEF Consume, StorePrev, Loop
  <2>2. Press'
    BY <1>1, <2>1 DEF Press
  <2> QED BY <1>1, <2>1, <2>2, SnapshotKeeps
<1> QED BY <1>2, <1>3, <1>4, <1>5, <1>6, <1>7, <1>8

------------------------------------------------------------------------------
(* Windows. *)

Focused == \/ used = {} /\ focus = -1
           \/ focus \in used \cap lit

LEMMA FrameKeeps ==
  ASSUME Inv, UNCHANGED <<driver, mouse>>, pc # "store",
         WindowsOK', LoopOK', PictureOK', FocusOpen', OnScreen', Painting'
  PROVE  Inv'
<1>1. /\ m_x' = m_x /\ m_y' = m_y /\ m_buttons' = m_buttons /\ m_prev' = m_prev
      /\ m_pkt' = m_pkt /\ fresh' = fresh /\ wire' = wire
  BY DEF driver, mouse
<1>2. DriverOK /\ Wire /\ Press
  BY TypeParts DEF Inv
<1>3. DriverOK' /\ Wire'
  BY <1>1, <1>2 DEF DriverOK, Wire
<1>4. Press'
  BY <1>1, <1>2, Zenon DEF Press
<1> QED BY <1>3, <1>4, TypePartsNext DEF Inv

\* A change of what is painted that asks for a redraw keeps the picture honest.
LEMMA RepaintKeeps ==
  ASSUME Inv, NEW needed \in BOOLEAN, Repaint(needed), needed \/ Painted' = Painted, pc' # "pressed"
  PROVE  PictureOK' /\ Painting'
<1>1. /\ need_redraw' = (need_redraw \/ needed) /\ stale' = (stale \/ Painted' # Painted)
      /\ last' = last /\ arrows' = arrows
  BY DEF Repaint
<1>2. PictureOK /\ Painting
  BY TypeParts DEF Inv
<1>3. PictureOK'
  BY <1>1, <1>2 DEF PictureOK
<1>4. Painting'
  BY <1>1, <1>2, Zenon DEF Painting
<1> QED BY <1>3, <1>4

\* Raising an open window puts the focus on it.
LEMMA RaiseKeeps ==
  ASSUME NEW w \in Slot, win_raise(w), lit \subseteq Slot
  PROVE  lit' \subseteq Slot /\ focus' = w /\ w \in lit'
BY DEF win_raise

\* Closing any window leaves the focus on an open one, if there is one.
LEMMA CloseKeeps ==
  ASSUME Inv, NEW w, win_close(w)
  PROVE  WindowsOK' /\ OnScreen' /\ Focused'
<1>1. /\ used' = used \ {w} /\ focus' = Max(used' \cup {-1}) /\ lit' = lit \cup (used' \cap {focus'})
      /\ at' = at /\ cascade' = cascade
  BY DEF win_close
<1>2. WindowsOK /\ OnScreen
  BY TypeParts DEF Inv
<1>3. used' \subseteq Slot /\ used' \subseteq used
  BY <1>1, <1>2 DEF WindowsOK
<1>4. focus' \in Slot \cup {-1} /\ (used' # {} => focus' \in used') /\ (used' = {} => focus' = -1)
  BY <1>1, <1>3, MaxMember
<1>5. WindowsOK'
  BY <1>1, <1>2, <1>3, <1>4 DEF WindowsOK
<1>6. OnScreen'
  BY <1>1, <1>2, <1>3 DEF OnScreen
<1>7. Focused'
  BY <1>1, <1>4 DEF Focused
<1> QED BY <1>5, <1>6, <1>7

\* Raising an open window moves none.
LEMMA RaiseOpen ==
  ASSUME Inv, NEW w \in used, win_raise(w), UNCHANGED <<used, at, cascade>>
  PROVE  WindowsOK' /\ OnScreen' /\ Focused'
<1>1. WindowsOK /\ OnScreen
  BY TypeParts DEF Inv
<1>2. w \in Slot /\ lit \subseteq Slot
  BY <1>1 DEF WindowsOK
<1>3. lit' \subseteq Slot /\ focus' = w /\ w \in lit'
  BY <1>2, RaiseKeeps
<1>4. WindowsOK'
  BY <1>1, <1>2, <1>3 DEF WindowsOK
<1>5. OnScreen'
  BY <1>1 DEF OnScreen
<1> QED BY <1>3, <1>4, <1>5 DEF Focused

\* A window opens at a place of the cascade.
LEMMA OpenKeeps ==
  ASSUME Inv, NEW w \in Slot, win_open(w)
  PROVE  WindowsOK' /\ OnScreen' /\ Focused'
<1>1. WindowsOK /\ OnScreen
  BY TypeParts DEF Inv
<1> DEFINE place == <<CASCADE_X + cascade * StepX, CASCADE_Y + cascade * StepY>>
<1>2. place \in Inner
  BY <1>1, CascadeFits DEF WindowsOK
<1>3. used' = used \cup {w} /\ at' = [at EXCEPT ![w] = place] /\ cascade' = (cascade + 1) % Places
      /\ win_raise(w)
  BY DEF win_open
<1> HIDE DEF place
<1>4. place \in Pixel
  BY <1>2, Sizes
<1>5. cascade' \in 0..(Places - 1)
  <2>1. Places \in Nat \ {0} /\ cascade + 1 \in Nat
    BY <1>1, Sizes DEF WindowsOK
  <2> QED BY <1>3, <2>1
<1>6. lit' \subseteq Slot /\ focus' = w /\ w \in lit'
  BY <1>1, <1>3, RaiseKeeps DEF WindowsOK
<1>7. WindowsOK'
  BY <1>1, <1>3, <1>4, <1>5, <1>6 DEF WindowsOK
<1>8. OnScreen'
  <2>1. SUFFICES ASSUME NEW v \in used' PROVE at'[v] \in Inner
    BY DEF OnScreen, Inner
  <2>2. at'[v] = IF v = w THEN place ELSE at[v]
    BY <1>1, <1>3, <2>1 DEF WindowsOK
  <2>3. v # w => at[v] \in Inner
    BY <1>1, <1>3, <2>1 DEF OnScreen, Inner, WindowsOK, Pixel
  <2> QED BY <1>2, <2>2, <2>3
<1> QED BY <1>3, <1>6, <1>7, <1>8 DEF Focused

------------------------------------------------------------------------------
(* The rest of a frame. *)

\* The window whose title is hit is an open one, and the pointer is inside it.
LEMMA TitleHit ==
  ASSUME WindowsOK, NEW x, NEW y, win_at_title(x, y) # -1
  PROVE  /\ win_at_title(x, y) \in used
         /\ Offset(x, y, win_at_title(x, y)) \in Pixel
<1> DEFINE w == win_at(x, y)
           under == {v \in used : Inside(x, y, v)}
<1>1. win_at_title(x, y) = w /\ w # -1
  BY DEF win_at_title
<1>2. w \in used /\ Inside(x, y, w)
  <2>1. CASE focus \in used /\ Inside(x, y, focus)
    BY <2>1 DEF win_at
  <2>2. CASE ~ (focus \in used /\ Inside(x, y, focus))
    <3>1. w = Max(under \cup {-1})
      BY <2>2 DEF win_at
    <3>2. under \in SUBSET Slot
      BY DEF WindowsOK
    <3>3. w \in under \cup {-1}
      <4> HIDE DEF under, w
      <4> QED BY <3>1, <3>2, MaxMember
    <3> QED BY <1>1, <3>3
  <2> QED BY <2>1, <2>2
<1>3. Offset(x, y, w) \in Pixel
  <2>1. (0..(WinW - 1)) \X (0..(WinH - 1)) \subseteq Pixel
    BY Sizes DEF Pixel
  <2> QED BY <1>2, <2>1 DEF Inside
<1> QED BY <1>1, <1>2, <1>3

LEMMA FocusOpenNext ==
  ASSUME Focused' PROVE FocusOpen'
BY DEF FocusOpen, Focused

LEMMA ClickStep ==
  ASSUME Inv, Click
  PROVE  Inv'
<1> DEFINE cl == win_at_close(in.mx, in.my)
           w == win_at_title(in.mx, in.my)
<1>1. /\ pc = "click" /\ pc' = "drag" /\ UNCHANGED <<mouse, driver, in, input>>
      /\ \/ /\ win_close(cl) /\ drag' = -1 /\ UNCHANGED grab /\ Repaint(TRUE)
         \/ /\ w # -1 /\ win_raise(w) /\ drag' = w /\ grab' = Offset(in.mx, in.my, w)
            /\ UNCHANGED <<used, at, cascade>> /\ Repaint(TRUE)
         \/ UNCHANGED <<windows, dragging, picture>>
  BY Zenon DEF Click, Loop
<1> HIDE DEF cl, w
<1>2. WindowsOK /\ LoopOK /\ FocusOpen
  BY TypeParts DEF Inv
<1>3. CASE win_close(cl) /\ drag' = -1 /\ UNCHANGED grab /\ Repaint(TRUE)
  <2>1. WindowsOK' /\ OnScreen' /\ FocusOpen'
    BY <1>3, CloseKeeps, FocusOpenNext
  <2>2. LoopOK'
    BY <1>1, <1>2, <1>3 DEF LoopOK
  <2>3. PictureOK' /\ Painting'
    BY <1>1, <1>3, RepaintKeeps
  <2> QED BY <1>1, <2>1, <2>2, <2>3, FrameKeeps
<1>4. CASE /\ w # -1 /\ win_raise(w) /\ drag' = w /\ grab' = Offset(in.mx, in.my, w)
           /\ UNCHANGED <<used, at, cascade>> /\ Repaint(TRUE)
  <2>1. w \in used /\ Offset(in.mx, in.my, w) \in Pixel
    BY <1>2, <1>4, TitleHit DEF w
  <2>2. WindowsOK' /\ OnScreen' /\ FocusOpen'
    BY <1>4, <2>1, RaiseOpen, FocusOpenNext
  <2>3. LoopOK'
    <3>1. drag' \in Slot /\ grab' \in Pixel
      BY <1>2, <1>4, <2>1 DEF WindowsOK
    <3> QED BY <1>1, <1>2, <3>1 DEF LoopOK
  <2>4. PictureOK' /\ Painting'
    BY <1>1, <1>4, RepaintKeeps
  <2> QED BY <1>1, <2>2, <2>3, <2>4, FrameKeeps
<1>5. CASE UNCHANGED <<windows, dragging, picture>>
  <2>1. /\ used' = used /\ at' = at /\ lit' = lit /\ focus' = focus /\ cascade' = cascade
        /\ drag' = drag /\ grab' = grab
        /\ need_redraw' = need_redraw /\ last' = last /\ stale' = stale /\ arrows' = arrows
    BY <1>5 DEF windows, dragging, picture
  <2>2. WindowsOK' /\ OnScreen' /\ FocusOpen'
    BY <1>1, <1>2, <2>1 DEF WindowsOK, OnScreen, FocusOpen, Inv
  <2>3. LoopOK'
    BY <1>1, <1>2, <2>1 DEF LoopOK
  <2>4. PictureOK' /\ Painting'
    <3>1. PictureOK /\ Painting
      BY TypeParts DEF Inv
    <3>2. PictureOK'
      BY <2>1, <3>1 DEF PictureOK
    <3>3. pc' # "pressed"
      BY <1>1
    <3>4. Painting'
      BY <2>1, <3>1, <3>3, Zenon DEF Painting
    <3> QED BY <3>2, <3>4
  <2> QED BY <1>1, <2>2, <2>3, <2>4, FrameKeeps
<1> QED BY <1>1, <1>3, <1>4, <1>5

\* Whatever slot the drag index names, a window that is moved stays on the screen.
LEMMA DragStep ==
  ASSUME Inv, Drag
  PROVE  Inv'
<1>1. /\ pc = "drag" /\ pc' = "key" /\ UNCHANGED <<mouse, driver, used, lit, focus, cascade, in, grab>>
      /\ drag' = (IF in.release THEN -1 ELSE drag)
      /\ \/ at' = at
         \/ drag' # -1 /\ at' = [at EXCEPT ![drag'] = Kept(in.mx - grab[1], in.my - grab[2])]
      /\ Repaint(at' # at)
  BY DEF Drag, Loop
<1>2. WindowsOK /\ LoopOK /\ FocusOpen /\ OnScreen
  BY TypeParts DEF Inv
<1>3. drag' \in Slot \cup {-1}
  BY <1>1, <1>2 DEF LoopOK
<1> DEFINE place == Kept(in.mx - grab[1], in.my - grab[2])
<1>4. place \in Inner /\ place \in Pixel
  <2>1. /\ in.mx \in Int /\ in.my \in Int /\ grab[1] \in Int /\ grab[2] \in Int
    BY <1>2, Sizes DEF LoopOK, Pixel
  <2>2. in.mx - grab[1] \in Int /\ in.my - grab[2] \in Int
    BY <2>1
  <2> QED BY <2>2, KeptFits, Sizes
<1> HIDE DEF place
<1>5. /\ at' \in [Slot -> Pixel]
      /\ \A v \in Slot : at'[v] = at[v] \/ at'[v] = place
  <2>1. CASE at' = at
    BY <1>2, <2>1 DEF WindowsOK
  <2>2. CASE drag' # -1 /\ at' = [at EXCEPT ![drag'] = place]
    BY <1>2, <1>3, <1>4, <2>2 DEF WindowsOK
  <2> QED BY <1>1, <2>1, <2>2 DEF place
<1>6. WindowsOK'
  BY <1>1, <1>2, <1>5 DEF WindowsOK
<1>7. OnScreen'
  <2>1. \A v \in used : v \in Slot
    BY <1>2 DEF WindowsOK
  <2> QED BY <1>1, <1>2, <1>4, <1>5, <2>1 DEF OnScreen, Inner
<1>8. FocusOpen'
  BY <1>1, <1>2 DEF FocusOpen
<1>9. LoopOK'
  BY <1>1, <1>2, <1>3 DEF LoopOK
<1>10. PictureOK' /\ Painting'
  <2>1. at' = at => Painted' = Painted
    BY <1>1 DEF Painted
  <2>2. (at' # at) \in BOOLEAN /\ ((at' # at) \/ Painted' = Painted)
    BY <2>1
  <2> QED BY <1>1, <2>2, RepaintKeeps
<1> QED BY <1>1, <1>6, <1>7, <1>8, <1>9, <1>10, FrameKeeps

\* Tab finds an open window, since the focused one is open.
LEMMA NextOpen ==
  ASSUME Inv, used # {}, Focused
  PROVE  (focus + Min({k \in 1..MAX_WIN : (focus + k) % MAX_WIN \in used})) % MAX_WIN \in used
<1> DEFINE steps == {k \in 1..MAX_WIN : (focus + k) % MAX_WIN \in used}
<1>1. focus \in used /\ used \subseteq Slot /\ MAX_WIN \in Nat \ {0}
  BY Sizes, TypeParts DEF Inv, WindowsOK, Focused
<1>2. (focus + MAX_WIN) % MAX_WIN = focus
  BY <1>1 DEF Slot
<1>3. MAX_WIN \in steps
  BY <1>1, <1>2
<1>4. steps \in SUBSET Nat /\ steps # {}
  BY <1>1, <1>3
<1>5. Min(steps) \in steps
  <2> HIDE DEF steps
  <2> QED BY <1>4, MinMember
<1> QED BY <1>5

LEMMA KeyStep ==
  ASSUME Inv, EscKey \/ EnterKey \/ OpenKey \/ TabKey
  PROVE  Inv'
<1>1. /\ pc = "key" /\ pc' \in {"draw", "shell"} /\ UNCHANGED <<mouse, driver, in, dragging>>
  BY DEF EscKey, EnterKey, OpenKey, TabKey, Key, Loop
<1>2. WindowsOK /\ LoopOK /\ Focused /\ OnScreen /\ PictureOK /\ Painting
  BY <1>1, TypeParts DEF Inv, FocusOpen, Focused
<1>3. LoopOK'
  <2>1. drag' = drag /\ grab' = grab /\ in' = in
    BY <1>1 DEF dragging
  <2> QED BY <1>1, <1>2, <2>1 DEF LoopOK
<1>4. ASSUME UNCHANGED windows PROVE WindowsOK' /\ OnScreen' /\ Focused' /\ Painted' = Painted
  <2>1. used' = used /\ at' = at /\ lit' = lit /\ focus' = focus /\ cascade' = cascade
    BY <1>4 DEF windows
  <2> QED BY <1>2, <2>1 DEF WindowsOK, OnScreen, Focused, Painted
<1>5. ASSUME UNCHANGED picture PROVE PictureOK' /\ Painting'
  <2>1. need_redraw' = need_redraw /\ last' = last /\ stale' = stale /\ arrows' = arrows
    BY <1>5 DEF picture
  <2>2. pc' # "pressed"
    BY <1>1
  <2>3. PictureOK'
    BY <1>2, <2>1 DEF PictureOK
  <2>4. Painting'
    BY <1>2, <2>1, <2>2, Zenon DEF Painting
  <2> QED BY <2>3, <2>4
<1>6. ASSUME Repaint(TRUE) PROVE PictureOK' /\ Painting'
  BY <1>1, <1>6, RepaintKeeps
<1>7. CASE EscKey
  <2>1. Repaint(TRUE) /\ (win_close(focus) \/ UNCHANGED windows)
    BY <1>7 DEF EscKey
  <2>2. WindowsOK' /\ OnScreen' /\ Focused'
    BY <1>4, <2>1, CloseKeeps
  <2> QED BY <1>1, <1>3, <1>6, <2>1, <2>2, FrameKeeps, FocusOpenNext
<1>8. CASE EnterKey
  <2>1. UNCHANGED windows /\ UNCHANGED picture
    BY <1>8 DEF EnterKey
  <2> QED BY <1>1, <1>3, <1>4, <1>5, <2>1, FrameKeeps, FocusOpenNext
<1>9. CASE OpenKey
  <2>1. Repaint(TRUE) /\ ((used # Slot /\ win_open(Min(Slot \ used))) \/ UNCHANGED windows)
    BY <1>9 DEF OpenKey
  <2>2. CASE used # Slot /\ win_open(Min(Slot \ used))
    <3>1. Slot \ used \in SUBSET Nat /\ Slot \ used # {}
      <4>1. Slot \subseteq Nat
        BY DEF Slot
      <4>2. used \subseteq Slot /\ used # Slot
        BY <1>2, <2>2 DEF WindowsOK
      <4>3. Slot \ used # {}
        BY <4>2, Zenon
      <4> QED BY <4>1, <4>3
    <3>2. Min(Slot \ used) \in Slot
      BY <3>1, MinMember
    <3>3. WindowsOK' /\ OnScreen' /\ Focused'
      BY <2>2, <3>2, OpenKeeps
    <3> QED BY <1>1, <1>3, <1>6, <2>1, <3>3, FrameKeeps, FocusOpenNext
  <2>3. CASE UNCHANGED windows
    BY <1>1, <1>3, <1>4, <1>6, <2>1, <2>3, FrameKeeps, FocusOpenNext
  <2> QED BY <2>1, <2>2, <2>3
<1>10. CASE TabKey
  <2> DEFINE w == (focus + Min({k \in 1..MAX_WIN : (focus + k) % MAX_WIN \in used})) % MAX_WIN
  <2>1. \/ used # {} /\ win_raise(w) /\ UNCHANGED <<used, at, cascade>> /\ Repaint(TRUE)
        \/ UNCHANGED <<windows, picture>>
    BY <1>10, Zenon DEF TabKey
  <2>2. used # {} => w \in used
    BY <1>2, NextOpen
  <2> HIDE DEF w
  <2>3. CASE used # {} /\ win_raise(w) /\ UNCHANGED <<used, at, cascade>> /\ Repaint(TRUE)
    <3>1. WindowsOK' /\ OnScreen' /\ Focused'
      BY <2>2, <2>3, RaiseOpen
    <3> QED BY <1>1, <1>3, <1>6, <2>3, <3>1, FrameKeeps, FocusOpenNext
  <2>4. CASE UNCHANGED <<windows, picture>>
    BY <1>1, <1>3, <1>4, <1>5, <2>4, FrameKeeps, FocusOpenNext
  <2> QED BY <2>1, <2>3, <2>4
<1> QED BY <1>7, <1>8, <1>9, <1>10

LEMMA EnterStep ==
  ASSUME Inv, Enter
  PROVE  Inv'
<1>1. /\ pc = "shell" /\ pc' = "pressed" /\ UNCHANGED <<mouse, driver, in, input>>
      /\ used' = 0..2 /\ focus' = 2 /\ lit' = (lit \ 0..1) \cup {2}
      /\ at' = [w \in Slot |-> IF w \in 0..2
                               THEN <<CASCADE_X + (w % Places) * StepX,
                                      CASCADE_Y + (w % Places) * StepY>> ELSE at[w]]
      /\ cascade' = 3 % Places
      /\ drag' = -1 /\ grab' = <<0, 0>>
      /\ need_redraw' = TRUE /\ last' = None /\ stale' = TRUE /\ arrows' = {}
  BY DEF Enter, Loop, None
<1>2. WindowsOK /\ LoopOK
  BY TypeParts DEF Inv
<1>3. ASSUME NEW w \in 0..2 PROVE w \in Slot /\ at'[w] \in Inner
  <2>1. w \in Slot /\ (w % Places) \in 0..(Places - 1)
    BY Sizes DEF Slot
  <2> DEFINE k == w % Places
  <2>2. at'[w] = <<CASCADE_X + k * StepX, CASCADE_Y + k * StepY>>
    BY <1>1, <2>1
  <2>3. k \in 0..(Places - 1)
    BY <2>1
  <2> HIDE DEF k
  <2> QED BY <2>1, <2>2, <2>3, CascadeFits
<1>4. WindowsOK'
  <2>1. at' \in [Slot -> Pixel]
    <3>1. \A w \in Slot : at'[w] \in Pixel
      <4> TAKE w \in Slot
      <4>1. CASE w \in 0..2
        BY <1>3, <4>1, Sizes
      <4>2. CASE w \notin 0..2
        BY <1>1, <1>2, <4>2 DEF WindowsOK
      <4> QED BY <4>1, <4>2
    <3>2. at' = [w \in Slot |-> at'[w]]
      BY <1>1
    <3> QED BY <3>1, <3>2
  <2>2. cascade' \in 0..(Places - 1)
    BY <1>1, Sizes
  <2>3. used' \subseteq Slot /\ lit' \subseteq Slot /\ focus' \in Slot
    BY <1>1, <1>2, <1>3 DEF WindowsOK
  <2> QED BY <2>1, <2>2, <2>3 DEF WindowsOK
<1>5. OnScreen' /\ FocusOpen'
  BY <1>1, <1>3 DEF OnScreen, FocusOpen, Inner
<1>6. LoopOK'
  <2>1. <<0, 0>> \in Pixel
    BY Sizes DEF Pixel
  <2> QED BY <1>1, <1>2, <2>1 DEF LoopOK
<1>7. PictureOK' /\ Painting'
  BY <1>1 DEF PictureOK, Painting, PixelOrNone, None
<1> QED BY <1>1, <1>4, <1>5, <1>6, <1>7, FrameKeeps

LEMMA DrawStep ==
  ASSUME Inv, Draw
  PROVE  Inv'
<1> DEFINE here == <<in.mx, in.my>>
<1>1. /\ pc = "draw" /\ pc' = "pressed" /\ UNCHANGED <<mouse, driver, windows, in, dragging>>
      /\ stale' = (stale /\ ~ Redraws)
      /\ arrows' = (IF Redraws THEN {} ELSE arrows) \cup {here}
      /\ need_redraw' = FALSE /\ last' = here
      /\ (Redraws <=> need_redraw \/ here # last)
  BY DEF Draw, Loop, Redraws
<1>2. WindowsOK /\ LoopOK /\ PictureOK /\ Painting /\ FocusOpen /\ OnScreen
  BY TypeParts DEF Inv
<1>3. here \in Pixel /\ here # None
  <2>1. in.mx \in 0..(GFX_W - 1) /\ in.my \in 0..(GFX_H - 1)
    BY <1>2 DEF LoopOK
  <2>2. in.mx # -1
    BY <2>1, Sizes
  <2> QED BY <2>1, <2>2 DEF Pixel, None
<1> HIDE DEF here
<1>4. /\ used' = used /\ at' = at /\ lit' = lit /\ focus' = focus /\ cascade' = cascade
      /\ drag' = drag /\ grab' = grab /\ in' = in
  BY <1>1 DEF windows, dragging
<1>5. WindowsOK' /\ OnScreen' /\ FocusOpen'
  BY <1>1, <1>2, <1>4 DEF WindowsOK, OnScreen, FocusOpen
<1>6. LoopOK'
  BY <1>1, <1>2, <1>4 DEF LoopOK
<1>7. stale' = FALSE /\ arrows' = {here}
  <2>1. stale => Redraws
    BY <1>1, <1>2, Zenon DEF Painting
  <2>2. stale' = FALSE
    BY <1>1, <1>2, <2>1 DEF PictureOK
  <2>3. CASE Redraws
    BY <1>1, <2>2, <2>3
  <2>4. CASE ~ Redraws
    BY <1>1, <1>2, <1>3, <2>2, <2>4 DEF Painting
  <2> QED BY <2>3, <2>4
<1>8. PictureOK'
  BY <1>1, <1>3, <1>7 DEF PictureOK, PixelOrNone
<1>9. Painting'
  BY <1>1, <1>3, <1>7 DEF Painting
<1> QED BY <1>1, <1>5, <1>6, <1>8, <1>9, FrameKeeps

LEMMA NextInv ==
  ASSUME Inv, [Next]_vars
  PROVE  Inv'
<1>1. CASE UNCHANGED vars
  <2>1. UNCHANGED <<driver, mouse, windows, pc, in, dragging, picture>>
    BY <1>1 DEF vars
  <2>2. WindowsOK' /\ LoopOK' /\ PictureOK' /\ FocusOpen' /\ OnScreen' /\ Painting'
    BY <2>1, LoopKept
  <2>3. /\ m_x' = m_x /\ m_y' = m_y /\ m_buttons' = m_buttons /\ m_prev' = m_prev
        /\ m_pkt' = m_pkt /\ fresh' = fresh /\ wire' = wire /\ pc' = pc
    BY <2>1 DEF driver, mouse
  <2>4. DriverOK /\ Wire /\ Press
    BY TypeParts DEF Inv
  <2>5. DriverOK' /\ Wire'
    BY <2>3, <2>4 DEF DriverOK, Wire
  <2>6. Press'
    BY <2>3, <2>4, Zenon DEF Press
  <2> QED BY <2>2, <2>5, <2>6, TypePartsNext DEF Inv
<1>2. CASE MoveMouse \/ MouseByte \/ LoseByte
  BY <1>2, MouseStep
<1>3. CASE \/ LeftClicked \/ LeftReleased \/ LeftDown \/ PosX \/ PosY \/ NoKey
           \/ Consume("store", "released") \/ Consume("consume", "down")
  BY <1>3, SnapshotStep
<1>4. CASE EscKey \/ EnterKey \/ OpenKey \/ TabKey
  BY <1>4, KeyStep
<1> QED BY <1>1, <1>2, <1>3, <1>4, ClickStep, DragStep, DrawStep, EnterStep DEF Next, Frame

LEMMA Invariance == Spec => []Inv
BY InitInv, NextInv, PTL DEF Spec

------------------------------------------------------------------------------
(* The theorems. *)

\* The pointer, the windows and the snapshot are always places of the screen, and every
\* index of the loop is one of a slot, whatever bytes the mouse sends or loses.
THEOREM DesktopTypes == Spec => []TypeOK
<1>1. Inv => TypeOK
  BY DEF Inv
<1> QED BY <1>1, Invariance, PTL

\* While the desktop runs, the focus is on an open window that is drawn so.
THEOREM FocusOnOpen == Spec => []FocusOpen
<1>1. Inv => FocusOpen
  BY DEF Inv
<1> QED BY <1>1, Invariance, PTL

\* Open windows stay clear of the edges and of the taskbar.
THEOREM StaysOnScreen == Spec => []OnScreen
<1>1. Inv => OnScreen
  BY DEF Inv
<1> QED BY <1>1, Invariance, PTL

\* What Repaint and Draw leave on the screen is what is.
THEOREM PictureCurrent == Spec => []ScreenCurrent
<1>1. Inv => ScreenCurrent
  BY Zenon DEF Inv, Painting, ScreenCurrent, None
<1> QED BY <1>1, Invariance, PTL

\* mouse_left_clicked says yes at most once for a press, wherever IRQ 12 falls between the
\* loads and stores of the two edge detectors.
THEOREM ClickedOnce == Spec => OneClickPerPress
<1>1. ASSUME Inv, [Next]_vars
      PROVE  [pc = "pressed" /\ in'.click /\ pc' = "store" => fresh]_vars
  <2>1. SUFFICES ASSUME pc = "pressed", in'.click, pc' = "store", Next PROVE fresh
    BY <1>1
  <2>2. LeftClicked
    BY <2>1 DEF Next, MoveMouse, MouseByte, LoseByte, LoopOnly, Enter, Frame, Consume, LeftReleased,
                LeftDown, PosX, PosY, Click, Drag, Draw, NoKey, EscKey, EnterKey, OpenKey, TabKey,
                Key, Loop
  <2>3. in' = [in EXCEPT !.click = (m_buttons = 1 /\ m_prev = 0)]
    BY <2>2 DEF LeftClicked, Snapshot
  <2>4. m_buttons = 1 /\ m_prev = 0
    <3>1. in \in [click: BOOLEAN, release: BOOLEAN, down: BOOLEAN,
                  mx: 0..(GFX_W - 1), my: 0..(GFX_H - 1)]
      BY <1>1 DEF Inv, TypeOK
    <3>2. in'.click = (m_buttons = 1 /\ m_prev = 0)
      BY <2>3, <3>1
    <3> QED BY <2>1, <3>2
  <2> QED BY <1>1, <2>1, <2>4 DEF Inv, Press
<1> QED BY <1>1, Invariance, PTL DEF Spec, OneClickPerPress

==============================================================================
