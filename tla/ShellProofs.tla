----------------------------- MODULE ShellProofs -----------------------------
(* Theorems about Keyboard and Shell, for every size of the ring, of the line and
   of the history, every keyboard and every serial terminal.

   The column of the cursor is what FoldLeft makes of a printed string: its value after
   each place of the string exists because there is no least place without one.     *)
EXTENDS Shell, SequenceTheorems, FiniteSetTheorems, WellFoundedInduction, TLAPS

------------------------------------------------------------------------------
(* Indices of a ring of n places. *)

LEMMA RingSize ==
  ASSUME NEW n \in Nat \ {0}, NEW h \in 0..(n - 1), NEW t \in 0..(n - 1)
  PROVE  ((h - t) % n) = (IF t <= h THEN h - t ELSE h - t + n)
OBVIOUS

LEMMA RingPlace ==
  ASSUME NEW n \in Nat \ {0}, NEW t \in 0..(n - 1), NEW i \in 0..n
  PROVE  ((t + i) % n) = (IF t + i < n THEN t + i ELSE t + i - n)
OBVIOUS

\* Fewer than n steps back is another place.
LEMMA RingApart ==
  ASSUME NEW n \in Nat \ {0}, NEW x \in Int, NEW k \in 1..(n - 1)
  PROVE  ((x - k) % n) # (x % n)
<1>1. SUFFICES ASSUME ((x - k) % n) = (x % n) PROVE FALSE
  OBVIOUS
<1> DEFINE q == x \div n
           r == (x - k) \div n
<1>2. q \in Int /\ r \in Int /\ (x % n) \in Int
  OBVIOUS
<1>3. x = n * q + (x % n)
  OBVIOUS
<1>4. x - k = n * r + ((x - k) % n)
  OBVIOUS
<1>5. n * (q - r) = k
  <2>1. n * q - n * r = n * (q - r)
    BY <1>2
  <2> HIDE DEF q, r
  <2> QED BY <1>1, <1>2, <1>3, <1>4, <2>1
<1> DEFINE m == q - r
<1>6. m \in Int /\ n * m = k
  BY <1>2, <1>5
<1> HIDE DEF m
<1>7. CASE m >= 1
  BY <1>6, <1>7
<1>8. CASE m <= 0
  BY <1>6, <1>8
<1> QED BY <1>6, <1>7, <1>8

LEMMA RingIndex ==
  ASSUME NEW n \in Nat \ {0}, NEW x \in Int
  PROVE  (x % n) \in 0..(n - 1)
OBVIOUS

------------------------------------------------------------------------------
(* The keyboard. *)

\* What the keyboard sends keeps the driver's E0 flag in step with it: the code after
\* E0 is never taken for a shift key.
Modifiers == /\ extended = prefixed
             /\ ShiftNotStuck
RingFree  == pc = "advance" => Pending

CodeRange == Code \subseteq 0..511 /\ 0..255 \subseteq Code

LEMMA Codes == CodeRange
BY DEF CodeRange, Code, ExtKeys, KEY_EXT

LEMMA CharCode ==
  ASSUME NEW sc \in 0..255
  PROVE  CharOf(sc) \in 0..255 /\ CharOf(sc) \in Code
<1>1. sc_plain(sc) \in {97, 98, 49, 10, 8, 9, 0}
  BY DEF sc_plain
<1>2. sc_shift(sc) \in {65, 66, 33, 97, 98, 49, 10, 8, 9, 0}
  BY <1>1 DEF sc_shift
<1>3. CharOf(sc) \in 0..255
  BY <1>1, <1>2 DEF CharOf, Lower
<1> QED BY <1>3, Codes DEF CodeRange

\* A code that is offered keeps the ring a ring, and does not fill the last place.
LEMMA EnqueueTypes ==
  ASSUME KeyboardTypeOK, NEW k \in Code, Enqueue(k)
  PROVE  /\ kbuf' \in [0..(KB_BUF_SIZE - 1) -> Code]
         /\ kbuf_head' \in 0..(KB_BUF_SIZE - 1) /\ kbuf_tail' = kbuf_tail
         /\ offered' = offered + 1
         /\ (Pending => Pending')
<1>1. KB_BUF_SIZE \in Nat \ {0} /\ kbuf_head \in 0..(KB_BUF_SIZE - 1)
  BY KeyboardAssumption DEF KeyboardTypeOK
<1>2. After(kbuf_head) \in 0..(KB_BUF_SIZE - 1)
  BY <1>1, RingIndex DEF After
<1> QED BY <1>1, <1>2 DEF Enqueue, KeyboardTypeOK, Pending


\* One byte from the keyboard: the driver offers one code to the ring or none.
LEMMA ByteRing ==
  ASSUME KeyboardTypeOK, KeyInterrupt
  PROVE  UNCHANGED ring \/ \E k \in Code : Enqueue(k)
<1>1. PICK sc \in Bytes \cup ExtBytes \cup {Prefix} :
        PrefixByte(sc) \/ ExtendedByte(sc) \/ ModifierByte(sc) \/ PlainByte(sc)
  BY DEF KeyInterrupt
<1>2. sc \in 0..255
  BY KeyboardAssumption DEF Prefix
<1>3. CASE PrefixByte(sc)
  BY <1>3 DEF PrefixByte
<1>4. CASE ExtendedByte(sc)
  <2>1. sc \in ExtKeys => KEY_EXT + sc \in Code
    BY DEF Code
  <2> QED BY <1>4, <2>1 DEF ExtendedByte
<1>5. CASE ModifierByte(sc)
  BY <1>5 DEF ModifierByte
<1>6. CASE PlainByte(sc)
  BY <1>2, <1>6, CharCode DEF PlainByte
<1> QED BY <1>1, <1>3, <1>4, <1>5, <1>6

LEMMA RingTypes ==
  ASSUME KeyboardTypeOK, KeyInterrupt
  PROVE  /\ kbuf' \in [0..(KB_BUF_SIZE - 1) -> Code]
         /\ kbuf_head' \in 0..(KB_BUF_SIZE - 1) /\ kbuf_tail' = kbuf_tail
         /\ offered' \in Nat
         /\ (Pending => Pending')
<1>1. CASE UNCHANGED ring
  BY <1>1 DEF ring, KeyboardTypeOK, Pending
<1>2. CASE \E k \in Code : Enqueue(k)
  BY <1>2, EnqueueTypes DEF KeyboardTypeOK
<1> QED BY <1>1, <1>2, ByteRing

\* One byte from the keyboard leaves the modifiers as the keys are.
LEMMA ByteModifiers ==
  ASSUME KeyboardTypeOK, Modifiers, KeyInterrupt
  PROVE  KeyboardTypeOK' /\ Modifiers'
<1>1. PICK sc \in Bytes \cup ExtBytes \cup {Prefix} :
        /\ sent < MaxSent /\ sent' = sent + 1
        /\ Sendable(sc)
        /\ prefixed' = (sc = Prefix)
        /\ (~ prefixed /\ sc \in ShiftDown) => held' = held \cup {sc}
        /\ (~ prefixed /\ sc \in ShiftUp) => held' = held \ {sc - 128}
        /\ (prefixed \/ sc \notin ShiftDown \cup ShiftUp) => held' = held
        /\ PrefixByte(sc) \/ ExtendedByte(sc) \/ ModifierByte(sc) \/ PlainByte(sc)
  <2>1. ShiftDown \cap ShiftUp = {}
    BY DEF ShiftDown, ShiftUp
  <2> QED BY <2>1, Zenon DEF KeyInterrupt
<1>2. sc \in 0..255
  BY KeyboardAssumption DEF Prefix
<1>3. held' \subseteq ShiftDown /\ prefixed' \in BOOLEAN /\ sent' \in 0..MaxSent
  <2>1. held' \subseteq ShiftDown
    BY <1>1 DEF KeyboardTypeOK
  <2> QED BY <1>1, <2>1, KeyboardAssumption DEF KeyboardTypeOK
<1>4. /\ shift' \in BOOLEAN /\ caps' \in BOOLEAN /\ extended' \in BOOLEAN
      /\ extended' = prefixed' /\ (shift' => held' # {})
  <2>1. CASE PrefixByte(sc)
    <3>1. held' = held
      BY <1>1, <2>1 DEF PrefixByte, Prefix, ShiftDown, ShiftUp
    <3> QED BY <1>1, <2>1, <3>1
      DEF PrefixByte, PrefixSeen, KeyboardTypeOK, Modifiers, ShiftNotStuck
  <2>2. CASE ExtendedByte(sc)
    <3>1. prefixed /\ held' = held
      BY <1>1, <2>2 DEF ExtendedByte, Modifiers
    <3> QED BY <1>1, <2>2, <3>1
      DEF ExtendedByte, KeyboardTypeOK, Modifiers, ShiftNotStuck
  <2>3. CASE ModifierByte(sc)
    <3>1. ~ prefixed /\ ~ extended /\ extended' = extended /\ sc # Prefix
      BY <2>3 DEF ModifierByte, Modifiers, ShiftDown, ShiftUp, CapsLock, Prefix
    <3>2. CASE sc \in ShiftDown
      BY <1>1, <2>3, <3>1, <3>2
        DEF ModifierByte, KeyboardTypeOK, ShiftDown, CapsLock
    <3>3. CASE sc \in ShiftUp
      BY <1>1, <2>3, <3>1, <3>3
        DEF ModifierByte, KeyboardTypeOK, ShiftDown, ShiftUp, CapsLock
    <3>4. CASE sc = CapsLock
      <4>1. sc \notin ShiftDown \cup ShiftUp
        BY <3>4 DEF ShiftDown, ShiftUp, CapsLock
      <4>2. held' = held /\ prefixed' = FALSE
        BY <1>1, <3>1, <4>1, Zenon
      <4>3. shift' = shift /\ caps' = ~ caps
        BY <2>3, <3>4, Zenon DEF ModifierByte
      <4> QED BY <3>1, <4>2, <4>3, Zenon DEF KeyboardTypeOK, Modifiers, ShiftNotStuck
    <3> QED BY <2>3, <3>2, <3>3, <3>4 DEF ModifierByte
  <2>4. CASE PlainByte(sc)
    <3>1. held' = held /\ prefixed' = FALSE /\ ~ extended
      BY <1>1, <2>4 DEF PlainByte
    <3>2. shift' = shift /\ caps' = caps /\ extended' = extended
      BY <2>4 DEF PlainByte
    <3> QED BY <3>1, <3>2, Zenon DEF KeyboardTypeOK, Modifiers, ShiftNotStuck
  <2> QED BY <1>1, <2>1, <2>2, <2>3, <2>4
<1>5. KeyboardTypeOK'
  BY <1>3, <1>4, RingTypes DEF KeyboardTypeOK
<1> QED BY <1>4, <1>5 DEF Modifiers, ShiftNotStuck

------------------------------------------------------------------------------
(* The line and the history. *)

\* hist holds the last commands of log: the count and the log run on together.
History == /\ log \in Seq(Line) /\ Len(log) = hist_count
           /\ HistoryNewestFirst

Inv == KeyboardTypeOK /\ EditorTypeOK /\ Modifiers /\ RingFree /\ History

LEMMA EmptyLine == <<>> \in Line
BY ShellAssumption DEF Line

LEMMA LineMore ==
  ASSUME NEW l \in Line, NEW k \in Char, Len(l) < LINE_MAX - 1
  PROVE  Append(l, k) \in Line
BY ShellAssumption DEF Line

LEMMA LineLess ==
  ASSUME NEW l \in Line, l # <<>>
  PROVE  Front(l) \in Line
<1>1. l \in Seq(Char) /\ Len(l) \in Nat \ {0} /\ Len(l) < LINE_MAX
  BY EmptySeq DEF Line
<1>2. SubSeq(l, 1, Len(l) - 1) \in Seq(Char) /\ Len(SubSeq(l, 1, Len(l) - 1)) = Len(l) - 1
  <2> DEFINE n == Len(l) - 1
  <2>1. n \in Nat /\ \A k \in 1..n : l[k] \in Char
    BY <1>1
  <2> HIDE DEF n
  <2>2. SubSeq(l, 1, n) \in Seq(Char) /\ Len(SubSeq(l, 1, n)) = n
    BY <2>1, SubSeqProperties
  <2> QED BY <2>2 DEF n
<1> QED BY <1>1, <1>2, ShellAssumption DEF Line, Front

LEMMA LineCompleted ==
  ASSUME NEW l \in Line, NEW n \in 0..(LINE_MAX - 1 - Len(l))
  PROVE  l \o [i \in 1..n |-> 97] \in Line
<1>1. l \in Seq(Char) /\ Len(l) \in Nat /\ LINE_MAX \in Nat /\ n \in Nat
  BY ShellAssumption DEF Line
<1>2. 97 \in Char
  BY Codes DEF CodeRange, Char
<1>3. [i \in 1..n |-> 97] \in Seq(Char) /\ Len([i \in 1..n |-> 97]) = n
  BY <1>1, <1>2, IsASeq
<1>4. l \o [i \in 1..n |-> 97] \in Seq(Char) /\ Len(l \o [i \in 1..n |-> 97]) = Len(l) + n
  <2> DEFINE m == [i \in 1..n |-> 97]
  <2> HIDE DEF m
  <2>1. m \in Seq(Char) /\ Len(m) = n
    BY <1>3 DEF m
  <2>2. l \o m \in Seq(Char) /\ Len(l \o m) = Len(l) + n
    BY <1>1, <2>1, ConcatProperties
  <2> QED BY <2>2 DEF m
<1> DEFINE w == l \o [i \in 1..n |-> 97]
<1> HIDE DEF w
<1>5. w \in Seq(Char) /\ Len(w) = Len(l) + n
  BY <1>4 DEF w
<1>6. w \in Line
  BY <1>1, <1>5, ShellAssumption DEF Line
<1> QED BY <1>6 DEF w

LEMMA HistoryLine ==
  ASSUME Inv, NEW back \in Int
  PROVE  HistGet(back) \in Line
<1>1. (hist_count - 1 - back) \in Int /\ HIST_MAX \in Nat \ {0}
  BY ShellAssumption DEF Inv, EditorTypeOK
<1>2. ((hist_count - 1 - back) % HIST_MAX) \in 0..(HIST_MAX - 1)
  BY <1>1, RingIndex
<1> QED BY <1>2 DEF HistGet, Inv, EditorTypeOK

\* A step that leaves the history alone.
LEMMA HistoryKept ==
  ASSUME History, UNCHANGED <<hist, hist_count, log>>
  PROVE  History'
BY DEF History, HistoryNewestFirst, HasHist, HistGet

\* A command remembered becomes the newest, and every other is one step older; the one
\* whose place it takes is no longer looked up.
LEMMA RememberedHistory ==
  ASSUME Inv, Remember
  PROVE  /\ hist' \in [0..(HIST_MAX - 1) -> Line] /\ hist_count' \in Nat
         /\ History'
<1>1. /\ HIST_MAX \in Nat \ {0} /\ hist_count \in Nat /\ line \in Line
      /\ hist \in [0..(HIST_MAX - 1) -> Line]
      /\ log \in Seq(Line) /\ Len(log) = hist_count
  BY ShellAssumption DEF Inv, EditorTypeOK, History
<1>2. CASE UNCHANGED <<hist, hist_count, log>>
  BY <1>1, <1>2, HistoryKept DEF Inv
<1>3. CASE /\ hist' = [hist EXCEPT ![hist_count % HIST_MAX] = line]
           /\ hist_count' = hist_count + 1
           /\ log' = Append(log, line)
  <2>1. (hist_count % HIST_MAX) \in 0..(HIST_MAX - 1)
    BY <1>1, RingIndex
  <2>2. hist' \in [0..(HIST_MAX - 1) -> Line] /\ hist_count' \in Nat
    BY <1>1, <1>3, <2>1
  <2>3. /\ log' \in Seq(Line) /\ Len(log') = hist_count'
        /\ log'[hist_count'] = line
        /\ \A i \in 1..hist_count : log'[i] = log[i]
    <3> DEFINE new == Append(log, line)
    <3>1. /\ new \in Seq(Line) /\ Len(new) = Len(log) + 1
          /\ \A i \in 1..Len(log) : new[i] = log[i]
          /\ new[Len(log) + 1] = line
      BY <1>1, AppendProperties
    <3>2. log' = new
      BY <1>3
    <3> HIDE DEF new
    <3> QED BY <1>1, <1>3, <3>1, <3>2
  <2>4. ASSUME NEW back \in 0..(HIST_MAX - 1), back < hist_count'
        PROVE  hist'[(hist_count' - 1 - back) % HIST_MAX] = log'[Len(log') - back]
    <3>1. CASE back = 0
      <4>1. (hist_count' - 1 - back) = hist_count
        BY <1>1, <1>3, <3>1
      <4>2. hist'[hist_count % HIST_MAX] = line
        BY <1>1, <1>3, <2>1
      <4>3. log'[Len(log') - back] = line
        BY <1>1, <1>3, <2>3, <3>1
      <4> QED BY <4>1, <4>2, <4>3
    <3>2. CASE back > 0
      <4>1. /\ back - 1 \in 0..(HIST_MAX - 1) /\ back - 1 < hist_count
            /\ back - 1 < HIST_MAX /\ back \in 1..(HIST_MAX - 1)
            /\ hist_count - back \in Int /\ hist_count \in Int
        BY <1>1, <1>3, <2>4, <3>2
      <4>2. hist[(hist_count - 1 - (back - 1)) % HIST_MAX] = log[Len(log) - (back - 1)]
        <5> DEFINE b == back - 1
        <5> HIDE DEF b
        <5>1. b \in 0..(HIST_MAX - 1) /\ b < HIST_MAX /\ b < hist_count
          BY <4>1 DEF b
        <5>2. HasHist(b)
          BY <5>1, Zenon DEF HasHist
        <5>3. HistGet(b) = log[Len(log) - b]
          BY <5>1, <5>2 DEF Inv, History, HistoryNewestFirst
        <5> QED BY <5>3, Zenon DEF b, HistGet
      <4>3. hist_count - 1 - (back - 1) = hist_count - back
        BY <1>1, <4>1
      <4>4. hist_count' - 1 - back = hist_count - back
        BY <1>1, <1>3, <4>1
      <4>5. ((hist_count - back) % HIST_MAX) # (hist_count % HIST_MAX)
        BY <1>1, <4>1, RingApart
      <4>6. ((hist_count - back) % HIST_MAX) \in 0..(HIST_MAX - 1)
        BY <1>1, <4>1, RingIndex
      <4>7. hist'[(hist_count - back) % HIST_MAX] = hist[(hist_count - back) % HIST_MAX]
        BY <1>1, <1>3, <2>1, <4>5, <4>6
      <4>8. /\ Len(log) - (back - 1) \in 1..hist_count
            /\ Len(log') - back = Len(log) - (back - 1)
        BY <1>1, <1>3, <2>3, <2>4, <4>1
      <4>9. log'[Len(log') - back] = log[Len(log) - (back - 1)]
        BY <2>3, <4>8
      <4> QED BY <4>2, <4>3, <4>4, <4>7, <4>9
    <3> QED BY <1>1, <3>1, <3>2
  <2> QED BY <2>2, <2>3, <2>4 DEF History, HistoryNewestFirst, HasHist, HistGet
<1> QED BY <1>2, <1>3, Zenon DEF Remember

------------------------------------------------------------------------------
(* The invariant. *)

LEMMA InitInv == Init => Inv
<1> SUFFICES ASSUME Init PROVE Inv
  OBVIOUS
<1>1. KB_BUF_SIZE \in Nat \ {0} /\ MaxSent \in Nat /\ HIST_MAX \in Nat \ {0} /\ 0 \in Code
  BY KeyboardAssumption, ShellAssumption, Codes DEF CodeRange
<1>2. KeyboardTypeOK
  BY <1>1 DEF Init, KeyboardInit, KeyboardTypeOK
<1>3. EditorTypeOK
  BY <1>1, EmptyLine DEF Init, EditorTypeOK
<1>4. Modifiers /\ RingFree
  BY DEF Init, KeyboardInit, Modifiers, ShiftNotStuck, RingFree
<1>5. History
  BY EmptySeq DEF Init, History, HistoryNewestFirst, HasHist
<1> QED BY <1>2, <1>3, <1>4, <1>5 DEF Inv

\* Serial bytes and prints of a process count as input.
LEMMA InputOnly ==
  ASSUME Inv, sent < MaxSent, sent' = sent + 1,
         UNCHANGED <<ring, shift, caps, extended, held, prefixed>>
  PROVE  KeyboardTypeOK' /\ Modifiers'
<1>1. sent' \in 0..MaxSent
  BY KeyboardAssumption DEF Inv, KeyboardTypeOK
<1>2. KeyboardTypeOK'
  BY <1>1 DEF Inv, KeyboardTypeOK, ring
<1> QED BY <1>2, Zenon DEF Inv, Modifiers, ShiftNotStuck

LEMMA KeyboardKept ==
  ASSUME Inv, UNCHANGED <<ring, modifiers>>
  PROVE  KeyboardTypeOK' /\ Modifiers'
<1>1. KeyboardTypeOK'
  BY DEF Inv, KeyboardTypeOK, ring, modifiers
<1> QED BY <1>1, Zenon DEF Inv, Modifiers, ShiftNotStuck, modifiers

\* A key is worked off: what the loop does to the line and to the history decides.
LEMMA KeyDone ==
  ASSUME Inv, NEW guard, Typed(guard),
         line' \in Line, hist_pos' \in -1..(HIST_MAX - 1),
         Remember \/ UNCHANGED <<hist, hist_count, log>>
  PROVE  Inv'
<1>1. pc' = "get" /\ c' = c /\ UNCHANGED <<ring, modifiers>>
  BY DEF Typed
<1>2. KeyboardTypeOK' /\ Modifiers'
  BY <1>1, KeyboardKept
<1>3. /\ hist' \in [0..(HIST_MAX - 1) -> Line] /\ hist_count' \in Nat
      /\ History'
  <2>1. CASE Remember
    BY <2>1, RememberedHistory
  <2>2. CASE UNCHANGED <<hist, hist_count, log>>
    BY <2>2, HistoryKept DEF Inv, EditorTypeOK
  <2> QED BY <2>1, <2>2
<1>4. EditorTypeOK'
  BY <1>1, <1>3 DEF Inv, EditorTypeOK
<1>5. RingFree'
  BY <1>1 DEF RingFree
<1> QED BY <1>2, <1>3, <1>4, <1>5 DEF Inv

LEMMA KeyChar ==
  ASSUME Inv
  PROVE  /\ Key \in Code /\ Code \subseteq Nat
         /\ (Key \in 32..255 => Key \in Char)
<1>1. c \in Code
  BY DEF Inv, EditorTypeOK
<1> QED BY <1>1, Codes DEF CodeRange, Key, Char

\* Each way a key is worked off keeps the line in its buffer.
LEMMA LineKeys ==
  ASSUME Inv, EnterKey \/ BackspaceKey \/ TabKey \/ PrintableKey \/ OtherKey
  PROVE  Inv'
<1>1. line \in Line /\ hist_pos \in -1..(HIST_MAX - 1) /\ -1 \in -1..(HIST_MAX - 1)
  BY ShellAssumption DEF Inv, EditorTypeOK
<1>2. CASE EnterKey
  BY <1>1, <1>2, EmptyLine, KeyDone DEF EnterKey
<1>3. CASE BackspaceKey
  <2>1. line' \in Line
    <3>1. line # <<>> /\ line' = Front(line)
      BY <1>3, Zenon DEF BackspaceKey, Typed
    <3> QED BY <1>1, <3>1, LineLess
  <2> QED BY <1>1, <1>3, <2>1, KeyDone DEF BackspaceKey
<1>4. CASE TabKey
  <2>1. line' \in Line
    BY <1>1, <1>4, LineCompleted DEF TabKey, Added, SeveralMatch
  <2> QED BY <1>1, <1>4, <2>1, KeyDone DEF TabKey
<1>5. CASE PrintableKey
  <2>1. Key \in 32..255 /\ Room
    BY <1>5 DEF PrintableKey, Typed
  <2>2. line' \in Line
    <3>1. Key \in Char /\ Len(line) < LINE_MAX - 1
      BY <2>1, KeyChar, Zenon DEF Room
    <3>2. Append(line, Key) \in Line
      BY <1>1, <3>1, LineMore
    <3> QED BY <1>5, <3>2, Zenon DEF PrintableKey
  <2> QED BY <1>1, <1>5, <2>2, KeyDone DEF PrintableKey
<1>6. CASE OtherKey
  BY <1>1, <1>6, KeyDone DEF OtherKey, editor
<1> QED BY <1>2, <1>3, <1>4, <1>5, <1>6

LEMMA ArrowKeys ==
  ASSUME Inv, ExtendedKey
  PROVE  Inv'
<1>1. /\ line \in Line /\ hist_pos \in -1..(HIST_MAX - 1) /\ -1 \in -1..(HIST_MAX - 1)
      /\ HIST_MAX \in Nat \ {0}
  BY ShellAssumption DEF Inv, EditorTypeOK
<1>2. Typed(Key > 255)
  BY DEF ExtendedKey
<1>3. \/ HasHist(hist_pos + 1) /\ Recall(hist_pos + 1)
      \/ hist_pos > 0 /\ Recall(hist_pos - 1)
      \/ hist_pos' = -1 /\ line' = <<>> /\ UNCHANGED <<hist, hist_count, log>>
      \/ UNCHANGED editor
  BY Zenon DEF ExtendedKey
<1>4. CASE HasHist(hist_pos + 1) /\ Recall(hist_pos + 1)
  <2>1. hist_pos + 1 \in -1..(HIST_MAX - 1) /\ hist_pos + 1 \in Int
    BY <1>1, <1>4 DEF HasHist
  <2>2. hist_pos' = hist_pos + 1 /\ line' \in Line /\ UNCHANGED <<hist, hist_count, log>>
    BY <1>4, <2>1, HistoryLine DEF Recall
  <2> QED BY <1>2, <2>1, <2>2, KeyDone
<1>5. CASE hist_pos > 0 /\ Recall(hist_pos - 1)
  <2>1. hist_pos - 1 \in -1..(HIST_MAX - 1) /\ hist_pos - 1 \in Int
    BY <1>1, <1>5
  <2>2. hist_pos' = hist_pos - 1 /\ line' \in Line /\ UNCHANGED <<hist, hist_count, log>>
    BY <1>5, <2>1, HistoryLine DEF Recall
  <2> QED BY <1>2, <2>1, <2>2, KeyDone
<1>6. CASE hist_pos' = -1 /\ line' = <<>> /\ UNCHANGED <<hist, hist_count, log>>
  BY <1>1, <1>2, <1>6, EmptyLine, KeyDone
<1>7. CASE UNCHANGED editor
  BY <1>1, <1>2, <1>7, KeyDone DEF editor
<1> QED BY <1>3, <1>4, <1>5, <1>6, <1>7

LEMMA NextInv ==
  ASSUME Inv, [Next]_vars
  PROVE  Inv'
<1>1. CASE Interrupt
  <2>1. KeyboardTypeOK' /\ Modifiers'
    BY <1>1, ByteModifiers DEF Inv, Interrupt
  <2>2. (Pending => Pending') /\ UNCHANGED <<pc, c, editor>>
    BY <1>1, RingTypes DEF Inv, Interrupt, KeyOnly
  <2>3. EditorTypeOK'
    BY <2>2 DEF Inv, EditorTypeOK, editor
  <2>4. RingFree'
    BY <2>2 DEF Inv, RingFree
  <2>5. History'
    BY <2>2, HistoryKept DEF Inv, editor
  <2> QED BY <2>1, <2>3, <2>4, <2>5 DEF Inv
<1>2. CASE ProcessWrites
  <2>1. UNCHANGED <<ring, shift, caps, extended, held, prefixed, pc, c, editor>>
    BY <1>2 DEF ProcessWrites
  <2>2. KeyboardTypeOK' /\ Modifiers'
    BY <1>2, <2>1, InputOnly DEF ProcessWrites
  <2>3. EditorTypeOK'
    BY <2>1 DEF Inv, EditorTypeOK, editor
  <2>4. RingFree'
    BY <2>1 DEF Inv, RingFree, Pending, ring
  <2>5. History'
    BY <2>1, HistoryKept DEF Inv, editor
  <2> QED BY <2>2, <2>3, <2>4, <2>5 DEF Inv
<1>3. CASE ReadKey
  <2>1. UNCHANGED <<ring, modifiers, editor>> /\ Pending
    BY <1>3 DEF ReadKey
  <2>2. KeyboardTypeOK' /\ Modifiers'
    BY <2>1, KeyboardKept
  <2>3. EditorTypeOK'
    BY <1>3, <2>1 DEF Inv, EditorTypeOK, KeyboardTypeOK, editor, ReadKey
  <2>4. RingFree'
    BY <2>1 DEF RingFree, Pending, ring
  <2>5. History'
    BY <2>1, HistoryKept DEF Inv, editor
  <2> QED BY <2>2, <2>3, <2>4, <2>5 DEF Inv
<1>4. CASE Advance
  <2>1. UNCHANGED <<kbuf, kbuf_head, offered, modifiers, c, editor>> /\ pc' = "key"
    BY <1>4 DEF Advance
  <2>2. kbuf_tail' \in 0..(KB_BUF_SIZE - 1)
    BY <1>4, KeyboardAssumption, RingIndex DEF Advance, After, Inv, KeyboardTypeOK
  <2>3. KeyboardTypeOK'
    BY <2>1, <2>2 DEF Inv, KeyboardTypeOK, modifiers
  <2>4. Modifiers'
    BY <2>1, Zenon DEF Inv, Modifiers, ShiftNotStuck, modifiers
  <2>5. EditorTypeOK'
    BY <2>1 DEF Inv, EditorTypeOK, editor
  <2>6. History'
    BY <2>1, HistoryKept DEF Inv, editor
  <2> QED BY <2>1, <2>3, <2>4, <2>5, <2>6 DEF Inv, RingFree
<1>5. CASE ReadSerial
  <2>1. UNCHANGED <<ring, shift, caps, extended, held, prefixed, editor>> /\ pc' = "key"
    BY <1>5 DEF ReadSerial
  <2>2. KeyboardTypeOK' /\ Modifiers'
    BY <1>5, <2>1, InputOnly DEF ReadSerial
  <2>3. c' \in Code
    BY <1>5, ShellAssumption, Codes DEF ReadSerial, CodeRange
  <2>4. EditorTypeOK'
    BY <2>1, <2>3 DEF Inv, EditorTypeOK, editor
  <2>5. History'
    BY <2>1, HistoryKept DEF Inv, editor
  <2> QED BY <2>1, <2>2, <2>4, <2>5 DEF Inv, RingFree
<1>6. CASE EnterKey \/ BackspaceKey \/ TabKey \/ PrintableKey \/ OtherKey
  BY <1>6, LineKeys
<1>7. CASE ExtendedKey
  BY <1>7, ArrowKeys
<1>8. CASE UNCHANGED vars
  <2>1. UNCHANGED <<ring, modifiers, pc, c, editor>>
    BY <1>8 DEF vars
  <2>2. KeyboardTypeOK' /\ Modifiers'
    BY <2>1, KeyboardKept
  <2>3. EditorTypeOK'
    BY <2>1 DEF Inv, EditorTypeOK, editor
  <2>4. RingFree'
    BY <2>1 DEF Inv, RingFree, Pending, ring
  <2>5. History'
    BY <2>1, HistoryKept DEF Inv, editor
  <2> QED BY <2>2, <2>3, <2>4, <2>5 DEF Inv
<1> QED BY <1>1, <1>2, <1>3, <1>4, <1>5, <1>6, <1>7, <1>8 DEF Next

LEMMA Invariance == Spec => []Inv
BY InitInv, NextInv, PTL DEF Spec

\* The driver never believes in a shift key when none is down, through extended codes and
\* their fake shifts.
THEOREM NoStuckShift == Spec => []ShiftNotStuck
<1>1. Inv => ShiftNotStuck
  BY DEF Inv, Modifiers
<1> QED BY <1>1, Invariance, PTL

\* The history ring holds the newest commands, however often it has wrapped.
THEOREM NewestFirst == Spec => []HistoryNewestFirst
<1>1. Inv => HistoryNewestFirst
  BY DEF Inv, History
<1> QED BY <1>1, Invariance, PTL

------------------------------------------------------------------------------
(* The ring as a queue: its contents, for given slots and indices. *)

K == KB_BUF_SIZE
RingOf(b, h, t) == [i \in 1..((h - t) % K) |-> b[(t + i - 1) % K]]

LEMMA RingAfter ==
  ASSUME NEW h \in 0..(K - 1)
  PROVE  After(h) = (IF h + 1 < K THEN h + 1 ELSE 0)
<1>1. K \in Nat \ {0} /\ K > 1
  BY KeyboardAssumption DEF K
<1>2. ((h + 1) % K) = (IF h + 1 < K THEN h + 1 ELSE h + 1 - K)
  <2>1. 1 \in 0..K
    BY <1>1
  <2> QED BY <1>1, <2>1, RingPlace, Zenon
<1>3. After(h) = ((h + 1) % K)
  BY DEF After, K
<1> QED BY <1>1, <1>2, <1>3

LEMMA RingSeq ==
  ASSUME NEW b \in [0..(K - 1) -> Code], NEW h \in 0..(K - 1), NEW t \in 0..(K - 1)
  PROVE  /\ RingOf(b, h, t) \in Seq(Code)
         /\ Len(RingOf(b, h, t)) = (IF t <= h THEN h - t ELSE h - t + K)
         /\ \A i \in 1..Len(RingOf(b, h, t)) :
              RingOf(b, h, t)[i] = b[IF t + i - 1 < K THEN t + i - 1 ELSE t + i - 1 - K]
<1> DEFINE n == IF t <= h THEN h - t ELSE h - t + K
<1>1. K \in Nat \ {0}
  BY KeyboardAssumption DEF K
<1>2. ((h - t) % K) = n /\ n \in 0..(K - 1)
  BY <1>1, RingSize
<1>3. ASSUME NEW i \in 1..n
      PROVE  /\ ((t + i - 1) % K) = (IF t + i - 1 < K THEN t + i - 1 ELSE t + i - 1 - K)
             /\ ((t + i - 1) % K) \in 0..(K - 1)
  <2> DEFINE j == i - 1
  <2>1. j \in 0..K /\ t + i - 1 = t + j
    BY <1>1, <1>2
  <2> HIDE DEF j
  <2>2. ((t + j) % K) = (IF t + j < K THEN t + j ELSE t + j - K)
    BY <1>1, <2>1, RingPlace
  <2>3. ((t + j) % K) \in 0..(K - 1)
    BY <1>1, <2>1, <2>2
  <2> QED BY <2>1, <2>2, <2>3
<1> HIDE DEF n
<1>4. RingOf(b, h, t) = [i \in 1..n |-> b[(t + i - 1) % K]]
  BY <1>2 DEF RingOf
<1>5. \A i \in 1..n : b[(t + i - 1) % K] \in Code
  BY <1>3
<1>6. RingOf(b, h, t) \in Seq(Code) /\ Len(RingOf(b, h, t)) = n
  BY <1>2, <1>4, <1>5, IsASeq
<1>7. \A i \in 1..n :
        RingOf(b, h, t)[i] = b[IF t + i - 1 < K THEN t + i - 1 ELSE t + i - 1 - K]
  BY <1>3, <1>4
<1> QED BY <1>6, <1>7 DEF n

LEMMA RingPut ==
  ASSUME NEW b \in [0..(K - 1) -> Code], NEW h \in 0..(K - 1), NEW t \in 0..(K - 1),
         NEW k \in Code, After(h) # t
  PROVE  /\ Len(RingOf(b, h, t)) < K - 1
         /\ RingOf([b EXCEPT ![h] = k], After(h), t) = Append(RingOf(b, h, t), k)
<1> DEFINE s == RingOf(b, h, t)
           b2 == [b EXCEPT ![h] = k]
           h2 == IF h + 1 < K THEN h + 1 ELSE 0
           u == RingOf(b2, h2, t)
<1>1. K \in Nat \ {0} /\ K > 1
  BY KeyboardAssumption DEF K
<1>2. After(h) = h2
  BY <1>1, RingAfter
<1>3. b2 \in [0..(K - 1) -> Code] /\ h2 \in 0..(K - 1) /\ h2 # t
  BY <1>1, <1>2
<1>4. /\ s \in Seq(Code) /\ Len(s) = (IF t <= h THEN h - t ELSE h - t + K)
      /\ \A i \in 1..Len(s) : s[i] = b[IF t + i - 1 < K THEN t + i - 1 ELSE t + i - 1 - K]
  BY RingSeq
<1>5. /\ u \in Seq(Code) /\ Len(u) = (IF t <= h2 THEN h2 - t ELSE h2 - t + K)
      /\ \A i \in 1..Len(u) : u[i] = b2[IF t + i - 1 < K THEN t + i - 1 ELSE t + i - 1 - K]
  <2> HIDE DEF b2, h2
  <2> QED BY <1>3, RingSeq
<1> HIDE DEF s, u
<1>6. Len(s) < K - 1 /\ Len(u) = Len(s) + 1
  BY <1>1, <1>3, <1>4, <1>5
<1>7. ASSUME NEW i \in 1..Len(u)
      PROVE  u[i] = (IF i = Len(s) + 1 THEN k ELSE s[i])
  <2> DEFINE j == IF t + i - 1 < K THEN t + i - 1 ELSE t + i - 1 - K
  <2>1. j \in 0..(K - 1) /\ (j = h <=> i = Len(s) + 1)
    BY <1>1, <1>4, <1>6
  <2>2. u[i] = b2[j]
    BY <1>5
  <2>3. i # Len(s) + 1 => s[i] = b[j]
    BY <1>4, <1>6
  <2> HIDE DEF j
  <2> QED BY <2>1, <2>2, <2>3
<1>8. /\ Append(s, k) \in Seq(Code) /\ Len(Append(s, k)) = Len(s) + 1
      /\ \A i \in 1..(Len(s) + 1) : Append(s, k)[i] = (IF i = Len(s) + 1 THEN k ELSE s[i])
  BY <1>4, AppendProperties
<1>9. u = Append(s, k)
  BY <1>5, <1>6, <1>7, <1>8, SeqEqual
<1> QED BY <1>2, <1>6, <1>9 DEF s, u

LEMMA RingFull ==
  ASSUME NEW b \in [0..(K - 1) -> Code], NEW h \in 0..(K - 1), NEW t \in 0..(K - 1),
         After(h) = t
  PROVE  Len(RingOf(b, h, t)) = K - 1
<1>1. K \in Nat \ {0} /\ K > 1
  BY KeyboardAssumption DEF K
<1>2. After(h) = (IF h + 1 < K THEN h + 1 ELSE 0)
  BY <1>1, RingAfter
<1>3. Len(RingOf(b, h, t)) = (IF t <= h THEN h - t ELSE h - t + K)
  BY RingSeq
<1> QED BY <1>1, <1>2, <1>3

LEMMA RingTake ==
  ASSUME NEW b \in [0..(K - 1) -> Code], NEW h \in 0..(K - 1), NEW t \in 0..(K - 1),
         h # t
  PROVE  /\ RingOf(b, h, t) # <<>>
         /\ Head(RingOf(b, h, t)) = b[t]
         /\ RingOf(b, h, After(t)) = Tail(RingOf(b, h, t))
<1> DEFINE s == RingOf(b, h, t)
           t2 == IF t + 1 < K THEN t + 1 ELSE 0
           u == RingOf(b, h, t2)
<1>1. K \in Nat \ {0} /\ K > 1
  BY KeyboardAssumption DEF K
<1>2. After(t) = t2 /\ t2 \in 0..(K - 1)
  BY <1>1, RingAfter
<1>3. /\ s \in Seq(Code) /\ Len(s) = (IF t <= h THEN h - t ELSE h - t + K)
      /\ \A i \in 1..Len(s) : s[i] = b[IF t + i - 1 < K THEN t + i - 1 ELSE t + i - 1 - K]
  BY RingSeq
<1>4. /\ u \in Seq(Code) /\ Len(u) = (IF t2 <= h THEN h - t2 ELSE h - t2 + K)
      /\ \A i \in 1..Len(u) : u[i] = b[IF t2 + i - 1 < K THEN t2 + i - 1 ELSE t2 + i - 1 - K]
  <2> HIDE DEF t2
  <2> QED BY <1>2, RingSeq
<1> HIDE DEF s, u
<1>5. Len(s) \in Nat \ {0} /\ Len(u) = Len(s) - 1
  BY <1>1, <1>3, <1>4
<1>6. s # <<>> /\ s[1] = b[t]
  BY <1>1, <1>3, <1>5
<1>7. /\ Tail(s) \in Seq(Code) /\ Len(Tail(s)) = Len(s) - 1
      /\ \A i \in 1..(Len(s) - 1) : Tail(s)[i] = s[i + 1]
      /\ Head(s) = s[1]
  BY <1>3, <1>6, HeadTailProperties
<1>8. ASSUME NEW i \in 1..Len(u)
      PROVE  u[i] = s[i + 1]
  <2>1. i \in 1..Len(u) /\ i \in Nat /\ i + 1 \in 1..Len(s)
    BY <1>4, <1>5
  <2>2. (IF t2 + i - 1 < K THEN t2 + i - 1 ELSE t2 + i - 1 - K)
          = (IF t + (i + 1) - 1 < K THEN t + (i + 1) - 1 ELSE t + (i + 1) - 1 - K)
    <3>1. CASE t + 1 < K
      BY <1>1, <2>1, <3>1
    <3>2. CASE ~ (t + 1 < K)
      <4>1. t = K - 1 /\ t2 = 0 /\ i - 1 < K
        <5>1. t = K - 1 /\ t2 = 0
          BY <1>1, <3>2
        <5>2. Len(u) <= K - 1
          BY <1>1, <1>4, <5>1
        <5> QED BY <1>1, <2>1, <5>1, <5>2
      <4> HIDE DEF t2
      <4> QED BY <1>1, <2>1, <4>1
    <3> QED BY <3>1, <3>2
  <2> HIDE DEF t2
  <2>3. u[i] = b[IF t2 + i - 1 < K THEN t2 + i - 1 ELSE t2 + i - 1 - K]
    BY <1>4, <2>1
  <2>4. s[i + 1] = b[IF t + (i + 1) - 1 < K THEN t + (i + 1) - 1 ELSE t + (i + 1) - 1 - K]
    BY <1>3, <2>1
  <2> QED BY <2>2, <2>3, <2>4
<1>9. u = Tail(s)
  BY <1>4, <1>5, <1>7, <1>8, SeqEqual
<1> QED BY <1>2, <1>6, <1>7, <1>9 DEF s, u

------------------------------------------------------------------------------
(* The refinement of KeyQueue. *)

\* What the abstract queue holds: from the read of a code on, its slot counts as free.
Queue == IF pc = "advance" THEN Tail(Contents) ELSE Contents

LEMMA ContentsRing == Contents = RingOf(kbuf, kbuf_head, kbuf_tail)
BY DEF Contents, RingOf, K

LEMMA ContentsRingNext == Contents' = RingOf(kbuf', kbuf_head', kbuf_tail')
BY DEF Contents, RingOf, K

LEMMA ContentsCodes ==
  ASSUME Inv
  PROVE  /\ kbuf \in [0..(K - 1) -> Code] /\ kbuf_head \in 0..(K - 1) /\ kbuf_tail \in 0..(K - 1)
         /\ Contents \in Seq(Code) /\ Len(Contents) \in Nat /\ K - 1 \in Nat
         /\ (Pending => Contents # <<>>)
         /\ (pc = "advance" => Contents # <<>>)
<1>1. kbuf \in [0..(K - 1) -> Code] /\ kbuf_head \in 0..(K - 1) /\ kbuf_tail \in 0..(K - 1)
  BY DEF K, Inv, KeyboardTypeOK
<1>2. Contents \in Seq(Code)
  BY <1>1, RingSeq, ContentsRing
<1>3. Pending => Contents # <<>>
  BY <1>1, RingTake, ContentsRing DEF Pending
<1>4. pc = "advance" => Pending
  BY DEF Inv, RingFree
<1>5. K - 1 \in Nat
  BY KeyboardAssumption DEF K
<1> QED BY <1>1, <1>2, <1>3, <1>4, <1>5

\* IRQ 1 puts a code in, wherever the reader stands, or drops it when the ring is full.
LEMMA PutStep ==
  ASSUME Inv, NEW k \in Code, Enqueue(k), pc' = pc, c' = c
  PROVE  Keys!Put(k)
<1>1. /\ kbuf \in [0..(K - 1) -> Code] /\ kbuf_head \in 0..(K - 1) /\ kbuf_tail \in 0..(K - 1)
      /\ Contents \in Seq(Code) /\ Len(Contents) \in Nat /\ K - 1 \in Nat
      /\ (pc = "advance" => Contents # <<>>)
  BY ContentsCodes
<1>2. pc = "advance" => /\ Tail(Contents) \in Seq(Code) /\ Len(Tail(Contents)) = Len(Contents) - 1
                        /\ Len(Tail(Contents)) \in Nat
  BY <1>1, HeadTailProperties
<1>3. offered' = offered + 1 /\ kbuf_tail' = kbuf_tail
  BY DEF Enqueue
<1>4. CASE /\ After(kbuf_head) # kbuf_tail
           /\ kbuf' = [kbuf EXCEPT ![kbuf_head] = k]
           /\ kbuf_head' = After(kbuf_head)
  <2>1. Len(Contents) < K - 1 /\ Contents' = Append(Contents, k)
    BY <1>1, <1>3, <1>4, RingPut, ContentsRing, ContentsRingNext
  <2>2. pc = "advance" => Tail(Append(Contents, k)) = Append(Tail(Contents), k)
    BY <1>1, HeadTailAppend
  <2>3. Len(Queue) < K - 1 /\ Queue' = Append(Queue, k)
    <3>1. CASE pc = "advance"
      <4>1. Queue = Tail(Contents) /\ Queue' = Tail(Contents')
        BY <3>1 DEF Queue
      <4> QED BY <1>1, <1>2, <2>1, <2>2, <3>1, <4>1
    <3>2. CASE pc # "advance"
      <4>1. Queue = Contents /\ Queue' = Contents'
        BY <3>2 DEF Queue
      <4> QED BY <2>1, <4>1
    <3> QED BY <3>1, <3>2
  <2> QED BY <1>3, <2>3 DEF Keys!Put, Queue, K
<1>5. CASE After(kbuf_head) = kbuf_tail /\ UNCHANGED <<kbuf, kbuf_head>>
  <2>1. Len(Contents) = K - 1 /\ Contents' = Contents
    BY <1>1, <1>3, <1>5, RingFull, ContentsRing, ContentsRingNext
  <2>2. Queue' = Queue
    BY <2>1 DEF Queue
  <2>3. Len(Queue) + 1 >= K - 1
    BY <1>1, <1>2, <2>1 DEF Queue
  <2> QED BY <1>3, <2>2, <2>3 DEF Keys!Put, Queue, K
<1> QED BY <1>4, <1>5 DEF Enqueue

LEMMA SameQueue ==
  ASSUME UNCHANGED ring, pc # "advance", pc' # "advance"
  PROVE  Queue' = Queue /\ offered' = offered
<1>1. Contents' = Contents
  BY ContentsRing, ContentsRingNext DEF ring
<1> QED BY <1>1 DEF Queue, ring

LEMMA QueueStep ==
  ASSUME Inv, [Next]_vars
  PROVE  [Keys!Next]_<<Queue, c, offered>>
<1>1. CASE Interrupt
  <2>1. KeyInterrupt /\ pc' = pc /\ c' = c
    BY <1>1 DEF Interrupt, KeyOnly
  <2>2. CASE UNCHANGED ring
    <3>1. Contents' = Contents
      BY <2>2, ContentsRing, ContentsRingNext DEF ring
    <3> QED BY <2>1, <2>2, <3>1 DEF Queue, ring
  <2>3. CASE \E k \in Code : Enqueue(k)
    BY <2>1, <2>3, PutStep DEF Keys!Next
  <2> QED BY <2>1, <2>2, <2>3, ByteRing DEF Inv
<1>2. CASE ReadKey
  <2>1. /\ pc = "get" /\ Pending /\ c' = kbuf[kbuf_tail] /\ pc' = "advance"
        /\ kbuf' = kbuf /\ kbuf_head' = kbuf_head /\ kbuf_tail' = kbuf_tail
        /\ offered' = offered
    BY <1>2 DEF ReadKey, ring
  <2>2. Queue = Contents /\ Queue' = Tail(Contents)
    BY <2>1, ContentsRing, ContentsRingNext DEF Queue
  <2>3. Contents # <<>> /\ Head(Contents) = kbuf[kbuf_tail]
    BY <2>1, ContentsCodes, RingTake, ContentsRing DEF Pending
  <2>4. Keys!Take
    BY <2>1, <2>2, <2>3 DEF Keys!Take, Queue
  <2> QED BY <2>4 DEF Keys!Next
<1>3. CASE Advance
  <2>1. /\ pc = "advance" /\ pc' # "advance" /\ kbuf_tail' = After(kbuf_tail)
        /\ kbuf' = kbuf /\ kbuf_head' = kbuf_head /\ offered' = offered /\ c' = c
    BY <1>3 DEF Advance
  <2>2. kbuf_head # kbuf_tail
    BY <2>1 DEF Inv, RingFree, Pending
  <2>3. Contents' = Tail(Contents)
    BY <2>1, <2>2, ContentsCodes, RingTake, ContentsRing, ContentsRingNext
  <2> QED BY <2>1, <2>3 DEF Queue
<1>4. CASE ReadSerial
  <2>1. c' \in Code
    BY <1>4, ShellAssumption, Codes DEF ReadSerial, CodeRange
  <2>2. Queue' = Queue /\ offered' = offered
    BY <1>4, SameQueue DEF ReadSerial
  <2>3. Keys!TakeOther
    BY <2>1, <2>2 DEF Keys!TakeOther, Queue
  <2> QED BY <2>3 DEF Keys!Next
<1>5. CASE EnterKey \/ BackspaceKey \/ TabKey \/ ExtendedKey \/ PrintableKey \/ OtherKey
  <2>1. pc = "key" /\ pc' = "get" /\ UNCHANGED ring /\ c' = c
    BY <1>5, Zenon
      DEF EnterKey, BackspaceKey, TabKey, ExtendedKey, PrintableKey, OtherKey, Typed
  <2> QED BY <2>1, SameQueue
<1>6. CASE ProcessWrites \/ UNCHANGED vars
  <2>1. UNCHANGED ring /\ pc' = pc /\ c' = c
    BY <1>6 DEF ProcessWrites, vars
  <2>2. Contents' = Contents
    BY <2>1, ContentsRing, ContentsRingNext DEF ring
  <2> QED BY <2>1, <2>2 DEF Queue, ring
<1> QED BY <1>1, <1>2, <1>3, <1>4, <1>5, <1>6 DEF Next

\* The ring of keyboard.c is the queue KeyQueue promises, for every size of it and
\* wherever IRQ 1 falls in keyboard_getc.
THEOREM RingIsQueue == Spec => KeysInOrder
<1>1. Init => Queue = <<>> /\ c = 0 /\ offered = 0
  <2> SUFFICES ASSUME Init PROVE Queue = <<>>
    BY DEF Init, KeyboardInit
  <2>1. Inv /\ pc # "advance" /\ kbuf_head = 0 /\ kbuf_tail = 0
    BY InitInv DEF Init, KeyboardInit
  <2>2. Len(Contents) = 0 /\ Contents \in Seq(Code)
    BY <2>1, ContentsCodes, RingSeq, ContentsRing
  <2> QED BY <2>1, <2>2, EmptySeq DEF Queue
<1>2. Init => Keys!Init
  BY <1>1 DEF Keys!Init, Queue
<1>3. Inv /\ [Next]_vars => [Keys!Next]_<<Queue, c, offered>>
  BY QueueStep
<1> QED BY <1>2, <1>3, Invariance, PTL DEF Spec, KeysInOrder, Keys!Spec, Queue

------------------------------------------------------------------------------
(* FoldLeft over a string, place by place. *)

\* A non-empty set of naturals has a least element.
LEMMA HasLeast ==
  ASSUME NEW S \in SUBSET Nat, S # {}
  PROVE  \E n \in S : \A m \in S : n <= m
<1> DEFINE Initial == {0..(n-1) : n \in S}
<1>1. Initial \subseteq FiniteSubsetsOf(Nat) /\ Initial # {}
  <2>1. ASSUME NEW n \in S PROVE 0..(n-1) \in SUBSET Nat /\ IsFiniteSet(0..(n-1))
    <3>1. 0 \in Int /\ n-1 \in Int /\ 0..(n-1) \in SUBSET Nat
      OBVIOUS
    <3> QED BY <3>1, FS_Interval
  <2> QED BY <2>1, Zenon DEF FiniteSubsetsOf
<1>2. PICK x \in Initial : \A y \in Initial : ~ (<<y, x>> \in StrictSubsetOrdering(Nat))
  <2>1. IsWellFoundedOn(StrictSubsetOrdering(Nat), FiniteSubsetsOf(Nat))
    BY FS_StrictSubsetOrderingWellFounded
  <2> HIDE DEF Initial
  <2> QED BY <1>1, <2>1, WFMin
<1>3. PICK n \in S : x = 0..(n-1)
  OBVIOUS
<1>4. ASSUME NEW m \in S PROVE n <= m
  <2>1. SUFFICES ASSUME m < n PROVE FALSE
    OBVIOUS
  <2>2. 0..(m-1) \in Initial /\ 0..(m-1) \subseteq 0..(n-1) /\ 0..(m-1) # 0..(n-1)
    <3>1. m \in 0..(n-1) /\ m \notin 0..(m-1)
      BY <2>1
    <3> QED BY <2>1, <3>1
  <2>3. <<0..(m-1), 0..(n-1)>> \in StrictSubsetOrdering(Nat)
    <3> DEFINE a == 0..(m-1)
               b == 0..(n-1)
    <3>1. a \in SUBSET Nat /\ b \in SUBSET Nat /\ a \subseteq b /\ a # b
      BY <2>2
    <3> HIDE DEF a, b, Initial
    <3>2. <<a, b>> \in StrictSubsetOrdering(Nat)
      BY <3>1 DEF StrictSubsetOrdering
    <3> QED BY <3>2 DEF a, b
  <2>4. 0..(m-1) \in Initial
    BY <2>2
  <2> HIDE DEF Initial
  <2>5. ~ (<<0..(m-1), 0..(n-1)>> \in StrictSubsetOrdering(Nat))
    BY <1>2, <1>3, <2>4, Zenon
  <2> QED BY <2>3, <2>5, Zenon
<1> QED BY <1>4

\* h is what FoldLeft computes over s, for the sets of its first k places.
Folds(h, x, s, k) ==
  h = [t \in SUBSET (1..k) |->
         IF t = {} THEN x ELSE Moved(h[t \ {Max(t)}], s[Max(t)])]

LEMMA LastPlace ==
  ASSUME NEW k \in Nat, NEW t \in SUBSET (1..k), k \in t
  PROVE  Max(t) = k
<1>1. \A y \in t : k >= y
  OBVIOUS
<1>2. \A z \in t : (\A y \in t : z >= y) => z = k
  OBVIOUS
<1> QED BY <1>1, <1>2, Zenon DEF Max

\* One place more: the function extended to the sets with place k.
LEMMA FoldsOn ==
  ASSUME NEW x, NEW s, NEW k \in Nat \ {0}, NEW h, Folds(h, x, s, k - 1)
  PROVE  \E g : Folds(g, x, s, k)
<1> DEFINE g == [t \in SUBSET (1..k) |->
                   IF k \in t THEN Moved(h[t \ {k}], s[k]) ELSE h[t]]
<1>1. SUFFICES ASSUME NEW t \in SUBSET (1..k)
               PROVE  g[t] = IF t = {} THEN x ELSE Moved(g[t \ {Max(t)}], s[Max(t)])
  <2>1. g = [t \in SUBSET (1..k) |->
               IF t = {} THEN x ELSE Moved(g[t \ {Max(t)}], s[Max(t)])]
    BY <1>1
  <2> QED BY <2>1 DEF Folds
<1>2. \A u \in SUBSET (1..(k - 1)) :
        /\ g[u] = h[u]
        /\ h[u] = IF u = {} THEN x ELSE Moved(h[u \ {Max(u)}], s[Max(u)])
  <2> TAKE u \in SUBSET (1..(k - 1))
  <2>1. u \in SUBSET (1..k) /\ k \notin u
    OBVIOUS
  <2>2. g[u] = h[u]
    BY <2>1
  <2> HIDE DEF g
  <2> QED BY <2>2 DEF Folds
<1>3. CASE k \in t
  <2>1. t \ {k} \in SUBSET (1..(k - 1))
    OBVIOUS
  <2>2. g[t] = Moved(h[t \ {k}], s[k])
    BY <1>3
  <2>3. g[t \ {k}] = h[t \ {k}] /\ Max(t) = k /\ t # {}
    BY <1>2, <1>3, <2>1, LastPlace
  <2> HIDE DEF g
  <2> QED BY <2>2, <2>3
<1>4. CASE k \notin t
  <2>1. t \in SUBSET (1..(k - 1))
    BY <1>4
  <2>2. t \ {Max(t)} \in SUBSET (1..(k - 1))
    <3> DEFINE top == Max(t)
    <3> HIDE DEF top
    <3>1. t \ {top} \in SUBSET (1..(k - 1))
      BY <2>1, Zenon
    <3> QED BY <3>1 DEF top
  <2> HIDE DEF g
  <2> QED BY <1>2, <2>1, <2>2
<1> QED BY <1>3, <1>4

LEMMA FoldsExist ==
  ASSUME NEW x, NEW s, NEW n \in Nat
  PROVE  \E h : Folds(h, x, s, n)
<1> DEFINE Bad == {k \in Nat : ~ \E h : Folds(h, x, s, k)}
<1>1. 0 \notin Bad
  <2> DEFINE h == [t \in SUBSET (1..0) |-> x]
  <2>1. \A t \in SUBSET (1..0) : t = {}
    OBVIOUS
  <2>2. h = [t \in SUBSET (1..0) |->
               IF t = {} THEN x ELSE Moved(h[t \ {Max(t)}], s[Max(t)])]
    BY <2>1, Zenon
  <2> QED BY <2>2 DEF Folds
<1>2. SUFFICES ASSUME n \in Bad PROVE FALSE
  BY Zenon
<1>3. PICK k \in Bad : \A m \in Bad : k <= m
  <2>1. Bad \in SUBSET Nat /\ Bad # {}
    BY <1>2
  <2> HIDE DEF Bad
  <2> QED BY <2>1, HasLeast
<1>4. k \in Nat \ {0} /\ k - 1 \in Nat /\ ~ (k <= k - 1)
  BY <1>1, <1>3
<1>5. \E h : Folds(h, x, s, k - 1)
  BY <1>3, <1>4
<1>6. \E g : Folds(g, x, s, k)
  BY <1>4, <1>5, FoldsOn
<1> QED BY <1>3, <1>6

\* The column after string s, from column x.
Folded(x, s) == FoldLeft(Moved, x, s)

\* What FoldLeft computes over a string, place by place.
LEMMA FoldPlaces ==
  ASSUME NEW x, NEW s, NEW n \in Nat, DOMAIN s = 1..n
  PROVE  \E g : /\ g[0] = x
                /\ \A i \in 1..n : g[i] = Moved(g[i - 1], s[i])
                /\ Folded(x, s) = g[n]
<1> DEFINE h == CHOOSE h : Folds(h, x, s, n)
           g == [i \in 0..n |-> h[1..i]]
<1>1. Folds(h, x, s, n)
  BY FoldsExist, Zenon
<1>2. Folded(x, s) = h[1..n]
  <2>1. Folded(x, s) =
          (CHOOSE iter : iter = [t \in SUBSET DOMAIN s |->
             IF t = {} THEN x ELSE Moved(iter[t \ {Max(t)}], s[Max(t)])])[DOMAIN s]
    BY Zenon DEF Folded, FoldLeft, MapThenFoldSet
  <2> QED BY <2>1, Zenon DEF Folds
<1> HIDE DEF h
<1>3. h[{}] = x
  BY <1>1 DEF Folds
<1>4. ASSUME NEW i \in 1..n PROVE h[1..i] = Moved(h[1..(i - 1)], s[i])
  <2>1. 1..i \in SUBSET (1..n) /\ 1..i # {} /\ i \in 1..i /\ i \in Nat
    OBVIOUS
  <2>2. Max(1..i) = i
    BY <2>1, LastPlace
  <2>3. h[1..i] = Moved(h[(1..i) \ {Max(1..i)}], s[Max(1..i)])
    <3> DEFINE t == 1..i
    <3> HIDE DEF t
    <3>1. t \in SUBSET (1..n) /\ t # {}
      BY <2>1 DEF t
    <3>2. h[t] = Moved(h[t \ {Max(t)}], s[Max(t)])
      BY <1>1, <3>1 DEF Folds
    <3> QED BY <3>2 DEF t
  <2>4. (1..i) \ {i} = 1..(i - 1)
    OBVIOUS
  <2> QED BY <2>2, <2>3, <2>4
<1>5. g[0] = x /\ g[n] = h[1..n]
  <2>1. 0 \in 0..n /\ n \in 0..n /\ 1..0 = {}
    OBVIOUS
  <2> QED BY <1>3, <2>1
<1>6. ASSUME NEW i \in 1..n PROVE g[i] = Moved(g[i - 1], s[i])
  <2>1. i \in 0..n /\ i - 1 \in 0..n
    OBVIOUS
  <2> QED BY <1>4, <2>1
<1> HIDE DEF g
<1> QED BY <1>2, <1>5, <1>6

------------------------------------------------------------------------------
(* The column of the cursor. *)

Column == 0..(VGA_WIDTH - 1)
Plain(l) == \A i \in 1..Len(l) : l[i] \notin {8, 9, 10, 13}

LEMMA MovedColumn ==
  ASSUME NEW x \in Column, NEW ch
  PROVE  /\ Moved(x, ch) \in Column
         /\ ch \in {10, 13} => Moved(x, ch) = 0
         /\ ch = 8 => Moved(x, ch) = (IF x > 0 THEN x - 1 ELSE 0)
         /\ ch \notin {8, 9, 10, 13} /\ x + 1 < VGA_WIDTH => Moved(x, ch) = x + 1
<1>0. x \in Nat /\ x < VGA_WIDTH /\ VGA_WIDTH \in Nat \ {0} /\ 0 \in Column
  BY ShellAssumption DEF Column
<1>1. \A y \in Nat : Wrapped(y) \in Column /\ (y < VGA_WIDTH => Wrapped(y) = y)
  BY <1>0 DEF Wrapped, Column
<1>2. x + 1 \in Nat
  BY <1>0
<1>3. CASE ch \in {10, 13}
  <2>1. Moved(x, ch) = 0 /\ ch # 8
    BY <1>3 DEF Moved
  <2> QED BY <1>0, <1>3, <2>1
<1>4. CASE ch = 9
  <2> DEFINE y == ((x + 4) \div 4) * 4
  <2>1. y \in Nat
    BY <1>0
  <2>2. Moved(x, ch) = Wrapped(y)
    <3>1. ch \notin {10, 13}
      BY <1>4
    <3> QED BY <1>4, <3>1, Zenon DEF Moved
  <2> HIDE DEF y
  <2> QED BY <1>1, <1>4, <2>1, <2>2
<1>5. CASE ch = 8
  <2>1. Moved(x, ch) = IF x > 0 THEN x - 1 ELSE 0
    BY <1>5 DEF Moved
  <2>2. Moved(x, ch) \in Column
    BY <1>0, <2>1 DEF Column
  <2> QED BY <1>5, <2>1, <2>2
<1>6. CASE ch \notin {8, 9, 10, 13}
  <2>1. Moved(x, ch) = Wrapped(x + 1)
    BY <1>6 DEF Moved
  <2> QED BY <1>1, <1>2, <1>6, <2>1
<1> QED BY <1>3, <1>4, <1>5, <1>6

\* g holds the column after each place of s.
Columns(g, x, s, n) ==
  /\ g[0] = x
  /\ \A i \in 1..n : g[i] = Moved(g[i - 1], s[i])
  /\ Folded(x, s) = g[n]
  /\ \A i \in 0..n : g[i] \in Column

\* No string takes the cursor off the screen.
LEMMA FoldColumns ==
  ASSUME NEW x \in Column, NEW s, NEW n \in Nat, DOMAIN s = 1..n
  PROVE  \E g : Columns(g, x, s, n)
<1>1. PICK g : /\ g[0] = x
               /\ \A i \in 1..n : g[i] = Moved(g[i - 1], s[i])
               /\ Folded(x, s) = g[n]
  BY FoldPlaces
<1> DEFINE Off == {i \in 0..n : g[i] \notin Column}
<1>2. ASSUME Off # {} PROVE FALSE
  <2>1. PICK i \in Off : \A m \in Off : i <= m
    <3>1. Off \in SUBSET Nat
      OBVIOUS
    <3> HIDE DEF Off
    <3> QED BY <1>2, <3>1, HasLeast
  <2>2. i \in 0..n /\ g[i] \notin Column
    BY <2>1
  <2>3. i \in 1..n /\ i - 1 \in 0..n /\ ~ (i <= i - 1)
    <3>1. i # 0
      BY <1>1, <2>2
    <3> QED BY <2>2, <3>1
  <2>4. g[i - 1] \in Column
    BY <2>1, <2>3
  <2>5. g[i] \in Column
    BY <1>1, <2>3, <2>4, MovedColumn
  <2> QED BY <2>2, <2>5
<1>3. \A i \in 0..n : g[i] \in Column
  BY <1>2
<1>4. Columns(g, x, s, n)
  BY <1>1, <1>3 DEF Columns
<1> QED BY <1>4

LEMMA FoldColumn ==
  ASSUME NEW x \in Column, NEW s, NEW n \in Nat, DOMAIN s = 1..n
  PROVE  Folded(x, s) \in Column
<1>1. n \in 0..n
  OBVIOUS
<1> QED BY <1>1, FoldColumns DEF Columns

\* Plain characters move it on, one column each.
LEMMA FoldText ==
  ASSUME NEW x \in Column, NEW s, NEW n \in Nat, NEW g, Columns(g, x, s, n),
         NEW u \in 0..n, NEW y \in Nat, g[u] = y,
         \A i \in (u + 1)..n : s[i] \notin {8, 9, 10, 13},
         y + (n - u) < VGA_WIDTH
  PROVE  Folded(x, s) = y + (n - u)
<1>1. /\ g[0] = x
      /\ \A i \in 1..n : g[i] = Moved(g[i - 1], s[i])
      /\ Folded(x, s) = g[n]
      /\ \A i \in 0..n : g[i] \in Column
  BY DEF Columns
<1>2. g[u] = y
  OBVIOUS
<1> DEFINE Off == {i \in u..n : g[i] # y + (i - u)}
<1>3. ASSUME Off # {} PROVE FALSE
  <2>1. PICK i \in Off : \A m \in Off : i <= m
    <3>1. Off \in SUBSET Nat
      OBVIOUS
    <3> HIDE DEF Off
    <3> QED BY <1>3, <3>1, HasLeast
  <2>2. i \in u..n /\ g[i] # y + (i - u)
    BY <2>1
  <2>3. i \in (u + 1)..n /\ i \in 1..n /\ i - 1 \in u..n /\ i - 1 \in 0..n /\ ~ (i <= i - 1)
    <3>1. i # u
      BY <1>2, <2>2
    <3> QED BY <2>2, <3>1
  <2>4. g[i - 1] = y + ((i - 1) - u)
    BY <2>1, <2>3
  <2>5. g[i - 1] + 1 < VGA_WIDTH
    BY <2>3, <2>4, ShellAssumption
  <2>6. Moved(g[i - 1], s[i]) = g[i - 1] + 1
    <3>1. g[i - 1] \in Column /\ s[i] \notin {8, 9, 10, 13}
      BY <1>1, <2>3
    <3> QED BY <2>5, <3>1, MovedColumn
  <2> QED BY <1>1, <2>2, <2>3, <2>4, <2>6
<1>4. n \in u..n
  OBVIOUS
<1>5. g[n] = y + (n - u)
  BY <1>3, <1>4
<1> QED BY <1>1, <1>5

\* Backspace, space, backspace: one column back.
LEMMA FoldRubOut ==
  ASSUME NEW x \in Column, x > 0
  PROVE  Folded(x, RubOut) = x - 1
<1>1. /\ DOMAIN RubOut = 1..3 /\ RubOut[1] = 8 /\ RubOut[2] = 32 /\ RubOut[3] = 8
      /\ 3 \in Nat /\ 0 \in 0..3 /\ 1 \in 0..3 /\ 2 \in 0..3
      /\ 1 \in 1..3 /\ 2 \in 1..3 /\ 3 \in 1..3
  BY DEF RubOut
<1>0. PICK g : Columns(g, x, RubOut, 3)
  BY <1>1, FoldColumns
<1>2. /\ g[0] = x
      /\ \A i \in 1..3 : g[i] = Moved(g[i - 1], RubOut[i])
      /\ Folded(x, RubOut) = g[3]
      /\ \A i \in 0..3 : g[i] \in Column
  BY <1>0 DEF Columns
<1>3. g[1] = Moved(x, 8) /\ g[2] = Moved(g[1], 32) /\ g[3] = Moved(g[2], 8)
  BY <1>1, <1>2
<1>4. x \in Nat /\ x < VGA_WIDTH /\ VGA_WIDTH \in Nat
  BY ShellAssumption DEF Column
<1>5. g[1] = x - 1
  BY <1>3, MovedColumn
<1>6. g[2] = x
  <2>1. g[1] \in Column /\ g[1] + 1 < VGA_WIDTH
    BY <1>1, <1>2, <1>4, <1>5
  <2>2. 32 \notin {8, 9, 10, 13}
    OBVIOUS
  <2>3. g[2] = g[1] + 1
    BY <1>3, <2>1, <2>2, MovedColumn
  <2> QED BY <1>4, <1>5, <2>3
<1>7. g[3] = x - 1
  BY <1>3, <1>6, MovedColumn
<1> QED BY <1>2, <1>7

------------------------------------------------------------------------------
(* The strings the editor prints. *)

LEMMA Joined ==
  ASSUME NEW a \in Seq(Nat), NEW b \in Seq(Nat)
  PROVE  /\ a \o b \in Seq(Nat) /\ Len(a \o b) = Len(a) + Len(b)
         /\ \A i \in 1..Len(a) : (a \o b)[i] = a[i]
         /\ \A i \in 1..Len(b) : (a \o b)[Len(a) + i] = b[i]
<1>1. /\ a \o b \in Seq(Nat) /\ Len(a \o b) = Len(a) + Len(b)
      /\ \A i \in 1..(Len(a) + Len(b)) :
           (a \o b)[i] = IF i <= Len(a) THEN a[i] ELSE b[i - Len(a)]
  BY ConcatProperties
<1> DEFINE s == a \o b
           m == Len(a)
           n == Len(b)
<1>2. m \in Nat /\ n \in Nat
  OBVIOUS
<1>3. \A i \in 1..(m + n) : s[i] = IF i <= m THEN a[i] ELSE b[i - m]
  BY <1>1
<1> HIDE DEF s, m, n
<1>4. \A i \in 1..m : s[i] = a[i]
  BY <1>2, <1>3
<1>5. \A i \in 1..n : s[m + i] = b[i]
  <2> TAKE i \in 1..n
  <2>1. m + i \in 1..(m + n) /\ ~ (m + i <= m) /\ (m + i) - m = i
    BY <1>2
  <2> QED BY <1>3, <2>1
<1> QED BY <1>1, <1>4, <1>5 DEF s, m, n

\* A string that ends in a newline or a return and n plain characters.
Ends(s, n) ==
  /\ s \in Seq(Nat) /\ n < Len(s)
  /\ s[Len(s) - n] \in {10, 13}
  /\ \A i \in (Len(s) - n + 1)..Len(s) : s[i] \notin {8, 9, 10, 13}

LEMMA EndsMore ==
  ASSUME NEW s, NEW n \in Nat, Ends(s, n), NEW l \in Seq(Nat), Plain(l)
  PROVE  Ends(s \o l, n + Len(l))
<1> DEFINE t == s \o l
           m == Len(s)
           k == Len(l)
<1>1. /\ s \in Seq(Nat) /\ n < m /\ s[m - n] \in {10, 13}
      /\ \A i \in (m - n + 1)..m : s[i] \notin {8, 9, 10, 13}
  BY DEF Ends
<1>2. m \in Nat /\ k \in Nat
  BY <1>1
<1>3. /\ t \in Seq(Nat) /\ Len(t) = m + k
      /\ \A i \in 1..m : t[i] = s[i]
      /\ \A i \in 1..k : t[m + i] = l[i]
  BY <1>1, Joined
<1>4. \A i \in 1..k : l[i] \notin {8, 9, 10, 13}
  BY DEF Plain
<1> HIDE DEF t, m, k
<1>5. (m + k) - (n + k) = m - n /\ m - n \in 1..m
  BY <1>1, <1>2
<1>6. t[(m + k) - (n + k)] \in {10, 13}
  BY <1>1, <1>3, <1>5
<1>7. ASSUME NEW i \in ((m + k) - (n + k) + 1)..(m + k) PROVE t[i] \notin {8, 9, 10, 13}
  <2>1. CASE i <= m
    <3>1. i \in 1..m /\ i \in (m - n + 1)..m
      BY <1>2, <1>5, <2>1
    <3> QED BY <1>1, <1>3, <3>1
  <2>2. CASE ~ (i <= m)
    <3> DEFINE j == i - m
    <3>1. j \in 1..k /\ m + j = i
      BY <1>2, <1>5, <2>2
    <3> HIDE DEF j
    <3> QED BY <1>3, <1>4, <3>1
  <2> QED BY <2>1, <2>2
<1>8. n + k < m + k
  BY <1>1, <1>2
<1>9. t \in Seq(Nat) /\ n + k < Len(t) /\ t[Len(t) - (n + k)] \in {10, 13}
  BY <1>3, <1>6, <1>8
<1>10. \A i \in (Len(t) - (n + k) + 1)..Len(t) : t[i] \notin {8, 9, 10, 13}
  BY <1>3, <1>7
<1>11. Ends(t, n + k)
  BY <1>9, <1>10, Zenon DEF Ends
<1> QED BY <1>11 DEF t, k

\* The cursor after such a string stands behind the plain characters.
LEMMA FoldEnds ==
  ASSUME NEW x \in Column, NEW s, NEW n \in Nat, Ends(s, n), n < VGA_WIDTH
  PROVE  Folded(x, s) = n
<1> DEFINE m == Len(s)
           u == m - n
<1>1. /\ s \in Seq(Nat) /\ m \in Nat /\ n < m /\ s[u] \in {10, 13} /\ DOMAIN s = 1..m
      /\ \A i \in (u + 1)..m : s[i] \notin {8, 9, 10, 13}
  BY DEF Ends
<1> HIDE DEF m
<1>2. u \in 0..m /\ u > 0 /\ 0 \in Nat /\ 0 + (m - u) = n
  BY <1>1
<1> HIDE DEF u
<1>3. 0 + (m - u) < VGA_WIDTH
  BY <1>2
<1>4. PICK g : Columns(g, x, s, m)
  BY <1>1, FoldColumns
<1>5. g[u] = 0
  <2>1. u \in 1..m /\ u - 1 \in 0..m
    BY <1>1, <1>2
  <2>2. g[u] = Moved(g[u - 1], s[u]) /\ g[u - 1] \in Column
    BY <1>4, <2>1 DEF Columns
  <2> QED BY <1>1, <2>2, MovedColumn
<1>6. /\ m \in Nat /\ Columns(g, x, s, m) /\ u \in 0..m /\ 0 \in Nat /\ g[u] = 0
      /\ \A i \in (u + 1)..m : s[i] \notin {8, 9, 10, 13}
  BY <1>1, <1>2, <1>4, <1>5
<1>7. Folded(x, s) = 0 + (m - u)
  BY <1>3, <1>6, FoldText
<1> QED BY <1>2, <1>7

LEMMA FoldPlain ==
  ASSUME NEW x \in Column, NEW s, NEW n \in Nat, DOMAIN s = 1..n,
         \A i \in 1..n : s[i] \notin {8, 9, 10, 13}, x + n < VGA_WIDTH
  PROVE  Folded(x, s) = x + n
<1>1. PICK g : Columns(g, x, s, n)
  BY FoldColumns
<1>2. g[0] = x
  BY <1>1 DEF Columns
<1>3. /\ 0 \in 0..n /\ x \in Nat /\ x + (n - 0) = x + n
      /\ \A i \in (0 + 1)..n : s[i] \notin {8, 9, 10, 13}
  BY ShellAssumption DEF Column
<1>4. Folded(x, s) = x + (n - 0)
  BY <1>1, <1>2, <1>3, FoldText
<1> QED BY <1>3, <1>4

------------------------------------------------------------------------------
(* The screen. *)

\* No control character stands in the line or in the history, and as long as nothing
\* else moved the cursor it stands behind the line, which does not wrap.
Texts  == Plain(line) /\ \A k \in 0..(HIST_MAX - 1) : Plain(hist[k])
Behind == ~ displaced => tx = PromptLen + Len(line) /\ ~ Wraps(line)
Screen == tx \in Column /\ displaced \in BOOLEAN /\ Texts /\ Behind

LEMMA CharNat == Char \subseteq Nat
BY Codes DEF CodeRange, Char

LEMMA LineText ==
  ASSUME NEW l \in Line
  PROVE  l \in Seq(Nat) /\ Len(l) \in Nat /\ DOMAIN l = 1..Len(l)
<1>1. Char \subseteq Nat
  BY CharNat
<1>2. l \in Seq(Char) /\ Len(l) \in Nat /\ DOMAIN l = 1..Len(l)
  BY DEF Line
<1>3. l = [i \in 1..Len(l) |-> l[i]] /\ \A i \in 1..Len(l) : l[i] \in Nat
  BY <1>1, <1>2
<1>4. [i \in 1..Len(l) |-> l[i]] \in Seq(Nat)
  BY <1>2, <1>3, IsASeq
<1> QED BY <1>2, <1>3, <1>4

LEMMA WrapsBool ==
  ASSUME NEW l \in Line
  PROVE  Wraps(l) \in BOOLEAN /\ (~ Wraps(l) <=> PromptLen + Len(l) < VGA_WIDTH)
<1>1. Len(l) \in Nat
  BY LineText
<1> QED BY <1>1, ShellAssumption DEF Wraps

\* Printing s after a change of the line.
LEMMA Shown ==
  ASSUME Screen, line' \in Line, Texts', NEW s, NEW n \in Nat, DOMAIN s = 1..n, Show(s),
         ~ displaced /\ ~ Wraps(line') => Folded(tx, s) = PromptLen + Len(line')
  PROVE  Screen'
<1>1. tx' = Folded(tx, s) /\ displaced' = (displaced \/ Wraps(line'))
  BY Zenon DEF Show, MoveBy, Folded
<1>2. tx \in Column /\ displaced \in BOOLEAN
  BY DEF Screen
<1>3. tx' \in Column
  BY <1>1, <1>2, FoldColumn
<1>4. displaced' \in BOOLEAN
  BY <1>1, Zenon
<1>5. Behind'
  <2>1. SUFFICES ASSUME ~ displaced' PROVE tx' = PromptLen + Len(line') /\ ~ Wraps(line')
    BY Zenon DEF Behind, Wraps
  <2>2. ~ displaced /\ ~ Wraps(line')
    BY <1>1, <2>1, Zenon
  <2> QED BY <1>1, <2>2, Zenon
<1>6. Column' = Column
  BY DEF Column
<1> QED BY <1>3, <1>4, <1>5, <1>6, Zenon DEF Screen

LEMMA Unmoved ==
  ASSUME Screen, UNCHANGED <<line, hist, tx, displaced>>
  PROVE  Screen'
BY DEF Screen, Texts, Behind, Wraps, Plain, Column

\* The prompt, and a return or newline before it.
LEMMA PromptText ==
  /\ Prompt \in Seq(Nat) /\ Len(Prompt) = PromptLen /\ Plain(Prompt)
  /\ Space(VGA_WIDTH) \in Seq(Nat) /\ PromptLen \in Nat
<1>1. ASSUME NEW n \in Nat
      PROVE  Space(n) \in Seq(Nat) /\ Len(Space(n)) = n /\ \A i \in 1..n : Space(n)[i] = 32
  <2>1. DOMAIN Space(n) = 1..n /\ \A i \in 1..n : Space(n)[i] = 32
    BY DEF Space
  <2>2. Space(n) \in Seq(Nat)
    BY IsASeq DEF Space
  <2> QED BY <2>1, <2>2
<1>2. PromptLen \in Nat /\ VGA_WIDTH \in Nat
  BY ShellAssumption
<1>3. Prompt \in Seq(Nat) /\ Len(Prompt) = PromptLen /\ \A i \in 1..PromptLen : Prompt[i] = 32
  BY <1>1, <1>2 DEF Prompt
<1>4. Plain(Prompt)
  BY <1>3 DEF Plain
<1> QED BY <1>1, <1>2, <1>3, <1>4

\* redraw_line, from anywhere on the screen.
LEMMA Redrawn ==
  ASSUME NEW x \in Column, NEW l \in Line, Plain(l)
  PROVE  LET s == <<13>> \o Space(VGA_WIDTH) \o <<13>> \o Prompt \o l
         IN  /\ \E n \in Nat : DOMAIN s = 1..n
             /\ ~ Wraps(l) => Folded(x, s) = PromptLen + Len(l)
<1> DEFINE a == <<13>> \o Space(VGA_WIDTH)
           b == a \o <<13>>
           d == b \o Prompt
           s == d \o l
<1>1. <<13>> \in Seq(Nat) /\ Len(<<13>>) = 1 /\ <<13>>[1] = 13 /\ 0 \in Nat
  OBVIOUS
<1>2. a \in Seq(Nat)
  BY <1>1, PromptText, Joined
<1> HIDE DEF a
<1>3. Ends(b, 0)
  <2>1. /\ b \in Seq(Nat) /\ Len(b) = Len(a) + 1
        /\ \A i \in 1..1 : b[Len(a) + i] = <<13>>[i]
    BY <1>1, <1>2, Joined
  <2> HIDE DEF b
  <2>2. b[Len(a) + 1] = 13 /\ Len(a) \in Nat
    BY <1>1, <1>2, <2>1
  <2> QED BY <2>1, <2>2 DEF Ends
<1> HIDE DEF b
<1>4. Ends(d, PromptLen)
  <2>1. Ends(d, 0 + Len(Prompt))
    BY <1>1, <1>3, PromptText, EndsMore
  <2> QED BY <2>1, PromptText
<1> HIDE DEF d
<1>5. Ends(s, PromptLen + Len(l))
  BY <1>4, PromptText, LineText, EndsMore
<1> HIDE DEF s
<1>6. Len(s) \in Nat /\ DOMAIN s = 1..Len(s)
  BY <1>5 DEF Ends
<1>7. ~ Wraps(l) => Folded(x, s) = PromptLen + Len(l)
  <2>1. PromptLen + Len(l) \in Nat
    BY PromptText, LineText
  <2> QED BY <1>5, <2>1, FoldEnds, WrapsBool
<1> QED BY <1>6, <1>7, Zenon DEF a, b, d, s

LEMMA RememberedText ==
  ASSUME Inv, Screen, Remember
  PROVE  \A k \in 0..(HIST_MAX - 1) : Plain(hist'[k])
<1>1. Plain(line) /\ \A k \in 0..(HIST_MAX - 1) : Plain(hist[k])
  BY DEF Screen, Texts
<1>2. CASE hist' = hist
  BY <1>1, <1>2
<1>3. CASE hist' = [hist EXCEPT ![hist_count % HIST_MAX] = line]
  <2>1. hist \in [0..(HIST_MAX - 1) -> Line]
    BY DEF Inv, EditorTypeOK
  <2> TAKE k \in 0..(HIST_MAX - 1)
  <2>2. hist'[k] = line \/ hist'[k] = hist[k]
    BY <1>3, <2>1
  <2> QED BY <1>1, <2>2
<1> QED BY <1>2, <1>3, Zenon DEF Remember

\* A new line and a new prompt.
LEMMA EnterScreen ==
  ASSUME Inv, Screen, EnterKey
  PROVE  Screen'
<1>1. /\ Remember /\ line' = <<>>
      /\ \E other \in {<<>>, <<97>>} :
           /\ MoveBy(<<10>> \o other \o Prompt)
           /\ displaced' = (other # <<>> \/ Wraps(<<>>))
  BY DEF EnterKey
<1>2. PICK other \in {<<>>, <<97>>} :
        /\ tx' = Folded(tx, <<10>> \o other \o Prompt)
        /\ displaced' = (other # <<>> \/ Wraps(<<>>))
  BY <1>1, Zenon DEF MoveBy, Folded
<1> DEFINE a == <<10>> \o other
           s == a \o Prompt
<1>3. <<10>> \in Seq(Nat) /\ Len(<<10>>) = 1 /\ 0 \in Nat /\ other \in Seq(Nat)
  <2>1. <<10>> \in Seq(Nat) /\ Len(<<10>>) = 1 /\ 0 \in Nat
    OBVIOUS
  <2>2. <<>> \in Seq(Nat) /\ <<97>> \in Seq(Nat)
    OBVIOUS
  <2>3. other \in Seq(Nat)
    BY <2>2, Zenon
  <2> QED BY <2>1, <2>3
<1>4. a \in Seq(Nat)
  BY <1>3, Joined
<1>5. ASSUME other = <<>> PROVE Ends(a, 0)
  <2>1. a = <<10>>
    BY <1>3, <1>5
  <2> HIDE DEF a
  <2> QED BY <2>1 DEF Ends
<1> HIDE DEF a
<1>6. ASSUME other = <<>> PROVE Ends(s, PromptLen)
  <2>1. Ends(s, 0 + Len(Prompt))
    BY <1>3, <1>5, <1>6, PromptText, EndsMore
  <2> QED BY <2>1, PromptText
<1>7. s \in Seq(Nat) /\ Len(s) \in Nat /\ DOMAIN s = 1..Len(s)
  BY <1>4, PromptText, Joined
<1>8. tx' = Folded(tx, s)
  BY <1>2 DEF a
<1> HIDE DEF s
<1>9. tx \in Column /\ Len(<<>>) = 0 /\ <<>> \in Line
  BY EmptyLine DEF Screen
<1>10. tx' \in Column
  BY <1>7, <1>8, <1>9, FoldColumn
<1>11. Behind'
  <2>1. SUFFICES ASSUME ~ displaced' PROVE tx' = PromptLen + Len(line') /\ ~ Wraps(line')
    BY Zenon DEF Behind, Wraps
  <2>2. other = <<>> /\ ~ Wraps(<<>>)
    BY <1>2, <2>1, Zenon
  <2>3. PromptLen < VGA_WIDTH /\ PromptLen \in Nat
    BY <1>9, <2>2, WrapsBool, PromptText
  <2>4. tx' = PromptLen
    BY <1>6, <1>8, <1>9, <2>2, <2>3, FoldEnds
  <2> QED BY <1>1, <1>9, <2>2, <2>3, <2>4
<1>12. displaced' \in BOOLEAN
  BY <1>2, Zenon
<1>13. Texts'
  BY <1>1, RememberedText DEF Texts, Plain
<1>14. Column' = Column
  BY DEF Column
<1> QED BY <1>10, <1>11, <1>12, <1>13, <1>14, Zenon DEF Screen

LEMMA BackspaceScreen ==
  ASSUME Inv, Screen, BackspaceKey
  PROVE  Screen'
<1>1. line # <<>> /\ line' = Front(line) /\ Show(RubOut) /\ hist' = hist
  BY DEF BackspaceKey, Typed
<1>2. line \in Line
  BY DEF Inv, EditorTypeOK
<1>3. line' \in Line
  BY <1>1, <1>2, LineLess
<1>4. /\ Len(line) \in Nat \ {0} /\ Len(line') = Len(line) - 1
      /\ \A i \in 1..Len(line') : line'[i] = line[i]
  <2>1. line \in Seq(Nat) /\ Len(line) \in Nat /\ DOMAIN line = 1..Len(line)
    BY <1>2, LineText
  <2>2. Len(line) # 0
    BY <1>1, <2>1, EmptySeq
  <2>3. line' = SubSeq(line, 1, Len(line) - 1)
    BY <1>1 DEF Front
  <2>4. \A i \in 1..(Len(line) - 1) : line[i] \in Nat
    BY <2>1
  <2> DEFINE n == Len(line) - 1
  <2>5. n \in Nat /\ \A i \in 1..n : line[i] \in Nat
    BY <2>1, <2>2, <2>4
  <2> HIDE DEF n
  <2>6. Len(SubSeq(line, 1, n)) = n /\ \A i \in 1..n : SubSeq(line, 1, n)[i] = line[i]
    BY <2>5, SubSeqProperties
  <2> QED BY <2>1, <2>2, <2>3, <2>6 DEF n
<1>5. Texts'
  <2>1. Plain(line')
    BY <1>4 DEF Screen, Texts, Plain
  <2> QED BY <1>1, <2>1 DEF Screen, Texts, Plain
<1>6. DOMAIN RubOut = 1..3 /\ 3 \in Nat
  BY DEF RubOut
<1>7. ASSUME ~ displaced, ~ Wraps(line') PROVE Folded(tx, RubOut) = PromptLen + Len(line')
  <2>1. tx \in Column /\ tx = PromptLen + Len(line) /\ PromptLen \in Nat
    BY <1>7, PromptText DEF Screen, Behind
  <2>2. tx > 0
    BY <1>4, <2>1
  <2> QED BY <1>4, <2>1, <2>2, FoldRubOut
<1> QED BY <1>1, <1>3, <1>5, <1>6, <1>7, Shown

\* Characters behind the line: typed, or added by completion.
LEMMA AddedScreen ==
  ASSUME Inv, Screen, NEW s \in Seq(Char), Plain(s), line' = line \o s, line' \in Line,
         Show(s), hist' = hist
  PROVE  Screen'
<1>1. Char \subseteq Nat
  BY CharNat
<1>2. s \in Seq(Nat) /\ Len(s) \in Nat /\ DOMAIN s = 1..Len(s)
  <2>1. Len(s) \in Nat /\ DOMAIN s = 1..Len(s)
    OBVIOUS
  <2>2. s = [i \in 1..Len(s) |-> s[i]] /\ \A i \in 1..Len(s) : s[i] \in Nat
    BY <1>1, <2>1
  <2>3. [i \in 1..Len(s) |-> s[i]] \in Seq(Nat)
    BY <2>1, <2>2, IsASeq
  <2> QED BY <2>1, <2>2, <2>3
<1>3. line \in Line /\ line \in Seq(Nat) /\ Len(line) \in Nat
  BY LineText DEF Inv, EditorTypeOK
<1>4. /\ Len(line') = Len(line) + Len(s)
      /\ \A i \in 1..Len(line) : line'[i] = line[i]
      /\ \A i \in 1..Len(s) : line'[Len(line) + i] = s[i]
  BY <1>2, <1>3, Joined
<1>5. Plain(line')
  <2>1. SUFFICES ASSUME NEW i \in 1..Len(line') PROVE line'[i] \notin {8, 9, 10, 13}
    BY DEF Plain
  <2>2. CASE i <= Len(line)
    BY <1>3, <1>4, <2>2 DEF Screen, Texts, Plain
  <2>3. CASE ~ (i <= Len(line))
    <3> DEFINE j == i - Len(line)
    <3>1. j \in 1..Len(s) /\ Len(line) + j = i
      BY <1>2, <1>3, <1>4, <2>3
    <3> HIDE DEF j
    <3>2. line'[i] = s[j] /\ s[j] \notin {8, 9, 10, 13}
      BY <1>4, <3>1 DEF Plain
    <3> QED BY <3>2
  <2> QED BY <2>2, <2>3
<1>6. Texts'
  BY <1>5 DEF Screen, Texts, Plain
<1>7. ASSUME ~ displaced, ~ Wraps(line') PROVE Folded(tx, s) = PromptLen + Len(line')
  <2>1. tx \in Column /\ tx = PromptLen + Len(line) /\ PromptLen \in Nat
    BY <1>7, PromptText DEF Screen, Behind
  <2>2. PromptLen + Len(line') < VGA_WIDTH
    BY <1>7, WrapsBool
  <2>3. tx + Len(s) < VGA_WIDTH
    BY <1>2, <1>3, <1>4, <2>1, <2>2
  <2>4. \A i \in 1..Len(s) : s[i] \notin {8, 9, 10, 13}
    BY DEF Plain
  <2>5. Folded(tx, s) = tx + Len(s)
    BY <1>2, <2>1, <2>3, <2>4, FoldPlain
  <2> QED BY <1>2, <1>3, <1>4, <2>1, <2>5
<1> QED BY <1>2, <1>6, <1>7, Shown

\* Something is printed and the line stays as it is.
LEMMA PrintedScreen ==
  ASSUME Screen, NEW ch, tx' = Folded(tx, <<ch>>),
         line' = line, hist' = hist, displaced' = TRUE
  PROVE  Screen'
<1>1. DOMAIN <<ch>> = 1..1 /\ 1 \in Nat /\ tx \in Column
  BY DEF Screen
<1>2. tx' \in Column /\ Column' = Column
  BY <1>1, FoldColumn DEF Column
<1>3. Texts'
  BY DEF Screen, Texts, Plain
<1>4. displaced' \in BOOLEAN /\ Behind'
  BY Zenon DEF Behind
<1> QED BY <1>2, <1>3, <1>4, Zenon DEF Screen

LEMMA TabScreen ==
  ASSUME Inv, Screen, TabKey
  PROVE  Screen'
<1>2. hist' = hist /\ line \in Line /\ 97 \in Char
  BY Codes DEF TabKey, Inv, EditorTypeOK, CodeRange, Char
<1>8. CASE SeveralMatch
  <2>1. tx' = Folded(tx, <<10>>) /\ line' = line /\ displaced' = TRUE
    BY <1>8, Zenon DEF SeveralMatch, MoveBy, Folded
  <2> QED BY <1>2, <2>1, PrintedScreen
<1>9. SUFFICES ASSUME \E n \in 0..(LINE_MAX - 1 - Len(line)) : Added(n) PROVE Screen'
  BY <1>8, Zenon DEF TabKey
<1>1. PICK n \in 0..(LINE_MAX - 1 - Len(line)) :
        line' = line \o [i \in 1..n |-> 97] /\ Show([i \in 1..n |-> 97])
  BY <1>9 DEF Added
<1>3. line' \in Line
  BY <1>1, <1>2, LineCompleted
<1> DEFINE s == [i \in 1..n |-> 97]
<1>4. n \in Nat /\ \A i \in 1..n : s[i] = 97
  BY <1>2, LineText, ShellAssumption
<1>5. s \in Seq(Char) /\ Len(s) = n
  BY <1>2, <1>4, IsASeq
<1>6. line' = line \o s /\ Show(s)
  BY <1>1
<1> HIDE DEF s
<1>7. Plain(s)
  BY <1>4, <1>5 DEF Plain
<1> QED BY <1>2, <1>3, <1>5, <1>6, <1>7, AddedScreen

LEMMA PrintScreen ==
  ASSUME Inv, Screen, PrintableKey
  PROVE  Screen'
<1>1. Key \in 32..255 /\ Room /\ line' = Append(line, Key) /\ Show(<<Key>>) /\ hist' = hist
  BY DEF PrintableKey, Typed
<1>2. Key \in Char /\ line \in Line
  BY <1>1, KeyChar DEF Inv, EditorTypeOK
<1>3. line' \in Line
  BY <1>1, <1>2, LineMore DEF Room
<1> DEFINE k == Key
           s == <<k>>
<1>4. k \in 32..255 /\ k \in Char /\ line' = Append(line, k) /\ Show(s)
  BY <1>1, <1>2
<1> HIDE DEF k
<1>5. line \in Seq(Char)
  BY <1>2 DEF Line
<1>6. s \in Seq(Char) /\ Plain(s) /\ line' = line \o s
  BY <1>4, <1>5 DEF Plain
<1> HIDE DEF s
<1> QED BY <1>1, <1>3, <1>4, <1>6, AddedScreen

\* A line recalled from the history, or a fresh one, drawn over the old one.
LEMMA RedrawScreen ==
  ASSUME Inv, Screen, line' \in Line, Plain(line'), Redraw(line'), hist' = hist
  PROVE  Screen'
<1> DEFINE s == <<13>> \o Space(VGA_WIDTH) \o <<13>> \o Prompt \o line'
<1>1. tx' = Folded(tx, s) /\ displaced' = Wraps(line')
  BY Zenon DEF Redraw, MoveBy, Folded
<1>2. tx \in Column /\ Column' = Column
  BY DEF Screen, Column
<1>3. PICK l \in Line : l = line'
  OBVIOUS
<1>4. /\ \E n \in Nat : DOMAIN s = 1..n
      /\ ~ Wraps(line') => Folded(tx, s) = PromptLen + Len(line')
  BY <1>2, <1>3, Redrawn, Zenon
<1>5. Texts'
  BY DEF Screen, Texts, Plain
<1> HIDE DEF s
<1>6. tx' \in Column
  BY <1>1, <1>2, <1>4, FoldColumn
<1>7. displaced' \in BOOLEAN
  BY <1>1, <1>3, WrapsBool
<1>8. Behind'
  <2>1. SUFFICES ASSUME ~ displaced' PROVE tx' = PromptLen + Len(line') /\ ~ Wraps(line')
    BY Zenon DEF Behind, Wraps
  <2> QED BY <1>1, <1>4, <2>1, Zenon
<1> QED BY <1>2, <1>5, <1>6, <1>7, <1>8, Zenon DEF Screen

LEMMA ArrowScreen ==
  ASSUME Inv, Screen, ExtendedKey
  PROVE  Screen'
<1>1. hist_pos \in -1..(HIST_MAX - 1) /\ HIST_MAX \in Nat \ {0} /\ hist_count \in Nat
  BY ShellAssumption DEF Inv, EditorTypeOK
<1>2. ASSUME NEW back \in Int, Recall(back) PROVE Screen'
  <2>1. line' = HistGet(back) /\ Redraw(line') /\ hist' = hist
    BY <1>2 DEF Recall
  <2>2. ((hist_count - 1 - back) % HIST_MAX) \in 0..(HIST_MAX - 1)
    <3>1. hist_count - 1 - back \in Int
      BY <1>1
    <3> QED BY <1>1, <3>1, RingIndex
  <2>3. line' \in Line
    BY <2>1, HistoryLine
  <2>4. Plain(line')
    BY <2>1, <2>2 DEF HistGet, Screen, Texts
  <2> QED BY <2>1, <2>3, <2>4, RedrawScreen
<1>3. CASE line' = <<>> /\ Redraw(<<>>) /\ hist' = hist
  <2>1. line' \in Line /\ Plain(line') /\ Redraw(line')
    BY <1>3, EmptyLine DEF Plain
  <2> QED BY <1>3, <2>1, RedrawScreen
<1>4. CASE UNCHANGED <<editor, cursor>>
  BY <1>4, Unmoved DEF editor, cursor
<1>5. \/ Recall(hist_pos + 1) \/ Recall(hist_pos - 1)
      \/ line' = <<>> /\ Redraw(<<>>) /\ hist' = hist
      \/ UNCHANGED <<editor, cursor>>
  BY Zenon DEF ExtendedKey
<1>6. hist_pos + 1 \in Int /\ hist_pos - 1 \in Int
  BY <1>1
<1> QED BY <1>2, <1>3, <1>4, <1>5, <1>6

LEMMA NextScreen ==
  ASSUME Inv, Screen, [Next]_vars
  PROVE  Screen'
<1>1. CASE ProcessWrites
  <2>1. PICK ch \in {10, 97} : tx' = Folded(tx, <<ch>>)
    BY <1>1, Zenon DEF ProcessWrites, MoveBy, Folded
  <2>2. line' = line /\ hist' = hist /\ displaced' = TRUE
    BY <1>1 DEF ProcessWrites, editor
  <2> QED BY <2>1, <2>2, PrintedScreen
<1>2. CASE UNCHANGED <<line, hist, tx, displaced>>
  BY <1>2, Unmoved
<1>3. CASE EnterKey
  BY <1>3, EnterScreen
<1>4. CASE BackspaceKey
  BY <1>4, BackspaceScreen
<1>5. CASE TabKey
  BY <1>5, TabScreen
<1>6. CASE PrintableKey
  BY <1>6, PrintScreen
<1>7. CASE ExtendedKey
  BY <1>7, ArrowScreen
<1>8. ASSUME Interrupt \/ ReadKey \/ Advance \/ ReadSerial \/ OtherKey \/ UNCHANGED vars
      PROVE  UNCHANGED <<line, hist, tx, displaced>>
  BY <1>8, Zenon DEF Interrupt, KeyOnly, ReadKey, Advance, ReadSerial, OtherKey, vars, editor, cursor
<1> QED BY <1>1, <1>2, <1>3, <1>4, <1>5, <1>6, <1>7, <1>8, Zenon DEF Next

LEMMA InitScreen == Init => Screen
<1> SUFFICES ASSUME Init PROVE Screen
  OBVIOUS
<1>1. /\ line = <<>> /\ \A k \in 0..(HIST_MAX - 1) : hist[k] = <<>>
      /\ tx = PromptLen % VGA_WIDTH /\ displaced = Wraps(<<>>)
  BY DEF Init
<1>2. PromptLen \in Nat /\ VGA_WIDTH \in Nat \ {0} /\ Len(<<>>) = 0
  BY ShellAssumption
<1>3. tx \in Column
  BY <1>1, <1>2, RingIndex DEF Column
<1>4. Texts
  BY <1>1 DEF Texts, Plain
<1>5. Wraps(<<>>) \in BOOLEAN /\ (~ Wraps(<<>>) <=> PromptLen < VGA_WIDTH)
  BY <1>2, EmptyLine, WrapsBool
<1>6. ~ displaced => tx = PromptLen
  BY <1>1, <1>2, <1>5
<1>7. Behind
  BY <1>1, <1>2, <1>6 DEF Behind
<1>8. displaced \in BOOLEAN
  BY <1>1, <1>5, Zenon
<1> QED BY <1>3, <1>4, <1>7, <1>8, Zenon DEF Screen

LEMMA OnScreen == Spec => []Screen
BY Invariance, InitScreen, NextScreen, PTL DEF Spec

\* Every variable of the console keeps its type (TypeOK): the line stays in its buffer, and
\* so does every line of the history, since shell_run's length tests, completion and
\* recalls leave room for the terminating zero; and no string vga_puts prints, however
\* long, takes the cursor out of its row.
THEOREM ConsoleTypes == Spec => []TypeOK
<1>1. Inv /\ Screen => TypeOK
  BY DEF Inv, Screen, Column, TypeOK
<1> QED BY <1>1, Invariance, OnScreen, PTL

\* The cursor stands right behind the line, through every key, completion and recalled
\* command, until a process prints, completion lists several matches or the line wraps,
\* and again from the next prompt or recalled line on.
THEOREM CursorBehindLine == Spec => []CursorAfterLine
<1>1. Screen => CursorAfterLine
  BY DEF Screen, Behind, CursorAfterLine
<1> QED BY <1>1, OnScreen, PTL
==============================================================================
