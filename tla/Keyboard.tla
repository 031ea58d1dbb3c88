------------------------------ MODULE Keyboard -------------------------------
(* The PS/2 keyboard driver, kernel/keyboard.c: IRQ 1 turns scancodes into key
   codes and puts them in a ring that one task empties.

   The keyboard itself is the environment: it sends one byte per interrupt,
   completes the E0 prefixes it starts, and releases only shift keys that are
   down.  `sent' counts the bytes and bounds the run.                          *)
EXTENDS Integers, Sequences, SequencesExt

CONSTANTS KB_BUF_SIZE,
          Bytes,          \* the plain scancodes the keyboard may send
          ExtBytes,       \* the bytes it may send after E0
          MaxSent         \* bound: bytes sent on the keyboard and serial lines

ASSUME KeyboardAssumption ==
  /\ KB_BUF_SIZE \in Nat /\ KB_BUF_SIZE > 1
  /\ Bytes \subseteq 0..255 /\ ExtBytes \subseteq 0..255
  /\ MaxSent \in Nat

VARIABLES kbuf, kbuf_head, kbuf_tail, shift, caps, extended,
          held,           \* the shift keys that are physically down
          prefixed,       \* the keyboard has sent E0 and owes the key
          sent,
          offered         \* history: the codes given to the ring

ring      == <<kbuf, kbuf_head, kbuf_tail, offered>>
modifiers == <<shift, caps, extended, held, prefixed, sent>>

Prefix    == 224                      \* 0xE0
ShiftDown == {42, 54}                 \* 0x2A, 0x36
ShiftUp   == {170, 182}               \* the same with the release bit
CapsLock  == 58
Release   == 128..255
KEY_EXT   == 256
UpArrow   == 72                       \* 0x48
DownArrow == 80                       \* 0x50
ExtKeys   == {72, 80, 75, 77, 71, 79, 73, 81, 83}

\* sc_plain and sc_shift on the keys this model has; 0 elsewhere.
sc_plain(sc) == CASE sc = 30 -> 97 [] sc = 48 -> 98 [] sc = 2 -> 49
                  [] sc = 28 -> 10 [] sc = 14 -> 8 [] sc = 15 -> 9 [] OTHER -> 0
sc_shift(sc) == CASE sc = 30 -> 65 [] sc = 48 -> 66 [] sc = 2 -> 33
                  [] OTHER -> sc_plain(sc)
Lower    == 97..122
CharOf(sc) == LET c == IF shift THEN sc_shift(sc) ELSE sc_plain(sc)
              IN  IF c \in Lower /\ caps THEN c - 32 ELSE c

Code == 0..255 \cup {KEY_EXT + sc : sc \in ExtKeys}

KeyboardTypeOK ==
  /\ kbuf \in [0..(KB_BUF_SIZE - 1) -> Code]
  /\ kbuf_head \in 0..(KB_BUF_SIZE - 1) /\ kbuf_tail \in 0..(KB_BUF_SIZE - 1)
  /\ shift \in BOOLEAN /\ caps \in BOOLEAN /\ extended \in BOOLEAN
  /\ held \subseteq ShiftDown /\ prefixed \in BOOLEAN
  /\ sent \in 0..MaxSent /\ offered \in Nat

KeyboardInit ==
  /\ kbuf = [i \in 0..(KB_BUF_SIZE - 1) |-> 0]
  /\ kbuf_head = 0 /\ kbuf_tail = 0
  /\ shift = FALSE /\ caps = FALSE /\ extended = FALSE
  /\ held = {} /\ prefixed = FALSE /\ sent = 0 /\ offered = 0

------------------------------------------------------------------------------
(* The ring: one slot stays empty, so that head = tail means empty. *)

After(i) == (i + 1) % KB_BUF_SIZE
Pending  == kbuf_head # kbuf_tail                     \* keyboard_pending

OffByOne(c) ==                                        \* mutant: fills every slot
  /\ kbuf' = [kbuf EXCEPT ![kbuf_head] = c]
  /\ kbuf_head' = After(kbuf_head)
  /\ offered' = offered + 1
  /\ UNCHANGED kbuf_tail
Enqueue(c) ==
  /\ \/ /\ After(kbuf_head) # kbuf_tail
        /\ kbuf' = [kbuf EXCEPT ![kbuf_head] = c]
        /\ kbuf_head' = After(kbuf_head)
     \/ /\ After(kbuf_head) = kbuf_tail               \* full: drop
        /\ UNCHANGED <<kbuf, kbuf_head>>
  /\ offered' = offered + 1
  /\ UNCHANGED kbuf_tail

------------------------------------------------------------------------------
(* keyboard_handler, one byte per interrupt: each case says what the byte does to
   the driver's own state.                                                     *)

PrefixIgnored == UNCHANGED extended                   \* mutant: E0 is skipped
PrefixSeen    == extended' = TRUE

PrefixByte(sc) == /\ sc = Prefix
                  /\ PrefixSeen
                  /\ UNCHANGED <<ring, shift, caps>>

\* After E0 only the cursor keys count; fake shifts and releases are dropped.
ExtendedByte(sc) ==
  /\ sc # Prefix /\ extended
  /\ extended' = FALSE
  /\ IF sc \in ExtKeys THEN Enqueue(KEY_EXT + sc) ELSE UNCHANGED ring
  /\ UNCHANGED <<shift, caps>>

ModifierByte(sc) ==
  /\ ~ extended /\ sc \in ShiftDown \cup ShiftUp \cup {CapsLock}
  /\ shift' = (IF sc = CapsLock THEN shift ELSE sc \in ShiftDown)
  /\ caps' = (IF sc = CapsLock THEN ~ caps ELSE caps)
  /\ UNCHANGED <<ring, extended>>

PlainByte(sc) ==
  /\ ~ extended /\ sc # Prefix /\ sc \notin ShiftDown \cup ShiftUp \cup {CapsLock}
  /\ IF sc \notin Release /\ CharOf(sc) # 0 THEN Enqueue(CharOf(sc)) ELSE UNCHANGED ring
  /\ UNCHANGED <<shift, caps, extended>>

\* The bytes a keyboard can send now: a prefix is followed by its key.
Sendable(sc) == IF prefixed THEN sc \in ExtBytes
                ELSE \/ sc = Prefix
                     \/ sc \in Bytes /\ (sc \in ShiftUp => sc - 128 \in held)

KeyInterrupt ==
  \E sc \in Bytes \cup ExtBytes \cup {Prefix} :
    /\ sent < MaxSent /\ sent' = sent + 1
    /\ Sendable(sc)
    /\ prefixed' = (sc = Prefix)
    /\ held' = CASE ~ prefixed /\ sc \in ShiftDown -> held \cup {sc}
                 [] ~ prefixed /\ sc \in ShiftUp -> held \ {sc - 128}
                 [] OTHER -> held
    /\ PrefixByte(sc) \/ ExtendedByte(sc) \/ ModifierByte(sc) \/ PlainByte(sc)

------------------------------------------------------------------------------
(* Properties. *)

\* The codes between tail and head, oldest first.
Contents ==
  [i \in 1..((kbuf_head - kbuf_tail) % KB_BUF_SIZE) |->
     kbuf[(kbuf_tail + i - 1) % KB_BUF_SIZE]]

\* The driver never believes in a shift key when none is down: the E0-prefixed
\* fake shifts that surround cursor keys do not stick.  (The converse is false:
\* releasing one of two held shift keys clears `shift'.)
ShiftNotStuck == shift => held # {}
==============================================================================
