------------------------------ MODULE Keyboard -------------------------------
(***************************************************************************)
(* The keyboard driver (arch/i386/arch/devices/i8042.c) as operators on    *)
(* its static variables: scan codes become keystrokes, which are kept in a *)
(* circular buffer until they are read.  A keystroke is the record of the  *)
(* three parts of the 32-bit number: the character, the special key that   *)
(* went down or up, and the special keys held at that moment.              *)
(***************************************************************************)
EXTENDS Integers, SequencesExt

CONSTANTS
  KEYB_BUFF_SIZE,
  keyb_codes,        \* what the key with scan code c types,
  keyb_codes_shift   \* and with shift

ASSUME KeyboardAssumption ==
  /\ KEYB_BUFF_SIZE \in Nat \ {0}
  /\ DOMAIN keyb_codes = DOMAIN keyb_codes_shift

SpecKeys == {"LSHIFT", "RSHIFT", "LALT", "RALT", "LCTRL", "RCTRL", "CAPSL"}
Events   == SpecKeys \X {"down", "up", "toggle"}
NoChar   == "0"
NoEvent  == <<"none", "none">>

Keystroke ==
  [ascii : {NoChar, "K_RCTRL_UP"} \cup {keyb_codes[c] : c \in DOMAIN keyb_codes}
                                  \cup {keyb_codes_shift[c] : c \in DOMAIN keyb_codes},
   spec  : {NoEvent} \cup Events,
   down  : SUBSET SpecKeys]

NoKey           == [ascii |-> NoChar, spec |-> NoEvent, down |-> {}]
CHAR(c)         == [NoKey EXCEPT !.ascii = c]
K_SPEC_KEY(key) == [NoKey EXCEPT !.spec = key]
ASCII_KEY(key)  == CHAR(key.ascii)

-----------------------------------------------------------------------------
(***************************************************************************)
(* From scan codes to keystrokes.  The decoder is the static variable      *)
(* multi_code, the keys in spec_keys_down, and the keystroke returned.     *)
(***************************************************************************)
Special ==
  [c \in {"2A", "AA", "36", "B6", "1D", "9D", "38", "B8", "BA"} |->
     CASE c = "2A" -> <<"LSHIFT", "down">> [] c = "AA" -> <<"LSHIFT", "up">>
       [] c = "36" -> <<"RSHIFT", "down">> [] c = "B6" -> <<"RSHIFT", "up">>
       [] c = "1D" -> <<"LCTRL", "down">>  [] c = "9D" -> <<"LCTRL", "up">>
       [] c = "38" -> <<"LALT", "down">>   [] c = "B8" -> <<"LALT", "up">>
       [] c = "BA" -> <<"CAPSL", "toggle">>]

\* After the code E0.
SpecialE0 ==
  [c \in {"1D", "9D", "38", "B8"} |->
     CASE c = "1D" -> <<"RCTRL", "down">> [] c = "9D" -> <<"RCTRL", "up">>
       [] c = "38" -> <<"RALT", "down">>  [] c = "B8" -> <<"RALT", "up">>]

\* K_RCTRL_UP is not shifted to where special keys are: it reads as a character.
SpecialKey(e) == IF e = <<"RCTRL", "up">> THEN CHAR("K_RCTRL_UP") ELSE K_SPEC_KEY(e)

KeyEvent(d, e) ==
  [multi_code |-> FALSE,
   key  |-> SpecialKey(e),
   down |-> CASE e[2] = "down"   -> d.down \cup {e[1]}
              [] e[2] = "up"     -> d.down \ {e[1]}
              [] e[2] = "toggle" -> (d.down \ {e[1]}) \cup ({e[1]} \ d.down)]

SHIFT_ON(down) == (down \cap {"LSHIFT", "RSHIFT"} # {}) # ("CAPSL" \in down)

Typed(d, c) ==
  IF c \notin DOMAIN keyb_codes THEN NoKey
  ELSE CHAR((IF SHIFT_ON(d.down) THEN keyb_codes_shift ELSE keyb_codes)[c])

\* Mutation: E0 is still remembered after a key that is not known.
AfterE0_sticky(d, c) ==
  IF c \in DOMAIN SpecialE0 THEN KeyEvent(d, SpecialE0[c]) ELSE [d EXCEPT !.key = NoKey]

AfterE0(d, c) ==
  IF c \in DOMAIN SpecialE0 THEN KeyEvent(d, SpecialE0[c])
                            ELSE [d EXCEPT !.key = NoKey, !.multi_code = FALSE]

i8042_prepare_char(d, c) ==
  IF d.multi_code THEN AfterE0(d, c)
  ELSE IF c = "E0" THEN [d EXCEPT !.multi_code = TRUE, !.key = NoKey]
  ELSE IF c \in DOMAIN Special THEN KeyEvent(d, Special[c])
  ELSE [d EXCEPT !.key = Typed(d, c)]

-----------------------------------------------------------------------------
(***************************************************************************)
(* The buffer.  k_devices_init passes flags 0 and no callback: keystrokes  *)
(* are not raw, all are kept, none is echoed, and nobody is told of them.  *)
(***************************************************************************)
KeyboardState ==
  [buffer  : [0 .. KEYB_BUFF_SIZE - 1 -> Keystroke],
   first   : 0 .. KEYB_BUFF_SIZE,
   last    : 0 .. KEYB_BUFF_SIZE - 1,
   size    : 0 .. KEYB_BUFF_SIZE,
   decoder : [multi_code : BOOLEAN, key : Keystroke, down : SUBSET SpecKeys]]

Following(i) == (i + 1) % KEYB_BUFF_SIZE

i8042_insert_keystroke(kb, key) ==
  IF key = NoKey THEN kb
  ELSE [kb EXCEPT !.buffer[kb.last] = [key EXCEPT !.down = @ \cup kb.decoder.down],
                  !.last  = Following(@),
                  !.size  = IF @ < KEYB_BUFF_SIZE THEN @ + 1 ELSE @,
                  !.first = IF kb.size < KEYB_BUFF_SIZE THEN @ ELSE Following(@)]

\* "Pushed back" keystrokes are put behind the others.
i8042_send(kb, keys) == FoldLeft(i8042_insert_keystroke, kb, keys)

i8042_read(kb, c) == [kb EXCEPT !.decoder = i8042_prepare_char(@, c)]

\* The loop of i8042_interrupt_handler, while the controller has codes.
i8042_interrupt_handler(kb, codes) ==
  LET Insert(b, c) == LET r == i8042_read(b, c) IN i8042_insert_keystroke(r, r.decoder.key)
  IN  [FoldLeft(Insert, kb, codes) EXCEPT !.decoder.key = NoKey]

KeyboardBefore ==
  [buffer |-> [i \in 0 .. KEYB_BUFF_SIZE - 1 |-> NoKey],
   first |-> 0, last |-> 0, size |-> 0,
   decoder |-> [multi_code |-> FALSE, key |-> NoKey, down |-> {}]]

\* i8042_init reads codes as long as they give keystrokes; what remains waits for
\* the first interrupt.
i8042_init(codes) ==
  LET Empty(r, c) ==
        IF r.stopped THEN [r EXCEPT !.codes = Append(@, c)]
        ELSE LET kb == i8042_read(r.kb, c)
             IN  [r EXCEPT !.kb.decoder = [kb.decoder EXCEPT !.key = NoKey],
                           !.stopped    = kb.decoder.key = NoKey]
  IN  FoldLeft(Empty, [kb |-> KeyboardBefore, stopped |-> FALSE, codes |-> <<>>], codes)

\* Asked for the last keystroke when buf_last is 0, the driver reads the word after
\* the array, which holds anything: here, "beyond".
ReadFirst(kb, flags) ==
  IF "ONLY_LAST" \notin flags THEN kb
  ELSE [kb EXCEPT !.first = IF kb.last > 0 THEN kb.last - 1 ELSE KEYB_BUFF_SIZE,
                  !.size  = 1]

NthKey(kb, n, beyond) ==
  IF n = 1 /\ kb.first = KEYB_BUFF_SIZE THEN beyond
  ELSE kb.buffer[(kb.first + n - 1) % KEYB_BUFF_SIZE]

\* How many keystrokes the do-while loop takes: with ONLY_ASCII, up to a character.
Taken(kb, flags, beyond) ==
  CHOOSE n \in 1 .. kb.size :
    LET Enough(i) == "ONLY_ASCII" \notin flags \/ NthKey(kb, i, beyond).ascii # NoChar
    IN  (n = kb.size \/ Enough(n)) /\ \A i \in 1 .. n - 1 : ~Enough(i)

i8042_get(kb, flags, beyond) ==
  IF kb.size = 0 THEN [kb |-> kb, key |-> NoKey]
  ELSE LET kb1  == ReadFirst(kb, flags)
           n    == Taken(kb1, flags, beyond)
           key  == NthKey(kb1, n, beyond)
           kb2  == IF "CLEAR_BUFFER" \in flags
                   THEN [kb1 EXCEPT !.first = 0, !.last = 0, !.size = 0]
                   ELSE [kb1 EXCEPT !.first = (@ + n) % KEYB_BUFF_SIZE, !.size = @ - n]
       IN  [kb |-> kb2, key |-> IF "ONLY_ASCII" \in flags THEN ASCII_KEY(key) ELSE key]

-----------------------------------------------------------------------------
\* For the properties: what is in the buffer, and the keystrokes codes will become.
Keystrokes(kb) ==
  [i \in 1 .. kb.size |-> kb.buffer[(kb.first + i - 1) % KEYB_BUFF_SIZE]]

Decoded(kb, codes) == i8042_interrupt_handler(kb, codes).decoder

\* A keystroke that came behind those in keys, while the keys in down were held.
Behind(keys, key, down) ==
  IF key = NoKey THEN keys ELSE Append(keys, [key EXCEPT !.down = @ \cup down])

Arrives(r, c) ==
  LET d == i8042_prepare_char(r.d, c)
  IN  [d |-> d, keys |-> Behind(r.keys, d.key, d.down)]

Arriving(kb, codes) == FoldLeft(Arrives, [d |-> kb.decoder, keys |-> <<>>], codes).keys

\* Those pushed back, as they are kept.
Stamped(kb, keys) ==
  LET Stamp(s, key) == Behind(s, key, kb.decoder.down) IN FoldLeft(Stamp, <<>>, keys)
=============================================================================
