------------------------------- MODULE Keyboard -------------------------------
(***************************************************************************)
(* The keyboard driver: what a scan code stands for, what it puts on the   *)
(* screen, and what it does to the read that waits for it.                 *)
(***************************************************************************)
EXTENDS Terminal, Text

SHIFT_PRESS       == 42
L_CTRL_PRESS      == 156     \* the code of Enter released
KEY_RELEASED      == 128
EXTENDED_SCANCODE == 224

\* Neighbouring keys, from the scan code of the first.
Keys(code, chars) == [k \in code .. code + Len(chars) - 1 |-> chars[k - code + 1]]

\* Codes nothing assigns are 0, as in any array of static storage.
Map(codes) == codes @@ [k \in 0 .. KEY_RELEASED - 1 |-> NUL]

keymap == Map(
  Keys(1, <<"esc", "1", "2", "3", "4", "5", "6", "7", "8", "9", "0", "-", "=", "bs",
            "\t", "q", "w", "e", "r", "t", "y", "u", "i", "o", "p", "[", "]", "\n">>)
  @@ Keys(30, <<"a", "s", "d", "f", "g", "h", "j", "k", "l", ";", "quote", "backquote">>)
  @@ Keys(43, <<"\\", "z", "x", "c", "v", "b", "n", "m", ",", ".", "/">>)
  @@ Keys(57, <<" ">>))

shift_keymap == Map(
  Keys(1, <<"esc", "!", "@", "#", "$", "%", "^", "&", "*", "(", ")", "_", "+", "bs",
            "\t", "Q", "W", "E", "R", "T", "Y", "U", "I", "O", "P", "{", "}", "\n">>)
  @@ Keys(30, <<"A", "S", "D", "F", "G", "H", "J", "K", "L", ":", "\"", "~">>)
  @@ Keys(43, <<"|", "Z", "X", "C", "V", "B", "N", "M", "<", ">", "?">>)
  @@ Keys(57, <<" ">>))

\* shift_pressed after a code; ctrl_pressed is read nowhere.
keyboard_modifier_keys(scancode, shift) ==
  CASE scancode = SHIFT_PRESS                -> TRUE
    [] scancode = SHIFT_PRESS + KEY_RELEASED -> FALSE
    [] OTHER                                 -> shift

\* Codes that end the handler before the keymap is looked at.
Ignored(scancode) ==
  scancode = SHIFT_PRESS \/ scancode = L_CTRL_PRESS \/ scancode >= KEY_RELEASED

\* The character of a key, NUL for a key without one.
Character(scancode, shift) ==
  IF keymap[scancode] \in {"esc", "\t"} \/ ~ shift
  THEN keymap[scancode] ELSE shift_keymap[scancode]

Echoed(t, c) ==
  CASE c = "esc" -> vga_text_clear(t)
    [] c = "\t"  -> vga_text_write(t, <<Blank, Blank, Blank, Blank>>)
    [] c = "bs"  -> vga_text_backspace(t)
    [] c = NUL   -> t
    [] OTHER     -> vga_text_write(t, <<c>>)

\* A process_t's state and reading_state, with the memory buffer points to and
\* eax of its saved registers.
Idle == [blocked |-> FALSE, size |-> 0, count |-> 0, bytes |-> <<>>, eax |-> 0]

Reads(r, c) == r.blocked /\ r.size > 0 /\ c \notin {"esc", "\t", NUL}

\* Broken variant: a backspace is counted though nothing was typed.
Delivered_Unguarded(r, c) ==
  LET back  == c = "bs"
      count == IF back THEN r.count - 1 ELSE r.count + 1
      bytes == IF back THEN r.bytes ELSE [r.bytes EXCEPT ![count] = c]
  IN  IF ~ Reads(r, c) THEN r
      ELSE IF count >= r.size \/ c = "\n"
      THEN [blocked |-> FALSE, size |-> 0, count |-> 0, bytes |-> bytes, eax |-> count]
      ELSE [r EXCEPT !.count = count, !.bytes = bytes]

\* The key goes to the read that waits, if one does; the last one wakes it.
Delivered(r, c) ==
  LET back  == c = "bs"
      count == IF ~ back THEN r.count + 1 ELSE IF r.count > 0 THEN r.count - 1 ELSE 0
      bytes == IF back THEN [r.bytes EXCEPT ![count + 1] = NUL]
               ELSE [r.bytes EXCEPT ![count] = c]
  IN  IF ~ Reads(r, c) THEN r
      ELSE IF count >= r.size \/ c = "\n"
      THEN [blocked |-> FALSE, size |-> 0, count |-> 0, bytes |-> bytes, eax |-> count]
      ELSE [r EXCEPT !.count = count, !.bytes = bytes]
=============================================================================
