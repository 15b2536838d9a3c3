------------------------------ MODULE ByteFiles ------------------------------
(***************************************************************************)
(* What fs_open, fs_read, fs_write and fs_close promise a program: a file  *)
(* is a sequence of bytes, a descriptor is a place in one, and what is     *)
(* read is what was last written there, through whichever descriptor.      *)
(***************************************************************************)
EXTENDS Integers, Sequences

CONSTANTS Names, Descriptors, MaxLength, ReadSizes, Texts, Absent, Closed

VARIABLES
  content,         \* the bytes of every file, or Absent
  cursor,          \* the file and offset of every descriptor, or Closed
  result           \* what the last read or write returned

vars == <<content, cursor, result>>

Init ==
  /\ content = [n \in Names |-> Absent]
  /\ cursor = [f \in Descriptors |-> Closed]
  /\ result = <<>>

\* s with its bytes from offset on replaced by bytes, longer if need be.
Patched(s, offset, bytes) ==
  LET end == offset + Len(bytes)
  IN  [k \in 1 .. (IF end > Len(s) THEN end ELSE Len(s)) |->
         IF offset < k /\ k <= end THEN bytes[k - offset] ELSE s[k]]

IsOpen(n) == \E f \in Descriptors : cursor[f] # Closed /\ cursor[f].name = n

Touch(n) ==
  /\ content[n] = Absent
  /\ content' = [content EXCEPT ![n] = <<>>]
  /\ UNCHANGED <<cursor, result>>

Remove(n) ==
  /\ content[n] # Absent /\ ~ IsOpen(n)
  /\ content' = [content EXCEPT ![n] = Absent]
  /\ UNCHANGED <<cursor, result>>

Open(f, n) ==
  /\ content[n] # Absent /\ cursor[f] = Closed
  /\ cursor' = [cursor EXCEPT ![f] = [name |-> n, offset |-> 0]]
  /\ UNCHANGED <<content, result>>

Close(f) ==
  /\ cursor[f] # Closed
  /\ cursor' = [cursor EXCEPT ![f] = Closed]
  /\ UNCHANGED <<content, result>>

\* The bytes from the cursor on, fewer than asked for only at the end.
Read(f, size) ==
  LET s == content[cursor[f].name]
      c == cursor[f].offset
      n == IF c + size > Len(s) THEN Len(s) - c ELSE size
  IN  /\ cursor[f] # Closed
      /\ result' = SubSeq(s, c + 1, c + n)
      /\ cursor' = [cursor EXCEPT ![f].offset = c + n]
      /\ UNCHANGED content

\* All the bytes, or as many as a file may be long.
Write(f, bytes) ==
  LET c    == cursor[f].offset
      n    == IF c + Len(bytes) > MaxLength THEN MaxLength - c ELSE Len(bytes)
      done == SubSeq(bytes, 1, n)
  IN  /\ cursor[f] # Closed
      /\ content' = [content EXCEPT ![cursor[f].name] = Patched(@, c, done)]
      /\ cursor' = [cursor EXCEPT ![f].offset = c + n]
      /\ result' = <<n>>

\* With no space left a write fails: it may have replaced bytes the file has,
\* it never makes the file longer, and the descriptor stays where it is.
WriteFails(f, bytes) ==
  LET s == content[cursor[f].name]
      c == cursor[f].offset
  IN  /\ cursor[f] # Closed
      /\ \E n \in 0 .. Len(s) - c :
           /\ n <= Len(bytes)
           /\ content' = [content EXCEPT ![cursor[f].name] =
                            Patched(s, c, SubSeq(bytes, 1, n))]
      /\ result' = <<-1>>
      /\ UNCHANGED cursor

Next ==
  \/ \E n \in Names :
       \/ Touch(n)
       \/ Remove(n)
       \/ \E f \in Descriptors : Open(f, n)
  \/ \E f \in Descriptors :
       \/ Close(f)
       \/ \E size \in ReadSizes : Read(f, size)
       \/ \E bytes \in Texts : Write(f, bytes) \/ WriteFails(f, bytes)

Spec == Init /\ [][Next]_vars
=============================================================================
