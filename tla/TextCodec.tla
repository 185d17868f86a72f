------------------------------ MODULE TextCodec ------------------------------
(***************************************************************************)
(* util_posix.c: how paths and subtitle files become UTF-16 and paths go   *)
(* back to UTF-8.  A text is a sequence of 16-bit units, a file a sequence *)
(* of bytes.                                                               *)
(***************************************************************************)
EXTENDS Integers, Sequences, SequencesExt

Rest(s, k) == SubSeq(s, k + 1, Len(s))

High == 55296 .. 56319        \* 0xD800 .. 0xDBFF
Low == 56320 .. 57343         \* 0xDC00 .. 0xDFFF

\* The units of a character, which may be a surrogate by itself.
Units(cp) ==
  IF cp < 65536 THEN <<cp>>
  ELSE <<55296 + (cp - 65536) \div 1024, 56320 + ((cp - 65536) % 1024)>>

(***************************************************************************)
(* fl_wchar_to_utf8                                                        *)
(***************************************************************************)
Paired(w) == w[1] \in High /\ Len(w) > 1 /\ w[2] \in Low

\* Mutant of Char: a pair is put together without the offset of its plane.
MutChar(w) == IF Paired(w) THEN (w[1] - 55296) * 1024 + (w[2] - 56320) ELSE w[1]

\* The character with which w begins.
Char(w) ==
  IF Paired(w) THEN 65536 + (w[1] - 55296) * 1024 + (w[2] - 56320) ELSE w[1]

Tailing(cp, shift) == 128 + ((cp \div shift) % 64)

Utf8(cp) ==
  CASE cp < 128 -> <<cp>>
    [] cp \in 128 .. 2047 -> <<192 + cp \div 64, Tailing(cp, 1)>>
    [] cp \in 2048 .. 65535 -> <<224 + cp \div 4096, Tailing(cp, 64), Tailing(cp, 1)>>
    [] OTHER -> <<240 + cp \div 262144, Tailing(cp, 4096), Tailing(cp, 64), Tailing(cp, 1)>>

\* room: bufsz - 1.  A character is written while all but its last byte fit.
RECURSIVE WcharToUtf8(_, _)
WcharToUtf8(w, room) ==
  IF w = << >> \/ w[1] = 0 \/ room <= 0 \/ room < Len(Utf8(Char(w))) - 1 THEN << >>
  ELSE Utf8(Char(w)) \o WcharToUtf8(Rest(w, IF Paired(w) THEN 2 ELSE 1),
                                    room - Len(Utf8(Char(w))))

\* What it leaves in a buffer of room + 1 bytes, or behind it: the terminator
\* comes after the last character wherever that ends.
Terminated(w, room) == WcharToUtf8(w, room) \o <<0>>

(***************************************************************************)
(* Reading                                                                 *)
(***************************************************************************)
\* Length of a character by its first byte, as fl_utf8_to_str_db takes it.
Width(b) ==
  CASE b < 128 -> 1 [] b \in 192 .. 223 -> 2 [] b \in 224 .. 239 -> 3 [] OTHER -> 4

\* The character in the first k bytes.
Decoded(s, k) ==
  FoldLeft(LAMBDA cp, b : cp * 64 + (b % 64),
           s[1] % (CASE k = 1 -> 128 [] k = 2 -> 32 [] k = 3 -> 16 [] OTHER -> 8),
           SubSeq(s, 2, k))

\* fl_utf8_to_str_db, of a string that fl_wchar_to_utf8 or the system wrote.
RECURSIVE Utf8ToStrDb(_)
Utf8ToStrDb(s) ==
  IF s = << >> THEN << >>
  ELSE Units(Decoded(s, Width(s[1]))) \o Utf8ToStrDb(Rest(s, Width(s[1])))

\* FlTestUtf8: lead bytes are followed by the bytes they call for.
TestUtf8(s) ==
  LET Step(rem, b) ==
        CASE rem < 0 -> rem
          [] rem > 0 -> IF b \in 128 .. 191 THEN rem - 1 ELSE -1
          [] OTHER -> IF b < 128 THEN 0
                      ELSE IF b \in 192 .. 247 THEN Width(b) - 1 ELSE -1
  IN  FoldLeft(Step, 0, s) = 0

\* FlDecodeUtf8: a byte that begins nothing, or not enough, is replaced.
RECURSIVE DecodeUtf8(_)
DecodeUtf8(s) ==
  IF s = << >> THEN << >>
  ELSE IF s[1] \in (0 .. 127) \cup (192 .. 247) /\ Width(s[1]) <= Len(s)
    THEN Units(Decoded(s, Width(s[1]))) \o DecodeUtf8(Rest(s, Width(s[1])))
    ELSE <<65533>> \o DecodeUtf8(Tail(s))

\* FlTextDecodeUtf16; an odd byte at the end is lost.
DecodeUtf16(bigEndian, s) ==
  [i \in 1 .. Len(s) \div 2 |->
     IF bigEndian THEN 256 * s[2 * i - 1] + s[2 * i] ELSE s[2 * i - 1] + 256 * s[2 * i]]

Utf8Bom == <<239, 187, 191>>
LittleBom == <<255, 254>>
BigBom == <<254, 255>>

\* FlTextDecode: by the byte order mark, or as UTF-8, or each byte a character;
\* less than four bytes are no text.
TextDecode(s) ==
  CASE Len(s) < 4 -> << >>
    [] Len(s) >= 4 /\ IsPrefix(Utf8Bom, s) -> DecodeUtf8(Rest(s, 3))
    [] Len(s) >= 4 /\ IsPrefix(LittleBom, s) -> DecodeUtf16(FALSE, Rest(s, 2))
    [] Len(s) >= 4 /\ IsPrefix(BigBom, s) -> DecodeUtf16(TRUE, Rest(s, 2))
    [] OTHER -> IF TestUtf8(s) THEN DecodeUtf8(s) ELSE s
=============================================================================
