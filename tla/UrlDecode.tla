----------------------------- MODULE UrlDecode -----------------------------
(***************************************************************************)
(* utils::url_decode, as a function on strings of character codes, and the *)
(* encoding it undoes.  The host of an ICE server's URL goes through it.   *)
(***************************************************************************)
EXTENDS Integers, Sequences

PERCENT == 37   \* '%'

IsDigit(c) == c \in 48 .. 57

IsXDigit(c) == IsDigit(c) \/ c \in (65 .. 70) \cup (97 .. 102)

HexValue(c) == IF c <= 57 THEN c - 48 ELSE IF c <= 70 THEN c - 55 ELSE c - 87

\* A '%' and the two characters after it, which are there and hexadecimal.
EscapeAt(str, i) ==
  /\ i + 2 <= Len(str) /\ str[i] = PERCENT
  /\ IsXDigit(str[i + 1]) /\ IsXDigit(str[i + 2])

\* Seeded fault: the digits of an escape are not skipped.
url_decode_stays(str) ==
  LET result[i \in 1 .. Len(str) + 1] ==
        IF i > Len(str) THEN <<>>
        ELSE <<IF EscapeAt(str, i) THEN 16 * HexValue(str[i + 1]) + HexValue(str[i + 2])
               ELSE str[i]>> \o result[i + 1]
  IN  result[1]

\* What the loop makes of str from position i on.  A '%' that begins no escape
\* is a character like any other.
url_decode(str) ==
  LET result[i \in 1 .. Len(str) + 1] ==
        IF i > Len(str) THEN <<>>
        ELSE IF EscapeAt(str, i)
          THEN <<16 * HexValue(str[i + 1]) + HexValue(str[i + 2])>> \o result[i + 3]
          ELSE <<str[i]>> \o result[i + 1]
  IN  result[1]

-----------------------------------------------------------------------------
(* Percent-encoding, as RFC 3986 has it *)

HexDigit(v) == IF v < 10 THEN 48 + v ELSE 55 + v

\* s with the characters at the places of "escaped" escaped, and every '%'.
Encoded(s, escaped) ==
  LET enc[n \in 0 .. Len(s)] ==
        IF n = 0 THEN <<>>
        ELSE enc[n - 1] \o
               (IF n \in escaped \/ s[n] = PERCENT
                  THEN <<PERCENT, HexDigit(s[n] \div 16), HexDigit(s[n] % 16)>>
                  ELSE <<s[n]>>)
  IN  enc[Len(s)]
=============================================================================
