------------------------------ MODULE CStrings ------------------------------
(***************************************************************************)
(* C strings in a memory, and the helpers of mystring.c on them.  A memory *)
(* is a function from addresses to bytes (0..255); a string is the address *)
(* of its first byte and goes up to the first NUL.  Nothing is copied: the *)
(* helpers change the memory in place, and what lies behind the new end of *)
(* a shortened string stays where it was.                                  *)
(***************************************************************************)
EXTENDS Integers, Sequences

NUL == 0
LF == 10
CR == 13
SP == 32
PERCENT == 37
COMMA == 44
DOT == 46
SLASH == 47
COLON == 58
QMARK == 63
NULL == -1          \* the null pointer

(* strlen: the first NUL at or after p.                                    *)
StrEnd(mem, p) == CHOOSE i \in DOMAIN mem :
                     i >= p /\ mem[i] = NUL /\ \A j \in p .. i - 1 : mem[j] # NUL
StrLen(mem, p) == StrEnd(mem, p) - p
CText(mem, p) == [i \in 1 .. StrLen(mem, p) |-> mem[p + i - 1]]

(* strstr: the first occurrence of pat in the string at p, or NULL.        *)
StrStr(mem, p, pat) ==
  LET hits == {i \in p .. StrEnd(mem, p) - Len(pat) :
                  \A k \in 1 .. Len(pat) : mem[i + k - 1] = pat[k]}
  IN  IF hits = {} THEN NULL ELSE CHOOSE i \in hits : \A j \in hits : i <= j

(* delChar(string, 0, n): a string shorter than n stays as it is.          *)
DelChar(mem, p, n) ==
  LET l == StrLen(mem, p) - n
  IN  IF l < 0 THEN mem
      ELSE [i \in DOMAIN mem |-> IF i = p + l THEN NUL
                                 ELSE IF i \in p .. p + l - 1 THEN mem[i + n]
                                 ELSE mem[i]]

(* strReplace(string, substr, with), with a NUL: the string ends at the    *)
(* replaced character, so the loop turns once.                             *)
StrReplace(mem, p, substr) ==
  LET hit == StrStr(mem, p, substr)
  IN  IF hit = NULL THEN mem
      ELSE [DelChar(mem, hit, Len(substr) - 1) EXCEPT ![hit] = NUL]

(* strtol(e_seq, NULL, 16) stored in a char, for the two characters of an  *)
(* escape: a blank or a sign before one digit, a digit and something else, *)
(* and what is no number at all, included.                                 *)
IsHex(c) == c \in 48 .. 57 \cup 65 .. 70 \cup 97 .. 102
HexDigit(c) == IF c <= 57 THEN c - 48 ELSE IF c <= 70 THEN c - 55 ELSE c - 87
Strtol16(a, b) ==
  CASE IsHex(a) /\ IsHex(b)           -> 16 * HexDigit(a) + HexDigit(b)
    [] IsHex(a) /\ ~IsHex(b)          -> HexDigit(a)
    [] a \in {9, SP, 43} /\ IsHex(b)  -> HexDigit(b)
    [] a = 45 /\ IsHex(b)             -> (256 - HexDigit(b)) % 256
    [] OTHER                          -> 0

(* One turn of the loop of replaceEscape, at the percent sign at p.        *)
Unescape(mem, p) ==
  [DelChar(mem, p, 2) EXCEPT ![p] = Strtol16(mem[p + 1], mem[p + 2])]

(* endsWith(page + page_len - f_len, end, f_len, f_len): strcmp at the     *)
(* place where the end should start, whatever is there.                    *)
EndsWith(mem, p, end) == CText(mem, p) = end

(* s up to, and without, the first occurrence of pat.                      *)
Before(s, pat) ==
  LET hits == {i \in 1 .. Len(s) - Len(pat) + 1 : SubSeq(s, i, i + Len(pat) - 1) = pat}
  IN  IF hits = {} THEN s
      ELSE SubSeq(s, 1, (CHOOSE i \in hits : \A j \in hits : i <= j) - 1)
=============================================================================
