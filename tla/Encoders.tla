------------------------------ MODULE Encoders ------------------------------
(***************************************************************************)
(* How names become text in the answers: uri_encode and html_encode        *)
(* (utils.c) for the links and the names of a directory page, escape_uri   *)
(* (webdav.c) for the href of a PROPFIND answer.  A text is a sequence of  *)
(* bytes; each encoder stops when the buffer it was given is used up.      *)
(***************************************************************************)
EXTENDS CStrings

Hex(d) == IF d < 10 THEN d + 48 ELSE d + 87
Escaped(c) == <<PERCENT, Hex(c \div 16), Hex(c % 16)>>

(* The characters uri_encode escapes: ! " # $ % & ' ( ) * + , / : ; < = >  *)
(* ? @ [ \ ] and the blank.  The mutant forgets the percent sign.          *)
ReservedNoPercent == (32 .. 44 \cup {47} \cup 58 .. 64 \cup 91 .. 93) \ {PERCENT}
Reserved == 32 .. 44 \cup {47} \cup 58 .. 64 \cup 91 .. 93

UriEncode(origin, size) ==
  LET dest[i \in 0 .. Len(origin)] ==
        IF i = 0 THEN <<>>
        ELSE IF size - Len(dest[i - 1]) <= 2 THEN dest[i - 1]
        ELSE dest[i - 1] \o IF origin[i] \in Reserved THEN Escaped(origin[i]) ELSE <<origin[i]>>
  IN  dest[Len(origin)]

(* The entity html_encode puts for a character: &nbsp; &quot; &amp; &lt;   *)
(* &gt; or the character itself.                                           *)
Entity(c) == CASE c = 32 -> <<38, 110, 98, 115, 112, 59>>
               [] c = 34 -> <<38, 113, 117, 111, 116, 59>>
               [] c = 38 -> <<38, 97, 109, 112, 59>>
               [] c = 60 -> <<38, 108, 116, 59>>
               [] c = 62 -> <<38, 103, 116, 59>>
               [] OTHER  -> <<c>>

(* The first character that does not fit ends the text, so that no shorter *)
(* one behind it is taken.                                                 *)
HtmlEncode(origin, size) ==
  LET len[i \in 0 .. Len(origin)] ==
        IF i = 0 THEN 0 ELSE len[i - 1] + Len(Entity(origin[i]))
      dest[i \in 0 .. Len(origin)] ==
        IF i = 0 THEN <<>>
        ELSE IF len[i] >= size THEN dest[i - 1]
        ELSE dest[i - 1] \o Entity(origin[i])
  IN  dest[Len(origin)]

(* The characters escape_uri leaves as they are: letters, and - to 9.      *)
Plain(c) == c \in 65 .. 90 \cup 97 .. 122 \cup 45 .. 57

(* sprintf("%02x") of a char: a negative one, above 127, becomes eight     *)
(* digits, of which the next character overwrites all but the first two.   *)
EscapeUri(source, dest_size) ==
  LET step(c) == IF Plain(c) THEN <<c>> ELSE IF c > 127 THEN <<PERCENT, 102, 102>> ELSE Escaped(c)
      room[i \in 0 .. Len(source)] ==
        IF i = 0 THEN dest_size
        ELSE IF room[i - 1] < 4 THEN room[i - 1] ELSE room[i - 1] - Len(step(source[i]))
      done == CHOOSE n \in 0 .. Len(source) :
                /\ n = Len(source) \/ room[n] < 4
                /\ \A i \in 0 .. n - 1 : room[i] >= 4
      dest[i \in 0 .. done] == IF i = 0 THEN <<>> ELSE dest[i - 1] \o step(source[i])
      rest == IF done > 0 /\ source[done] > 127
              THEN <<102, 102, 102, 102>> \o Tail(Escaped(source[done])) ELSE <<>>
  IN  dest[done] \o rest
=============================================================================
