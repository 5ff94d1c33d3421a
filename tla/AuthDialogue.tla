---------------------------- MODULE AuthDialogue ----------------------------
(***************************************************************************)
(* auth_check_request (auth.c) with decode64 (base64.c), and the provider  *)
(* at the other end of the unix socket (external; auth.py is a sample).    *)
(* The server writes one message, a line each for the page, the address,   *)
(* the method, the name and the password, then the header, and grants the  *)
(* request when the provider closes the connection without an answer.  The *)
(* buffers for the field and for what it is decoded to are on the stack:   *)
(* what an earlier call left in them is still there.                       *)
(***************************************************************************)
EXTENDS CStrings

CONSTANTS PWDLIMIT,     \* half the size of the buffer for the credentials
          AUTHFAULTS,   \* what may fail: subset of AuthFaultKinds
          ADDRESS,      \* the client's address, as text
          Anonymous     \* a request without an Authorization field

AuthFaultKinds == {"connect", "malloc", "dies"}
ASSUME AuthFaultsTyped == AUTHFAULTS \subseteq AuthFaultKinds
ASSUME PwdlimitNat == PWDLIMIT \in Nat
ASSUME AddressPlain == ADDRESS \in Seq((0 .. 255) \ {CR})

VARIABLES auth,         \* where auth_check_request is
          configured,   \* weborf_conf.authsock is not NULL
          subject,      \* the page and the method of the request
          claim,        \* what the field holds, see ClaimType, or Anonymous
          username, password,    \* decoded credentials
          asock,        \* s, the socket: none, open, closed
          stranded,     \* why a socket was never closed
          line,         \* what read returns: silent, output, eof, reset
          provider,     \* idle, asked (a message waits), heard, gone
          heard,        \* the credentials the provider read
          verdict,      \* its decision on this request
          result        \* what auth_check_request returned

authVars == <<auth, configured, subject, claim, username, password, asock, stranded, line, provider, heard, verdict,
              result>>

AuthTypeOK ==
  /\ auth \in {"idle", "connect", "write", "read", "close", "done"}
  /\ asock \in {"none", "open", "closed"} /\ stranded \subseteq {"connect", "malloc", "end"}
  /\ line \in {"silent", "output", "eof", "reset"}
  /\ provider \in {"idle", "asked", "heard", "gone"}
  /\ verdict \in {"none", "grant", "deny"}
  /\ result \in {"none", "granted", "denied", "NOMEM"}

AuthInit ==
  /\ auth = "idle" /\ configured = FALSE /\ subject = <<(<<>>), (<<>>)>> /\ claim = Anonymous /\ username = <<>> /\ password = <<>>
  /\ asock = "none" /\ stranded = {} /\ line = "silent"
  /\ provider = "idle" /\ heard = <<>> /\ verdict = "none" /\ result = "none"

(* getCode: the six bits of a character; 0 for the padding.                *)
GetCode(c) ==
  CASE c \in 65 .. 90  -> c - 65
    [] c \in 97 .. 122 -> c - 71
    [] c \in 48 .. 57  -> c + 4
    [] c = 43          -> 62
    [] c = 47          -> 63
    [] OTHER           -> 0

(* decode4_64: three chars of four characters.                             *)
Decode4(g) == LET c == [k \in 1 .. 4 |-> GetCode(g[k])]
              IN  <<c[1] * 4 + (c[2] \div 16), ((c[2] * 16) % 256) + (c[3] \div 4),
                    ((c[3] * 64) % 256) + c[4]>>

(* decode64 turns once for every group of four, and looks for the end only *)
(* at the first character of a group: in a text of another length it steps *)
(* over the NUL, into what lies behind it.                                 *)
Stops(a) == {n \in 0 .. (Len(a) - 1) \div 4 : a[4 * n + 1] = NUL}
Turns(a) == CHOOSE n \in Stops(a) : \A m \in Stops(a) : n <= m
GroupBytes(a, n) == [i \in 1 .. 3 * n |->
                       Decode4(SubSeq(a, ((i - 1) \div 3) * 4 + 1, ((i - 1) \div 3) * 4 + 4))
                          [((i - 1) % 3) + 1]]

(* A C string: the bytes up to the first NUL.                              *)
CutAtNul(bytes) == Before(bytes, <<NUL>>)

(* The string decode64 leaves of the buffer a in a buffer that holds old:  *)
(* it writes nothing, no NUL either, when there is no group at all.        *)
Decode64(old, a) == IF Turns(a) = 0 THEN CutAtNul(old) ELSE CutAtNul(GroupBytes(a, Turns(a)))

Separator(text) == CHOOSE i \in 1 .. Len(text) :
                      text[i] = COLON /\ \A j \in 1 .. i - 1 : text[j] # COLON

(* What the client's encoder makes of three bytes, and of a credential:    *)
(* the definition of base64.                                               *)
CharOf(c) == IF c < 26 THEN c + 65 ELSE IF c < 52 THEN c + 71 ELSE IF c < 62 THEN c - 4
             ELSE IF c = 62 THEN 43 ELSE 47
Encoded(text) ==
  LET n == (Len(text) + 2) \div 3
      byte(i) == IF i <= Len(text) THEN text[i] ELSE 0
      sextets(x, y, z) == <<x \div 4, (x % 4) * 16 + (y \div 16), (y % 16) * 4 + (z \div 64), z % 64>>
      code(i) == LET k == (i + 3) \div 4
                 IN  sextets(byte(3 * k - 2), byte(3 * k - 1), byte(3 * k))[((i - 1) % 4) + 1]
      used == (Len(text) * 8 + 5) \div 6
  IN  [i \in 1 .. 4 * n |-> IF i <= used THEN CharOf(code(i)) ELSE 61]

(* What may stand behind "Authorization: Basic ": the base64 of a text, any*)
(* bytes at all, or bytes no CR LF follows as the head has a NUL there;    *)
(* and stale, what the stack holds behind the field, or in username.  Runs *)
(* of decode64 past the end of the buffer are left out: somewhere a group  *)
(* starts with a NUL.                                                      *)
AuthField(who) == IF who.form = "base64" THEN Encoded(who.text) ELSE who.text
Buffer(who) == AuthField(who) \o <<NUL>> \o who.stale
ClaimType(who) ==
  /\ who.form \in {"base64", "bytes", "open"}
  /\ who.text \in Seq(0 .. 255) /\ who.stale \in Seq(0 .. 255)
  /\ who.form # "base64" => \A i \in DOMAIN who.text : who.text[i] # NUL
  /\ Stops(Buffer(who)) # {}

Return(r) == auth' = "done" /\ result' = r

(* The part before the socket: what the field holds, if there is one, is  *)
(* decoded and split at the first colon.                                   *)
AuthCheck(on, who, page_, method_) ==
  LET header == AuthField(who)
      text == Decode64(who.stale, Buffer(who))
  IN /\ auth = "idle" /\ configured' = on /\ claim' = who /\ subject' = <<page_, method_>>
     /\ IF ~on
        THEN Return("granted") /\ UNCHANGED <<username, password>>
        ELSE IF who = Anonymous
        THEN auth' = "connect" /\ username' = <<>> /\ password' = <<>> /\ UNCHANGED result
        ELSE IF who.form = "open"
        THEN Return("denied") /\ UNCHANGED <<username, password>>
        ELSE IF Len(header) + 1 >= PWDLIMIT * 2
        THEN Return("NOMEM") /\ UNCHANGED <<username, password>>
        ELSE IF \A i \in 1 .. Len(text) : text[i] # COLON
        THEN Return("denied") /\ UNCHANGED <<username, password>>
        ELSE /\ auth' = "connect" /\ UNCHANGED result
             /\ username' = SubSeq(text, 1, Separator(text) - 1)
             /\ password' = SubSeq(text, Separator(text) + 1, Len(text))
     /\ UNCHANGED <<asock, stranded, line, provider, heard, verdict>>

(* socket and connect; a failed one returns at once, with the socket open. *)
AuthConnect ==
  /\ auth = "connect"
  /\ \/ "connect" \in AUTHFAULTS /\ stranded' = stranded \cup {"connect"} /\ Return("denied")
     \/ "malloc" \in AUTHFAULTS /\ stranded' = stranded \cup {"malloc"} /\ Return("denied")
     \/ auth' = "write" /\ UNCHANGED <<stranded, result>>
  /\ asock' = "open" /\ line' = "silent"
  /\ UNCHANGED <<configured, subject, claim, username, password, provider, heard, verdict>>

(* write: short when the provider is gone.                                 *)
AuthWrite ==
  /\ auth = "write"
  /\ IF provider = "gone" THEN auth' = "close" /\ result' = "denied" /\ UNCHANGED provider
                          ELSE auth' = "read" /\ provider' = "asked" /\ UNCHANGED result
  /\ UNCHANGED <<configured, subject, claim, username, password, asock, stranded, line, heard, verdict>>

(* read of one byte: 0 grants, a byte or an error does not.  The mutant    *)
(* grants whenever no byte was read.                                       *)
ReadGrantsLoose == line \in {"eof", "reset"}
ReadGrants == line = "eof"
AuthRead ==
  /\ auth = "read" /\ line # "silent"
  /\ auth' = "close" /\ result' = IF ReadGrants THEN "granted" ELSE "denied"
  /\ UNCHANGED <<configured, subject, claim, username, password, asock, stranded, line, provider, heard, verdict>>

(* close(s).                                                               *)
AuthClose ==
  /\ auth = "close" /\ auth' = "done" /\ asock' = "closed"
  /\ UNCHANGED <<configured, subject, claim, username, password, stranded, line, provider, heard, verdict, result>>

(* The message, up to the header, and the lines of a text.                 *)
CRLF == <<CR, LF>>
Line(text) == text \o CRLF
Message == Line(subject[1]) \o (Line(ADDRESS) \o (Line(subject[2]) \o (Line(username) \o Line(password))))
FirstLine(text) == Before(text, CRLF)
OtherLines(text) == SubSeq(text, Len(FirstLine(text)) + 3, Len(text))

(* The provider reads the whole message, takes the fourth line for the     *)
(* name and the fifth for the password, and decides: silence grants.       *)
ProviderReads ==
  /\ provider = "asked" /\ provider' = "heard"
  /\ LET fourth == OtherLines(OtherLines(OtherLines(Message)))
     IN  heard' = <<FirstLine(fourth), FirstLine(OtherLines(fourth))>>
  /\ UNCHANGED <<auth, configured, subject, claim, username, password, asock, stranded, line, verdict, result>>
ProviderDecides ==
  /\ provider = "heard" /\ verdict = "none"
  /\ \/ verdict' = "grant" /\ line' = "eof"
     \/ verdict' = "deny" /\ line' = "output"
  /\ UNCHANGED <<auth, configured, subject, claim, username, password, asock, stranded, provider, heard, result>>

(* It dies: a message it has not read resets the connection, one it has    *)
(* read ends it as a grant does.                                           *)
ProviderDies ==
  /\ "dies" \in AUTHFAULTS /\ auth \in {"write", "read"} /\ provider # "gone"
  /\ provider' = "gone"
  /\ line' = IF line # "silent" THEN line
             ELSE CASE provider = "asked" -> "reset"
                    [] provider = "heard" -> "eof"
                    [] OTHER              -> "silent"
  /\ UNCHANGED <<auth, configured, subject, claim, username, password, asock, stranded, heard, verdict, result>>

AuthStep == AuthConnect \/ AuthWrite \/ AuthRead \/ AuthClose \/ ProviderReads
            \/ ProviderDecides \/ ProviderDies

(* The next request: the provider, started again if it died, is asked anew.*)
AuthReset ==
  /\ auth' = "idle" /\ asock' = "none" /\ line' = "silent" /\ provider' = "idle"
  /\ heard' = <<>> /\ verdict' = "none" /\ result' = "none"
  /\ UNCHANGED <<configured, subject, claim, username, password, stranded>>

(* Requests with any page and any field, one after the other.              *)
Claims == {w \in [form : {"base64", "bytes", "open"}, text : Seq(0 .. 255), stale : Seq(0 .. 255)] : ClaimType(w)}
AuthNext == \/ \E on \in BOOLEAN, who \in {Anonymous} \cup Claims, page_, method_ \in Seq(0 .. 255) :
                 AuthCheck(on, who, page_, method_)
            \/ AuthStep \/ AuthReset
AuthSpec == AuthInit /\ [][AuthNext]_authVars
-----------------------------------------------------------------------------
(* A request is granted only when the provider, having read the message,   *)
(* decided to grant it, or none is configured; a denial, an unreachable    *)
(* provider and one that dies before it reads never grant.  Excepted: a    *)
(* provider that dies after it read the message and before it answers ends *)
(* the connection just as a grant does.                                    *)
GrantMeansGranted ==
  (auth = "done" /\ configured) =>
    /\ result = "granted" => verdict = "grant" \/ (provider = "gone" /\ verdict = "none")
    /\ result = "granted" => heard # <<>>

(* The provider decides on the name and the password the client encoded:   *)
(* decode64, the split at the first colon and the lines of the message     *)
(* give them back, padding or not, with no byte an earlier request left on *)
(* the stack.  Of a field that is no base64 it is told what its groups of  *)
(* four stand for.  Excepted: what follows a NUL in the credentials is     *)
(* lost; behind the groups of a field whose length is no multiple of four, *)
(* and for an empty field, come bytes of the stack; and a CR LF in the     *)
(* decoded page, the method or the credentials shifts the lines, so that   *)
(* the provider takes others for the name and the password.                *)
Unbroken == \A text \in {subject[1], subject[2], username, password} : FirstLine(text) = text
StartsWith(text, start) == Len(start) <= Len(text) /\ \A i \in 1 .. Len(start) : text[i] = start[i]
CredentialsDelivered ==
  (heard # <<>> /\ Unbroken) =>
    IF claim = Anonymous THEN heard = <<(<<>>), (<<>>)>>
    ELSE LET told == heard[1] \o <<COLON>> \o heard[2]
             field == AuthField(claim)
             whole == CutAtNul(GroupBytes(field, Len(field) \div 4))
         IN  /\ \A i \in DOMAIN heard[1] : heard[1][i] # COLON
             /\ StartsWith(told, whole)
             /\ field # <<>> /\ Len(field) % 4 = 0 => told = whole
             /\ claim.form = "base64" /\ field # <<>> => told = CutAtNul(claim.text)

(* The socket to the provider is closed on every way out but the two       *)
(* returns after a failed connect and a failed malloc.                     *)
AuthSocketClosed ==
  auth = "done" => asock # "open" \/ stranded \cap {"connect", "malloc"} # {}

(* All three: who is let in is who the provider let in, and asking it      *)
(* leaves no descriptor behind.                                            *)
AuthRight == GrantMeansGranted /\ CredentialsDelivered /\ AuthSocketClosed
=============================================================================
