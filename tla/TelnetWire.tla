----------------------------- MODULE TelnetWire -----------------------------
(***************************************************************************)
(* The bytes of a Telnet session (telnet-session.js): parseTelnet, which   *)
(* reads each chunk of the socket on its own, and what telnetWrite and     *)
(* telnetResize send; against a reading of RFC 854 byte by byte, which     *)
(* stands for the other side and for the stream as a whole.                *)
(***************************************************************************)
EXTENDS Naturals, Sequences

CONSTANTS
  Chunks,    \* what the socket may deliver at once
  Inputs,    \* what the user may type or paste at once
  Columns,   \* widths of the terminal
  MaxBytes,  \* bound on the bytes received
  MaxKeys,   \* bound on the bytes typed
  MaxSent    \* bound: the user types or resizes only below it

Octet == 0..255
Unit == {u \in Nat : u < 65536}   \* what a string is made of

ASSUME TelnetAssumption ==
  /\ Chunks \subseteq Seq(Octet) /\ Inputs \subseteq Seq(Unit)
  /\ Columns \subseteq Nat
  /\ MaxBytes \in Nat /\ MaxKeys \in Nat /\ MaxSent \in Nat

VARIABLES
  received,  \* the bytes the server sent, up to the last chunk
  misread,   \* some chunk was one that parseTelnet cannot read (Unreadable)
  shown,     \* the bytes the terminal got
  sent,      \* the bytes written to the socket
  typed,     \* the characters the user typed
  cols,      \* the session's cols
  naws,      \* its nawsEnabled
  undoubled  \* some width that was sent has a byte 255, which buildNaws does not double

telnetVars == <<received, misread, shown, sent, typed, cols, naws, undoubled>>

IAC == 255  DONT == 254  DO == 253  WONT == 252  WILL == 251  SB == 250  SE == 240
ECHO == 1   SGA == 3     TTYPE == 24  NAWS == 31
IS == 0     SEND == 1
Rows == 24
XTerm == <<TTYPE, IS, 120>>    \* TTYPE IS "xterm-256color", shortened

\* The two bytes of a width.
High(c) == (c \div 256) % 256
Low(c) == c % 256
Plain(c) == High(c) # IAC /\ Low(c) # IAC

\* Mutant: the width is written as one byte.
BuildNawsUnsplit(c) == <<IAC, SB, NAWS, 0, c, 0, Rows, IAC, SE>>

\* buildNaws
BuildNaws(c) == <<IAC, SB, NAWS, High(c), Low(c), 0, Rows, IAC, SE>>

\* What parseTelnet answers to a command with an option.
OptionReply(cmd, opt, c) ==
  CASE cmd = WILL -> <<IAC, IF opt \in {ECHO, SGA} THEN DO ELSE DONT, opt>>
    [] cmd = DO /\ opt = NAWS -> <<IAC, WILL, NAWS>> \o BuildNaws(c)
    [] cmd = DO /\ opt \in {TTYPE, SGA} -> <<IAC, WILL, opt>>
    [] cmd = DO /\ opt \notin {NAWS, TTYPE, SGA} -> <<IAC, WONT, opt>>
    [] OTHER -> <<>>

SubReply(sub) ==
  IF Len(sub) >= 2 /\ sub[1] = TTYPE /\ sub[2] = SEND
  THEN <<IAC, SB>> \o XTerm \o <<IAC, SE>>
  ELSE <<>>

-----------------------------------------------------------------------------
(* parseTelnet of one chunk: pass by pass of its loop.                      *)

\* One pass: the index it leaves, and what it adds to output and responses.
Pass(to, out, says, asked) == [to |-> to, out |-> out, says |-> says, naws |-> asked]

\* Mutant: the option byte of WONT and DONT is not consumed.
OptionCommandsAnsweredOnly == {WILL, DO}
OptionCommands == {WILL, WONT, DO, DONT}

\* Where a subnegotiation that begins at i can end: an IAC followed by SE.
SubEnds(raw, i) == {j \in i..(Len(raw) - 1) : raw[j] = IAC /\ raw[j + 1] = SE}
SubEnd(raw, i) == CHOOSE j \in SubEnds(raw, i) : \A k \in SubEnds(raw, i) : j <= k

ParseStep(raw, i, c) ==
  LET Break == Pass(Len(raw) + 1, <<>>, <<>>, FALSE) IN
  IF raw[i] # IAC THEN Pass(i + 1, <<raw[i]>>, <<>>, FALSE)
  ELSE IF i = Len(raw) THEN Break
  ELSE CASE raw[i + 1] = IAC -> Pass(i + 2, <<IAC>>, <<>>, FALSE)
         [] raw[i + 1] \in OptionCommands ->
              IF i + 2 > Len(raw) THEN Break
              ELSE Pass(i + 3, <<>>, OptionReply(raw[i + 1], raw[i + 2], c),
                        raw[i + 1] = DO /\ raw[i + 2] = NAWS)
         [] raw[i + 1] = SB ->
              IF SubEnds(raw, i + 2) = {} THEN Break
              ELSE LET e == SubEnd(raw, i + 2)
                   IN Pass(e + 2, <<>>, SubReply(SubSeq(raw, i + 2, e - 1)), FALSE)
         [] OTHER -> Pass(i + 2, <<>>, <<>>, FALSE)

Nothing == [out |-> <<>>, says |-> <<>>, naws |-> FALSE]
Then(pass, rest) ==
  [out |-> pass.out \o rest.out, says |-> pass.says \o rest.says, naws |-> pass.naws \/ rest.naws]

\* Loop(raw, c)[i] is what the loop adds from index i on.
Loop(raw, c) ==
  LET loop[i \in 1..(Len(raw) + 1)] ==
        IF i > Len(raw) THEN Nothing
        ELSE Then(ParseStep(raw, i, c), loop[ParseStep(raw, i, c).to])
  IN loop

ParseTelnet(raw, c) == Loop(raw, c)[1]

\* Buffer.from(data, 'binary') keeps the low byte of each character.
Binary(keys) == [i \in DOMAIN keys |-> keys[i] % 256]

\* Mutant: telnetWrite sends what was typed as it is.
EscapedNot(bytes) == bytes

\* telnetWrite: 0xFF is doubled.  Escapes(bytes)[i] is what its loop has after i bytes.
Doubled(b) == IF b = IAC THEN <<b, b>> ELSE <<b>>
Escapes(bytes) ==
  LET escaped[i \in 0..Len(bytes)] ==
        IF i = 0 THEN <<>> ELSE escaped[i - 1] \o Doubled(bytes[i])
  IN escaped
Escaped(bytes) == Escapes(bytes)[Len(bytes)]

-----------------------------------------------------------------------------
(* The reference: RFC 854 one byte at a time.  `out` is the text, `subs`    *)
(* the subnegotiations that are complete, `sub` the one under way.          *)

Ground == [mode |-> "data", sub |-> <<>>, out |-> <<>>, subs |-> <<>>]

Byte(s, b) ==
  CASE s.mode = "data" ->
         IF b = IAC THEN [s EXCEPT !.mode = "iac"] ELSE [s EXCEPT !.out = Append(@, b)]
    [] s.mode = "iac" ->
         CASE b = IAC -> [s EXCEPT !.mode = "data", !.out = Append(@, IAC)]
           [] b \in {WILL, WONT, DO, DONT} -> [s EXCEPT !.mode = "option"]
           [] b = SB -> [s EXCEPT !.mode = "sub", !.sub = <<>>]
           [] OTHER -> [s EXCEPT !.mode = "data"]
    [] s.mode = "option" -> [s EXCEPT !.mode = "data"]
    [] s.mode = "sub" ->
         IF b = IAC THEN [s EXCEPT !.mode = "subiac"] ELSE [s EXCEPT !.sub = Append(@, b)]
    [] s.mode = "subiac" ->
         IF b = SE THEN [s EXCEPT !.mode = "data", !.subs = Append(@, s.sub)]
         ELSE [s EXCEPT !.mode = "sub", !.sub = IF b = IAC THEN Append(@, IAC) ELSE @ \o <<IAC, b>>]

\* Reads(s, bytes)[i] is the state after i bytes, from state s.
Reads(s, bytes) ==
  LET state[i \in 0..Len(bytes)] == IF i = 0 THEN s ELSE Byte(state[i - 1], bytes[i])
  IN state
After(s, bytes) == Reads(s, bytes)[Len(bytes)]
Reading(bytes) == After(Ground, bytes)

(* What parseTelnet cannot read, coming to a chunk in state s: one that     *)
(* ends inside a command, of which it forgets the beginning, and one with a *)
(* 255 of a subnegotiation's data, doubled, and the data byte 240 after it, *)
(* which it takes for the end.                                              *)
Unreadable(s, raw) ==
  \/ After(s, raw).mode # "data"
  \/ \E i \in 1..(Len(raw) - 1) :
       Reads(s, raw)[i].mode = "sub" /\ raw[i] = IAC /\ raw[i + 1] = SE

-----------------------------------------------------------------------------

TelnetInit ==
  /\ received = <<>> /\ misread = FALSE /\ shown = <<>>
  /\ sent = <<>> /\ typed = <<>>
  /\ cols \in Columns /\ naws = FALSE /\ undoubled = FALSE

TelnetData ==
  \E raw \in Chunks :
    LET r == ParseTelnet(raw, cols) IN
    /\ Len(received) + Len(raw) <= MaxBytes
    /\ received' = received \o raw
    /\ misread' = (misread \/ Unreadable(Reading(received), raw))
    /\ shown' = shown \o r.out
    /\ sent' = sent \o r.says
    /\ naws' = (naws \/ r.naws)
    /\ undoubled' = (undoubled \/ (r.naws /\ ~Plain(cols)))
    /\ UNCHANGED <<typed, cols>>

TelnetWrite ==
  \E keys \in Inputs :
    /\ Len(typed) + Len(keys) <= MaxKeys /\ Len(sent) < MaxSent
    /\ typed' = typed \o keys
    /\ sent' = sent \o Escaped(Binary(keys))
    /\ UNCHANGED <<received, misread, shown, cols, naws, undoubled>>

TelnetResize ==
  \E c \in Columns \ {cols} :
    /\ Len(sent) < MaxSent
    /\ cols' = c
    /\ sent' = IF naws THEN sent \o BuildNaws(c) ELSE sent
    /\ undoubled' = (undoubled \/ (naws /\ ~Plain(c)))
    /\ UNCHANGED <<received, misread, shown, typed, naws>>

TelnetWireNext == TelnetData \/ TelnetWrite \/ TelnetResize

TelnetWireSpec == TelnetInit /\ [][TelnetWireNext]_telnetVars

TelnetTypeOK ==
  /\ received \in Seq(Octet) /\ shown \in Seq(Octet)
  /\ sent \in Seq(Octet) /\ typed \in Seq(Unit)
  /\ misread \in BOOLEAN /\ undoubled \in BOOLEAN
  /\ naws \in BOOLEAN /\ cols \in Columns

-----------------------------------------------------------------------------
(* Properties *)

(* Chunk by chunk, parseTelnet shows the same text as a reading of the      *)
(* whole stream, up to the first chunk it cannot read.                      *)
TextRead == ~misread => shown = Reading(received).out

(* Whatever was answered in between, the server reads as text the low       *)
(* bytes of what the user typed and nothing else, and once it asked for the *)
(* terminal's size, the last size it was told is the current one: as long   *)
(* as every width it was told had no byte 255.                              *)
Size(c) == <<NAWS, High(c), Low(c), 0, Rows>>
SizeKnown(subs, c) ==
  \E i \in DOMAIN subs :
    /\ subs[i] = Size(c)
    /\ \A j \in DOMAIN subs : j > i => subs[j] = <<>> \/ subs[j][1] # NAWS
ServerReads ==
  LET r == Reading(sent) IN
  ~undoubled => /\ r.mode = "data" /\ r.out = Binary(typed)
                /\ naws => SizeKnown(r.subs, cols)
=============================================================================
